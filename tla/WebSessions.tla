---------------------------- MODULE WebSessions ----------------------------
(***************************************************************************)
(* What lets a request in: the web sessions that every sign-in records     *)
(* (auth.py), passwordless links, API keys and the revocation list of      *)
(* access tokens (oauth/service.py).  The routes are threadpool threads;   *)
(* each of the steps below is one round trip to the database, and others   *)
(* commit between any two.  What is signed, hashed, listed and logged is   *)
(* left out: a token is known by its jti, a key or a link by its hash.     *)
(***************************************************************************)
EXTENDS Naturals, FiniteSets

CONSTANTS Threads, Users, Tokens, Links, Keys, AccessTokens, None

ASSUME CredentialsApart ==
  /\ IsFiniteSet(Threads)
  /\ Tokens \cap Links = {} /\ Tokens \cap Keys = {} /\ Tokens \cap AccessTokens = {}
  /\ Links \cap Keys = {} /\ Links \cap AccessTokens = {} /\ Keys \cap AccessTokens = {}
  /\ None \notin Users \cup Tokens \cup Links \cup Keys \cup AccessTokens

VARIABLES accounts,  \* the ids in the users table
          sessions,  \* jti -> row of oauth_refresh_tokens with the web client's id
          links,     \* link -> row of passwordless_tokens
          keys,      \* API key -> row of api_keys
          revoked,   \* the jtis in oauth_revoked_access_tokens
          held,      \* the web tokens clients have been answered -> the account they name
          request    \* what each thread serves

tables == <<accounts, sessions, links, keys, revoked>>
vars == <<accounts, sessions, links, keys, revoked, held, request>>

Credentials == Tokens \cup Links \cup Keys \cup AccessTokens

\* `spent` stands for revoked, used and expired: each is final.
Row == [user: Users, spent: BOOLEAN]
SessionRow == [user: Users, spent: BOOLEAN,
               via: Links \cup {None}]  \* history: the link that opened it

\* "matched": the sender of links has found the account; "authenticated": so has a
\* sign-in; "minted": its token is made; "recorded": it has a row; "unused" and "live": a
\* link or a key was read and found good; "redeemed" and "touched": it has been written;
\* "admitted": the route runs for the account.
Request == [op: {"none", "signin", "link", "redeem", "serve"},
            stage: {"idle", "matched", "authenticated", "minted", "recorded", "unused", "redeemed",
                    "live", "touched", "admitted"},
            user: Users \cup {None}, cred: Credentials \cup {None},
            token: Tokens \cup {None}]

Idle == [op |-> "none", stage |-> "idle", user |-> None, cred |-> None, token |-> None]

At(th, stage) == request[th].stage = stage
Insert(table, k, row) == [x \in DOMAIN table \cup {k} |-> IF x = k THEN row ELSE table[x]]
RowOf(u) == [user |-> u, spent |-> FALSE]
Spend(table, k) == [table EXCEPT ![k].spent = TRUE]

Known(table, k) == k \in DOMAIN table
Unspent(table, k) == Known(table, k) /\ ~table[k].spent

\* User.get_user, and what becomes of the request when there is no such account.
GetUser(u) == IF u \in accounts THEN u ELSE None
Loaded_Unchecked(u) == TRUE  \* mutant
Loaded(u) == u # None

Move(th, new) == request' = [request EXCEPT ![th] = new]

-----------------------------------------------------------------------------
Init ==
  /\ accounts = Users
  /\ sessions = [t \in {} |-> None] /\ links = [l \in {} |-> None] /\ keys = [k \in {} |-> None]
  /\ revoked = {} /\ held = [t \in {} |-> None]
  /\ request = [th \in Threads |-> Idle]

\* login_for_access_token and google_callback once the password or Google has vouched
\* for the account.
Authenticate(th, u) ==
  /\ At(th, "idle") /\ u \in accounts
  /\ Move(th, [Idle EXCEPT !.op = "signin", !.stage = "authenticated", !.user = u])
  /\ UNCHANGED <<tables, held>>

\* _issue_and_record: create_access_token makes the token, record_web_session commits
\* its row, and only then is it answered.
CreateAccessToken(th, t) ==
  /\ At(th, "authenticated")
  /\ t \notin DOMAIN sessions /\ \A other \in Threads : request[other].token # t
  /\ Move(th, [request[th] EXCEPT !.stage = "minted", !.token = t])
  /\ UNCHANGED <<tables, held>>

RecordWebSession(th) ==
  /\ At(th, "minted")
  /\ sessions' = Insert(sessions, request[th].token,
                        [user |-> request[th].user, spent |-> FALSE, via |-> request[th].cred])
  /\ Move(th, [request[th] EXCEPT !.stage = "recorded"])
  /\ UNCHANGED <<accounts, links, keys, revoked, held>>

Answerable_Unrecorded == {"minted", "recorded"}  \* mutant
Answerable == {"recorded"}

AnswerToken(th) ==
  /\ request[th].stage \in Answerable
  /\ held' = [t \in DOMAIN held \cup {request[th].token} |->
               IF t = request[th].token THEN request[th].user ELSE held[t]]
  /\ Move(th, Idle)
  /\ UNCHANGED tables

\* request_passwordless_login: the account is looked up, the row is committed, and the
\* link is mailed.
MatchUser(th, u) ==
  /\ At(th, "idle") /\ u \in accounts
  /\ Move(th, [Idle EXCEPT !.op = "link", !.stage = "matched", !.user = u])
  /\ UNCHANGED <<tables, held>>

SendLink(th, l) ==
  /\ At(th, "matched") /\ l \notin DOMAIN links
  /\ links' = Insert(links, l, RowOf(request[th].user))
  /\ Move(th, Idle)
  /\ UNCHANGED <<accounts, sessions, keys, revoked, held>>

\* verify_passwordless_login: the row is read and checked, then marked used, then its
\* account is loaded (none: AttributeError, and the link stays used).
Redeemable_Always(l) == Known(links, l)  \* mutant
Redeemable(l) == Unspent(links, l)

ReadLink(th, l) ==
  /\ At(th, "idle") /\ Redeemable(l)
  /\ Move(th, [Idle EXCEPT !.op = "redeem", !.stage = "unused", !.cred = l])
  /\ UNCHANGED <<tables, held>>

MarkUsed(th) ==
  /\ At(th, "unused")
  /\ links' = Spend(links, request[th].cred)
  /\ Move(th, [request[th] EXCEPT !.stage = "redeemed"])
  /\ UNCHANGED <<accounts, sessions, keys, revoked, held>>

LoadUser(th) ==
  LET u == GetUser(links[request[th].cred].user) IN
  /\ At(th, "redeemed")
  /\ Move(th, IF Loaded(u) THEN [request[th] EXCEPT !.stage = "authenticated", !.user = u]
                          ELSE Idle)
  /\ UNCHANGED <<tables, held>>

ExpireLink(l) ==
  /\ Unspent(links, l)
  /\ links' = Spend(links, l)
  /\ UNCHANGED <<accounts, sessions, keys, revoked, held, request>>

-----------------------------------------------------------------------------
\* get_current_user with a web token: one lookup, in which a missing row is a live
\* session (is_web_session_revoked).  The account is the one the token names; it is not
\* looked up.  The token's own expiry is left out: it only takes away.
WebSessionRevoked(t) == Known(sessions, t) /\ sessions[t].spent

CheckToken(th, t) ==
  /\ At(th, "idle") /\ t \in DOMAIN held /\ ~WebSessionRevoked(t)
  /\ Move(th, [Idle EXCEPT !.op = "serve", !.stage = "admitted", !.user = held[t], !.cred = t])
  /\ UNCHANGED <<tables, held>>

\* get_current_user with an API key: verify_api_key reads the row, then writes last_used_at
\* and nothing else; then the account is loaded.
ReadKey(th, k) ==
  /\ At(th, "idle") /\ Unspent(keys, k)
  /\ Move(th, [Idle EXCEPT !.op = "serve", !.stage = "live", !.cred = k])
  /\ UNCHANGED <<tables, held>>

Touched_WholeRow(row) == [row EXCEPT !.spent = FALSE]  \* mutant
Touched(row) == row

TouchKey(th) ==
  LET k == request[th].cred IN
  /\ At(th, "live")
  /\ keys' = [keys EXCEPT ![k] = Touched(keys[k])]
  /\ Move(th, [request[th] EXCEPT !.stage = "touched"])
  /\ UNCHANGED <<accounts, sessions, links, revoked, held>>

LoadKeyOwner(th) ==
  LET u == GetUser(keys[request[th].cred].user) IN
  /\ At(th, "touched")
  /\ Move(th, IF Loaded(u) THEN [request[th] EXCEPT !.stage = "admitted", !.user = u] ELSE Idle)
  /\ UNCHANGED <<tables, held>>

\* The routes of an admitted request: create_api_key, revoke_api_key, revoke_session.
\* Only the rows of the caller's account match.
CreateApiKey(th, k) ==
  /\ At(th, "admitted") /\ ~Known(keys, k)
  /\ keys' = Insert(keys, k, RowOf(request[th].user))
  /\ Move(th, Idle)
  /\ UNCHANGED <<accounts, sessions, links, revoked, held>>

RevokeApiKey(th, k) ==
  /\ At(th, "admitted") /\ Known(keys, k) /\ keys[k].user = request[th].user
  /\ keys' = Spend(keys, k)
  /\ Move(th, Idle)
  /\ UNCHANGED <<accounts, sessions, links, revoked, held>>

RevokeSession(th, t) ==
  /\ At(th, "admitted") /\ Known(sessions, t) /\ sessions[t].user = request[th].user
  /\ sessions' = Spend(sessions, t)
  /\ Move(th, Idle)
  /\ UNCHANGED <<accounts, links, keys, revoked, held>>

\* revoke_access_token inserts the jti: a second insertion breaks the primary key and
\* changes nothing.
RevokeAccessToken(a) ==
  /\ a \notin revoked
  /\ revoked' = revoked \cup {a}
  /\ UNCHANGED <<accounts, sessions, links, keys, held, request>>

\* User.delete_user: none of these tables refers to the account by a foreign key.
DeleteUser(u) ==
  /\ u \in accounts
  /\ accounts' = accounts \ {u}
  /\ UNCHANGED <<sessions, links, keys, revoked, held, request>>

\* A request dies: an error of the database, or the end of the process.
Abort(th) ==
  /\ ~At(th, "idle")
  /\ Move(th, Idle)
  /\ UNCHANGED <<tables, held>>

Next ==
  \/ \E th \in Threads :
       \/ \E u \in Users : Authenticate(th, u) \/ MatchUser(th, u)
       \/ \E t \in Tokens : CreateAccessToken(th, t) \/ CheckToken(th, t) \/ RevokeSession(th, t)
       \/ RecordWebSession(th) \/ AnswerToken(th)
       \/ \E l \in Links : SendLink(th, l) \/ ReadLink(th, l)
       \/ MarkUsed(th) \/ LoadUser(th)
       \/ \E k \in Keys : ReadKey(th, k) \/ CreateApiKey(th, k) \/ RevokeApiKey(th, k)
       \/ TouchKey(th) \/ LoadKeyOwner(th) \/ Abort(th)
  \/ \E l \in Links : ExpireLink(l)
  \/ \E u \in Users : DeleteUser(u)
  \/ \E a \in AccessTokens : RevokeAccessToken(a)

Spec == Init /\ [][Next]_vars

-----------------------------------------------------------------------------
\* Types: the rows and the requests have the fields the code gives them.
TypeOK ==
  /\ accounts \subseteq Users
  /\ DOMAIN sessions \subseteq Tokens /\ \A t \in DOMAIN sessions : sessions[t] \in SessionRow
  /\ DOMAIN links \subseteq Links /\ \A l \in DOMAIN links : links[l] \in Row
  /\ DOMAIN keys \subseteq Keys /\ \A k \in DOMAIN keys : keys[k] \in Row
  /\ revoked \subseteq AccessTokens
  /\ DOMAIN held \subseteq Tokens /\ \A t \in DOMAIN held : held[t] \in Users
  /\ request \in [Threads -> Request]

\* No client holds a web token without a row: every one of them is on the sessions page
\* and can be revoked, although a missing row counts as a live session
\* (auth.py:137-148, oauth/service.py:406-412).
HeldTokensListed ==
  \A t \in DOMAIN held : t \in DOMAIN sessions /\ sessions[t].user = held[t]

\* A link opens no more sessions than there were requests in flight when it was first
\* marked used: after that it opens none, whoever repeats it (oauth/service.py:532-541).
LinkSessionsOverlap ==
  \A l \in Links :
    Cardinality({t \in DOMAIN sessions : sessions[t].via = l}) <= Cardinality(Threads)

\* Whatever is done meanwhile with a session, a key or a link that is no longer good,
\* nothing makes it good again (oauth/service.py:349-360, 486-488, 500-511, 539).
RevocationSticks ==
  [][/\ \A t \in DOMAIN sessions : sessions[t].spent => sessions'[t].spent
     /\ \A k \in DOMAIN keys : keys[k].spent => keys'[k].spent
     /\ \A l \in DOMAIN links : links[l].spent => links'[l].spent
     /\ revoked \subseteq revoked']_vars
=============================================================================
