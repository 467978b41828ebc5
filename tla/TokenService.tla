---------------------------- MODULE TokenService ----------------------------
(***************************************************************************)
(* The authorization server's credential tables and the handlers of        *)
(* POST /oauth/authorize, POST /oauth/token, POST /oauth/revoke and        *)
(* DELETE /auth/sessions/{id}  (oauth/router.py, oauth/service.py,         *)
(* auth.py).                                                               *)
(*                                                                         *)
(* A table is a function from primary keys to rows.  A worker is one       *)
(* uvicorn process: its event loop runs one async handler at a time, and   *)
(* after its only await (resolve_client, before anything is read)          *)
(* a token request runs to the end without giving the loop up.  Its        *)
(* transactions are separate steps all the same, because the revocation    *)
(* endpoints are plain `def` routes: they run on threadpool threads and    *)
(* commit between any two of them.  A request that is refused without      *)
(* having written anything is a stuttering step and is not listed.         *)
(***************************************************************************)
EXTENDS Naturals, FiniteSets

CONSTANTS Workers,       \* uvicorn processes sharing the database
          Codes,         \* authorization codes (the pool fresh ones come from)
          Tokens,        \* refresh tokens (likewise)
          LegacyTokens,  \* those that may date from before family_id existed
          Clients,       \* registered OAuth clients
          Users,         \* a resource owner, with the scope and resource granted
          None           \* the SQL NULL

ASSUME ConstantsOK ==
  /\ LegacyTokens \subseteq Tokens
  /\ Codes \cap Tokens = {}
  /\ None \notin Codes \cup Tokens \cup Clients \cup Users

VARIABLES codes,      \* oauth_authorization_codes: key -> row
          tokens,     \* oauth_refresh_tokens: key -> row
          handler,    \* the token request each event loop is executing
          derived,    \* history: <<credential redeemed, refresh token issued>>
          closed,     \* history: families a revocation or a reuse has ended
          killed      \* history: families a DELETE /auth/sessions answered 204 for

history == <<derived, closed, killed>>
vars == <<codes, tokens, handler, derived, closed, killed>>

CodeRow  == [client: Clients, user: Users, used: BOOLEAN, expired: BOOLEAN]
TokenRow == [client: Clients, user: Users, revoked: BOOLEAN, expired: BOOLEAN,
             family: Tokens \cup {None}]

\* "code_ok" and "refresh_ok": every check on the row read has passed and
\* nothing is written yet; "reused": the row read was revoked; "issue": the
\* credential is spent and the new pair is not stored yet.
Stage == {"idle", "code_ok", "refresh_ok", "reused", "issue"}

Handler == [stage: Stage, credential: Codes \cup Tokens \cup {None},
            client: Clients \cup {None}, user: Users \cup {None},
            family: Tokens \cup {None}]

Serving(stage, credential, client, user, family) ==
  [stage |-> stage, credential |-> credential, client |-> client, user |-> user,
   family |-> family]
Idle == Serving("idle", None, None, None, None)

\* A row is added to a table under a fresh key.
Insert(table, key, row) ==
  [k \in DOMAIN table \cup {key} |-> IF k = key THEN row ELSE table[k]]

\* A family id is drawn afresh when a lineage starts; the token that starts it
\* stands for it.
FamilyOf(t) == tokens[t].family
Unrevoked(t) == t \in DOMAIN tokens /\ ~tokens[t].revoked

\* Some event loop has decided to rotate t and has not stored the successor.
Rotating(t) == \E w \in Workers : /\ handler[w].stage \in {"refresh_ok", "issue"}
                                  /\ handler[w].credential = t

-----------------------------------------------------------------------------
Init ==
  /\ codes = [c \in {} |-> None]
  /\ \E old \in SUBSET LegacyTokens :
       tokens \in [old -> {r \in TokenRow : ~r.revoked /\ ~r.expired /\ r.family = None}]
  /\ handler = [w \in Workers |-> Idle]
  /\ derived = {} /\ closed = {} /\ killed = {}

\* authorize_submit: the user approved and authenticated.
AuthorizeSubmit(w, c, cl, u) ==
  /\ handler[w].stage = "idle"
  /\ c \in Codes \ DOMAIN codes
  /\ codes' = Insert(codes, c, [client |-> cl, user |-> u,
                                used |-> FALSE, expired |-> FALSE])
  /\ UNCHANGED <<tokens, handler, history>>

\* The checks of consume_authorization_code; the redirect_uri and the PKCE
\* verifier are bound to the code as its client is, and stand or fall with it.
CodeAccepted_Replayed(row, cl) == ~row.expired /\ row.client = cl  \* mutant
CodeAccepted(row, cl) == ~row.used /\ ~row.expired /\ row.client = cl

ReadCode(w, c, cl) ==
  /\ handler[w].stage = "idle"
  /\ c \in DOMAIN codes
  /\ CodeAccepted(codes[c], cl)
  /\ handler' = [handler EXCEPT ![w] =
                   Serving("code_ok", c, cl, codes[c].user, None)]
  /\ UNCHANGED <<codes, tokens, history>>

ConsumeCode(w) ==
  /\ handler[w].stage = "code_ok"
  /\ codes' = [codes EXCEPT ![handler[w].credential].used = TRUE]
  /\ handler' = [handler EXCEPT ![w].stage = "issue"]
  /\ UNCHANGED <<tokens, history>>

\* The JWT-bearer grant: the assertion was verified (see the README for what
\* precedes) and names a local user; a pair is issued from no stored credential.
BearerGrant(w, cl, u) ==
  /\ handler[w].stage = "idle"
  /\ handler' = [handler EXCEPT ![w] = Serving("issue", None, cl, u, None)]
  /\ UNCHANGED <<codes, tokens, history>>


\* refresh_token_grant, the row read is revoked: the token was spent before.
ReadRevoked(w, t, cl) ==
  /\ handler[w].stage = "idle"
  /\ t \in DOMAIN tokens
  /\ tokens[t].revoked
  /\ FamilyOf(t) # None      \* a legacy row is only refused
  /\ handler' = [handler EXCEPT ![w] = Serving("reused", t, cl, None, None)]
  /\ UNCHANGED <<codes, tokens, history>>

\* The rows of t's family lose whatever life they had left, in one UPDATE.
RevokedAsFamilyOf_OnlyRow(t) == [tokens EXCEPT ![t].revoked = TRUE]  \* mutant
RevokedAsFamilyOf(t) ==
  [k \in DOMAIN tokens |->
     [tokens[k] EXCEPT !.revoked = @ \/ tokens[k].family = FamilyOf(t)]]

RevokeFamily(w) ==
  LET t == handler[w].credential IN
  /\ handler[w].stage = "reused"
  /\ tokens' = RevokedAsFamilyOf(t)
  /\ closed' = closed \cup {FamilyOf(t)}
  /\ handler' = [handler EXCEPT ![w] = Idle]
  /\ UNCHANGED <<codes, derived, killed>>

\* The checks of refresh_token_grant after the one for reuse.
RefreshAccepted_AnyClient(row, cl) == ~row.expired  \* mutant
RefreshAccepted(row, cl) == ~row.expired /\ row.client = cl

ReadRefreshToken(w, t, cl) ==
  /\ handler[w].stage = "idle"
  /\ t \in DOMAIN tokens
  /\ ~tokens[t].revoked
  /\ RefreshAccepted(tokens[t], cl)
  /\ handler' = [handler EXCEPT ![w] =
                   Serving("refresh_ok", t, cl, tokens[t].user, FamilyOf(t))]
  /\ UNCHANGED <<codes, tokens, history>>

\* What a transaction that revokes t leaves: the row stays, revoked.
Revoke_NoCommit(t) == UNCHANGED tokens  \* mutant
Revoke(t) == tokens' = [tokens EXCEPT ![t].revoked = TRUE]

\* The first commit of a rotation: the token presented is spent.
RotateRefreshToken(w) ==
  /\ handler[w].stage = "refresh_ok"
  /\ Revoke(handler[w].credential)
  /\ handler' = [handler EXCEPT ![w].stage = "issue"]
  /\ UNCHANGED <<codes, history>>

\* issue_token_pair: the access token is only signed (it is stored nowhere),
\* the refresh token is a row of its own transaction.  Without a family to
\* carry on, t starts one.
IssuedFamily_AlwaysFresh(family, t) == t  \* mutant
IssuedFamily(family, t) == IF family = None THEN t ELSE family

NewRow_NoOwner(h, t) ==  \* mutant
  [client |-> h.client, user |-> None, revoked |-> FALSE, expired |-> FALSE,
   family |-> IssuedFamily(h.family, t)]
NewRow(h, t) ==
  [client |-> h.client, user |-> h.user, revoked |-> FALSE, expired |-> FALSE,
   family |-> IssuedFamily(h.family, t)]

IssueTokenPair(w, t) ==
  LET h == handler[w] IN
  /\ h.stage = "issue"
  /\ t \in Tokens \ DOMAIN tokens
  /\ tokens' = Insert(tokens, t, NewRow(h, t))
  /\ handler' = [handler EXCEPT ![w] = Idle]
  /\ derived' = derived \cup (IF h.credential = None THEN {}
                              ELSE {<<h.credential, t>>})
  /\ UNCHANGED <<codes, closed, killed>>

\* The process dies, or the database refuses a step: what was committed stays.
Abort(w) ==
  /\ handler[w].stage # "idle"
  /\ handler' = [handler EXCEPT ![w] = Idle]
  /\ UNCHANGED <<codes, tokens, history>>

-----------------------------------------------------------------------------
(* The revocation endpoints.  Each reads the row and sets revoked in one    *)
(* transaction; no statement ever clears the flag, so the commit is the     *)
(* only point where the request meets another one.                          *)

\* A revocation ends a lineage when it hits the token the lineage lives by.
Ended(t) == IF Unrevoked(t) /\ ~Rotating(t) THEN {FamilyOf(t)} \ {None} ELSE {}

\* revoke_refresh_token, from POST /oauth/revoke.
RevokeRefreshToken(t) ==
  /\ t \in DOMAIN tokens
  /\ Revoke(t)
  /\ closed' = closed \cup Ended(t)
  /\ UNCHANGED <<codes, handler, derived, killed>>

\* revoke_session: a row of this user, whatever its state; the answer is 204.
RevokeSession(u, t) ==
  /\ t \in DOMAIN tokens
  /\ tokens[t].user = u
  /\ Revoke(t)
  /\ closed' = closed \cup Ended(t)
  /\ killed' = killed \cup ({FamilyOf(t)} \ {None})
  /\ UNCHANGED <<codes, handler, derived>>

\* Time passes an expires_at.
ExpireCode(c) ==
  /\ c \in DOMAIN codes /\ ~codes[c].expired
  /\ codes' = [codes EXCEPT ![c].expired = TRUE]
  /\ UNCHANGED <<tokens, handler, history>>

ExpireToken(t) ==
  /\ t \in DOMAIN tokens /\ ~tokens[t].expired
  /\ tokens' = [tokens EXCEPT ![t].expired = TRUE]
  /\ UNCHANGED <<codes, handler, history>>

Next ==
  \/ \E w \in Workers, c \in Codes, cl \in Clients, u \in Users :
       AuthorizeSubmit(w, c, cl, u)
  \/ \E w \in Workers, c \in Codes, cl \in Clients : ReadCode(w, c, cl)
  \/ \E w \in Workers : ConsumeCode(w)
  \/ \E w \in Workers, cl \in Clients, u \in Users : BearerGrant(w, cl, u)
  \/ \E w \in Workers, t \in Tokens, cl \in Clients : ReadRevoked(w, t, cl)
  \/ \E w \in Workers : RevokeFamily(w)
  \/ \E w \in Workers, t \in Tokens, cl \in Clients : ReadRefreshToken(w, t, cl)
  \/ \E w \in Workers : RotateRefreshToken(w)
  \/ \E w \in Workers, t \in Tokens : IssueTokenPair(w, t)
  \/ \E w \in Workers : Abort(w)
  \/ \E t \in Tokens : RevokeRefreshToken(t)
  \/ \E u \in Users, t \in Tokens : RevokeSession(u, t)
  \/ \E c \in Codes : ExpireCode(c)
  \/ \E t \in Tokens : ExpireToken(t)

Spec == Init /\ [][Next]_vars

-----------------------------------------------------------------------------
\* Types: every row and every handler record is one the code can build.
TypeOK ==
  /\ DOMAIN codes \subseteq Codes  /\ \A c \in DOMAIN codes : codes[c] \in CodeRow
  /\ DOMAIN tokens \subseteq Tokens
  /\ \A t \in DOMAIN tokens : tokens[t] \in TokenRow
  /\ handler \in [Workers -> Handler]
  /\ derived \subseteq (Codes \cup Tokens) \X Tokens
  /\ closed \subseteq Tokens /\ killed \subseteq Tokens

\* An authorization code or a refresh token yields at most one pair, whatever
\* is revoked, replayed or aborted meanwhile (service.py:194, 308; README:288).
RedeemedOnce == \A d, e \in derived : d[1] = e[1] => d = e

\* A lineage never has two live refresh tokens (README:288-290).
OneLivePerFamily ==
  \A s, t \in DOMAIN tokens :
    Unrevoked(s) /\ Unrevoked(t) /\ FamilyOf(s) = FamilyOf(t) /\ FamilyOf(s) # None
      => s = t

\* Once reuse was detected, or the live token of a lineage was revoked with no
\* rotation of it under way, no later request brings the lineage back to life
\* (service.py:282-302).
ClosedStaysClosed ==
  \A t \in DOMAIN tokens : FamilyOf(t) \in closed => ~Unrevoked(t)

\* Whatever a pair was redeemed from was bound to the same client and the same
\* owner, and a rotation stays in its family (service.py:189, 305, 314-317).
GrantPreserved ==
  \A d \in derived :
    IF d[1] \in Codes
      THEN /\ tokens[d[2]].client = codes[d[1]].client
           /\ tokens[d[2]].user = codes[d[1]].user
      ELSE /\ tokens[d[2]].client = tokens[d[1]].client
           /\ tokens[d[2]].user = tokens[d[1]].user
           /\ FamilyOf(d[1]) # None => FamilyOf(d[2]) = FamilyOf(d[1])

-----------------------------------------------------------------------------
(* What one worker promises of each login: SessionLineage, seen through this *)
(* mapping.  A session lives by the token that is unrevoked, or that the     *)
(* event loop is trading for its successor.                                  *)
Holds(t) == Unrevoked(t) \/ Rotating(t)
Holders(s) == {t \in DOMAIN tokens : FamilyOf(t) = s /\ Holds(t)}
Phase(s) == IF s \notin DOMAIN tokens \/ \A t \in DOMAIN tokens : FamilyOf(t) # s
              THEN "new"
              ELSE IF Holders(s) = {} THEN "closed" ELSE "open"
Current(s) == IF Holders(s) = {} THEN None ELSE CHOOSE t \in Holders(s) : TRUE

Lineage == INSTANCE SessionLineage
             WITH phase <- [s \in Tokens |-> Phase(s)],
                  current <- [s \in Tokens |-> Current(s)],
                  seen <- {t \in DOMAIN tokens : FamilyOf(t) # None}

\* A login's session changes hands one fresh token at a time and never reopens,
\* whatever revocations and aborts fall between the steps of a rotation.
ImplementsLineage == Lineage!Spec

-----------------------------------------------------------------------------
\* "lets a user see (and kill) each of their logged-in devices individually"
\* (oauth/models.py:90-93): after DELETE /auth/sessions has answered 204 for
\* a device, that device's lineage has no live refresh token.
KilledDeviceStaysOut ==
  \A t \in DOMAIN tokens : FamilyOf(t) \in killed => ~Unrevoked(t)

=============================================================================
