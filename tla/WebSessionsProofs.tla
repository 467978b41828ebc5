------------------------- MODULE WebSessionsProofs -------------------------
(***************************************************************************)
(* Proofs about WebSessions for any number of threads, accounts and        *)
(* credentials.  The invariant says what each stage of a request knows of  *)
(* tables that others change under it; the tables only grow, and a row     *)
(* keeps its account and, once spent, stays so (Grows).  A second one      *)
(* (LinksInv) counts what a link has opened and may still open: sessions,  *)
(* and requests that have read it unused, are no more than the threads.    *)
(***************************************************************************)
EXTENDS WebSessions, FiniteSetTheorems, TLAPS

Grows(old, new) ==
  /\ DOMAIN old \subseteq DOMAIN new
  /\ \A x \in DOMAIN old : new[x].user = old[x].user /\ (old[x].spent => new[x].spent)

TablesGrow ==
  /\ Grows(sessions, sessions') /\ Grows(links, links') /\ Grows(keys, keys')
  /\ revoked \subseteq revoked'

\* What a request knows at its stage.
Doing(q, sess, lnks, ks) ==
  /\ q.stage \in {"matched", "authenticated", "minted", "recorded", "admitted"} => q.user \in Users
  /\ q.stage \in {"authenticated", "minted", "recorded"} => q.cred \in Links \cup {None}
  /\ q.stage = "minted" => q.token \in Tokens \ DOMAIN sess
  /\ q.stage = "recorded" => q.token \in DOMAIN sess /\ sess[q.token].user = q.user
  /\ q.stage \in {"unused", "redeemed"} => q.cred \in DOMAIN lnks
  /\ q.stage \in {"live", "touched"} => q.cred \in DOMAIN ks

RequestsSound == \A th \in Threads : Doing(request[th], sessions, links, keys)

TokensApart ==
  \A a, b \in Threads : request[a].token = request[b].token => a = b \/ request[a].token = None

WebInv == TypeOK /\ HeldTokensListed /\ RequestsSound /\ TokensApart

-----------------------------------------------------------------------------
\* An idle thread claims nothing of the tables.
LEMMA IdleSound ==
  ASSUME NEW s, NEW l, NEW k
  PROVE  Idle \in Request /\ Idle.token = None /\ Doing(Idle, s, l, k)
BY DEF Idle, Request, Doing

\* A table that gains a row, and one in which a row is spent.
LEMMA InsertGrows ==
  ASSUME NEW T, NEW k, NEW row, k \notin DOMAIN T
  PROVE  /\ DOMAIN Insert(T, k, row) = DOMAIN T \cup {k}
         /\ Insert(T, k, row)[k] = row
         /\ \A x \in DOMAIN T : Insert(T, k, row)[x] = T[x]
         /\ Grows(T, Insert(T, k, row))
BY DEF Insert, Grows

\* A table in which a row is spent has grown.
LEMMA SpendGrows ==
  ASSUME NEW T, NEW k \in DOMAIN T, NEW R,
         \A x \in DOMAIN T : T[x] \in R,
         R = Row \/ R = SessionRow
  PROVE  /\ DOMAIN Spend(T, k) = DOMAIN T
         /\ \A x \in DOMAIN T : Spend(T, k)[x] \in R
         /\ Grows(T, Spend(T, k))
<1> DEFINE S == Spend(T, k)
<1>1. DOMAIN S = DOMAIN T /\ \A x \in DOMAIN T : x # k => S[x] = T[x]
  BY DEF Spend
<1>2. T[k] \in R
  OBVIOUS
<1>3. S[k] \in R /\ S[k].user = T[k].user /\ S[k].spent
  <2>1. CASE R = Row
    BY <1>2, <2>1 DEF Row, Spend
  <2>2. CASE R = SessionRow
    BY <1>2, <2>2 DEF SessionRow, Spend
  <2> QED BY <2>1, <2>2
<1> QED BY <1>1, <1>3 DEF Grows

\* So has one that stays as it is.
LEMMA SameGrows == ASSUME NEW T PROVE Grows(T, T)
BY DEF Grows

\* What a request knows survives what others do to the tables, as long as nobody
\* records the token it has made.
LEMMA DoingKept ==
  ASSUME NEW q, NEW s, NEW l, NEW k, NEW s2, NEW l2, NEW k2,
         Doing(q, s, l, k), Grows(s, s2), Grows(l, l2), Grows(k, k2),
         q.stage = "minted" => q.token \notin DOMAIN s2
  PROVE  Doing(q, s2, l2, k2)
BY DEF Doing, Grows

\* One request moves on to r; the others keep what they know.
LEMMA Moves ==
  ASSUME WebInv, TablesGrow, NEW th \in Threads, NEW r \in Request, Move(th, r),
         Doing(r, sessions', links', keys'),
         \A o \in Threads \ {th} :
           /\ request[o].stage = "minted" => request[o].token \notin DOMAIN sessions'
           /\ r.token # None => request[o].token # r.token
  PROVE  request' \in [Threads -> Request] /\ RequestsSound' /\ TokensApart'
<1>1. /\ request' \in [Threads -> Request] /\ request'[th] = r
      /\ \A o \in Threads \ {th} : request'[o] = request[o]
  BY DEF Move, WebInv, TypeOK
<1>2. \A o \in Threads : Doing(request'[o], sessions', links', keys')
  BY <1>1, DoingKept DEF WebInv, RequestsSound, TablesGrow
<1>3. TokensApart'
  BY <1>1 DEF TokensApart, WebInv
<1> QED BY <1>1, <1>2, <1>3 DEF RequestsSound

\* The requests stay as they are, whatever grows but the sessions.
LEMMA Stays ==
  ASSUME WebInv, TablesGrow, UNCHANGED <<sessions, request>>
  PROVE  request' \in [Threads -> Request] /\ RequestsSound' /\ TokensApart'
<1>1. \A o \in Threads : Doing(request[o], sessions', links', keys')
  <2> SUFFICES ASSUME NEW o \in Threads
               PROVE  Doing(request[o], sessions', links', keys')
    OBVIOUS
  <2>1. Doing(request[o], sessions, links, keys)
    BY DEF WebInv, RequestsSound
  <2>2. request[o].stage = "minted" => request[o].token \notin DOMAIN sessions'
    BY <2>1 DEF Doing
  <2> QED BY <2>1, <2>2, DoingKept DEF TablesGrow
<1> QED BY <1>1 DEF WebInv, TypeOK, RequestsSound, TokensApart

\* A step that changes no table and no client: only what one request knows.
LEMMA Quiet ==
  ASSUME WebInv, UNCHANGED <<tables, held>>, NEW th \in Threads, NEW r \in Request, Move(th, r),
         Doing(r, sessions, links, keys), r.token = None \/ r.token = request[th].token
  PROVE  WebInv' /\ TablesGrow
<1>1. TablesGrow
  BY SameGrows DEF TablesGrow, tables
<1>2. \A o \in Threads \ {th} :
        /\ request[o].stage = "minted" => request[o].token \notin DOMAIN sessions'
        /\ r.token # None => request[o].token # r.token
  BY DEF WebInv, RequestsSound, TokensApart, Doing, tables
<1>3. Doing(r, sessions', links', keys')
  BY DEF tables
<1>4. request' \in [Threads -> Request] /\ RequestsSound' /\ TokensApart'
  BY <1>1, <1>2, <1>3, Moves
<1> QED BY <1>1, <1>4 DEF WebInv, TypeOK, HeldTokensListed, tables

-----------------------------------------------------------------------------
\* At first the tables are empty and the threads idle.
LEMMA InitWebInv == Init => WebInv
<1> SUFFICES ASSUME Init PROVE WebInv
  OBVIOUS
<1>1. \A th \in Threads : request[th] = Idle
  BY DEF Init
<1>2. TypeOK
  BY IdleSound DEF Init, TypeOK
<1>3. RequestsSound /\ TokensApart
  BY <1>1, IdleSound DEF RequestsSound, TokensApart
<1> QED BY <1>2, <1>3 DEF WebInv, Init, HeldTokensListed

\* The steps that change no table and no client.
LEMMA BeginStep ==
  ASSUME WebInv, NEW th \in Threads,
         \/ \E u \in Users : Authenticate(th, u) \/ MatchUser(th, u)
         \/ \E t \in Tokens : CheckToken(th, t)
         \/ \E l \in Links : ReadLink(th, l)
         \/ \E k \in Keys : ReadKey(th, k)
  PROVE  WebInv' /\ TablesGrow
<1>1. ASSUME NEW u \in Users, Authenticate(th, u) PROVE WebInv' /\ TablesGrow
  <2> DEFINE r == [Idle EXCEPT !.op = "signin", !.stage = "authenticated", !.user = u]
  <2>1. r \in Request /\ r.token = None /\ Doing(r, sessions, links, keys)
    BY DEF Idle, Request, Doing
  <2> QED BY <1>1, <2>1, Quiet DEF Authenticate
<1>2. ASSUME NEW u \in Users, MatchUser(th, u) PROVE WebInv' /\ TablesGrow
  <2> DEFINE r == [Idle EXCEPT !.op = "link", !.stage = "matched", !.user = u]
  <2>1. r \in Request /\ r.token = None /\ Doing(r, sessions, links, keys)
    BY DEF Idle, Request, Doing
  <2> QED BY <1>2, <2>1, Quiet DEF MatchUser
<1>3. ASSUME NEW t \in Tokens, CheckToken(th, t) PROVE WebInv' /\ TablesGrow
  <2> DEFINE r == [Idle EXCEPT !.op = "serve", !.stage = "admitted", !.user = held[t], !.cred = t]
  <2>1. held[t] \in Users
    BY <1>3 DEF CheckToken, WebInv, TypeOK
  <2>2. r \in Request /\ r.token = None /\ Doing(r, sessions, links, keys)
    BY <2>1 DEF Idle, Request, Doing, Credentials
  <2> QED BY <1>3, <2>2, Quiet DEF CheckToken
<1>4. ASSUME NEW l \in Links, ReadLink(th, l) PROVE WebInv' /\ TablesGrow
  <2> DEFINE r == [Idle EXCEPT !.op = "redeem", !.stage = "unused", !.cred = l]
  <2>1. l \in DOMAIN links
    BY <1>4 DEF ReadLink, Redeemable, Unspent, Known
  <2>2. r \in Request /\ r.token = None /\ Doing(r, sessions, links, keys)
    BY <2>1 DEF Idle, Request, Doing, Credentials
  <2> QED BY <1>4, <2>2, Quiet DEF ReadLink
<1>5. ASSUME NEW k \in Keys, ReadKey(th, k) PROVE WebInv' /\ TablesGrow
  <2> DEFINE r == [Idle EXCEPT !.op = "serve", !.stage = "live", !.cred = k]
  <2>1. k \in DOMAIN keys
    BY <1>5 DEF ReadKey, Unspent, Known
  <2>2. r \in Request /\ r.token = None /\ Doing(r, sessions, links, keys)
    BY <2>1 DEF Idle, Request, Doing, Credentials
  <2> QED BY <1>5, <2>2, Quiet DEF ReadKey
<1> QED BY <1>1, <1>2, <1>3, <1>4, <1>5

\* The owner of a link or a key is loaded, or is gone.
LEMMA LoadStep ==
  ASSUME WebInv, NEW th \in Threads, LoadUser(th) \/ LoadKeyOwner(th)
  PROVE  WebInv' /\ TablesGrow
<1>1. /\ request[th] \in Request /\ Doing(request[th], sessions, links, keys)
      /\ Idle \in Request /\ Idle.token = None /\ Doing(Idle, sessions, links, keys)
  BY IdleSound DEF WebInv, TypeOK, RequestsSound
<1>2. CASE LoadUser(th)
  <2> DEFINE u == GetUser(links[request[th].cred].user)
             r == [request[th] EXCEPT !.stage = "authenticated", !.user = u]
  <2>1. request[th].cred \in Links
    BY <1>1, <1>2 DEF LoadUser, At, Doing, WebInv, TypeOK
  <2>2. Loaded(u) => u \in Users
    BY DEF GetUser, Loaded, WebInv, TypeOK
  <2>3. Loaded(u) => r \in Request /\ r.token = request[th].token
                     /\ Doing(r, sessions, links, keys)
    BY <1>1, <2>1, <2>2 DEF Request, Doing
  <2> QED BY <1>1, <1>2, <2>3, Quiet DEF LoadUser
<1>3. CASE LoadKeyOwner(th)
  <2> DEFINE u == GetUser(keys[request[th].cred].user)
             r == [request[th] EXCEPT !.stage = "admitted", !.user = u]
  <2>1. Loaded(u) => u \in Users
    BY DEF GetUser, Loaded, WebInv, TypeOK
  <2>2. Loaded(u) => r \in Request /\ r.token = request[th].token
                     /\ Doing(r, sessions, links, keys)
    BY <1>1, <2>1 DEF Request, Doing
  <2> QED BY <1>1, <1>3, <2>2, Quiet DEF LoadKeyOwner
<1> QED BY <1>2, <1>3

\* A request that ends early is idle.
LEMMA AbortStep ==
  ASSUME WebInv, NEW th \in Threads, Abort(th)
  PROVE  WebInv' /\ TablesGrow
BY IdleSound, Quiet DEF Abort

\* A token that is made is nobody else's and has no row.
LEMMA CreateAccessTokenStep ==
  ASSUME WebInv, NEW th \in Threads, NEW t \in Tokens, CreateAccessToken(th, t)
  PROVE  WebInv' /\ TablesGrow
<1> DEFINE r == [request[th] EXCEPT !.stage = "minted", !.token = t]
<1>1. request[th] \in Request /\ Doing(request[th], sessions, links, keys)
  BY DEF WebInv, TypeOK, RequestsSound
<1>2. r \in Request /\ Doing(r, sessions, links, keys) /\ r.token = t
  BY <1>1 DEF Request, Doing, CreateAccessToken, At
<1>3. UNCHANGED <<accounts, sessions, links, keys, revoked, held>> /\ Move(th, r)
  BY DEF CreateAccessToken, tables
<1>4. TablesGrow
  BY <1>3, SameGrows DEF TablesGrow
<1>5. \A o \in Threads \ {th} :
        /\ request[o].stage = "minted" => request[o].token \notin DOMAIN sessions'
        /\ r.token # None => request[o].token # r.token
  BY <1>2, <1>3 DEF WebInv, RequestsSound, Doing, CreateAccessToken
<1>6. Doing(r, sessions', links', keys')
  BY <1>2, <1>3
<1>7. request' \in [Threads -> Request] /\ RequestsSound' /\ TokensApart'
  BY <1>2, <1>3, <1>4, <1>5, <1>6, Moves
<1> QED BY <1>3, <1>4, <1>7 DEF WebInv, TypeOK, HeldTokensListed

\* Its row is new: no row is overwritten by it.
LEMMA RecordStep ==
  ASSUME WebInv, NEW th \in Threads, RecordWebSession(th)
  PROVE  WebInv' /\ TablesGrow
<1> DEFINE q == request[th]
           row == [user |-> q.user, spent |-> FALSE, via |-> q.cred]
           r == [q EXCEPT !.stage = "recorded"]
<1>1. /\ q \in Request /\ Doing(q, sessions, links, keys) /\ q.stage = "minted"
      /\ UNCHANGED <<accounts, links, keys, revoked, held>> /\ Move(th, r)
      /\ sessions' = Insert(sessions, q.token, row)
  BY DEF WebInv, TypeOK, RequestsSound, RecordWebSession, At
<1>2. /\ q.token \in Tokens \ DOMAIN sessions /\ q.user \in Users
      /\ q.cred \in Links \cup {None}
  BY <1>1 DEF Doing
<1>3. row \in SessionRow /\ row.user = q.user
  BY <1>2 DEF SessionRow
<1>4. /\ DOMAIN sessions' = DOMAIN sessions \cup {q.token} /\ sessions'[q.token] = row
      /\ \A x \in DOMAIN sessions : sessions'[x] = sessions[x]
      /\ Grows(sessions, sessions')
  BY <1>1, <1>2 DEF Insert, Grows
<1>5. TablesGrow
  BY <1>1, <1>4, SameGrows DEF TablesGrow
<1>6. r \in Request /\ r.token = q.token /\ Doing(r, sessions', links', keys')
  BY <1>1, <1>2, <1>3, <1>4 DEF Request, Doing
<1>7. \A o \in Threads \ {th} :
        /\ request[o].stage = "minted" => request[o].token \notin DOMAIN sessions'
        /\ r.token # None => request[o].token # r.token
  <2> SUFFICES ASSUME NEW o \in Threads \ {th}
               PROVE  /\ request[o].stage = "minted" => request[o].token \notin DOMAIN sessions'
                      /\ r.token # None => request[o].token # r.token
    OBVIOUS
  <2>1. request[o].token # q.token
    BY <1>2, CredentialsApart DEF WebInv, TokensApart
  <2> QED BY <1>4, <1>6, <2>1 DEF WebInv, RequestsSound, Doing
<1>8. request' \in [Threads -> Request] /\ RequestsSound' /\ TokensApart'
  BY <1>1, <1>5, <1>6, <1>7, Moves
<1>9. TypeOK'
  BY <1>1, <1>2, <1>3, <1>4, <1>8 DEF WebInv, TypeOK
<1>10. HeldTokensListed'
  BY <1>1, <1>4 DEF WebInv, HeldTokensListed
<1> QED BY <1>5, <1>8, <1>9, <1>10 DEF WebInv

\* The token that a client gets has the row recorded before.
LEMMA AnswerStep ==
  ASSUME WebInv, NEW th \in Threads, AnswerToken(th)
  PROVE  WebInv' /\ TablesGrow
<1> DEFINE q == request[th]
<1>1. /\ q \in Request /\ Doing(q, sessions, links, keys) /\ q.stage = "recorded"
      /\ UNCHANGED <<accounts, sessions, links, keys, revoked>> /\ Move(th, Idle)
      /\ held' = [t \in DOMAIN held \cup {q.token} |->
                    IF t = q.token THEN q.user ELSE held[t]]
  BY DEF WebInv, TypeOK, RequestsSound, AnswerToken, Answerable, tables
<1>2. q.token \in DOMAIN sessions /\ sessions[q.token].user = q.user /\ q.user \in Users
  BY <1>1 DEF Doing
<1>3. TablesGrow
  BY <1>1, SameGrows DEF TablesGrow
<1>4. \A o \in Threads \ {th} :
        request[o].stage = "minted" => request[o].token \notin DOMAIN sessions'
  BY <1>1 DEF WebInv, RequestsSound, Doing
<1>5. request' \in [Threads -> Request] /\ RequestsSound' /\ TokensApart'
  BY <1>1, <1>3, <1>4, IdleSound, Moves
<1>6. TypeOK'
  BY <1>1, <1>2, <1>5 DEF WebInv, TypeOK
<1>7. HeldTokensListed'
  BY <1>1, <1>2 DEF WebInv, HeldTokensListed
<1> QED BY <1>3, <1>5, <1>6, <1>7 DEF WebInv

-----------------------------------------------------------------------------
\* The actions that write links or keys: the sessions and what clients hold stay.
LEMMA LinksAndKeys ==
  ASSUME WebInv, TablesGrow, UNCHANGED <<sessions, held>>, NEW th \in Threads,
         NEW r \in Request, Move(th, r), Doing(r, sessions', links', keys'),
         r.token = None \/ r.token = request[th].token,
         accounts' \subseteq Users /\ revoked' \subseteq AccessTokens,
         DOMAIN links' \subseteq Links /\ \A l \in DOMAIN links' : links'[l] \in Row,
         DOMAIN keys' \subseteq Keys /\ \A k \in DOMAIN keys' : keys'[k] \in Row
  PROVE  WebInv'
<1>1. \A o \in Threads \ {th} :
        /\ request[o].stage = "minted" => request[o].token \notin DOMAIN sessions'
        /\ r.token # None => request[o].token # r.token
  BY DEF WebInv, RequestsSound, TokensApart, Doing
<1>2. request' \in [Threads -> Request] /\ RequestsSound' /\ TokensApart'
  BY <1>1, Moves
<1> QED BY <1>2 DEF WebInv, TypeOK, HeldTokensListed

\* A link that is sent is new and has the account matched.
LEMMA SendLinkStep ==
  ASSUME WebInv, NEW th \in Threads, NEW l \in Links, SendLink(th, l)
  PROVE  WebInv' /\ TablesGrow
<1> DEFINE row == RowOf(request[th].user)
<1>1. request[th].user \in Users
  BY DEF WebInv, RequestsSound, Doing, SendLink, At
<1>2. row \in Row
  BY <1>1 DEF Row, RowOf
<1>3. /\ DOMAIN links' = DOMAIN links \cup {l} /\ links'[l] = row
      /\ \A x \in DOMAIN links : links'[x] = links[x]
      /\ Grows(links, links')
  <2> HIDE DEF row
  <2> QED BY InsertGrows DEF SendLink, row
<1>4. TablesGrow
  BY <1>3, SameGrows DEF TablesGrow, SendLink
<1>5. DOMAIN links' \subseteq Links /\ \A x \in DOMAIN links' : links'[x] \in Row
  BY <1>2, <1>3 DEF WebInv, TypeOK
<1>6. /\ accounts' \subseteq Users /\ revoked' \subseteq AccessTokens
      /\ DOMAIN keys' \subseteq Keys /\ \A k \in DOMAIN keys' : keys'[k] \in Row
  BY DEF SendLink, WebInv, TypeOK
<1> QED BY <1>4, <1>5, <1>6, IdleSound, LinksAndKeys DEF SendLink

\* A link read unused is spent, perhaps for the second time.
LEMMA MarkUsedStep ==
  ASSUME WebInv, NEW th \in Threads, MarkUsed(th)
  PROVE  WebInv' /\ TablesGrow
<1> DEFINE q == request[th]
           r == [q EXCEPT !.stage = "redeemed"]
<1>1. /\ q \in Request /\ q.stage = "unused" /\ q.cred \in DOMAIN links
      /\ links' = Spend(links, q.cred) /\ Move(th, r)
      /\ UNCHANGED <<accounts, sessions, keys, revoked, held>>
  BY DEF WebInv, TypeOK, RequestsSound, Doing, MarkUsed, At
<1>2. /\ DOMAIN links' = DOMAIN links /\ \A l \in DOMAIN links : links'[l] \in Row
      /\ Grows(links, links')
  BY <1>1, SpendGrows DEF WebInv, TypeOK
<1>3. TablesGrow
  BY <1>1, <1>2, SameGrows DEF TablesGrow
<1>4. r \in Request /\ r.token = q.token /\ Doing(r, sessions', links', keys')
  BY <1>1, <1>2 DEF Request, Doing
<1>5. /\ accounts' \subseteq Users /\ revoked' \subseteq AccessTokens
      /\ DOMAIN keys' \subseteq Keys /\ \A k \in DOMAIN keys' : keys'[k] \in Row
      /\ DOMAIN links' \subseteq Links /\ \A l \in DOMAIN links' : links'[l] \in Row
  BY <1>1, <1>2 DEF WebInv, TypeOK
<1> QED BY <1>1, <1>3, <1>4, <1>5, LinksAndKeys

\* The write of last_used_at leaves the rest of the row as it is by then.
LEMMA TouchKeyStep ==
  ASSUME WebInv, NEW th \in Threads, TouchKey(th)
  PROVE  WebInv' /\ TablesGrow
<1> DEFINE q == request[th]
           r == [q EXCEPT !.stage = "touched"]
<1>1. /\ q \in Request /\ q.stage = "live" /\ q.cred \in DOMAIN keys
      /\ keys' = [keys EXCEPT ![q.cred] = keys[q.cred]] /\ Move(th, r)
      /\ UNCHANGED <<accounts, sessions, links, revoked, held>>
  BY DEF WebInv, TypeOK, RequestsSound, Doing, TouchKey, At, Touched
<1>2. /\ DOMAIN keys' = DOMAIN keys /\ \A k \in DOMAIN keys : keys'[k] = keys[k]
  BY <1>1
<1>3. TablesGrow
  BY <1>1, <1>2, SameGrows DEF TablesGrow, Grows
<1>4. r \in Request /\ r.token = q.token /\ Doing(r, sessions', links', keys')
  BY <1>1, <1>2 DEF Request, Doing
<1>5. /\ accounts' \subseteq Users /\ revoked' \subseteq AccessTokens
      /\ DOMAIN keys' \subseteq Keys /\ \A k \in DOMAIN keys' : keys'[k] \in Row
      /\ DOMAIN links' \subseteq Links /\ \A l \in DOMAIN links' : links'[l] \in Row
  BY <1>1, <1>2 DEF WebInv, TypeOK
<1> QED BY <1>1, <1>3, <1>4, <1>5, LinksAndKeys

\* The routes of an admitted request that write keys.
LEMMA ApiKeyStep ==
  ASSUME WebInv, NEW th \in Threads, NEW k \in Keys, CreateApiKey(th, k) \/ RevokeApiKey(th, k)
  PROVE  WebInv' /\ TablesGrow
<1> DEFINE row == RowOf(request[th].user)
<1>1. request[th].user \in Users
  BY DEF WebInv, RequestsSound, Doing, CreateApiKey, RevokeApiKey, At
<1>2. row \in Row
  BY <1>1 DEF Row, RowOf
<1>3. /\ DOMAIN keys' \subseteq Keys /\ \A x \in DOMAIN keys' : keys'[x] \in Row
      /\ Grows(keys, keys')
  <2> HIDE DEF row
  <2>1. CASE CreateApiKey(th, k)
    <3>1. keys' = Insert(keys, k, row) /\ k \notin DOMAIN keys
      BY <2>1 DEF CreateApiKey, Known, row
    <3>2. /\ DOMAIN keys' = DOMAIN keys \cup {k} /\ keys'[k] = row
          /\ \A x \in DOMAIN keys : keys'[x] = keys[x]
          /\ Grows(keys, keys')
      BY <3>1 DEF Insert, Grows, row
    <3> QED BY <1>2, <3>2 DEF WebInv, TypeOK
  <2>2. CASE RevokeApiKey(th, k)
    <3>1. keys' = Spend(keys, k) /\ k \in DOMAIN keys
      BY <2>2 DEF RevokeApiKey, Known
    <3> QED BY <3>1, SpendGrows DEF WebInv, TypeOK
  <2> QED BY <2>1, <2>2
<1>4. /\ UNCHANGED <<accounts, sessions, links, revoked, held>> /\ Move(th, Idle)
  BY DEF CreateApiKey, RevokeApiKey
<1>5. TablesGrow
  BY <1>3, <1>4, SameGrows DEF TablesGrow
<1>6. /\ accounts' \subseteq Users /\ revoked' \subseteq AccessTokens
      /\ DOMAIN links' \subseteq Links /\ \A l \in DOMAIN links' : links'[l] \in Row
  BY <1>4 DEF WebInv, TypeOK
<1> QED BY <1>3, <1>4, <1>5, <1>6, IdleSound, LinksAndKeys

\* A session of the account is spent; others stay.
LEMMA RevokeSessionStep ==
  ASSUME WebInv, NEW th \in Threads, NEW t \in Tokens, RevokeSession(th, t)
  PROVE  WebInv' /\ TablesGrow
<1>1. /\ sessions' = Spend(sessions, t) /\ t \in DOMAIN sessions /\ Move(th, Idle)
      /\ UNCHANGED <<accounts, links, keys, revoked, held>>
  BY DEF RevokeSession, Known
<1>2. /\ DOMAIN sessions' = DOMAIN sessions
      /\ \A x \in DOMAIN sessions : sessions'[x] \in SessionRow
      /\ Grows(sessions, sessions')
  BY <1>1, SpendGrows DEF WebInv, TypeOK
<1>3. TablesGrow
  BY <1>1, <1>2, SameGrows DEF TablesGrow
<1>4. \A o \in Threads \ {th} :
        request[o].stage = "minted" => request[o].token \notin DOMAIN sessions'
  BY <1>2 DEF WebInv, RequestsSound, Doing
<1>5. request' \in [Threads -> Request] /\ RequestsSound' /\ TokensApart'
  BY <1>1, <1>3, <1>4, IdleSound, Moves
<1>6. TypeOK'
  BY <1>1, <1>2, <1>5 DEF WebInv, TypeOK
<1>7. HeldTokensListed'
  BY <1>1, <1>2 DEF WebInv, HeldTokensListed, Grows
<1> QED BY <1>3, <1>5, <1>6, <1>7 DEF WebInv

\* The steps that belong to no request.
LEMMA OutsideStep ==
  ASSUME WebInv,
         \/ \E l \in Links : ExpireLink(l)
         \/ \E u \in Users : DeleteUser(u)
         \/ \E a \in AccessTokens : RevokeAccessToken(a)
         \/ UNCHANGED vars
  PROVE  WebInv' /\ TablesGrow
<1>1. UNCHANGED <<sessions, keys, held, request>>
  BY DEF ExpireLink, DeleteUser, RevokeAccessToken, vars
<1>2. /\ Grows(links, links')
      /\ DOMAIN links' \subseteq Links /\ \A l \in DOMAIN links' : links'[l] \in Row
  <2>1. ASSUME NEW l \in Links, ExpireLink(l)
        PROVE  /\ Grows(links, links')
               /\ DOMAIN links' \subseteq Links /\ \A x \in DOMAIN links' : links'[x] \in Row
    <3>1. links' = Spend(links, l) /\ l \in DOMAIN links
      BY <2>1 DEF ExpireLink, Unspent, Known
    <3> QED BY <3>1, SpendGrows DEF WebInv, TypeOK
  <2>2. CASE links' = links
    BY <2>2, SameGrows DEF WebInv, TypeOK
  <2> QED BY <2>1, <2>2 DEF DeleteUser, RevokeAccessToken, vars
<1>3. /\ accounts' \subseteq Users
      /\ revoked' \subseteq AccessTokens /\ revoked \subseteq revoked'
  BY DEF ExpireLink, DeleteUser, RevokeAccessToken, vars, WebInv, TypeOK
<1>4. TablesGrow
  BY <1>1, <1>2, <1>3, SameGrows DEF TablesGrow
<1>5. request' \in [Threads -> Request] /\ RequestsSound' /\ TokensApart'
  BY <1>1, <1>4, Stays
<1> QED BY <1>1, <1>2, <1>3, <1>4, <1>5 DEF WebInv, TypeOK, HeldTokensListed

\* WebInv is inductive, and in every step the tables grow.
LEMMA NextWebInv == WebInv /\ [Next]_vars => WebInv' /\ TablesGrow
<1> SUFFICES ASSUME WebInv, [Next]_vars PROVE WebInv' /\ TablesGrow
  OBVIOUS
<1>1. CASE UNCHANGED vars
  BY <1>1, OutsideStep
<1>2. CASE Next
  BY <1>2, BeginStep, LoadStep, AbortStep, CreateAccessTokenStep, RecordStep, AnswerStep,
     SendLinkStep, MarkUsedStep, TouchKeyStep, ApiKeyStep, RevokeSessionStep, OutsideStep
  DEF Next
<1> QED BY <1>1, <1>2

\* WebInv holds of every behaviour.
LEMMA WebInvariant == Spec => []WebInv
<1>1. WebInv /\ [Next]_vars => WebInv'
  BY NextWebInv
<1> QED BY <1>1, InitWebInv, PTL DEF Spec

-----------------------------------------------------------------------------
\* Rows and requests have their types (oauth/models.py:58-153).
THEOREM TypeCorrect == Spec => []TypeOK
<1>1. WebInv => TypeOK
  BY DEF WebInv
<1> QED BY <1>1, WebInvariant, PTL

\* Whatever is interleaved with a sign-in and wherever it dies, no client is answered a
\* web token that has no row of its account (auth.py:137-148).
THEOREM TokensAreListed == Spec => []HeldTokensListed
<1>1. WebInv => HeldTokensListed
  BY DEF WebInv
<1> QED BY <1>1, WebInvariant, PTL

\* No step makes a session, a key or a link good again that was revoked, used or expired
\* (oauth/service.py:349-360, 486-488, 500-511, 539).
THEOREM RevocationsStick == Spec => RevocationSticks
<1> DEFINE Sticks ==
      /\ \A t \in DOMAIN sessions : sessions[t].spent => sessions'[t].spent
      /\ \A k \in DOMAIN keys : keys[k].spent => keys'[k].spent
      /\ \A l \in DOMAIN links : links[l].spent => links'[l].spent
      /\ revoked \subseteq revoked'
<1>1. WebInv /\ [Next]_vars => [Sticks]_vars
  BY NextWebInv DEF TablesGrow, Grows
<1>2. Spec => [][Sticks]_vars
  <2> HIDE DEF Sticks
  <2> QED BY <1>1, WebInvariant, PTL DEF Spec
<1> QED BY <1>2 DEF RevocationSticks

-----------------------------------------------------------------------------
\* The sessions a link has opened, and the requests that may yet open one: a link is good
\* until the first of them marks it used, and only until then does another read it.
Opened(sess, l) == {t \in DOMAIN sess : sess[t].via = l}

Holds(q, l) == q.cred = l /\ q.stage \in {"unused", "redeemed", "authenticated", "minted"}
Past(q, l) == q.cred = l /\ q.stage \in {"redeemed", "authenticated", "minted"}
Holders(req, l) == {th \in Threads : Holds(req[th], l)}

Used(lnks, l) == l \in DOMAIN lnks /\ lnks[l].spent

LinkSound(l) ==
  /\ ~ Used(links, l) =>
       /\ Opened(sessions, l) = {}
       /\ \A th \in Threads : ~ Past(request[th], l)
  /\ IsFiniteSet(Opened(sessions, l))
  /\ Cardinality(Opened(sessions, l)) + Cardinality(Holders(request, l)) <= Cardinality(Threads)

LinksInv == WebInv /\ \A l \in Links : LinkSound(l)

\* The holders of a link are threads.
LEMMA HoldersCount ==
  ASSUME NEW req, NEW l
  PROVE  /\ IsFiniteSet(Holders(req, l)) /\ Cardinality(Holders(req, l)) \in Nat
         /\ Cardinality(Holders(req, l)) <= Cardinality(Threads) /\ Cardinality(Threads) \in Nat
<1>1. Holders(req, l) \in SUBSET Threads /\ IsFiniteSet(Threads)
  BY CredentialsApart DEF Holders
<1> QED BY ONLY <1>1, FS_Subset, FS_CardinalityType

\* A request that moves on without taking up the link, while no session comes of it.
LEMMA LinkSettles ==
  ASSUME NEW l \in Links, LinkSound(l), Used(links, l) => Used(links', l),
         Opened(sessions', l) = Opened(sessions, l),
         \A th \in Threads : Holds(request'[th], l) => Holds(request[th], l),
         \A th \in Threads : Past(request'[th], l) => Past(request[th], l) \/ Used(links', l)
  PROVE  LinkSound(l)'
<1>1. Holders(request', l) \in SUBSET Holders(request, l)
  BY DEF Holders
<1>2. Cardinality(Holders(request', l)) <= Cardinality(Holders(request, l))
  BY ONLY <1>1, HoldersCount, FS_Subset
<1> DEFINE c == Cardinality(Opened(sessions, l))
           h == Cardinality(Holders(request, l))
           i == Cardinality(Holders(request', l))
           n == Cardinality(Threads)
<1>3. c \in Nat /\ h \in Nat /\ i \in Nat /\ n \in Nat /\ i <= h /\ c + h <= n
  BY <1>2, HoldersCount, FS_CardinalityType DEF LinkSound
<1> HIDE DEF c, h, i, n
<1>4. c + i <= n
  BY ONLY <1>3, SMT
<1> QED BY <1>4 DEF LinkSound, c, i, n

\* The same, when one request moves on to r.
LEMMA LinkMoves ==
  ASSUME WebInv, NEW l \in Links, LinkSound(l), NEW th \in Threads, NEW r, Move(th, r),
         Used(links, l) => Used(links', l),
         Opened(sessions', l) = Opened(sessions, l),
         Holds(r, l) => Holds(request[th], l),
         Past(r, l) => Past(request[th], l) \/ Used(links', l)
  PROVE  LinkSound(l)'
<1>1. /\ request'[th] = r
      /\ \A o \in Threads \ {th} : request'[o] = request[o]
  BY DEF Move, WebInv, TypeOK
<1> QED BY <1>1, LinkSettles

\* Who takes up a link finds it good: it has opened no session.
LEMMA ReadLinkKeeps ==
  ASSUME WebInv, NEW l \in Links, LinkSound(l), NEW th \in Threads, NEW k \in Links,
         ReadLink(th, k)
  PROVE  LinkSound(l)'
<1> DEFINE r == [Idle EXCEPT !.op = "redeem", !.stage = "unused", !.cred = k]
<1>1. /\ Move(th, r) /\ links' = links /\ sessions' = sessions
      /\ ~ Used(links, k) /\ r.cred = k /\ r.stage = "unused"
  BY DEF ReadLink, tables, Redeemable, Unspent, Known, Used, Idle
<1> HIDE DEF r
<1>2. CASE k # l
  BY <1>1, <1>2, LinkMoves DEF Holds, Past
<1>3. CASE k = l
  <2>1. Opened(sessions', l) = {} /\ IsFiniteSet(Opened(sessions', l))
    BY <1>1, <1>3 DEF LinkSound
  <2>2. \A o \in Threads : ~ Past(request'[o], l)
    <3>1. request'[th] = r /\ \A o \in Threads \ {th} : request'[o] = request[o]
      BY <1>1 DEF Move, WebInv, TypeOK
    <3>2. ~ Past(r, l)
      BY <1>1 DEF Past
    <3> QED BY <1>1, <1>3, <3>1, <3>2 DEF LinkSound
  <2>3. Cardinality(Opened(sessions', l)) = 0
    BY <2>1, FS_EmptySet
  <2>4. 0 + Cardinality(Holders(request', l)) <= Cardinality(Threads)
    BY HoldersCount
  <2> QED BY <2>1, <2>2, <2>3, <2>4 DEF LinkSound
<1> QED BY <1>2, <1>3

\* The first to mark the link used is past it, and so is whoever read it before.
LEMMA MarkUsedKeeps ==
  ASSUME WebInv, NEW l \in Links, LinkSound(l), NEW th \in Threads, MarkUsed(th)
  PROVE  LinkSound(l)'
<1> DEFINE q == request[th]
           r == [q EXCEPT !.stage = "redeemed"]
<1>1. /\ q \in Request /\ q.stage = "unused" /\ q.cred \in DOMAIN links /\ q.cred \in Links
      /\ links' = Spend(links, q.cred) /\ Move(th, r) /\ sessions' = sessions
  BY DEF WebInv, TypeOK, RequestsSound, Doing, MarkUsed, At
<1>2. r.cred = q.cred /\ r.stage = "redeemed"
  BY <1>1 DEF Request
<1>3. DOMAIN links' = DOMAIN links /\ Grows(links, links')
  BY <1>1, SpendGrows DEF WebInv, TypeOK
<1>4. Used(links, l) => Used(links', l)
  BY <1>3 DEF Grows, Used
<1>5. Used(links', q.cred)
  <2>1. links[q.cred] \in Row
    BY <1>1 DEF WebInv, TypeOK
  <2>2. links'[q.cred] = [links[q.cred] EXCEPT !.spent = TRUE]
    BY <1>1 DEF Spend
  <2>3. links'[q.cred].spent
    BY <2>1, <2>2 DEF Row
  <2> QED BY <1>1, <1>3, <2>3 DEF Used
<1> HIDE DEF r
<1>6. Holds(r, l) => Holds(q, l)
  BY <1>1, <1>2 DEF Holds
<1>7. Past(r, l) => Used(links', l)
  BY <1>2, <1>5 DEF Past
<1> QED BY <1>1, <1>4, <1>6, <1>7, LinkMoves

\* The session that is recorded takes the place of a request.
LEMMA RecordKeeps ==
  ASSUME WebInv, NEW l \in Links, LinkSound(l), NEW th \in Threads, RecordWebSession(th)
  PROVE  LinkSound(l)'
<1> DEFINE q == request[th]
           r == [q EXCEPT !.stage = "recorded"]
           row == [user |-> q.user, spent |-> FALSE, via |-> q.cred]
<1>1. /\ q \in Request /\ q.stage = "minted" /\ q.token \notin DOMAIN sessions
      /\ links' = links /\ Move(th, r) /\ sessions' = Insert(sessions, q.token, row)
  BY DEF WebInv, TypeOK, RequestsSound, Doing, RecordWebSession, At
<1>2. r.cred = q.cred /\ r.stage = "recorded" /\ row.via = q.cred
  BY <1>1 DEF Request
<1> HIDE DEF r, row
<1>3. /\ DOMAIN sessions' = DOMAIN sessions \cup {q.token} /\ sessions'[q.token] = row
      /\ \A x \in DOMAIN sessions : sessions'[x] = sessions[x]
  BY <1>1 DEF Insert
<1>4. CASE q.cred # l
  <2>1. Opened(sessions', l) = Opened(sessions, l)
    BY <1>2, <1>3, <1>4 DEF Opened
  <2> QED BY <1>1, <1>2, <2>1, LinkMoves DEF Holds, Past
<1>5. CASE q.cred = l
  <2> DEFINE S == Opened(sessions, l)
             H == Holders(request, l)
  <2>1. Used(links', l)
    BY <1>1, <1>5 DEF LinkSound, Past
  <2>2. Opened(sessions', l) = S \cup {q.token} /\ q.token \notin S
    BY <1>1, <1>2, <1>3, <1>5 DEF Opened
  <2>3. Holders(request', l) = H \ {th} /\ th \in H
    <3>1. request'[th] = r /\ \A o \in Threads \ {th} : request'[o] = request[o]
      BY <1>1 DEF Move, WebInv, TypeOK
    <3>2. ~ Holds(r, l) /\ Holds(q, l)
      BY <1>1, <1>2, <1>5 DEF Holds
    <3> QED BY <3>1, <3>2 DEF Holders
  <2>4. IsFiniteSet(S) /\ IsFiniteSet(H) /\ Cardinality(S) + Cardinality(H) <= Cardinality(Threads)
    BY HoldersCount DEF LinkSound
  <2> DEFINE token == q.token
  <2> HIDE DEF S, H, token
  <2>5. IsFiniteSet(S \cup {token}) /\ (token \notin S => Cardinality(S \cup {token}) = Cardinality(S) + 1)
    BY ONLY <2>4, FS_AddElement
  <2>6. th \in H => Cardinality(H \ {th}) = Cardinality(H) - 1
    BY ONLY <2>4, FS_RemoveElement
  <2>7. Cardinality(S) \in Nat /\ Cardinality(H) \in Nat /\ Cardinality(Threads) \in Nat
    BY <2>4, FS_CardinalityType, HoldersCount
  <2>8. /\ IsFiniteSet(Opened(sessions', l))
        /\ Cardinality(Opened(sessions', l)) = Cardinality(S) + 1
        /\ Cardinality(Holders(request', l)) = Cardinality(H) - 1
    BY <2>2, <2>3, <2>5, <2>6 DEF token
  <2>9. Cardinality(Opened(sessions', l)) + Cardinality(Holders(request', l)) <= Cardinality(Threads)
    BY ONLY <2>4, <2>7, <2>8, SMT
  <2> QED BY <2>1, <2>8, <2>9 DEF LinkSound
<1> QED BY <1>4, <1>5

\* A sign-in goes on: with the link it came by, or with none.
LEMMA SignInKeeps ==
  ASSUME WebInv, NEW l \in Links, LinkSound(l), NEW th \in Threads,
         LoadUser(th) \/ \E t \in Tokens : CreateAccessToken(th, t)
  PROVE  LinkSound(l)'
<1>1. request[th] \in Request /\ Idle.cred = None /\ None # l
  BY CredentialsApart DEF WebInv, TypeOK, Idle
<1>2. CASE LoadUser(th)
  <2> DEFINE u == GetUser(links[request[th].cred].user)
             r == [request[th] EXCEPT !.stage = "authenticated", !.user = u]
  <2>1. /\ Move(th, r) \/ Move(th, Idle)
        /\ request[th].stage = "redeemed" /\ links' = links /\ sessions' = sessions
    BY <1>2 DEF LoadUser, At, tables
  <2>2. r.cred = request[th].cred /\ r.stage = "authenticated"
    BY <1>1 DEF Request
  <2> HIDE DEF u, r
  <2>3. CASE Move(th, r)
    BY <2>1, <2>2, <2>3, LinkMoves DEF Holds, Past
  <2>4. CASE Move(th, Idle)
    BY <1>1, <2>1, <2>4, LinkMoves DEF Holds, Past
  <2> QED BY <2>1, <2>3, <2>4
<1>3. ASSUME NEW t \in Tokens, CreateAccessToken(th, t)
      PROVE  LinkSound(l)'
  <2> DEFINE r == [request[th] EXCEPT !.stage = "minted", !.token = t]
  <2>1. Move(th, r) /\ request[th].stage = "authenticated" /\ links' = links /\ sessions' = sessions
    BY <1>3 DEF CreateAccessToken, At, tables
  <2>2. r.cred = request[th].cred /\ r.stage = "minted"
    BY <1>1 DEF Request
  <2> HIDE DEF r
  <2> QED BY <2>1, <2>2, LinkMoves DEF Holds, Past
<1> QED BY <1>2, <1>3

\* Every other step leaves the link to those who have it.
LEMMA OthersKeep ==
  ASSUME WebInv, TablesGrow, NEW l \in Links, LinkSound(l), NEW th \in Threads, NEW r,
         Move(th, r), r.cred # l \/ r.stage \in {"touched", "admitted"},
         Opened(sessions', l) = Opened(sessions, l)
  PROVE  LinkSound(l)'
<1>1. Used(links, l) => Used(links', l)
  BY DEF TablesGrow, Grows, Used
<1> QED BY <1>1, LinkMoves DEF Holds, Past

\* At first there are no links.
LEMMA InitLinksInv == Init => LinksInv
<1> SUFFICES ASSUME Init PROVE LinksInv
  OBVIOUS
<1>1. \A th \in Threads : request[th] = Idle
  BY DEF Init
<1>2. sessions = [t \in {} |-> None]
  BY DEF Init
<1>3. ASSUME NEW l \in Links PROVE LinkSound(l)
  <2>1. Opened(sessions, l) = {}
    BY <1>2 DEF Opened
  <2>2. \A th \in Threads : ~ Past(request[th], l)
    BY <1>1, CredentialsApart DEF Past, Idle
  <2>3. IsFiniteSet({}) /\ Cardinality({}) = 0
    BY FS_EmptySet
  <2>4. 0 + Cardinality(Holders(request, l)) <= Cardinality(Threads)
    BY HoldersCount
  <2> QED BY <2>1, <2>2, <2>3, <2>4 DEF LinkSound
<1> QED BY <1>3, InitWebInv DEF LinksInv

\* LinksInv is inductive.
LEMMA NextLinksInv == LinksInv /\ [Next]_vars => LinksInv'
<1> SUFFICES ASSUME LinksInv, [Next]_vars PROVE LinksInv'
  OBVIOUS
<1>1. WebInv /\ WebInv' /\ TablesGrow
  BY NextWebInv DEF LinksInv
<1> SUFFICES ASSUME NEW l \in Links, LinkSound(l) PROVE LinkSound(l)'
  BY <1>1 DEF LinksInv
<1>2. Idle.cred # l
  BY CredentialsApart DEF Idle
<1>3. ASSUME NEW th \in Threads, NEW u \in Users, Authenticate(th, u) \/ MatchUser(th, u)
      PROVE  LinkSound(l)'
  <2> DEFINE r == [Idle EXCEPT !.op = "signin", !.stage = "authenticated", !.user = u]
             s == [Idle EXCEPT !.op = "link", !.stage = "matched", !.user = u]
  <2>1. (Move(th, r) \/ Move(th, s)) /\ sessions' = sessions
    BY <1>3 DEF Authenticate, MatchUser, tables
  <2>2. r.cred # l /\ s.cred # l
    BY <1>2 DEF Idle
  <2> HIDE DEF r, s
  <2> QED BY <1>1, <2>1, <2>2, OthersKeep
<1>4. ASSUME NEW th \in Threads, NEW t \in Tokens, CheckToken(th, t)
      PROVE  LinkSound(l)'
  <2> DEFINE r == [Idle EXCEPT !.op = "serve", !.stage = "admitted", !.user = held[t], !.cred = t]
  <2>1. Move(th, r) /\ sessions' = sessions
    BY <1>4 DEF CheckToken, tables
  <2>2. r.stage = "admitted"
    BY DEF Idle
  <2> HIDE DEF r
  <2> QED BY <1>1, <2>1, <2>2, OthersKeep
<1>5. ASSUME NEW th \in Threads, NEW t \in Tokens, RevokeSession(th, t)
      PROVE  LinkSound(l)'
  <2>1. sessions' = Spend(sessions, t) /\ t \in DOMAIN sessions /\ Move(th, Idle)
    BY <1>5 DEF RevokeSession, Known
  <2>2. sessions[t] \in SessionRow
    BY <1>1, <2>1 DEF WebInv, TypeOK
  <2>3. [sessions[t] EXCEPT !.spent = TRUE].via = sessions[t].via
    BY <2>2 DEF SessionRow
  <2>4. /\ DOMAIN sessions' = DOMAIN sessions
        /\ \A x \in DOMAIN sessions : sessions'[x].via = sessions[x].via
    BY <2>1, <2>3 DEF Spend
  <2>5. Opened(sessions', l) = Opened(sessions, l)
    BY <2>4 DEF Opened
  <2> QED BY <1>1, <1>2, <2>1, <2>5, OthersKeep
<1>6. ASSUME NEW th \in Threads, NEW k \in Links, SendLink(th, k)
      PROVE  LinkSound(l)'
  <2>1. Move(th, Idle) /\ sessions' = sessions
    BY <1>6 DEF SendLink
  <2> QED BY <1>1, <1>2, <2>1, OthersKeep
<1>7. ASSUME NEW th \in Threads, NEW k \in Keys,
             CreateApiKey(th, k) \/ RevokeApiKey(th, k)
      PROVE  LinkSound(l)'
  <2>1. Move(th, Idle) /\ sessions' = sessions
    BY <1>7 DEF CreateApiKey, RevokeApiKey
  <2> QED BY <1>1, <1>2, <2>1, OthersKeep
<1>8. ASSUME NEW th \in Threads, NEW k \in Keys, ReadKey(th, k)
      PROVE  LinkSound(l)'
  <2> DEFINE r == [Idle EXCEPT !.op = "serve", !.stage = "live", !.cred = k]
  <2>1. Move(th, r) /\ sessions' = sessions
    BY <1>8 DEF ReadKey, tables
  <2>2. r.cred = k /\ k # l
    BY CredentialsApart DEF Idle
  <2> HIDE DEF r
  <2> QED BY <1>1, <2>1, <2>2, OthersKeep
<1>9. ASSUME NEW th \in Threads, TouchKey(th) \/ LoadKeyOwner(th) \/ AnswerToken(th) \/ Abort(th)
      PROVE  LinkSound(l)'
  <2> DEFINE u == GetUser(keys[request[th].cred].user)
             r == [request[th] EXCEPT !.stage = "touched"]
             s == [request[th] EXCEPT !.stage = "admitted", !.user = u]
  <2>1. (Move(th, r) \/ Move(th, s) \/ Move(th, Idle)) /\ sessions' = sessions
    BY <1>9 DEF TouchKey, LoadKeyOwner, AnswerToken, Abort, tables
  <2>2. request[th] \in Request
    BY <1>1 DEF WebInv, TypeOK
  <2>3. r.stage = "touched" /\ s.stage = "admitted"
    BY <2>2 DEF Request
  <2> HIDE DEF r, s, u
  <2> QED BY <1>1, <1>2, <2>1, <2>3, OthersKeep
<1>10. CASE \/ \E k \in Links : ExpireLink(k)
            \/ \E u \in Users : DeleteUser(u)
            \/ \E a \in AccessTokens : RevokeAccessToken(a)
            \/ UNCHANGED vars
  <2>1. request' = request /\ sessions' = sessions
    BY <1>10 DEF ExpireLink, DeleteUser, RevokeAccessToken, vars
  <2>2. Used(links, l) => Used(links', l)
    BY <1>1 DEF TablesGrow, Grows, Used
  <2> QED BY <2>1, <2>2, LinkSettles
<1>11. CASE Next
  BY <1>1, <1>3, <1>4, <1>5, <1>6, <1>7, <1>8, <1>9, <1>10, <1>11,
     ReadLinkKeeps, MarkUsedKeeps, RecordKeeps, SignInKeeps
  DEF Next
<1> QED BY <1>10, <1>11

\* However many requests repeat a link, and whatever else goes on: it opens no more sessions
\* than there are threads, and after it was marked used only for those that read it before
\* (oauth/service.py:532-541).
THEOREM LinksOpenBounded == Spec => []LinkSessionsOverlap
<1>1. LinksInv => LinkSessionsOverlap
  <2> SUFFICES ASSUME LinksInv, NEW l \in Links
               PROVE  Cardinality(Opened(sessions, l)) <= Cardinality(Threads)
    BY DEF LinkSessionsOverlap, Opened
  <2> DEFINE c == Cardinality(Opened(sessions, l))
             h == Cardinality(Holders(request, l))
             n == Cardinality(Threads)
  <2>1. c \in Nat /\ h \in Nat /\ n \in Nat /\ c + h <= n
    BY HoldersCount, FS_CardinalityType DEF LinksInv, LinkSound
  <2> HIDE DEF c, h, n
  <2>2. c <= n
    BY ONLY <2>1, SMT
  <2> QED BY <2>2 DEF c, n
<1> QED BY <1>1, InitLinksInv, NextLinksInv, PTL DEF Spec
=============================================================================
