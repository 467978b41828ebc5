------------------------- MODULE TokenServiceProofs -------------------------
(***************************************************************************)
(* Proofs about TokenService for any number of tokens, codes, clients and  *)
(* users.  What a pair is bound to (GrantPreserved) is proved for any      *)
(* number of workers; what serialising token requests buys (RedeemedOnce,  *)
(* OneLivePerFamily, ClosedStaysClosed) is proved for one worker, which is *)
(* how docker-entrypoint.sh starts the program.                            *)
(* One worker also implements SessionLineage.                              *)
(***************************************************************************)
EXTENDS TokenService, TLAPS

OneWorker == \A v, w \in Workers : v = w

\* A credential on its way through a handler still matches the row it came from.
Bound(h) ==
  /\ h.credential \in Codes =>
       /\ h.credential \in DOMAIN codes
       /\ h.client = codes[h.credential].client
       /\ h.user = codes[h.credential].user
       /\ h.family = None
  /\ h.credential \in Tokens =>
       /\ h.credential \in DOMAIN tokens
       /\ h.client = tokens[h.credential].client
       /\ h.user = tokens[h.credential].user
       /\ h.family = tokens[h.credential].family
  /\ h.credential = None => h.family = None
  /\ h.client \in Clients /\ h.user \in Users

Sound(h) ==
  /\ h.stage \in {"code_ok", "refresh_ok", "issue"} => Bound(h)
  /\ h.stage = "code_ok" => h.credential \in Codes
  /\ h.stage = "refresh_ok" => h.credential \in Tokens
  /\ h.stage = "reused" => /\ h.credential \in DOMAIN tokens
                           /\ tokens[h.credential].family # None

HandlerOK == \A w \in Workers : Sound(handler[w])

\* Every family is named by a token that exists, so a fresh one is new to all.
FamiliesExist ==
  /\ \A t \in DOMAIN tokens : tokens[t].family \in DOMAIN tokens \cup {None}
  /\ closed \subseteq DOMAIN tokens

DerivedExist ==
  \A d \in derived : /\ d[1] \in DOMAIN codes \cup DOMAIN tokens
                     /\ d[2] \in DOMAIN tokens

GrantInv == /\ TypeOK /\ HandlerOK /\ FamiliesExist /\ DerivedExist
            /\ GrantPreserved

-----------------------------------------------------------------------------
(* The tables, one statement at a time.                                      *)
USE ConstantsOK DEF ConstantsOK

\* A step that rewrites rows of the token table: no row is lost, none changes what
\* it is bound to, and none comes back from revocation.
TokensKept ==
  /\ DOMAIN tokens' = DOMAIN tokens
  /\ \A k \in DOMAIN tokens :
       /\ tokens'[k] \in TokenRow
       /\ tokens'[k].client = tokens[k].client
       /\ tokens'[k].user = tokens[k].user
       /\ tokens'[k].family = tokens[k].family
       /\ tokens[k].revoked => tokens'[k].revoked

\* Revoking one row rewrites that row only.
LEMMA RevokeLemma ==
  ASSUME TypeOK, NEW t \in DOMAIN tokens, Revoke(t)
  PROVE  /\ TokensKept
         /\ tokens'[t].revoked
         /\ \A k \in DOMAIN tokens \ {t} : tokens'[k] = tokens[k]
<1> DEFINE row == [tokens[t] EXCEPT !.revoked = TRUE]
<1>1. /\ tokens[t] \in TokenRow
      /\ tokens' = [tokens EXCEPT ![t] = row]
  BY DEF TypeOK, Revoke
<1>2. /\ row \in TokenRow /\ row.client = tokens[t].client
      /\ row.user = tokens[t].user /\ row.family = tokens[t].family /\ row.revoked
  BY <1>1 DEF TokenRow
<1> HIDE DEF row
<1>3. /\ DOMAIN tokens' = DOMAIN tokens /\ tokens'[t] = row
      /\ \A k \in DOMAIN tokens \ {t} : tokens'[k] = tokens[k]
  BY <1>1
<1> QED BY <1>2, <1>3 DEF TokensKept, TypeOK

\* Issuing adds one row and leaves the others alone.
LEMMA IssueLemma ==
  ASSUME NEW t, NEW row, tokens' = Insert(tokens, t, row)
  PROVE  /\ DOMAIN tokens' = DOMAIN tokens \cup {t}
         /\ tokens'[t] = row
         /\ \A k \in DOMAIN tokens \ {t} : tokens'[k] = tokens[k]
  BY DEF Insert

\* The family-wide UPDATE revokes the rows of that family and no others.
LEMMA FamilyLemma ==
  ASSUME TypeOK, NEW t \in DOMAIN tokens, tokens' = RevokedAsFamilyOf(t)
  PROVE  /\ TokensKept
         /\ \A k \in DOMAIN tokens :
              /\ tokens'[k].revoked <=> tokens[k].revoked \/ FamilyOf(k) = FamilyOf(t)
<1>1. DOMAIN tokens' = DOMAIN tokens
  BY DEF RevokedAsFamilyOf
<1>2. ASSUME NEW k \in DOMAIN tokens
      PROVE  /\ tokens'[k] \in TokenRow /\ tokens'[k].client = tokens[k].client
             /\ tokens'[k].user = tokens[k].user /\ tokens'[k].family = tokens[k].family
             /\ tokens'[k].revoked <=> tokens[k].revoked \/ FamilyOf(k) = FamilyOf(t)
  <2>1. tokens[k] \in TokenRow BY DEF TypeOK
  <2>2. tokens'[k] = [tokens[k] EXCEPT !.revoked =
                        tokens[k].revoked \/ tokens[k].family = FamilyOf(t)]
    BY DEF RevokedAsFamilyOf
  <2> QED BY <2>1, <2>2 DEF TokenRow, FamilyOf
<1> QED BY <1>1, <1>2 DEF TokensKept

\* The passing of time revokes nothing.
LEMMA ExpireLemma ==
  ASSUME TypeOK, NEW t \in DOMAIN tokens,
         tokens' = [tokens EXCEPT ![t].expired = TRUE]
  PROVE  /\ TokensKept
         /\ \A k \in DOMAIN tokens : tokens'[k].revoked = tokens[k].revoked
<1> DEFINE row == [tokens[t] EXCEPT !.expired = TRUE]
<1>1. /\ tokens[t] \in TokenRow
      /\ tokens' = [tokens EXCEPT ![t] = row]
  BY DEF TypeOK
<1>2. /\ row \in TokenRow /\ row.client = tokens[t].client
      /\ row.user = tokens[t].user /\ row.family = tokens[t].family
      /\ row.revoked = tokens[t].revoked
  BY <1>1 DEF TokenRow
<1> HIDE DEF row
<1>3. /\ DOMAIN tokens' = DOMAIN tokens /\ tokens'[t] = row
      /\ \A k \in DOMAIN tokens \ {t} : tokens'[k] = tokens[k]
  BY <1>1
<1> QED BY <1>2, <1>3 DEF TokensKept, TypeOK

\* The same for the table of authorization codes, which may also grow.
CodesKept ==
  /\ DOMAIN codes \subseteq DOMAIN codes' /\ DOMAIN codes' \subseteq Codes
  /\ \A c \in DOMAIN codes' : codes'[c] \in CodeRow
  /\ \A c \in DOMAIN codes : /\ codes'[c].client = codes[c].client
                             /\ codes'[c].user = codes[c].user
                             /\ codes[c].used => codes'[c].used

\* authorize_submit adds a row.
LEMMA AuthorizeLemma ==
  ASSUME TypeOK, NEW c \in Codes \ DOMAIN codes, NEW row \in CodeRow,
         codes' = Insert(codes, c, row)
  PROVE  CodesKept /\ \A k \in DOMAIN codes : codes'[k].used = codes[k].used
<1>1. /\ DOMAIN codes' = DOMAIN codes \cup {c} /\ codes'[c] = row
      /\ \A k \in DOMAIN codes : codes'[k] = codes[k]
  BY DEF Insert
<1> QED BY <1>1 DEF CodesKept, TypeOK

\* Consuming a code rewrites its row.
LEMMA ConsumeLemma ==
  ASSUME TypeOK, NEW c \in DOMAIN codes, codes' = [codes EXCEPT ![c].used = TRUE]
  PROVE  CodesKept /\ codes'[c].used
<1> DEFINE row == [codes[c] EXCEPT !.used = TRUE]
<1>1. codes[c] \in CodeRow /\ codes' = [codes EXCEPT ![c] = row]
  BY DEF TypeOK
<1>2. /\ row \in CodeRow /\ row.client = codes[c].client
      /\ row.user = codes[c].user /\ row.used
  BY <1>1 DEF CodeRow
<1> HIDE DEF row
<1>3. /\ DOMAIN codes' = DOMAIN codes /\ codes'[c] = row
      /\ \A k \in DOMAIN codes \ {c} : codes'[k] = codes[k]
  BY <1>1
<1> QED BY <1>2, <1>3 DEF CodesKept, TypeOK

\* So does its expiry.
LEMMA ExpireCodeLemma ==
  ASSUME TypeOK, NEW c \in DOMAIN codes, codes' = [codes EXCEPT ![c].expired = TRUE]
  PROVE  CodesKept
<1> DEFINE row == [codes[c] EXCEPT !.expired = TRUE]
<1>1. codes[c] \in CodeRow /\ codes' = [codes EXCEPT ![c] = row]
  BY DEF TypeOK
<1>2. /\ row \in CodeRow /\ row.client = codes[c].client
      /\ row.user = codes[c].user /\ row.used = codes[c].used
  BY <1>1 DEF CodeRow
<1> HIDE DEF row
<1>3. /\ DOMAIN codes' = DOMAIN codes /\ codes'[c] = row
      /\ \A k \in DOMAIN codes \ {c} : codes'[k] = codes[k]
  BY <1>1
<1> QED BY <1>2, <1>3 DEF CodesKept, TypeOK

\* A table nobody wrote to is a special case.
LEMMA UnchangedLemma ==
  ASSUME TypeOK
  PROVE  /\ UNCHANGED tokens => TokensKept
         /\ UNCHANGED codes => CodesKept
  BY DEF TypeOK, TokensKept, CodesKept

-----------------------------------------------------------------------------
(* The invariant for any number of workers.                                  *)

\* Initially the only rows are legacy ones, and every event loop is idle.
LEMMA GrantInit == Init => GrantInv
<1> SUFFICES ASSUME Init PROVE GrantInv
  OBVIOUS
<1>1. TypeOK
  BY DEF Init, TypeOK, Handler, Stage, Idle, Serving
<1>2. HandlerOK
  BY DEF Init, HandlerOK, Sound, Idle, Serving
<1> QED
  BY <1>1, <1>2 DEF Init, GrantInv, FamiliesExist, DerivedExist, GrantPreserved, FamilyOf

\* What rewriting rows preserves: handlers stay sound, redeemed grants stay equal.
LEMMA KeptPreserves ==
  ASSUME GrantInv, CodesKept, TokensKept, UNCHANGED derived
  PROVE  /\ \A h \in Handler : Sound(h) => Sound(h)'
         /\ \A t \in DOMAIN tokens' : tokens'[t].family \in DOMAIN tokens' \cup {None}
         /\ DerivedExist' /\ GrantPreserved'
<1>1. ASSUME NEW h \in Handler, Sound(h) PROVE Sound(h)'
  BY <1>1 DEF Sound, Bound, CodesKept, TokensKept
<1>2. \A t \in DOMAIN tokens' : tokens'[t].family \in DOMAIN tokens' \cup {None}
  BY DEF GrantInv, FamiliesExist, TokensKept
<1>3. DerivedExist'
  BY DEF GrantInv, DerivedExist, CodesKept, TokensKept
<1>4. ASSUME NEW d \in derived
      PROVE  IF d[1] \in Codes
               THEN /\ tokens'[d[2]].client = codes'[d[1]].client
                    /\ tokens'[d[2]].user = codes'[d[1]].user
               ELSE /\ tokens'[d[2]].client = tokens'[d[1]].client
                    /\ tokens'[d[2]].user = tokens'[d[1]].user
                    /\ tokens'[d[1]].family # None =>
                         tokens'[d[2]].family = tokens'[d[1]].family
  <2>1. /\ d[2] \in DOMAIN tokens
        /\ d[1] \in Codes => d[1] \in DOMAIN codes
        /\ d[1] \notin Codes => d[1] \in DOMAIN tokens
    BY DEF GrantInv, DerivedExist, TypeOK
  <2> QED BY <2>1 DEF GrantInv, GrantPreserved, FamilyOf, CodesKept, TokensKept
<1>5. GrantPreserved'
  BY <1>4 DEF GrantPreserved, FamilyOf
<1> QED BY <1>1, <1>2, <1>3, <1>5

\* So a step that rewrites rows, and leaves one sound handler record behind, keeps
\* the invariant.
LEMMA KeptStep ==
  ASSUME GrantInv, CodesKept, TokensKept, UNCHANGED derived,
         closed' \subseteq DOMAIN tokens, killed' \subseteq Tokens,
         \/ UNCHANGED handler
         \/ \E w \in Workers, h \in Handler :
              handler' = [handler EXCEPT ![w] = h] /\ Sound(h)'
  PROVE  GrantInv'
<1>1. TypeOK'
  BY DEF GrantInv, TypeOK, CodesKept, TokensKept
<1>2. /\ \A h \in Handler : Sound(h) => Sound(h)'
      /\ \A t \in DOMAIN tokens' : tokens'[t].family \in DOMAIN tokens' \cup {None}
      /\ DerivedExist' /\ GrantPreserved'
  BY KeptPreserves
<1>3. \A v \in Workers : Sound(handler[v])'
  <2> SUFFICES ASSUME NEW v \in Workers PROVE Sound(handler[v])'
    OBVIOUS
  <2>1. handler[v] \in Handler /\ Sound(handler[v])
    BY DEF GrantInv, TypeOK, HandlerOK
  <2>2. CASE handler'[v] = handler[v]
    BY <2>1, <2>2, <1>2 DEF Sound, Bound
  <2>3. CASE handler'[v] # handler[v]
    BY <2>3 DEF GrantInv, TypeOK, Sound, Bound
  <2> QED BY <2>2, <2>3
<1> QED
  BY <1>1, <1>2, <1>3 DEF GrantInv, HandlerOK, FamiliesExist, TokensKept

\* What every action but IssueTokenPair does to the tables.
LEMMA ActionsKeep ==
  ASSUME TypeOK, HandlerOK, Next, \A w \in Workers, t \in Tokens : ~IssueTokenPair(w, t)
  PROVE  CodesKept /\ TokensKept /\ UNCHANGED derived
<1> USE UnchangedLemma DEF history
<1>1. ASSUME NEW w \in Workers, NEW c \in Codes, NEW cl \in Clients, NEW u \in Users,
             AuthorizeSubmit(w, c, cl, u)
      PROVE  CodesKept /\ TokensKept /\ UNCHANGED derived
  <2>1. [client |-> cl, user |-> u, used |-> FALSE, expired |-> FALSE] \in CodeRow
    BY DEF CodeRow
  <2> QED BY <1>1, <2>1, AuthorizeLemma DEF AuthorizeSubmit
<1>2. ASSUME NEW w \in Workers, ConsumeCode(w)
      PROVE  CodesKept /\ TokensKept /\ UNCHANGED derived
  <2>1. handler[w].credential \in DOMAIN codes
    BY <1>2 DEF ConsumeCode, HandlerOK, Sound, Bound
  <2> QED BY <1>2, <2>1, ConsumeLemma DEF ConsumeCode
<1>3. ASSUME NEW w \in Workers, RotateRefreshToken(w)
      PROVE  CodesKept /\ TokensKept /\ UNCHANGED derived
  <2>1. handler[w].credential \in DOMAIN tokens
    BY <1>3 DEF RotateRefreshToken, HandlerOK, Sound, Bound
  <2> QED BY <1>3, <2>1, RevokeLemma DEF RotateRefreshToken
<1>4. ASSUME NEW w \in Workers, RevokeFamily(w)
      PROVE  CodesKept /\ TokensKept /\ UNCHANGED derived
  <2>1. handler[w].credential \in DOMAIN tokens
    BY <1>4 DEF RevokeFamily, HandlerOK, Sound
  <2> QED BY <1>4, <2>1, FamilyLemma DEF RevokeFamily
<1>5. ASSUME NEW t \in Tokens, RevokeRefreshToken(t) \/ \E u \in Users : RevokeSession(u, t)
      PROVE  CodesKept /\ TokensKept /\ UNCHANGED derived
  BY <1>5, RevokeLemma DEF RevokeRefreshToken, RevokeSession
<1>6. ASSUME NEW c \in Codes, ExpireCode(c)
      PROVE  CodesKept /\ TokensKept /\ UNCHANGED derived
  BY <1>6, ExpireCodeLemma DEF ExpireCode
<1>7. ASSUME NEW t \in Tokens, ExpireToken(t)
      PROVE  CodesKept /\ TokensKept /\ UNCHANGED derived
  BY <1>7, ExpireLemma DEF ExpireToken
<1>8. ASSUME UNCHANGED <<codes, tokens, derived>>
      PROVE  CodesKept /\ TokensKept /\ UNCHANGED derived
  BY <1>8
<1> QED
  BY <1>1, <1>2, <1>3, <1>4, <1>5, <1>6, <1>7, <1>8
  DEF Next, ReadCode, BearerGrant, ReadRevoked, ReadRefreshToken, Abort

\* What every action but IssueTokenPair leaves in the handler it moves.
LEMMA ActionsLeaveSound ==
  ASSUME GrantInv, Next, CodesKept, TokensKept,
         \A w \in Workers, t \in Tokens : ~IssueTokenPair(w, t)
  PROVE  \/ UNCHANGED handler
         \/ \E w \in Workers, h \in Handler :
              handler' = [handler EXCEPT ![w] = h] /\ Sound(h)'
<1> DEFINE Goal == \/ UNCHANGED handler
                   \/ \E w \in Workers, h \in Handler :
                        handler' = [handler EXCEPT ![w] = h] /\ Sound(h)'
<1> SUFFICES Goal
  OBVIOUS
<1> USE DEF GrantInv
<1>0. Idle \in Handler /\ Sound(Idle)'
  BY DEF Idle, Serving, Handler, Stage, Sound
<1>1. ASSUME NEW w \in Workers, NEW c \in Codes, NEW cl \in Clients, ReadCode(w, c, cl)
      PROVE  Goal
  <2>1. Serving("code_ok", c, cl, codes[c].user, None) \in Handler
    BY <1>1 DEF ReadCode, TypeOK, CodeRow, Handler, Stage, Serving
  <2>2. PICK r \in Handler : r = Serving("code_ok", c, cl, codes[c].user, None)
    BY <2>1
  <2>3. Sound(r)'
    BY <1>1, <2>2 DEF ReadCode, CodeAccepted, Serving, Sound, Bound, TypeOK, CodeRow,
                      CodesKept
  <2>4. handler' = [handler EXCEPT ![w] = r]
    BY <1>1, <2>2 DEF ReadCode
  <2> QED BY <2>3, <2>4
<1>2. ASSUME NEW w \in Workers, ConsumeCode(w) \/ RotateRefreshToken(w) PROVE Goal
  <2>1. /\ handler[w] \in Handler /\ Bound(handler[w])
        /\ handler' = [handler EXCEPT ![w] = [handler[w] EXCEPT !.stage = "issue"]]
    BY <1>2 DEF ConsumeCode, RotateRefreshToken, HandlerOK, Sound, TypeOK
  <2>2. [handler[w] EXCEPT !.stage = "issue"] \in Handler
    BY <2>1 DEF Handler, Stage
  <2>3. PICK r \in Handler : r = [handler[w] EXCEPT !.stage = "issue"]
    BY <2>2
  <2>4. /\ r.stage = "issue"
        /\ r.credential = handler[w].credential /\ r.client = handler[w].client
        /\ r.user = handler[w].user /\ r.family = handler[w].family
    BY <2>1, <2>3 DEF Handler
  <2>5. Sound(r)'
    BY <2>1, <2>4 DEF Sound, Bound, CodesKept, TokensKept
  <2> QED BY <2>1, <2>3, <2>5
<1>3. ASSUME NEW w \in Workers, NEW cl \in Clients, NEW u \in Users, BearerGrant(w, cl, u)
      PROVE  Goal
  <2>1. PICK r \in Handler : r = Serving("issue", None, cl, u, None)
    BY DEF Handler, Stage, Serving
  <2>2. Sound(r)'
    BY <2>1 DEF Serving, Sound, Bound
  <2> QED BY <1>3, <2>1, <2>2 DEF BearerGrant
<1>4. ASSUME NEW w \in Workers, NEW t \in Tokens, NEW cl \in Clients, ReadRevoked(w, t, cl)
      PROVE  Goal
  <2>1. PICK r \in Handler : r = Serving("reused", t, cl, None, None)
    BY DEF Handler, Stage, Serving
  <2>2. Sound(r)'
    BY <1>4, <2>1 DEF ReadRevoked, Serving, Sound, FamilyOf, TokensKept
  <2> QED BY <1>4, <2>1, <2>2 DEF ReadRevoked
<1>5. ASSUME NEW w \in Workers, NEW t \in Tokens, NEW cl \in Clients,
             ReadRefreshToken(w, t, cl)
      PROVE  Goal
  <2>1. Serving("refresh_ok", t, cl, tokens[t].user, FamilyOf(t)) \in Handler
    BY <1>5 DEF ReadRefreshToken, Handler, Stage, Serving, TypeOK, TokenRow, FamilyOf
  <2>2. PICK r \in Handler :
          r = Serving("refresh_ok", t, cl, tokens[t].user, FamilyOf(t))
    BY <2>1
  <2>3. Sound(r)'
    BY <1>5, <2>2 DEF ReadRefreshToken, RefreshAccepted, Serving, Sound, Bound, TypeOK,
                      TokenRow, FamilyOf, TokensKept
  <2> QED BY <1>5, <2>2, <2>3 DEF ReadRefreshToken
<1>6. ASSUME NEW w \in Workers, RevokeFamily(w) \/ Abort(w) PROVE Goal
  BY <1>0, <1>6 DEF RevokeFamily, Abort
<1> QED
  BY <1>1, <1>2, <1>3, <1>4, <1>5, <1>6
  DEF Next, AuthorizeSubmit, RevokeRefreshToken, RevokeSession, ExpireCode, ExpireToken

\* The families a step closes exist, and what it marks killed is a set of families.
LEMMA HistoryStep ==
  ASSUME GrantInv, Next, \A w \in Workers, t \in Tokens : ~IssueTokenPair(w, t)
  PROVE  closed' \subseteq DOMAIN tokens /\ killed' \subseteq Tokens
<1> USE DEF GrantInv, TypeOK, FamiliesExist, FamilyOf, history
<1>1. ASSUME NEW w \in Workers, RevokeFamily(w)
      PROVE  closed' \subseteq DOMAIN tokens /\ killed' \subseteq Tokens
  BY <1>1 DEF RevokeFamily, HandlerOK, Sound
<1>2. ASSUME NEW t \in Tokens, RevokeRefreshToken(t) \/ \E u \in Users : RevokeSession(u, t)
      PROVE  closed' \subseteq DOMAIN tokens /\ killed' \subseteq Tokens
  BY <1>2 DEF RevokeRefreshToken, RevokeSession, Ended, Unrevoked
<1>3. ASSUME UNCHANGED <<closed, killed>>
      PROVE  closed' \subseteq DOMAIN tokens /\ killed' \subseteq Tokens
  BY <1>3
<1> QED
  BY <1>1, <1>2, <1>3 DEF Next, AuthorizeSubmit, ReadCode, ConsumeCode, BearerGrant,
     ReadRevoked, ReadRefreshToken, RotateRefreshToken, Abort, ExpireCode, ExpireToken

\* Issuing: the new row is bound as the credential it came from.
LEMMA IssueStep ==
  ASSUME GrantInv, NEW w \in Workers, NEW t \in Tokens, IssueTokenPair(w, t)
  PROVE  GrantInv'
<1> DEFINE h == handler[w]
<1>1. h \in Handler /\ Bound(h) /\ h.stage = "issue"
  BY DEF GrantInv, TypeOK, HandlerOK, Sound, IssueTokenPair
<1>2. /\ DOMAIN tokens' = DOMAIN tokens \cup {t} /\ t \notin DOMAIN tokens
      /\ tokens'[t] = NewRow(h, t)
      /\ \A k \in DOMAIN tokens : tokens'[k] = tokens[k]
  <2>1. tokens' = Insert(tokens, t, NewRow(h, t)) /\ t \notin DOMAIN tokens
    BY DEF IssueTokenPair
  <2> HIDE DEF h
  <2> QED BY <2>1, IssueLemma
<1>3. /\ NewRow(h, t) \in TokenRow
      /\ NewRow(h, t).client = h.client /\ NewRow(h, t).user = h.user
      /\ NewRow(h, t).family = IF h.family = None THEN t ELSE h.family
  BY <1>1 DEF NewRow, TokenRow, IssuedFamily, Handler, Bound
<1>4. h.family \in DOMAIN tokens \cup {None}
  BY <1>1 DEF Bound, Handler, GrantInv, FamiliesExist, TypeOK
<1>5. /\ UNCHANGED <<codes, closed, killed>>
      /\ handler' = [handler EXCEPT ![w] = Idle]
      /\ derived' = derived \cup (IF h.credential = None THEN {}
                                  ELSE {<<h.credential, t>>})
  BY DEF IssueTokenPair
<1>6. h.credential # None => h.credential \in DOMAIN codes \cup DOMAIN tokens
  BY <1>1 DEF Bound, Handler
<1> HIDE DEF h
<1>7. TypeOK'
  <2>1. handler' \in [Workers -> Handler]
    BY <1>5 DEF GrantInv, TypeOK, Idle, Serving, Handler, Stage
  <2>2. derived' \subseteq (Codes \cup Tokens) \X Tokens
    BY <1>5, <1>6 DEF GrantInv, TypeOK
  <2> QED BY <1>2, <1>3, <1>5, <2>1, <2>2 DEF GrantInv, TypeOK
<1>8. HandlerOK'
  <2> SUFFICES ASSUME NEW v \in Workers PROVE Sound(handler[v])'
    BY DEF HandlerOK
  <2>1. CASE v = w
    BY <1>5, <2>1 DEF GrantInv, TypeOK, Sound, Idle, Serving
  <2>2. CASE v # w
    <3>1. handler'[v] = handler[v] /\ handler[v] \in Handler /\ Sound(handler[v])
      BY <1>5, <2>2 DEF GrantInv, TypeOK, HandlerOK
    <3> QED BY <3>1, <1>2, <1>5 DEF Sound, Bound
  <2> QED BY <2>1, <2>2
<1>9. FamiliesExist'
  BY <1>2, <1>3, <1>4, <1>5 DEF GrantInv, FamiliesExist
<1>10. DerivedExist'
  BY <1>2, <1>5, <1>6 DEF GrantInv, DerivedExist
<1>11. GrantPreserved'
  <2> SUFFICES ASSUME NEW d \in derived'
               PROVE  IF d[1] \in Codes
                        THEN /\ tokens'[d[2]].client = codes'[d[1]].client
                             /\ tokens'[d[2]].user = codes'[d[1]].user
                        ELSE /\ tokens'[d[2]].client = tokens'[d[1]].client
                             /\ tokens'[d[2]].user = tokens'[d[1]].user
                             /\ tokens'[d[1]].family # None =>
                                  tokens'[d[2]].family = tokens'[d[1]].family
    BY DEF GrantPreserved, FamilyOf
  <2>1. CASE d \in derived
    <3>1. d[2] \in DOMAIN tokens /\ (d[1] \notin Codes => d[1] \in DOMAIN tokens)
      BY <2>1 DEF GrantInv, DerivedExist, TypeOK
    <3> QED BY <2>1, <3>1, <1>2, <1>5 DEF GrantInv, GrantPreserved, FamilyOf
  <2>2. CASE d \notin derived
    <3>1. d = <<h.credential, t>> /\ h.credential # None
      BY <2>2, <1>5
    <3> QED BY <3>1, <1>1, <1>2, <1>3, <1>5, <1>6 DEF Bound, GrantInv, TypeOK
  <2> QED BY <2>1, <2>2
<1> QED BY <1>7, <1>8, <1>9, <1>10, <1>11 DEF GrantInv

\* The invariant is inductive.
LEMMA GrantStep == GrantInv /\ [Next]_vars => GrantInv'
<1> SUFFICES ASSUME GrantInv, [Next]_vars PROVE GrantInv'
  OBVIOUS
<1>1. CASE UNCHANGED vars
  BY <1>1, UnchangedLemma, KeptStep DEF vars, GrantInv, TypeOK, FamiliesExist
<1>2. CASE \E w \in Workers, t \in Tokens : IssueTokenPair(w, t)
  BY <1>2, IssueStep
<1>3. CASE Next /\ \A w \in Workers, t \in Tokens : ~IssueTokenPair(w, t)
  <2>1. CodesKept /\ TokensKept /\ UNCHANGED derived
    BY <1>3, ActionsKeep DEF GrantInv
  <2> QED BY <1>3, <2>1, ActionsLeaveSound, HistoryStep, KeptStep
<1> QED BY <1>1, <1>2, <1>3

\* Rows and handler records keep their types, for any number of workers.
THEOREM TypeCorrect == Spec => []TypeOK
<1>1. GrantInv => TypeOK
  BY DEF GrantInv
<1> QED BY <1>1, GrantInit, GrantStep, PTL DEF Spec

\* A pair is bound to the client and the owner of what it was redeemed from, and a
\* rotation stays in its family, for any number of workers.
THEOREM GrantsPreserved == Spec => []GrantPreserved
<1>1. GrantInv => GrantPreserved
  BY DEF GrantInv
<1> QED BY <1>1, GrantInit, GrantStep, PTL DEF Spec

-----------------------------------------------------------------------------
(* One worker.  RedeemedOnce, OneLivePerFamily and ClosedStaysClosed are not  *)
(* inductive: each can be broken by a request that is already past its        *)
(* checks.  InFlight says what such a request may still do.                   *)

\* What was redeemed is spent in its table.
Spent ==
  \A d \in derived : /\ d[1] \in Codes => codes[d[1]].used
                     /\ d[1] \in Tokens => tokens[d[1]].revoked

\* A request past its checks redeems a credential for the first time, in a family
\* that nobody has closed and where nothing else is live.
Fresh(h) ==
  h.stage \in {"code_ok", "refresh_ok", "issue"} =>
    /\ \A d \in derived : d[1] # h.credential
    /\ h.family \notin closed
    /\ h.family # None =>
         \A t \in DOMAIN tokens :
           ~tokens[t].revoked /\ tokens[t].family = h.family
             => h.stage = "refresh_ok" /\ t = h.credential
    /\ h.stage = "issue" => /\ h.credential \in Codes => codes[h.credential].used
                            /\ h.credential \in Tokens => tokens[h.credential].revoked

InFlight == \A w \in Workers : Fresh(handler[w])

WorkerInv == /\ Spent /\ InFlight
             /\ RedeemedOnce /\ OneLivePerFamily /\ ClosedStaysClosed

\* The one-worker strengthening holds at startup.
LEMMA WorkerInit == Init => WorkerInv
<1> SUFFICES ASSUME Init PROVE WorkerInv
  OBVIOUS
<1>1. derived = {} /\ closed = {} /\ \A w \in Workers : handler[w] = Idle
  BY DEF Init
<1>2. \A t \in DOMAIN tokens : tokens[t].family = None
  BY DEF Init
<1>3. InFlight
  BY <1>1 DEF InFlight, Fresh, Idle, Serving
<1> QED
  BY <1>1, <1>2, <1>3 DEF WorkerInv, Spent, RedeemedOnce, OneLivePerFamily,
     ClosedStaysClosed, FamilyOf

\* A step that rewrites rows and closes no family disturbs none of the parts that
\* speak of the tables, and leaves a fresh request fresh.
LEMMA KeptWorker ==
  ASSUME GrantInv, WorkerInv, CodesKept, TokensKept, UNCHANGED <<derived, closed>>
  PROVE  /\ Spent' /\ RedeemedOnce' /\ OneLivePerFamily' /\ ClosedStaysClosed'
         /\ \A h \in Handler : Sound(h) /\ Fresh(h) => Fresh(h)'
<1> USE DEF WorkerInv, CodesKept, TokensKept
<1>1. Spent'
  BY DEF GrantInv, DerivedExist, TypeOK, Spent
<1>2. RedeemedOnce'
  BY DEF RedeemedOnce
<1>3. OneLivePerFamily'
  BY DEF OneLivePerFamily, Unrevoked, FamilyOf
<1>4. ClosedStaysClosed'
  BY DEF ClosedStaysClosed, Unrevoked, FamilyOf
<1>5. ASSUME NEW h \in Handler, Sound(h), Fresh(h) PROVE Fresh(h)'
  BY <1>5 DEF Sound, Bound, Fresh
<1> QED BY <1>1, <1>2, <1>3, <1>4, <1>5

\* The same when, besides, one family loses its last live token.
LEMMA ClosingWorker ==
  ASSUME GrantInv, WorkerInv, CodesKept, TokensKept, UNCHANGED derived,
         NEW f \in Tokens, closed' = closed \cup {f},
         \A t \in DOMAIN tokens : tokens[t].family = f => tokens'[t].revoked,
         \A w \in Workers :
           \/ handler'[w].stage = "idle"
           \/ /\ handler'[w] = handler[w]
              /\ handler[w].stage \in {"refresh_ok", "issue"} => handler[w].family # f
  PROVE  WorkerInv'
<1> USE DEF WorkerInv, CodesKept, TokensKept
<1>1. Spent'
  BY DEF GrantInv, DerivedExist, TypeOK, Spent
<1>2. RedeemedOnce' /\ OneLivePerFamily'
  BY DEF RedeemedOnce, OneLivePerFamily, Unrevoked, FamilyOf
<1>3. ClosedStaysClosed'
  BY DEF ClosedStaysClosed, Unrevoked, FamilyOf
<1>4. ASSUME NEW w \in Workers PROVE Fresh(handler[w])'
  <2>1. CASE handler'[w].stage = "idle"
    BY <2>1 DEF Fresh
  <2>2. CASE handler'[w] = handler[w] /\ handler'[w].stage # "idle"
    <3>1. handler[w].stage \in {"code_ok", "refresh_ok", "issue"}
            => handler[w].family # f
      BY <2>2 DEF GrantInv, HandlerOK, Sound, Bound, TypeOK, Handler
    <3>2. Sound(handler[w]) /\ Fresh(handler[w])
      BY DEF GrantInv, HandlerOK, InFlight
    <3> QED BY <2>2, <3>1, <3>2 DEF Sound, Bound, Fresh
  <2> QED BY <2>1, <2>2
<1> QED BY <1>1, <1>2, <1>3, <1>4 DEF InFlight

\* Every action but IssueTokenPair, with one worker.
LEMMA WorkerActions ==
  ASSUME OneWorker, GrantInv, WorkerInv, Next, CodesKept, TokensKept, UNCHANGED derived,
         \A w \in Workers, t \in Tokens : ~IssueTokenPair(w, t)
  PROVE  WorkerInv'
<1> USE DEF history
<1>a. ASSUME UNCHANGED closed, NEW w \in Workers, Fresh(handler[w])' PROVE WorkerInv'
  BY <1>a, KeptWorker DEF OneWorker, WorkerInv, InFlight
<1>b. ASSUME UNCHANGED <<closed, handler>> PROVE WorkerInv'
  <2>1. ASSUME NEW w \in Workers PROVE Fresh(handler[w])'
    <3>1. /\ handler[w] \in Handler /\ Sound(handler[w]) /\ Fresh(handler[w])
          /\ handler'[w] = handler[w]
      BY <1>b DEF GrantInv, TypeOK, HandlerOK, WorkerInv, InFlight
    <3>a. \A k \in DOMAIN tokens : ~tokens'[k].revoked => ~tokens[k].revoked
      BY DEF TokensKept
    <3>b. CASE handler[w].stage \in {"code_ok", "refresh_ok", "issue"}
      BY <3>1, <3>a, <3>b, <1>b DEF Fresh, Sound, Bound, CodesKept, TokensKept
    <3>c. CASE handler[w].stage \notin {"code_ok", "refresh_ok", "issue"}
      BY <3>1, <3>c DEF Fresh
    <3> QED BY <3>b, <3>c
  <2> QED BY <1>b, <2>1, KeptWorker DEF WorkerInv, InFlight
<1>c. None \notin closed /\ \A d \in derived : d[1] # None
  BY DEF GrantInv, TypeOK
<1>1. ASSUME NEW w \in Workers, NEW c \in Codes, NEW cl \in Clients, ReadCode(w, c, cl)
      PROVE  WorkerInv'
  <2>1. /\ handler'[w] = Serving("code_ok", c, cl, codes[c].user, None)
        /\ ~codes[c].used /\ UNCHANGED <<closed, derived>>
    BY <1>1 DEF ReadCode, CodeAccepted, GrantInv, TypeOK
  <2>2. \A d \in derived : d[1] # c
    BY <2>1 DEF WorkerInv, Spent
  <2>3. Fresh(handler[w])'
    BY <2>1, <2>2, <1>c DEF Fresh, Serving
  <2> QED BY <2>1, <2>3, <1>a
<1>2. ASSUME NEW w \in Workers, ConsumeCode(w) PROVE WorkerInv'
  <2>1. /\ handler'[w].stage = "issue"
        /\ handler'[w].credential = handler[w].credential
        /\ handler'[w].family = handler[w].family
        /\ handler[w].credential \in DOMAIN codes
        /\ handler[w].credential \in Codes
        /\ codes' = [codes EXCEPT ![handler[w].credential].used = TRUE]
        /\ handler[w].stage = "code_ok" /\ UNCHANGED <<tokens, closed>>
    BY <1>2 DEF ConsumeCode, GrantInv, TypeOK, HandlerOK, Sound, Bound, Handler
  <2>2. codes'[handler[w].credential].used
    BY <2>1, ConsumeLemma DEF GrantInv
  <2>3. handler[w].family = None /\ Fresh(handler[w])
    BY <2>1 DEF GrantInv, HandlerOK, Sound, Bound, WorkerInv, InFlight
  <2>4. Fresh(handler[w])'
    BY <2>1, <2>2, <2>3 DEF Fresh
  <2> QED BY <2>1, <2>4, <1>a
<1>3. ASSUME NEW w \in Workers, NEW cl \in Clients, NEW u \in Users, BearerGrant(w, cl, u)
      PROVE  WorkerInv'
  <2>1. /\ handler'[w] = Serving("issue", None, cl, u, None)
        /\ UNCHANGED <<closed, derived>>
    BY <1>3 DEF BearerGrant, GrantInv, TypeOK
  <2>2. Fresh(handler[w])'
    BY <2>1, <1>c DEF Fresh, Serving
  <2> QED BY <2>1, <2>2, <1>a
<1>4. ASSUME NEW w \in Workers, NEW t \in Tokens, NEW cl \in Clients, ReadRevoked(w, t, cl)
      PROVE  WorkerInv'
  <2>1. handler'[w].stage = "reused" /\ UNCHANGED closed
    BY <1>4 DEF ReadRevoked, Serving, GrantInv, TypeOK
  <2> QED BY <2>1, <1>a DEF Fresh
<1>5. ASSUME NEW w \in Workers, RevokeFamily(w) PROVE WorkerInv'
  <2> DEFINE t == handler[w].credential
  <2>1. /\ t \in DOMAIN tokens /\ tokens[t].family \in Tokens
        /\ tokens' = RevokedAsFamilyOf(t) /\ closed' = closed \cup {tokens[t].family}
        /\ handler'[w].stage = "idle"
    BY <1>5 DEF RevokeFamily, GrantInv, HandlerOK, Sound, TypeOK, TokenRow, Idle,
                Serving, FamilyOf
  <2>2. \A k \in DOMAIN tokens : tokens[k].family = tokens[t].family => tokens'[k].revoked
    BY <2>1, FamilyLemma DEF GrantInv, FamilyOf
  <2>3. \A v \in Workers : handler'[v].stage = "idle"
    BY <2>1 DEF OneWorker
  <2> QED BY <2>1, <2>2, <2>3, ClosingWorker
<1>6. ASSUME NEW w \in Workers, NEW t \in Tokens, NEW cl \in Clients,
             ReadRefreshToken(w, t, cl)
      PROVE  WorkerInv'
  <2>1. /\ handler'[w] = Serving("refresh_ok", t, cl, tokens[t].user, tokens[t].family)
        /\ t \in DOMAIN tokens /\ ~tokens[t].revoked
        /\ UNCHANGED <<tokens, closed, derived>>
    BY <1>6 DEF ReadRefreshToken, FamilyOf, GrantInv, TypeOK
  <2>2. \A d \in derived : d[1] # t
    BY <2>1 DEF WorkerInv, Spent
  <2>3. tokens[t].family \notin closed
    BY <2>1 DEF WorkerInv, ClosedStaysClosed, Unrevoked, FamilyOf
  <2>4. tokens[t].family # None =>
          \A k \in DOMAIN tokens : ~tokens[k].revoked /\ tokens[k].family = tokens[t].family
                                     => k = t
    BY <2>1 DEF WorkerInv, OneLivePerFamily, Unrevoked, FamilyOf
  <2>5. Fresh(handler[w])'
    BY <2>1, <2>2, <2>3, <2>4 DEF Fresh, Serving
  <2> QED BY <2>1, <2>5, <1>a
<1>7. ASSUME NEW w \in Workers, RotateRefreshToken(w) PROVE WorkerInv'
  <2>1. /\ handler'[w].stage = "issue"
        /\ handler'[w].credential = handler[w].credential
        /\ handler'[w].family = handler[w].family
        /\ handler[w].credential \in DOMAIN tokens
        /\ handler[w].credential \notin Codes
        /\ Revoke(handler[w].credential)
        /\ handler[w].stage = "refresh_ok" /\ UNCHANGED <<codes, closed>>
    BY <1>7 DEF RotateRefreshToken, GrantInv, TypeOK, HandlerOK, Sound, Bound, Handler
  <2>2. /\ tokens'[handler[w].credential].revoked
        /\ \A k \in DOMAIN tokens \ {handler[w].credential} : tokens'[k] = tokens[k]
        /\ DOMAIN tokens' = DOMAIN tokens
    BY <2>1, RevokeLemma DEF GrantInv, TokensKept
  <2>3. Fresh(handler[w])
    BY DEF WorkerInv, InFlight
  <2>4. Fresh(handler[w])'
    BY <2>1, <2>2, <2>3 DEF Fresh
  <2> QED BY <2>1, <2>4, <1>a
<1>8. ASSUME NEW t \in Tokens, RevokeRefreshToken(t) \/ \E u \in Users : RevokeSession(u, t)
      PROVE  WorkerInv'
  <2>1. /\ t \in DOMAIN tokens /\ Revoke(t) /\ closed' = closed \cup Ended(t)
        /\ UNCHANGED handler
    BY <1>8 DEF RevokeRefreshToken, RevokeSession
  <2>2. CASE Ended(t) = {}
    BY <2>1, <2>2, <1>b
  <2>3. CASE Ended(t) # {}
    <3>1. /\ ~tokens[t].revoked /\ ~Rotating(t) /\ tokens[t].family \in Tokens
          /\ Ended(t) = {tokens[t].family}
      BY <2>1, <2>3 DEF Ended, Unrevoked, FamilyOf, GrantInv, TypeOK, TokenRow
    <3>2. ASSUME NEW k \in DOMAIN tokens, tokens[k].family = tokens[t].family
          PROVE  tokens'[k].revoked
      <4>1. tokens'[t].revoked /\ (k # t => tokens'[k] = tokens[k])
        BY <2>1, RevokeLemma DEF GrantInv
      <4>2. k # t => tokens[k].revoked
        BY <2>1, <3>1, <3>2 DEF WorkerInv, OneLivePerFamily, Unrevoked, FamilyOf
      <4> QED BY <4>1, <4>2
    <3>3. ASSUME NEW w \in Workers, handler[w].stage \in {"refresh_ok", "issue"}
          PROVE  handler[w].family # tokens[t].family
      <4>1. Fresh(handler[w])
        BY DEF WorkerInv, InFlight
      <4> QED BY <2>1, <3>1, <3>3, <4>1 DEF Fresh, Rotating
    <3> QED BY <2>1, <3>1, <3>2, <3>3, ClosingWorker
  <2> QED BY <2>2, <2>3
<1>9. ASSUME NEW w \in Workers, Abort(w) PROVE WorkerInv'
  <2>1. handler'[w].stage = "idle" /\ UNCHANGED closed
    BY <1>9 DEF Abort, Idle, Serving, GrantInv, TypeOK
  <2> QED BY <2>1, <1>a DEF Fresh
<1> QED
  BY <1>b, <1>1, <1>2, <1>3, <1>4, <1>5, <1>6, <1>7, <1>8, <1>9
  DEF Next, AuthorizeSubmit, ExpireCode, ExpireToken

\* Issuing: the request was the only one in flight, and it was fresh.
LEMMA WorkerIssue ==
  ASSUME OneWorker, GrantInv, WorkerInv, NEW w \in Workers, NEW t \in Tokens,
         IssueTokenPair(w, t)
  PROVE  WorkerInv'
<1> DEFINE h == handler[w]
<1>1. /\ h \in Handler /\ Bound(h) /\ h.stage = "issue" /\ Fresh(h)
  BY DEF GrantInv, TypeOK, HandlerOK, Sound, IssueTokenPair, WorkerInv, InFlight
<1>2. /\ DOMAIN tokens' = DOMAIN tokens \cup {t} /\ t \notin DOMAIN tokens
      /\ tokens'[t] = NewRow(h, t)
      /\ \A k \in DOMAIN tokens : tokens'[k] = tokens[k]
  <2>1. tokens' = Insert(tokens, t, NewRow(h, t)) /\ t \notin DOMAIN tokens
    BY DEF IssueTokenPair
  <2> HIDE DEF h
  <2> QED BY <2>1, IssueLemma
<1>3. tokens'[t].family = IF h.family = None THEN t ELSE h.family
  BY <1>2 DEF NewRow, IssuedFamily
<1>4. /\ UNCHANGED <<codes, closed>> /\ handler'[w].stage = "idle"
      /\ derived' = derived \cup (IF h.credential = None THEN {}
                                  ELSE {<<h.credential, t>>})
  BY DEF IssueTokenPair, GrantInv, TypeOK, Idle, Serving
<1> HIDE DEF h
<1>5. Spent'
  BY <1>1, <1>2, <1>4 DEF WorkerInv, Spent, Fresh, Bound, GrantInv, DerivedExist, TypeOK
<1>6. RedeemedOnce'
  BY <1>1, <1>4 DEF WorkerInv, RedeemedOnce, Fresh
<1>7. \A k \in DOMAIN tokens : tokens[k].family # t /\ t \notin closed
  BY <1>2 DEF GrantInv, FamiliesExist
<1>8. OneLivePerFamily'
  BY <1>1, <1>2, <1>3, <1>7 DEF WorkerInv, OneLivePerFamily, Unrevoked, FamilyOf, Fresh
<1>9. ClosedStaysClosed'
  <2>1. tokens'[t].family \notin closed
    BY <1>1, <1>2, <1>3 DEF Fresh, GrantInv, FamiliesExist
  <2> QED BY <1>2, <1>4, <2>1 DEF WorkerInv, ClosedStaysClosed, Unrevoked, FamilyOf
<1>10. InFlight'
  BY <1>4 DEF OneWorker, InFlight, Fresh
<1> QED BY <1>5, <1>6, <1>8, <1>9, <1>10 DEF WorkerInv

\* With one worker, every step preserves the strengthening.
LEMMA WorkerStep ==
  ASSUME OneWorker PROVE GrantInv /\ WorkerInv /\ [Next]_vars => WorkerInv'
<1> SUFFICES ASSUME GrantInv, WorkerInv, [Next]_vars PROVE WorkerInv'
  OBVIOUS
<1>1. CASE UNCHANGED vars
  BY <1>1 DEF vars, WorkerInv, Spent, InFlight, Fresh, RedeemedOnce, OneLivePerFamily,
              ClosedStaysClosed, Unrevoked, FamilyOf
<1>2. CASE \E w \in Workers, t \in Tokens : IssueTokenPair(w, t)
  BY <1>2, WorkerIssue
<1>3. CASE Next /\ \A w \in Workers, t \in Tokens : ~IssueTokenPair(w, t)
  <2>1. CodesKept /\ TokensKept /\ UNCHANGED derived
    BY <1>3, ActionsKeep DEF GrantInv
  <2> QED BY <1>3, <2>1, WorkerActions
<1> QED BY <1>1, <1>2, <1>3

\* The invariant of a single worker, for the three theorems that follow from it.
LEMMA WorkerInvariant == ASSUME OneWorker PROVE Spec => []WorkerInv
<1>1. GrantInv /\ WorkerInv /\ [Next]_vars => (GrantInv /\ WorkerInv)'
  BY GrantStep, WorkerStep
<1>2. Init => GrantInv /\ WorkerInv
  BY GrantInit, WorkerInit
<1> QED BY <1>1, <1>2, PTL DEF Spec

\* With one worker, every code and every refresh token is redeemed at most once
\* (oauth/service.py:183-207, 275-312).
THEOREM CredentialsRedeemOnce == ASSUME OneWorker PROVE Spec => []RedeemedOnce
<1>1. WorkerInv => RedeemedOnce
  BY DEF WorkerInv
<1> QED BY <1>1, WorkerInvariant, PTL

\* With one worker, a lineage has at most one live token, whatever is revoked between
\* the steps of its rotations (oauth/service.py:230-272, 304-324).
THEOREM LineageHasOneLive == ASSUME OneWorker PROVE Spec => []OneLivePerFamily
<1>1. WorkerInv => OneLivePerFamily
  BY DEF WorkerInv
<1> QED BY <1>1, WorkerInvariant, PTL

\* With one worker, a lineage that reuse detection or the revocation of its live token
\* has ended never comes back (oauth/service.py:282-302, 349-370).
THEOREM ClosedForGood == ASSUME OneWorker PROVE Spec => []ClosedStaysClosed
<1>1. WorkerInv => ClosedStaysClosed
  BY DEF WorkerInv
<1> QED BY <1>1, WorkerInvariant, PTL

-----------------------------------------------------------------------------
\* One worker implements SessionLineage: every step of the token service opens a session,
\* trades its token, closes it, or changes nothing that the mapping shows.

MappedPhase == [s \in Tokens |-> Phase(s)]
MappedCurrent == [s \in Tokens |-> Current(s)]
MappedSeen == {t \in DOMAIN tokens : FamilyOf(t) # None}

Invariant == GrantInv /\ WorkerInv

-----------------------------------------------------------------------------
\* A session with a holder is open, one without is not; it lives by its only holder.
LEMMA OpenMeansHeld ==
  ASSUME Invariant, NEW s \in Tokens
  PROVE  /\ Holders(s) # {} => Phase(s) = "open"
         /\ Holders(s) = {} => Phase(s) # "open" /\ Current(s) = None
<1>1. ASSUME NEW t \in Holders(s) PROVE s \in DOMAIN tokens /\ t \in DOMAIN tokens /\ FamilyOf(t) = s
  <2>1. t \in DOMAIN tokens /\ FamilyOf(t) = s
    BY <1>1 DEF Holders
  <2>2. s # None
    BY ConstantsOK DEF ConstantsOK
  <2> QED BY <2>1, <2>2 DEF Invariant, GrantInv, FamiliesExist, FamilyOf
<1>2. Holders(s) # {} => Phase(s) = "open"
  BY <1>1 DEF Phase
<1>3. Holders(s) = {} => Phase(s) # "open" /\ Current(s) = None
  BY DEF Phase, Current
<1> QED BY <1>2, <1>3

\* Rows are rewritten, none added, and at most the session s loses its holder.
LEMMA ClosingStep ==
  ASSUME Invariant, TokensKept, NEW s \in Tokens,
         \A x \in Tokens \ {s} : Holders(x)' = Holders(x),
         Holders(s)' = Holders(s) \/ Holders(s)' = {}
  PROVE  Lineage!Close(s) \/ UNCHANGED <<MappedPhase, MappedCurrent, MappedSeen>>
<1>1. MappedSeen' = MappedSeen
  BY DEF MappedSeen, FamilyOf, TokensKept
<1>2. ASSUME NEW x \in Tokens
      PROVE  (x \notin DOMAIN tokens \/ \A t \in DOMAIN tokens : FamilyOf(t) # x)'
               = (x \notin DOMAIN tokens \/ \A t \in DOMAIN tokens : FamilyOf(t) # x)
  BY DEF TokensKept, FamilyOf
<1>3. ASSUME NEW x \in Tokens, Holders(x)' = Holders(x)
      PROVE  Phase(x)' = Phase(x) /\ Current(x)' = Current(x)
  BY <1>2, <1>3 DEF Phase, Current
<1>4. CASE Holders(s)' = Holders(s)
  <2>1. \A x \in Tokens : Phase(x)' = Phase(x) /\ Current(x)' = Current(x)
    BY <1>3, <1>4
  <2> QED BY <1>1, <2>1 DEF MappedPhase, MappedCurrent
<1>5. CASE Holders(s)' = {} /\ Holders(s) # {}
  <2>1. Phase(s) = "open"
    BY <1>5, OpenMeansHeld
  <2>2. Phase(s)' = "closed" /\ Current(s)' = None
    BY <1>2, <1>5, <2>1 DEF Phase, Current
  <2>3. \A x \in Tokens \ {s} : Phase(x)' = Phase(x) /\ Current(x)' = Current(x)
    BY <1>3
  <2>4. MappedPhase' = [MappedPhase EXCEPT ![s] = "closed"]
    BY <2>2, <2>3 DEF MappedPhase
  <2>5. MappedCurrent' = [MappedCurrent EXCEPT ![s] = None]
    BY <2>2, <2>3 DEF MappedCurrent
  <2> QED BY <1>1, <2>1, <2>4, <2>5 DEF Lineage!Close, MappedPhase, MappedCurrent, MappedSeen
<1> QED BY <1>4, <1>5

\* Rows are rewritten and none added, and every session keeps its holders.
LEMMA QuietStep ==
  ASSUME TokensKept, \A x \in Tokens : Holders(x)' = Holders(x)
  PROVE  UNCHANGED <<MappedPhase, MappedCurrent, MappedSeen>>
<1>1. MappedSeen' = MappedSeen
  BY DEF MappedSeen, FamilyOf, TokensKept
<1>2. ASSUME NEW x \in Tokens PROVE Phase(x)' = Phase(x) /\ Current(x)' = Current(x)
  <2>1. (x \notin DOMAIN tokens \/ \A t \in DOMAIN tokens : FamilyOf(t) # x)'
           = (x \notin DOMAIN tokens \/ \A t \in DOMAIN tokens : FamilyOf(t) # x)
    BY DEF TokensKept, FamilyOf
  <2>2. Holders(x)' = Holders(x)
    OBVIOUS
  <2> QED BY ONLY <2>1, <2>2 DEF Phase, Current
<1> QED BY <1>1, <1>2 DEF MappedPhase, MappedCurrent

-----------------------------------------------------------------------------
\* The holders of a session, from what becomes of the tokens of its family.
LEMMA HoldersStay ==
  ASSUME TokensKept, NEW s,
         \A t \in DOMAIN tokens : tokens[t].family = s => (Holds(t)' <=> Holds(t))
  PROVE  Holders(s)' = Holders(s)
BY DEF Holders, FamilyOf, TokensKept

\* A session loses its holders when no token of its family holds it any more.
LEMMA HoldersGo ==
  ASSUME TokensKept, NEW s,
         \A t \in DOMAIN tokens : tokens[t].family = s => ~Holds(t)'
  PROVE  Holders(s)' = {}
BY DEF Holders, FamilyOf, TokensKept

\* The only worker is the one that rotates.
Trading(h, t) == h.stage \in {"refresh_ok", "issue"} /\ h.credential = t

\* With one worker a token is being traded when that worker trades it.
LEMMA OnlyTrader ==
  ASSUME OneWorker, NEW w \in Workers, NEW t
  PROVE  /\ Rotating(t) <=> Trading(handler[w], t)
         /\ Rotating(t)' <=> Trading(handler'[w], t)
BY DEF OneWorker, Rotating, Trading

Maps == (\E s \in Tokens : Lineage!Close(s)) \/ UNCHANGED <<MappedPhase, MappedCurrent, MappedSeen>>

\* A handler moves and no row changes: it trades what it traded, or something that is
\* live, or that is of no session.
LEMMA HandlerStep ==
  ASSUME OneWorker, Invariant, TokensKept, UNCHANGED tokens, NEW w \in Workers,
         \A t \in DOMAIN tokens : \/ Trading(handler[w], t) <=> Trading(handler'[w], t)
                                  \/ ~tokens[t].revoked
                                  \/ tokens[t].family = None
  PROVE  Maps
<1>1. ASSUME NEW s \in Tokens, NEW t \in DOMAIN tokens, tokens[t].family = s
      PROVE  Holds(t)' <=> Holds(t)
  <2>1. s # None
    BY ConstantsOK DEF ConstantsOK
  <2> QED BY <1>1, <2>1, OnlyTrader DEF Holds, Unrevoked
<1>2. \A s \in Tokens : Holders(s)' = Holders(s)
  BY <1>1, HoldersStay
<1> QED BY <1>2, QuietStep DEF Maps

\* A revocation, of a token that is being traded, of one that is dead, or of the last.
LEMMA RevokeStep ==
  ASSUME OneWorker, Invariant, NEW t \in DOMAIN tokens, Revoke(t), UNCHANGED handler
  PROVE  Maps
<1>1. /\ TokensKept /\ tokens'[t].revoked
      /\ \A k \in DOMAIN tokens \ {t} : tokens'[k] = tokens[k]
  BY RevokeLemma DEF Invariant, GrantInv
<1>2. ASSUME NEW k \in DOMAIN tokens, k # t PROVE Holds(k)' <=> Holds(k)
  BY <1>1, <1>2 DEF Holds, Unrevoked, Rotating, TokensKept
<1>3. Rotating(t)' <=> Rotating(t)
  BY DEF Rotating
<1>4. CASE Rotating(t) \/ tokens[t].revoked
  <2>1. Holds(t)' <=> Holds(t)
    BY <1>1, <1>3, <1>4 DEF Holds, Unrevoked, TokensKept
  <2>2. \A s \in Tokens : Holders(s)' = Holders(s)
    BY <1>1, <1>2, <2>1, HoldersStay
  <2> QED BY <1>1, <2>2, QuietStep DEF Maps
<1>5. CASE ~Rotating(t) /\ ~tokens[t].revoked
  <2>1. ASSUME NEW x \in Tokens, x # tokens[t].family PROVE Holders(x)' = Holders(x)
    <3>1. \A k \in DOMAIN tokens : tokens[k].family = x => (Holds(k)' <=> Holds(k))
      BY <1>2, <2>1
    <3> QED BY <1>1, <3>1, HoldersStay
  <2>2. CASE tokens[t].family = None
    <3>1. \A x \in Tokens : Holders(x)' = Holders(x)
      BY <2>1, <2>2, ConstantsOK DEF ConstantsOK
    <3> QED BY <1>1, <3>1, QuietStep DEF Maps
  <2>3. CASE tokens[t].family # None
    <3>1. tokens[t].family \in Tokens
      BY <2>3 DEF Invariant, GrantInv, TypeOK, TokenRow
    <3> SUFFICES ASSUME NEW s \in Tokens, s = tokens[t].family PROVE Maps
      BY <3>1
    <3>2. ASSUME NEW k \in DOMAIN tokens, tokens[k].family = s PROVE ~Holds(k)'
      <4>1. ~Unrevoked(k)'
        <5>1. CASE k = t
          BY <1>1, <5>1 DEF Unrevoked
        <5>2. CASE k # t
          <6>1. tokens[k].revoked
            BY <1>5, <2>3, <3>2, <5>2
            DEF Invariant, WorkerInv, OneLivePerFamily, Unrevoked, FamilyOf
          <6> QED BY <1>1, <5>2, <6>1 DEF Unrevoked
        <5> QED BY <5>1, <5>2
      <4>2. ASSUME NEW w \in Workers PROVE ~Trading(handler[w], k)
        <5>1. Fresh(handler[w]) /\ Sound(handler[w])
          BY DEF Invariant, WorkerInv, InFlight, GrantInv, HandlerOK
        <5>2. k \in Tokens
          BY DEF Invariant, GrantInv, TypeOK
        <5>3. Trading(handler[w], k) => handler[w].family = s
          BY <3>2, <5>1, <5>2 DEF Trading, Sound, Bound
        <5>4. Trading(handler[w], k) => t = k
          BY <1>5, <2>3, <5>1, <5>3 DEF Trading, Fresh
        <5> QED BY <1>5, <5>4 DEF Trading, Rotating
      <4>3. ~Rotating(k)'
        BY <4>2 DEF Rotating, Trading
      <4> QED BY <4>1, <4>3 DEF Holds
    <3>3. Holders(s)' = {}
      BY <1>1, <3>2, HoldersGo
    <3> QED BY <1>1, <2>1, <3>1, <3>3, ClosingStep DEF Maps
  <2> QED BY <2>2, <2>3
<1> QED BY <1>4, <1>5

\* Reuse: the family loses what life it had left.
LEMMA ReuseStep ==
  ASSUME OneWorker, Invariant, NEW w \in Workers, RevokeFamily(w)
  PROVE  Maps
<1> DEFINE c == handler[w].credential
<1>0. /\ c \in DOMAIN tokens /\ tokens[c].family \in Tokens /\ tokens' = RevokedAsFamilyOf(c)
      /\ handler[w].stage = "reused" /\ handler'[w].stage = "idle"
  BY DEF RevokeFamily, Invariant, GrantInv, HandlerOK, Sound, TypeOK, TokenRow, Idle, Serving
<1> SUFFICES ASSUME NEW t, t = c, NEW s \in Tokens, s = tokens[c].family PROVE Maps
  BY <1>0
<1>1. /\ t \in DOMAIN tokens /\ s = tokens[t].family /\ tokens' = RevokedAsFamilyOf(t)
      /\ handler[w].stage = "reused" /\ handler'[w].stage = "idle"
  BY <1>0
<1> HIDE DEF c
<1>2. /\ TokensKept
      /\ \A k \in DOMAIN tokens : tokens'[k].revoked <=> tokens[k].revoked \/ tokens[k].family = s
  BY <1>1, FamilyLemma DEF FamilyOf, Invariant, GrantInv
<1>3. \A k : ~Rotating(k) /\ ~Rotating(k)'
  BY <1>1, OnlyTrader DEF Trading
<1>4. ASSUME NEW k \in DOMAIN tokens
      PROVE  /\ tokens[k].family = s => ~Holds(k)'
             /\ tokens[k].family # s => (Holds(k)' <=> Holds(k))
  BY <1>2, <1>3 DEF Holds, Unrevoked, TokensKept
<1>5. Holders(s)' = {}
  BY <1>2, <1>4, HoldersGo
<1>6. \A x \in Tokens \ {s} : Holders(x)' = Holders(x)
  BY <1>2, <1>4, HoldersStay
<1> QED BY <1>1, <1>2, <1>5, <1>6, ClosingStep DEF Maps

\* The first commit of a rotation: the token stays its session's, being traded.
LEMMA SpendStep ==
  ASSUME OneWorker, Invariant, NEW w \in Workers, RotateRefreshToken(w)
  PROVE  Maps
<1> DEFINE t == handler[w].credential
<1>1. /\ t \in DOMAIN tokens /\ Revoke(t) /\ handler[w].stage = "refresh_ok"
      /\ handler'[w].stage = "issue" /\ handler'[w].credential = t
  BY DEF RotateRefreshToken, Invariant, GrantInv, TypeOK, HandlerOK, Sound, Bound, Handler
<1>2. \A k : Rotating(k)' <=> Rotating(k)
  BY <1>1, OnlyTrader DEF Trading
<1>3. Rotating(t)
  BY <1>1, OnlyTrader DEF Trading
<1> HIDE DEF t
<1>4. /\ TokensKept /\ \A k \in DOMAIN tokens \ {t} : tokens'[k] = tokens[k]
  BY <1>1, RevokeLemma DEF Invariant, GrantInv
<1>5. \A k \in DOMAIN tokens : Holds(k)' <=> Holds(k)
  BY <1>2, <1>3, <1>4 DEF Holds, Unrevoked, TokensKept
<1>6. \A s \in Tokens : Holders(s)' = Holders(s)
  BY <1>4, <1>5, HoldersStay
<1> QED BY <1>4, <1>6, QuietStep DEF Maps

\* A request dies: if its token was spent, the session with it.
LEMMA AbortStep ==
  ASSUME OneWorker, Invariant, TokensKept, NEW w \in Workers, Abort(w)
  PROVE  Maps
<1> DEFINE h == handler[w]
           c == h.credential
           s == h.family
<1>1. UNCHANGED tokens /\ handler'[w].stage = "idle"
  BY DEF Abort, Idle, Serving, Invariant, GrantInv, TypeOK
<1>2. Fresh(h) /\ Sound(h) /\ h \in Handler
  BY DEF Invariant, WorkerInv, InFlight, GrantInv, HandlerOK, TypeOK
<1>3. \A k : Rotating(k) => k = c /\ h.stage \in {"refresh_ok", "issue"}
  BY OnlyTrader DEF Trading
<1>4. \A k : ~Rotating(k)'
  BY <1>1, OnlyTrader DEF Trading
<1>5. ASSUME NEW k \in DOMAIN tokens, Rotating(k) PROVE k = c /\ tokens[k].family = s
  <2>1. k \in Tokens
    BY DEF Invariant, GrantInv, TypeOK
  <2> QED BY <1>2, <1>3, <1>5, <2>1 DEF Sound, Bound
<1>6. CASE ~Trading(h, c) \/ c \notin DOMAIN tokens \/ ~tokens[c].revoked \/ s = None
  <2>1. ASSUME NEW k \in DOMAIN tokens
        PROVE  \/ Trading(h, k) <=> Trading(handler'[w], k)
               \/ ~tokens[k].revoked
               \/ tokens[k].family = None
    <3>1. ~Trading(handler'[w], k)
      BY <1>1 DEF Trading
    <3>2. Trading(h, k) => k = c /\ Trading(h, c) /\ tokens[k].family = s
      BY <1>5, OnlyTrader DEF Trading
    <3> QED BY <1>6, <3>1, <3>2
  <2> QED BY <1>1, <2>1, HandlerStep
<1>7. CASE Trading(h, c) /\ c \in DOMAIN tokens /\ tokens[c].revoked /\ s # None
  <2>1. s \in Tokens
    BY <1>2, <1>7 DEF Handler
  <2> SUFFICES ASSUME NEW f \in Tokens, f = s PROVE Maps
    BY <2>1
  <2>2. ASSUME NEW k \in DOMAIN tokens, tokens[k].family = f PROVE ~Holds(k)'
    BY <1>1, <1>2, <1>4, <1>7, <2>2 DEF Fresh, Trading, Holds, Unrevoked
  <2>3. Holders(f)' = {}
    BY <2>2, HoldersGo
  <2>4. ASSUME NEW x \in Tokens \ {f} PROVE Holders(x)' = Holders(x)
    <3>1. \A k \in DOMAIN tokens : tokens[k].family = x => (Holds(k)' <=> Holds(k))
      BY <1>1, <1>4, <1>5 DEF Holds, Unrevoked
    <3> QED BY <3>1, HoldersStay
  <2> QED BY <2>1, <2>3, <2>4, ClosingStep DEF Maps
<1> QED BY <1>6, <1>7
\* The end of a request with a token: a session opens with it, or trades its own for it.
LEMMA PairStep ==
  ASSUME OneWorker, Invariant, NEW w \in Workers, NEW t \in Tokens, IssueTokenPair(w, t)
  PROVE  \E s \in Tokens : Lineage!Open(s) \/ Lineage!Rotate(s, t)
<1> DEFINE h == handler[w]
<1>1. /\ h \in Handler /\ Bound(h) /\ h.stage = "issue" /\ Fresh(h) /\ t \notin DOMAIN tokens
      /\ tokens' = Insert(tokens, t, NewRow(h, t)) /\ handler'[w].stage = "idle"
  BY DEF Invariant, GrantInv, TypeOK, HandlerOK, Sound, IssueTokenPair, WorkerInv, InFlight,
         Idle, Serving
<1>2. \A k : ~Rotating(k)' /\ (Rotating(k) <=> k = h.credential)
  BY <1>1, OnlyTrader DEF Trading
<1> HIDE DEF h
<1>3. /\ DOMAIN tokens' = DOMAIN tokens \cup {t} /\ tokens'[t] = NewRow(h, t)
      /\ \A k \in DOMAIN tokens : tokens'[k] = tokens[k]
  BY <1>1, IssueLemma
<1>4. tokens'[t].family = (IF h.family = None THEN t ELSE h.family) /\ ~tokens'[t].revoked
  BY <1>3 DEF NewRow, IssuedFamily
<1>5. \A k \in DOMAIN tokens : k \in Tokens /\ tokens[k].family # t
                                /\ tokens[k].family \in DOMAIN tokens \cup {None}
  <2>1. t # None
    BY ConstantsOK DEF ConstantsOK
  <2> QED BY <1>1, <2>1 DEF Invariant, GrantInv, FamiliesExist, TypeOK
<1>6. t # None /\ h.family \in Tokens \cup {None}
  BY <1>1, ConstantsOK DEF Handler, ConstantsOK
<1>7. ASSUME NEW k \in DOMAIN tokens, Rotating(k)
      PROVE  k = h.credential /\ tokens[k].family = h.family /\ tokens[k].revoked
  BY <1>1, <1>2, <1>5, <1>7 DEF Bound, Fresh
<1>8. ASSUME NEW x \in Tokens, x # tokens'[t].family, x # h.family
      PROVE  Holders(x)' = Holders(x)
  <2>1. \A k \in DOMAIN tokens : tokens[k].family = x => (Holds(k)' <=> Holds(k))
    BY <1>2, <1>3, <1>7, <1>8 DEF Holds, Unrevoked
  <2> QED BY <1>3, <1>8, <2>1 DEF Holders, FamilyOf
<1>9. ASSUME NEW x \in Tokens, x # tokens'[t].family, x # h.family
      PROVE  Phase(x)' = Phase(x) /\ Current(x)' = Current(x)
  <2>1. (x \notin DOMAIN tokens \/ \A k \in DOMAIN tokens : FamilyOf(k) # x)'
           = (x \notin DOMAIN tokens \/ \A k \in DOMAIN tokens : FamilyOf(k) # x)
    <3>1. x # None
      BY ConstantsOK DEF ConstantsOK
    <3>2. (\A k \in DOMAIN tokens : FamilyOf(k) # x)'
             = (\A k \in DOMAIN tokens : FamilyOf(k) # x)
      BY <1>3, <1>9 DEF FamilyOf
    <3>3. (\A k \in DOMAIN tokens : FamilyOf(k) # x) \/ x \in DOMAIN tokens
      BY <1>5, <3>1 DEF FamilyOf
    <3> QED BY <1>3, <3>2, <3>3
  <2>2. Holders(x)' = Holders(x)
    BY <1>8, <1>9
  <2> QED BY ONLY <2>1, <2>2 DEF Phase, Current
<1>10. ASSUME NEW f \in Tokens, tokens'[t].family = f
       PROVE  Phase(f)' = "open" /\ Current(f)' = t
  <2>1. ASSUME NEW k \in DOMAIN tokens, tokens[k].family = f PROVE tokens[k].revoked
    BY <1>1, <1>4, <1>5, <1>10, <2>1 DEF Fresh
  <2>2. Holders(f)' = {t}
    BY <1>2, <1>3, <1>4, <1>10, <2>1 DEF Holders, Holds, Unrevoked, FamilyOf
  <2>3. f \in DOMAIN tokens'
    <3>1. CASE h.family = None
      BY <1>3, <1>4, <1>10, <3>1
    <3>2. CASE h.family # None
      <4>1. h.credential \in DOMAIN tokens /\ tokens[h.credential].family = h.family
        BY <1>1, <3>2 DEF Bound, Handler
      <4>2. h.family = f
        BY <1>4, <1>10, <3>2
      <4> QED BY <1>3, <1>5, <3>2, <4>1, <4>2
    <3> QED BY <3>1, <3>2
  <2>4. FamilyOf(t)' = f
    BY <1>10 DEF FamilyOf
  <2> QED BY <1>3, <2>2, <2>3, <2>4 DEF Phase, Current
<1>11. MappedSeen' = MappedSeen \cup {t} /\ t \notin MappedSeen
  BY <1>1, <1>3, <1>4, <1>6 DEF MappedSeen, FamilyOf
<1>12. CASE h.family = None
  <2>1. /\ Phase(t) = "new" /\ Phase(t)' = "open" /\ Current(t)' = t
    BY <1>1, <1>4, <1>10, <1>12 DEF Phase
  <2>2. \A x \in Tokens \ {t} : Phase(x)' = Phase(x) /\ Current(x)' = Current(x)
    <3>1. \A x \in Tokens : x # None
      BY ConstantsOK DEF ConstantsOK
    <3> QED BY <1>4, <1>9, <1>12, <3>1
  <2>3. /\ MappedPhase' = [MappedPhase EXCEPT ![t] = "open"]
        /\ MappedCurrent' = [MappedCurrent EXCEPT ![t] = t]
    BY <2>1, <2>2 DEF MappedPhase, MappedCurrent
  <2>4. Lineage!Open(t)
    BY <1>11, <2>1, <2>3 DEF Lineage!Open, MappedPhase, MappedCurrent, MappedSeen
  <2> QED BY <2>4
<1>13. CASE h.family # None
  <2> SUFFICES ASSUME NEW f \in Tokens, f = h.family
               PROVE  \E s \in Tokens : Lineage!Open(s) \/ Lineage!Rotate(s, t)
    BY <1>6, <1>13
  <2>1. h.credential \in DOMAIN tokens /\ tokens[h.credential].family = f
    BY <1>1, <1>13 DEF Bound, Handler
  <2>2. h.credential \in Holders(f)
    BY <1>2, <2>1 DEF Holders, Holds, FamilyOf
  <2>3. Phase(f) = "open" /\ Phase(f)' = "open" /\ Current(f)' = t
    BY <1>4, <1>10, <1>13, <2>2, OpenMeansHeld
  <2>4. \A x \in Tokens \ {f} : Phase(x)' = Phase(x) /\ Current(x)' = Current(x)
    BY <1>4, <1>9, <1>13
  <2>5. /\ MappedPhase' = MappedPhase
        /\ MappedCurrent' = [MappedCurrent EXCEPT ![f] = t]
    BY <2>3, <2>4 DEF MappedPhase, MappedCurrent
  <2>6. Lineage!Rotate(f, t)
    BY <1>11, <2>3, <2>5 DEF Lineage!Rotate, MappedPhase, MappedCurrent, MappedSeen
  <2> QED BY <2>6
<1> QED BY <1>12, <1>13

-----------------------------------------------------------------------------
\* At first no session is open: the initial states map to initial states.
LEMMA LineageInit == Init => Lineage!Init
<1> SUFFICES ASSUME Init PROVE Lineage!Init
  OBVIOUS
<1>1. \A t \in DOMAIN tokens : FamilyOf(t) = None
  BY DEF Init, FamilyOf
<1>2. ASSUME NEW s \in Tokens PROVE Phase(s) = "new" /\ Current(s) = None
  <2>1. \A t \in DOMAIN tokens : FamilyOf(t) # s
    BY <1>1, ConstantsOK DEF ConstantsOK
  <2>2. Holders(s) = {}
    BY <2>1 DEF Holders
  <2> QED BY <2>1, <2>2 DEF Phase, Current
<1> QED BY <1>1, <1>2 DEF Lineage!Init

\* Every step maps to one of the abstract specification or to a stutter.
LEMMA LineageStep ==
  ASSUME OneWorker, Invariant, [Next]_vars
  PROVE  [Lineage!Next]_(Lineage!lineageVars)
<1>1. Maps => [Lineage!Next]_(Lineage!lineageVars)
  BY DEF Maps, Lineage!Next, Lineage!lineageVars, MappedPhase, MappedCurrent, MappedSeen
<1>2. CASE \E w \in Workers, t \in Tokens : IssueTokenPair(w, t)
  BY <1>2, PairStep DEF Lineage!Next
<1>3. CASE ~(\E w \in Workers, t \in Tokens : IssueTokenPair(w, t))
  <2>1. CASE UNCHANGED vars
    <3>1. TokensKept
      BY <2>1, UnchangedLemma DEF vars, Invariant, GrantInv
    <3>2. \A x \in Tokens : Holders(x)' = Holders(x)
      BY <2>1 DEF vars, Holders, FamilyOf, Holds, Unrevoked, Rotating
    <3> QED BY <1>1, <3>1, <3>2, QuietStep DEF Maps
  <2>2. CASE Next
    <3>1. TokensKept
      BY <1>3, <2>2, ActionsKeep DEF Invariant, GrantInv
    <3>2. ASSUME UNCHANGED handler, \A k \in DOMAIN tokens : tokens'[k].revoked = tokens[k].revoked
          PROVE  Maps
      <4>1. ASSUME NEW x \in Tokens, NEW k \in DOMAIN tokens PROVE Holds(k)' <=> Holds(k)
        BY <3>1, <3>2 DEF Holds, Unrevoked, Rotating, TokensKept
      <4>2. \A x \in Tokens : Holders(x)' = Holders(x)
        BY <3>1, <4>1, HoldersStay
      <4> QED BY <3>1, <4>2, QuietStep DEF Maps
    <3>3. ASSUME NEW c \in Codes, \/ \E w \in Workers, cl \in Clients, u \in Users :
                                       AuthorizeSubmit(w, c, cl, u)
                                  \/ ExpireCode(c)
          PROVE  Maps
      BY <3>2, <3>3 DEF AuthorizeSubmit, ExpireCode
    <3>4. ASSUME NEW t \in Tokens, ExpireToken(t) PROVE Maps
      BY <3>2, <3>4, ExpireLemma DEF ExpireToken, Invariant, GrantInv
    <3>5. ASSUME NEW w \in Workers, UNCHANGED tokens,
                 \A t \in DOMAIN tokens : ~Trading(handler[w], t),
                 \A t \in DOMAIN tokens : Trading(handler'[w], t) => ~tokens[t].revoked
          PROVE  Maps
      BY <3>1, <3>5, HandlerStep
    <3>6. ASSUME NEW w \in Workers, NEW c \in Codes, NEW cl \in Clients, ReadCode(w, c, cl)
          PROVE  Maps
      <4>1. /\ UNCHANGED tokens /\ handler[w].stage = "idle" /\ handler'[w].stage = "code_ok"
        BY <3>6 DEF ReadCode, Serving, Invariant, GrantInv, TypeOK
      <4> QED BY <3>5, <4>1 DEF Trading
    <3>7. ASSUME NEW w \in Workers, ConsumeCode(w) PROVE Maps
      <4>1. /\ UNCHANGED tokens /\ handler[w].stage = "code_ok"
            /\ handler'[w].credential = handler[w].credential /\ handler[w].credential \in Codes
        BY <3>7 DEF ConsumeCode, Invariant, GrantInv, TypeOK, HandlerOK, Sound, Handler
      <4>2. \A t \in DOMAIN tokens : t \notin Codes
        BY ConstantsOK DEF ConstantsOK, Invariant, GrantInv, TypeOK
      <4> QED BY <3>5, <4>1, <4>2 DEF Trading
    <3>8. ASSUME NEW w \in Workers, NEW cl \in Clients, NEW u \in Users, BearerGrant(w, cl, u)
          PROVE  Maps
      <4>1. /\ UNCHANGED tokens /\ handler[w].stage = "idle" /\ handler'[w].credential = None
        BY <3>8 DEF BearerGrant, Serving, Invariant, GrantInv, TypeOK
      <4>2. \A t \in DOMAIN tokens : t # None
        BY ConstantsOK DEF ConstantsOK, Invariant, GrantInv, TypeOK
      <4> QED BY <3>5, <4>1, <4>2 DEF Trading
    <3>9. ASSUME NEW w \in Workers, NEW t \in Tokens, NEW cl \in Clients, ReadRevoked(w, t, cl)
          PROVE  Maps
      <4>1. /\ UNCHANGED tokens /\ handler[w].stage = "idle" /\ handler'[w].stage = "reused"
        BY <3>9 DEF ReadRevoked, Serving, Invariant, GrantInv, TypeOK
      <4> QED BY <3>5, <4>1 DEF Trading
    <3>10. ASSUME NEW w \in Workers, NEW t \in Tokens, NEW cl \in Clients,
                  ReadRefreshToken(w, t, cl)
           PROVE  Maps
      <4>1. /\ UNCHANGED tokens /\ handler[w].stage = "idle" /\ ~tokens[t].revoked
            /\ handler'[w].credential = t
        BY <3>10 DEF ReadRefreshToken, Serving, Invariant, GrantInv, TypeOK
      <4> QED BY <3>5, <4>1 DEF Trading
    <3>11. ASSUME NEW t \in Tokens, RevokeRefreshToken(t) \/ \E u \in Users : RevokeSession(u, t)
           PROVE  Maps
      BY <3>11, RevokeStep DEF RevokeRefreshToken, RevokeSession
    <3>12. ASSUME NEW w \in Workers, RevokeFamily(w) \/ RotateRefreshToken(w) \/ Abort(w)
           PROVE  Maps
      BY <3>1, <3>12, ReuseStep, SpendStep, AbortStep
    <3>13. Maps
      BY <1>3, <2>2, <3>3, <3>4, <3>6, <3>7, <3>8, <3>9, <3>10, <3>11, <3>12 DEF Next
    <3> QED BY <1>1, <3>13
  <2> QED BY <2>1, <2>2
<1> QED BY <1>2, <1>3

\* With one worker, the token service keeps the promise of SessionLineage: sessions open
\* once, live by one fresh token after the other and never reopen, whatever is revoked,
\* replayed or aborted between the steps (oauth/service.py:230-324, 349-370).
THEOREM ServiceImplementsLineage == ASSUME OneWorker PROVE Spec => ImplementsLineage
<1>1. Invariant /\ [Next]_vars => Invariant' /\ [Lineage!Next]_(Lineage!lineageVars)
  BY GrantStep, WorkerStep, LineageStep DEF Invariant
<1>2. Init => Invariant /\ Lineage!Init
  BY GrantInit, WorkerInit, LineageInit DEF Invariant
<1> QED BY <1>1, <1>2, PTL DEF Spec, ImplementsLineage, Lineage!Spec
=============================================================================
