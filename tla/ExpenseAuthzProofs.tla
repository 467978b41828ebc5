------------------------- MODULE ExpenseAuthzProofs -------------------------
(***************************************************************************)
(* What holds of ExpenseAuthz for every number of users, expenses and      *)
(* threads, whatever fails: types, that a creator keeps the tuples of his  *)
(* expense while its row exists, and that an unshare takes effect.         *)
(* And what it keeps when requests come one at a time: nobody is viewer    *)
(* and editor at once; and if no round trip fails and an answer of OpenFGA *)
(* is never longer than a page, no tuple outlives its expense.             *)
(***************************************************************************)
EXTENDS ExpenseAuthz, FiniteSetTheorems, TLAPS

USE ConstantsOK DEF ConstantsOK

\* What a thread's record says about the table R and the ids M given out: what the
\* tuples it read are about, and, for a deletion past its commit, that the row is
\* gone for good.
Doing(q, R, M) ==
  /\ q.op = "create" => /\ q.user \in Users /\ q.expense \in M
                        /\ q.expense \in DOMAIN R => R[q.expense] = q.user
  /\ q.op = "delete" =>
       /\ q.stage # "allowed" => q.expense \in M
       /\ q.stage \in {"deleted", "read"} => q.expense \notin DOMAIN R
       /\ q.stage = "read" => \A t \in q.seen : t[3] = q.expense
  /\ q.op = "share" => q.relation \in ShareRelations
  /\ q.op \in {"share", "unshare"} =>
       /\ q.target \in Users /\ q.expense \in Expenses
       /\ q.stage = "read" => \A t \in q.seen : t[2] \in ShareRelations
  /\ q.op \in {"grant", "revoke"} => q.target \in Users

\* The inductive strengthening: nobody is about to delete the tuples a creator
\* relies on.
OwnerInv == /\ TypeOK
            /\ owned \subseteq made
            /\ OwnerKeepsAccess
            /\ \A th \in Threads : Doing(request[th], rows, made)

\* The idle record is a request, and says nothing about the stores.
LEMMA IdleOK == Idle \in Request /\ Idle.op = "none" /\ Idle.alone = FALSE
BY DEF Idle, Request

\* The strengthening holds at startup.
LEMMA OwnerInit == Init => OwnerInv
<1> SUFFICES ASSUME Init PROVE OwnerInv  OBVIOUS
<1>1. tuples \subseteq Tuple
  BY DEF Init, Tuple
<1>2. request \in [Threads -> Request] /\ \A th \in Threads : Doing(request[th], rows, made)
  BY IdleOK DEF Init, Doing
<1>3. DOMAIN rows = {}
  BY DEF Init
<1> QED BY <1>1, <1>2, <1>3 DEF Init, OwnerInv, TypeOK, OwnerKeepsAccess

\* A step that gives one thread a well-typed record that speaks the truth, and
\* leaves the others' words true, keeps the request part of the invariant.
LEMMA OneRequest ==
  ASSUME NEW th \in Threads, NEW r \in Request,
         request \in [Threads -> Request],
         request' = [request EXCEPT ![th] = r],
         Doing(r, rows', made'),
         \A o \in Threads \ {th} : Doing(request[o], rows', made')
  PROVE  /\ request' \in [Threads -> Request]
         /\ \A o \in Threads : Doing(request'[o], rows', made')
<1>1. request' \in [Threads -> Request]  OBVIOUS
<1>2. ASSUME NEW o \in Threads PROVE Doing(request'[o], rows', made')
  <2>1. CASE o = th
    <3>1. request'[o] = r  BY <2>1
    <3> QED BY <3>1
  <2>2. CASE o # th
    <3>1. request'[o] = request[o]  BY <2>2
    <3> QED BY <3>1, <2>2
  <2> QED BY <2>1, <2>2
<1> QED BY <1>1, <1>2

\* The same for a step that leaves the table and the ids alone.
LEMMA OneRequestOnly ==
  ASSUME NEW th \in Threads, NEW r \in Request, OwnerInv,
         request' = [request EXCEPT ![th] = r],
         Doing(r, rows, made), UNCHANGED <<rows, made>>
  PROVE  /\ request' \in [Threads -> Request]
         /\ \A o \in Threads : Doing(request'[o], rows', made')
<1>1. Doing(r, rows', made')  OBVIOUS
<1>2. \A o \in Threads \ {th} : Doing(request[o], rows', made')
  BY DEF OwnerInv
<1> QED BY <1>1, <1>2, OneRequest DEF OwnerInv, TypeOK

\* A request that ends.
LEMMA Finished ==
  ASSUME NEW th \in Threads, OwnerInv, Finish(th), UNCHANGED <<rows, made>>
  PROVE  /\ request' \in [Threads -> Request]
         /\ \A o \in Threads : Doing(request'[o], rows', made')
<1>1. Doing(Idle, rows, made)  BY IdleOK DEF Doing
<1> QED BY <1>1, IdleOK, OneRequestOnly DEF Finish

\* A request that moves on keeps all but its stage.
LEMMA Advanced ==
  ASSUME NEW th \in Threads, NEW s \in {"idle", "found", "allowed", "deleted", "read"},
         request \in [Threads -> Request], Advance(th, s)
  PROVE  \E r \in Request :
           /\ request' = [request EXCEPT ![th] = r]
           /\ r.op = request[th].op /\ r.stage = s /\ r.user = request[th].user
           /\ r.expense = request[th].expense /\ r.target = request[th].target
           /\ r.relation = request[th].relation /\ r.seen = request[th].seen
           /\ r.alone = request[th].alone
<1> DEFINE r == [request[th] EXCEPT !.stage = s]
<1>1. r \in Request  BY DEF Request
<1>2. request' = [request EXCEPT ![th] = r]  BY DEF Advance
<1>3. /\ r.op = request[th].op /\ r.stage = s /\ r.user = request[th].user
      /\ r.expense = request[th].expense /\ r.target = request[th].target
      /\ r.relation = request[th].relation /\ r.seen = request[th].seen
      /\ r.alone = request[th].alone
  BY DEF Request
<1> QED BY <1>1, <1>2, <1>3

\* A step that touches neither the rows nor who owns them.
LEMMA SameRows ==
  ASSUME OwnerInv, UNCHANGED <<rows, made, owned>>,
         tuples' \subseteq Tuple, OwnerKeepsAccess',
         request' \in [Threads -> Request],
         \A o \in Threads : Doing(request'[o], rows', made'),
         removed' \subseteq Users \X Expenses
  PROVE  OwnerInv'
BY DEF OwnerInv, TypeOK

\* A step that touches no store.
LEMMA Quiet ==
  ASSUME OwnerInv, UNCHANGED <<rows, tuples, made, owned>>,
         request' \in [Threads -> Request],
         \A o \in Threads : Doing(request'[o], rows', made'),
         removed' \subseteq Users \X Expenses
  PROVE  OwnerInv'
<1>1. tuples' \subseteq Tuple  BY DEF OwnerInv, TypeOK
<1>2. OwnerKeepsAccess'  BY DEF OwnerInv, OwnerKeepsAccess
<1> QED BY <1>1, <1>2, SameRows

\* A write of well-typed tuples that deletes nothing a creator relies on.
LEMMA WriteKeeps ==
  ASSUME OwnerInv, UNCHANGED <<rows, owned>>,
         NEW W \in SUBSET Tuple, NEW D, Write(W, D),
         \A e \in DOMAIN rows \cap owned : OwnerTuples(rows[e], e) \cap D = {}
  PROVE  tuples' \subseteq Tuple /\ OwnerKeepsAccess'
<1>1. tuples' \subseteq Tuple  BY DEF Write, OwnerInv, TypeOK
<1>2. OwnerKeepsAccess'  BY DEF Write, OwnerInv, OwnerKeepsAccess
<1> QED BY <1>1, <1>2

\* The same write when nothing is deleted, or only shares and roles are.
LEMMA NoOwnerTuple ==
  ASSUME NEW D, \A t \in D : t[2] \in ShareRelations \cup {"admin"}
  PROVE  \A e \in DOMAIN rows \cap owned : OwnerTuples(rows[e], e) \cap D = {}
BY DEF OwnerTuples, ShareRelations

\* A creation commits its row: the id is new, so no other request speaks of it.
LEMMA InsertRowStep ==
  ASSUME OwnerInv, NEW th \in Threads, NEW u \in Users, NEW e \in Expenses,
         InsertRow(th, u, e)
  PROVE  OwnerInv'
<1> DEFINE r == [Idle EXCEPT !.op = "create", !.stage = "found", !.user = u, !.expense = e]
<1>1. r \in Request /\ r.op = "create" /\ r.stage = "found" /\ r.user = u /\ r.expense = e
  BY DEF Idle, Request
<1>2. request' = [request EXCEPT ![th] = r]  BY DEF InsertRow
<1> HIDE DEF r
<1>3. /\ e \notin made /\ made' = made \cup {e} /\ UNCHANGED <<tuples, owned, removed>>
      /\ DOMAIN rows' = DOMAIN rows \cup {e} /\ rows'[e] = u
      /\ \A k \in DOMAIN rows : rows'[k] = IF k = e THEN u ELSE rows[k]
  BY DEF InsertRow
<1>4. DOMAIN rows \subseteq made  BY DEF OwnerInv, TypeOK
<1>5. Doing(r, rows', made')  BY <1>1, <1>3 DEF Doing
<1>6. ASSUME NEW o \in Threads \ {th} PROVE Doing(request[o], rows', made')
  <2>1. Doing(request[o], rows, made)  BY DEF OwnerInv
  <2> QED BY <2>1, <1>3, <1>4 DEF Doing
<1>7. request' \in [Threads -> Request] /\ \A o \in Threads : Doing(request'[o], rows', made')
  BY <1>1, <1>2, <1>5, <1>6, OneRequest DEF OwnerInv, TypeOK
<1>8. OwnerKeepsAccess'
  BY <1>3, <1>4 DEF OwnerInv, OwnerKeepsAccess
<1>9. TypeOK'
  BY <1>3, <1>4, <1>7 DEF OwnerInv, TypeOK
<1> QED BY <1>3, <1>7, <1>8, <1>9 DEF OwnerInv

\* A creation writes its tuples, and from then on its expense counts as owned.
LEMMA WriteOwnerStep ==
  ASSUME OwnerInv, NEW th \in Threads, WriteOwner(th)
  PROVE  OwnerInv'
<1> DEFINE e == request[th].expense  u == request[th].user
<1>1. /\ request[th].op = "create" /\ Finish(th) /\ UNCHANGED <<rows, made, removed>>
      /\ Write(OwnerTuples(u, e), {})
      /\ owned' = IF Accepts(OwnerTuples(u, e), {}) THEN owned \cup {e} ELSE owned
  BY DEF WriteOwner, At
<1>2. u \in Users /\ e \in made /\ (e \in DOMAIN rows => rows[e] = u) /\ made \subseteq Expenses
  BY <1>1 DEF OwnerInv, Doing, TypeOK
<1>3. request' \in [Threads -> Request] /\ \A o \in Threads : Doing(request'[o], rows', made')
  BY <1>1, Finished
<1> HIDE DEF e, u
<1>4. OwnerTuples(u, e) \subseteq Tuple  BY <1>2 DEF OwnerTuples, Tuple
<1>5. tuples' \subseteq Tuple  BY <1>1, <1>4 DEF Write, OwnerInv, TypeOK
<1>6. OwnerKeepsAccess'
  BY <1>1, <1>2 DEF Write, OwnerInv, OwnerKeepsAccess
<1> QED BY <1>1, <1>2, <1>3, <1>5, <1>6 DEF OwnerInv, TypeOK

\* A deletion commits: no invariant part speaks of the row any more.
LEMMA DeleteRowStep ==
  ASSUME OwnerInv, NEW th \in Threads, DeleteRow(th)
  PROVE  OwnerInv'
<1>1. PICK r \in Request :
           /\ request' = [request EXCEPT ![th] = r]
           /\ r.op = "delete" /\ r.stage = "deleted" /\ r.expense = request[th].expense
  BY Advanced DEF DeleteRow, At, OwnerInv, TypeOK
<1>2. /\ request[th].op = "delete" /\ request[th].stage = "found"
      /\ UNCHANGED <<tuples, made, owned, removed>>
      /\ DOMAIN rows' = DOMAIN rows \ {request[th].expense}
      /\ \A k \in DOMAIN rows' : rows'[k] = rows[k]
  BY DEF DeleteRow, DeleteOf, At
<1>3. Doing(r, rows', made')
  BY <1>1, <1>2 DEF Doing, OwnerInv
<1>4. ASSUME NEW o \in Threads \ {th} PROVE Doing(request[o], rows', made')
  <2>1. Doing(request[o], rows, made)  BY DEF OwnerInv
  <2> QED BY <2>1, <1>2 DEF Doing
<1>5. request' \in [Threads -> Request] /\ \A o \in Threads : Doing(request'[o], rows', made')
  BY <1>1, <1>3, <1>4, OneRequest DEF OwnerInv, TypeOK
<1>6. OwnerKeepsAccess'
  BY <1>2 DEF OwnerInv, OwnerKeepsAccess
<1> QED BY <1>2, <1>5, <1>6 DEF OwnerInv, TypeOK

\* Shares and unshares delete nothing but shares.
LEMMA SharingStep ==
  ASSUME OwnerInv, NEW th \in Threads,
         \/ \E u, v \in Users, e \in Expenses :
              \/ FindForUnshare(th, u, e, v)
              \/ \E k \in ShareRelations : FindForShare(th, u, e, v, k)
         \/ RequireShare(th) \/ ReadShares(th) \/ SwapShare(th) \/ RemoveShare(th)
  PROVE  OwnerInv'
<1>0. request \in [Threads -> Request] /\ removed \subseteq Users \X Expenses
  BY DEF OwnerInv, TypeOK
<1>1. ASSUME NEW u \in Users, NEW v \in Users, NEW e \in Expenses, FindForUnshare(th, u, e, v)
      PROVE  OwnerInv'
  <2> DEFINE r == [Idle EXCEPT !.op = "unshare", !.stage = "found", !.user = u,
                               !.expense = e, !.target = v, !.alone = ~Sharing(v, e)]
  <2>1. r \in Request /\ r.op = "unshare" /\ r.stage = "found" /\ r.target = v /\ r.expense = e
    BY DEF Idle, Request
  <2>2. request' = [request EXCEPT ![th] = r] /\ UNCHANGED <<rows, tuples, made, owned, removed>>
    BY <1>1 DEF FindForUnshare
  <2> HIDE DEF r
  <2>3. Doing(r, rows, made)  BY <2>1 DEF Doing
  <2> QED BY <1>0, <2>1, <2>2, <2>3, OneRequestOnly, Quiet
<1>2. ASSUME NEW u \in Users, NEW v \in Users, NEW e \in Expenses, NEW k \in ShareRelations,
             FindForShare(th, u, e, v, k)
      PROVE  OwnerInv'
  <2> DEFINE r == [Idle EXCEPT !.op = "share", !.stage = "found", !.user = u,
                               !.expense = e, !.target = v, !.relation = k]
             same(q) == [request[q] EXCEPT
                           !.alone = @ /\ ~(request[q].target = v /\ request[q].expense = e)]
  <2>1. r \in Request /\ r.op = "share" /\ r.stage = "found" /\ r.target = v
        /\ r.expense = e /\ r.relation = k
    BY DEF Idle, Request
  <2>2. /\ request' = [q \in Threads |-> IF q = th THEN r ELSE same(q)]
        /\ UNCHANGED <<rows, tuples, made, owned>> /\ removed' \subseteq removed
    BY <1>2 DEF FindForShare
  <2>3. ASSUME NEW q \in Threads
        PROVE  /\ same(q) \in Request
               /\ same(q).op = request[q].op /\ same(q).stage = request[q].stage
               /\ same(q).user = request[q].user /\ same(q).expense = request[q].expense
               /\ same(q).target = request[q].target /\ same(q).relation = request[q].relation
               /\ same(q).seen = request[q].seen
    BY ZenonT(40), <1>0 DEF Request
  <2> HIDE DEF r, same
  <2>4. Doing(r, rows', made')  BY <2>1 DEF Doing
  <2>5. ASSUME NEW q \in Threads PROVE Doing(same(q), rows', made')
    <3>1. Doing(request[q], rows, made)  BY DEF OwnerInv
    <3> QED BY <3>1, <2>2, <2>3 DEF Doing
  <2>6. request' \in [Threads -> Request]  BY <2>1, <2>2, <2>3
  <2>7. ASSUME NEW o \in Threads PROVE Doing(request'[o], rows', made')
    <3>1. request'[o] = IF o = th THEN r ELSE same(o)  BY <2>2
    <3> QED BY <3>1, <2>4, <2>5
  <2> QED BY <1>0, <2>2, <2>6, <2>7, Quiet
<1>3. ASSUME RequireShare(th) PROVE OwnerInv'
  <2>1. request[th].op \in {"share", "unshare"} /\ UNCHANGED <<rows, tuples, made, owned, removed>>
    BY <1>3 DEF RequireShare
  <2>2. CASE Finish(th)  BY <1>0, <2>1, <2>2, Finished, Quiet
  <2>3. CASE Advance(th, "allowed")
    <3>1. PICK r \in Request :
           /\ request' = [request EXCEPT ![th] = r]
           /\ r.op = request[th].op /\ r.stage = "allowed" /\ r.expense = request[th].expense
           /\ r.target = request[th].target /\ r.relation = request[th].relation
      BY <1>0, <2>3, Advanced
    <3>2. Doing(r, rows, made)  BY <2>1, <3>1 DEF Doing, OwnerInv
    <3> QED BY <1>0, <2>1, <3>1, <3>2, OneRequestOnly, Quiet
  <2> QED BY <1>3, <2>2, <2>3 DEF RequireShare
<1>4. ASSUME ReadShares(th) PROVE OwnerInv'
  <2> DEFINE q == request[th]
             r == [q EXCEPT !.stage = "read", !.seen = SharesOf(q.expense, q.target)]
  <2>1. q.op \in {"share", "unshare"} /\ UNCHANGED <<rows, tuples, made, owned, removed>>
        /\ request' = [request EXCEPT ![th] = r]
    BY <1>0, <1>4 DEF ReadShares
  <2>2. SharesOf(q.expense, q.target) \subseteq Tuple
    BY DEF SharesOf, OwnerInv, TypeOK
  <2>3. r \in Request /\ r.op = q.op /\ r.target = q.target /\ r.expense = q.expense
        /\ r.relation = q.relation /\ r.seen = SharesOf(q.expense, q.target)
    BY ZenonT(40), <1>0, <2>2 DEF Request
  <2>4. Doing(q, rows, made)  BY DEF OwnerInv
  <2> HIDE DEF r, q
  <2>5. Doing(r, rows, made)  BY <2>1, <2>3, <2>4 DEF Doing, SharesOf
  <2> QED BY <1>0, <2>1, <2>3, <2>5, OneRequestOnly, Quiet
<1>5. ASSUME SwapShare(th) PROVE OwnerInv'
  <2> DEFINE q == request[th]  new == {<<q.target, q.relation, q.expense>>}
  <2>1. q.op = "share" /\ q.stage = "read" /\ Finish(th) /\ UNCHANGED <<rows, made, owned, removed>>
        /\ (UNCHANGED tuples \/ Write(new, q.seen))
    BY <1>5 DEF SwapShare, At, SwapDeletes
  <2>2. /\ q.target \in Users /\ q.expense \in Expenses /\ q.relation \in ShareRelations
        /\ \A t \in q.seen : t[2] \in ShareRelations
    BY <2>1 DEF OwnerInv, Doing
  <2>3. request' \in [Threads -> Request] /\ \A o \in Threads : Doing(request'[o], rows', made')
    BY <2>1, Finished
  <2> HIDE DEF q
  <2>4. new \in SUBSET Tuple  BY <2>2 DEF Tuple
  <2> HIDE DEF new
  <2>5. CASE UNCHANGED tuples  BY <1>0, <2>1, <2>3, <2>5, Quiet
  <2>6. CASE Write(new, q.seen)
    <3>1. tuples' \subseteq Tuple /\ OwnerKeepsAccess'
      BY <2>1, <2>2, <2>4, <2>6, NoOwnerTuple, WriteKeeps
    <3> QED BY <1>0, <2>1, <2>3, <3>1, SameRows
  <2> QED BY <2>1, <2>5, <2>6
<1>6. ASSUME RemoveShare(th) PROVE OwnerInv'
  <2> DEFINE q == request[th]
  <2>1. q.op = "unshare" /\ q.stage = "read" /\ Finish(th) /\ UNCHANGED <<rows, made, owned>>
        /\ Write({}, q.seen)
        /\ removed' \in {removed, removed \cup {<<q.target, q.expense>>}}
    BY <1>6 DEF RemoveShare, At, UnshareDeletes
  <2>2. /\ q.target \in Users /\ q.expense \in Expenses
        /\ \A t \in q.seen : t[2] \in ShareRelations
    BY <2>1 DEF OwnerInv, Doing
  <2>3. request' \in [Threads -> Request] /\ \A o \in Threads : Doing(request'[o], rows', made')
    BY <2>1, Finished
  <2> HIDE DEF q
  <2>4. removed' \subseteq Users \X Expenses  BY <1>0, <2>1, <2>2
  <2>5. {} \in SUBSET Tuple  OBVIOUS
  <2>6. tuples' \subseteq Tuple /\ OwnerKeepsAccess'
    BY <2>1, <2>2, <2>5, NoOwnerTuple, WriteKeeps
  <2> QED BY <2>1, <2>3, <2>4, <2>6, SameRows
<1> QED BY <1>1, <1>2, <1>3, <1>4, <1>5, <1>6

\* A deletion's other steps delete only tuples of an expense whose row is gone.
LEMMA DeletionStep ==
  ASSUME OwnerInv, NEW th \in Threads,
         \/ \E u \in Users, e \in Expenses : CheckDelete(th, u, e)
         \/ FindForDelete(th) \/ ReadOrphans(th) \/ DeleteOrphans(th)
  PROVE  OwnerInv'
<1>0. request \in [Threads -> Request] /\ removed \subseteq Users \X Expenses
      /\ tuples \subseteq Tuple
  BY DEF OwnerInv, TypeOK
<1>1. ASSUME NEW u \in Users, NEW e \in Expenses, CheckDelete(th, u, e)
      PROVE  OwnerInv'
  <2> DEFINE r == [Idle EXCEPT !.op = "delete", !.stage = "allowed", !.user = u, !.expense = e]
  <2>1. r \in Request /\ r.op = "delete" /\ r.stage = "allowed" /\ r.expense = e
    BY DEF Idle, Request
  <2>2. request' = [request EXCEPT ![th] = r] /\ UNCHANGED <<rows, tuples, made, owned, removed>>
    BY <1>1 DEF CheckDelete
  <2> HIDE DEF r
  <2>3. Doing(r, rows, made)  BY <2>1 DEF Doing
  <2> QED BY <1>0, <2>1, <2>2, <2>3, OneRequestOnly, Quiet
<1>2. ASSUME FindForDelete(th) PROVE OwnerInv'
  <2>1. request[th].op = "delete" /\ UNCHANGED <<rows, tuples, made, owned, removed>>
    BY <1>2 DEF FindForDelete, At
  <2>2. CASE Finish(th)  BY <1>0, <2>1, <2>2, Finished, Quiet
  <2>3. CASE Advance(th, "found")
    <3>1. PICK r \in Request :
           /\ request' = [request EXCEPT ![th] = r]
           /\ r.op = "delete" /\ r.stage = "found" /\ r.expense = request[th].expense
      BY <1>0, <2>1, <2>3, Advanced
    <3>2. request[th].expense \in made
      BY <1>2, <2>1, <3>1, IdleOK DEF FindForDelete, Finish, OwnerInv, TypeOK
    <3>3. Doing(r, rows, made)  BY <3>1, <3>2 DEF Doing
    <3> QED BY <1>0, <2>1, <3>1, <3>3, OneRequestOnly, Quiet
  <2> QED BY <1>2, <2>2, <2>3 DEF FindForDelete
<1>3. ASSUME ReadOrphans(th) PROVE OwnerInv'
  <2> DEFINE q == request[th]
             r(page) == [q EXCEPT !.stage = "read", !.seen = page]
  <2>1. PICK page \in Page(Orphans(q.expense)) :
           request' = [request EXCEPT ![th].stage = "read", ![th].seen = page]
    BY <1>3 DEF ReadOrphans
  <2>2. q.op = "delete" /\ q.stage = "deleted" /\ UNCHANGED <<rows, tuples, made, owned, removed>>
        /\ request' = [request EXCEPT ![th] = r(page)]
    BY <1>0, <1>3, <2>1 DEF ReadOrphans, At
  <2>3. page \subseteq Tuple /\ \A t \in page : t[3] = q.expense
    BY <1>0 DEF Page, Orphans, TuplesOf
  <2>4. /\ r(page) \in Request /\ r(page).op = "delete" /\ r(page).stage = "read"
        /\ r(page).expense = q.expense /\ r(page).seen = page
    BY ZenonT(40), <1>0, <2>2, <2>3 DEF Request
  <2>5. Doing(q, rows, made)  BY DEF OwnerInv
  <2> HIDE DEF r, q
  <2>6. Doing(r(page), rows, made)  BY <2>2, <2>3, <2>4, <2>5 DEF Doing
  <2> QED BY <1>0, <2>2, <2>4, <2>6, OneRequestOnly, Quiet
<1>4. ASSUME DeleteOrphans(th) PROVE OwnerInv'
  <2> DEFINE q == request[th]
  <2>1. /\ q.op = "delete" /\ q.stage = "read" /\ Finish(th) /\ Write({}, q.seen)
        /\ UNCHANGED <<rows, made, owned, removed>>
    BY <1>4 DEF DeleteOrphans, At
  <2>2. q.expense \notin DOMAIN rows /\ \A t \in q.seen : t[3] = q.expense
    BY <2>1 DEF OwnerInv, Doing
  <2>3. request' \in [Threads -> Request] /\ \A o \in Threads : Doing(request'[o], rows', made')
    BY <2>1, Finished
  <2> HIDE DEF q
  <2>4. \A e \in DOMAIN rows \cap owned : OwnerTuples(rows[e], e) \cap q.seen = {}
    BY <2>2 DEF OwnerTuples
  <2>5. {} \in SUBSET Tuple  OBVIOUS
  <2>6. tuples' \subseteq Tuple /\ OwnerKeepsAccess'
    BY <2>1, <2>4, <2>5, WriteKeeps
  <2> QED BY <1>0, <2>1, <2>3, <2>6, SameRows
<1> QED BY <1>1, <1>2, <1>3, <1>4

\* Role changes delete nothing but roles.
LEMMA RoleStep ==
  ASSUME OwnerInv, NEW th \in Threads,
         \/ \E u, v \in Users, op \in {"grant", "revoke"} : CheckAdmin(th, op, u, v)
         \/ CheckTarget(th) \/ WriteAdmin(th)
  PROVE  OwnerInv'
<1>0. request \in [Threads -> Request] /\ removed \subseteq Users \X Expenses
  BY DEF OwnerInv, TypeOK
<1>1. ASSUME NEW u \in Users, NEW v \in Users, NEW op \in {"grant", "revoke"},
             CheckAdmin(th, op, u, v)
      PROVE  OwnerInv'
  <2> DEFINE r == [Idle EXCEPT !.op = op, !.stage = "allowed", !.user = u, !.target = v]
  <2>1. r \in Request /\ r.op = op /\ r.stage = "allowed" /\ r.target = v
    BY DEF Idle, Request
  <2>2. request' = [request EXCEPT ![th] = r] /\ UNCHANGED <<rows, tuples, made, owned, removed>>
    BY <1>1 DEF CheckAdmin
  <2> HIDE DEF r
  <2>3. Doing(r, rows, made)  BY <2>1 DEF Doing
  <2> QED BY <1>0, <2>1, <2>2, <2>3, OneRequestOnly, Quiet
<1>2. ASSUME CheckTarget(th) PROVE OwnerInv'
  <2>1. request[th].op \in {"grant", "revoke"} /\ UNCHANGED <<rows, tuples, made, owned, removed>>
    BY <1>2 DEF CheckTarget
  <2>2. CASE Finish(th)  BY <1>0, <2>1, <2>2, Finished, Quiet
  <2>3. CASE Advance(th, "read")
    <3>1. PICK r \in Request :
           /\ request' = [request EXCEPT ![th] = r]
           /\ r.op = request[th].op /\ r.target = request[th].target
      BY <1>0, <2>3, Advanced
    <3>2. Doing(r, rows, made)  BY <2>1, <3>1 DEF Doing, OwnerInv
    <3> QED BY <1>0, <2>1, <3>1, <3>2, OneRequestOnly, Quiet
  <2> QED BY <1>2, <2>2, <2>3 DEF CheckTarget
<1>3. ASSUME WriteAdmin(th) PROVE OwnerInv'
  <2> DEFINE role == {<<request[th].target, "admin", Org>>}
  <2>1. /\ request[th].op \in {"grant", "revoke"} /\ Finish(th)
        /\ UNCHANGED <<rows, made, owned, removed>>
        /\ Write(role, {}) \/ Write({}, role)
    BY <1>3 DEF WriteAdmin
  <2>2. role \in SUBSET Tuple  BY <2>1 DEF OwnerInv, Doing, Tuple
  <2>3. \A D \in {{}, role} : \A t \in D : t[2] \in ShareRelations \cup {"admin"}
    OBVIOUS
  <2>4. request' \in [Threads -> Request] /\ \A o \in Threads : Doing(request'[o], rows', made')
    BY <2>1, Finished
  <2> HIDE DEF role
  <2>5. tuples' \subseteq Tuple /\ OwnerKeepsAccess'
    <3>1. CASE Write(role, {})  BY <2>1, <2>2, <2>3, <3>1, NoOwnerTuple, WriteKeeps
    <3>2. CASE Write({}, role)  BY <2>1, <2>2, <2>3, <3>2, NoOwnerTuple, WriteKeeps
    <3> QED BY <2>1, <3>1, <3>2
  <2> QED BY <1>0, <2>1, <2>4, <2>5, SameRows
<1> QED BY <1>1, <1>2, <1>3

\* Edits change no owner, and a request that fails changes nothing.
LEMMA EditStep ==
  ASSUME OwnerInv, NEW th \in Threads,
         \/ \E u \in Users, e \in Expenses : CheckEdit(th, u, e)
         \/ UpdateRow(th) \/ Fail(th)
  PROVE  OwnerInv'
<1>0. request \in [Threads -> Request] /\ removed \subseteq Users \X Expenses
  BY DEF OwnerInv, TypeOK
<1>1. ASSUME NEW u \in Users, NEW e \in Expenses, CheckEdit(th, u, e)
      PROVE  OwnerInv'
  <2> DEFINE r == [Idle EXCEPT !.op = "update", !.stage = "allowed", !.user = u, !.expense = e]
  <2>1. r \in Request /\ r.op = "update"
    BY DEF Idle, Request
  <2>2. request' = [request EXCEPT ![th] = r] /\ UNCHANGED <<rows, tuples, made, owned, removed>>
    BY <1>1 DEF CheckEdit
  <2> HIDE DEF r
  <2>3. Doing(r, rows, made)  BY <2>1 DEF Doing
  <2> QED BY <1>0, <2>1, <2>2, <2>3, OneRequestOnly, Quiet
<1>2. CASE UpdateRow(th) \/ Fail(th)
  <2>1. Finish(th) /\ UNCHANGED <<rows, tuples, made, owned, removed>>
    BY <1>2 DEF UpdateRow, Fail
  <2> QED BY <1>0, <2>1, Finished, Quiet
<1> QED BY <1>1, <1>2

\* Every step preserves the strengthening.
LEMMA OwnerStep == OwnerInv /\ [Next]_vars => OwnerInv'
<1> SUFFICES ASSUME OwnerInv, [Next]_vars PROVE OwnerInv'  OBVIOUS
<1>1. CASE UNCHANGED vars
  <2>1. request' \in [Threads -> Request] /\ removed' \subseteq Users \X Expenses
        /\ \A o \in Threads : Doing(request'[o], rows', made')
    BY <1>1 DEF vars, OwnerInv, TypeOK
  <2> QED BY <1>1, <2>1, Quiet DEF vars
<1>2. CASE Next
  <2>1. PICK th \in Threads :
          \/ Step(th)
          \/ Fail(th)
          \/ \E u \in Users, e \in Expenses :
               \/ InsertRow(th, u, e) \/ CheckEdit(th, u, e) \/ CheckDelete(th, u, e)
               \/ \E v \in Users :
                    \/ FindForUnshare(th, u, e, v)
                    \/ \E r \in ShareRelations : FindForShare(th, u, e, v, r)
          \/ \E u, v \in Users, op \in {"grant", "revoke"} : CheckAdmin(th, op, u, v)
    BY <1>2 DEF Next
  <2>2. CASE Step(th)
    BY <2>2, WriteOwnerStep, EditStep, SharingStep, DeletionStep, DeleteRowStep, RoleStep
       DEF Step
  <2>3. CASE Fail(th)  BY <2>3, EditStep
  <2>4. ASSUME NEW u \in Users, NEW e \in Expenses,
               InsertRow(th, u, e) \/ CheckEdit(th, u, e) \/ CheckDelete(th, u, e)
        PROVE  OwnerInv'
    BY <2>4, InsertRowStep, EditStep, DeletionStep
  <2>5. ASSUME NEW u \in Users, NEW e \in Expenses, NEW v \in Users,
               \/ FindForUnshare(th, u, e, v)
               \/ \E r \in ShareRelations : FindForShare(th, u, e, v, r)
        PROVE  OwnerInv'
    BY <2>5, SharingStep
  <2>6. ASSUME NEW u \in Users, NEW v \in Users, NEW op \in {"grant", "revoke"},
               CheckAdmin(th, op, u, v)
        PROVE  OwnerInv'
    BY <2>6, RoleStep
  <2> QED BY <2>1, <2>2, <2>3, <2>4, <2>5, <2>6
<1> QED BY <1>1, <1>2

\* Types hold for any number of users, expenses and threads, whatever fails.
THEOREM TypeCorrect == Spec => []TypeOK
<1>1. OwnerInv => TypeOK  BY DEF OwnerInv
<1> QED BY <1>1, OwnerInit, OwnerStep, PTL DEF Spec

\* While its row exists, an expense whose creation was not cut short stays its
\* creator's, and the organisation's, under any interleaving of any number of
\* shares, deletions, role changes and failures.
THEOREM OwnerAlwaysKeepsAccess == Spec => []OwnerKeepsAccess
<1>1. OwnerInv => OwnerKeepsAccess  BY DEF OwnerInv
<1> QED BY <1>1, OwnerInit, OwnerStep, PTL DEF Spec

-----------------------------------------------------------------------------
\* An unshare takes effect because the share tuples of a pair grow only by a share
\* of that pair: none is under way while the unshare is alone, nor once it is done.
Undisturbed(q) ==
  q.alone => /\ q.op = "unshare"
             /\ ~Sharing(q.target, q.expense)
             /\ q.stage = "read" => SharesOf(q.expense, q.target) \subseteq q.seen

ShareInv == /\ OwnerInv
            /\ UnshareTakesEffect
            /\ \A th \in Threads :
                 /\ request[th].op = "share" =>
                      <<request[th].target, request[th].expense>> \notin removed
                 /\ Undisturbed(request[th])

\* The strengthening holds at startup.
LEMMA ShareInit == Init => ShareInv
BY OwnerInit, IdleOK DEF Init, ShareInv, UnshareTakesEffect, Undisturbed

\* A step that adds no share tuple, and gives one thread a record that begins no
\* share and, if it claims to be alone, is.
LEMMA NoShareAdded ==
  ASSUME ShareInv, OwnerInv', NEW th \in Threads, NEW r,
         request' = [request EXCEPT ![th] = r], removed' = removed,
         \A e, u : SharesOf(e, u)' \subseteq SharesOf(e, u),
         r.op = "share" => /\ request[th].op = "share" /\ r.target = request[th].target
                           /\ r.expense = request[th].expense,
         Undisturbed(r)
  PROVE  ShareInv'
<1>0. request \in [Threads -> Request]  BY DEF ShareInv, OwnerInv, TypeOK
<1>1. UnshareTakesEffect'
  BY DEF ShareInv, UnshareTakesEffect
<1>2. ASSUME NEW o \in Threads, request'[o].op = "share"
      PROVE  /\ request[o].op = "share"
             /\ request'[o].target = request[o].target /\ request'[o].expense = request[o].expense
  BY <1>0, <1>2
<1>3. ASSUME NEW u, NEW e, ~Sharing(u, e) PROVE ~Sharing(u, e)'
  BY <1>2, <1>3 DEF Sharing
<1>4. ASSUME NEW q, Undisturbed(q)
      PROVE  q.alone => /\ q.op = "unshare" /\ ~Sharing(q.target, q.expense)'
                        /\ q.stage = "read" => SharesOf(q.expense, q.target)' \subseteq q.seen
  BY <1>3, <1>4 DEF Undisturbed
<1>5. ASSUME NEW o \in Threads PROVE Undisturbed(request[o])'
  <2>0. PICK q : q = request'[o]  OBVIOUS
  <2>1. q = IF o = th THEN r ELSE request[o]  BY <1>0, <2>0
  <2>2. Undisturbed(q)
    <3>1. CASE o = th  BY <2>1, <3>1
    <3>2. CASE o # th
      <4>1. Undisturbed(request[o])  BY DEF ShareInv
      <4>2. q = request[o]  BY <2>1, <3>2
      <4> QED BY <4>1, <4>2 DEF Undisturbed
    <3> QED BY <3>1, <3>2
  <2>3. q.alone => /\ q.op = "unshare" /\ ~Sharing(q.target, q.expense)'
                   /\ q.stage = "read" => SharesOf(q.expense, q.target)' \subseteq q.seen
    BY <2>2, <1>4
  <2> QED BY <2>0, <2>3 DEF Undisturbed, Sharing, SharesOf
<1>6. ASSUME NEW o \in Threads, request'[o].op = "share"
      PROVE  <<request'[o].target, request'[o].expense>> \notin removed'
  BY <1>2, <1>6 DEF ShareInv
<1> QED BY <1>1, <1>5, <1>6 DEF ShareInv

\* A request that ends in a step that adds no share tuple.
LEMMA FinishedAlone ==
  ASSUME ShareInv, OwnerInv', NEW th \in Threads, Finish(th), removed' = removed,
         \A e, u : SharesOf(e, u)' \subseteq SharesOf(e, u)
  PROVE  ShareInv'
BY IdleOK, NoShareAdded DEF Finish, Undisturbed

\* A request that moves on without having read anything.
LEMMA AdvancedAlone ==
  ASSUME ShareInv, OwnerInv', NEW th \in Threads, NEW s \in {"found", "allowed", "deleted", "read"},
         s = "read" => request[th].op # "unshare",
         Advance(th, s), UNCHANGED <<tuples, removed>>
  PROVE  ShareInv'
<1>1. PICK r \in Request :
           /\ request' = [request EXCEPT ![th] = r]
           /\ r.op = request[th].op /\ r.stage = s /\ r.expense = request[th].expense
           /\ r.target = request[th].target /\ r.alone = request[th].alone
  BY Advanced DEF ShareInv, OwnerInv, TypeOK
<1>2. Undisturbed(r)  BY <1>1 DEF ShareInv, Undisturbed
<1>3. \A e, u : SharesOf(e, u)' \subseteq SharesOf(e, u)  BY DEF SharesOf
<1> QED BY <1>1, <1>2, <1>3, NoShareAdded

\* Requests that begin, none of them a share or an unshare.
LEMMA BeginAlone ==
  ASSUME ShareInv, OwnerInv', NEW th \in Threads,
         \/ \E u \in Users, e \in Expenses :
              InsertRow(th, u, e) \/ CheckEdit(th, u, e) \/ CheckDelete(th, u, e)
         \/ \E u, v \in Users, op \in {"grant", "revoke"} : CheckAdmin(th, op, u, v)
  PROVE  ShareInv'
<1>1. UNCHANGED <<tuples, removed>>
  BY DEF InsertRow, CheckEdit, CheckDelete, CheckAdmin
<1>2. \A e, u : SharesOf(e, u)' \subseteq SharesOf(e, u)  BY <1>1 DEF SharesOf
<1>3. \E r : request' = [request EXCEPT ![th] = r] /\ r.op # "share" /\ ~r.alone
  <2>1. ASSUME NEW u \in Users, NEW e \in Expenses, NEW op \in {"create", "update", "delete"},
               NEW s \in {"found", "allowed"},
               request' = [request EXCEPT ![th] = [Idle EXCEPT !.op = op, !.stage = s,
                                                               !.user = u, !.expense = e]]
        PROVE  \E r : request' = [request EXCEPT ![th] = r] /\ r.op # "share" /\ ~r.alone
    <3> DEFINE r == [Idle EXCEPT !.op = op, !.stage = s, !.user = u, !.expense = e]
    <3>1. r.op # "share" /\ ~r.alone  BY DEF Idle
    <3> QED BY <2>1, <3>1
  <2>2. ASSUME NEW u \in Users, NEW v \in Users, NEW op \in {"grant", "revoke"},
               CheckAdmin(th, op, u, v)
        PROVE  \E r : request' = [request EXCEPT ![th] = r] /\ r.op # "share" /\ ~r.alone
    <3> DEFINE r == [Idle EXCEPT !.op = op, !.stage = "allowed", !.user = u, !.target = v]
    <3>1. r.op # "share" /\ ~r.alone  BY DEF Idle
    <3> QED BY <2>2, <3>1 DEF CheckAdmin
  <2> QED BY <2>1, <2>2 DEF InsertRow, CheckEdit, CheckDelete
<1> QED BY <1>1, <1>2, <1>3, NoShareAdded DEF Undisturbed

\* Steps of a request under way that write no share tuple.
LEMMA OtherStep ==
  ASSUME ShareInv, OwnerInv', NEW th \in Threads,
         \/ WriteOwner(th) \/ UpdateRow(th) \/ FindForDelete(th) \/ DeleteRow(th)
         \/ ReadOrphans(th) \/ DeleteOrphans(th) \/ CheckTarget(th) \/ WriteAdmin(th)
         \/ RequireShare(th) \/ Fail(th)
  PROVE  ShareInv'
<1>1. CASE UpdateRow(th) \/ Fail(th)
  <2>1. Finish(th) /\ UNCHANGED <<tuples, removed>>  BY <1>1 DEF UpdateRow, Fail
  <2>2. \A e, u : SharesOf(e, u)' \subseteq SharesOf(e, u)  BY <2>1 DEF SharesOf
  <2> QED BY <2>1, <2>2, FinishedAlone
<1>2. CASE WriteOwner(th)
  <2>1. Finish(th) /\ removed' = removed  BY <1>2 DEF WriteOwner
  <2>2. \A e, u : SharesOf(e, u)' \subseteq SharesOf(e, u)
    BY <1>2 DEF WriteOwner, Write, OwnerTuples, SharesOf, ShareRelations
  <2> QED BY <2>1, <2>2, FinishedAlone
<1>3. CASE WriteAdmin(th)
  <2>1. Finish(th) /\ removed' = removed  BY <1>3 DEF WriteAdmin
  <2>2. \A e, u : SharesOf(e, u)' \subseteq SharesOf(e, u)
    BY <1>3 DEF WriteAdmin, Write, SharesOf, ShareRelations
  <2> QED BY <2>1, <2>2, FinishedAlone
<1>4. CASE DeleteOrphans(th)
  <2>1. Finish(th) /\ removed' = removed  BY <1>4 DEF DeleteOrphans
  <2>2. \A e, u : SharesOf(e, u)' \subseteq SharesOf(e, u)
    BY <1>4 DEF DeleteOrphans, Write, SharesOf
  <2> QED BY <2>1, <2>2, FinishedAlone
<1>5. CASE FindForDelete(th) \/ CheckTarget(th) \/ RequireShare(th)
  <2>1. UNCHANGED <<tuples, removed>>
        /\ (Finish(th) \/ \E s \in {"found", "allowed", "deleted", "read"} :
              Advance(th, s) /\ (s = "read" => request[th].op # "unshare"))
    BY <1>5 DEF FindForDelete, CheckTarget, RequireShare
  <2>2. \A e, u : SharesOf(e, u)' \subseteq SharesOf(e, u)  BY <2>1 DEF SharesOf
  <2> QED BY <2>1, <2>2, FinishedAlone, AdvancedAlone
<1>6. CASE DeleteRow(th)
  BY <1>6, AdvancedAlone DEF DeleteRow
<1>7. CASE ReadOrphans(th)
  <2> DEFINE q == request[th]
             r(page) == [q EXCEPT !.stage = "read", !.seen = page]
  <2>0. request \in [Threads -> Request]  BY DEF ShareInv, OwnerInv, TypeOK
  <2>1. PICK page \in Page(Orphans(q.expense)) :
           request' = [request EXCEPT ![th].stage = "read", ![th].seen = page]
    BY <1>7 DEF ReadOrphans
  <2>2. q.op = "delete" /\ UNCHANGED <<tuples, removed>>
        /\ request' = [request EXCEPT ![th] = r(page)]
    BY <2>0, <1>7, <2>1 DEF ReadOrphans, At
  <2>3. r(page).op = "delete" /\ r(page).alone = q.alone
    BY <2>0, <2>2 DEF Request
  <2>4. ~q.alone  BY <2>2 DEF ShareInv, Undisturbed
  <2> HIDE DEF r, q
  <2>5. \A e, u : SharesOf(e, u)' \subseteq SharesOf(e, u)  BY <2>2 DEF SharesOf
  <2> QED BY <2>2, <2>3, <2>4, <2>5, NoShareAdded DEF Undisturbed
<1> QED BY <1>1, <1>2, <1>3, <1>4, <1>5, <1>6, <1>7

\* An unshare that begins is alone when no share of its pair is under way, and what
\* it reads is every share tuple of the pair.
LEMMA UnshareStep ==
  ASSUME ShareInv, OwnerInv', NEW th \in Threads,
         \/ \E u, v \in Users, e \in Expenses : FindForUnshare(th, u, e, v)
         \/ ReadShares(th)
  PROVE  ShareInv'
<1>0. request \in [Threads -> Request]  BY DEF ShareInv, OwnerInv, TypeOK
<1>1. ASSUME NEW u \in Users, NEW v \in Users, NEW e \in Expenses, FindForUnshare(th, u, e, v)
      PROVE  ShareInv'
  <2> DEFINE r == [Idle EXCEPT !.op = "unshare", !.stage = "found", !.user = u,
                               !.expense = e, !.target = v, !.alone = ~Sharing(v, e)]
  <2>1. r.op = "unshare" /\ r.stage = "found" /\ r.target = v /\ r.expense = e
        /\ r.alone = ~Sharing(v, e)
    BY DEF Idle
  <2>2. request' = [request EXCEPT ![th] = r] /\ UNCHANGED <<tuples, removed>>
    BY <1>1 DEF FindForUnshare
  <2> HIDE DEF r
  <2>3. Undisturbed(r)  BY <2>1 DEF Undisturbed
  <2>4. \A k, w : SharesOf(k, w)' \subseteq SharesOf(k, w)  BY <2>2 DEF SharesOf
  <2> QED BY <2>1, <2>2, <2>3, <2>4, NoShareAdded
<1>2. ASSUME ReadShares(th) PROVE ShareInv'
  <2> DEFINE q == request[th]
             r == [q EXCEPT !.stage = "read", !.seen = SharesOf(q.expense, q.target)]
  <2>1. UNCHANGED <<tuples, removed>> /\ request' = [request EXCEPT ![th] = r]
    BY <1>0, <1>2 DEF ReadShares
  <2>2. r.op = q.op /\ r.target = q.target /\ r.expense = q.expense /\ r.alone = q.alone
        /\ r.seen = SharesOf(q.expense, q.target)
    BY <1>0 DEF Request
  <2>3. Undisturbed(q)  BY DEF ShareInv
  <2>4. \A k, w : SharesOf(k, w)' \subseteq SharesOf(k, w)  BY <2>1 DEF SharesOf
  <2> HIDE DEF r
  <2>5. Undisturbed(r)  BY <2>2, <2>3 DEF Undisturbed
  <2> QED BY <2>1, <2>2, <2>4, <2>5, NoShareAdded
<1> QED BY <1>1, <1>2

\* A share that begins ends the promise of every unshare of its pair.
LEMMA FindForShareStep ==
  ASSUME ShareInv, OwnerInv', NEW th \in Threads, NEW x \in Users, NEW v \in Users,
         NEW e \in Expenses, NEW k \in ShareRelations, FindForShare(th, x, e, v, k)
  PROVE  ShareInv'
<1> DEFINE r == [Idle EXCEPT !.op = "share", !.stage = "found", !.user = x,
                             !.expense = e, !.target = v, !.relation = k]
           same(q) == [request[q] EXCEPT
                         !.alone = @ /\ ~(request[q].target = v /\ request[q].expense = e)]
<1>1. r.op = "share" /\ r.target = v /\ r.expense = e /\ r.alone = FALSE
  BY DEF Idle
<1>2. /\ request' = [q \in Threads |-> IF q = th THEN r ELSE same(q)]
      /\ UNCHANGED tuples /\ removed' = removed \ {<<v, e>>}
  BY DEF FindForShare
<1>3. ASSUME NEW q \in Threads
      PROVE  /\ same(q).op = request[q].op /\ same(q).stage = request[q].stage
             /\ same(q).expense = request[q].expense /\ same(q).target = request[q].target
             /\ same(q).seen = request[q].seen
             /\ same(q).alone => /\ request[q].alone
                                 /\ ~(request[q].target = v /\ request[q].expense = e)
  <2>1. request[q] \in Request  BY DEF ShareInv, OwnerInv, TypeOK
  <2> DEFINE a == request[q].alone /\ ~(request[q].target = v /\ request[q].expense = e)
  <2>2. same(q) = [request[q] EXCEPT !.alone = a]  OBVIOUS
  <2>3. a \in BOOLEAN  OBVIOUS
  <2> HIDE DEF a, same
  <2>4. /\ same(q).op = request[q].op /\ same(q).stage = request[q].stage
        /\ same(q).expense = request[q].expense /\ same(q).target = request[q].target
        /\ same(q).seen = request[q].seen /\ same(q).alone = a
    BY <2>1, <2>2, <2>3 DEF Request
  <2> QED BY <2>4 DEF a
<1> HIDE DEF r, same
<1>4. UnshareTakesEffect'
  BY <1>2 DEF ShareInv, UnshareTakesEffect, SharesOf
<1>5. ASSUME NEW t, NEW d, Sharing(t, d)' PROVE Sharing(t, d) \/ (t = v /\ d = e)
  <2>1. PICK q \in Threads : request'[q].op = "share" /\ request'[q].target = t
                             /\ request'[q].expense = d
    BY <1>5 DEF Sharing
  <2>2. CASE q = th  BY <1>1, <1>2, <2>1, <2>2
  <2>3. CASE q # th
    <3>1. request'[q] = same(q)  BY <1>2, <2>3
    <3> QED BY <1>3, <2>1, <3>1 DEF Sharing
  <2> QED BY <2>2, <2>3
<1>6. ASSUME NEW q \in Threads
      PROVE  /\ request'[q].op = "share" =>
                  <<request'[q].target, request'[q].expense>> \notin removed'
             /\ Undisturbed(request[q])'
  <2>1. CASE q = th
    <3>1. request'[q] = r  BY <1>2, <2>1
    <3> QED BY <1>1, <1>2, <3>1 DEF Undisturbed
  <2>2. CASE q # th
    <3>1. request'[q] = same(q)  BY <1>2, <2>2
    <3>2. request'[q].op = "share" => <<request'[q].target, request'[q].expense>> \notin removed'
      BY <1>2, <1>3, <3>1 DEF ShareInv
    <3>3. Undisturbed(request[q])  BY DEF ShareInv
    <3>4. PICK w : w = same(q)  OBVIOUS
    <3>5. w.alone => /\ w.op = "unshare" /\ ~Sharing(w.target, w.expense)
                     /\ ~(w.target = v /\ w.expense = e)
                     /\ w.stage = "read" => SharesOf(w.expense, w.target) \subseteq w.seen
      BY <1>3, <3>3, <3>4 DEF Undisturbed
    <3>6. w.alone => ~Sharing(w.target, w.expense)'
      BY <1>5, <3>5
    <3>7. w.stage = "read" /\ w.alone => SharesOf(w.expense, w.target)' \subseteq w.seen
      BY <1>2, <3>5 DEF SharesOf
    <3>8. Undisturbed(request[q])'
      <4>1. request'[q] = w  BY <3>1, <3>4
      <4> QED BY <4>1, <3>5, <3>6, <3>7 DEF Undisturbed, Sharing, SharesOf
    <3> QED BY <3>2, <3>8
  <2> QED BY <2>1, <2>2
<1> QED BY <1>4, <1>6 DEF ShareInv

\* Only a share writes share tuples, and only of its own pair.
LEMMA SwapShareStep ==
  ASSUME ShareInv, OwnerInv', NEW th \in Threads, SwapShare(th)
  PROVE  ShareInv'
<1>0. request \in [Threads -> Request] /\ removed \subseteq Users \X Expenses
  BY DEF ShareInv, OwnerInv, TypeOK
<1>1. PICK q : q = request[th]  OBVIOUS
<1> DEFINE new == {<<q.target, q.relation, q.expense>>}
<1>2. /\ q.op = "share" /\ Finish(th) /\ removed' = removed
      /\ tuples' \subseteq tuples \cup new
  BY <1>1 DEF SwapShare, At, Write
<1>3. <<q.target, q.expense>> \notin removed  BY <1>1, <1>2 DEF ShareInv
<1>4. ASSUME NEW d, NEW t, ~(d = q.expense /\ t = q.target)
      PROVE  SharesOf(d, t)' \subseteq SharesOf(d, t)
  BY <1>2, <1>4 DEF SharesOf
<1>5. UnshareTakesEffect'
  <2>1. ASSUME NEW p \in removed PROVE SharesOf(p[2], p[1])' = {}
    <3>1. PICK t, d : p = <<t, d>>  BY <1>0
    <3>2. ~(d = q.expense /\ t = q.target)  BY <1>3, <3>1
    <3>3. SharesOf(d, t) = {}  BY <3>1 DEF ShareInv, UnshareTakesEffect
    <3> QED BY <1>4, <3>1, <3>2, <3>3
  <2> QED BY <1>2, <2>1 DEF UnshareTakesEffect
<1>6. ASSUME NEW o \in Threads
      PROVE  /\ request'[o].op = "share" =>
                  <<request'[o].target, request'[o].expense>> \notin removed'
             /\ Undisturbed(request[o])'
  <2>1. CASE o = th
    <3>1. request'[o] = Idle  BY <1>0, <1>2, <2>1 DEF Finish
    <3> QED BY <3>1, IdleOK DEF Undisturbed
  <2>2. CASE o # th
    <3>1. PICK w : w = request[o]  OBVIOUS
    <3>2. request'[o] = w  BY <1>0, <1>2, <2>2, <3>1 DEF Finish
    <3>3. w.op = "share" => <<w.target, w.expense>> \notin removed'
      BY <1>2, <3>1 DEF ShareInv
    <3>4. Undisturbed(w)  BY <3>1 DEF ShareInv, Undisturbed
    <3>5. w.alone => ~(w.expense = q.expense /\ w.target = q.target)
      BY <1>1, <1>2, <3>4 DEF Undisturbed, Sharing
    <3>6. w.alone /\ w.stage = "read" => SharesOf(w.expense, w.target)' \subseteq w.seen
      BY <1>4, <3>4, <3>5 DEF Undisturbed
    <3>7. \A p \in Threads : request'[p].op = "share" => request'[p] = request[p]
      BY <1>0, <1>2, IdleOK DEF Finish
    <3>8. w.alone => ~Sharing(w.target, w.expense)'
      BY <3>4, <3>7 DEF Undisturbed, Sharing
    <3> QED BY <3>2, <3>3, <3>4, <3>6, <3>8 DEF Undisturbed, Sharing, SharesOf
  <2> QED BY <2>1, <2>2
<1> QED BY <1>5, <1>6 DEF ShareInv

\* An unshare that was alone leaves no share tuple of its pair.
LEMMA RemoveShareStep ==
  ASSUME ShareInv, OwnerInv', NEW th \in Threads, RemoveShare(th)
  PROVE  ShareInv'
<1>0. request \in [Threads -> Request]  BY DEF ShareInv, OwnerInv, TypeOK
<1>1. PICK q : q = request[th]  OBVIOUS
<1>2. /\ q.stage = "read" /\ Finish(th) /\ Write({}, q.seen)
      /\ removed' = IF q.alone /\ Accepts({}, q.seen)
                      THEN removed \cup {<<q.target, q.expense>>} ELSE removed
  BY <1>1 DEF RemoveShare, At, UnshareDeletes
<1>3. \A d, t : SharesOf(d, t)' \subseteq SharesOf(d, t)
  BY <1>2 DEF Write, SharesOf
<1>4. CASE ~(q.alone /\ Accepts({}, q.seen))
  BY <1>2, <1>3, <1>4, FinishedAlone
<1>5. CASE q.alone /\ Accepts({}, q.seen)
  <2>1. Undisturbed(q)  BY <1>1 DEF ShareInv, Undisturbed
  <2>2. ~Sharing(q.target, q.expense) /\ SharesOf(q.expense, q.target) \subseteq q.seen
    BY <1>2, <1>5, <2>1 DEF Undisturbed
  <2>3. SharesOf(q.expense, q.target)' = {}
    BY <1>2, <1>5, <2>2 DEF Write, SharesOf
  <2>4. removed' = removed \cup {<<q.target, q.expense>>}  BY <1>2, <1>5
  <2>5. UnshareTakesEffect'
    <3>1. ASSUME NEW p \in removed PROVE SharesOf(p[2], p[1])' = {}
      BY <1>3 DEF ShareInv, UnshareTakesEffect
    <3> QED BY <2>3, <2>4, <3>1 DEF UnshareTakesEffect
  <2>6. ASSUME NEW o \in Threads
        PROVE  /\ request'[o].op = "share" =>
                    <<request'[o].target, request'[o].expense>> \notin removed'
               /\ Undisturbed(request[o])'
    <3>1. CASE o = th
      <4>1. request'[o] = Idle  BY <1>0, <1>2, <3>1 DEF Finish
      <4> QED BY <4>1, IdleOK DEF Undisturbed
    <3>2. CASE o # th
      <4>1. PICK w : w = request[o]  OBVIOUS
      <4>2. request'[o] = w  BY <1>0, <1>2, <3>2, <4>1 DEF Finish
      <4>3. w.op = "share" => <<w.target, w.expense>> \notin removed'
        BY <2>2, <2>4, <4>1 DEF ShareInv, Sharing
      <4>4. Undisturbed(w)  BY <4>1 DEF ShareInv, Undisturbed
      <4>5. w.alone /\ w.stage = "read" => SharesOf(w.expense, w.target)' \subseteq w.seen
        BY <1>3, <4>4 DEF Undisturbed
      <4>6. \A p \in Threads : request'[p].op = "share" => request'[p] = request[p]
        BY <1>0, <1>2, IdleOK DEF Finish
      <4>7. w.alone => ~Sharing(w.target, w.expense)'
        BY <4>4, <4>6 DEF Undisturbed, Sharing
      <4> QED BY <4>2, <4>3, <4>4, <4>5, <4>7 DEF Undisturbed, Sharing, SharesOf
    <3> QED BY <3>1, <3>2
  <2> QED BY <2>5, <2>6 DEF ShareInv
<1> QED BY <1>4, <1>5

\* Every step preserves the strengthening.
LEMMA ShareStep == ShareInv /\ [Next]_vars => ShareInv'
<1> SUFFICES ASSUME ShareInv, [Next]_vars PROVE ShareInv'  OBVIOUS
<1>0. OwnerInv'  BY OwnerStep DEF ShareInv
<1>1. CASE UNCHANGED vars
  BY <1>0, <1>1 DEF vars, ShareInv, UnshareTakesEffect, Undisturbed, Sharing, SharesOf
<1>2. CASE Next
  <2>1. PICK th \in Threads :
          \/ Step(th)
          \/ Fail(th)
          \/ \E u \in Users, e \in Expenses :
               \/ InsertRow(th, u, e) \/ CheckEdit(th, u, e) \/ CheckDelete(th, u, e)
               \/ \E v \in Users :
                    \/ FindForUnshare(th, u, e, v)
                    \/ \E r \in ShareRelations : FindForShare(th, u, e, v, r)
          \/ \E u, v \in Users, op \in {"grant", "revoke"} : CheckAdmin(th, op, u, v)
    BY <1>2 DEF Next
  <2>2. CASE Step(th)
    BY <1>0, <2>2, OtherStep, UnshareStep, SwapShareStep, RemoveShareStep DEF Step
  <2>3. CASE Fail(th)  BY <1>0, <2>3, OtherStep
  <2>4. ASSUME NEW u \in Users, NEW e \in Expenses,
               InsertRow(th, u, e) \/ CheckEdit(th, u, e) \/ CheckDelete(th, u, e)
        PROVE  ShareInv'
    BY <1>0, <2>4, BeginAlone
  <2>5. ASSUME NEW u \in Users, NEW e \in Expenses, NEW v \in Users,
               FindForUnshare(th, u, e, v)
        PROVE  ShareInv'
    BY <1>0, <2>5, UnshareStep
  <2>6. ASSUME NEW u \in Users, NEW e \in Expenses, NEW v \in Users,
               NEW r \in ShareRelations, FindForShare(th, u, e, v, r)
        PROVE  ShareInv'
    BY <1>0, <2>6, FindForShareStep
  <2>7. ASSUME NEW u \in Users, NEW v \in Users, NEW op \in {"grant", "revoke"},
               CheckAdmin(th, op, u, v)
        PROVE  ShareInv'
    BY <1>0, <2>7, BeginAlone
  <2> QED BY <2>1, <2>2, <2>3, <2>4, <2>5, <2>6, <2>7
<1> QED BY <1>1, <1>2

\* An unshare that succeeded with no share of its pair under way leaves the target
\* without the expense until a share of the pair begins, for any number of threads.
THEOREM UnshareAlwaysTakesEffect == Spec => []UnshareTakesEffect
<1>1. ShareInv => UnshareTakesEffect  BY DEF ShareInv
<1> QED BY <1>1, ShareInit, ShareStep, PTL DEF Spec

-----------------------------------------------------------------------------
HIDE ConstantsOK DEF ConstantsOK

\* One request at a time: what it has read is what there is when it writes.

\* Requests come one at a time.
OneThread == \A a, b \in Threads : a = b

\* A page of OpenFGA's answer holds every tuple there can be about an expense.
About(e) == {t \in Tuple : t[3] = e}
AmplePages == \A e \in Expenses : IsFiniteSet(About(e)) /\ Cardinality(About(e)) <= PageSize

\* A share or an unshare that has read what it will act on.
Reading(q) == q.op \in {"share", "unshare"} /\ q.stage = "read"

\* One share for each pair, and what was read of it is what there is.
ShareOnce == \A e \in Expenses, u \in Users : \A x, y \in SharesOf(e, u) : x = y
SharesRead == \A th \in Threads :
  Reading(request[th]) => request[th].seen = SharesOf(request[th].expense, request[th].target)

SerialInv == OwnerInv /\ ShareOnce /\ SharesRead

-----------------------------------------------------------------------------
\* The request that ends was the only one.
LEMMA AllIdle ==
  ASSUME OneThread, TypeOK, NEW th \in Threads, Finish(th)
  PROVE  \A o \in Threads : request'[o] = Idle
BY DEF OneThread, TypeOK, Finish

\* No store is written, and what is read is read as it is.
LEMMA StillOnce ==
  ASSUME OneThread, SerialInv, UNCHANGED tuples, NEW th \in Threads,
         \/ ~Reading(request'[th])
         \/ request'[th].seen = SharesOf(request'[th].expense, request'[th].target)
  PROVE  ShareOnce' /\ SharesRead'
<1>1. \A e, u : SharesOf(e, u)' = SharesOf(e, u)
  BY DEF SharesOf
<1>2. ShareOnce'
  BY <1>1 DEF SerialInv, ShareOnce
<1>3. ASSUME NEW o \in Threads, Reading(request'[o])
      PROVE  request'[o].seen = {t \in tuples' : t[3] = request'[o].expense
                                   /\ t[1] = request'[o].target /\ t[2] \in ShareRelations}
  BY <1>3 DEF OneThread, SharesOf
<1> QED BY <1>2, <1>3 DEF SharesRead, Reading, SharesOf

\* A write that adds no share, or the first of a pair, and a request that ends with it.
LEMMA WritesOnce ==
  ASSUME OneThread, SerialInv, NEW th \in Threads, Finish(th), ShareOnce'
  PROVE  ShareOnce' /\ SharesRead'
<1>1. \A o \in Threads : request'[o] = Idle
  BY AllIdle DEF SerialInv, OwnerInv
<1> QED BY <1>1, IdleOK DEF SharesRead, Reading

\* A write that adds no share leaves each pair at most the one it had.
LEMMA FewerShares ==
  ASSUME ShareOnce, \A t \in tuples' \ tuples : t[2] \notin ShareRelations
  PROVE  ShareOnce'
BY DEF ShareOnce, SharesOf

\* Every step keeps one share for each pair, and what was read of it true.
LEMMA OnceStep ==
  ASSUME OneThread, SerialInv, [Next]_vars
  PROVE  ShareOnce' /\ SharesRead'
<1>1. CASE UNCHANGED vars
  BY <1>1 DEF vars, SerialInv, ShareOnce, SharesRead, Reading, SharesOf
<1>2. CASE Next
  <2>1. PICK th \in Threads :
          \/ Step(th)
          \/ Fail(th)
          \/ \E u \in Users, e \in Expenses :
               \/ InsertRow(th, u, e) \/ CheckEdit(th, u, e) \/ CheckDelete(th, u, e)
               \/ \E v \in Users :
                    \/ FindForUnshare(th, u, e, v)
                    \/ \E r \in ShareRelations : FindForShare(th, u, e, v, r)
          \/ \E u, v \in Users, op \in {"grant", "revoke"} : CheckAdmin(th, op, u, v)
    BY <1>2 DEF Next
  <2>2. request \in [Threads -> Request] /\ request[th] \in Request
    BY DEF SerialInv, OwnerInv, TypeOK
  <2>3. CASE UNCHANGED tuples /\ ~Reading(request'[th])
    BY <2>3, StillOnce
  <2>4. CASE Finish(th) /\ ShareOnce'
    BY <2>4, WritesOnce
  <2>5. ASSUME Finish(th), NEW W, NEW D, Write(W, D), \A t \in W : t[2] \notin ShareRelations
        PROVE  ShareOnce'
    BY <2>5, FewerShares DEF Write, SerialInv
  <2>6. CASE WriteOwner(th)
    <3>1. \A u, e : \A t \in OwnerTuples(u, e) : t[2] \notin ShareRelations
      BY DEF OwnerTuples, ShareRelations
    <3> QED BY <2>4, <2>5, <2>6, <3>1 DEF WriteOwner
  <2>7. CASE SwapShare(th)
    <3> DEFINE q == request[th]
               new == <<q.target, q.relation, q.expense>>
    <3>1. /\ Reading(q) /\ Finish(th) /\ q.relation \in ShareRelations
          /\ q.target \in Users /\ q.expense \in Expenses
          /\ q.seen = SharesOf(q.expense, q.target)
          /\ UNCHANGED tuples \/ Write({new}, q.seen)
      BY <2>7 DEF SwapShare, At, SwapDeletes, SerialInv, SharesRead, Reading, OwnerInv, Doing
    <3> HIDE DEF q
    <3>2. CASE UNCHANGED tuples
      BY <2>4, <3>1, <3>2, FewerShares DEF SerialInv
    <3>3. CASE tuples' = (tuples \ q.seen) \cup {new}
      <4>1. ASSUME NEW e \in Expenses, NEW u \in Users,
                   NEW x \in SharesOf(e, u)', NEW y \in SharesOf(e, u)'
            PROVE  x = y
        <5>1. /\ x \in tuples' /\ x[3] = e /\ x[1] = u /\ x[2] \in ShareRelations
              /\ y \in tuples' /\ y[3] = e /\ y[1] = u /\ y[2] \in ShareRelations
          BY <4>1 DEF SharesOf
        <5>2. CASE e = q.expense /\ u = q.target
          <6>1. \A z \in tuples : z[3] = e /\ z[1] = u /\ z[2] \in ShareRelations => z \in q.seen
            BY <3>1, <5>2 DEF SharesOf
          <6> QED BY <3>3, <5>1, <6>1
        <5>3. CASE ~(e = q.expense /\ u = q.target)
          <6>1. x # new /\ y # new
            BY <5>1, <5>3
          <6>2. x \in SharesOf(e, u) /\ y \in SharesOf(e, u)
            BY <3>3, <5>1, <6>1 DEF SharesOf
          <6> QED BY <6>2 DEF SerialInv, ShareOnce
        <5> QED BY <5>2, <5>3
      <4> QED BY <2>4, <3>1, <4>1 DEF ShareOnce
    <3> QED BY <3>1, <3>2, <3>3 DEF Write
  <2>8. CASE RemoveShare(th) \/ DeleteOrphans(th)
    BY <2>4, <2>5, <2>8 DEF RemoveShare, DeleteOrphans
  <2>9. CASE WriteAdmin(th)
    <3>1. "admin" \notin ShareRelations
      BY DEF ShareRelations
    <3> QED BY <2>4, <2>5, <2>9, <3>1 DEF WriteAdmin
  <2>10. CASE ReadShares(th)
    <3>1. /\ UNCHANGED tuples
          /\ request'[th].expense = request[th].expense
          /\ request'[th].target = request[th].target
          /\ request'[th].seen = SharesOf(request[th].expense, request[th].target)
      BY <2>2, <2>10 DEF ReadShares, Request
    <3> QED BY <3>1, StillOnce
  <2>11. CASE \/ UpdateRow(th) \/ RequireShare(th) \/ FindForDelete(th) \/ DeleteRow(th)
              \/ CheckTarget(th) \/ Fail(th)
    <3>1. /\ UNCHANGED tuples
          /\ \/ Finish(th)
             \/ Advance(th, "allowed")
             \/ Advance(th, "found")
             \/ /\ Advance(th, "deleted") \/ Advance(th, "read")
                /\ request[th].op \notin {"share", "unshare"}
      <4>1. CASE UpdateRow(th) \/ Fail(th)
        BY <4>1 DEF UpdateRow, Fail
      <4>2. CASE RequireShare(th)
        BY <4>2 DEF RequireShare
      <4>3. CASE FindForDelete(th)
        BY <4>3 DEF FindForDelete
      <4>4. CASE DeleteRow(th)
        BY <4>4 DEF DeleteRow, At
      <4>5. CASE CheckTarget(th)
        BY <4>5 DEF CheckTarget
      <4> QED BY <2>11, <4>1, <4>2, <4>3, <4>4, <4>5
    <3>2. ~Reading(request'[th])
      BY <2>2, <3>1, IdleOK DEF Finish, Advance, Reading, Request
    <3> QED BY <2>3, <3>1, <3>2
  <2>12. CASE ReadOrphans(th)
    <3>1. UNCHANGED tuples /\ request'[th].op = "delete"
      BY <2>2, <2>12 DEF ReadOrphans, At, Request
    <3> QED BY <2>3, <3>1 DEF Reading
  <2>13. ASSUME NEW u \in Users, NEW e \in Expenses,
                \/ InsertRow(th, u, e) \/ CheckEdit(th, u, e) \/ CheckDelete(th, u, e)
                \/ \E v \in Users :
                     \/ FindForUnshare(th, u, e, v)
                     \/ \E r \in ShareRelations : FindForShare(th, u, e, v, r)
         PROVE  ShareOnce' /\ SharesRead'
    <3>1. UNCHANGED tuples /\ request'[th].stage # "read"
      BY ZenonT(40), <2>2, <2>13 DEF InsertRow, CheckEdit, CheckDelete, FindForUnshare, FindForShare, Idle
    <3> QED BY <2>3, <3>1 DEF Reading
  <2>14. ASSUME NEW u \in Users, NEW v \in Users, NEW op \in {"grant", "revoke"},
                CheckAdmin(th, op, u, v)
         PROVE  ShareOnce' /\ SharesRead'
    <3>1. UNCHANGED tuples /\ request'[th].stage # "read"
      BY <2>2, <2>14 DEF CheckAdmin, Idle
    <3> QED BY <2>3, <3>1 DEF Reading
  <2> QED BY <2>1, <2>6, <2>7, <2>8, <2>9, <2>10, <2>11, <2>12, <2>13, <2>14 DEF Step
<1> QED BY <1>1, <1>2

\* One is at most one.
LEMMA OneAtMost == \A n : n = 1 => n <= 1
OBVIOUS

\* No share is there at startup.
LEMMA SerialInit == Init => ShareOnce /\ SharesRead
<1> SUFFICES ASSUME Init PROVE ShareOnce /\ SharesRead
  OBVIOUS
<1>1. \A t \in tuples : t[2] \notin ShareRelations
  BY DEF Init, ShareRelations
<1> QED BY <1>1, IdleOK DEF Init, ShareOnce, SharesOf, SharesRead, Reading

\* The strengthening holds of every behaviour.
LEMMA SerialInvariant == ASSUME OneThread PROVE Spec => []SerialInv
<1>1. Init => SerialInv
  BY OwnerInit, SerialInit DEF SerialInv
<1>2. SerialInv /\ [Next]_vars => SerialInv'
  BY OwnerStep, OnceStep DEF SerialInv
<1> QED BY <1>1, <1>2, PTL DEF Spec

\* Requests that come one at a time leave nobody viewer and editor of one expense,
\* whatever fails (authz/service.py:119-150).
THEOREM SharesAreSwapped == ASSUME OneThread PROVE Spec => []OneShareEach
<1>1. SerialInv => OneShareEach
  <2> SUFFICES ASSUME SerialInv, NEW e \in Expenses, NEW u \in Users
               PROVE  Cardinality(SharesOf(e, u)) <= 1
    BY DEF OneShareEach
  <2>1. CASE SharesOf(e, u) = {}
    BY <2>1, FS_EmptySet
  <2>2. CASE SharesOf(e, u) # {}
    <3>1. PICK x : x \in SharesOf(e, u)
      BY <2>2
    <3>2. SharesOf(e, u) = {x}
      BY <3>1 DEF SerialInv, ShareOnce
    <3>3. Cardinality({x}) = 1
      BY FS_Singleton
    <3> QED BY ONLY <3>2, <3>3, OneAtMost
  <2> QED BY <2>1, <2>2
<1> QED BY <1>1, SerialInvariant, PTL

-----------------------------------------------------------------------------
\* A tuple refers to the organization, to a row, or to the row of a deletion past its
\* commit; a creation or a share still to be written refers to a row that exists; and a
\* deletion that has read has read everything.
Sweeping(q) == q.op = "delete" /\ q.stage \in {"deleted", "read"}
Tidy(t) == \/ t[3] = Org
           \/ t[3] \in DOMAIN rows
           \/ \E th \in Threads : Sweeping(request[th]) /\ request[th].expense = t[3]
Sound(q, R, T) ==
  /\ q.op \in {"create", "share"} => q.expense \in DOMAIN R
  /\ q.op = "delete" /\ q.stage = "read" => q.seen = {t \in T : t[3] = q.expense}

TidyInv == /\ OwnerInv
           /\ \A t \in tuples : Tidy(t)
           /\ \A th \in Threads : Sound(request[th], rows, tuples)

\* A page holds all there is about an expense.
LEMMA WholePage ==
  ASSUME AmplePages, TypeOK, NEW e \in Expenses, NEW P \in Page(Orphans(e))
  PROVE  P = TuplesOf(e)
<1> DEFINE S == TuplesOf(e)
<1>1. S \subseteq About(e)
  BY DEF TuplesOf, About, TypeOK
<1>2. IsFiniteSet(About(e)) /\ Cardinality(About(e)) <= PageSize
  BY DEF AmplePages
<1>3. IsFiniteSet(S) /\ Cardinality(S) <= Cardinality(About(e))
  BY <1>1, <1>2, FS_Subset
<1>4. P \subseteq S /\ (P = S \/ Cardinality(P) = PageSize)
  BY DEF Page, Orphans
<1> HIDE DEF S
<1>5. CASE Cardinality(P) = PageSize
  <2>1. Cardinality(P) <= Cardinality(S) /\ (Cardinality(S) = Cardinality(P) => S = P)
    BY <1>3, <1>4, FS_Subset
  <2>2. Cardinality(S) \in Nat /\ Cardinality(About(e)) \in Nat
    BY <1>2, <1>3, FS_CardinalityType
  <2>3. ASSUME NEW p, NEW m \in Nat, NEW n \in Nat, p = PageSize, p <= m, m <= n, n <= PageSize
        PROVE  m = p
    BY <2>3, ConstantsOK DEF ConstantsOK
  <2>4. Cardinality(S) = Cardinality(P)
    BY <1>2, <1>3, <1>5, <2>1, <2>2, <2>3
  <2> QED BY <2>1, <2>4 DEF S
<1> QED BY <1>4, <1>5 DEF S

\* Tuples that refer to something go on doing so when no row is lost and a deletion
\* in progress stays one.
LEMMA StillTidy ==
  ASSUME OneThread, TidyInv, NEW th \in Threads,
         DOMAIN rows \subseteq DOMAIN rows',
         \A t \in tuples' \ tuples : t[3] \in DOMAIN rows \cup {Org},
         Sweeping(request[th]) =>
           Sweeping(request'[th]) /\ request'[th].expense = request[th].expense
  PROVE  \A t \in tuples' : Tidy(t)'
<1> SUFFICES ASSUME NEW t \in tuples' PROVE Tidy(t)'
  OBVIOUS
<1>1. CASE t[3] \in DOMAIN rows \cup {Org}
  BY <1>1 DEF Tidy
<1>2. CASE t[3] \notin DOMAIN rows \cup {Org}
  <2>1. Sweeping(request[th]) /\ request[th].expense = t[3]
    BY <1>2 DEF TidyInv, Tidy, OneThread
  <2> QED BY <2>1 DEF Tidy, Sweeping
<1> QED BY <1>1, <1>2

\* Every step that does not fail leaves each tuple something to refer to.
LEMMA TidyStep ==
  ASSUME OneThread, AmplePages, ~MayFail, TidyInv, [Next]_vars
  PROVE  (\A t \in tuples' : Tidy(t)') /\ (\A o \in Threads : Sound(request'[o], rows', tuples'))
<1> DEFINE Goal == (\A t \in tuples' : Tidy(t)') /\ (\A o \in Threads : Sound(request'[o], rows', tuples'))
<1>1. CASE UNCHANGED vars
  BY <1>1 DEF vars, TidyInv, Tidy, Sweeping, Sound, TuplesOf
<1>2. CASE Next
  <2>1. PICK th \in Threads :
          \/ Step(th)
          \/ Fail(th)
          \/ \E u \in Users, e \in Expenses :
               \/ InsertRow(th, u, e) \/ CheckEdit(th, u, e) \/ CheckDelete(th, u, e)
               \/ \E v \in Users :
                    \/ FindForUnshare(th, u, e, v)
                    \/ \E r \in ShareRelations : FindForShare(th, u, e, v, r)
          \/ \E u, v \in Users, op \in {"grant", "revoke"} : CheckAdmin(th, op, u, v)
    BY <1>2 DEF Next
  <2> DEFINE q == request[th]
  <2>2. request \in [Threads -> Request] /\ q \in Request /\ Sound(q, rows, tuples)
    BY DEF TidyInv, OwnerInv, TypeOK
  <2>3. ASSUME Sound(request'[th], rows', tuples') PROVE \A o \in Threads : Sound(request'[o], rows', tuples')
    BY <2>3 DEF OneThread
  <2>4. ASSUME Finish(th) PROVE Sound(request'[th], rows', tuples') /\ ~Sweeping(request'[th])
    BY <2>2, <2>4, IdleOK DEF Finish, Sound, Sweeping
  <2>5. ASSUME Finish(th), ~Sweeping(q), UNCHANGED rows,
               \A t \in tuples' \ tuples : t[3] \in DOMAIN rows \cup {Org}
        PROVE  Goal
    BY <2>3, <2>4, <2>5, StillTidy
  <2>6. ASSUME UNCHANGED <<rows, tuples>>, ~Sweeping(q), Sound(request'[th], rows', tuples')
        PROVE  Goal
    BY <2>3, <2>6, StillTidy
  <2>7. ASSUME NEW W, NEW D, Write(W, D), \A t \in W : t[3] \in DOMAIN rows \cup {Org}
        PROVE  \A t \in tuples' \ tuples : t[3] \in DOMAIN rows \cup {Org}
    BY <2>7 DEF Write
  <2>8. CASE WriteOwner(th)
    <3>1. q.expense \in DOMAIN rows /\ ~Sweeping(q)
      BY <2>2, <2>8 DEF WriteOwner, At, Sound, Sweeping
    <3>2. \A t \in OwnerTuples(q.user, q.expense) : t[3] \in DOMAIN rows \cup {Org}
      BY <3>1 DEF OwnerTuples
    <3> QED BY <2>5, <2>7, <2>8, <3>1, <3>2 DEF WriteOwner
  <2>9. CASE SwapShare(th)
    <3>1. q.expense \in DOMAIN rows /\ ~Sweeping(q)
      BY <2>2, <2>9 DEF SwapShare, At, Sound, Sweeping
    <3>2. \A t \in {<<q.target, q.relation, q.expense>>} : t[3] \in DOMAIN rows \cup {Org}
      BY <3>1
    <3> QED BY <2>5, <2>7, <2>9, <3>1, <3>2 DEF SwapShare
  <2>10. CASE RemoveShare(th)
    BY <2>2, <2>5, <2>7, <2>10 DEF RemoveShare, At, Sweeping
  <2>11. CASE WriteAdmin(th)
    BY <2>2, <2>5, <2>7, <2>11 DEF WriteAdmin, Sweeping
  <2>12. CASE UpdateRow(th)
    BY <2>2, <2>5, <2>12 DEF UpdateRow, At, Sweeping
  <2>13. CASE ReadShares(th)
    <3>1. request'[th].op = q.op /\ request'[th].expense = q.expense
      BY <2>2, <2>13 DEF ReadShares, Request
    <3> QED BY <2>2, <2>6, <2>13, <3>1 DEF ReadShares, Sound, Sweeping
  <2>14. CASE RequireShare(th) \/ FindForDelete(th) \/ CheckTarget(th)
    <3>1. /\ UNCHANGED <<rows, tuples>>
          /\ ~Sweeping(q)
          /\ \/ Finish(th)
             \/ Advance(th, "allowed")
             \/ Advance(th, "found")
             \/ Advance(th, "read") /\ q.op # "delete"
      BY <2>2, <2>14 DEF RequireShare, FindForDelete, CheckTarget, At, Sweeping
    <3>2. Sound(request'[th], rows', tuples')
      BY <2>2, <2>4, <3>1 DEF Advance, Sound, Request
    <3> QED BY <2>6, <3>1, <3>2
  <2>15. CASE DeleteRow(th)
    <3>1. /\ UNCHANGED tuples /\ DOMAIN rows' = DOMAIN rows \ {q.expense}
          /\ q.op = "delete" /\ q.stage = "found"
      BY <2>15 DEF DeleteRow, DeleteOf, At
    <3>2. /\ request'[th].op = "delete" /\ request'[th].stage = "deleted"
          /\ request'[th].expense = q.expense
      BY <2>2, <2>15 DEF DeleteRow, At, Advance, Request
    <3>3. \A t \in tuples : t[3] \in DOMAIN rows \cup {Org}
      BY <3>1 DEF TidyInv, Tidy, Sweeping, OneThread
    <3>4. \A t \in tuples' : Tidy(t)'
      BY <3>1, <3>2, <3>3 DEF Tidy, Sweeping
    <3> QED BY <2>3, <3>2, <3>4 DEF Sound
  <2>16. CASE ReadOrphans(th)
    <3>1. PICK page \in Page(Orphans(q.expense)) :
            request' = [request EXCEPT ![th].stage = "read", ![th].seen = page]
      BY <2>16 DEF ReadOrphans
    <3>2. q.op = "delete" /\ q.stage = "deleted" /\ UNCHANGED <<rows, tuples>>
      BY <2>16 DEF ReadOrphans, At
    <3>3. q.expense \in Expenses
      BY <3>2 DEF TidyInv, OwnerInv, Doing, TypeOK
    <3>4. page = TuplesOf(q.expense)
      BY <3>3, WholePage DEF TidyInv, OwnerInv
    <3>5. /\ request'[th].op = "delete" /\ request'[th].stage = "read"
          /\ request'[th].expense = q.expense /\ request'[th].seen = TuplesOf(q.expense)
      BY <2>2, <3>1, <3>2, <3>4 DEF Request
    <3>6. Sound(request'[th], rows', tuples')
      BY <3>2, <3>5 DEF Sound, TuplesOf
    <3> QED BY <2>3, <3>2, <3>5, <3>6, StillTidy DEF Sweeping
  <2>17. CASE DeleteOrphans(th)
    <3>1. /\ q.seen = TuplesOf(q.expense) /\ Finish(th) /\ UNCHANGED rows
          /\ Write({}, q.seen)
      BY <2>2, <2>17 DEF DeleteOrphans, At, Sound, TuplesOf
    <3>2. tuples' = tuples \ TuplesOf(q.expense)
      BY <3>1 DEF Write, Accepts, TuplesOf
    <3>3. \A t \in tuples' : t[3] \in DOMAIN rows \cup {Org}
      BY <3>2 DEF TidyInv, Tidy, Sweeping, OneThread, TuplesOf
    <3> QED BY <2>3, <2>4, <3>1, <3>3 DEF Tidy
  <2>18. ASSUME NEW u \in Users, NEW e \in Expenses, InsertRow(th, u, e)
         PROVE  Goal
    <3>1. /\ UNCHANGED tuples /\ DOMAIN rows' = DOMAIN rows \cup {e} /\ ~Sweeping(q)
          /\ request'[th].op = "create" /\ request'[th].expense = e
      BY <2>2, <2>18 DEF InsertRow, IsIdle, Sweeping, Idle
    <3>2. Sound(request'[th], rows', tuples')
      BY <3>1 DEF Sound
    <3> QED BY <2>3, <3>1, <3>2, StillTidy
  <2>19. ASSUME NEW u \in Users, NEW e \in Expenses,
                \/ CheckEdit(th, u, e) \/ CheckDelete(th, u, e)
                \/ \E v \in Users :
                     \/ FindForUnshare(th, u, e, v)
                     \/ \E r \in ShareRelations : FindForShare(th, u, e, v, r)
         PROVE  Goal
    <3>1. /\ UNCHANGED <<rows, tuples>> /\ ~Sweeping(q) /\ request'[th].stage # "read"
          /\ request'[th].op # "create"
          /\ request'[th].op = "share" => request'[th].expense \in DOMAIN rows
      <4>1. CASE CheckEdit(th, u, e) \/ CheckDelete(th, u, e)
        BY ZenonT(40), <2>2, <4>1 DEF CheckEdit, CheckDelete, IsIdle, Idle, Sweeping
      <4>2. ASSUME NEW v \in Users, FindForUnshare(th, u, e, v)
            PROVE  /\ UNCHANGED <<rows, tuples>> /\ ~Sweeping(q)
                   /\ request'[th].stage = "found" /\ request'[th].op = "unshare"
        BY <2>2, <4>2 DEF FindForUnshare, IsIdle, Idle, Sweeping
      <4>3. ASSUME NEW v \in Users, NEW r \in ShareRelations, FindForShare(th, u, e, v, r)
            PROVE  /\ UNCHANGED <<rows, tuples>> /\ ~Sweeping(q) /\ e \in DOMAIN rows
                   /\ request'[th].stage = "found" /\ request'[th].op = "share"
                   /\ request'[th].expense = e
        BY <2>2, <4>3 DEF FindForShare, IsIdle, Idle, Sweeping
      <4> QED BY <2>19, <4>1, <4>2, <4>3
    <3>2. Sound(request'[th], rows', tuples')
      BY <3>1 DEF Sound
    <3> QED BY <2>6, <3>1, <3>2
  <2>20. ASSUME NEW u \in Users, NEW v \in Users, NEW op \in {"grant", "revoke"},
                CheckAdmin(th, op, u, v)
         PROVE  Goal
    <3>1. /\ UNCHANGED <<rows, tuples>> /\ ~Sweeping(q)
          /\ request'[th].op \notin {"create", "share", "delete"}
      BY <2>2, <2>20 DEF CheckAdmin, IsIdle, Idle, Sweeping
    <3>2. Sound(request'[th], rows', tuples')
      BY <3>1 DEF Sound
    <3> QED BY <2>6, <3>1, <3>2
  <2>21. ~Fail(th)
    BY DEF Fail
  <2> QED BY <2>1, <2>8, <2>9, <2>10, <2>11, <2>12, <2>13, <2>14, <2>15, <2>16, <2>17,
             <2>18, <2>19, <2>20, <2>21 DEF Step
<1> QED BY <1>1, <1>2

\* Requests that come one at a time and do not fail leave no permission behind, as
\* long as the tuples about one expense fit in a page of OpenFGA's answer
\* (authz/service.py:40-45).
THEOREM DeletionsAreTidy ==
  ASSUME OneThread, AmplePages, ~MayFail
  PROVE  Spec => []NoOrphans
<1>1. Init => TidyInv
  <2> SUFFICES ASSUME Init PROVE TidyInv
    OBVIOUS
  <2>1. \A t \in tuples : t[3] = Org
    BY DEF Init
  <2>2. \A th \in Threads : Sound(request[th], rows, tuples)
    BY IdleOK DEF Init, Sound
  <2> QED BY <2>1, <2>2, OwnerInit DEF TidyInv, Tidy
<1>2. TidyInv /\ [Next]_vars => TidyInv'
  BY OwnerStep, TidyStep DEF TidyInv
<1>3. TidyInv => NoOrphans
  BY DEF TidyInv, Tidy, Sweeping, NoOrphans, IsIdle
<1> QED BY <1>1, <1>2, <1>3, PTL DEF Spec
=============================================================================
