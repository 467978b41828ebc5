---------------------------- MODULE ExpenseAuthz ----------------------------
(***************************************************************************)
(* Expenses and who may touch them: the SQL rows (models/expense_model.py) *)
(* and the OpenFGA tuples (authz/service.py) that the same requests keep   *)
(* in step (services/expense_services.py).  The two stores share no        *)
(* transaction.  Every route is a plain `def`, so each runs on a           *)
(* threadpool thread and each round trip to a store is a step of its own.  *)
(* The OpenFGA server is external: a check is evaluated against the        *)
(* authorization model the program uploads, a write applies all its        *)
(* writes and deletes or none, and is refused when it would write a tuple  *)
(* that exists or delete one that does not.                                *)
(***************************************************************************)
EXTENDS Naturals, FiniteSets

CONSTANTS Users, Expenses, Threads,
          Org,       \* ORG_OBJECT
          Admins,    \* INITIAL_ADMIN_USERNAMES: admins granted at startup
          None,
          PageSize,  \* tuples in one answer of OpenFGA's read (50 by default)
          MayFail    \* whether a round trip may fail (timeout, 5xx, restart)

ASSUME ConstantsOK == /\ Admins \subseteq Users
                      /\ Org \notin Users \cup Expenses
                      /\ None \notin Users \cup Expenses \cup {Org}
                      /\ Users \cap Expenses = {}
                      /\ PageSize \in Nat \ {0}
                      /\ MayFail \in BOOLEAN

VARIABLES rows,      \* the expenses table: id -> user_id
          tuples,    \* the OpenFGA store: <<user, relation, object>>
          request,   \* what each thread is executing
          made,      \* ids the autoincrement column has given out
          owned,     \* history: expenses whose creation wrote its tuples
          removed    \* history: <<user, expense>> unshared, no share begun since

vars == <<rows, tuples, request, made, owned, removed>>

ShareRelations == {"viewer", "editor"}
Tuple == (Users \X (ShareRelations \cup {"owner"}) \X Expenses)
           \cup ({Org} \X {"parent_org"} \X Expenses) \cup (Users \X {"admin"} \X {Org})

Request == [op: {"none", "create", "update", "share", "unshare", "delete",
                 "grant", "revoke"},
            stage: {"idle", "found", "allowed", "deleted", "read"},
            user: Users \cup {None}, expense: Expenses \cup {None},
            target: Users \cup {None}, relation: ShareRelations \cup {None},
            seen: SUBSET Tuple,    \* what read_tuples returned
            alone: BOOLEAN]        \* history: no share of the pair has overlapped

Idle == [op |-> "none", stage |-> "idle", user |-> None, expense |-> None,
         target |-> None, relation |-> None, seen |-> {}, alone |-> FALSE]

IsIdle(th) == request[th].stage = "idle"
At(th, op, stage) == request[th].op = op /\ request[th].stage = stage
Advance(th, stage) == request' = [request EXCEPT ![th].stage = stage]
Finish(th) == request' = [request EXCEPT ![th] = Idle]

-----------------------------------------------------------------------------
\* AUTHORIZATION_MODEL: the direct relations each permission is a union of.
Direct(permission) ==
  CASE permission = "can_view" -> {"viewer", "owner", "editor"}
    [] permission = "can_edit" -> {"owner", "editor"}
    [] permission \in {"can_delete", "can_share"} -> {"owner"}

IsAdmin(u) == <<u, "admin", Org>> \in tuples

Check(u, permission, e) ==
  \/ \E r \in Direct(permission) : <<u, r, e>> \in tuples
  \/ <<Org, "parent_org", e>> \in tuples /\ IsAdmin(u)

TuplesOf(e) == {t \in tuples : t[3] = e}
SharesOf(e, u) == {t \in tuples : t[3] = e /\ t[1] = u /\ t[2] \in ShareRelations}

\* write_tuples, as OpenFGA executes it: accepted whole, or refused whole.
Accepts(writes, deletes) == writes \cap tuples = {} /\ deletes \subseteq tuples
Write(writes, deletes) ==
  tuples' = IF Accepts(writes, deletes) THEN (tuples \ deletes) \cup writes ELSE tuples

-----------------------------------------------------------------------------
Init ==
  /\ rows = [e \in {} |-> None]
  /\ tuples = {<<u, "admin", Org>> : u \in Admins}
  /\ request = [th \in Threads |-> Idle]
  /\ made = {} /\ owned = {} /\ removed = {}

\* create_expense: the row is committed first.
InsertRow(th, u, e) ==
  /\ IsIdle(th)
  /\ e \notin made
  /\ rows' = [k \in DOMAIN rows \cup {e} |-> IF k = e THEN u ELSE rows[k]]
  /\ made' = made \cup {e}
  /\ request' = [request EXCEPT ![th] = [Idle EXCEPT !.op = "create", !.stage = "found",
                                                     !.user = u, !.expense = e]]
  /\ UNCHANGED <<tuples, owned, removed>>

\* on_expense_created; the webhook and the checks that follow change nothing here.
OwnerTuples_Swapped(u, e) == {<<u, "owner", e>>, <<e, "parent_org", Org>>}  \* mutant
OwnerTuples(u, e) == {<<u, "owner", e>>, <<Org, "parent_org", e>>}

WriteOwner(th) ==
  LET q == request[th]
      new == OwnerTuples(q.user, q.expense) IN
  /\ At(th, "create", "found")
  /\ Write(new, {})
  /\ owned' = IF Accepts(new, {}) THEN owned \cup {q.expense} ELSE owned
  /\ Finish(th)
  /\ UNCHANGED <<rows, made, removed>>

\* update_expense: can_edit, then one transaction on the row, if it is still there.
\* What the row says besides its owner is left out.
CheckEdit(th, u, e) ==
  /\ IsIdle(th)
  /\ Check(u, "can_edit", e)
  /\ request' = [request EXCEPT ![th] = [Idle EXCEPT !.op = "update", !.stage = "allowed",
                                                     !.user = u, !.expense = e]]
  /\ UNCHANGED <<rows, tuples, made, owned, removed>>

UpdateRow(th) ==
  /\ At(th, "update", "allowed")
  /\ Finish(th)
  /\ UNCHANGED <<rows, tuples, made, owned, removed>>

\* share_expense and unshare_expense read the row before they ask for can_share.
\* A share that begins ends what an earlier or a pending unshare of the pair promised.
Sharing(u, e) == \E th \in Threads : /\ request[th].op = "share"
                                     /\ request[th].target = u /\ request[th].expense = e

FindForShare(th, u, e, target, relation) ==
  /\ IsIdle(th)
  /\ e \in DOMAIN rows
  /\ request' = [q \in Threads |->
       IF q = th
         THEN [Idle EXCEPT !.op = "share", !.stage = "found", !.user = u,
                           !.expense = e, !.target = target, !.relation = relation]
         ELSE [request[q] EXCEPT
                 !.alone = @ /\ ~(request[q].target = target /\ request[q].expense = e)]]
  /\ removed' = removed \ {<<target, e>>}
  /\ UNCHANGED <<rows, tuples, made, owned>>

FindForUnshare(th, u, e, target) ==
  /\ IsIdle(th)
  /\ e \in DOMAIN rows
  /\ request' = [request EXCEPT ![th] =
                   [Idle EXCEPT !.op = "unshare", !.stage = "found", !.user = u,
                                !.expense = e, !.target = target,
                                !.alone = ~Sharing(target, e)]]
  /\ UNCHANGED <<rows, tuples, made, owned, removed>>

\* require(can_share): on, or 403.
RequireShare(th) ==
  /\ request[th].op \in {"share", "unshare"} /\ request[th].stage = "found"
  /\ IF Check(request[th].user, "can_share", request[th].expense)
       THEN Advance(th, "allowed") ELSE Finish(th)
  /\ UNCHANGED <<rows, tuples, made, owned, removed>>

ReadShares(th) ==
  /\ request[th].op \in {"share", "unshare"} /\ request[th].stage = "allowed"
  /\ request' = [request EXCEPT ![th].stage = "read",
                   ![th].seen = SharesOf(request[th].expense, request[th].target)]
  /\ UNCHANGED <<rows, tuples, made, owned, removed>>

\* authz.share_expense: nothing to do, or the other relation swapped for this one.
SwapDeletes_KeepOther(seen, relation) == {}  \* mutant
SwapDeletes(seen, relation) == seen

SwapShare(th) ==
  LET q == request[th]
      new == {<<q.target, q.relation, q.expense>>} IN
  /\ At(th, "share", "read")
  /\ IF new \subseteq q.seen THEN UNCHANGED tuples
     ELSE Write(new, SwapDeletes(q.seen, q.relation))
  /\ Finish(th)
  /\ UNCHANGED <<rows, made, owned, removed>>

\* authz.unshare_expense: what was read goes, if it is all still there.
UnshareDeletes_ViewerOnly(seen) == {t \in seen : t[2] = "viewer"}  \* mutant
UnshareDeletes(seen) == seen

RemoveShare(th) ==
  LET q == request[th] IN
  /\ At(th, "unshare", "read")
  /\ Write({}, UnshareDeletes(q.seen))
  /\ removed' = IF q.alone /\ Accepts({}, UnshareDeletes(q.seen))
                  THEN removed \cup {<<q.target, q.expense>>} ELSE removed
  /\ Finish(th)
  /\ UNCHANGED <<rows, made, owned>>

\* delete_expense: can_delete, then one transaction that reads the row (404 when
\* it is gone) and deletes it; two of them may both have read it.
CheckDelete(th, u, e) ==
  /\ IsIdle(th)
  /\ Check(u, "can_delete", e)
  /\ request' = [request EXCEPT ![th] = [Idle EXCEPT !.op = "delete", !.stage = "allowed",
                                                     !.user = u, !.expense = e]]
  /\ UNCHANGED <<rows, tuples, made, owned, removed>>

FindForDelete(th) ==
  /\ At(th, "delete", "allowed")
  /\ IF request[th].expense \in DOMAIN rows THEN Advance(th, "found") ELSE Finish(th)
  /\ UNCHANGED <<rows, tuples, made, owned, removed>>

DeleteOf_Lost(e) == UNCHANGED rows  \* mutant
DeleteOf(e) == rows' = [k \in DOMAIN rows \ {e} |-> rows[k]]

DeleteRow(th) ==
  /\ At(th, "delete", "found")
  /\ DeleteOf(request[th].expense)
  /\ Advance(th, "deleted")
  /\ UNCHANGED <<tuples, made, owned, removed>>

\* on_expense_deleted: read the tuples of the expense, then delete what was read.
\* read_tuples takes the first page for the whole: it never asks for the next one.
Page(S) == {P \in SUBSET S : \/ P = S /\ Cardinality(S) <= PageSize
                             \/ Cardinality(P) = PageSize}

Orphans_SharesOnly(e) == {t \in TuplesOf(e) : t[2] \in ShareRelations}  \* mutant
Orphans(e) == TuplesOf(e)

ReadOrphans(th) ==
  /\ At(th, "delete", "deleted")
  /\ \E page \in Page(Orphans(request[th].expense)) :
       request' = [request EXCEPT ![th].stage = "read", ![th].seen = page]
  /\ UNCHANGED <<rows, tuples, made, owned, removed>>

DeleteOrphans(th) ==
  /\ At(th, "delete", "read")
  /\ Write({}, request[th].seen)
  /\ Finish(th)
  /\ UNCHANGED <<rows, made, owned, removed>>

\* grant_admin and revoke_admin (auth.py): the caller must be an admin; the target
\* is checked, then written.
CheckAdmin(th, op, u, target) ==
  /\ IsIdle(th)
  /\ IsAdmin(u)
  /\ request' = [request EXCEPT ![th] = [Idle EXCEPT !.op = op, !.stage = "allowed",
                                                     !.user = u, !.target = target]]
  /\ UNCHANGED <<rows, tuples, made, owned, removed>>

CheckTarget(th) ==
  /\ request[th].op \in {"grant", "revoke"} /\ request[th].stage = "allowed"
  /\ IF IsAdmin(request[th].target) <=> request[th].op = "revoke"
       THEN Advance(th, "read") ELSE Finish(th)
  /\ UNCHANGED <<rows, tuples, made, owned, removed>>

WriteAdmin(th) ==
  LET role == {<<request[th].target, "admin", Org>>} IN
  /\ request[th].op \in {"grant", "revoke"} /\ request[th].stage = "read"
  /\ IF request[th].op = "grant" THEN Write(role, {}) ELSE Write({}, role)
  /\ Finish(th)
  /\ UNCHANGED <<rows, made, owned, removed>>

\* A round trip fails, or the process dies: the rest of the request is not done.
Fail(th) ==
  /\ MayFail
  /\ ~IsIdle(th)
  /\ Finish(th)
  /\ UNCHANGED <<rows, tuples, made, owned, removed>>

Step(th) ==
  \/ WriteOwner(th) \/ UpdateRow(th)
  \/ RequireShare(th) \/ ReadShares(th) \/ SwapShare(th) \/ RemoveShare(th)
  \/ FindForDelete(th) \/ DeleteRow(th) \/ ReadOrphans(th) \/ DeleteOrphans(th)
  \/ CheckTarget(th) \/ WriteAdmin(th)

Next ==
  \E th \in Threads :
    \/ Step(th)
    \/ Fail(th)
    \/ \E u \in Users, e \in Expenses :
         \/ InsertRow(th, u, e) \/ CheckEdit(th, u, e) \/ CheckDelete(th, u, e)
         \/ \E target \in Users :
              \/ FindForUnshare(th, u, e, target)
              \/ \E r \in ShareRelations : FindForShare(th, u, e, target, r)
    \/ \E u, target \in Users, op \in {"grant", "revoke"} : CheckAdmin(th, op, u, target)

\* A thread that serves a request is scheduled until the request ends.
Spec == Init /\ [][Next]_vars /\ \A th \in Threads : WF_vars(Step(th))

-----------------------------------------------------------------------------
\* Types: every tuple is one the model's type restrictions admit.
TypeOK ==
  /\ DOMAIN rows \subseteq made /\ \A e \in DOMAIN rows : rows[e] \in Users
  /\ tuples \subseteq Tuple
  /\ request \in [Threads -> Request]
  /\ made \subseteq Expenses /\ owned \subseteq Expenses
  /\ removed \subseteq Users \X Expenses

\* While an expense exists, no interleaving of shares, deletions and failures takes
\* from its creator the tuples its creation wrote (services/expense_services.py:131-150:
\* the row goes before the tuples do).
OwnerKeepsAccess ==
  \A e \in DOMAIN rows \cap owned : OwnerTuples(rows[e], e) \subseteq tuples

\* An unshare that succeeded with no share of the same pair overlapping it leaves the
\* target neither viewer nor editor until somebody begins to share again
\* (authz/service.py:142-150).
UnshareTakesEffect == \A p \in removed : SharesOf(p[2], p[1]) = {}

\* "if they have the other one (e.g. upgrading viewer -> editor), swap it"
\* (authz/service.py:123-126): nobody is viewer and editor of one expense at once.
OneShareEach == \A e \in Expenses, u \in Users : Cardinality(SharesOf(e, u)) <= 1

\* "deleting one removes every tuple referencing it (no orphaned permissions left
\* behind)" (README.md:509-510): once no request is in progress, every expense
\* tuple refers to a row that exists.
NoOrphans == (\A th \in Threads : IsIdle(th)) =>
                \A t \in tuples : t[3] = Org \/ t[3] \in DOMAIN rows

\* A request admitted by can_delete whose steps do not fail ends with no tuple of the
\* expense left (services/expense_services.py:131-150).
DeletionCompletes ==
  \A e \in Expenses : (e \in made \ DOMAIN rows) ~> (TuplesOf(e) = {})
=============================================================================
