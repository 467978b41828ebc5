---------------------------- MODULE UserAccounts ----------------------------
(***************************************************************************)
(* The users table (models/user_model.py): signing up with an e-mail,      *)
(* signing in through Google (find or create), changing and deleting an    *)
(* account, and looking one up to log in.  Every route is a plain `def` on *)
(* a threadpool thread: a sign-up looks for a free username, inserts, and  *)
(* looks again when the insert is refused, and others commit between any   *)
(* two of these.  The unique columns are the only thing that serialises    *)
(* them, and they compare strings exactly, as Postgres does.               *)
(***************************************************************************)
EXTENDS Naturals

CONSTANTS Threads, Ids,
          Strings,            \* whatever may be typed as an e-mail or a username
          Emails,             \* the strings that are e-mail addresses
          NewNames,           \* the usernames updates choose (bound)
          Folded,             \* s.lower()
          Candidate,          \* <<folded e-mail, suffix>> -> username derived from it
          MaxSuffix,          \* the last suffix tried (bound)
          MaxCreateAttempts,
          None

ASSUME ConstantsOK ==
  /\ Emails \subseteq Strings /\ NewNames \subseteq Strings
  /\ Folded \in [Strings -> Strings]
  /\ \A s \in Strings : Folded[Folded[s]] = Folded[s]
  /\ \A s \in Emails : Folded[s] \in Emails
  /\ MaxSuffix \in Nat \ {0}
  /\ MaxCreateAttempts \in Nat \ {0}
  /\ Candidate \in [Emails \X (1..MaxSuffix) -> Strings]
  /\ None \notin Strings

VARIABLES users,     \* id -> [username, email]
          request,   \* the sign-up or Google sign-in each thread executes
          made,      \* ids the autoincrement column has given out
          answer     \* how a request ended in the step just taken, or None

vars == <<users, request, made, answer>>

User == [username: Strings, email: Strings]

\* "looking": Google only; "naming": trying candidate usernames; "inserting": one was
\* free when it was looked up; "refused": the insert broke a unique column.
Request == [op: {"none", "signup", "google"},
            stage: {"idle", "looking", "naming", "inserting", "refused"},
            email: Emails \cup {None}, username: Strings \cup {None},
            suffix: 1..MaxSuffix, attempt: 1..MaxCreateAttempts,
            taken: BOOLEAN,               \* history: the address was in use at some moment
            others: 0..MaxCreateAttempts] \* history: commits of others meanwhile, capped

Answer == [op: {"signup", "google"}, code: {"created", "found", "conflict", "failed"},
           taken: BOOLEAN, others: 0..MaxCreateAttempts]

Idle == [op |-> "none", stage |-> "idle", email |-> None, username |-> None,
         suffix |-> 1, attempt |-> 1, taken |-> FALSE, others |-> 0]

At(th, stage) == request[th].stage = stage
EmailUsed(table, e) == \E i \in DOMAIN table : table[i].email = e
NameUsed(table, n) == \E i \in DOMAIN table : table[i].username = n

\* The table becomes `table`, unless a unique column is violated.
Unique(table) ==
  \A i, j \in DOMAIN table :
    table[i].username = table[j].username \/ table[i].email = table[j].email => i = j

\* What the requests of the other threads live through when the table becomes `table`.
Witnessed(q, table) ==
  IF q.op = "none" THEN q
  ELSE [q EXCEPT !.taken = @ \/ EmailUsed(table, q.email),
                 !.others = IF @ < MaxCreateAttempts THEN @ + 1 ELSE @]

Silently == answer' = None

Respond(th, code) ==
  LET q == request[th] IN
  answer' = [op |-> q.op, code |-> code, taken |-> q.taken, others |-> q.others]

-----------------------------------------------------------------------------
Init ==
  /\ users = [i \in {} |-> None]
  /\ request = [th \in Threads |-> Idle]
  /\ made = {} /\ answer = None

Started(op, stage, email) ==
  [op |-> op, stage |-> stage, email |-> email, username |-> None, suffix |-> 1,
   attempt |-> 1, taken |-> EmailUsed(users, email), others |-> 0]

\* create_user and find_or_create_by_email fold the address they are given.
Begin(th, op, stage, email) ==
  /\ At(th, "idle")
  /\ request' = [request EXCEPT ![th] = Started(op, stage, Folded[email])]
  /\ Silently /\ UNCHANGED <<users, made>>

SignUp(th, email) == Begin(th, "signup", "naming", email)
GoogleSignIn(th, email) == Begin(th, "google", "looking", email)

\* find_or_create_by_email: an account with this address is signed in to.  The
\* picture refreshed on the way is left out.
FindExisting(th) ==
  /\ At(th, "looking")
  /\ IF EmailUsed(users, request[th].email)
       THEN /\ Respond(th, "found")
            /\ request' = [request EXCEPT ![th] = Idle]
       ELSE /\ request' = [request EXCEPT ![th].stage = "naming"]
            /\ Silently
  /\ UNCHANGED <<users, made>>

\* One turn of generate_username_from_email's loop.
TryCandidate(th) ==
  LET q == request[th]
      name == Candidate[<<q.email, q.suffix>>] IN
  /\ At(th, "naming")
  /\ IF NameUsed(users, name)
       THEN /\ q.suffix < MaxSuffix
            /\ request' = [request EXCEPT ![th].suffix = q.suffix + 1]
       ELSE request' = [request EXCEPT ![th].stage = "inserting", ![th].username = name]
  /\ Silently /\ UNCHANGED <<users, made>>

\* The insert commits, or a unique column refuses it.
InsertUser(th, id) ==
  LET q == request[th]
      new == [i \in DOMAIN users \cup {id} |->
                IF i = id THEN [username |-> q.username, email |-> q.email] ELSE users[i]] IN
  /\ At(th, "inserting")
  /\ id \in Ids \ made
  /\ IF Unique(new)
       THEN /\ users' = new
            /\ made' = made \cup {id}
            /\ Respond(th, "created")
            /\ request' = [t \in Threads |-> IF t = th THEN Idle
                                             ELSE Witnessed(request[t], new)]
       ELSE /\ request' = [request EXCEPT ![th].stage = "refused"]
            /\ Silently /\ UNCHANGED <<users, made>>

\* The address is looked up again: it is in use (409 for a sign-up, the winner's
\* account for Google), or it was the username, and another one is tried.
Lost_AnyRefusal(q) == TRUE  \* mutant
Lost(q) == EmailUsed(users, q.email)
Retries_OneFewer(q) == q.attempt + 1 < MaxCreateAttempts  \* mutant
Retries_OneMore(q) == q.attempt <= MaxCreateAttempts  \* mutant
Retries(q) == q.attempt < MaxCreateAttempts

ExamineRefusal(th) ==
  LET q == request[th] IN
  /\ At(th, "refused")
  /\ \/ /\ ~Lost(q) /\ Retries(q)
        /\ request' = [request EXCEPT ![th].stage = "naming", ![th].suffix = 1,
                                      ![th].attempt = q.attempt + 1]
        /\ Silently
     \/ /\ Lost(q) \/ ~Retries(q)
        /\ Respond(th, IF ~Lost(q) THEN "failed"
                       ELSE IF q.op = "signup" THEN "conflict" ELSE "found")
        /\ request' = [request EXCEPT ![th] = Idle]
  /\ UNCHANGED <<users, made>>

\* The request dies: an exception, or the end of the process.
Abort(th) ==
  /\ ~At(th, "idle")
  /\ request' = [request EXCEPT ![th] = Idle]
  /\ Silently /\ UNCHANGED <<users, made>>

\* update_user and update_partial_user: the address is folded, the username is
\* stored as it comes; an update that breaks a unique column is refused.  One field
\* at a time.
StoredEmail_AsTyped(s) == s  \* mutant
StoredEmail(s) == Folded[s]

UpdateUser(id, name, email) ==
  LET new == [users EXCEPT ![id] = [username |-> name, email |-> email]] IN
  /\ id \in DOMAIN users
  /\ name # users[id].username \/ email # users[id].email
  /\ Unique(new)
  /\ users' = new
  /\ request' = [t \in Threads |-> Witnessed(request[t], new)]
  /\ Silently /\ UNCHANGED made

DeleteUser(id) ==
  LET new == [i \in DOMAIN users \ {id} |-> users[i]] IN
  /\ id \in DOMAIN users
  /\ users' = new
  /\ request' = [t \in Threads |-> Witnessed(request[t], new)]
  /\ Silently /\ UNCHANGED made

Next ==
  \/ \E th \in Threads :
       \/ \E e \in Emails : SignUp(th, e) \/ GoogleSignIn(th, e)
       \/ FindExisting(th) \/ TryCandidate(th)
       \/ \E id \in Ids : InsertUser(th, id)
       \/ ExamineRefusal(th) \/ Abort(th)
  \/ \E id \in DOMAIN users :
       \/ \E n \in NewNames : UpdateUser(id, n, users[id].email)
       \/ \E e \in Emails : UpdateUser(id, users[id].username, StoredEmail(e))
  \/ \E id \in Ids : DeleteUser(id)

Spec == Init /\ [][Next]_vars

-----------------------------------------------------------------------------
\* Types: rows and requests have the fields the code gives them.
TypeOK ==
  /\ DOMAIN users \subseteq made /\ \A i \in DOMAIN users : users[i] \in User
  /\ made \subseteq Ids
  /\ request \in [Threads -> Request]
  /\ answer \in Answer \cup {None}

\* No two accounts have addresses that differ in case only, whichever of sign-up,
\* Google and updates wrote them (models/user_model.py:62-71, 179-183).
OneAccountPerAddress ==
  \A i, j \in DOMAIN users : Folded[users[i].email] = Folded[users[j].email] => i = j

\* The rows authenticate_user's query matches; it takes the first of them.
Matching_AsTyped(s) ==  \* mutant
  {i \in DOMAIN users : users[i].username = s \/ users[i].email = s}
Matching(s) ==
  {i \in DOMAIN users : users[i].username = Folded[s] \/ users[i].email = Folded[s]}

\* However an account's address was typed, then and now, logging in with it finds the
\* account (models/user_model.py:243-249).
AddressFindsAccount ==
  \A s \in Emails, i \in DOMAIN users :
    Folded[s] = Folded[users[i].email] => i \in Matching(s)

\* A sign-up that is told its address is in use was not merely unlucky with its
\* username: an account had the address at some moment of the request
\* (models/user_model.py:92-100).
ConflictIsReal == answer # None /\ answer.code \in {"conflict", "found"} => answer.taken

\* A request gives up only when others have changed the table once for each of its
\* attempts (models/user_model.py:51-57, 101-103, 154-156).
FailsOnlyIfOutrun ==
  answer # None /\ answer.code = "failed" => answer.others >= MaxCreateAttempts
=============================================================================
