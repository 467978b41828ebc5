------------------------- MODULE UserAccountsProofs -------------------------
(***************************************************************************)
(* Proofs about UserAccounts for any number of threads, accounts, addresses*)
(* and attempts.  The invariant says what each stage of a sign-up knows of *)
(* a table that others change under it.                                    *)
(***************************************************************************)
EXTENDS UserAccounts, TLAPS

USE ConstantsOK DEF ConstantsOK

FoldedRow(row) == row \in User /\ row.email \in Emails /\ Folded[row.email] = row.email
TableOK(table) == Unique(table) /\ \A i \in DOMAIN table : FoldedRow(table[i])

\* While a request looks for a username, the table has changed once for each attempt
\* before this one; when the insert is about to be refused, once more, unless the
\* address is what will refuse it.
Sound(q, table) ==
  /\ q \in Request
  /\ q.op = "none" <=> q.stage = "idle"
  /\ q.op # "none" =>
       /\ q.email \in Emails /\ Folded[q.email] = q.email
       /\ EmailUsed(table, q.email) => q.taken
       /\ q.attempt <= q.others + 1
       /\ q.stage = "inserting" =>
            /\ q.username \in Strings
            /\ q.attempt <= q.others \/ ~NameUsed(table, q.username)
       /\ q.stage = "refused" => q.attempt <= q.others \/ EmailUsed(table, q.email)

RequestsSound == \A th \in Threads : Sound(request[th], users)
AnswerOK == ConflictIsReal /\ FailsOnlyIfOutrun

AccountInv == TypeOK /\ TableOK(users) /\ RequestsSound /\ AnswerOK

-----------------------------------------------------------------------------
\* An idle thread claims nothing of the table.
LEMMA IdleSound == ASSUME NEW table PROVE Sound(Idle, table)
BY DEF Sound, Idle, Request

\* A request that lives through a change of the table stays sound for the new table.
LEMMA WitnessedSound ==
  ASSUME NEW q, NEW old, NEW new, Sound(q, old)
  PROVE  Sound(Witnessed(q, new), new)
<1>1. CASE q.op = "none"
  BY <1>1 DEF Sound, Witnessed
<1>2. CASE q.op # "none"
  <2> DEFINE n == IF q.others < MaxCreateAttempts THEN q.others + 1 ELSE q.others
             w == [q EXCEPT !.taken = @ \/ EmailUsed(new, q.email), !.others = n]
  <2>1. Witnessed(q, new) = w
    BY <1>2 DEF Witnessed
  <2>2. /\ q \in Request
        /\ q.attempt \in 1..MaxCreateAttempts /\ q.others \in 0..MaxCreateAttempts
    BY DEF Sound, Request
  <2>3. n \in 0..MaxCreateAttempts /\ q.attempt <= n
    BY <1>2, <2>2 DEF Sound
  <2>4. w \in Request
    BY <2>2, <2>3 DEF Request
  <2>5. /\ w.op = q.op /\ w.stage = q.stage /\ w.email = q.email
        /\ w.username = q.username /\ w.attempt = q.attempt /\ w.others = n
        /\ EmailUsed(new, q.email) => w.taken
    BY <2>2 DEF Request
  <2>6. w.attempt <= w.others + 1 /\ w.attempt <= w.others
    BY <2>2, <2>3, <2>5
  <2> HIDE DEF w
  <2> QED BY <1>2, <2>1, <2>4, <2>5, <2>6 DEF Sound
<1> QED BY <1>1, <1>2

\* A step of one thread that leaves the table alone disturbs no other request.
LEMMA OneRequest ==
  ASSUME AccountInv, users' = users, NEW th \in Threads, NEW q,
         request' = [request EXCEPT ![th] = q], Sound(q, users)
  PROVE  RequestsSound' /\ TableOK(users)' /\ request' \in [Threads -> Request]
BY DEF AccountInv, TypeOK, RequestsSound, Sound, TableOK, Unique, FoldedRow

\* A change of the table by one statement leaves every request sound.
LEMMA AllRequests ==
  ASSUME AccountInv, NEW th,
         request' = [t \in Threads |-> IF t = th THEN Idle ELSE Witnessed(request[t], users')]
  PROVE  RequestsSound' /\ request' \in [Threads -> Request]
<1>1. \A t \in Threads : Sound(Witnessed(request[t], users'), users')
  BY WitnessedSound DEF AccountInv, RequestsSound
<1>2. Sound(Idle, users')
  BY IdleSound
<1> QED BY <1>1, <1>2 DEF RequestsSound, Sound

\* Every request lives through a change of the table.
LEMMA AllWitness ==
  ASSUME AccountInv,
         request' = [t \in Threads |-> Witnessed(request[t], users')]
  PROVE  RequestsSound' /\ request' \in [Threads -> Request]
<1>1. \A t \in Threads : Sound(Witnessed(request[t], users'), users')
  BY WitnessedSound DEF AccountInv, RequestsSound
<1> QED BY <1>1 DEF RequestsSound, Sound

\* A step that answers nobody answers nobody wrongly.
LEMMA SilentOK == ASSUME Silently PROVE AnswerOK' /\ answer' \in Answer \cup {None}
BY DEF Silently, AnswerOK, ConflictIsReal, FailsOnlyIfOutrun

-----------------------------------------------------------------------------
(* The steps of a request.                                                   *)
LEMMA InitAccountInv == Init => AccountInv
<1> SUFFICES ASSUME Init PROVE AccountInv
  OBVIOUS
<1>1. RequestsSound
  BY IdleSound DEF Init, RequestsSound
<1>2. TypeOK /\ TableOK(users) /\ AnswerOK
  BY IdleSound DEF Init, TypeOK, TableOK, Unique, AnswerOK, ConflictIsReal,
                   FailsOnlyIfOutrun, Sound
<1> QED BY <1>1, <1>2 DEF AccountInv

\* A request begins on its first attempt, having seen no change.
LEMMA BeginStep ==
  ASSUME AccountInv, NEW th \in Threads, NEW op \in {"signup", "google"},
         NEW stage \in {"looking", "naming"}, NEW email \in Emails,
         Begin(th, op, stage, email)
  PROVE  AccountInv'
<1> DEFINE q == Started(op, stage, Folded[email])
<1>1. EmailUsed(users, Folded[email]) \in BOOLEAN
  BY DEF EmailUsed
<1>2. Folded[email] \in Emails /\ Folded[Folded[email]] = Folded[email]
  OBVIOUS
<1>3. Sound(q, users)
  BY <1>1, <1>2 DEF Started, Request, Sound
<1>4. users' = users /\ made' = made /\ request' = [request EXCEPT ![th] = q] /\ Silently
  BY DEF Begin
<1> HIDE DEF q
<1>5. RequestsSound' /\ TableOK(users)' /\ request' \in [Threads -> Request]
  BY <1>3, <1>4, OneRequest
<1> QED BY <1>4, <1>5, SilentOK DEF AccountInv, TypeOK, AnswerOK

\* What an answer says of its request, once the request's last step is known.
LEMMA RespondOK ==
  ASSUME AccountInv, NEW th \in Threads, request[th].op # "none",
         NEW code \in {"created", "found", "conflict", "failed"}, Respond(th, code),
         code \in {"found", "conflict"} => EmailUsed(users, request[th].email),
         code = "failed" => /\ request[th].stage = "refused"
                            /\ ~EmailUsed(users, request[th].email)
                            /\ request[th].attempt = MaxCreateAttempts
  PROVE  AnswerOK' /\ answer' \in Answer \cup {None}
<1> DEFINE q == request[th]
<1>1. Sound(q, users)
  BY DEF AccountInv, RequestsSound
<1>2. /\ q.op \in {"signup", "google"} /\ q.taken \in BOOLEAN
      /\ q.others \in 0..MaxCreateAttempts /\ q.attempt \in Nat
  BY <1>1 DEF Sound, Request
<1>3. answer' = [op |-> q.op, code |-> code, taken |-> q.taken, others |-> q.others]
  BY DEF Respond
<1>4. code \in {"found", "conflict"} => q.taken
  BY <1>1 DEF Sound
<1>5. code = "failed" => q.others >= MaxCreateAttempts
  BY <1>1, <1>2 DEF Sound
<1> HIDE DEF q
<1> QED BY <1>2, <1>3, <1>4, <1>5 DEF Answer, AnswerOK, ConflictIsReal, FailsOnlyIfOutrun

\* A Google sign-in finds the account of its address, or looks for a username.
LEMMA FindExistingStep ==
  ASSUME AccountInv, NEW th \in Threads, FindExisting(th)
  PROVE  AccountInv'
<1>1. Sound(request[th], users) /\ request[th].stage = "looking" /\ request[th].op # "none"
  BY DEF AccountInv, RequestsSound, FindExisting, At, Sound
<1>2. CASE EmailUsed(users, request[th].email)
  <2>1. RequestsSound' /\ TableOK(users)' /\ request' \in [Threads -> Request]
    BY <1>2, IdleSound, OneRequest DEF FindExisting
  <2>2. AnswerOK' /\ answer' \in Answer \cup {None}
    BY <1>1, <1>2, RespondOK DEF FindExisting
  <2> QED BY <2>1, <2>2 DEF AccountInv, TypeOK, FindExisting
<1>3. CASE ~EmailUsed(users, request[th].email)
  <2> DEFINE q == [request[th] EXCEPT !.stage = "naming"]
  <2>1. Sound(q, users)
    BY <1>1 DEF Sound, Request
  <2>2. request' = [request EXCEPT ![th] = q] /\ Silently
    BY <1>3 DEF FindExisting
  <2> HIDE DEF q
  <2>3. RequestsSound' /\ TableOK(users)' /\ request' \in [Threads -> Request]
    BY <2>1, <2>2, OneRequest DEF FindExisting
  <2> QED BY <2>2, <2>3, SilentOK DEF AccountInv, TypeOK, FindExisting
<1> QED BY <1>2, <1>3

\* A lookup that finds the candidate taken goes on to the next suffix.
LEMMA TryCandidateStep ==
  ASSUME AccountInv, NEW th \in Threads, TryCandidate(th)
  PROVE  AccountInv'
<1> DEFINE name == Candidate[<<request[th].email, request[th].suffix>>]
           next == [request[th] EXCEPT !.suffix = request[th].suffix + 1]
           free == [request[th] EXCEPT !.stage = "inserting", !.username = name]
<1>1. Sound(request[th], users) /\ request[th].stage = "naming" /\ request[th].op # "none"
  BY DEF AccountInv, RequestsSound, TryCandidate, At, Sound
<1>2. name \in Strings /\ name # None
  BY <1>1 DEF Sound, Request
<1>3. CASE NameUsed(users, name)
  <2>1. request[th].suffix < MaxSuffix /\ request' = [request EXCEPT ![th] = next]
    BY <1>3 DEF TryCandidate
  <2>2. Sound(next, users)
    BY <1>1, <2>1 DEF Sound, Request
  <2> HIDE DEF next
  <2>3. RequestsSound' /\ TableOK(users)' /\ request' \in [Threads -> Request]
    BY <2>1, <2>2, OneRequest DEF TryCandidate
  <2> QED BY <2>3, SilentOK DEF AccountInv, TypeOK, TryCandidate
<1>4. CASE ~NameUsed(users, name)
  <2>1. request' = [request EXCEPT ![th] = free]
    BY <1>4 DEF TryCandidate
  <2> HIDE DEF name
  <2>2. Sound(free, users)
    BY <1>1, <1>2, <1>4 DEF Sound, Request
  <2> HIDE DEF free
  <2>3. RequestsSound' /\ TableOK(users)' /\ request' \in [Threads -> Request]
    BY <2>1, <2>2, OneRequest DEF TryCandidate
  <2> QED BY <2>3, SilentOK DEF AccountInv, TypeOK, TryCandidate
<1> QED BY <1>3, <1>4

\* An insert that is refused although its username was free is refused for the address.
LEMMA RefusedForAddress ==
  ASSUME NEW table, Unique(table), NEW id, id \notin DOMAIN table, NEW row,
         ~Unique([i \in DOMAIN table \cup {id} |-> IF i = id THEN row ELSE table[i]]),
         ~NameUsed(table, row.username)
  PROVE  EmailUsed(table, row.email)
<1> DEFINE new == [i \in DOMAIN table \cup {id} |-> IF i = id THEN row ELSE table[i]]
<1>1. PICK i, j \in DOMAIN table \cup {id} :
         /\ new[i].username = new[j].username \/ new[i].email = new[j].email
         /\ i # j
  BY DEF Unique
<1>2. ~(i \in DOMAIN table /\ j \in DOMAIN table)
  BY <1>1 DEF Unique
<1>3. PICK k \in DOMAIN table :
         table[k].username = row.username \/ table[k].email = row.email
  BY <1>1, <1>2
<1> QED BY <1>3 DEF NameUsed, EmailUsed

\* The insert is refused by a row that came after the lookup, or by the address.
LEMMA InsertUserStep ==
  ASSUME AccountInv, NEW th \in Threads, NEW id \in Ids, InsertUser(th, id)
  PROVE  AccountInv'
<1> DEFINE row == [username |-> request[th].username, email |-> request[th].email]
           new == [i \in DOMAIN users \cup {id} |-> IF i = id THEN row ELSE users[i]]
           q == [request[th] EXCEPT !.stage = "refused"]
<1>1. Sound(request[th], users) /\ request[th].stage = "inserting" /\ request[th].op # "none"
  BY DEF AccountInv, RequestsSound, InsertUser, At, Sound
<1>2. FoldedRow(row)
  BY <1>1 DEF Sound, FoldedRow, User
<1>3. id \notin DOMAIN users /\ TableOK(users) /\ made \subseteq Ids /\ DOMAIN users \subseteq made
  BY DEF InsertUser, AccountInv, TypeOK
<1>4. CASE Unique(new)
  <2>1. users' = new /\ made' = made \cup {id} /\ Respond(th, "created")
    BY <1>4 DEF InsertUser
  <2>2. request' = [t \in Threads |-> IF t = th THEN Idle ELSE Witnessed(request[t], users')]
    BY <1>4, <2>1 DEF InsertUser
  <2>3. RequestsSound' /\ request' \in [Threads -> Request]
    BY <2>2, AllRequests
  <2>4. DOMAIN new = DOMAIN users \cup {id} /\ \A i \in DOMAIN new : FoldedRow(new[i])
    <3> HIDE DEF row
    <3> QED BY <1>2, <1>3 DEF TableOK
  <2> HIDE DEF new
  <2>5. TableOK(users)'
    BY <1>4, <2>1, <2>4 DEF TableOK, Unique, FoldedRow
  <2>6. /\ DOMAIN users' \subseteq made' /\ \A i \in DOMAIN users' : users'[i] \in User
        /\ made' \subseteq Ids
    BY <1>3, <2>1, <2>4 DEF FoldedRow
  <2>7. AnswerOK' /\ answer' \in Answer \cup {None}
    BY <1>1, <2>1, RespondOK
  <2> QED BY <2>3, <2>5, <2>6, <2>7 DEF AccountInv, TypeOK
<1>5. CASE ~Unique(new)
  <2>1. users' = users /\ made' = made /\ Silently /\ request' = [request EXCEPT ![th] = q]
    BY <1>5 DEF InsertUser
  <2>2. request[th].attempt <= request[th].others \/ EmailUsed(users, request[th].email)
    <3>1. CASE NameUsed(users, request[th].username)
      BY <1>1, <3>1 DEF Sound
    <3>2. CASE ~NameUsed(users, request[th].username)
      <4>1. row.username = request[th].username /\ row.email = request[th].email
        OBVIOUS
      <4> HIDE DEF row
      <4> QED BY <1>3, <1>5, <3>2, <4>1, RefusedForAddress DEF TableOK
    <3> QED BY <3>1, <3>2
  <2>3. Sound(q, users)
    BY <1>1, <2>2 DEF Sound, Request
  <2> HIDE DEF q
  <2>4. RequestsSound' /\ TableOK(users)' /\ request' \in [Threads -> Request]
    BY <2>1, <2>3, OneRequest
  <2> QED BY <2>1, <2>4, SilentOK DEF AccountInv, TypeOK
<1> QED BY <1>4, <1>5

\* The second lookup tells the two apart; a retry has seen one change more.
LEMMA ExamineRefusalStep ==
  ASSUME AccountInv, NEW th \in Threads, ExamineRefusal(th)
  PROVE  AccountInv'
<1>1. /\ Sound(request[th], users) /\ request[th].stage = "refused"
      /\ request[th].op # "none" /\ users' = users /\ made' = made
  BY DEF AccountInv, RequestsSound, ExamineRefusal, At, Sound
<1>2. CASE ~Lost(request[th]) /\ Retries(request[th])
  <2> DEFINE n == request[th].attempt + 1
             q == [request[th] EXCEPT !.stage = "naming", !.suffix = 1, !.attempt = n]
  <2>1. request' = [request EXCEPT ![th] = q] /\ Silently
    BY <1>2 DEF ExamineRefusal
  <2>2. n \in 1..MaxCreateAttempts /\ n <= request[th].others + 1
    BY <1>1, <1>2 DEF Lost, Retries, Sound, Request
  <2> HIDE DEF n
  <2>3. Sound(q, users)
    <3>1. request[th] \in Request /\ 1 \in 1..MaxSuffix
      BY <1>1 DEF Sound
    <3>2. q \in Request
      BY <2>2, <3>1 DEF Request
    <3>3. /\ q.op = request[th].op /\ q.stage = "naming" /\ q.email = request[th].email
          /\ q.taken = request[th].taken /\ q.others = request[th].others /\ q.attempt = n
      BY <3>1 DEF Request
    <3> HIDE DEF q
    <3> QED BY <1>1, <2>2, <3>2, <3>3 DEF Sound
  <2> HIDE DEF q
  <2>4. RequestsSound' /\ TableOK(users)' /\ request' \in [Threads -> Request]
    BY <1>1, <2>1, <2>3, OneRequest
  <2> QED BY <1>1, <2>1, <2>4, SilentOK DEF AccountInv, TypeOK
<1>3. CASE Lost(request[th]) \/ ~Retries(request[th])
  <2> DEFINE code == IF ~Lost(request[th]) THEN "failed"
                     ELSE IF request[th].op = "signup" THEN "conflict" ELSE "found"
  <2>1. Respond(th, code) /\ request' = [request EXCEPT ![th] = Idle]
    BY <1>3 DEF ExamineRefusal
  <2>2. /\ code \in {"found", "conflict", "failed"}
        /\ code \in {"found", "conflict"} => EmailUsed(users, request[th].email)
        /\ code = "failed" => /\ ~EmailUsed(users, request[th].email)
                              /\ request[th].attempt = MaxCreateAttempts
    BY <1>1, <1>3 DEF Lost, Retries, Sound, Request
  <2> HIDE DEF code
  <2>3. RequestsSound' /\ TableOK(users)' /\ request' \in [Threads -> Request]
    BY <1>1, <2>1, IdleSound, OneRequest
  <2>4. AnswerOK' /\ answer' \in Answer \cup {None}
    BY <1>1, <2>1, <2>2, RespondOK
  <2> QED BY <1>1, <2>3, <2>4 DEF AccountInv, TypeOK
<1> QED BY <1>2, <1>3 DEF ExamineRefusal

\* A request that ends early is idle.
LEMMA AbortStep ==
  ASSUME AccountInv, NEW th \in Threads, Abort(th)
  PROVE  AccountInv'
<1>1. RequestsSound' /\ TableOK(users)' /\ request' \in [Threads -> Request]
  BY IdleSound, OneRequest DEF Abort
<1> QED BY <1>1, SilentOK DEF Abort, AccountInv, TypeOK

-----------------------------------------------------------------------------
(* The steps on an existing account.                                         *)
LEMMA UpdateUserStep ==
  ASSUME AccountInv, NEW id \in DOMAIN users, NEW name \in Strings, NEW email \in Emails,
         Folded[email] = email, UpdateUser(id, name, email)
  PROVE  AccountInv'
<1> DEFINE row == [username |-> name, email |-> email]
           new == [users EXCEPT ![id] = row]
<1>1. users' = new /\ Unique(new) /\ made' = made /\ Silently
      /\ request' = [t \in Threads |-> Witnessed(request[t], users')]
  BY DEF UpdateUser
<1>2. RequestsSound' /\ request' \in [Threads -> Request]
  BY <1>1, AllWitness
<1>3. FoldedRow(row)
  BY DEF FoldedRow, User
<1>4. DOMAIN new = DOMAIN users /\ \A i \in DOMAIN new : new[i] = row \/ new[i] = users[i]
  OBVIOUS
<1>5. TableOK(new)
  <2> HIDE DEF row, new
  <2> QED BY <1>1, <1>3, <1>4 DEF TableOK, AccountInv
<1> HIDE DEF new
<1>6. TableOK(users)' /\ DOMAIN users' \subseteq made' /\ made' \subseteq Ids
      /\ \A i \in DOMAIN users' : users'[i] \in User
  BY <1>1, <1>4, <1>5 DEF TableOK, FoldedRow, Unique, AccountInv, TypeOK
<1> QED BY <1>1, <1>2, <1>6, SilentOK DEF AccountInv, TypeOK

\* A deletion changes the table under everybody else.
LEMMA DeleteUserStep ==
  ASSUME AccountInv, NEW id \in Ids, DeleteUser(id)
  PROVE  AccountInv'
<1> DEFINE new == [i \in DOMAIN users \ {id} |-> users[i]]
<1>1. users' = new /\ made' = made /\ Silently
      /\ request' = [t \in Threads |-> Witnessed(request[t], users')]
  BY DEF DeleteUser
<1>2. RequestsSound' /\ request' \in [Threads -> Request]
  BY <1>1, AllWitness
<1>3. TableOK(users)' /\ DOMAIN users' \subseteq made' /\ made' \subseteq Ids
      /\ \A i \in DOMAIN users' : users'[i] \in User
  BY <1>1 DEF TableOK, FoldedRow, Unique, AccountInv, TypeOK
<1> QED BY <1>1, <1>2, <1>3, SilentOK DEF AccountInv, TypeOK

\* AccountInv is inductive.
LEMMA NextAccountInv == AccountInv /\ [Next]_vars => AccountInv'
<1> SUFFICES ASSUME AccountInv, [Next]_vars PROVE AccountInv'
  OBVIOUS
<1>1. ASSUME NEW th \in Threads, NEW e \in Emails, SignUp(th, e) \/ GoogleSignIn(th, e)
      PROVE  AccountInv'
  BY <1>1, BeginStep DEF SignUp, GoogleSignIn
<1>2. ASSUME NEW th \in Threads, FindExisting(th) PROVE AccountInv'
  BY <1>2, FindExistingStep
<1>3. ASSUME NEW th \in Threads, TryCandidate(th) PROVE AccountInv'
  BY <1>3, TryCandidateStep
<1>4. ASSUME NEW th \in Threads, NEW id \in Ids, InsertUser(th, id) PROVE AccountInv'
  BY <1>4, InsertUserStep
<1>5. ASSUME NEW th \in Threads, ExamineRefusal(th) \/ Abort(th) PROVE AccountInv'
  BY <1>5, ExamineRefusalStep, AbortStep
<1>6. ASSUME NEW id \in DOMAIN users, NEW n \in NewNames, UpdateUser(id, n, users[id].email)
      PROVE  AccountInv'
  <2>1. n \in Strings /\ FoldedRow(users[id])
    BY DEF AccountInv, TableOK
  <2> QED BY <1>6, <2>1, UpdateUserStep DEF FoldedRow
<1>7. ASSUME NEW id \in DOMAIN users, NEW e \in Emails,
             UpdateUser(id, users[id].username, StoredEmail(e))
      PROVE  AccountInv'
  <2>1. users[id].username \in Strings
    BY DEF AccountInv, TypeOK, User
  <2>2. Folded[e] \in Emails /\ Folded[Folded[e]] = Folded[e]
    OBVIOUS
  <2> QED BY <1>7, <2>1, <2>2, UpdateUserStep DEF StoredEmail
<1>8. ASSUME NEW id \in Ids, DeleteUser(id) PROVE AccountInv'
  BY <1>8, DeleteUserStep
<1>9. CASE UNCHANGED vars
  <2>1. users' = users /\ request' = request /\ made' = made /\ answer' = answer
    BY <1>9 DEF vars
  <2> QED BY <2>1 DEF AccountInv, TypeOK, TableOK, Unique, RequestsSound, Sound,
                      EmailUsed, NameUsed, FoldedRow, AnswerOK, ConflictIsReal,
                      FailsOnlyIfOutrun
<1> QED BY <1>1, <1>2, <1>3, <1>4, <1>5, <1>6, <1>7, <1>8, <1>9 DEF Next

\* The invariant holds of every behaviour.
LEMMA AccountInvariant == Spec => []AccountInv
BY InitAccountInv, NextAccountInv, PTL DEF Spec

-----------------------------------------------------------------------------
\* Rows and requests have their types (models/user_model.py:20-24).
THEOREM TypeCorrect == Spec => []TypeOK
<1>1. AccountInv => TypeOK
  BY DEF AccountInv
<1> QED BY <1>1, AccountInvariant, PTL

\* Accounts never share an address up to case, whoever wrote the rows and whatever raced
\* (models/user_model.py:62-71, 108-113, 179-182).
THEOREM AddressesNameAccounts == Spec => []OneAccountPerAddress
<1>1. AccountInv => OneAccountPerAddress
  BY DEF AccountInv, TableOK, FoldedRow, Unique, OneAccountPerAddress
<1> QED BY <1>1, AccountInvariant, PTL

\* An address typed in any case finds the account that has it
\* (models/user_model.py:239-255).
THEOREM AddressesFindAccounts == Spec => []AddressFindsAccount
<1>1. AccountInv => AddressFindsAccount
  BY DEF AccountInv, TableOK, FoldedRow, Unique, AddressFindsAccount, Matching
<1> QED BY <1>1, AccountInvariant, PTL

\* A request refused as a duplicate met an account with its address
\* (models/user_model.py:92-97, 145-150).
THEOREM ConflictsAreReal == Spec => []ConflictIsReal
<1>1. AccountInv => ConflictIsReal
  BY DEF AccountInv, AnswerOK
<1> QED BY <1>1, AccountInvariant, PTL

\* A request gives up only when the table has changed once for each of its attempts
\* (models/user_model.py:98-103, 151-156).
THEOREM GivesUpOnlyOutrun == Spec => []FailsOnlyIfOutrun
<1>1. AccountInv => FailsOnlyIfOutrun
  BY DEF AccountInv, AnswerOK
<1> QED BY <1>1, AccountInvariant, PTL
=============================================================================
