--------------------------- MODULE StartupProofs ---------------------------
(***************************************************************************)
(* Proofs about Startup for any number of processes, attempts and kills.   *)
(* The invariant says what a process knows of the secret's file and of the *)
(* stores at each stage; the part about starts in turn holds as long as    *)
(* nothing has crossed.                                                    *)
(***************************************************************************)
EXTENDS Startup, FiniteSetTheorems, TLAPS

Things == {"tables", "column", "types", "issuer"}
Posting == {p \in Procs : proc[p].stage = "post store"}
Sited == {"model", "post model", "admin", "grant admin", "issuer", "add issuer", "serving"}
Secured == {"tables", "create tables", "column", "add column", "types", "convert", "healthz",
            "store", "post store"} \cup Sited

\* A process gives up before its last attempt is exceeded, writes to a store there is, and
\* posts a store only if it found none: there are no more than processes.
TypeInv ==
  /\ TypeOK
  /\ \A p \in Procs : /\ proc[p].attempt < MaxAttempts
                      /\ proc[p].stage \in Sited => proc[p].store \in 1..stores
  /\ stores + Cardinality(Posting) <= Cardinality(Procs)

\* One process fills the secret's file, and it is blank until then.
FillInv ==
  /\ \A p \in Procs : At(p, "fill") => file = "blank"
  /\ \A p, q \in Procs : At(p, "fill") /\ At(q, "fill") => p = q

\* What a process in the state q knows when it started in its turn.
Knows(q, f, n) ==
  /\ q.stage = "create" => f = "none"
  /\ q.stage = "read" => f \in Secrets
  /\ q.stage \in Secured => q.secret = f /\ f \in Secrets
  /\ q.stage = "post store" => n = 0
  /\ q.stage \in Sited => q.store = 1 /\ n = 1

TurnInv ==
  ~crossed => /\ stores <= 1
              /\ \A p, q \in Procs : Starting(p) /\ Starting(q) => p = q
              /\ file = "blank" => \E p \in Procs : At(p, "fill")
              /\ \A p \in Procs : Knows(proc[p], file, stores)

StartInv == TypeInv /\ FillInv /\ TurnInv

-----------------------------------------------------------------------------
\* Sets of processes are finite and no larger than the set of all.
LEMMA Counts ==
  /\ Cardinality(Procs) \in Nat
  /\ \A S \in SUBSET Procs : IsFiniteSet(S) /\ Cardinality(S) \in Nat
                             /\ Cardinality(S) <= Cardinality(Procs)
<1>1. IsFiniteSet(Procs)
  BY ConstantsOK
<1>2. \A S \in SUBSET Procs : IsFiniteSet(S)
  BY <1>1, FS_Subset
<1> QED BY <1>1, <1>2, FS_Subset, FS_CardinalityType

\* What is within a bound is a number.
LEMMA InRange == \A c \in Nat : \A x \in 0..c : x \in Nat
OBVIOUS

\* One more than none is one.
LEMMA OneMore == \A n, m : (n = 0 /\ m = n + 1 => m = 1 /\ n # 1) /\ (m = 1 => m <= 1)
OBVIOUS

\* At first no process runs, and an earlier deployment left at most one store.
LEMMA InitStartInv == Init => StartInv
<1> SUFFICES ASSUME Init PROVE StartInv
  OBVIOUS
<1>1. \A p \in Procs : /\ proc[p].stage = "down" /\ proc[p].attempt = 0
                       /\ proc[p] = Down
  BY DEF Init, Down
<1>2. Down \in Process
  BY Counts, ConstantsOK DEF Down, Process, Stages
<1>3. Posting = {}
  BY <1>1 DEF Posting
<1>4. stores \in {0, 1} /\ models \subseteq 1..stores /\ admins = {}
  BY DEF Init
<1>5. 1 <= Cardinality(Procs) /\ Cardinality(Posting) = 0
  <2>1. Cardinality(Posting) = 0
    BY <1>3, FS_EmptySet
  <2>2. Cardinality(Procs) # 0
    BY FS_EmptySet, ConstantsOK
  <2> QED BY <2>1, <2>2, Counts
<1>6. TypeOK
  <2>1. /\ file \in Secrets \cup {"none", "blank"} /\ proc \in [Procs -> Process]
        /\ present \subseteq {"tables", "column", "types", "issuer"}
        /\ account \in BOOLEAN /\ up \in BOOLEAN /\ crossed \in BOOLEAN
    BY <1>2 DEF Init, Secrets
  <2>2. stores \in 0..Cardinality(Procs) /\ deaths \in 0..MaxDeaths
    BY <1>4, <1>5, Counts, ConstantsOK DEF Init
  <2> QED BY <1>4, <2>1, <2>2 DEF TypeOK
<1>7. TypeInv
  <2>1. stores + Cardinality(Posting) <= Cardinality(Procs)
    <3>1. Cardinality(Procs) \in Nat /\ stores \in Nat /\ stores <= 1
      BY <1>4, Counts
    <3> QED BY <1>5, <3>1
  <2>2. \A p \in Procs : proc[p].attempt < MaxAttempts /\ proc[p].stage \notin Sited
    <3>1. 0 < MaxAttempts
      BY ConstantsOK
    <3> QED BY <1>1, <3>1 DEF Sited
  <2> QED BY <1>6, <2>1, <2>2 DEF TypeInv
<1>8. FillInv
  BY <1>1 DEF FillInv, At
<1>9. TurnInv
  <2>1. \A p \in Procs : ~Starting(p) /\ Knows(proc[p], file, stores)
    BY <1>1 DEF Starting, At, Knows, Secured, Sited
  <2>2. file # "blank" /\ stores <= 1
    BY <1>4, ConstantsOK DEF Init
  <2> QED BY <2>1, <2>2 DEF TurnInv
<1> QED BY <1>7, <1>8, <1>9 DEF StartInv

\* Where a process may come to: q, after a step of p.
LEMMA Turn ==
  ASSUME StartInv, NEW p \in Procs, NEW q \in Process, proc' = [proc EXCEPT ![p] = q]
  PROVE  /\ proc' \in [Procs -> Process] /\ proc'[p] = q
         /\ \A o \in Procs : o # p => proc'[o] = proc[o]
BY DEF StartInv, TypeInv, TypeOK

\* Once there is a store nobody joins those about to make one.
LEMMA Bounded ==
  ASSUME NEW n \in Nat, NEW P \in SUBSET Procs, NEW Q \in SUBSET Procs,
         n + Cardinality(P) <= Cardinality(Procs), n = 0 \/ Q \subseteq P
  PROVE  n + Cardinality(Q) <= Cardinality(Procs)
<1>1. Cardinality(Procs) \in Nat /\ Cardinality(P) \in Nat /\ Cardinality(Q) \in Nat
  BY Counts
<1>2. Cardinality(Q) <= Cardinality(Procs)
  BY Counts
<1>3. Q \subseteq P => Cardinality(Q) <= Cardinality(P)
  <2>1. IsFiniteSet(P)
    BY Counts
  <2>2. Q \subseteq P => Q \in SUBSET P
    OBVIOUS
  <2> QED BY <2>1, <2>2, FS_Subset
<1>4. CASE n = 0
  BY <1>1, <1>2, <1>4
<1>5. CASE Q \subseteq P
  <2>1. \A x, y, z \in Nat : n + x <= z /\ y <= x => n + y <= z
    OBVIOUS
  <2> QED BY <1>1, <1>3, <1>5, <2>1
<1> QED BY <1>4, <1>5

\* The processes that are about to post a store become more only while there is none.
LEMMA PostBound ==
  ASSUME StartInv, NEW p \in Procs, NEW q \in Process, proc' = [proc EXCEPT ![p] = q],
         stores' = stores, q.stage = "post store" => stores = 0
  PROVE  stores' + Cardinality(Posting') <= Cardinality(Procs)
<1>1. Posting \in SUBSET Procs /\ Posting' \in SUBSET Procs
  BY DEF Posting
<1>2. stores \in Nat /\ stores + Cardinality(Posting) <= Cardinality(Procs)
  <2>1. stores \in 0..Cardinality(Procs) /\ stores + Cardinality(Posting) <= Cardinality(Procs)
    BY DEF StartInv, TypeInv, TypeOK
  <2> QED BY <2>1, Counts, InRange
<1>3. stores = 0 \/ Posting' \subseteq Posting
  BY Turn DEF Posting
<1>4. stores + Cardinality(Posting') <= Cardinality(Procs)
  BY <1>1, <1>2, <1>3, Bounded
<1> QED BY <1>4

\* A step of a process that is starting, at another stage than the filling of the secret's
\* file, and that touches neither this file nor the number of stores.
LEMMA Harmless ==
  ASSUME StartInv, NEW p \in Procs, Starting(p), ~At(p, "fill"),
         UNCHANGED <<file, stores, deaths>>, up' \in BOOLEAN, account' \in BOOLEAN,
         crossed' = crossed,
         present' \subseteq Things, models' \subseteq 1..stores, admins' \subseteq 1..stores,
         NEW q \in Process, proc' = [proc EXCEPT ![p] = q],
         q.attempt < MaxAttempts, q.stage = "post store" => stores = 0,
         q.stage \in Sited => q.store \in 1..stores, q.stage # "fill",
         ~crossed => Knows(q, file, stores)
  PROVE  StartInv'
<1>1. /\ proc' \in [Procs -> Process] /\ proc'[p] = q
      /\ \A o \in Procs : o # p => proc'[o] = proc[o]
  BY Turn
<1>2. TypeOK'
  BY <1>1 DEF StartInv, TypeInv, TypeOK, Things
<1>3. TypeInv'
  BY <1>1, <1>2, PostBound DEF StartInv, TypeInv
<1>4. FillInv'
  BY <1>1 DEF StartInv, FillInv, At
<1>5. TurnInv'
  <2> SUFFICES ASSUME ~crossed PROVE TurnInv'
    BY DEF TurnInv
  <2>1. \A o \in Procs : Starting(o)' => Starting(o)
    BY <1>1 DEF Starting, Serving, At
  <2>2. file = "blank" => \E o \in Procs : At(o, "fill")'
    BY <1>1 DEF StartInv, TurnInv, At
  <2>3. \A o \in Procs : Knows(proc'[o], file', stores')
    BY <1>1 DEF StartInv, TurnInv
  <2> QED BY <2>1, <2>2, <2>3 DEF StartInv, TurnInv
<1> QED BY <1>3, <1>4, <1>5 DEF StartInv

\* What is known of a process at work.
LEMMA Working ==
  ASSUME StartInv, NEW p \in Procs
  PROVE  /\ proc \in [Procs -> Process] /\ proc[p] \in Process
         /\ proc[p].attempt < MaxAttempts /\ proc[p].attempt \in 0..MaxAttempts
         /\ proc[p].stage \in Sited => proc[p].store \in 1..stores
         /\ present \subseteq Things /\ models \subseteq 1..stores /\ admins \subseteq 1..stores
         /\ up \in BOOLEAN /\ account \in BOOLEAN
         /\ stores \in 0..Cardinality(Procs) /\ stores \in Nat /\ file \in Secrets \cup {"none", "blank"}
         /\ ~crossed => /\ Knows(proc[p], file, stores)
                        /\ file = "blank" /\ Starting(p) => At(p, "fill")
                        /\ stores <= 1
BY Counts DEF StartInv, TypeInv, TypeOK, Things, Process, TurnInv, Starting, Serving, At

\* A process that is down knows nothing.
LEMMA DownOK ==
  /\ Down \in Process /\ Down.attempt < MaxAttempts /\ Down.stage = "down"
  /\ \A f, n : Knows(Down, f, n)
BY Counts, ConstantsOK DEF Down, Process, Stages, Knows, Secured, Sited

\* It dies of an error.
LEMMA DieStep ==
  ASSUME StartInv, NEW p \in Procs, Starting(p), ~At(p, "fill"), Die(p),
         UNCHANGED <<file, stores, up, deaths, crossed, account, models>>,
         present' \subseteq Things, admins' \subseteq 1..stores
  PROVE  StartInv'
<1>1. proc' = [proc EXCEPT ![p] = Down]
  BY DEF Die
<1> QED BY <1>1, DownOK, Working, Harmless DEF Sited

\* It goes on to a stage at which it knows no more than before.
LEMMA GoStep ==
  ASSUME StartInv, NEW p \in Procs, Starting(p), ~At(p, "fill"), NEW s \in Stages, Go(p, s),
         UNCHANGED <<file, stores, up, deaths, crossed, account>>,
         present' \subseteq Things, models' \subseteq 1..stores, admins' \subseteq 1..stores,
         s \notin {"fill", "create", "read", "post store"},
         s \in Secured => proc[p].stage \in Secured,
         s \in Sited => proc[p].stage \in Sited
  PROVE  StartInv'
<1> DEFINE q == [proc[p] EXCEPT !.stage = s]
<1>1. /\ q \in Process /\ q.stage = s /\ q.store = proc[p].store
      /\ q.attempt = proc[p].attempt /\ q.secret = proc[p].secret
  BY Working DEF Process
<1>2. proc' = [proc EXCEPT ![p] = q]
  BY DEF Go
<1>3. ~crossed => Knows(q, file, stores)
  BY <1>1, Working DEF Knows
<1> HIDE DEF q
<1> QED BY <1>1, <1>2, <1>3, Working, Harmless

-----------------------------------------------------------------------------
\* A process begins: if none is starting, it does so in its turn.
LEMMA StartStep ==
  ASSUME StartInv, NEW p \in Procs, Start(p)
  PROVE  StartInv'
<1> DEFINE q == [proc[p] EXCEPT !.stage = "secret"]
<1>1. /\ q \in Process /\ q.stage = "secret" /\ q.attempt = proc[p].attempt
  BY Working DEF Process, Stages
<1>2. proc' = [proc EXCEPT ![p] = q] /\ UNCHANGED <<disk, up, deaths>>
  BY DEF Start, Go
<1> HIDE DEF q
<1>3. /\ proc' \in [Procs -> Process] /\ proc'[p] = q
      /\ \A o \in Procs : o # p => proc'[o] = proc[o]
  BY <1>1, <1>2, Turn
<1>4. TypeOK'
  BY <1>2, <1>3 DEF Start, StartInv, TypeInv, TypeOK, disk, Starting
<1>5. stores' + Cardinality(Posting') <= Cardinality(Procs)
  BY <1>1, <1>2, PostBound DEF disk
<1>6. TypeInv'
  BY <1>1, <1>2, <1>3, <1>4, <1>5 DEF StartInv, TypeInv, disk, Sited
<1>7. FillInv'
  BY <1>1, <1>2, <1>3 DEF StartInv, FillInv, At, disk
<1>8. TurnInv'
  <2> SUFFICES ASSUME ~crossed' PROVE TurnInv'
    BY DEF TurnInv
  <2>1. ~crossed /\ \A o \in Procs : ~Starting(o)
    BY DEF Start
  <2>2. \A o \in Procs : Starting(o)' => o = p
    BY <1>3, <2>1 DEF Starting, Serving, At
  <2>3. file # "blank"
    BY <2>1 DEF StartInv, TurnInv, Starting, Serving, At
  <2>4. Knows(q, file, stores)
    BY <1>1 DEF Knows, Secured, Sited
  <2>5. \A o \in Procs : Knows(proc'[o], file', stores')
    BY <1>2, <1>3, <2>1, <2>4 DEF StartInv, TurnInv, disk
  <2> QED BY <1>2, <2>1, <2>2, <2>3, <2>5 DEF StartInv, TurnInv, disk
<1> QED BY <1>6, <1>7, <1>8 DEF StartInv

\* The secret is looked for.
LEMMA CheckSecretStep ==
  ASSUME StartInv, NEW p \in Procs, CheckSecret(p)
  PROVE  StartInv'
<1> DEFINE s == IF file = "none" THEN "create" ELSE "read"
           q == [proc[p] EXCEPT !.stage = s]
<1>1. q \in Process /\ q.stage = s /\ q.attempt = proc[p].attempt
  BY Working DEF Process, Stages
<1>2. /\ proc' = [proc EXCEPT ![p] = q] /\ UNCHANGED <<disk, up, deaths, crossed>>
      /\ Starting(p) /\ ~At(p, "fill")
  BY DEF CheckSecret, Go, Starting, Serving, At
<1>3. ~crossed => Knows(q, file, stores)
  <2>1. CASE file = "none"
    BY <1>1, <2>1 DEF Knows, Secured, Sited
  <2>2. CASE file # "none"
    <3>1. ~crossed => file \in Secrets
      BY <1>2, <2>2, Working
    <3> QED BY <1>1, <2>2, <3>1 DEF Knows, Secured, Sited
  <2> QED BY <2>1, <2>2
<1>4. q.stage \notin Sited /\ q.stage \notin {"post store", "fill"}
  BY <1>1 DEF Sited
<1> HIDE DEF q, s
<1> QED BY <1>1, <1>2, <1>3, <1>4, Working, Harmless DEF disk

\* The one that creates the file is the only one to fill it.
LEMMA CreateSecretStep ==
  ASSUME StartInv, NEW p \in Procs, CreateSecret(p)
  PROVE  StartInv'
<1>1. /\ UNCHANGED <<present, account, stores, models, admins, up, deaths, crossed>>
      /\ Starting(p) /\ proc[p].stage = "create"
  BY DEF CreateSecret, Starting, Serving, At
<1>2. CASE file = "none"
  <2> DEFINE q == [proc[p] EXCEPT !.stage = "fill"]
  <2>1. q \in Process /\ q.stage = "fill" /\ q.attempt = proc[p].attempt
    BY Working DEF Process, Stages
  <2>2. proc' = [proc EXCEPT ![p] = q] /\ file' = "blank"
    BY <1>2 DEF CreateSecret, Exclusive, Go
  <2> HIDE DEF q
  <2>3. /\ proc' \in [Procs -> Process] /\ proc'[p] = q
        /\ \A o \in Procs : o # p => proc'[o] = proc[o]
    BY <2>1, <2>2, Turn
  <2>4. TypeOK'
    BY <1>1, <2>2, <2>3 DEF StartInv, TypeInv, TypeOK
  <2>5. stores' + Cardinality(Posting') <= Cardinality(Procs)
    BY <1>1, <2>1, <2>2, PostBound
  <2>6. TypeInv'
    BY <1>1, <2>1, <2>3, <2>4, <2>5 DEF StartInv, TypeInv, Sited
  <2>7. FillInv'
    BY <1>2, <2>1, <2>2, <2>3 DEF StartInv, FillInv, At
  <2>8. TurnInv'
    <3> SUFFICES ASSUME ~crossed PROVE TurnInv'
      BY <1>1 DEF TurnInv
    <3>1. \A o \in Procs : Starting(o)' => Starting(o)
      BY <1>1, <2>3 DEF Starting, Serving, At
    <3>2. \A o \in Procs : o # p => proc[o].stage \notin Secured /\ ~Starting(o)
      BY <1>1, <1>2, ConstantsOK DEF StartInv, TurnInv, Knows, Secrets
    <3>3. \A o \in Procs : o # p => Knows(proc[o], "blank", stores)
      BY <3>2 DEF StartInv, TurnInv, Knows, Starting, Serving, At
    <3>4. Knows(q, "blank", stores)
      BY <2>1 DEF Knows, Secured, Sited
    <3>5. At(p, "fill")'
      BY <2>1, <2>3 DEF At
    <3> QED BY <1>1, <2>2, <2>3, <3>1, <3>3, <3>4, <3>5 DEF StartInv, TurnInv
  <2> QED BY <2>6, <2>7, <2>8 DEF StartInv
<1>3. CASE file # "none"
  <2> DEFINE q == [proc[p] EXCEPT !.stage = "read"]
  <2>1. q \in Process /\ q.stage = "read" /\ q.attempt = proc[p].attempt
    BY Working DEF Process, Stages
  <2>2. proc' = [proc EXCEPT ![p] = q] /\ file' = file
    BY <1>3 DEF CreateSecret, Exclusive, Go
  <2>3. ~At(p, "fill")
    BY <1>1 DEF At
  <2>4. ~crossed => Knows(q, file, stores)
    BY <1>1, <1>3, Working DEF Knows
  <2>5. q.stage \notin Sited
    BY <2>1 DEF Sited
  <2> HIDE DEF q
  <2> QED BY <1>1, <2>1, <2>2, <2>3, <2>4, <2>5, Working, Harmless
<1> QED BY <1>2, <1>3

\* The one process that fills the file is the one that created it.
LEMMA FillSecretStep ==
  ASSUME StartInv, NEW p \in Procs, FillSecret(p)
  PROVE  StartInv'
<1> DEFINE q == [proc[p] EXCEPT !.stage = "tables", !.secret = p]
<1>1. /\ UNCHANGED <<present, account, stores, models, admins, up, deaths, crossed>>
      /\ Starting(p) /\ proc[p].stage = "fill" /\ file = "blank" /\ file' = p
  BY DEF FillSecret, Starting, Serving, At, StartInv, FillInv
<1>2. q \in Process /\ q.stage = "tables" /\ q.secret = p /\ q.attempt = proc[p].attempt
  BY Working DEF Process, Stages, Secrets
<1>3. proc' = [proc EXCEPT ![p] = q]
  BY DEF FillSecret, GoWith
<1> HIDE DEF q
<1>4. /\ proc' \in [Procs -> Process] /\ proc'[p] = q
      /\ \A o \in Procs : o # p => proc'[o] = proc[o]
  BY <1>2, <1>3, Turn
<1>5. TypeOK'
  BY <1>1, <1>4 DEF StartInv, TypeInv, TypeOK, Secrets
<1>6. stores' + Cardinality(Posting') <= Cardinality(Procs)
  BY <1>1, <1>2, <1>3, PostBound
<1>7. TypeInv'
  BY <1>1, <1>2, <1>4, <1>5, <1>6 DEF StartInv, TypeInv, Sited
<1>8. FillInv'
  BY <1>1, <1>2, <1>4 DEF StartInv, FillInv, At
<1>9. TurnInv'
  <2> SUFFICES ASSUME ~crossed PROVE TurnInv'
    BY <1>1 DEF TurnInv
  <2>1. \A o \in Procs : Starting(o)' => Starting(o)
    BY <1>1, <1>4 DEF Starting, Serving, At
  <2>2. \A o \in Procs : o # p => proc[o].stage \notin Secured /\ ~Starting(o)
    BY <1>1, ConstantsOK DEF StartInv, TurnInv, Knows, Secrets
  <2>3. \A o \in Procs : o # p => Knows(proc[o], p, stores)
    BY <2>2 DEF StartInv, TurnInv, Knows, Starting, Serving, At
  <2>4. Knows(q, p, stores)
    BY <1>2 DEF Knows, Secured, Sited, Secrets
  <2>5. p # "blank"
    BY ConstantsOK
  <2> QED BY <1>1, <1>4, <2>1, <2>3, <2>4, <2>5 DEF StartInv, TurnInv
<1> QED BY <1>7, <1>8, <1>9 DEF StartInv

\* In turn, what is read is the secret that the file has.
LEMMA ReadSecretStep ==
  ASSUME StartInv, NEW p \in Procs, ReadSecret(p)
  PROVE  StartInv'
<1> DEFINE q == [proc[p] EXCEPT !.stage = "tables", !.secret = file]
<1>1. q \in Process /\ q.stage = "tables" /\ q.secret = file /\ q.attempt = proc[p].attempt
  BY Working DEF Process, Stages
<1>2. /\ proc' = [proc EXCEPT ![p] = q] /\ UNCHANGED <<disk, up, deaths, crossed>>
      /\ Starting(p) /\ ~At(p, "fill") /\ proc[p].stage = "read"
  BY DEF ReadSecret, GoWith, Starting, Serving, At
<1>3. ~crossed => Knows(q, file, stores)
  BY <1>1, <1>2, Working DEF Knows, Secured, Sited
<1>4. q.stage \notin Sited
  BY <1>1 DEF Sited
<1> HIDE DEF q
<1> QED BY <1>1, <1>2, <1>3, <1>4, Working, Harmless DEF disk

-----------------------------------------------------------------------------
\* The stages at which a thing is looked for and added.
LEMMA Paths ==
  ASSUME NEW thing \in DOMAIN Lookup
  PROVE  /\ thing \in Things /\ Added[thing] \subseteq Things
         /\ thing \in Secured /\ Lookup[thing] \in Secured /\ After[thing] \in Secured
         /\ Lookup[thing] \in Stages /\ After[thing] \in Stages
         /\ {Lookup[thing], After[thing]}
              \cap {"down", "serving", "secret", "fill", "create", "read", "post store"}
              \subseteq {"serving"}
         /\ Lookup[thing] # "serving"
         /\ Lookup[thing] \in Sited => thing \in Sited
         /\ After[thing] \in Sited => thing \in Sited /\ Lookup[thing] \in Sited
<1>1. CASE thing = "tables"
  BY <1>1 DEF Lookup, After, Added, Things, Stages, Secured, Sited
<1>2. CASE thing = "column"
  BY <1>2 DEF Lookup, After, Added, Things, Stages, Secured, Sited
<1>3. CASE thing = "types"
  BY <1>3 DEF Lookup, After, Added, Things, Stages, Secured, Sited
<1>4. CASE thing = "issuer"
  BY <1>4 DEF Lookup, After, Added, Things, Stages, Secured, Sited
<1> QED BY <1>1, <1>2, <1>3, <1>4 DEF Lookup

\* What the database has is looked for and added, found or failed.
LEMMA LookStep ==
  ASSUME StartInv, NEW p \in Procs, NEW thing \in DOMAIN Lookup, Look(p, thing)
  PROVE  StartInv'
<1> DEFINE s == IF Missing(thing) THEN Lookup[thing] ELSE After[thing]
<1>1. /\ s \in Stages /\ s \notin {"fill", "create", "read", "post store"}
      /\ s \in Sited => thing \in Sited
      /\ thing \in Secured /\ thing \in Things
  BY Paths
<1>2. proc[p].stage = thing /\ Starting(p) /\ ~At(p, "fill")
  BY <1>1 DEF Look, At, Starting, Serving, Things
<1>3. Go(p, s) /\ UNCHANGED <<disk, up, deaths, crossed>>
  BY DEF Look
<1> HIDE DEF s
<1> QED BY <1>1, <1>2, <1>3, Working, GoStep DEF disk

\* A change of the schema disturbs neither secret nor store; a lost race ends the process.
LEMMA AddStep ==
  ASSUME StartInv, NEW p \in Procs, NEW thing \in DOMAIN Lookup, Add(p, thing)
  PROVE  StartInv'
<1> DEFINE s == After[thing]
<1>1. /\ s \in Stages /\ s \notin {"fill", "create", "read", "post store"}
      /\ s \in Sited => Lookup[thing] \in Sited
      /\ Lookup[thing] \in Secured /\ Lookup[thing] \notin {"down", "serving", "fill"}
      /\ Added[thing] \subseteq Things
  BY Paths
<1>2. /\ proc[p].stage = Lookup[thing] /\ Starting(p) /\ ~At(p, "fill")
      /\ UNCHANGED <<file, account, stores, models, admins, up, deaths, crossed>>
  BY <1>1 DEF Add, At, Starting, Serving
<1>3. present' \subseteq Things
  BY <1>1, Working DEF Add
<1>4. Die(p) \/ Go(p, s)
  BY DEF Add
<1> HIDE DEF s
<1>5. CASE Die(p)
  BY <1>2, <1>3, <1>5, Working, DieStep
<1>6. CASE Go(p, s)
  BY <1>1, <1>2, <1>3, <1>6, Working, GoStep
<1> QED BY <1>4, <1>5, <1>6

\* Nor does the conversion of a column.
LEMMA ConvertStep ==
  ASSUME StartInv, NEW p \in Procs, Convert(p)
  PROVE  StartInv'
<1>1. /\ proc[p].stage = "convert" /\ Starting(p) /\ ~At(p, "fill") /\ Go(p, "healthz")
      /\ UNCHANGED <<file, account, stores, models, admins, up, deaths, crossed>>
      /\ present' \subseteq present \cup {"types"}
  BY DEF Convert, At, Starting, Serving, After
<1>2. present' \subseteq Things
  BY <1>1, Working DEF Things
<1>3. "healthz" \in Stages /\ "healthz" \notin Sited /\ "convert" \in Secured
  BY DEF Stages, Sited, Secured
<1> QED BY <1>1, <1>2, <1>3, Working, GoStep

-----------------------------------------------------------------------------
\* OpenFGA is waited for; its stores are listed, and one is made if there is none.
LEMMA HealthzStep ==
  ASSUME StartInv, NEW p \in Procs, Healthz(p)
  PROVE  StartInv'
<1>1. /\ proc[p].stage = "healthz" /\ Starting(p) /\ ~At(p, "fill")
      /\ UNCHANGED <<disk, up, deaths, crossed>>
  BY DEF Healthz, At, Starting, Serving
<1>2. CASE up
  <2>1. Go(p, "store") /\ "store" \in Stages /\ "store" \notin Sited /\ "healthz" \in Secured
    BY <1>2 DEF Healthz, Stages, Sited, Secured
  <2> QED BY <1>1, <2>1, Working, GoStep DEF disk
<1>3. CASE ~up /\ LastAttempt(p)
  BY <1>1, <1>3, Working, DieStep DEF Healthz, disk
<1>4. CASE ~up /\ ~LastAttempt(p)
  <2> DEFINE q == [proc[p] EXCEPT !.attempt = @ + 1]
  <2>1. proc' = [proc EXCEPT ![p] = q]
    BY <1>4 DEF Healthz
  <2>2. /\ proc[p].attempt + 1 < MaxAttempts
        /\ proc[p].attempt + 1 \in 0..MaxAttempts
    BY <1>4, Working, ConstantsOK DEF LastAttempt
  <2>3. /\ q \in Process /\ q.attempt = proc[p].attempt + 1
        /\ q.stage = "healthz" /\ q.secret = proc[p].secret /\ q.store = proc[p].store
    BY <1>1, <2>2, Working DEF Process
  <2>4. ~crossed => Knows(q, file, stores)
    BY <1>1, <2>3, Working DEF Knows
  <2>5. "healthz" \notin Sited
    BY DEF Sited
  <2> HIDE DEF q
  <2> QED BY <1>1, <2>1, <2>2, <2>3, <2>4, <2>5, Working, Harmless DEF disk
<1> QED BY <1>2, <1>3, <1>4

\* Only a process that found no store makes one; in turn it keeps to the one there is.
LEMMA FindStoreStep ==
  ASSUME StartInv, NEW p \in Procs, FindStore(p)
  PROVE  StartInv'
<1>1. /\ proc[p].stage = "store" /\ Starting(p) /\ ~At(p, "fill")
      /\ UNCHANGED <<disk, up, deaths, crossed>>
  BY DEF FindStore, At, Starting, Serving
<1>2. CASE stores = 0
  <2> DEFINE q == [proc[p] EXCEPT !.stage = "post store"]
  <2>1. proc' = [proc EXCEPT ![p] = q]
    BY <1>2 DEF FindStore, Existing, Go
  <2>2. /\ q \in Process /\ q.attempt = proc[p].attempt
        /\ q.stage = "post store" /\ q.secret = proc[p].secret
    BY Working DEF Process, Stages
  <2>3. ~crossed => Knows(q, file, stores)
    BY <1>1, <1>2, <2>2, Working DEF Knows, Secured, Sited
  <2>4. "post store" \notin Sited
    BY DEF Sited
  <2> HIDE DEF q
  <2> QED BY <1>1, <1>2, <2>1, <2>2, <2>3, <2>4, Working, Harmless DEF disk
<1>3. CASE stores # 0
  <2> DEFINE q == [proc[p] EXCEPT !.stage = "model", !.store = 1]
  <2>1. proc' = [proc EXCEPT ![p] = q]
    <3>1. Existing = 1 /\ Existing # 0
      BY <1>3 DEF Existing
    <3> QED BY <3>1 DEF FindStore, GoWith
  <2>2. 1 \in 0..Cardinality(Procs) /\ 1 \in 1..stores
    BY <1>3, Working, Counts
  <2>3. /\ q \in Process /\ q.attempt = proc[p].attempt
        /\ q.stage = "model" /\ q.secret = proc[p].secret /\ q.store = 1
    BY <2>2, Working DEF Process, Stages
  <2>4. ~crossed => stores = 1
    BY <1>3, Working
  <2>5. ~crossed => Knows(q, file, stores)
    BY <1>1, <2>3, <2>4, Working DEF Knows, Secured
  <2> HIDE DEF q
  <2> QED BY <1>1, <2>1, <2>2, <2>3, <2>5, Working, Harmless DEF disk
<1> QED BY <1>2, <1>3

\* The store that is made counts for the process that made it, which no longer posts.
LEMMA PostStoreStep ==
  ASSUME StartInv, NEW p \in Procs, PostStore(p)
  PROVE  StartInv'
<1> DEFINE q == [proc[p] EXCEPT !.stage = "model", !.store = stores + 1]
<1>1. /\ proc[p].stage = "post store" /\ Starting(p) /\ stores' = stores + 1
      /\ UNCHANGED <<file, present, account, models, admins, up, deaths, crossed>>
  BY DEF PostStore, At, Starting, Serving
<1>2. /\ Posting \in SUBSET Procs /\ p \in Posting /\ Posting \ {p} \in SUBSET Procs
  BY <1>1 DEF Posting
<1>3. stores + 1 + Cardinality(Posting \ {p}) <= Cardinality(Procs)
  <2>1. IsFiniteSet(Posting) /\ Cardinality(Posting) \in Nat
    BY <1>2, Counts
  <2>2. Cardinality(Posting \ {p}) = Cardinality(Posting) - 1
    BY <1>2, <2>1, FS_RemoveElement
  <2>3. stores \in Nat /\ stores + Cardinality(Posting) <= Cardinality(Procs)
    BY Working DEF StartInv, TypeInv
  <2>4. Cardinality(Procs) \in Nat
    BY Counts
  <2> QED BY <2>1, <2>2, <2>3, <2>4
<1>4. stores + 1 \in 0..Cardinality(Procs) /\ stores \in Nat
  <2>1. Cardinality(Posting \ {p}) \in Nat /\ Cardinality(Procs) \in Nat
    BY <1>2, Counts
  <2>2. stores \in Nat
    BY Working
  <2> QED BY <1>3, <2>1, <2>2
<1>5. /\ q \in Process /\ q.stage = "model" /\ q.store = stores + 1
      /\ q.secret = proc[p].secret /\ q.attempt = proc[p].attempt
  BY <1>4, Working DEF Process, Stages
<1>6. proc' = [proc EXCEPT ![p] = q]
  BY DEF PostStore, GoWith
<1> HIDE DEF q
<1>7. /\ proc' \in [Procs -> Process] /\ proc'[p] = q
      /\ \A o \in Procs : o # p => proc'[o] = proc[o]
  BY <1>5, <1>6, Turn
<1>8. Posting' = Posting \ {p}
  BY <1>5, <1>7 DEF Posting
<1>9. 1..stores \subseteq 1..(stores + 1) /\ stores + 1 \in 1..(stores + 1)
  BY <1>4
<1>10. TypeOK'
  BY <1>1, <1>4, <1>7, <1>9 DEF StartInv, TypeInv, TypeOK
<1>11. \A o \in Procs : /\ proc'[o].attempt < MaxAttempts
                        /\ proc'[o].stage \in Sited => proc'[o].store \in 1..stores'
  BY <1>1, <1>5, <1>7, <1>9 DEF StartInv, TypeInv
<1>12. TypeInv'
  BY <1>1, <1>3, <1>8, <1>10, <1>11 DEF TypeInv
<1>13. FillInv'
  BY <1>1, <1>5, <1>7 DEF StartInv, FillInv, At
<1>14. TurnInv'
  <2> SUFFICES ASSUME ~crossed PROVE TurnInv'
    BY <1>1 DEF TurnInv
  <2>1. \A o \in Procs : Starting(o)' => Starting(o)
    BY <1>1, <1>7 DEF Starting, Serving, At
  <2>2. stores = 0 /\ file \in Secrets /\ proc[p].secret = file
    BY <1>1, Working DEF Knows, Secured
  <2>3. stores' = 1 /\ stores # 1
    <3>1. stores = 0
      BY <2>2
    <3>2. stores' = stores + 1
      BY <1>1
    <3> HIDE DEF q
    <3> QED BY ONLY <3>1, <3>2, OneMore
  <2>4. \A o \in Procs : o # p => proc[o].stage \notin Sited /\ ~Starting(o)
    BY <1>1, <2>3 DEF StartInv, TurnInv, Knows
  <2>5. \A o \in Procs : o # p => Knows(proc[o], file, 1)
    BY <2>4 DEF StartInv, TurnInv, Knows, Starting, Serving, At
  <2>6. Knows(q, file, 1)
    BY <1>5, <2>2 DEF Knows
  <2>7. file # "blank"
    BY <2>2, ConstantsOK DEF Secrets
  <2>8. \A o \in Procs : Knows(proc'[o], file', stores')
    BY <1>1, <1>7, <2>3, <2>5, <2>6
  <2>9. \A o1, o2 \in Procs : Starting(o1)' /\ Starting(o2)' => o1 = o2
    BY <2>1 DEF StartInv, TurnInv
  <2>10. stores' <= 1 /\ file' # "blank"
    <3>1. stores' <= 1
      BY ONLY <2>3, OneMore
    <3>2. file' = file
      BY <1>1
    <3> QED BY <2>7, <3>1, <3>2
  <2> QED BY <2>8, <2>9, <2>10 DEF TurnInv
<1> QED BY <1>12, <1>13, <1>14 DEF StartInv

\* The model of the store that a process keeps to.
LEMMA ModelStep ==
  ASSUME StartInv, NEW p \in Procs, FindModel(p) \/ PostModel(p)
  PROVE  StartInv'
<1>1. /\ proc[p].stage \in {"model", "post model"} /\ Starting(p) /\ ~At(p, "fill")
      /\ UNCHANGED <<file, present, account, stores, admins, up, deaths, crossed>>
      /\ Go(p, "admin") \/ Go(p, "post model")
  BY DEF FindModel, PostModel, At, Starting, Serving, disk
<1>2. /\ {"model", "post model", "admin"} \subseteq Sited \cap Secured
      /\ {"post model", "admin"} \subseteq Stages
  BY DEF Sited, Secured, Stages
<1>3. models' \subseteq 1..stores
  <2>1. proc[p].store \in 1..stores
    BY <1>1, <1>2, Working
  <2> QED BY <2>1, Working DEF FindModel, PostModel, disk
<1> QED BY <1>1, <1>2, <1>3, Working, GoStep

\* The first admin of the store that a process keeps to.
LEMMA AdminStep ==
  ASSUME StartInv, NEW p \in Procs, CheckAdmin(p) \/ GrantAdmin(p)
  PROVE  StartInv'
<1>1. /\ proc[p].stage \in {"admin", "grant admin"} /\ Starting(p) /\ ~At(p, "fill")
      /\ UNCHANGED <<file, present, account, stores, models, up, deaths, crossed>>
      /\ Die(p) \/ Go(p, "grant admin") \/ Go(p, "issuer")
  BY DEF CheckAdmin, GrantAdmin, At, Starting, Serving, disk
<1>2. /\ {"admin", "grant admin", "issuer"} \subseteq Sited \cap Secured
      /\ {"grant admin", "issuer"} \subseteq Stages
  BY DEF Sited, Secured, Stages
<1>3. admins' \subseteq 1..stores
  <2>1. proc[p].store \in 1..stores
    BY <1>1, <1>2, Working
  <2> QED BY <2>1, Working DEF CheckAdmin, GrantAdmin, disk
<1> QED BY <1>1, <1>2, <1>3, Working, GoStep, DieStep

\* A call to OpenFGA that raises ends the process, which forgets what it knew.
LEMMA CallFailsStep ==
  ASSUME StartInv, NEW p \in Procs, CallFails(p)
  PROVE  StartInv'
<1>1. Starting(p) /\ ~At(p, "fill")
  BY DEF CallFails, At, Starting, Serving
<1> QED BY <1>1, Working, DieStep DEF CallFails, disk

-----------------------------------------------------------------------------
\* It is killed, perhaps while it fills the file, and then something has crossed.
LEMMA KillStep ==
  ASSUME StartInv, NEW p \in Procs, Kill(p)
  PROVE  StartInv'
<1>1. /\ UNCHANGED <<disk, up>> /\ deaths' = deaths + 1 /\ deaths < MaxDeaths
      /\ crossed' = (crossed \/ At(p, "fill")) /\ proc' = [proc EXCEPT ![p] = Down]
  BY DEF Kill, Die
<1>2. /\ proc' \in [Procs -> Process] /\ proc'[p] = Down
      /\ \A o \in Procs : o # p => proc'[o] = proc[o]
  BY <1>1, DownOK, Turn
<1>3. deaths' \in 0..MaxDeaths /\ crossed' \in BOOLEAN
  BY <1>1, ConstantsOK DEF StartInv, TypeInv, TypeOK
<1>4. TypeOK'
  BY <1>1, <1>2, <1>3 DEF StartInv, TypeInv, TypeOK, disk
<1>5. stores' + Cardinality(Posting') <= Cardinality(Procs)
  BY <1>1, DownOK, PostBound DEF disk
<1>6. TypeInv'
  BY <1>1, <1>2, <1>4, <1>5, DownOK DEF StartInv, TypeInv, disk, Sited
<1>7. FillInv'
  BY <1>1, <1>2, DownOK DEF StartInv, FillInv, At, disk
<1>8. TurnInv'
  <2> SUFFICES ASSUME ~crossed' PROVE TurnInv'
    BY DEF TurnInv
  <2>1. ~crossed /\ ~At(p, "fill")
    BY <1>1
  <2>2. \A o \in Procs : Starting(o)' => Starting(o)
    BY <1>2, DownOK DEF Starting, Serving, At
  <2>3. file = "blank" => \E o \in Procs : At(o, "fill")'
    BY <1>2, <2>1 DEF StartInv, TurnInv, At
  <2>4. \A o \in Procs : Knows(proc'[o], file', stores')
    BY <1>1, <1>2, <2>1, DownOK DEF StartInv, TurnInv, disk
  <2> QED BY <1>1, <2>1, <2>2, <2>3, <2>4 DEF StartInv, TurnInv, disk
<1> QED BY <1>6, <1>7, <1>8 DEF StartInv

\* What happens outside the processes.
LEMMA OutsideStep ==
  ASSUME StartInv, Toggle \/ SignUp \/ UNCHANGED vars
  PROVE  StartInv'
<1>1. /\ UNCHANGED <<file, present, stores, models, admins, proc, deaths, crossed>>
      /\ up' \in BOOLEAN /\ account' \in BOOLEAN
  BY DEF Toggle, SignUp, vars, disk, StartInv, TypeInv, TypeOK
<1>2. TypeInv'
  BY <1>1 DEF StartInv, TypeInv, TypeOK, Posting
<1>3. FillInv' /\ TurnInv'
  BY <1>1 DEF StartInv, FillInv, TurnInv, Starting, Serving, At
<1> QED BY <1>2, <1>3 DEF StartInv

\* StartInv is inductive.
LEMMA NextStartInv == StartInv /\ [Next]_vars => StartInv'
<1> SUFFICES ASSUME StartInv, [Next]_vars PROVE StartInv'
  OBVIOUS
<1>1. ASSUME NEW p \in Procs, Step(p) PROVE StartInv'
  BY <1>1, CheckSecretStep, CreateSecretStep, FillSecretStep, ReadSecretStep, LookStep, AddStep,
     ConvertStep, HealthzStep, FindStoreStep, PostStoreStep, ModelStep, AdminStep, CallFailsStep
  DEF Step
<1> QED BY <1>1, StartStep, KillStep, OutsideStep DEF Next

\* StartInv holds of every behaviour.
LEMMA StartInvariant == Spec => []StartInv
BY InitStartInv, NextStartInv, PTL DEF Spec

\* Files, tables and processes have their types; in particular, no more stores are made
\* than there are processes, however often they are killed (authz/client.py:26-75).
THEOREM TypeCorrect == Spec => []TypeOK
<1>1. StartInv => TypeOK
  BY DEF StartInv, TypeInv
<1> QED BY <1>1, StartInvariant, PTL

\* Processes that start one after the other sign with one secret and write to one store,
\* however many there are and wherever they are killed but between the creation of the
\* secret's file and its filling (auth.py:38-68, authz/client.py:26-75).
THEOREM TurnsAgree == Spec => []StartsInTurnAgree
<1>1. StartInv => StartsInTurnAgree
  BY DEF StartInv, TurnInv, Knows, Secured, Sited, Serving, At, StartsInTurnAgree
<1> QED BY <1>1, StartInvariant, PTL

\* No process overwrites a secret, whatever crossed (auth.py:57-68).
THEOREM SecretStays == Spec => SecretKept
<1> DEFINE Kept == file \in Secrets => UNCHANGED file
<1>1. StartInv /\ [Next]_vars => [Kept]_vars
  <2> SUFFICES ASSUME StartInv, Next, file \in Secrets PROVE file' = file
    OBVIOUS
  <2>1. file \notin {"none", "blank"}
    BY ConstantsOK DEF Secrets
  <2>2. ASSUME NEW p \in Procs, CreateSecret(p) \/ FillSecret(p) PROVE file' = file
    BY <2>1, <2>2 DEF CreateSecret, Exclusive, FillSecret, StartInv, FillInv
  <2>3. ASSUME NEW p \in Procs, Start(p) \/ Step(p) \/ Kill(p), ~CreateSecret(p), ~FillSecret(p)
        PROVE file' = file
    BY <2>3 DEF Start, Step, Kill, CheckSecret, ReadSecret, Look, Add, Convert, Healthz, FindStore,
       PostStore, FindModel, PostModel, CheckAdmin, GrantAdmin, CallFails, disk
  <2>4. CASE Toggle \/ SignUp
    BY <2>4 DEF Toggle, SignUp, disk
  <2> QED BY <2>2, <2>3, <2>4 DEF Next, Step
<1>2. Spec => [][Kept]_vars
  <2> HIDE DEF Kept
  <2> QED BY <1>1, StartInvariant, PTL DEF Spec
<1> QED BY <1>2 DEF SecretKept
=============================================================================
