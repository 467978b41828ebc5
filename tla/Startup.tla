------------------------------ MODULE Startup ------------------------------
(***************************************************************************)
(* What every process does before it serves, when its modules are          *)
(* imported: the file of the secret that signs web tokens (auth.py), the   *)
(* tables and their patches (main.py), the OpenFGA store and model         *)
(* (authz/client.py), the first admin and the default issuer (main.py).    *)
(* Each is found or created in two steps, no lock is held, and processes   *)
(* start together, die at any step and are started again.                  *)
(***************************************************************************)
EXTENDS Naturals, FiniteSets

CONSTANTS Procs,
          MaxAttempts,   \* range(40) in bootstrap()
          MaxDeaths,     \* how often processes are killed (bound)
          Old            \* a secret written by an earlier deployment

ASSUME ConstantsOK ==
  /\ IsFiniteSet(Procs) /\ Procs # {} /\ MaxAttempts \in Nat \ {0} /\ MaxDeaths \in Nat
  /\ Old \notin Procs /\ "none" \notin Procs \cup {Old} /\ "blank" \notin Procs \cup {Old}

VARIABLES file,     \* rest_jwt_secret: "none", "blank", or the secret, named by its maker
          present,  \* what the database has: "tables", "column" (family_id), "types", "issuer"
          account,  \* the initial admin has signed up
          stores,   \* the OpenFGA stores made so far, oldest first: 1..stores
          models,   \* the stores that have an authorization model
          admins,   \* the stores with the admin tuple of the initial admin
          up,       \* OpenFGA answers
          proc,     \* each process
          deaths,   \* kills so far
          crossed   \* history: two starts overlapped, or one died before it filled the file

disk == <<file, present, account, stores, models, admins>>
vars == <<file, present, account, stores, models, admins, up, proc, deaths, crossed>>

Secrets == Procs \cup {Old}
Stages == {"down", "secret", "create", "fill", "read", "tables", "create tables", "column",
           "add column", "types", "convert", "healthz", "store", "post store", "model", "post model", "admin",
           "grant admin", "issuer", "add issuer", "serving"}

Process == [stage: Stages, secret: Secrets \cup {"none", "blank"},
            store: 0..Cardinality(Procs), attempt: 0..MaxAttempts]

Down == [stage |-> "down", secret |-> "none", store |-> 0, attempt |-> 0]

At(p, stage) == proc[p].stage = stage
Serving(p) == At(p, "serving")
Starting(p) == ~At(p, "down") /\ ~Serving(p)
Go(p, stage) == proc' = [proc EXCEPT ![p].stage = stage]
GoWith(p, stage, field, value) == proc' = [proc EXCEPT ![p].stage = stage, ![p][field] = value]
Die(p) == proc' = [proc EXCEPT ![p] = Down]

-----------------------------------------------------------------------------
\* A new deployment, or one over the volumes of a version without family_id.
Init ==
  /\ \/ file = "none" /\ present = {} /\ account = FALSE /\ stores = 0 /\ models = {}
     \/ file = Old /\ present = {"tables"} /\ account \in BOOLEAN /\ stores = 1 /\ models = {1}
  /\ admins = {}
  /\ up = FALSE /\ deaths = 0 /\ crossed = FALSE
  /\ proc = [p \in Procs |-> Down]

Start(p) ==
  /\ At(p, "down")
  /\ Go(p, "secret")
  /\ crossed' = (crossed \/ \E q \in Procs : Starting(q))
  /\ UNCHANGED <<disk, up, deaths>>

\* _load_or_create_secret_key.
CheckSecret(p) ==
  /\ At(p, "secret")
  /\ Go(p, IF file = "none" THEN "create" ELSE "read")
  /\ UNCHANGED <<disk, up, deaths, crossed>>

\* O_CREAT | O_EXCL: the file is created empty, unless another process has done so.
Exclusive_Truncating == TRUE  \* mutant
Exclusive == file = "none"

CreateSecret(p) ==
  /\ At(p, "create")
  /\ IF Exclusive THEN file' = "blank" /\ Go(p, "fill")
                  ELSE file' = file /\ Go(p, "read")
  /\ UNCHANGED <<present, account, stores, models, admins, up, deaths, crossed>>

FillSecret(p) ==
  /\ At(p, "fill")
  /\ file' = p
  /\ GoWith(p, "tables", "secret", p)
  /\ UNCHANGED <<present, account, stores, models, admins, up, deaths, crossed>>

ReadSecret(p) ==
  /\ At(p, "read")
  /\ GoWith(p, "tables", "secret", file)
  /\ UNCHANGED <<disk, up, deaths, crossed>>

-----------------------------------------------------------------------------
\* main.py looks for a thing in the database and adds it when it is missing: the tables
\* (new ones are as the models say), the patched column, the types of the amount and of
\* the timestamps, the default issuer.
Lookup == [tables |-> "create tables", column |-> "add column", types |-> "convert",
           issuer |-> "add issuer"]
After == [tables |-> "column", column |-> "types", types |-> "healthz", issuer |-> "serving"]
Added == [tables |-> {"tables", "column", "types"}, column |-> {"column"},
          types |-> {"types"}, issuer |-> {"issuer"}]

Missing_Unchecked(thing) == TRUE  \* mutant
Missing(thing) == thing \notin present

Look(p, thing) ==
  /\ At(p, thing)
  /\ Go(p, IF Missing(thing) THEN Lookup[thing] ELSE After[thing])
  /\ UNCHANGED <<disk, up, deaths, crossed>>

\* Whoever adds what another process has added meanwhile gets an error that nothing
\* catches: the process does not start.
Add(p, thing) ==
  /\ thing # "types" /\ At(p, Lookup[thing])
  /\ IF thing \in present THEN Die(p) /\ present' = present
                          ELSE Go(p, After[thing]) /\ present' = present \cup Added[thing]
  /\ UNCHANGED <<file, account, stores, models, admins, up, deaths, crossed>>

\* A conversion can be repeated; one that fails is logged and the process goes on.
Convert(p) ==
  /\ At(p, "convert")
  /\ present' \in {present, present \cup {"types"}}
  /\ Go(p, After.types)
  /\ UNCHANGED <<file, account, stores, models, admins, up, deaths, crossed>>

-----------------------------------------------------------------------------
\* bootstrap: wait for OpenFGA, giving up after MaxAttempts; later calls do not retry.
LastAttempt_Never(p) == FALSE  \* mutant
LastAttempt(p) == proc[p].attempt + 1 = MaxAttempts

Healthz(p) ==
  /\ At(p, "healthz")
  /\ IF up THEN Go(p, "store")
     ELSE IF LastAttempt(p) THEN Die(p)
     ELSE proc' = [proc EXCEPT ![p].attempt = @ + 1]
  /\ UNCHANGED <<disk, up, deaths, crossed>>

\* The first store in the listing with our name.
Existing_None == 0         \* mutant
Existing == IF stores = 0 THEN 0 ELSE 1

FindStore(p) ==
  /\ At(p, "store") /\ up
  /\ IF Existing = 0 THEN Go(p, "post store") ELSE GoWith(p, "model", "store", Existing)
  /\ UNCHANGED <<disk, up, deaths, crossed>>

PostStore(p) ==
  /\ At(p, "post store") /\ up
  /\ stores' = stores + 1
  /\ GoWith(p, "model", "store", stores + 1)
  /\ UNCHANGED <<file, present, account, models, admins, up, deaths, crossed>>

FindModel(p) ==
  /\ At(p, "model") /\ up
  /\ Go(p, IF proc[p].store \in models THEN "admin" ELSE "post model")
  /\ UNCHANGED <<disk, up, deaths, crossed>>

PostModel(p) ==
  /\ At(p, "post model") /\ up
  /\ models' = models \cup {proc[p].store}
  /\ Go(p, "admin")
  /\ UNCHANGED <<file, present, account, stores, admins, up, deaths, crossed>>

\* INITIAL_ADMIN_USERNAMES: the account is looked up and grant_admin checks, then writes;
\* OpenFGA refuses a tuple it has, and the process does not start.
CheckAdmin(p) ==
  /\ At(p, "admin") /\ up
  /\ Go(p, IF account /\ proc[p].store \notin admins THEN "grant admin" ELSE "issuer")
  /\ UNCHANGED <<disk, up, deaths, crossed>>

GrantAdmin(p) ==
  /\ At(p, "grant admin") /\ up
  /\ IF proc[p].store \in admins THEN Die(p) ELSE Go(p, "issuer")
  /\ admins' = admins \cup {proc[p].store}
  /\ UNCHANGED <<file, present, account, stores, models, up, deaths, crossed>>

-----------------------------------------------------------------------------
\* OpenFGA goes and comes.  A call to it fails when it is down: the process dies.
Toggle == up' = ~up /\ UNCHANGED <<disk, proc, deaths, crossed>>

CallFails(p) ==
  /\ ~up
  /\ proc[p].stage \in {"store", "post store", "model", "post model", "admin", "grant admin"}
  /\ Die(p)
  /\ UNCHANGED <<disk, up, deaths, crossed>>

\* A process is killed, at any step: a deployment, the platform, a restart.
Kill(p) ==
  /\ ~At(p, "down") /\ deaths < MaxDeaths
  /\ Die(p)
  /\ deaths' = deaths + 1
  /\ crossed' = (crossed \/ At(p, "fill"))
  /\ UNCHANGED <<disk, up>>

SignUp ==
  /\ ~account /\ \E p \in Procs : Serving(p)
  /\ account' = TRUE
  /\ UNCHANGED <<file, present, stores, models, admins, up, proc, deaths, crossed>>

Step(p) ==
  \/ CheckSecret(p) \/ CreateSecret(p) \/ FillSecret(p) \/ ReadSecret(p)
  \/ \E thing \in DOMAIN Lookup : Look(p, thing) \/ Add(p, thing)
  \/ Convert(p)
  \/ Healthz(p) \/ FindStore(p) \/ PostStore(p) \/ FindModel(p) \/ PostModel(p)
  \/ CheckAdmin(p) \/ GrantAdmin(p) \/ CallFails(p)

Next ==
  \/ \E p \in Procs : Start(p) \/ Step(p) \/ Kill(p)
  \/ Toggle \/ SignUp

\* The platform starts a process that is down, and a process runs.
Fairness == \A p \in Procs : WF_vars(Start(p)) /\ WF_vars(Step(p))

Spec == Init /\ [][Next]_vars /\ Fairness

-----------------------------------------------------------------------------
\* Types.
TypeOK ==
  /\ file \in Secrets \cup {"none", "blank"}
  /\ present \subseteq {"tables", "column", "types", "issuer"}
  /\ account \in BOOLEAN /\ up \in BOOLEAN /\ crossed \in BOOLEAN
  /\ stores \in 0..Cardinality(Procs)
  /\ models \subseteq 1..stores /\ admins \subseteq 1..stores
  /\ proc \in [Procs -> Process]
  /\ deaths \in 0..MaxDeaths

\* As long as processes start one after the other, and none is killed between creating
\* the secret's file and filling it, those that serve sign with one secret, the file's,
\* and keep their tuples in one store, however often they are killed otherwise
\* (auth.py:38-68, authz/client.py:26-75: "idempotent").
StartsInTurnAgree ==
  ~crossed => /\ \A p \in Procs : Serving(p) => proc[p].secret = file /\ file \in Secrets
              /\ \A p \in Procs : Serving(p) => proc[p].store = 1
              /\ stores <= 1

\* A secret, once written, stays: a restart signs and verifies with the one before it.
SecretKept == [][(file \in Secrets) => UNCHANGED file]_vars

\* If OpenFGA comes up for good, every process serves in the end: a start that lost a
\* race died, and finds on its next run what the winner made (main.py:39-170).
EveryoneServes == <>[]up => <>[](\A p \in Procs : Serving(p))

\* The loser of the race for the file uses the winner's secret (auth.py:65-68: "whoever
\* won already wrote a value, so use that instead").
SecretAgreed == \A p \in Procs : Serving(p) => proc[p].secret \in Secrets
=============================================================================
