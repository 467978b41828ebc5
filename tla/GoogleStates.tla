---------------------------- MODULE GoogleStates ----------------------------
(***************************************************************************)
(* The states of sign-ins sent to Google and not yet back                  *)
(* (google_oauth.py): a dictionary in the order of insertion, pruned by    *)
(* age, capped by dropping the oldest, emptied of a state when it comes    *)
(* back.  Nothing locks it: the two routes are threadpool threads, which   *)
(* may be switched between any two of the steps below.                     *)
(***************************************************************************)
EXTENDS Integers, FiniteSets

CONSTANTS Threads,
          StateTTL, MaxPending,
          MaxStates,  \* bound: as many sign-ins are begun
          MaxTime     \* bound: the clock stops here

VARIABLES now,
          pending,   \* _pending_states: when each state it holds was issued
          requests,  \* what each thread serves
          tally      \* history: the states issued and accepted

vars == <<now, pending, requests, tally>>

Times == 0..MaxTime
\* States are drawn at random and never twice: they are numbered as they are issued, so
\* that their order is the order of insertion.
States == 1..MaxStates
Request == [stage: {"idle", "scanning", "pruning", "storing", "trimming", "picking",
                    "dropping", "claiming"},
            state: States \cup {0},  \* brought back by the browser, or about to be dropped
            cutoff: Int, size: Nat, expired: SUBSET States]

Idle == [stage |-> "idle", state |-> 0, cutoff |-> 0, size |-> 0, expired |-> {}]
At(th, stage) == requests[th].stage = stage
Goto(th, stage) == requests' = [requests EXCEPT ![th].stage = stage]
Done(th) == requests' = [requests EXCEPT ![th] = Idle]

Held == DOMAIN pending
Without(S) == [s \in Held \ S |-> pending[s]]

Init ==
  /\ now = 0 /\ pending = [s \in {} |-> 0]
  /\ requests = [th \in Threads |-> Idle]
  /\ tally = [issued |-> 0, at |-> [s \in States |-> 0], accepted |-> [s \in States |-> 0],
              late |-> {}]

\* google_login, and google_callback with the state it is given: both prune first.  The
\* cutoff is computed and the scan of the entries begins.
BeginScan(th, s) ==
  /\ At(th, "idle") /\ s <= tally.issued
  /\ requests' = [requests EXCEPT ![th] = [Idle EXCEPT !.stage = "scanning", !.state = s,
                                             !.cutoff = now - StateTTL, !.size = Cardinality(Held)]]
  /\ UNCHANGED <<now, pending, tally>>

Expired(cutoff) == {s \in Held : pending[s] < cutoff}

\* The scan ends: if another thread has changed the size of the dictionary under it, in a
\* RuntimeError.
EndScan(th) ==
  /\ At(th, "scanning")
  /\ IF Cardinality(Held) = requests[th].size
       THEN requests' = [requests EXCEPT ![th].stage = "pruning",
                                         ![th].expired = Expired(requests[th].cutoff)]
       ELSE Done(th)
  /\ UNCHANGED <<now, pending, tally>>

PopExpired(th) ==
  /\ At(th, "pruning")
  /\ pending' = Without(requests[th].expired)
  /\ requests' = [requests EXCEPT ![th].stage = IF requests[th].state = 0 THEN "storing"
                                                ELSE "claiming",
                                  ![th].expired = {}, ![th].size = 0]
  /\ UNCHANGED <<now, tally>>

\* build_authorize_url, after the pruning.
Store(th) ==
  /\ At(th, "storing") /\ tally.issued < MaxStates
  /\ LET new == tally.issued + 1 IN
       /\ pending' = [s \in Held \cup {new} |-> IF s = new THEN now ELSE pending[s]]
       /\ tally' = [tally EXCEPT !.issued = new, !.at[new] = now]
  /\ requests' = [requests EXCEPT ![th].stage = "trimming", ![th].cutoff = 0]
  /\ UNCHANGED now

\* The loop over the cap: its test, the choice of the oldest entry (none left:
\* StopIteration), and the removal of what was chosen, if it is still there.
TestSize(th) ==
  /\ At(th, "trimming")
  /\ IF Cardinality(Held) > MaxPending THEN Goto(th, "picking") ELSE Done(th)
  /\ UNCHANGED <<now, pending, tally>>

PickOldest(th) ==
  /\ At(th, "picking")
  /\ IF Held = {} THEN Done(th)
     ELSE \E oldest \in Held :
            /\ \A s \in Held : oldest <= s
            /\ requests' = [requests EXCEPT ![th].stage = "dropping", ![th].state = oldest]
  /\ UNCHANGED <<now, pending, tally>>

AfterDrop_Once == "idle"  \* mutant
AfterDrop == "trimming"

DropOldest(th) ==
  /\ At(th, "dropping")
  /\ pending' = Without({requests[th].state})
  /\ requests' = [requests EXCEPT ![th] = [Idle EXCEPT !.stage = AfterDrop]]
  /\ UNCHANGED <<now, tally>>

\* consume_state, after the pruning: one pop, which accepts the state if it was there.
Claimed_Kept(s) == pending  \* mutant
Claimed(s) == Without({s})

ConsumeState(th) ==
  LET s == requests[th].state IN
  /\ At(th, "claiming")
  /\ pending' = Claimed(s)
  /\ tally' = IF s \notin Held THEN tally
              ELSE [tally EXCEPT !.accepted[s] = @ + 1,
                                 !.late = IF tally.at[s] < requests[th].cutoff
                                            THEN @ \cup {s} ELSE @]
  /\ Done(th)
  /\ UNCHANGED now

\* The process ends and starts again: the dictionary is empty.
Restart ==
  /\ pending' = [s \in {} |-> 0]
  /\ requests' = [th \in Threads |-> Idle]
  /\ UNCHANGED <<now, tally>>

Tick ==
  /\ now < MaxTime /\ now' = now + 1
  /\ UNCHANGED <<pending, requests, tally>>

Next ==
  \/ \E th \in Threads :
       \/ \E s \in States \cup {0} : BeginScan(th, s)
       \/ EndScan(th) \/ PopExpired(th) \/ Store(th)
       \/ TestSize(th) \/ PickOldest(th) \/ DropOldest(th) \/ ConsumeState(th)
  \/ Restart \/ Tick

Spec == Init /\ [][Next]_vars

-----------------------------------------------------------------------------
\* Types: entries and requests have the fields the code gives them, and what is held was
\* issued.
TypeOK ==
  /\ now \in Times
  /\ Held \subseteq 1..tally.issued /\ pending \in [Held -> Times]
  /\ requests \in [Threads -> Request]
  /\ tally \in [issued: 0..MaxStates, at: [States -> Times], accepted: [States -> Nat],
                late: SUBSET States]

\* However often and by however many threads a state is brought back, it signs in once, and
\* never in a request that began more than the TTL after it was issued, whatever pruning by
\* other threads it interrupts (google_oauth.py:53-57, 80-84).
StatesAcceptedOnce ==
  /\ \A s \in States : tally.accepted[s] <= 1
  /\ tally.late = {}

\* The cap holds although nothing locks the table: above it there are only the entries of
\* requests still in their loop (google_oauth.py:39-45, 60-66).
PendingBounded ==
  Cardinality(Held) <= MaxPending + Cardinality({th \in Threads : requests[th].stage
                                             \in {"trimming", "picking", "dropping"}})
=============================================================================
