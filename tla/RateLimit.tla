----------------------------- MODULE RateLimit ------------------------------
(***************************************************************************)
(* The attempt counter of the sign-in endpoints (rate_limit.py): a table   *)
(* of fixed windows, one for each key, capped by dropping the key touched  *)
(* longest ago.  The callers are threadpool threads: the clock is read     *)
(* before the lock is taken, and what is under the lock is one step.       *)
(***************************************************************************)
EXTENDS Integers, Sequences, FiniteSetsExt

CONSTANTS Threads, Keys, None,
          MaxAttempts, Window, MaxTrackedKeys,
          MaxTime  \* bound: the clock stops here

VARIABLES now,
          buckets,  \* _buckets, the key touched longest ago first
          calls,    \* what each thread has read before the lock
          tally     \* history: admissions by key and time, who came after, who was let go

vars == <<now, buckets, calls, tally>>

Times == 0..MaxTime
Bucket == [key: Keys, start: Times, count: 0..MaxAttempts + 1]
Idle == [key |-> None, at |-> 0]

Init ==
  /\ now = 0 /\ buckets = <<>>
  /\ calls = [th \in Threads |-> Idle]
  /\ tally = [admitted |-> [k \in Keys |-> [t \in Times |-> 0]],
              after |-> [k \in Keys |-> {}],  \* the other keys counted since k was
              crowded |-> {}]                 \* the keys dropped for as many others as fit

Entries(k) == {i \in DOMAIN buckets : buckets[i].key = k}

\* The bucket of a key as `at` finds it: a new one, or one whose window is over, is empty.
BucketAt(k, at) ==
  IF Entries(k) = {} THEN [key |-> k, start |-> at, count |-> 0]
  ELSE LET b == buckets[CHOOSE i \in Entries(k) : TRUE] IN
       IF at - b.start >= Window THEN [b EXCEPT !.start = at, !.count = 0] ELSE b

\* All counts above MaxAttempts are refused alike, and kept as one.
Counted(b) == [b EXCEPT !.count = IF @ > MaxAttempts THEN @ ELSE @ + 1]

\* The table without the key's bucket.
Others(k) ==
  IF Entries(k) = {} THEN buckets
  ELSE LET p == CHOOSE i \in Entries(k) : TRUE
       IN  SubSeq(buckets, 1, p - 1) \o SubSeq(buckets, p + 1, Len(buckets))

\* The keys that stay under the cap.
Kept_Oldest(seq) == SubSeq(seq, 1, Min({Len(seq), MaxTrackedKeys}))  \* mutant
Kept(seq) == SubSeq(seq, Max({1, Len(seq) - MaxTrackedKeys + 1}), Len(seq))

\* enforce: the clock.
ReadClock(th, k) ==
  /\ calls[th] = Idle
  /\ calls' = [calls EXCEPT ![th] = [key |-> k, at |-> now]]
  /\ UNCHANGED <<now, buckets, tally>>

\* enforce: the locked part.  The attempt is admitted if the count allows it.
Enforce(th) ==
  LET k == calls[th].key
      at == calls[th].at
      b == Counted(BucketAt(k, at))
      dropped == {x \in {k} \cup {y \in Keys : Entries(y) # {}} :
                    \A i \in DOMAIN buckets' : buckets'[i].key # x}
      after == [x \in Keys |-> IF x = k THEN {} ELSE tally.after[x] \cup {k}]
      crowded == tally.crowded
                   \cup {x \in dropped : Cardinality(after[x]) >= MaxTrackedKeys}
  IN /\ calls[th] # Idle
     /\ buckets' = Kept(Append(Others(k), b))
     /\ tally' = [after |-> after, crowded |-> crowded,
                  admitted |-> IF b.count > MaxAttempts \/ k \in crowded THEN tally.admitted
                               ELSE [tally.admitted EXCEPT ![k][at] = @ + 1]]
     /\ calls' = [calls EXCEPT ![th] = Idle]
     /\ UNCHANGED now

Tick ==
  /\ now < MaxTime /\ now' = now + 1
  /\ UNCHANGED <<buckets, calls, tally>>

Next ==
  \/ \E th \in Threads : (\E k \in Keys : ReadClock(th, k)) \/ Enforce(th)
  \/ Tick

Spec == Init /\ [][Next]_vars

-----------------------------------------------------------------------------
\* Types: one bucket for each key, counted and dated.
TypeOK ==
  /\ now \in Times
  /\ buckets \in Seq(Bucket)
  /\ \A i, j \in DOMAIN buckets : buckets[i].key = buckets[j].key => i = j
  /\ \A th \in Threads : calls[th] = Idle \/ calls[th] \in [key: Keys, at: Times]

\* Of the attempts at a key that fall within one window's length, wherever it is laid, fewer
\* are admitted than two windows allow and one more for each other thread, which may have
\* read the clock long before it is counted: unless the key was dropped for as many other
\* keys as the table holds (rate_limit.py:31-54).
AttemptsBounded ==
  \A k \in Keys \ tally.crowded : \A t \in Times :
    MapThenSumSet(LAMBDA x : tally.admitted[k][x],
                  {x \in Times : t <= x /\ x < t + Window})
      <= 2 * MaxAttempts + Cardinality(Threads) - 2
=============================================================================
