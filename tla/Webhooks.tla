------------------------------ MODULE Webhooks ------------------------------
(***************************************************************************)
(* The delivery of events to registered receivers (webhooks.py): the       *)
(* request that raises an event reads the endpoints and starts a thread    *)
(* for each, which makes a few attempts with pauses between them.          *)
(* Nothing is stored: what is under way when the process ends is lost.     *)
(* What the event says and how it is signed is left out.                   *)
(***************************************************************************)
EXTENDS Integers, Sequences, FiniteSetsExt

CONSTANTS Events, Receivers,
          RetryBackoff,  \* the pauses between attempts, one fewer than these
          MaxTime        \* bound: the clock stops here

VARIABLES now,
          endpoints,   \* the rows of webhook_endpoints
          deliveries,  \* _deliver_with_retry, a thread for each event and receiver
          up           \* the receivers that answer at the moment

vars == <<now, endpoints, deliveries, up>>

Times == 0..MaxTime
MaxDeliveryAttempts == Len(RetryBackoff) + 1
Delivery == [stage: {"none", "sending", "pausing", "delivered", "missed", "lost"},
             attempt: 1..MaxDeliveryAttempts, until: Nat,
             began: Times, ended: Times]  \* history: of the first and the last attempt

NoDelivery == [stage |-> "none", attempt |-> 1, until |-> 0, began |-> 0, ended |-> 0]
At(e, r, stage) == deliveries[<<e, r>>].stage = stage
Set(e, r, new) == deliveries' = [deliveries EXCEPT ![<<e, r>>] = new]

Init ==
  /\ now = 0 /\ endpoints = {} /\ up \in SUBSET Receivers
  /\ deliveries = [d \in Events \X Receivers |-> NoDelivery]

\* create_webhook and delete_webhook: a deletion stops no delivery under way.
CreateWebhook(r) ==
  /\ r \notin endpoints
  /\ endpoints' = endpoints \cup {r}
  /\ UNCHANGED <<now, deliveries, up>>

DeleteWebhook(r) ==
  /\ r \in endpoints
  /\ endpoints' = endpoints \ {r}
  /\ UNCHANGED <<now, deliveries, up>>

\* dispatch_event: the targets are copied, and each has its thread.
DispatchEvent(e) ==
  /\ endpoints # {}
  /\ \A r \in Receivers : At(e, r, "none")
  /\ deliveries' = [d \in DOMAIN deliveries |->
       IF d[1] = e /\ d[2] \in endpoints
         THEN [NoDelivery EXCEPT !.stage = "sending", !.began = now] ELSE deliveries[d]]
  /\ UNCHANGED <<now, endpoints, up>>

\* An attempt, which takes no time or several ticks: the answer is a success, or an error
\* when the receiver is down.
Answered(e, r) ==
  /\ At(e, r, "sending") /\ r \in up
  /\ Set(e, r, [deliveries[<<e, r>>] EXCEPT !.stage = "delivered", !.ended = now])
  /\ UNCHANGED <<now, endpoints, up>>

Pause_First(attempt) == RetryBackoff[1]  \* mutant
Pause(attempt) == RetryBackoff[attempt]

AttemptFailed(e, r) ==
  LET d == deliveries[<<e, r>>] IN
  /\ At(e, r, "sending") /\ r \notin up
  /\ Set(e, r, IF d.attempt = MaxDeliveryAttempts
                 THEN [d EXCEPT !.stage = "missed", !.ended = now]
                 ELSE [d EXCEPT !.stage = "pausing", !.until = now + Pause(d.attempt)])
  /\ UNCHANGED <<now, endpoints, up>>

Retry(e, r) ==
  /\ At(e, r, "pausing") /\ now >= deliveries[<<e, r>>].until
  /\ Set(e, r, [deliveries[<<e, r>>] EXCEPT !.stage = "sending", !.attempt = @ + 1])
  /\ UNCHANGED <<now, endpoints, up>>

\* The threads are daemons: they end with the process.
Restart ==
  /\ deliveries' = [d \in DOMAIN deliveries |->
       IF deliveries[d].stage \in {"sending", "pausing"}
         THEN [NoDelivery EXCEPT !.stage = "lost"] ELSE deliveries[d]]
  /\ UNCHANGED <<now, endpoints, up>>

ComesUp(r) == /\ r \notin up /\ up' = up \cup {r}
              /\ UNCHANGED <<now, endpoints, deliveries>>
GoesDown(r) == /\ r \in up /\ up' = up \ {r}
               /\ UNCHANGED <<now, endpoints, deliveries>>

Tick ==
  /\ now < MaxTime /\ now' = now + 1
  /\ UNCHANGED <<endpoints, deliveries, up>>

Next ==
  \/ \E r \in Receivers :
       \/ CreateWebhook(r) \/ DeleteWebhook(r) \/ ComesUp(r) \/ GoesDown(r)
       \/ \E e \in Events : Answered(e, r) \/ AttemptFailed(e, r) \/ Retry(e, r)
  \/ \E e \in Events : DispatchEvent(e)
  \/ Restart \/ Tick

Spec == Init /\ [][Next]_vars

-----------------------------------------------------------------------------
\* Types: deliveries have the fields the code gives them.
TypeOK ==
  /\ now \in Times
  /\ endpoints \subseteq Receivers /\ up \subseteq Receivers
  /\ deliveries \in [Events \X Receivers -> Delivery]

\* A receiver that is down for no longer than the pauses together still gets its event: one
\* is given up only at a failure as late as that after the first attempt, unless the
\* process ended meanwhile (webhooks.py:9-13, 55-70).
OutageOutlived ==
  \A d \in DOMAIN deliveries :
    deliveries[d].stage = "missed" =>
      deliveries[d].ended - deliveries[d].began
        >= MapThenSumSet(LAMBDA i : RetryBackoff[i], DOMAIN RetryBackoff)
=============================================================================
