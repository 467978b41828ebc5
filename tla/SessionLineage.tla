--------------------------- MODULE SessionLineage ---------------------------
(***************************************************************************)
(* What the authorization server promises about a login: a session is      *)
(* opened with one refresh token, lives by exactly one token at a time,    *)
(* trades it for one never seen before, and once closed stays closed.      *)
(* A session is named by its first token.                                  *)
(***************************************************************************)
CONSTANTS Tokens, None

VARIABLES phase,    \* phase[s]: "new", "open" or "closed"
          current,  \* current[s]: the token an open session lives by
          seen      \* every token ever issued

lineageVars == <<phase, current, seen>>

Init ==
  /\ phase = [s \in Tokens |-> "new"]
  /\ current = [s \in Tokens |-> None]
  /\ seen = {}

\* A login.
Open(s) ==
  /\ phase[s] = "new"
  /\ s \notin seen
  /\ phase' = [phase EXCEPT ![s] = "open"]
  /\ current' = [current EXCEPT ![s] = s]
  /\ seen' = seen \cup {s}

\* A refresh.
Rotate(s, t) ==
  /\ phase[s] = "open"
  /\ t \notin seen
  /\ current' = [current EXCEPT ![s] = t]
  /\ seen' = seen \cup {t}
  /\ UNCHANGED phase

\* A revocation, a detected reuse, or a rotation that did not survive.
Close(s) ==
  /\ phase[s] = "open"
  /\ phase' = [phase EXCEPT ![s] = "closed"]
  /\ current' = [current EXCEPT ![s] = None]
  /\ UNCHANGED seen

Next == \E s \in Tokens : \/ Open(s)
                          \/ \E t \in Tokens : Rotate(s, t)
                          \/ Close(s)

Spec == Init /\ [][Next]_lineageVars
=============================================================================
