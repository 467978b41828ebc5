--------------------------- MODULE ProcessMemory ----------------------------
(***************************************************************************)
(* The tables that the server keeps in its own memory, and its webhooks.   *)
(* They share nothing but the process: a behaviour exercises the one it    *)
(* begins with, and the variables stand for the state of that one.         *)
(***************************************************************************)
EXTENDS Integers, Sequences, FiniteSets

CONSTANTS Threads, None,
          Keys, MaxAttempts, Window, MaxTrackedKeys,            \* RateLimit's
          StateTTL, MaxPending, MaxStates,                      \* GoogleStates'
          Urls, CacheTTL, MaxCacheSize, MaxFetch, MaxVersion,   \* RemoteDocuments'
          Issuers, KeysTTL, KeysFetch,                          \* CrossAppAccess'
          Public, Private, NegativeTTL, MaxCities,              \* CityLookup's
          Events, Receivers, RetryBackoff,                      \* Webhooks'
          MaxTime   \* bound: where the clock of each stops

VARIABLES focus,    \* the component exercised
          now,
          table,    \* its table
          calls,    \* its threads or requests
          rows,     \* its rows in the database
          outside,  \* what is not the server's
          past      \* its history

all == <<focus, now, table, calls, rows, outside, past>>

Rate == INSTANCE RateLimit
          WITH buckets <- table, tally <- past, MaxTime <- MaxTime.rate
Google == INSTANCE GoogleStates
            WITH pending <- table, requests <- calls, tally <- past, MaxTime <- MaxTime.google
Documents == INSTANCE RemoteDocuments
               WITH cache <- table, requests <- calls, published <- outside,
                    Requests <- Threads, MaxTime <- MaxTime.documents
\* The keys' cache has no cap: it holds as many entries as there are URLs.
Access == INSTANCE CrossAppAccess
            WITH cache <- table, requests <- calls, published <- outside, trusted <- rows,
                 assertions <- past, Requests <- Threads, CacheTTL <- KeysTTL,
                 MaxCacheSize <- Cardinality(Urls), MaxFetch <- KeysFetch,
                 MaxTime <- MaxTime.access
City == INSTANCE CityLookup
          WITH cache <- table, pages <- calls, failures <- past,
               MaxCacheSize <- MaxCities, MaxTime <- MaxTime.city
Hooks == INSTANCE Webhooks
           WITH endpoints <- rows, deliveries <- calls, up <- outside, MaxTime <- MaxTime.hooks

Components == {"rate", "google", "documents", "access", "city", "hooks"}

ASSUME SizesOK ==
  /\ IsFiniteSet(Threads) /\ Threads # {}
  /\ MaxTime \in [Components -> Nat]
  /\ None \notin Keys \cup Urls
  /\ MaxAttempts \in Nat \ {0} /\ Window \in Nat \ {0} /\ MaxTrackedKeys \in Nat \ {0}
  /\ StateTTL \in Nat /\ MaxPending \in Nat /\ MaxStates \in Nat
  /\ CacheTTL \in Nat /\ MaxCacheSize \in Nat \ {0} /\ MaxFetch \in Nat
  /\ MaxVersion \in Nat \ {0}
  /\ IsFiniteSet(Urls) /\ Urls # {} /\ KeysTTL \in Nat /\ KeysFetch \in Nat
  /\ None # "none" /\ None \notin 0..MaxTime.city + NegativeTTL
  /\ Public \cap Private = {} /\ NegativeTTL \in Nat \ {0} /\ MaxCities \in Nat \ {0}
  /\ RetryBackoff \in Seq(Nat)

Init ==
  \/ focus = "rate" /\ Rate!Init /\ rows = {} /\ outside = {}
  \/ focus = "google" /\ Google!Init /\ rows = {} /\ outside = {}
  \/ focus = "documents" /\ Documents!Init /\ rows = {} /\ past = {}
  \/ focus = "access" /\ Access!CaaInit
  \/ focus = "city" /\ City!Init /\ rows = {} /\ outside = {}
  \/ focus = "hooks" /\ Hooks!Init /\ table = {} /\ past = {}

Next ==
  \/ focus = "rate" /\ Rate!Next /\ UNCHANGED <<focus, rows, outside>>
  \/ focus = "google" /\ Google!Next /\ UNCHANGED <<focus, rows, outside>>
  \/ focus = "documents" /\ Documents!Next /\ UNCHANGED <<focus, rows, past>>
  \/ focus = "access" /\ Access!CaaNext /\ UNCHANGED focus
  \/ focus = "city" /\ City!Next /\ UNCHANGED <<focus, rows, outside>>
  \/ focus = "hooks" /\ Hooks!Next /\ UNCHANGED <<focus, table, past>>

Spec == Init /\ [][Next]_all

-----------------------------------------------------------------------------
\* Types: the exercised component's own (rate_limit.py, google_oauth.py, oauth/cimd.py,
\* oauth/cross_app_access.py, geoip.py, webhooks.py).
TypeOK ==
  CASE focus = "rate" -> Rate!TypeOK
    [] focus = "google" -> Google!TypeOK
    [] focus = "documents" -> Documents!TypeOK
    [] focus = "access" -> Access!TypeOK
    [] focus = "city" -> City!TypeOK
    [] focus = "hooks" -> Hooks!TypeOK

\* RateLimit's: no window's length admits more than two windows and the other threads allow
\* (rate_limit.py:31-54).
AttemptsBounded == focus = "rate" => Rate!AttemptsBounded

\* GoogleStates': a state signs in once, and in time (google_oauth.py:80-84).
StatesAcceptedOnce == focus = "google" => Google!StatesAcceptedOnce

\* GoogleStates': the cap holds but for the requests in their loop (google_oauth.py:60-66).
PendingBounded == focus = "google" => Google!PendingBounded

\* RemoteDocuments': no document older than the TTL and a fetch is used (oauth/cimd.py:73-110).
DocumentsFresh == focus = "documents" => Documents!DocumentsFresh

\* CrossAppAccess': keys are accepted and refused as they were at most the TTL and a fetch
\* ago, at the URL named for the issuer (oauth/cross_app_access.py:63-102).
KeysHonoured == focus = "access" => Access!KeysHonoured

\* CityLookup's: no failure hides a city for longer than the negative TTL (geoip.py:62-133).
AnswersHonest == focus = "city" => City!AnswersHonest

\* Webhooks': an outage shorter than the pauses costs no event (webhooks.py:45-70).
OutageOutlived == focus = "hooks" => Hooks!OutageOutlived
=============================================================================
