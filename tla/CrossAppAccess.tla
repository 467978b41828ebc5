--------------------------- MODULE CrossAppAccess ---------------------------
(***************************************************************************)
(* The exchange of an identity provider's assertion for tokens             *)
(* (oauth/cross_app_access.py): the provider's row is read, its keys are   *)
(* fetched or taken from the cache, and the signature is checked against   *)
(* the one that the assertion names.  Administrators meanwhile add and     *)
(* remove providers, and a provider replaces its key.                      *)
(***************************************************************************)
EXTENDS RemoteDocuments

CONSTANT Issuers

VARIABLES trusted,    \* trusted_issuers: the keys' URL of each issuer, or None
          assertions  \* the assertion that each request is about

caaVars == <<now, cache, requests, published, trusted, assertions>>

\* An assertion names its issuer and its key: the one published at a URL as a version.
NoAssertion == [issuer |-> None, url |-> None, version |-> 0]
Assertion == [issuer: Issuers, url: Urls, version: Versions]

CaaInit ==
  /\ Init
  /\ trusted = [i \in Issuers |-> None]
  /\ assertions = [r \in Requests |-> NoAssertion]

\* verify_identity_assertion: an issuer without a row is refused.
Present(r, a) ==
  /\ trusted[a.issuer] # None
  /\ a.version <= Len(published[a.url])
  /\ Hit(r, trusted[a.issuer]) \/ BeginFetch(r, trusted[a.issuer])
  /\ assertions' = [assertions EXCEPT ![r] = a]
  /\ UNCHANGED trusted

\* The key named is looked for in the document, and must have made the signature.
Accepts_AnyKey(r) == TRUE  \* mutant
Accepts(r) ==
  /\ assertions[r].version = requests[r].version
  /\ assertions[r].url = requests[r].url

\* add_trusted_issuer, remove_trusted_issuer: there is one row for an issuer.
AddTrustedIssuer(i, u) ==
  /\ trusted[i] = None
  /\ trusted' = [trusted EXCEPT ![i] = u]
  /\ UNCHANGED <<vars, assertions>>

RemoveTrustedIssuer(i) ==
  /\ trusted[i] # None
  /\ trusted' = [trusted EXCEPT ![i] = None]
  /\ UNCHANGED <<vars, assertions>>

\* A request that is over is about nothing.
Forget == assertions' = [r \in Requests |-> IF requests'[r] = Idle THEN NoAssertion
                                           ELSE assertions[r]]

CaaNext ==
  \/ \E r \in Requests, a \in Assertion : Present(r, a)
  \/ (Serve \/ Environment) /\ Forget /\ UNCHANGED trusted
  \/ \E i \in Issuers : (\E u \in Urls : AddTrustedIssuer(i, u)) \/ RemoveTrustedIssuer(i)

CaaSpec == CaaInit /\ [][CaaNext]_caaVars

-----------------------------------------------------------------------------
\* A key that its provider has withdrawn, or of a server no longer named for the issuer,
\* signs no one in once the TTL and one fetch have passed; a key published for as long is
\* not refused (oauth/cross_app_access.py:29-50, 77, 87).
KeysHonoured ==
  \A r \in Requests : At(r, "answered") =>
    LET a == assertions[r]
        since == requests[r].at - CacheTTL - MaxFetch
    IN IF Accepts(r)
         THEN a.url = requests[r].url /\ Replaced(a.url, a.version) >= since
         ELSE a.url = requests[r].url /\ a.version = Len(published[a.url])
                => published[a.url][a.version] >= since
=============================================================================
