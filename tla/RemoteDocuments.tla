-------------------------- MODULE RemoteDocuments ---------------------------
(***************************************************************************)
(* Documents fetched from others' servers and cached: the metadata that a  *)
(* client publishes at the URL it is named by (oauth/cimd.py) and the keys *)
(* of an identity provider (oauth/cross_app_access.py).  The handlers are  *)
(* coroutines of one event loop: they interleave at their awaits only, the *)
(* cache is read before them and written after.                            *)
(***************************************************************************)
EXTENDS Integers, Sequences, FiniteSetsExt

CONSTANTS Requests, Urls, None,
          CacheTTL,
          MaxCacheSize,  \* the keys' cache has no cap: there, as many as Urls
          MaxFetch,      \* assumption: a fetch is over, or has failed, after as long
          MaxVersion,    \* bound: a document is replaced as many times
          MaxTime        \* bound: the clock stops here

VARIABLES now,
          cache,      \* _cache: [url, expires, version], the entry used longest ago first
          requests,
          published   \* at each URL, when each version appeared; the last one is served

vars == <<now, cache, requests, published>>

Times == 0..MaxTime
Versions == 1..MaxVersion
Entry == [url: Urls, expires: 0..MaxTime + CacheTTL, version: Versions]
Request == [stage: {"idle", "fetching", "received", "answered"},
            url: Urls \cup {None}, at: Times, version: Versions \cup {0}]

Idle == [stage |-> "idle", url |-> None, at |-> 0, version |-> 0]
At(r, stage) == requests[r].stage = stage
Set(r, new) == requests' = [requests EXCEPT ![r] = new]
Answer(u, v) == [stage |-> "answered", url |-> u, at |-> now, version |-> v]

Init ==
  /\ now = 0 /\ cache = <<>>
  /\ requests = [r \in Requests |-> Idle]
  /\ published = [u \in Urls |-> <<0>>]

Live(e) == e.expires > now
Places(u) == {i \in DOMAIN cache : cache[i].url = u}
Entries(u) == {i \in Places(u) : Live(cache[i])}
\* The cache without the entry of the URL.
Others(u) ==
  IF Places(u) = {} THEN cache
  ELSE LET p == CHOOSE i \in Places(u) : TRUE
       IN  SubSeq(cache, 1, p - 1) \o SubSeq(cache, p + 1, Len(cache))
\* popitem(last=False) while there are more than the cap.
Kept_All(seq) == seq  \* mutant
Kept(seq) == SubSeq(seq, Max({1, Len(seq) - MaxCacheSize + 1}), Len(seq))

\* What a hit leaves of the entry: it moves to the end and keeps its expiry.
Used_Renewed(e) == [e EXCEPT !.expires = now + CacheTTL]  \* mutant
Used(e) == e

\* resolve_cimd_client, _fetch_jwks: a live entry answers at once.
Hit(r, u) ==
  /\ At(r, "idle")
  /\ \E i \in Entries(u) :
       /\ cache' = Append(Others(u), Used(cache[i]))
       /\ Set(r, Answer(u, cache[i].version))
  /\ UNCHANGED <<now, published>>

\* Otherwise the address is checked and the document asked for.
BeginFetch(r, u) ==
  /\ At(r, "idle") /\ Entries(u) = {}
  /\ Set(r, [Idle EXCEPT !.stage = "fetching", !.url = u, !.at = now])
  /\ UNCHANGED <<now, cache, published>>

\* The other server answers with what it publishes at that moment.
RemoteAnswers(r) ==
  /\ At(r, "fetching")
  /\ Set(r, [requests[r] EXCEPT !.stage = "received",
                                !.version = Len(published[requests[r].url])])
  /\ UNCHANGED <<now, cache, published>>

\* The answer arrives and is good: it is cached and used.
StoreDocument(r) ==
  LET u == requests[r].url
      v == requests[r].version
  IN /\ At(r, "received")
     /\ cache' = Kept(Append(Others(u), [url |-> u, expires |-> now + CacheTTL, version |-> v]))
     /\ Set(r, Answer(u, v))
     /\ UNCHANGED <<now, published>>

\* An address that is not public, no answer, a document too long or one that does not
\* declare its own URL and its redirect URIs: the request is refused, nothing is cached.
RefuseDocument(r) ==
  /\ At(r, "fetching") \/ At(r, "received")
  /\ Set(r, Idle)
  /\ UNCHANGED <<now, cache, published>>

Respond(r) ==
  /\ At(r, "answered")
  /\ Set(r, Idle)
  /\ UNCHANGED <<now, cache, published>>

\* The document is replaced at its URL.
Publish(u) ==
  /\ Len(published[u]) < MaxVersion
  /\ published' = [published EXCEPT ![u] = Append(@, now)]
  /\ UNCHANGED <<now, cache, requests>>

Tick ==
  /\ now < MaxTime /\ now' = now + 1
  /\ \A r \in Requests : At(r, "fetching") \/ At(r, "received")
                           => now < requests[r].at + MaxFetch
  /\ UNCHANGED <<cache, requests, published>>

Serve == \E r \in Requests :
           RemoteAnswers(r) \/ StoreDocument(r) \/ RefuseDocument(r) \/ Respond(r)
Environment == (\E u \in Urls : Publish(u)) \/ Tick

Next ==
  \/ \E r \in Requests, u \in Urls : Hit(r, u) \/ BeginFetch(r, u)
  \/ Serve \/ Environment

Spec == Init /\ [][Next]_vars

-----------------------------------------------------------------------------
\* Types: one entry for each URL, no more of them than the cap, and requests as the
\* handlers have them.
TypeOK ==
  /\ now \in Times
  /\ Len(cache) <= MaxCacheSize
  /\ cache \in Seq(Entry)
  /\ \A i, j \in DOMAIN cache : cache[i].url = cache[j].url => i = j
  /\ requests \in [Requests -> Request]
  /\ published \in [Urls -> Seq(Times)] /\ \A u \in Urls : Len(published[u]) \in Versions

\* When a version stopped being the one published.
Replaced(u, v) == IF v < Len(published[u]) THEN published[u][v + 1] ELSE now

\* What a request is answered was still published less than the TTL and one fetch ago,
\* whichever of the fetches under way at once filled the cache and however often it was
\* hit (oauth/cimd.py:76-79, 106-109).
DocumentsFresh ==
  \A r \in Requests : At(r, "answered") =>
    Replaced(requests[r].url, requests[r].version) >= requests[r].at - CacheTTL - MaxFetch
=============================================================================
