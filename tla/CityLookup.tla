----------------------------- MODULE CityLookup -----------------------------
(***************************************************************************)
(* The cities of the sessions page (geoip.py): the addresses of a page are *)
(* looked up in a shared cache, those not found are asked of ip-api.com in *)
(* one batch, and what it says is cached address by address.  Each access  *)
(* to the cache is under its lock, the request between them is not.        *)
(***************************************************************************)
EXTENDS Integers, Sequences, FiniteSetsExt

CONSTANTS Threads, Public, Private, None,
          NegativeTTL, MaxCacheSize,
          MaxTime  \* bound: the clock stops here

VARIABLES now,
          cache,    \* _cache: [ip, found, expires], the entry used longest ago first
          pages,    \* the sessions pages that the threads are serving
          failures  \* history: when each address was last stored without a city

vars == <<now, cache, pages, failures>>

Ips == Public \cup Private
Times == 0..MaxTime
\* `found` is whether there is a city, `expires` is None for never.
Entry == [ip: Ips, found: BOOLEAN, expires: (0..MaxTime + NegativeTTL) \cup {None}]
Verdict == {"city", "none"}
Page == [stage: {"idle", "reading", "asking", "storing", "done"},
         began: Times, todo: SUBSET Ips, ask: SUBSET Public, result: [Ips -> Verdict \cup {None}]]

NoResult == [ip \in Ips |-> None]
Idle == [stage |-> "idle", began |-> 0, todo |-> {}, ask |-> {}, result |-> NoResult]
At(th, stage) == pages[th].stage = stage
Set(th, new) == pages' = [pages EXCEPT ![th] = new]

Init ==
  /\ now = 0 /\ cache = <<>>
  /\ pages = [th \in Threads |-> Idle]
  /\ failures = [ip \in Ips |-> None]

Entries(ip) == {i \in DOMAIN cache : cache[i].ip = ip}
\* The cache without the entry of the address.
Others(ip) ==
  IF Entries(ip) = {} THEN cache
  ELSE LET p == CHOOSE i \in Entries(ip) : TRUE
       IN  SubSeq(cache, 1, p - 1) \o SubSeq(cache, p + 1, Len(cache))
Kept(seq) == SubSeq(seq, Max({1, Len(seq) - MaxCacheSize + 1}), Len(seq))
Live(e) == e.expires = None \/ e.expires > now

\* _cache_set.
Expiry_Never(found) == None  \* mutant
Expiry(found) == IF found THEN None ELSE now + NegativeTTL

CacheSet(ip, found) ==
  /\ cache' = Kept(Append(Others(ip), [ip |-> ip, found |-> found, expires |-> Expiry(found)]))
  /\ failures' = IF found THEN failures ELSE [failures EXCEPT ![ip] = now]

\* cities_for_ips begins on the addresses of a page.
OpenPage(th, ips) ==
  /\ At(th, "idle")
  /\ Set(th, [Idle EXCEPT !.stage = "reading", !.began = now, !.todo = ips])
  /\ UNCHANGED <<now, cache, failures>>

\* _cache_get: a live entry answers and moves to the end, one that has expired is removed.
CacheGet(th, ip) ==
  LET page == [pages[th] EXCEPT !.todo = @ \ {ip}]
      hits == {i \in Entries(ip) : Live(cache[i])}
  IN /\ At(th, "reading") /\ ip \in pages[th].todo
     /\ \/ \E i \in hits :
             /\ cache' = Append(Others(ip), cache[i])
             /\ Set(th, [page EXCEPT !.result[ip] = IF cache[i].found THEN "city" ELSE "none"])
             /\ UNCHANGED failures
        \/ /\ hits = {} /\ ip \in Public
           /\ cache' = Others(ip)
           /\ Set(th, [page EXCEPT !.ask = @ \cup {ip}])
           /\ UNCHANGED failures
        \/ /\ hits = {} /\ ip \in Private
           /\ CacheSet(ip, FALSE)
           /\ Set(th, [page EXCEPT !.result[ip] = "none"])
     /\ UNCHANGED now

SendBatch(th) ==
  /\ At(th, "reading") /\ pages[th].todo = {}
  /\ Set(th, [pages[th] EXCEPT !.stage = IF pages[th].ask = {} THEN "done" ELSE "asking"])
  /\ UNCHANGED <<now, cache, failures>>

\* The service answers for some of the addresses; or the request fails and none has a
\* city; or the answer is not JSON, which is not caught, and the page is an error.
BatchAnswered(th, answered, cities) ==
  /\ At(th, "asking") /\ answered \subseteq pages[th].ask /\ cities \subseteq answered
  /\ Set(th, [pages[th] EXCEPT !.stage = "storing", !.todo = answered, !.ask = cities])
  /\ UNCHANGED <<now, cache, failures>>

BatchBroken(th) ==
  /\ At(th, "asking")
  /\ Set(th, Idle)
  /\ UNCHANGED <<now, cache, failures>>

\* The entries of the answer one by one; a batch that failed has them all without a city.
StoreEntry(th, ip) ==
  LET found == ip \in pages[th].ask IN
  /\ At(th, "storing") /\ ip \in pages[th].todo
  /\ CacheSet(ip, found)
  /\ Set(th, [pages[th] EXCEPT !.todo = @ \ {ip}, !.result[ip] = IF found THEN "city" ELSE "none"])
  /\ UNCHANGED now

PageDone(th) ==
  /\ At(th, "storing") /\ pages[th].todo = {}
  /\ Set(th, [pages[th] EXCEPT !.stage = "done", !.ask = {}])
  /\ UNCHANGED <<now, cache, failures>>

Respond(th) ==
  /\ At(th, "done")
  /\ Set(th, Idle)
  /\ UNCHANGED <<now, cache, failures>>

Tick ==
  /\ now < MaxTime /\ now' = now + 1
  /\ UNCHANGED <<cache, pages, failures>>

Next ==
  \/ \E th \in Threads :
       \/ \E ips \in SUBSET Ips \ {{}} : OpenPage(th, ips)
       \/ \E ip \in Ips : CacheGet(th, ip) \/ StoreEntry(th, ip)
       \/ \E answered, cities \in SUBSET Public : BatchAnswered(th, answered, cities)
       \/ SendBatch(th) \/ BatchBroken(th) \/ PageDone(th) \/ Respond(th)
  \/ Tick

Spec == Init /\ [][Next]_vars

-----------------------------------------------------------------------------
\* Types: one entry for each address, no more of them than the cap.
TypeOK ==
  /\ now \in Times
  /\ Len(cache) <= MaxCacheSize
  /\ cache \in Seq(Entry)
  /\ \A i, j \in DOMAIN cache : cache[i].ip = cache[j].ip => i = j
  /\ pages \in [Threads -> Page]
  /\ failures \in [Ips -> Times \cup {None}]

\* A page shows an address without a city only if a lookup of it failed since the negative
\* TTL before the page was asked for: a passing failure blinds no address for longer,
\* whatever other threads store meanwhile (geoip.py:27-32, 62-84).
AnswersHonest ==
  \A th \in Threads : At(th, "done") =>
    \A ip \in Ips : pages[th].result[ip] = "none" =>
      failures[ip] # None /\ failures[ip] > pages[th].began - NegativeTTL
=============================================================================
