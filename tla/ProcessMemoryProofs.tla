------------------------ MODULE ProcessMemoryProofs -------------------------
(***************************************************************************)
(* What holds of the tables in the server's memory and of its webhooks,    *)
(* whatever the numbers of threads, keys, URLs and receivers, the caps,    *)
(* limits, lifetimes and pauses: for each component an invariant that its  *)
(* steps keep, at the end one for all.  Each has lemmas of its own; the    *)
(* caches share those on sequences, the limiter and the webhooks those on  *)
(* sums over a finite set, by induction on its size.                       *)
(***************************************************************************)
EXTENDS ProcessMemory, FiniteSetTheorems, SequenceTheorems, WellFoundedInduction, TLAPS

\* What is left of a sequence without its i-th element, and its last elements.
LEMMA Joined ==
  ASSUME NEW S, NEW a \in Seq(S), NEW b \in Seq(S)
  PROVE  /\ a \o b \in Seq(S) /\ Len(a \o b) = Len(a) + Len(b)
         /\ \A j \in 1..Len(a) : (a \o b)[j] = a[j]
         /\ \A j \in 1..Len(b) : (a \o b)[Len(a) + j] = b[j]
<1>1. /\ a \o b \in Seq(S) /\ Len(a \o b) = Len(a) + Len(b)
      /\ \A j \in 1..Len(a) + Len(b) :
           (a \o b)[j] = IF j <= Len(a) THEN a[j] ELSE b[j - Len(a)]
  BY ConcatProperties
<1> QED BY <1>1

\* A part of a sequence, by where it starts and how long it is.
LEMMA Slice ==
  ASSUME NEW S, NEW seq \in Seq(S), NEW m \in Nat, NEW n \in Nat, m + n <= Len(seq)
  PROVE  /\ SubSeq(seq, m + 1, m + n) \in Seq(S)
         /\ Len(SubSeq(seq, m + 1, m + n)) = n
         /\ \A j \in 1..n : SubSeq(seq, m + 1, m + n)[j] = seq[m + j]
<1>1. \A j \in m + 1..m + n : seq[j] \in S
  BY ElementOfSeq
<1>2. /\ SubSeq(seq, m + 1, m + n) \in Seq(S)
      /\ Len(SubSeq(seq, m + 1, m + n)) = IF m + 1 <= m + n THEN m + n - (m + 1) + 1 ELSE 0
      /\ \A j \in 1..m + n - (m + 1) + 1 :
           SubSeq(seq, m + 1, m + n)[j] = seq[m + 1 + j - 1]
  BY <1>1, SubSeqProperties
<1> QED BY <1>2

\* A sequence without its i-th element.
LEMMA Removed ==
  ASSUME NEW S, NEW seq \in Seq(S), NEW i \in 1..Len(seq)
  PROVE  LET t == SubSeq(seq, 1, i - 1) \o SubSeq(seq, i + 1, Len(seq)) IN
         /\ t \in Seq(S) /\ Len(t) = Len(seq) - 1
         /\ \A j \in 1..Len(seq) - 1 : t[j] = IF j < i THEN seq[j] ELSE seq[j + 1]
<1>0. PICK l \in Nat : l = Len(seq)
  OBVIOUS
<1>1. PICK a \in Seq(S) : a = SubSeq(seq, 1, i - 1) /\ Len(a) = i - 1
                           /\ \A j \in 1..i - 1 : a[j] = seq[0 + j]
  <2> DEFINE h == i - 1
  <2>1. h \in Nat /\ 0 \in Nat /\ 0 + h <= Len(seq) /\ 0 + h = h
    BY <1>0
  <2> HIDE DEF h
  <2>2. /\ SubSeq(seq, 0 + 1, 0 + h) \in Seq(S) /\ Len(SubSeq(seq, 0 + 1, 0 + h)) = h
        /\ \A j \in 1..h : SubSeq(seq, 0 + 1, 0 + h)[j] = seq[0 + j]
    BY <2>1, Slice
  <2>3. SubSeq(seq, 0 + 1, 0 + h) = SubSeq(seq, 1, i - 1) /\ h = i - 1
    BY <2>1 DEF h
  <2>4. /\ SubSeq(seq, 1, i - 1) \in Seq(S) /\ Len(SubSeq(seq, 1, i - 1)) = i - 1
        /\ \A j \in 1..i - 1 : SubSeq(seq, 1, i - 1)[j] = seq[0 + j]
    BY <2>2, <2>3
  <2> QED BY <2>4
<1>2. PICK b \in Seq(S) : b = SubSeq(seq, i + 1, Len(seq)) /\ Len(b) = l - i
                           /\ \A j \in 1..l - i : b[j] = seq[i + j]
  <2> DEFINE h == l - i
  <2>1. h \in Nat /\ i \in Nat /\ i + h <= Len(seq) /\ i + h = Len(seq)
    BY <1>0
  <2> HIDE DEF h
  <2>2. /\ SubSeq(seq, i + 1, i + h) \in Seq(S) /\ Len(SubSeq(seq, i + 1, i + h)) = h
        /\ \A j \in 1..h : SubSeq(seq, i + 1, i + h)[j] = seq[i + j]
    BY <2>1, Slice
  <2> QED BY <2>1, <2>2 DEF h
<1>3. SubSeq(seq, 1, i - 1) = a /\ SubSeq(seq, i + 1, Len(seq)) = b
  BY <1>1, <1>2
<1>4. /\ a \o b \in Seq(S) /\ Len(a \o b) = (i - 1) + (l - i)
      /\ \A j \in 1..i - 1 : (a \o b)[j] = a[j]
      /\ \A j \in 1..l - i : (a \o b)[(i - 1) + j] = b[j]
  <2>1. /\ a \o b \in Seq(S) /\ Len(a \o b) = Len(a) + Len(b)
        /\ \A j \in 1..Len(a) : (a \o b)[j] = a[j]
        /\ \A j \in 1..Len(b) : (a \o b)[Len(a) + j] = b[j]
    BY Joined
  <2> QED BY <1>1, <1>2, <2>1
<1>5. Len(a \o b) = l - 1
  BY <1>0, <1>4
<1>6. ASSUME NEW j \in 1..l - 1 PROVE (a \o b)[j] = IF j < i THEN seq[j] ELSE seq[j + 1]
  <2>1. CASE j < i
    BY SMTT(30), <1>0, <1>1, <1>4, <2>1
  <2>2. CASE ~(j < i)
    <3>1. j - (i - 1) \in 1..l - i /\ (i - 1) + (j - (i - 1)) = j /\ i + (j - (i - 1)) = j + 1
      BY <1>0, <2>2
    <3>2. (a \o b)[(i - 1) + (j - (i - 1))] = b[j - (i - 1)]
      BY <1>4, <3>1
    <3>3. b[j - (i - 1)] = seq[i + (j - (i - 1))]
      BY <1>2, <3>1
    <3> QED BY <2>2, <3>1, <3>2, <3>3
  <2> QED BY <2>1, <2>2
<1> QED BY <1>0, <1>3, <1>4, <1>5, <1>6

\* The last n elements of a sequence.
LEMMA Suffix ==
  ASSUME NEW S, NEW seq \in Seq(S), NEW n \in Nat, NEW m \in Int,
         Len(seq) > n => m = Len(seq) - n + 1, Len(seq) <= n => m = 1
  PROVE  LET t == SubSeq(seq, m, Len(seq)) IN
         /\ t \in Seq(S) /\ Len(t) = IF Len(seq) > n THEN n ELSE Len(seq)
         /\ \A j \in 1..Len(t) : t[j] = seq[j + m - 1] /\ j + m - 1 \in 1..Len(seq)
<1>0. PICK l \in Nat : l = Len(seq)
  OBVIOUS
<1> DEFINE k == m - 1
           h == l - k
           t == SubSeq(seq, k + 1, k + h)
<1>1. k \in Nat /\ h \in Nat /\ k + h = l /\ k + 1 = m /\ h = IF l > n THEN n ELSE l
  <2>1. (l > n => m = l - n + 1) /\ (l <= n => m = 1)
    BY <1>0
  <2> QED BY <2>1
<1> HIDE DEF k, h
<1>2. t \in Seq(S) /\ Len(t) = h /\ \A j \in 1..h : t[j] = seq[k + j]
  BY <1>0, <1>1, Slice
<1>3. SubSeq(seq, m, Len(seq)) = t
  BY <1>0, <1>1
<1> HIDE DEF t
<1>4. \A j \in 1..h : k + j = j + m - 1 /\ j + m - 1 \in 1..l
  BY <1>0, <1>1
<1> QED BY <1>0, <1>1, <1>2, <1>3, <1>4

\* A cache is a sequence of records with one entry for each value of a field.
Distinct(seq, key) == \A i, j \in 1..Len(seq) : seq[i][key] = seq[j][key] => i = j
Places(seq, key, x) == {i \in DOMAIN seq : seq[i][key] = x}
Rest(seq, key, x) ==
  IF Places(seq, key, x) = {} THEN seq
  ELSE LET p == CHOOSE i \in Places(seq, key, x) : TRUE
       IN  SubSeq(seq, 1, p - 1) \o SubSeq(seq, p + 1, Len(seq))
\* What of the second is in the first is in the same order.
Follows(t, seq) ==
  \A i, j \in 1..Len(t) : i < j =>
    \E a, b \in 1..Len(seq) : a < b /\ t[i] = seq[a] /\ t[j] = seq[b]
Trimmed(seq, cap) == SubSeq(seq, Documents!Max({1, Len(seq) - cap + 1}), Len(seq))

\* The cache without the entry of a value, with another entry for it, and within its cap.
LEMMA WithoutOne ==
  ASSUME NEW E, NEW seq \in Seq(E), NEW key, Distinct(seq, key), NEW x
  PROVE  LET rest == Rest(seq, key, x) IN
         /\ rest \in Seq(E) /\ Distinct(rest, key)
         /\ Len(rest) = IF Places(seq, key, x) = {} THEN Len(seq) ELSE Len(seq) - 1
         /\ \A j \in 1..Len(rest) : \E i \in 1..Len(seq) : rest[j] = seq[i] /\ seq[i][key] # x
         /\ Follows(rest, seq)
         /\ \A i \in 1..Len(seq) : seq[i][key] # x => \E j \in 1..Len(rest) : rest[j] = seq[i]
<1>0. /\ Len(seq) \in Nat /\ DOMAIN seq = 1..Len(seq)
      /\ \A i, j \in 1..Len(seq) : seq[i][key] = seq[j][key] => i = j
  BY DEF Distinct
<1>1. CASE Places(seq, key, x) = {}
  BY <1>0, <1>1 DEF Rest, Places, Distinct, Follows
<1>2. CASE Places(seq, key, x) # {}
  <2>1. PICK p \in 1..Len(seq) : seq[p][key] = x /\ p = CHOOSE i \in Places(seq, key, x) : TRUE
    BY <1>0, <1>2 DEF Places
  <2> DEFINE o == SubSeq(seq, 1, p - 1) \o SubSeq(seq, p + 1, Len(seq))
  <2>2. Rest(seq, key, x) = o
    BY <1>2, <2>1 DEF Rest
  <2>3. /\ o \in Seq(E) /\ Len(o) = Len(seq) - 1
        /\ \A j \in 1..Len(seq) - 1 : o[j] = IF j < p THEN seq[j] ELSE seq[j + 1]
    BY <1>0, Removed
  <2> HIDE DEF o
  <2>4. ASSUME NEW j \in 1..Len(o)
        PROVE  \E i \in 1..Len(seq) : /\ i = IF j < p THEN j ELSE j + 1
                                      /\ o[j] = seq[i] /\ seq[i][key] # x
    <3> DEFINE i == IF j < p THEN j ELSE j + 1
    <3>1. i \in 1..Len(seq) /\ i # p /\ o[j] = seq[i]
      BY <1>0, <2>3
    <3> HIDE DEF i
    <3>2. seq[i][key] # x
      BY <1>0, <2>1, <3>1
    <3> QED BY <3>1, <3>2 DEF i
  <2>5. Distinct(o, key)
    <3> SUFFICES ASSUME NEW j \in 1..Len(o), NEW k \in 1..Len(o), o[j][key] = o[k][key]
                 PROVE  j = k
      BY DEF Distinct
    <3>1. PICK i \in 1..Len(seq) : i = (IF j < p THEN j ELSE j + 1) /\ o[j] = seq[i]
      BY <2>4
    <3>2. PICK m \in 1..Len(seq) : m = (IF k < p THEN k ELSE k + 1) /\ o[k] = seq[m]
      BY <2>4
    <3>3. i = m
      BY <1>0, <3>1, <3>2
    <3> QED BY <1>0, <2>3, <3>1, <3>2, <3>3
  <2>6. Follows(o, seq)
    <3> SUFFICES ASSUME NEW j \in 1..Len(o), NEW k \in 1..Len(o), j < k
                 PROVE  \E a, b \in 1..Len(seq) : a < b /\ o[j] = seq[a] /\ o[k] = seq[b]
      BY DEF Follows
    <3>1. PICK a \in 1..Len(seq) : a = (IF j < p THEN j ELSE j + 1) /\ o[j] = seq[a]
      BY <2>4
    <3>2. PICK b \in 1..Len(seq) : b = (IF k < p THEN k ELSE k + 1) /\ o[k] = seq[b]
      BY <2>4
    <3>3. a < b
      BY <1>0, <2>3, <3>1, <3>2
    <3> QED BY <3>1, <3>2, <3>3
  <2>7. ASSUME NEW i \in 1..Len(seq), seq[i][key] # x
        PROVE  \E j \in 1..Len(o) : o[j] = seq[i]
    <3> DEFINE j == IF i < p THEN i ELSE i - 1
    <3>1. i # p
      BY <2>1, <2>7
    <3>2. j \in 1..Len(o) /\ (IF j < p THEN j ELSE j + 1) = i
      BY <1>0, <2>3, <3>1
    <3> HIDE DEF j
    <3>3. o[j] = seq[i]
      BY <2>3, <3>2
    <3> QED BY <3>2, <3>3
  <2> QED BY <1>2, <2>2, <2>3, <2>4, <2>5, <2>6, <2>7
<1> QED BY <1>1, <1>2

\* An entry for a value that has none.
LEMMA WithOneMore ==
  ASSUME NEW E, NEW key, NEW seq \in Seq(E), NEW entry \in E, Distinct(seq, key),
         \A j \in 1..Len(seq) : seq[j][key] # entry[key]
  PROVE  /\ Append(seq, entry) \in Seq(E) /\ Distinct(Append(seq, entry), key)
         /\ Len(Append(seq, entry)) = Len(seq) + 1
         /\ \A j \in 1..Len(seq) + 1 : \/ Append(seq, entry)[j] = entry
                                      \/ \E i \in 1..Len(seq) : Append(seq, entry)[j] = seq[i]
<1> DEFINE t == Append(seq, entry)
<1>1. /\ t \in Seq(E) /\ Len(t) = Len(seq) + 1 /\ Len(seq) \in Nat
      /\ \A i \in 1..Len(seq) : t[i] = seq[i]
      /\ t[Len(seq) + 1] = entry
  BY AppendProperties
<1> HIDE DEF t
<1>2. \A j \in 1..Len(seq) + 1 : t[j] = entry \/ \E i \in 1..Len(seq) : t[j] = seq[i]
  BY <1>1
<1>3. ASSUME NEW i \in 1..Len(t), NEW j \in 1..Len(t), t[i][key] = t[j][key] PROVE i = j
  <2>1. CASE i \in 1..Len(seq) /\ j \in 1..Len(seq)
    BY <1>1, <1>3, <2>1 DEF Distinct
  <2>2. CASE i = Len(seq) + 1 \/ j = Len(seq) + 1
    BY <1>1, <1>3, <2>2
  <2> QED BY <1>1, <2>1, <2>2
<1> QED BY <1>1, <1>2, <1>3 DEF Distinct, t

\* The last entries that the cap leaves room for.
LEMMA WithinCap ==
  ASSUME NEW E, NEW key, NEW seq \in Seq(E), NEW cap \in Nat, Distinct(seq, key)
  PROVE  LET t == Trimmed(seq, cap) IN
         /\ t \in Seq(E) /\ Distinct(t, key) /\ Len(t) <= cap
         /\ \A j \in 1..Len(t) : \E i \in 1..Len(seq) : t[j] = seq[i]
         /\ Follows(t, seq)
         /\ \A i \in 1..Len(seq) : i + cap > Len(seq) => \E j \in 1..Len(t) : t[j] = seq[i]
<1> DEFINE n == Len(seq) - cap + 1
           m == Documents!Max({1, n})
           t == SubSeq(seq, m, Len(seq))
<1>1. n \in Int /\ Len(seq) \in Nat
  OBVIOUS
<1>2. m = IF n > 1 THEN n ELSE 1
  <2> DEFINE x == IF n > 1 THEN n ELSE 1
  <2> HIDE DEF n
  <2>1. x \in {1, n} /\ \A y \in {1, n} : x >= y
    BY <1>1
  <2>2. \A y \in {1, n} : (\A z \in {1, n} : y >= z) => y = x
    BY <1>1
  <2> QED BY <2>1, <2>2 DEF Documents!Max
<1>3. /\ m \in Int /\ (Len(seq) > cap => m = Len(seq) - cap + 1) /\ (Len(seq) <= cap => m = 1)
  BY <1>1, <1>2
<1> HIDE DEF n, m
<1>4. /\ t \in Seq(E) /\ Len(t) = IF Len(seq) > cap THEN cap ELSE Len(seq)
      /\ \A j \in 1..Len(t) : t[j] = seq[j + m - 1] /\ j + m - 1 \in 1..Len(seq)
  BY <1>3, Suffix
<1> HIDE DEF t
<1>5. ASSUME NEW i \in 1..Len(t), NEW j \in 1..Len(t), t[i][key] = t[j][key] PROVE i = j
  <2>1. i + m - 1 = j + m - 1
    BY SMTT(30), <1>4, <1>5 DEF Distinct
  <2> QED BY <1>3, <2>1
<1>6. Len(t) <= cap
  BY <1>1, <1>4
<1>7. Trimmed(seq, cap) = t
  BY DEF Trimmed, t, m, n
<1>8. Follows(t, seq)
  <2> SUFFICES ASSUME NEW i \in 1..Len(t), NEW j \in 1..Len(t), i < j
               PROVE  \E a, b \in 1..Len(seq) : a < b /\ t[i] = seq[a] /\ t[j] = seq[b]
    BY DEF Follows
  <2>1. i + m - 1 < j + m - 1
    BY <1>3, <1>4
  <2> QED BY <1>4, <2>1
<1>9. ASSUME NEW i \in 1..Len(seq), i + cap > Len(seq) PROVE \E j \in 1..Len(t) : t[j] = seq[i]
  <2> DEFINE j == i - m + 1
  <2>1. j \in 1..Len(t) /\ j + m - 1 = i
    BY <1>1, <1>3, <1>4, <1>9
  <2> HIDE DEF j
  <2> QED BY <1>4, <2>1
<1> QED BY SMTT(30), <1>4, <1>5, <1>6, <1>7, <1>8, <1>9 DEF Distinct


-----------------------------------------------------------------------------
\* RemoteDocuments and CrossAppAccess: one argument for both caches, whatever their cap, the
\* TTL, the longest fetch and the end of time.

DocEntry(ttl, top) == [url : Urls, expires : 0..top + ttl, version : 1..MaxVersion]
DocRequest(top) == [stage : {"idle", "fetching", "received", "answered"},
                    url : Urls \cup {None}, at : 0..top, version : 1..MaxVersion \cup {0}]

DocTypes(cap, ttl, top) ==
  /\ now \in 0..top
  /\ Len(table) <= cap /\ table \in Seq(DocEntry(ttl, top)) /\ Distinct(table, "url")
  /\ calls \in [Threads -> DocRequest(top)]
  /\ outside \in [Urls -> Seq(0..top)] /\ \A u \in Urls : Len(outside[u]) \in 1..MaxVersion

\* Versions appear one after the other, and none in the future.
DocHistory ==
  \A u \in Urls : \A i, j \in 1..Len(outside[u]) :
    outside[u][i] <= now /\ (i <= j => outside[u][i] <= outside[u][j])

\* An entry and a request know a version that was replaced no earlier than this.
Known(u, v, since) == /\ u \in Urls /\ v \in 1..Len(outside[u])
                      /\ Documents!Replaced(u, v) >= since
DocCached(ttl, fetch) ==
  \A i \in 1..Len(table) :
    Known(table[i].url, table[i].version, table[i].expires - ttl - fetch)
DocAsked(q, ttl, fetch) ==
  /\ q.stage \in {"fetching", "received"} => q.url \in Urls /\ q.at <= now /\ now <= q.at + fetch
  /\ q.stage = "received" => Known(q.url, q.version, q.at)
  /\ q.stage = "answered" => Known(q.url, q.version, q.at - ttl - fetch)

DocInv(cap, ttl, fetch, top) ==
  /\ DocTypes(cap, ttl, top) /\ DocHistory /\ DocCached(ttl, fetch)
  /\ \A r \in Threads : DocAsked(calls[r], ttl, fetch)

\* The actions that the constants enter.
Stores(r, cap, ttl) ==
  LET u == calls[r].url
      v == calls[r].version
  IN /\ Documents!At(r, "received")
     /\ table' = Trimmed(Append(Documents!Others(u),
                                [url |-> u, expires |-> now + ttl, version |-> v]), cap)
     /\ Documents!Set(r, Documents!Answer(u, v))
     /\ UNCHANGED <<now, outside>>
Waits(fetch, top) ==
  /\ now < top /\ now' = now + 1
  /\ \A r \in Threads : Documents!At(r, "fetching") \/ Documents!At(r, "received")
                          => now < calls[r].at + fetch
  /\ UNCHANGED <<table, calls, outside>>
DocNext(cap, ttl, fetch, top) ==
  \/ \E r \in Threads, u \in Urls : Documents!Hit(r, u) \/ Documents!BeginFetch(r, u)
  \/ \E r \in Threads : \/ Documents!RemoteAnswers(r) \/ Stores(r, cap, ttl)
                        \/ Documents!RefuseDocument(r) \/ Documents!Respond(r)
  \/ \E u \in Urls : Documents!Publish(u)
  \/ Waits(fetch, top)

\* RemoteDocuments moves as below, with its own constants.
LEMMA DocumentsMoves ==
  ASSUME Documents!Next
  PROVE  DocNext(MaxCacheSize, CacheTTL, MaxFetch, MaxTime.documents)
BY DEF Documents!Next, Documents!Serve, Documents!Environment, DocNext, Documents!StoreDocument,
       Stores, Documents!Kept, Trimmed, Documents!Tick, Waits

\* So does CrossAppAccess, or it leaves the cache and the fetches alone.
LEMMA AccessMoves ==
  ASSUME Access!CaaNext, rows \in [Issuers -> Urls \cup {None}]
  PROVE  \/ DocNext(Cardinality(Urls), KeysTTL, KeysFetch, MaxTime.access)
         \/ UNCHANGED <<now, table, calls, outside>>
<1>1. \A r, u : Access!Hit(r, u) <=> Documents!Hit(r, u)
  BY DEF Access!Hit, Documents!Hit, Access!At, Documents!At, Access!Entries, Documents!Entries,
         Access!Places, Documents!Places, Access!Live, Documents!Live, Access!Others,
         Documents!Others, Access!Used, Documents!Used,
         Access!Set, Documents!Set, Access!Answer, Documents!Answer
<1>2. \A r, u : Access!BeginFetch(r, u) <=> Documents!BeginFetch(r, u)
  BY DEF Access!BeginFetch, Documents!BeginFetch, Access!At, Documents!At, Access!Entries,
         Documents!Entries, Access!Places, Documents!Places, Access!Live, Documents!Live,
         Access!Set, Documents!Set, Access!Idle, Documents!Idle
<1>3. \A r : /\ Access!RemoteAnswers(r) <=> Documents!RemoteAnswers(r)
             /\ Access!RefuseDocument(r) <=> Documents!RefuseDocument(r)
             /\ Access!Respond(r) <=> Documents!Respond(r)
  BY DEF Access!RemoteAnswers, Documents!RemoteAnswers, Access!RefuseDocument,
         Documents!RefuseDocument, Access!Respond, Documents!Respond, Access!At, Documents!At,
         Access!Set, Documents!Set, Access!Idle, Documents!Idle
<1>4. \A r : Access!StoreDocument(r) => Stores(r, Cardinality(Urls), KeysTTL)
  BY DEF Access!StoreDocument, Stores, Access!Kept, Trimmed, Access!At, Documents!At,
         Access!Places, Documents!Places, Access!Others, Documents!Others, Access!Max,
         Documents!Max,
         Access!Set, Documents!Set, Access!Answer, Documents!Answer
<1>5. \A u : Access!Publish(u) => Documents!Publish(u)
  BY DEF Access!Publish, Documents!Publish
<1>6. Access!Tick => Waits(KeysFetch, MaxTime.access)
  BY DEF Access!Tick, Waits, Access!At, Documents!At
<1>7. ASSUME NEW r \in Threads, NEW a \in Access!Assertion, Access!Present(r, a)
      PROVE  DocNext(Cardinality(Urls), KeysTTL, KeysFetch, MaxTime.access)
  <2>1. rows[a.issuer] \in Urls
    BY <1>7 DEF Access!Present, Access!Assertion
  <2> QED BY <1>1, <1>2, <1>7, <2>1 DEF Access!Present, DocNext
<1>8. ASSUME NEW i \in Issuers, NEW u \in Urls,
             Access!AddTrustedIssuer(i, u) \/ Access!RemoveTrustedIssuer(i)
      PROVE  UNCHANGED <<now, table, calls, outside>>
  BY <1>8 DEF Access!AddTrustedIssuer, Access!RemoveTrustedIssuer, Access!vars
<1>9. Access!Serve \/ Access!Environment
        => DocNext(Cardinality(Urls), KeysTTL, KeysFetch, MaxTime.access)
  BY <1>3, <1>4, <1>5, <1>6 DEF Access!Serve, Access!Environment, DocNext
<1>10. Urls # {}
  BY SizesOK DEF SizesOK
<1> QED BY <1>7, <1>8, <1>9, <1>10 DEF Access!CaaNext

\* Time and what is published only add to what is known.
LEMMA DocGrows ==
  ASSUME NEW cap \in Nat, NEW ttl \in Nat, NEW fetch \in Nat, NEW top \in Nat,
         DocTypes(cap, ttl, top), DocHistory, now' \in 0..top,
         \/ now <= now' /\ outside' = outside
         \/ now' = now /\ \E u \in Urls : Documents!Publish(u)
  PROVE  /\ DocHistory'
         /\ \A u \in Urls : \A v, since : Known(u, v, since) /\ since \in Int => Known(u, v, since)'
<1>0. /\ now \in Int /\ now' \in Int
      /\ \A u \in Urls : outside[u] \in Seq(0..top)
  BY DEF DocTypes
<1>1. CASE now <= now' /\ outside' = outside
  <2>1. DocHistory'
    <3>1. \A u \in Urls : \A i \in 1..Len(outside[u]) : outside[u][i] \in Int
      BY <1>0
    <3> QED BY SMTT(30), <1>0, <1>1, <3>1 DEF DocHistory
  <2>2. ASSUME NEW u \in Urls, NEW v, NEW since \in Int, Known(u, v, since)
        PROVE  Known(u, v, since)'
    <3>1. v \in 1..Len(outside[u]) /\ Documents!Replaced(u, v) >= since
      BY <2>2 DEF Known
    <3>2. CASE v < Len(outside[u])
      BY <1>1, <3>1, <3>2 DEF Known, Documents!Replaced
    <3>3. CASE ~(v < Len(outside[u]))
      BY <1>0, <1>1, <3>1, <3>3 DEF Known, Documents!Replaced
    <3> QED BY <3>2, <3>3
  <2> QED BY <2>1, <2>2
<1>2. ASSUME now' = now, NEW w \in Urls, Documents!Publish(w)
      PROVE  /\ DocHistory'
             /\ \A u \in Urls : \A v, since : Known(u, v, since) /\ since \in Int
                                                => Known(u, v, since)'
  <2>1. /\ now \in 0..top /\ outside \in [Urls -> Seq(0..top)]
        /\ outside' = [outside EXCEPT ![w] = Append(outside[w], now)]
    BY <1>2 DEF Documents!Publish, DocTypes
  <2>2. \A u \in Urls : u # w => outside'[u] = outside[u]
    BY <2>1
  <2>3. /\ Len(outside'[w]) = Len(outside[w]) + 1
        /\ \A i \in 1..Len(outside[w]) : outside'[w][i] = outside[w][i]
        /\ outside'[w][Len(outside[w]) + 1] = now
    BY <2>1, AppendProperties
  <2>4. DocHistory'
    <3> SUFFICES ASSUME NEW u \in Urls, NEW i \in 1..Len(outside'[u]), NEW j \in 1..Len(outside'[u])
                 PROVE  outside'[u][i] <= now' /\ (i <= j => outside'[u][i] <= outside'[u][j])
      BY DEF DocHistory
    <3>1. CASE u # w
      BY <1>2, <2>2, <3>1 DEF DocHistory
    <3>2. CASE u = w
      <4>1. \A k \in 1..Len(outside[w]) : outside[w][k] <= now /\ outside[w][k] \in Int
        BY SMTT(30), <2>1, <1>0 DEF DocHistory
      <4>2. CASE i \in 1..Len(outside[w]) /\ j \in 1..Len(outside[w])
        BY <1>0, <1>2, <2>3, <3>2, <4>1, <4>2 DEF DocHistory
      <4>3. CASE i \in 1..Len(outside[w]) /\ j = Len(outside[w]) + 1
        BY <1>0, <1>2, <2>3, <3>2, <4>1, <4>3
      <4>4. CASE i = Len(outside[w]) + 1
        BY <1>0, <1>2, <2>3, <3>2, <4>4
      <4> QED BY SMTT(30), <2>3, <3>2, <4>2, <4>3, <4>4
    <3> QED BY <3>1, <3>2
  <2>5. ASSUME NEW u \in Urls, NEW v, NEW since \in Int, Known(u, v, since)
        PROVE  Known(u, v, since)'
    <3>1. v \in 1..Len(outside[u]) /\ Documents!Replaced(u, v) >= since
      BY <2>5 DEF Known
    <3>2. CASE u # w
      BY <1>2, <2>2, <3>1, <3>2 DEF Known, Documents!Replaced
    <3>3. CASE u = w /\ v < Len(outside[u])
      <4>1. v + 1 \in 1..Len(outside[w]) /\ v < Len(outside'[w]) /\ v \in 1..Len(outside'[w])
        BY <2>3, <3>1, <3>3
      <4>2. outside'[w][v + 1] = outside[w][v + 1]
        BY <2>3, <4>1
      <4> QED BY <3>1, <3>3, <4>1, <4>2 DEF Known, Documents!Replaced
    <3>4. CASE u = w /\ ~(v < Len(outside[u]))
      <4>1. v = Len(outside[w]) /\ v < Len(outside'[w]) /\ v \in 1..Len(outside'[w])
        BY <2>3, <3>1, <3>4
      <4>2. Documents!Replaced(u, v) = now /\ outside'[u][v + 1] = now
        BY <2>3, <3>4, <4>1 DEF Documents!Replaced
      <4> QED BY <3>1, <3>4, <4>1, <4>2 DEF Known, Documents!Replaced
    <3> QED BY <3>2, <3>3, <3>4
  <2> QED BY <2>4, <2>5
<1> QED BY <1>1, <1>2

\* The cache without the entry of a URL.
LEMMA DocOthers ==
  ASSUME NEW cap \in Nat, NEW ttl \in Nat, NEW top \in Nat, DocTypes(cap, ttl, top), NEW u
  PROVE  LET rest == Documents!Others(u) IN
         /\ rest \in Seq(DocEntry(ttl, top)) /\ Distinct(rest, "url")
         /\ Len(rest) = IF Documents!Places(u) = {} THEN Len(table) ELSE Len(table) - 1
         /\ \A j \in 1..Len(rest) : \E i \in 1..Len(table) : rest[j] = table[i] /\ table[i].url # u
<1>1. Documents!Places(u) = Places(table, "url", u) /\ Documents!Others(u) = Rest(table, "url", u)
  BY DEF Documents!Places, Places, Documents!Others, Rest
<1>2. table \in Seq(DocEntry(ttl, top)) /\ Distinct(table, "url")
  BY DEF DocTypes
<1> DEFINE rest == Rest(table, "url", u)
<1>3. /\ rest \in Seq(DocEntry(ttl, top)) /\ Distinct(rest, "url")
      /\ Len(rest) = IF Places(table, "url", u) = {} THEN Len(table) ELSE Len(table) - 1
      /\ \A j \in 1..Len(rest) : \E i \in 1..Len(table) :
           rest[j] = table[i] /\ table[i]["url"] # u
  BY ONLY <1>2, WithoutOne
<1> HIDE DEF rest
<1>4. Documents!Others(u) = rest
  BY <1>1 DEF rest
<1> QED BY <1>1, <1>3, <1>4

\* A known version was replaced at some time, if only at the end of it.
LEMMA DocReplaced ==
  ASSUME NEW cap, NEW ttl, NEW top \in Nat, DocTypes(cap, ttl, top)
  PROVE  \A u, v, since : Known(u, v, since) => Documents!Replaced(u, v) \in Int
<1>1. now \in Int /\ outside \in [Urls -> Seq(0..top)]
  BY DEF DocTypes
<1>2. ASSUME NEW u \in Urls, NEW v \in 1..Len(outside[u]) PROVE Documents!Replaced(u, v) \in Int
  <2>1. \A k \in 1..Len(outside[u]) : outside[u][k] \in Int
    BY <1>1
  <2> QED BY <1>1, <2>1 DEF Documents!Replaced
<1> QED BY <1>2 DEF Known

\* A step of one request.
LEMMA DocReplies ==
  ASSUME NEW cap \in Nat, NEW ttl \in Nat, NEW fetch \in Nat, NEW top \in Nat,
         DocInv(cap, ttl, fetch, top), now' = now, outside' = outside,
         NEW r \in Threads, NEW q \in DocRequest(top), calls' = [calls EXCEPT ![r] = q],
         DocAsked(q, ttl, fetch),
         Len(table') <= cap, table' \in Seq(DocEntry(ttl, top)), Distinct(table', "url"),
         \A j \in 1..Len(table') :
           \/ \E i \in 1..Len(table) : table'[j] = table[i]
           \/ Known(table'[j].url, table'[j].version, table'[j].expires - ttl - fetch)
  PROVE  DocInv(cap, ttl, fetch, top)'
<1>1. \A u, v, since : Known(u, v, since) <=> Known(u, v, since)'
  BY DEF Known, Documents!Replaced
<1>2. \A a : DocAsked(a, ttl, fetch) <=> DocAsked(a, ttl, fetch)'
  BY <1>1 DEF DocAsked
<1>3. DocTypes(cap, ttl, top)'
  BY DEF DocInv, DocTypes
<1>4. DocHistory'
  BY DEF DocInv, DocHistory
<1>5. DocCached(ttl, fetch)'
  <2> SUFFICES ASSUME NEW j \in 1..Len(table')
               PROVE  Known(table[j].url, table[j].version, table[j].expires - ttl - fetch)'
    BY DEF DocCached
  <2>1. Known(table'[j].url, table'[j].version, table'[j].expires - ttl - fetch)
    BY DEF DocInv, DocCached
  <2> QED BY <2>1 DEF Known, Documents!Replaced
<1>6. ASSUME NEW o \in Threads PROVE DocAsked(calls[o], ttl, fetch)'
  <2>1. DocAsked(calls'[o], ttl, fetch)
    <3>1. calls'[o] = IF o = r THEN q ELSE calls[o]
      BY DEF DocInv, DocTypes
    <3> QED BY <3>1 DEF DocInv
  <2> QED BY <2>1, <1>1 DEF DocAsked
<1> QED BY <1>3, <1>4, <1>5, <1>6 DEF DocInv

\* A step of the requests that leaves the cache alone.
LEMMA DocAsks ==
  ASSUME NEW cap \in Nat, NEW ttl \in Nat, NEW fetch \in Nat, NEW top \in Nat,
         DocInv(cap, ttl, fetch, top), UNCHANGED <<now, table, outside>>,
         NEW r \in Threads, NEW q \in DocRequest(top), calls' = [calls EXCEPT ![r] = q],
         DocAsked(q, ttl, fetch)
  PROVE  DocInv(cap, ttl, fetch, top)'
BY DocReplies DEF DocInv, DocTypes

\* What the requests know is known as well when time passes or a document is published.
LEMMA DocLater ==
  ASSUME NEW cap \in Nat, NEW ttl \in Nat, NEW fetch \in Nat, NEW top \in Nat,
         DocInv(cap, ttl, fetch, top), DocTypes(cap, ttl, top)', UNCHANGED <<table, calls>>,
         \/ now <= now' /\ outside' = outside
         \/ now' = now /\ \E u \in Urls : Documents!Publish(u),
         \A r \in Threads : calls[r].stage \in {"fetching", "received"}
                              => now' <= calls[r].at + fetch
  PROVE  DocInv(cap, ttl, fetch, top)'
<1>0. now' \in 0..top
  BY DEF DocTypes
<1>1. /\ DocHistory' /\ now <= now'
      /\ \A u, v : \A since \in Int : Known(u, v, since) => Known(u, v, since)'
  <2>1. /\ DocHistory'
        /\ \A u \in Urls : \A v, since : Known(u, v, since) /\ since \in Int => Known(u, v, since)'
    BY <1>0, DocGrows DEF DocInv
  <2>2. \A u, v, since : Known(u, v, since) => u \in Urls
    BY DEF Known
  <2>3. now <= now'
    BY <1>0 DEF DocInv, DocTypes
  <2> QED BY <2>1, <2>2, <2>3
<1>2. ASSUME NEW i \in 1..Len(table)
      PROVE  Known(table[i].url, table[i].version, table[i].expires - ttl - fetch)'
  <2>1. table[i] \in DocEntry(ttl, top)
    BY DEF DocInv, DocTypes
  <2>2. table[i].url \in Urls /\ table[i].expires - ttl - fetch \in Int
    BY <2>1 DEF DocEntry
  <2>3. Known(table[i].url, table[i].version, table[i].expires - ttl - fetch)
    BY DEF DocInv, DocCached
  <2>4. PICK s \in Int : s = table[i].expires - ttl - fetch
    BY <2>2
  <2>5. Known(table[i].url, table[i].version, s)'
    BY <1>1, <2>3, <2>4
  <2> QED BY <2>4, <2>5 DEF Known
<1>3. ASSUME NEW r \in Threads PROVE DocAsked(calls[r], ttl, fetch)'
  <2>1. DocAsked(calls[r], ttl, fetch) /\ calls' = calls /\ calls[r] \in DocRequest(top)
    BY DEF DocInv, DocTypes
  <2>2. PICK q \in DocRequest(top) : q = calls[r]
    BY <2>1
  <2>3. q.at \in Int /\ q.at - ttl - fetch \in Int
    BY DEF DocRequest
  <2>4. q.stage \in {"fetching", "received"}
          => q.url \in Urls /\ q.at <= now' /\ now' <= q.at + fetch
    <3>1. q.stage \in {"fetching", "received"} => q.url \in Urls /\ q.at <= now
      BY <2>1, <2>2 DEF DocAsked
    <3>2. now \in Int /\ now' \in Int
      BY DEF DocInv, DocTypes
    <3> QED BY <1>1, <2>2, <2>3, <3>1, <3>2
  <2>5. q.stage = "received" => Known(q.url, q.version, q.at)'
    BY <1>1, <2>1, <2>2, <2>3 DEF DocAsked
  <2>6. PICK s \in Int : s = q.at - ttl - fetch
    BY <2>3
  <2>7. q.stage = "answered" => Known(q.url, q.version, s)'
    BY <1>1, <2>1, <2>2, <2>6 DEF DocAsked
  <2>8. DocAsked(q, ttl, fetch)'
    BY <2>4, <2>5, <2>6, <2>7 DEF DocAsked
  <2> QED BY <2>1, <2>2, <2>8
<1> QED BY <1>1, <1>2, <1>3 DEF DocInv, DocCached

\* Each action keeps the invariant of the caches.
LEMMA DocStep ==
  ASSUME NEW cap \in Nat, NEW ttl \in Nat, NEW fetch \in Nat, NEW top \in Nat,
         DocInv(cap, ttl, fetch, top), DocNext(cap, ttl, fetch, top)
  PROVE  DocInv(cap, ttl, fetch, top)'
<1>0. /\ now \in 0..top /\ calls \in [Threads -> DocRequest(top)]
      /\ table \in Seq(DocEntry(ttl, top)) /\ DOMAIN table = 1..Len(table) /\ Len(table) \in Nat
      /\ Len(table) <= cap /\ DocTypes(cap, ttl, top)
      /\ outside \in [Urls -> Seq(0..top)] /\ \A u \in Urls : Len(outside[u]) \in 1..MaxVersion
      /\ MaxVersion \in Nat \ {0}
  BY SizesOK DEF SizesOK, DocInv, DocTypes
<1>1. Documents!Idle \in DocRequest(top) /\ DocAsked(Documents!Idle, ttl, fetch)
  BY DEF Documents!Idle, DocRequest, DocAsked
<1>2. ASSUME NEW r \in Threads, NEW u \in Urls, Documents!Hit(r, u)
      PROVE  DocInv(cap, ttl, fetch, top)'
  <2>1. PICK i \in Documents!Entries(u) :
          /\ table' = Append(Documents!Others(u), table[i])
          /\ calls' = [calls EXCEPT ![r] = Documents!Answer(u, table[i].version)]
          /\ UNCHANGED <<now, outside>>
    BY <1>2 DEF Documents!Hit, Documents!Used, Documents!Set
  <2>2. /\ i \in 1..Len(table) /\ table[i].url = u /\ table[i].expires > now
        /\ i \in Documents!Places(u) /\ table[i] \in DocEntry(ttl, top)
    BY <1>0, <2>1 DEF Documents!Entries, Documents!Places, Documents!Live
  <2>3. Known(u, table[i].version, table[i].expires - ttl - fetch)
    BY <2>2 DEF DocInv, DocCached
  <2> DEFINE o == Documents!Others(u)
  <2>4. /\ o \in Seq(DocEntry(ttl, top)) /\ Distinct(o, "url") /\ Len(o) = Len(table) - 1
        /\ \A j \in 1..Len(o) : \E k \in 1..Len(table) : o[j] = table[k] /\ table[k].url # u
    <3>1. Documents!Places(u) # {}
      BY <2>2
    <3> QED BY <1>0, <3>1, DocOthers
  <2> HIDE DEF o
  <2>5. /\ table' \in Seq(DocEntry(ttl, top)) /\ Distinct(table', "url") /\ Len(table') = Len(o) + 1
        /\ \A j \in 1..Len(table') : table'[j] = table[i] \/ \E k \in 1..Len(o) : table'[j] = o[k]
    <3>1. table' = Append(o, table[i]) /\ \A j \in 1..Len(o) : o[j].url # table[i].url
      BY <2>1, <2>2, <2>4 DEF o
    <3>2. PICK new \in DocEntry(ttl, top) : new = table[i]
      BY <2>2
    <3>3. /\ Append(o, new) \in Seq(DocEntry(ttl, top)) /\ Distinct(Append(o, new), "url")
          /\ Len(Append(o, new)) = Len(o) + 1
          /\ \A j \in 1..Len(o) + 1 : \/ Append(o, new)[j] = new
                                     \/ \E k \in 1..Len(o) : Append(o, new)[j] = o[k]
      <4>1. \A j \in 1..Len(o) : o[j].url # new.url
        BY <3>1, <3>2
      <4> QED BY <2>4, <4>1, WithOneMore
    <3> QED BY <3>1, <3>2, <3>3
  <2>6. \A j \in 1..Len(table') : \E k \in 1..Len(table) : table'[j] = table[k]
    BY <2>2, <2>4, <2>5
  <2>7. PICK q : q = Documents!Answer(u, table[i].version)
    OBVIOUS
  <2>8. q \in DocRequest(top) /\ DocAsked(q, ttl, fetch)
    <3>1. table[i].expires \in Int /\ table[i].version \in 1..MaxVersion
      BY <1>0, <2>2 DEF DocEntry
    <3>2. /\ q.stage = "answered" /\ q.url = u /\ q.at = now /\ q.version = table[i].version
          /\ q \in DocRequest(top)
      BY <1>0, <2>7, <3>1 DEF Documents!Answer, DocRequest
    <3>3. PICK x \in Int : x = table[i].expires /\ x > now
      BY <2>2, <3>1
    <3>4. Known(u, table[i].version, x - ttl - fetch)
      BY <2>3, <3>3
    <3>5. Documents!Replaced(u, table[i].version) \in Int
      BY <1>0, <3>4, DocReplaced
    <3>6. Known(u, table[i].version, now - ttl - fetch)
      <4>1. PICK y \in Int : y = Documents!Replaced(u, table[i].version)
        BY <3>5
      <4>2. y >= x - ttl - fetch
        BY <3>4, <4>1 DEF Known
      <4>3. now \in Int
        BY <1>0
      <4>4. y >= now - ttl - fetch
        BY <3>3, <4>2, <4>3
      <4> QED BY <3>4, <4>1, <4>4 DEF Known
    <3> QED BY <3>2, <3>6 DEF DocAsked
  <2>9. calls' = [calls EXCEPT ![r] = q] /\ now' = now /\ outside' = outside /\ Len(table') <= cap
    BY <1>0, <2>1, <2>4, <2>5, <2>7
  <2> QED BY <2>5, <2>6, <2>8, <2>9, DocReplies
<1>3. ASSUME NEW r \in Threads, NEW u \in Urls, Documents!BeginFetch(r, u)
      PROVE  DocInv(cap, ttl, fetch, top)'
  <2>1. PICK q : q = [Documents!Idle EXCEPT !.stage = "fetching", !.url = u, !.at = now]
    OBVIOUS
  <2>2. q \in DocRequest(top) /\ q.stage = "fetching" /\ q.url = u /\ q.at = now
    BY <1>0, <2>1 DEF Documents!Idle, DocRequest
  <2>3. calls' = [calls EXCEPT ![r] = q] /\ UNCHANGED <<now, table, outside>>
    BY <1>3, <2>1 DEF Documents!BeginFetch, Documents!Set
  <2>4. DocAsked(q, ttl, fetch)
    BY <1>0, <2>2 DEF DocAsked
  <2> QED BY <2>2, <2>3, <2>4, DocAsks
<1>4. ASSUME NEW r \in Threads, Documents!RemoteAnswers(r) PROVE DocInv(cap, ttl, fetch, top)'
  <2>1. calls[r].stage = "fetching" /\ calls[r] \in DocRequest(top) /\ DocAsked(calls[r], ttl, fetch)
    BY <1>0, <1>4 DEF Documents!RemoteAnswers, Documents!At, DocInv
  <2>2. /\ calls[r].url \in Urls /\ now <= calls[r].at + fetch
        /\ calls[r].at <= now /\ calls[r].at \in 0..top
    BY <2>1 DEF DocAsked, DocRequest
  <2>3. PICK v : v = Len(outside[calls[r].url])
    OBVIOUS
  <2>4. v \in 1..MaxVersion
    BY <1>0, <2>2, <2>3
  <2>5. PICK q : q = [calls[r] EXCEPT !.stage = "received", !.version = v]
    OBVIOUS
  <2>6. /\ q \in DocRequest(top) /\ q.stage = "received" /\ q.version = v
        /\ q.url = calls[r].url /\ q.at = calls[r].at
    BY <2>1, <2>4, <2>5 DEF DocRequest
  <2>7. calls' = [calls EXCEPT ![r] = q] /\ UNCHANGED <<now, table, outside>>
    BY <1>4, <2>3, <2>5 DEF Documents!RemoteAnswers, Documents!Set
  <2>8. Known(q.url, v, q.at)
    <3>1. Documents!Replaced(q.url, v) = now
      BY <2>3, <2>4, <2>6 DEF Documents!Replaced
    <3> QED BY <1>0, <2>2, <2>3, <2>4, <2>6, <3>1 DEF Known
  <2>9. DocAsked(q, ttl, fetch)
    BY <2>2, <2>6, <2>8 DEF DocAsked
  <2> QED BY <2>6, <2>7, <2>9, DocAsks
<1>5. ASSUME NEW r \in Threads, Stores(r, cap, ttl) PROVE DocInv(cap, ttl, fetch, top)'
  <2> DEFINE u == calls[r].url
             v == calls[r].version
             e == [url |-> u, expires |-> now + ttl, version |-> v]
             o == Documents!Others(u)
             a == Append(o, e)
  <2>1. calls[r].stage = "received" /\ calls[r] \in DocRequest(top) /\ DocAsked(calls[r], ttl, fetch)
    BY <1>0, <1>5 DEF Stores, Documents!At, DocInv
  <2>2. /\ u \in Urls /\ now <= calls[r].at + fetch /\ calls[r].at \in 0..top
        /\ Known(u, v, calls[r].at)
    BY <2>1 DEF DocAsked, DocRequest
  <2>3. v \in 1..MaxVersion /\ v \in 1..Len(outside[u])
    BY <1>0, <2>2 DEF Known
  <2>4. e \in DocEntry(ttl, top) /\ e.url = u /\ e.version = v /\ e.expires = now + ttl
    BY <1>0, <2>2, <2>3 DEF DocEntry
  <2>5. Documents!Replaced(u, v) \in Int
    BY <1>0, <2>2, DocReplaced
  <2>6. \A since \in Int : since <= now - fetch => Known(u, v, since)
    <3>1. calls[r].at \in Int /\ now \in Int /\ now - fetch <= calls[r].at
      BY <1>0, <2>2
    <3> QED BY <2>2, <2>5, <3>1 DEF Known
  <2>7. PICK q : q = Documents!Answer(u, v)
    OBVIOUS
  <2>8. q \in DocRequest(top) /\ q.stage = "answered" /\ q.url = u /\ q.at = now /\ q.version = v
    BY <1>0, <2>2, <2>3, <2>7 DEF Documents!Answer, DocRequest
  <2>9. DocAsked(q, ttl, fetch)
    <3>1. PICK since \in Int : since = q.at - ttl - fetch /\ since <= now - fetch
      BY <1>0, <2>8
    <3>2. Known(q.url, q.version, since)
      BY <2>6, <2>8, <3>1
    <3> QED BY <2>8, <3>1, <3>2 DEF DocAsked
  <2>10. /\ table' = Trimmed(a, cap) /\ calls' = [calls EXCEPT ![r] = q]
         /\ now' = now /\ outside' = outside
    BY <1>5, <2>7 DEF Stores, Documents!Set
  <2> HIDE DEF e, u, v
  <2>11. /\ o \in Seq(DocEntry(ttl, top)) /\ Distinct(o, "url")
         /\ \A j \in 1..Len(o) : \E k \in 1..Len(table) : o[j] = table[k] /\ table[k].url # u
    BY <1>0, DocOthers
  <2> HIDE DEF o
  <2>12. /\ a \in Seq(DocEntry(ttl, top)) /\ Distinct(a, "url")
         /\ \A j \in 1..Len(a) : a[j] = e \/ \E k \in 1..Len(o) : a[j] = o[k]
    <3>1. \A j \in 1..Len(o) : o[j].url # e.url
      BY <2>4, <2>11
    <3>2. /\ Append(o, e) \in Seq(DocEntry(ttl, top)) /\ Distinct(Append(o, e), "url")
          /\ Len(Append(o, e)) = Len(o) + 1
          /\ \A j \in 1..Len(o) + 1 : \/ Append(o, e)[j] = e
                                     \/ \E k \in 1..Len(o) : Append(o, e)[j] = o[k]
      <4>1. o \in Seq(DocEntry(ttl, top)) /\ Distinct(o, "url") /\ e \in DocEntry(ttl, top)
        BY <2>4, <2>11
      <4> QED BY <3>1, <4>1, WithOneMore
    <3> QED BY <3>2
  <2> HIDE DEF a
  <2>13. /\ table' \in Seq(DocEntry(ttl, top)) /\ Distinct(table', "url") /\ Len(table') <= cap
         /\ \A j \in 1..Len(table') : \E k \in 1..Len(a) : table'[j] = a[k]
    <3> DEFINE t == Trimmed(a, cap)
    <3>1. /\ t \in Seq(DocEntry(ttl, top)) /\ Distinct(t, "url") /\ Len(t) <= cap
          /\ \A j \in 1..Len(t) : \E i \in 1..Len(a) : t[j] = a[i]
      <4>1. a \in Seq(DocEntry(ttl, top)) /\ Distinct(a, "url")
        BY <2>12
      <4> QED BY ONLY <4>1, cap \in Nat, WithinCap
    <3> HIDE DEF t
    <3>2. table' = t
      BY <2>10 DEF t
    <3> QED BY <3>1, <3>2
  <2>14. ASSUME NEW j \in 1..Len(table')
         PROVE  \/ \E k \in 1..Len(table) : table'[j] = table[k]
                \/ Known(table'[j].url, table'[j].version, table'[j].expires - ttl - fetch)
    <3>1. PICK k \in 1..Len(a) : table'[j] = a[k]
      BY <2>13
    <3>2. table'[j] = e \/ \E m \in 1..Len(table) : table'[j] = table[m]
      BY <2>11, <2>12, <3>1
    <3>3. table'[j] = e => Known(table'[j].url, table'[j].version, table'[j].expires - ttl - fetch)
      <4>1. Known(e.url, e.version, e.expires - ttl - fetch)
        <5>1. PICK since \in Int : since = e.expires - ttl - fetch /\ since <= now - fetch
          BY <1>0, <2>4
        <5>2. Known(e.url, e.version, since)
          BY <2>4, <2>6, <5>1
        <5> QED BY <5>1, <5>2
      <4> QED BY <4>1
    <3> QED BY <3>2, <3>3
  <2> QED BY <2>8, <2>9, <2>10, <2>13, <2>14, DocReplies
<1>6. ASSUME NEW r \in Threads, Documents!RefuseDocument(r) \/ Documents!Respond(r)
      PROVE  DocInv(cap, ttl, fetch, top)'
  BY <1>1, <1>6, DocAsks DEF Documents!RefuseDocument, Documents!Respond, Documents!Set
<1>7. ASSUME NEW u \in Urls, Documents!Publish(u) PROVE DocInv(cap, ttl, fetch, top)'
  <2>1. /\ Len(outside[u]) < MaxVersion /\ outside' = [outside EXCEPT ![u] = Append(outside[u], now)]
        /\ UNCHANGED <<now, table, calls>>
    BY <1>7 DEF Documents!Publish
  <2>2. Append(outside[u], now) \in Seq(0..top) /\ Len(Append(outside[u], now)) = Len(outside[u]) + 1
    BY <1>0, AppendProperties
  <2>3. \A w \in Urls : outside'[w] = IF w = u THEN Append(outside[u], now) ELSE outside[w]
    BY <1>0, <2>1
  <2>4. outside' \in [Urls -> Seq(0..top)] /\ \A w \in Urls : Len(outside'[w]) \in 1..MaxVersion
    BY <1>0, <2>1, <2>2, <2>3
  <2>5. DocTypes(cap, ttl, top)'
    BY <1>0, <2>1, <2>4 DEF DocTypes
  <2>6. \A r \in Threads : calls[r].stage \in {"fetching", "received"} => now' <= calls[r].at + fetch
    BY <2>1 DEF DocInv, DocAsked
  <2> QED BY <1>7, <2>1, <2>5, <2>6, DocLater
<1>8. CASE Waits(fetch, top)
  <2>1. now < top /\ now' = now + 1 /\ UNCHANGED <<table, calls, outside>>
    BY <1>8 DEF Waits
  <2>2. DocTypes(cap, ttl, top)' /\ now <= now'
    BY <1>0, <2>1 DEF DocTypes
  <2>3. ASSUME NEW r \in Threads, calls[r].stage \in {"fetching", "received"}
        PROVE  now' <= calls[r].at + fetch
    <3>1. calls[r].at \in 0..top /\ now < calls[r].at + fetch
      BY <1>0, <1>8, <2>3 DEF Waits, Documents!At, DocRequest
    <3> QED BY <1>0, <2>1, <3>1
  <2> QED BY <2>1, <2>2, <2>3, DocLater
<1> QED BY <1>2, <1>3, <1>4, <1>5, <1>6, <1>7, <1>8 DEF DocNext

\* The assumptions on the constants of both caches.
LEMMA DocSizes ==
  /\ MaxCacheSize \in Nat /\ CacheTTL \in Nat /\ MaxFetch \in Nat /\ MaxTime.documents \in Nat
  /\ Cardinality(Urls) \in Nat /\ KeysTTL \in Nat /\ KeysFetch \in Nat /\ MaxTime.access \in Nat
  /\ MaxVersion \in Nat \ {0}
BY SizesOK, FS_CardinalityType DEF SizesOK, Components

DocumentsInv == DocInv(MaxCacheSize, CacheTTL, MaxFetch, MaxTime.documents)

\* An empty cache and no request know nothing.
LEMMA DocInit ==
  ASSUME NEW cap \in Nat, NEW ttl \in Nat, NEW fetch \in Nat, NEW top \in Nat,
         now = 0, table = << >>, calls = [r \in Threads |-> Documents!Idle],
         outside = [u \in Urls |-> << 0 >>]
  PROVE  DocInv(cap, ttl, fetch, top)
<1>1. /\ << 0 >> \in Seq(0..top) /\ Len(<< 0 >>) = 1 /\ \A i \in 1..1 : << 0 >>[i] = 0
  OBVIOUS
<1>2. \A u \in Urls : outside[u] = << 0 >>
  OBVIOUS
<1>3. DocTypes(cap, ttl, top)
  <2>1. Documents!Idle \in DocRequest(top)
    BY DEF Documents!Idle, DocRequest
  <2>2. calls \in [Threads -> DocRequest(top)] /\ now \in 0..top
    BY <2>1
  <2>3. Len(table) <= cap /\ table \in Seq(DocEntry(ttl, top)) /\ Distinct(table, "url")
    BY DEF Distinct
  <2>4. outside \in [Urls -> Seq(0..top)] /\ \A u \in Urls : Len(outside[u]) \in 1..MaxVersion
    BY <1>1, <1>2, DocSizes
  <2> QED BY <2>2, <2>3, <2>4 DEF DocTypes
<1>4. DocHistory
  BY <1>1, <1>2 DEF DocHistory
<1>5. DocCached(ttl, fetch)
  BY DEF DocCached
<1>6. \A r \in Threads : DocAsked(calls[r], ttl, fetch)
  BY DEF DocAsked, Documents!Idle
<1> QED BY <1>3, <1>4, <1>5, <1>6 DEF DocInv

\* The invariant of the caches is that of RemoteDocuments.
LEMMA DocumentsBegin == Documents!Init => DocumentsInv
BY DocInit, DocSizes DEF Documents!Init, DocumentsInv

\* Every step of RemoteDocuments keeps its invariant.
LEMMA DocumentsStep == ASSUME DocumentsInv, Documents!Next PROVE DocumentsInv'
BY DocumentsMoves, DocStep, DocSizes DEF DocumentsInv

\* The invariant of RemoteDocuments gives its types.
LEMMA DocumentsType == DocumentsInv => Documents!TypeOK
<1>1. /\ Documents!Entry = DocEntry(CacheTTL, MaxTime.documents)
      /\ Documents!Request = DocRequest(MaxTime.documents)
  BY DEF DocEntry, DocRequest, Documents!Entry, Documents!Request, Documents!Times,
         Documents!Versions
<1>2. DocumentsInv => DocTypes(MaxCacheSize, CacheTTL, MaxTime.documents)
  BY DEF DocumentsInv, DocInv
<1>3. ASSUME DocumentsInv, NEW i \in DOMAIN table, NEW j \in DOMAIN table,
             table[i].url = table[j].url
      PROVE  i = j
  BY <1>2, <1>3 DEF DocTypes, Distinct
<1>4. DocumentsInv => \A i, j \in DOMAIN table : table[i].url = table[j].url => i = j
  BY <1>3
<1> QED BY <1>1, <1>2, <1>4 DEF DocTypes, Documents!TypeOK, Documents!Times,
                                Documents!Versions

\* And that what answers is no older than the TTL and a fetch.
LEMMA DocumentsAreFresh == DocumentsInv => Documents!DocumentsFresh
<1>1. ASSUME DocumentsInv, NEW r \in Threads, Documents!At(r, "answered")
      PROVE  Documents!Replaced(calls[r].url, calls[r].version)
               >= calls[r].at - CacheTTL - MaxFetch
  <2>1. Known(calls[r].url, calls[r].version, calls[r].at - CacheTTL - MaxFetch)
    BY <1>1 DEF DocumentsInv, DocInv, DocAsked, Documents!At
  <2> QED BY <2>1 DEF Known
<1> QED BY <1>1 DEF Documents!DocumentsFresh

\* An assertion under way names a key that has appeared.
AccessInv ==
  /\ DocInv(Cardinality(Urls), KeysTTL, KeysFetch, MaxTime.access)
  /\ rows \in [Issuers -> Urls \cup {None}] /\ DOMAIN past = Threads
  /\ \A r \in Threads : calls[r].stage # "idle" =>
       past[r].url \in Urls /\ past[r].version \in 1..Len(outside[past[r].url])

\* CrossAppAccess begins in its invariant.
LEMMA AccessBegin == Access!CaaInit => AccessInv
<1> SUFFICES ASSUME Access!CaaInit PROVE AccessInv
  OBVIOUS
<1>1. /\ now = 0 /\ table = << >> /\ calls = [r \in Threads |-> Documents!Idle]
      /\ outside = [u \in Urls |-> << 0 >>]
  BY DEF Access!CaaInit, Access!Init, Access!Idle, Documents!Idle
<1>2. DocInv(Cardinality(Urls), KeysTTL, KeysFetch, MaxTime.access)
  BY <1>1, DocInit, DocSizes
<1> QED BY <1>1, <1>2 DEF Access!CaaInit, AccessInv, Documents!Idle

\* A step that changes nothing of CrossAppAccess keeps its invariant.
LEMMA AccessKeeps == ASSUME AccessInv, UNCHANGED Access!caaVars PROVE AccessInv'
BY DEF AccessInv, Access!caaVars, DocInv, DocTypes, DocHistory, DocCached, DocAsked, Known,
       Documents!Replaced

\* Every step of CrossAppAccess keeps its invariant.
LEMMA AccessStep == ASSUME AccessInv, Access!CaaNext PROVE AccessInv'
<1>1. DocInv(Cardinality(Urls), KeysTTL, KeysFetch, MaxTime.access)'
  <2>1. \/ DocNext(Cardinality(Urls), KeysTTL, KeysFetch, MaxTime.access)
        \/ UNCHANGED <<now, table, calls, outside>>
    BY AccessMoves DEF AccessInv
  <2>2. CASE DocNext(Cardinality(Urls), KeysTTL, KeysFetch, MaxTime.access)
    BY <2>2, DocStep, DocSizes DEF AccessInv
  <2>3. CASE UNCHANGED <<now, table, calls, outside>>
    BY <2>3 DEF AccessInv, DocInv, DocTypes, DocHistory, DocCached, DocAsked, Known,
                Documents!Replaced
  <2> QED BY <2>1, <2>2, <2>3
<1>2. ASSUME NEW r \in Threads, NEW a \in Access!Assertion, Access!Present(r, a) PROVE AccessInv'
  <2>1. /\ a.url \in Urls /\ a.version \in 1..MaxVersion /\ a.version <= Len(outside[a.url])
        /\ UNCHANGED <<rows, outside>> /\ past' = [past EXCEPT ![r] = a]
        /\ \A o \in Threads : o # r => calls'[o] = calls[o]
    BY <1>2 DEF Access!Present, Access!Hit, Access!BeginFetch, Access!Set, Access!Assertion,
                Access!Versions, AccessInv, DocInv, DocTypes
  <2>2. Len(outside[a.url]) \in Nat
    BY <2>1 DEF AccessInv, DocInv, DocTypes
  <2>3. a.version \in 1..Len(outside[a.url])
    BY <2>1, <2>2, DocSizes
  <2> QED BY <1>1, <2>1, <2>3 DEF AccessInv
<1>3. ASSUME Access!Serve \/ Access!Environment, Access!Forget, UNCHANGED rows PROVE AccessInv'
  <2>1. \A r \in Threads : calls'[r].stage # "idle" =>
          calls[r].stage # "idle" /\ past'[r] = past[r]
    <3>1. \A r \in Threads : calls'[r].stage # "idle" => past'[r] = past[r]
      BY <1>3 DEF Access!Forget, Access!Idle
    <3>2. \A r \in Threads : calls'[r].stage # "idle" => calls[r].stage # "idle"
      <4>1. CASE UNCHANGED calls
        BY <4>1
      <4>2. ASSUME NEW r \in Threads, calls[r].stage # "idle",
                   \A o \in Threads : o # r => calls'[o] = calls[o]
            PROVE  \A o \in Threads : calls'[o].stage # "idle" => calls[o].stage # "idle"
        BY <4>2
      <4>3. calls \in [Threads -> DocRequest(MaxTime.access)]
        BY DEF AccessInv, DocInv, DocTypes
      <4>4. CASE Access!Serve
        <5>1. PICK r \in Threads : \/ Access!RemoteAnswers(r) \/ Access!StoreDocument(r)
                                   \/ Access!RefuseDocument(r) \/ Access!Respond(r)
          BY <4>4 DEF Access!Serve
        <5>2. calls[r].stage # "idle" /\ \A o \in Threads : o # r => calls'[o] = calls[o]
          BY <4>3, <5>1 DEF Access!RemoteAnswers, Access!StoreDocument, Access!RefuseDocument,
             Access!Respond, Access!At, Access!Set
        <5> QED BY <4>2, <5>2
      <4>5. CASE Access!Environment
        BY <4>5 DEF Access!Environment, Access!Publish, Access!Tick
      <4> QED BY <1>3, <4>4, <4>5
    <3> QED BY <3>1, <3>2
  <2>2. \A u \in Urls : Len(outside'[u]) >= Len(outside[u]) /\ Len(outside[u]) \in Int
                        /\ Len(outside'[u]) \in Int
    <3>1. \A u \in Urls : outside[u] \in Seq(0..MaxTime.access) /\ now \in 0..MaxTime.access
      BY DEF AccessInv, DocInv, DocTypes
    <3>2. CASE UNCHANGED outside
      BY <3>1, <3>2
    <3>3. ASSUME NEW w \in Urls, Access!Publish(w)
          PROVE  \A u \in Urls : Len(outside'[u]) >= Len(outside[u]) /\ Len(outside[u]) \in Int
                                 /\ Len(outside'[u]) \in Int
      <4>1. outside' = [outside EXCEPT ![w] = Append(outside[w], now)] /\ DOMAIN outside = Urls
        BY <3>3 DEF Access!Publish, AccessInv, DocInv, DocTypes
      <4>2. \A u \in Urls : outside'[u] = IF u = w THEN Append(outside[w], now) ELSE outside[u]
        BY <4>1
      <4>3. Len(Append(outside[w], now)) = Len(outside[w]) + 1
        BY <3>1, AppendProperties
      <4> SUFFICES ASSUME NEW u \in Urls
                   PROVE  Len(outside'[u]) >= Len(outside[u]) /\ Len(outside[u]) \in Int
                          /\ Len(outside'[u]) \in Int
        OBVIOUS
      <4>4. Len(outside[u]) \in Int
        BY <3>1
      <4>5. CASE u = w
        <5>1. Len(outside'[u]) = Len(outside[u]) + 1
          BY <4>2, <4>3, <4>5
        <5> QED BY <4>4, <5>1
      <4>6. CASE u # w
        BY <4>2, <4>4, <4>6
      <4> QED BY <4>5, <4>6
    <3>4. Access!Serve \/ Access!Tick => UNCHANGED outside
      BY DEF Access!Serve, Access!RemoteAnswers, Access!StoreDocument, Access!RefuseDocument,
             Access!Respond, Access!Tick
    <3>5. CASE \E w \in Urls : Access!Publish(w)
      BY <3>3, <3>5
    <3>6. CASE Access!Serve \/ Access!Tick
      <4>1. UNCHANGED outside
        BY <3>4, <3>6
      <4> QED BY <3>2, <4>1
    <3> QED BY <1>3, <3>5, <3>6 DEF Access!Environment
  <2>3. DOMAIN past' = Threads
    BY <1>3 DEF Access!Forget
  <2>4. ASSUME NEW r \in Threads, calls'[r].stage # "idle"
        PROVE  past'[r].url \in Urls /\ past'[r].version \in 1..Len(outside'[past'[r].url])
    BY <2>1, <2>2, <2>4 DEF AccessInv
  <2> QED BY <1>1, <1>3, <2>3, <2>4 DEF AccessInv
<1>4. ASSUME NEW i \in Issuers, NEW u \in Urls,
             Access!AddTrustedIssuer(i, u) \/ Access!RemoveTrustedIssuer(i)
      PROVE  AccessInv'
  BY <1>1, <1>4 DEF Access!AddTrustedIssuer, Access!RemoveTrustedIssuer, Access!vars, AccessInv
<1>5. Urls # {}
  BY SizesOK DEF SizesOK
<1> QED BY <1>2, <1>3, <1>4, <1>5 DEF Access!CaaNext

\* The invariant of CrossAppAccess gives its types.
LEMMA AccessType == AccessInv => Access!TypeOK
<1>1. /\ Access!Entry = DocEntry(KeysTTL, MaxTime.access)
      /\ Access!Request = DocRequest(MaxTime.access)
  BY DEF DocEntry, DocRequest, Access!Entry, Access!Request, Access!Times, Access!Versions
<1>2. AccessInv => DocTypes(Cardinality(Urls), KeysTTL, MaxTime.access)
  BY DEF AccessInv, DocInv
<1> QED BY <1>1, <1>2 DEF DocTypes, Distinct, Access!TypeOK, Access!Times, Access!Versions

\* And that a key is accepted or refused by what was published a TTL and a fetch ago.
LEMMA AccessHonours == AccessInv => Access!KeysHonoured
<1> SUFFICES ASSUME AccessInv, NEW r \in Threads, calls[r].stage = "answered"
             PROVE  LET a == past[r]
                        since == calls[r].at - KeysTTL - KeysFetch
                    IN IF Access!Accepts(r)
                         THEN a.url = calls[r].url /\ Access!Replaced(a.url, a.version) >= since
                         ELSE a.url = calls[r].url /\ a.version = Len(outside[a.url])
                                => outside[a.url][a.version] >= since
  BY DEF Access!KeysHonoured, Access!At
<1> DEFINE a == past[r]
           q == calls[r]
<1>1. PICK since : since = calls[r].at - KeysTTL - KeysFetch
  OBVIOUS
<1>2. Known(q.url, q.version, since)
  BY <1>1 DEF AccessInv, DocInv, DocAsked
<1>3. /\ q.url \in Urls /\ q.version \in 1..Len(outside[q.url])
      /\ Access!Replaced(q.url, q.version) >= since
  BY <1>2 DEF Known, Access!Replaced, Documents!Replaced
<1>4. since \in Int
  <2>1. q.at \in Int
    BY DEF AccessInv, DocInv, DocTypes, DocRequest
  <2> QED BY <1>1, <2>1, DocSizes
<1>5. CASE Access!Accepts(r)
  BY <1>1, <1>3, <1>5 DEF Access!Accepts
<1>6. ASSUME ~Access!Accepts(r), a.url = q.url, a.version = Len(outside[a.url])
      PROVE  outside[a.url][a.version] >= since
  <2>1. q.version # a.version
    BY <1>6 DEF Access!Accepts
  <2>2. q.version < Len(outside[q.url]) /\ q.version + 1 \in 1..Len(outside[q.url])
        /\ a.version \in 1..Len(outside[q.url]) /\ q.version + 1 <= a.version
    BY <1>3, <1>6, <2>1 DEF AccessInv, DocInv, DocTypes
  <2>3. outside[q.url][q.version + 1] >= since
    BY <1>3, <2>2 DEF Access!Replaced
  <2>4. outside[q.url][q.version + 1] <= outside[q.url][a.version]
    BY <1>3, <2>2 DEF AccessInv, DocInv, DocHistory
  <2>5. outside[q.url][q.version + 1] \in Int /\ outside[q.url][a.version] \in Int
    <3>1. \A k \in 1..Len(outside[q.url]) : outside[q.url][k] \in Int
      <4>1. outside[q.url] \in Seq(0..MaxTime.access)
        BY <1>3 DEF AccessInv, DocInv, DocTypes
      <4>2. \A k \in 1..Len(outside[q.url]) : outside[q.url][k] \in 0..MaxTime.access
        BY <4>1, ElementOfSeq
      <4> QED BY <4>2
    <3> QED BY <2>2, <3>1
  <2> QED BY <1>4, <1>6, <2>3, <2>4, <2>5
<1> QED BY <1>1, <1>5, <1>6

-----------------------------------------------------------------------------
\* CityLookup.  What is stored as having no city was stored when a lookup failed.
Backed(e, fail) ==
  ~e.found => /\ e.expires # None /\ fail[e.ip] # None
              /\ e.expires <= fail[e.ip] + NegativeTTL
CityTable(tab, fail) ==
  /\ tab \in Seq(City!Entry) /\ Len(tab) <= MaxCities /\ Distinct(tab, "ip")
  /\ \A i \in 1..Len(tab) : Backed(tab[i], fail)
CityPage(p, fail, time) ==
  /\ p \in City!Page /\ p.began <= time
  /\ \A ip \in City!Ips : p.result[ip] = "none" =>
       fail[ip] # None /\ fail[ip] > p.began - NegativeTTL
Failures(fail, time) == fail \in [City!Ips -> (0..time) \cup {None}]
CityInv ==
  /\ now \in City!Times /\ Failures(past, now) /\ CityTable(table, past)
  /\ calls \in [Threads -> City!Page]
  /\ \A th \in Threads : CityPage(calls[th], past, now)

\* A lookup that fails later leaves all that rests on the earlier one.
Since(fail, later) ==
  \A ip \in City!Ips : fail[ip] # None => later[ip] # None /\ later[ip] >= fail[ip]

\* The assumptions on the constants of CityLookup.
LEMMA CitySizes ==
  /\ NegativeTTL \in Nat \ {0} /\ MaxCities \in Nat \ {0} /\ MaxTime.city \in Nat
  /\ None # "none" /\ None \notin 0..MaxTime.city + NegativeTTL
  /\ Threads # {}
BY SizesOK DEF SizesOK, Components

\* A lookup that fails now leaves what rests on the earlier ones.
LEMMA Fails ==
  ASSUME NEW time \in City!Times, NEW fail, Failures(fail, time), NEW ip \in City!Ips
  PROVE  LET later == [fail EXCEPT ![ip] = time] IN
         Failures(later, time) /\ Since(fail, later) /\ later[ip] = time /\ later[ip] # None
<1>1. time \in 0..time /\ time # None /\ \A t \in 0..time : t # None
  BY CitySizes DEF City!Times
<1> QED BY <1>1 DEF Failures, Since

\* What a page shows is backed by later failures too.
LEMMA StillPage ==
  ASSUME NEW fail, NEW later, NEW time \in City!Times, NEW then \in City!Times, time <= then,
         Failures(fail, time), Failures(later, then), Since(fail, later),
         NEW p, CityPage(p, fail, time)
  PROVE  CityPage(p, later, then)
<1>1. p.began \in Nat /\ p.began <= then
  BY DEF CityPage, City!Page, City!Times
<1>2. ASSUME NEW ip \in City!Ips, p.result[ip] = "none"
      PROVE  later[ip] # None /\ later[ip] > p.began - NegativeTTL
  <2>1. fail[ip] # None /\ fail[ip] > p.began - NegativeTTL /\ fail[ip] \in 0..time
    BY <1>2 DEF CityPage, Failures
  <2>2. later[ip] # None /\ later[ip] >= fail[ip] /\ later[ip] \in 0..then
    BY <2>1 DEF Since, Failures
  <2> QED BY <1>1, <2>1, <2>2, CitySizes DEF City!Times
<1> QED BY <1>1, <1>2 DEF CityPage

\* So is what the cache holds.
LEMMA StillBacked ==
  ASSUME NEW fail, NEW later, NEW time \in City!Times, Failures(fail, time),
         Failures(later, time), Since(fail, later), NEW e \in City!Entry, Backed(e, fail)
  PROVE  Backed(e, later)
<1> SUFFICES ASSUME ~e.found
             PROVE  /\ e.expires # None /\ later[e.ip] # None
                    /\ e.expires <= later[e.ip] + NegativeTTL
  BY DEF Backed
<1>1. /\ e.expires # None /\ fail[e.ip] # None /\ e.expires <= fail[e.ip] + NegativeTTL
      /\ e.ip \in City!Ips /\ e.expires \in Nat
  BY CitySizes DEF Backed, City!Entry
<1>2. fail[e.ip] \in 0..time /\ later[e.ip] # None /\ later[e.ip] >= fail[e.ip]
      /\ later[e.ip] \in 0..time
  BY <1>1 DEF Failures, Since
<1> QED BY <1>1, <1>2, CitySizes DEF City!Times

\* CityLookup begins in its invariant.
LEMMA CityInit == City!Init => CityInv
<1> SUFFICES ASSUME City!Init PROVE CityInv
  OBVIOUS
<1>1. /\ now = 0 /\ table = << >> /\ calls = [th \in Threads |-> City!Idle]
      /\ past = [ip \in City!Ips |-> None]
  BY DEF City!Init
<1>2. City!Idle \in City!Page /\ City!Idle.began = 0
      /\ \A ip \in City!Ips : City!Idle.result[ip] = None
  BY CitySizes DEF City!Idle, City!Page, City!Times, City!NoResult, City!Verdict
<1>3. CityTable(table, past)
  BY <1>1, CitySizes DEF CityTable, Distinct
<1>4. now \in City!Times /\ Failures(past, now)
  BY <1>1, CitySizes DEF City!Times, Failures
<1>5. \A th \in Threads : CityPage(calls[th], past, now)
  BY <1>1, <1>2, CitySizes DEF CityPage
<1> QED BY <1>1, <1>2, <1>3, <1>4, <1>5 DEF CityInv

\* The table without an address, and with it at its end.
LEMMA CityOthers ==
  ASSUME NEW ip, CityTable(table, past)
  PROVE  /\ City!Others(ip) \in Seq(City!Entry) /\ Distinct(City!Others(ip), "ip")
         /\ Len(City!Others(ip)) <= Len(table)
         /\ City!Entries(ip) # {} => Len(City!Others(ip)) = Len(table) - 1
         /\ \A j \in 1..Len(City!Others(ip)) :
              City!Others(ip)[j].ip # ip /\ Backed(City!Others(ip)[j], past)
<1>1. City!Others(ip) = Rest(table, "ip", ip) /\ City!Entries(ip) = Places(table, "ip", ip)
  BY DEF City!Others, City!Entries, Rest, Places
<1>2. /\ table \in Seq(City!Entry) /\ Distinct(table, "ip")
      /\ \A i \in 1..Len(table) : Backed(table[i], past)
  BY DEF CityTable
<1> DEFINE rest == Rest(table, "ip", ip)
<1>3. /\ rest \in Seq(City!Entry) /\ Distinct(rest, "ip")
      /\ Len(rest) = IF Places(table, "ip", ip) = {} THEN Len(table) ELSE Len(table) - 1
      /\ \A j \in 1..Len(rest) : \E i \in 1..Len(table) :
           rest[j] = table[i] /\ table[i]["ip"] # ip
  BY <1>2, WithoutOne
<1> HIDE DEF rest
<1>4. Len(table) \in Nat /\ City!Others(ip) = rest
  BY <1>1, <1>2 DEF rest
<1>5. Len(rest) <= Len(table) /\ (City!Entries(ip) # {} => Len(rest) = Len(table) - 1)
  BY <1>1, <1>3, <1>4
<1>6. \A j \in 1..Len(rest) : rest[j].ip # ip /\ Backed(rest[j], past)
  BY <1>2, <1>3
<1> QED BY <1>3, <1>4, <1>5, <1>6

\* The cache with another entry for an address, before it is cut to its cap.
LEMMA CityAppended ==
  ASSUME CityTable(table, past), NEW e \in City!Entry, NEW fail, Backed(e, fail),
         \A x \in City!Entry : Backed(x, past) => Backed(x, fail)
  PROVE  LET seq == Append(City!Others(e.ip), e) IN
         /\ seq \in Seq(City!Entry) /\ Distinct(seq, "ip")
         /\ Len(seq) = Len(City!Others(e.ip)) + 1
         /\ \A j \in 1..Len(seq) : Backed(seq[j], fail)
<1> DEFINE o == City!Others(e.ip)
           seq == Append(o, e)
<1>1. /\ o \in Seq(City!Entry) /\ Distinct(o, "ip")
      /\ \A j \in 1..Len(o) : o[j].ip # e.ip /\ Backed(o[j], past)
  BY CityOthers
<1> HIDE DEF o
<1>2. \A j \in 1..Len(o) : o[j]["ip"] # e["ip"]
  BY <1>1
<1>3. /\ seq \in Seq(City!Entry) /\ Distinct(seq, "ip") /\ Len(seq) = Len(o) + 1
      /\ \A j \in 1..Len(o) + 1 : seq[j] = e \/ \E i \in 1..Len(o) : seq[j] = o[i]
  BY <1>1, <1>2, WithOneMore
<1> HIDE DEF seq
<1>4. \A j \in 1..Len(o) : Backed(o[j], fail)
  BY <1>1
<1>5. \A j \in 1..Len(seq) : Backed(seq[j], fail)
  BY <1>3, <1>4
<1> QED BY <1>3, <1>5 DEF seq, o

\* _cache_set.
LEMMA CityStored ==
  ASSUME CityInv, NEW ip \in City!Ips, NEW found \in BOOLEAN, City!CacheSet(ip, found), now' = now
  PROVE  /\ CityTable(table, past)' /\ Failures(past, now)' /\ Since(past, past')
         /\ ~found => past'[ip] = now /\ past'[ip] # None
<1>1. now \in City!Times /\ Failures(past, now) /\ CityTable(table, past)
  BY DEF CityInv
<1> DEFINE e == [ip |-> ip, found |-> found, expires |-> City!Expiry(found)]
<1>2. /\ table' = City!Kept(Append(City!Others(ip), e))
      /\ past' = IF found THEN past ELSE [past EXCEPT ![ip] = now]
  BY DEF City!CacheSet
<1>3. Failures(past, now)' /\ Since(past, past') /\ (~found => past'[ip] = now /\ past'[ip] # None)
  <2>1. CASE found
    <3>1. Since(past, past)
      BY <1>1 DEF Since, Failures, City!Times
    <3> QED BY <1>1, <1>2, <2>1, <3>1 DEF Failures
  <2>2. CASE ~found
    <3>1. past' = [past EXCEPT ![ip] = now]
      BY <1>2, <2>2
    <3> QED BY <1>1, <3>1, <2>2, Fails DEF Failures
  <2> QED BY <2>1, <2>2
<1>4. e \in City!Entry /\ Backed(e, past') /\ e.ip = ip
  <2>1. City!Expiry(found) = IF found THEN None ELSE now + NegativeTTL
    BY DEF City!Expiry
  <2>2. now + NegativeTTL \in 0..MaxTime.city + NegativeTTL
    BY <1>1, CitySizes DEF City!Times
  <2>3. City!Expiry(found) \in (0..MaxTime.city + NegativeTTL) \cup {None}
    BY <2>1, <2>2
  <2>4. e \in City!Entry
    BY <2>3 DEF City!Entry
  <2>5. e.ip = ip /\ e.found = found /\ e.expires = City!Expiry(found)
    OBVIOUS
  <2>6. ~found => /\ City!Expiry(found) = now + NegativeTTL
                  /\ now + NegativeTTL # None /\ past'[ip] # None
                  /\ now + NegativeTTL <= past'[ip] + NegativeTTL
    <3>1. now \in Nat /\ now + NegativeTTL # None /\ now + NegativeTTL <= now + NegativeTTL
      BY <1>1, <2>2, CitySizes DEF City!Times
    <3> QED BY <1>3, <2>1, <3>1
  <2> HIDE DEF e
  <2>7. Backed(e, past')
    BY <2>5, <2>6 DEF Backed
  <2> QED BY <2>4, <2>5, <2>7
<1> HIDE DEF e
<1>5. \A x \in City!Entry : Backed(x, past) => Backed(x, past')
  BY <1>1, <1>3, StillBacked DEF Failures
<1> DEFINE seq == Append(City!Others(e.ip), e)
<1>6. /\ seq \in Seq(City!Entry) /\ Distinct(seq, "ip")
      /\ \A j \in 1..Len(seq) : Backed(seq[j], past')
  <2> DEFINE fail == past'
  <2>1. Backed(e, fail) /\ \A x \in City!Entry : Backed(x, past) => Backed(x, fail)
    BY <1>4, <1>5
  <2> HIDE DEF fail
  <2>2. /\ seq \in Seq(City!Entry) /\ Distinct(seq, "ip")
        /\ \A j \in 1..Len(seq) : Backed(seq[j], fail)
    BY <1>1, <1>4, <2>1, CityAppended
  <2> QED BY <2>2 DEF fail
<1>7. table' = Trimmed(seq, MaxCities)
  BY <1>2, <1>4 DEF City!Kept, Trimmed, City!Max, Documents!Max
<1> HIDE DEF seq
<1> DEFINE t == Trimmed(seq, MaxCities)
<1>8. /\ t \in Seq(City!Entry) /\ Distinct(t, "ip") /\ Len(t) <= MaxCities
      /\ \A j \in 1..Len(t) : \E i \in 1..Len(seq) : t[j] = seq[i]
  BY <1>6, CitySizes, WithinCap
<1> HIDE DEF t
<1>9. \A j \in 1..Len(t) : Backed(t[j], past')
  BY <1>6, <1>8
<1>10. CityTable(t, past')
  BY <1>8, <1>9 DEF CityTable
<1>11. table' = t
  BY <1>7 DEF t
<1> QED BY <1>3, <1>10, <1>11 DEF CityTable

\* A step of one page, which leaves the others what they rest on.
LEMMA CityTurns ==
  ASSUME CityInv, NEW th \in Threads, NEW p, City!Set(th, p), now' = now,
         CityTable(table, past)', Failures(past, now)', Since(past, past'),
         CityPage(p, past', now)
  PROVE  CityInv'
<1>1. now \in City!Times /\ Failures(past, now) /\ calls \in [Threads -> City!Page]
      /\ \A o \in Threads : CityPage(calls[o], past, now)
  BY DEF CityInv
<1>2. calls' = [calls EXCEPT ![th] = p] /\ p \in City!Page
  BY DEF City!Set, CityPage
<1>3. calls' \in [Threads -> City!Page]
  BY <1>1, <1>2
<1>4. Failures(past', now)
  BY DEF Failures
<1> DEFINE later == past'
<1> HIDE DEF later
<1>5. now <= now /\ Failures(later, now) /\ Since(past, later)
  BY <1>1, <1>4 DEF later, City!Times
<1>6. \A o \in Threads : CityPage(calls[o], later, now)
  BY <1>1, <1>5, StillPage
<1>7. \A o \in Threads : CityPage(calls'[o], later, now)
  BY <1>1, <1>2, <1>6 DEF later
<1>8. \A o \in Threads : CityPage(calls[o], past, now)'
  BY <1>7 DEF CityPage, later
<1> QED BY <1>1, <1>3, <1>8 DEF CityInv, City!Times

\* A page that no new answer enters.
LEMMA SamePage ==
  ASSUME NEW fail, NEW time, NEW p, CityPage(p, fail, time), NEW q \in City!Page,
         q.began = p.began, \A ip \in City!Ips : q.result[ip] = "none" => p.result[ip] = "none"
  PROVE  CityPage(q, fail, time)
BY DEF CityPage

\* Every failure is as late as itself.
LEMMA Unfailed == ASSUME CityInv PROVE Since(past, past)
BY DEF CityInv, Failures, Since, City!Times

\* A step of one page that stores no failure.
LEMMA CityQuiet ==
  ASSUME CityInv, NEW th \in Threads, NEW p, City!Set(th, p), UNCHANGED <<now, past>>,
         CityTable(table', past), CityPage(p, past, now)
  PROVE  CityInv'
<1>1. CityTable(table, past)' /\ Failures(past, now)' /\ Since(past, past')
  BY Unfailed DEF CityTable, Failures, CityInv
<1>2. CityPage(p, past', now)
  OBVIOUS
<1> QED BY <1>1, <1>2, CityTurns

\* A page that opens shows nothing yet.
LEMMA CityOpens ==
  ASSUME CityInv, NEW th \in Threads, NEW ips \in SUBSET City!Ips, City!OpenPage(th, ips)
  PROVE  CityInv'
<1> DEFINE p == [City!Idle EXCEPT !.stage = "reading", !.began = now, !.todo = ips]
<1>1. City!Set(th, p) /\ UNCHANGED <<now, past, table>>
  BY DEF City!OpenPage
<1>2. now \in City!Times /\ CityTable(table', past)
  BY <1>1 DEF CityInv
<1>3. p \in City!Page
  BY <1>2, CitySizes DEF City!Idle, City!Page, City!Times, City!NoResult, City!Verdict
<1>4. p.began = now /\ p.result = City!NoResult
  BY DEF City!Idle
<1>5. CityPage(p, past, now)
  BY <1>2, <1>3, <1>4, CitySizes DEF CityPage, City!NoResult, City!Times
<1> QED BY <1>1, <1>2, <1>5, CityQuiet

\* A page that reads the cache may show the absence it holds, which has not expired.
LEMMA CityGets ==
  ASSUME CityInv, NEW th \in Threads, NEW ip \in City!Ips, City!CacheGet(th, ip)
  PROVE  CityInv'
<1> DEFINE q == calls[th]
           page == [q EXCEPT !.todo = @ \ {ip}]
           hits == {i \in City!Entries(ip) : City!Live(table[i])}
           found(v) == [page EXCEPT !.result[ip] = v]
<1>0. q \in City!Page /\ CityPage(q, past, now) /\ CityTable(table, past) /\ now \in City!Times
  BY DEF CityInv
<1>1. page \in City!Page /\ page.began = q.began /\ page.result = q.result
  BY <1>0 DEF City!Page
<1>2. \A v \in City!Verdict : /\ found(v) \in City!Page /\ found(v).began = q.began
                              /\ found(v).result = [q.result EXCEPT ![ip] = v]
  BY <1>0 DEF City!Page
<1>3. q.result \in [City!Ips -> City!Verdict \cup {None}] /\ q.began \in City!Times
  BY <1>0 DEF City!Page
<1>4. now' = now
  BY DEF City!CacheGet
<1>5. ASSUME NEW i \in hits, table' = Append(City!Others(ip), table[i]), past' = past,
             City!Set(th, found(IF table[i].found THEN "city" ELSE "none"))
      PROVE  CityInv'
  <2> DEFINE e == table[i]
             v == IF e.found THEN "city" ELSE "none"
             seq == Append(City!Others(e.ip), e)
  <2>1. i \in 1..Len(table) /\ e \in City!Entry /\ e.ip = ip /\ Backed(e, past)
        /\ City!Entries(ip) # {} /\ City!Live(e)
    BY <1>0, <1>5 DEF City!Entries, CityTable
  <2>2. table' = seq
    BY <1>5, <2>1
  <2>3. v \in City!Verdict
    BY DEF City!Verdict
  <2>4. v = "none" => past[ip] # None /\ past[ip] > q.began - NegativeTTL
    <3> SUFFICES ASSUME ~e.found PROVE past[ip] # None /\ past[ip] > q.began - NegativeTTL
      OBVIOUS
    <3>1. e.expires # None /\ past[ip] # None /\ e.expires <= past[ip] + NegativeTTL
      BY <2>1 DEF Backed
    <3>2. e.expires > now
      BY <2>1, <3>1 DEF City!Live
    <3>3. e.expires \in Nat /\ past[ip] \in Nat
      BY <1>0, <2>1, <3>1, CitySizes DEF City!Entry, CityInv, Failures, City!Times
    <3>4. q.began <= now /\ q.began \in Nat /\ now \in Nat
      BY <1>0, <1>3 DEF CityPage, City!Times
    <3> QED BY <3>1, <3>2, <3>3, <3>4, CitySizes
  <2> HIDE DEF e, v
  <2>5. /\ seq \in Seq(City!Entry) /\ Distinct(seq, "ip")
        /\ Len(seq) = Len(City!Others(e.ip)) + 1 /\ \A j \in 1..Len(seq) : Backed(seq[j], past)
    BY <1>0, <2>1, CityAppended
  <2>6. Len(City!Others(e.ip)) = Len(table) - 1
    BY <1>0, <2>1, CityOthers
  <2> HIDE DEF seq
  <2>7. Len(seq) <= MaxCities
    BY <1>0, <2>5, <2>6, CitySizes DEF CityTable
  <2>8. CityTable(table', past)
    BY <2>2, <2>5, <2>7 DEF CityTable
  <2> DEFINE p == found(v)
  <2>9. City!Set(th, p) /\ p \in City!Page /\ p.began = q.began
        /\ p.result = [q.result EXCEPT ![ip] = v]
    BY <1>2, <1>5, <2>3 DEF v, e
  <2> HIDE DEF p
  <2>10. CityPage(p, past, now)
    <3>1. ASSUME NEW o \in City!Ips, p.result[o] = "none"
          PROVE  past[o] # None /\ past[o] > p.began - NegativeTTL
      <4>1. CASE o = ip
        BY <1>3, <2>4, <2>9, <3>1, <4>1
      <4>2. CASE o # ip
        <5>1. q.result[o] = "none"
          BY <1>3, <2>9, <3>1, <4>2
        <5> QED BY <1>0, <2>9, <5>1 DEF CityPage
      <4> QED BY <4>1, <4>2
    <3> QED BY <1>0, <2>9, <3>1 DEF CityPage
  <2> QED BY <1>4, <1>5, <2>8, <2>9, <2>10, CityQuiet
<1>6. ASSUME ip \in Public, table' = City!Others(ip), past' = past,
             City!Set(th, [page EXCEPT !.ask = @ \cup {ip}])
      PROVE  CityInv'
  <2> DEFINE p == [page EXCEPT !.ask = @ \cup {ip}]
  <2>1. p \in City!Page /\ p.began = q.began /\ p.result = q.result
    BY <1>0, <1>6 DEF City!Page
  <2>2. CityTable(table', past)
    <3>1. /\ City!Others(ip) \in Seq(City!Entry) /\ Distinct(City!Others(ip), "ip")
          /\ Len(City!Others(ip)) <= Len(table)
          /\ \A j \in 1..Len(City!Others(ip)) : Backed(City!Others(ip)[j], past)
      BY <1>0, CityOthers
    <3>2. Len(City!Others(ip)) <= MaxCities
      BY <1>0, <3>1, CitySizes DEF CityTable
    <3> QED BY <1>6, <3>1, <3>2 DEF CityTable
  <2>3. City!Set(th, p)
    BY <1>6
  <2> HIDE DEF p
  <2>4. CityPage(p, past, now)
    BY <1>0, <2>1, SamePage
  <2> QED BY <1>4, <1>6, <2>2, <2>3, <2>4, CityQuiet
<1>7. ASSUME City!CacheSet(ip, FALSE), City!Set(th, found("none")) PROVE CityInv'
  <2>1. /\ CityTable(table, past)' /\ Failures(past, now)' /\ Since(past, past')
        /\ past'[ip] = now /\ past'[ip] # None
    BY <1>4, <1>7, CityStored
  <2> DEFINE p == found("none")
  <2>2. City!Set(th, p) /\ p \in City!Page /\ p.began = q.began
        /\ p.result = [q.result EXCEPT ![ip] = "none"]
    BY <1>2, <1>7 DEF City!Verdict
  <2> HIDE DEF p
  <2> DEFINE fail == past'
  <2>3. CityPage(q, fail, now)
    <3>1. Failures(fail, now) /\ Failures(past, now) /\ now <= now /\ Since(past, fail)
      BY <1>0, <1>4, <2>1 DEF CityInv, Failures, City!Times
    <3> HIDE DEF fail
    <3> QED BY <1>0, <3>1, StillPage
  <2>4. ASSUME NEW o \in City!Ips, p.result[o] = "none"
        PROVE  fail[o] # None /\ fail[o] > p.began - NegativeTTL
    <3>1. CASE o = ip
      <4>1. q.began <= now /\ q.began \in Nat /\ now \in Nat
        BY <1>0, <1>3 DEF CityPage, City!Times
      <4> QED BY <2>1, <2>2, <3>1, <4>1, CitySizes
    <3>2. CASE o # ip
      <4>1. q.result[o] = "none"
        BY <1>3, <2>2, <2>4, <3>2
      <4> QED BY <2>2, <2>3, <4>1 DEF CityPage
    <3> QED BY <3>1, <3>2
  <2>5. CityPage(p, fail, now)
    BY <1>0, <2>2, <2>4 DEF CityPage
  <2> QED BY <1>4, <2>1, <2>2, <2>5, CityTurns
<1> QED
  <2>1. \/ \E i \in hits :
             /\ table' = Append(City!Others(ip), table[i])
             /\ City!Set(th, found(IF table[i].found THEN "city" ELSE "none"))
             /\ past' = past
        \/ /\ ip \in Public /\ table' = City!Others(ip)
           /\ City!Set(th, [page EXCEPT !.ask = @ \cup {ip}]) /\ past' = past
        \/ City!CacheSet(ip, FALSE) /\ City!Set(th, found("none"))
    BY DEF City!CacheGet
  <2> HIDE DEF q, page, hits, found
  <2> QED BY <1>5, <1>6, <1>7, <2>1

\* A page that stores an answer shows the failure that it stores.
LEMMA CityStores ==
  ASSUME CityInv, NEW th \in Threads, NEW ip \in City!Ips, City!StoreEntry(th, ip)
  PROVE  CityInv'
<1> DEFINE q == calls[th]
           got == ip \in q.ask
           v == IF got THEN "city" ELSE "none"
           p == [q EXCEPT !.todo = @ \ {ip}, !.result[ip] = v]
<1>0. q \in City!Page /\ CityPage(q, past, now) /\ now \in City!Times
  BY DEF CityInv
<1>1. City!CacheSet(ip, got) /\ City!Set(th, p) /\ now' = now
  BY DEF City!StoreEntry
<1>2. v \in City!Verdict /\ got \in BOOLEAN
  BY DEF City!Verdict
<1>3. /\ CityTable(table, past)' /\ Failures(past, now)' /\ Since(past, past')
      /\ ~got => past'[ip] = now /\ past'[ip] # None
  <2> HIDE DEF got
  <2> QED BY <1>1, <1>2, CityStored
<1>4. v = "none" <=> ~got
  OBVIOUS
<1> HIDE DEF v, got
<1>5. p \in City!Page /\ p.began = q.began /\ p.result = [q.result EXCEPT ![ip] = v]
  <2>1. p \in City!Page
    BY <1>0, <1>2 DEF City!Page
  <2> QED BY <1>0, <2>1 DEF City!Page
<1>6. q.result \in [City!Ips -> City!Verdict \cup {None}] /\ q.began \in City!Times
  BY <1>0 DEF City!Page
<1> HIDE DEF p, q
<1> DEFINE fail == past'
<1>7. CityPage(q, fail, now)
  <2>1. Failures(fail, now) /\ Failures(past, now) /\ now <= now /\ Since(past, fail)
    BY <1>0, <1>1, <1>3 DEF CityInv, Failures, City!Times
  <2> HIDE DEF fail
  <2> QED BY <1>0, <2>1, StillPage
<1>8. ASSUME NEW o \in City!Ips, p.result[o] = "none"
      PROVE  fail[o] # None /\ fail[o] > p.began - NegativeTTL
  <2>1. CASE o = ip
    <3>1. ~got
      BY <1>4, <1>5, <1>6, <1>8, <2>1
    <3>2. q.began <= now /\ q.began \in Nat /\ now \in Nat
      BY <1>0, <1>6 DEF CityPage, City!Times
    <3> QED BY <1>3, <1>5, <2>1, <3>1, <3>2, CitySizes
  <2>2. CASE o # ip
    <3>1. q.result[o] = "none"
      BY <1>5, <1>6, <1>8, <2>2
    <3> QED BY <1>5, <1>7, <3>1 DEF CityPage
  <2> QED BY <2>1, <2>2
<1>9. CityPage(p, fail, now)
  BY <1>0, <1>5, <1>8 DEF CityPage
<1> QED BY <1>1, <1>3, <1>9, CityTurns

\* The steps of a page that leave the cache alone.
LEMMA CityAsks ==
  ASSUME CityInv, NEW th \in Threads,
         \/ \E answered, cities \in SUBSET Public : City!BatchAnswered(th, answered, cities)
         \/ City!SendBatch(th) \/ City!BatchBroken(th) \/ City!PageDone(th) \/ City!Respond(th)
  PROVE  CityInv'
<1> DEFINE q == calls[th]
<1>0. q \in City!Page /\ CityPage(q, past, now) /\ CityTable(table, past) /\ now \in City!Times
  BY DEF CityInv
<1>1. UNCHANGED <<now, past, table>>
  BY DEF City!BatchAnswered, City!SendBatch, City!BatchBroken, City!PageDone, City!Respond
<1>2. ASSUME NEW p, City!Set(th, p), CityPage(p, past, now) PROVE CityInv'
  BY <1>0, <1>1, <1>2, CityQuiet
<1>3. CityPage(City!Idle, past, now)
  <2>1. City!Idle \in City!Page /\ City!Idle.began = 0
        /\ \A ip \in City!Ips : City!Idle.result[ip] = None
    BY CitySizes DEF City!Idle, City!Page, City!Times, City!NoResult, City!Verdict
  <2> QED BY <1>0, <2>1, CitySizes DEF CityPage, City!Times
<1>4. CASE City!BatchBroken(th) \/ City!Respond(th)
  BY <1>2, <1>3, <1>4 DEF City!BatchBroken, City!Respond
<1>5. CASE City!SendBatch(th)
  <2> DEFINE s == IF q.ask = {} THEN "done" ELSE "asking"
             p == [q EXCEPT !.stage = s]
  <2>1. City!Set(th, p)
    BY <1>5 DEF City!SendBatch
  <2>2. p \in City!Page /\ p.began = q.began /\ p.result = q.result
    BY <1>0 DEF City!Page
  <2> HIDE DEF p
  <2> QED BY <1>0, <1>2, <2>1, <2>2, SamePage
<1>6. CASE City!PageDone(th)
  <2> DEFINE p == [q EXCEPT !.stage = "done", !.ask = {}]
  <2>1. City!Set(th, p)
    BY <1>6 DEF City!PageDone
  <2>2. p \in City!Page /\ p.began = q.began /\ p.result = q.result
    BY <1>0 DEF City!Page
  <2> HIDE DEF p
  <2> QED BY <1>0, <1>2, <2>1, <2>2, SamePage
<1>7. ASSUME NEW answered \in SUBSET Public, NEW cities \in SUBSET Public,
             City!BatchAnswered(th, answered, cities)
      PROVE  CityInv'
  <2> DEFINE p == [q EXCEPT !.stage = "storing", !.todo = answered, !.ask = cities]
  <2>1. City!Set(th, p)
    BY <1>7 DEF City!BatchAnswered
  <2>2. p \in City!Page /\ p.began = q.began /\ p.result = q.result
    BY <1>0 DEF City!Page, City!Ips
  <2> HIDE DEF p
  <2> QED BY <1>0, <1>2, <2>1, <2>2, SamePage
<1> QED BY <1>4, <1>5, <1>6, <1>7

\* Time passes: no page began later.
LEMMA CityTicks == ASSUME CityInv, City!Tick PROVE CityInv'
<1>1. now \in City!Times /\ Failures(past, now) /\ CityTable(table, past)
      /\ calls \in [Threads -> City!Page] /\ \A th \in Threads : CityPage(calls[th], past, now)
  BY DEF CityInv
<1>2. now' = now + 1 /\ now' \in City!Times /\ now <= now' /\ UNCHANGED <<table, calls, past>>
  BY <1>1, CitySizes DEF City!Tick, City!Times
<1>3. Failures(past, now')
  BY <1>1, <1>2 DEF Failures, City!Times
<1>4. \A th \in Threads : CityPage(calls[th], past, now')
  <2> DEFINE then == now'
  <2>1. then \in City!Times /\ now <= then /\ Failures(past, then) /\ Since(past, past)
    BY <1>2, <1>3, Unfailed
  <2> HIDE DEF then
  <2> QED BY <1>1, <2>1, StillPage DEF then
<1> QED BY <1>1, <1>2, <1>3, <1>4 DEF CityInv, CityTable, Failures

\* Every step of CityLookup keeps its invariant.
LEMMA CityStep == ASSUME CityInv, City!Next PROVE CityInv'
<1>1. CASE City!Tick
  BY <1>1, CityTicks
<1>2. ASSUME NEW th \in Threads, NEW ips \in SUBSET City!Ips \ {{}}, City!OpenPage(th, ips)
      PROVE  CityInv'
  BY <1>2, CityOpens
<1>3. ASSUME NEW th \in Threads, NEW ip \in City!Ips,
             City!CacheGet(th, ip) \/ City!StoreEntry(th, ip)
      PROVE  CityInv'
  BY <1>3, CityGets, CityStores
<1> QED BY <1>1, <1>2, <1>3, CityAsks DEF City!Next

\* The invariant of CityLookup gives its types.
LEMMA CityType == CityInv => City!TypeOK
<1> SUFFICES ASSUME CityInv PROVE City!TypeOK
  OBVIOUS
<1>1. ASSUME NEW i \in DOMAIN table, NEW j \in DOMAIN table, table[i].ip = table[j].ip
      PROVE  i = j
  BY <1>1 DEF CityInv, CityTable, Distinct
<1>2. past \in [City!Ips -> City!Times \cup {None}]
  <2>1. \A t \in 0..now : t \in City!Times
    BY CitySizes DEF CityInv, City!Times
  <2> QED BY <2>1 DEF CityInv, Failures
<1> QED BY <1>1, <1>2 DEF City!TypeOK, CityInv, CityTable

\* And that a page shows no city only where a lookup failed.
LEMMA CityIsHonest == CityInv => City!AnswersHonest
BY DEF CityInv, CityPage, City!AnswersHonest

-----------------------------------------------------------------------------
\* A property of the numbers that holds at zero and after each it holds at.
LEMMA LeastOf ==
  ASSUME NEW S \in SUBSET Nat, S # {}
  PROVE  \E m \in S : \A n \in S : m <= n
<1>1. PICK m \in S : \A n \in S : ~(<<n, m>> \in OpToRel(<, Nat))
  BY NatLessThanWellFounded, WFMin
<1>2. \A n \in S : ~(n < m)
  BY <1>1 DEF OpToRel
<1> QED BY <1>2

\* Induction on the numbers.
LEMMA AllNumbers ==
  ASSUME NEW S \in SUBSET Nat, 0 \in S, \A n \in S : n + 1 \in S
  PROVE  S = Nat
<1> SUFFICES ASSUME Nat \ S # {} PROVE FALSE
  OBVIOUS
<1>1. PICK m \in Nat \ S : \A n \in Nat \ S : m <= n
  BY LeastOf
<1>2. m - 1 \in Nat /\ m - 1 \in S
  BY <1>1
<1> QED BY <1>1, <1>2

\* The sum of a function over a finite set, which takes the elements in some order.
Chosen(s) == CHOOSE x \in s : TRUE
Summed(f, g, s) == IF s = {} THEN 0 ELSE f[Chosen(s)] + g[s \ {Chosen(s)}]
SumOver(f, S) == (CHOOSE g : g = [s \in SUBSET S |-> Summed(f, g, s)])[S]

\* The sums of Webhooks are these.
LEMMA SumsHooks == ASSUME NEW f, NEW S PROVE Hooks!MapThenSumSet(LAMBDA x : f[x], S) = SumOver(f, S)
BY DEF Hooks!MapThenSumSet, Hooks!MapThenFoldSet, SumOver, Summed, Chosen

\* A set without one of its elements is smaller.
LEMMA Smaller ==
  ASSUME NEW s, IsFiniteSet(s), s # {}
  PROVE  /\ Chosen(s) \in s /\ Cardinality(s) \in Nat \ {0}
         /\ \A x \in s : /\ IsFiniteSet(s \ {x}) /\ Cardinality(s \ {x}) = Cardinality(s) - 1
                         /\ Cardinality(s \ {x}) \in Nat
<1>1. Chosen(s) \in s
  BY DEF Chosen
<1>2. Cardinality(s) \in Nat /\ Cardinality(s) # 0
  BY FS_CardinalityType, FS_EmptySet
<1>3. ASSUME NEW x \in s
      PROVE  /\ IsFiniteSet(s \ {x}) /\ Cardinality(s \ {x}) = Cardinality(s) - 1
             /\ Cardinality(s \ {x}) \in Nat
  BY <1>2, FS_RemoveElement, FS_CardinalityType
<1> QED BY <1>1, <1>2, <1>3

\* Subsets of up to n elements have a table of sums.
Upto(S, n) == {s \in SUBSET S : Cardinality(s) <= n}

\* The sums over the sets of at most n elements are a function.
LEMMA SumsExist ==
  ASSUME NEW S, IsFiniteSet(S), NEW f, \A z \in S : f[z] \in Int, NEW n \in Nat
  PROVE  \E g \in [Upto(S, n) -> Int] : \A s \in Upto(S, n) : g[s] = Summed(f, g, s)
<1> DEFINE Has(k) == \E g \in [Upto(S, k) -> Int] : \A s \in Upto(S, k) : g[s] = Summed(f, g, s)
           N == {k \in Nat : Has(k)}
<1>0. \A s \in SUBSET S : IsFiniteSet(s) /\ Cardinality(s) \in Nat
  BY FS_Subset, FS_CardinalityType
<1>1. Has(0)
  <2>1. \A s \in Upto(S, 0) : s = {}
    BY <1>0, FS_EmptySet DEF Upto
  <2> DEFINE g == [s \in Upto(S, 0) |-> 0]
  <2>2. g \in [Upto(S, 0) -> Int] /\ \A s \in Upto(S, 0) : g[s] = Summed(f, g, s)
    BY <2>1 DEF Summed
  <2> QED BY <2>2
<1>2. ASSUME NEW k \in Nat, Has(k) PROVE Has(k + 1)
  <2>1. PICK g \in [Upto(S, k) -> Int] : \A s \in Upto(S, k) : g[s] = Summed(f, g, s)
    BY <1>2
  <2> DEFINE h == [s \in Upto(S, k + 1) |-> Summed(f, g, s)]
  <2>2. ASSUME NEW s \in Upto(S, k + 1), s # {}
        PROVE  /\ Chosen(s) \in S /\ s \ {Chosen(s)} \in Upto(S, k)
               /\ s \ {Chosen(s)} \in Upto(S, k + 1)
    <3>1. /\ s \in SUBSET S /\ Cardinality(s) <= k + 1 /\ Cardinality(s) \in Nat
          /\ Chosen(s) \in s /\ Cardinality(s \ {Chosen(s)}) = Cardinality(s) - 1
      BY <1>0, <2>2, Smaller DEF Upto
    <3>2. Cardinality(s) - 1 <= k /\ Cardinality(s) - 1 <= k + 1
      BY <3>1
    <3> QED BY <3>1, <3>2 DEF Upto
  <2>3. ASSUME NEW s \in Upto(S, k + 1) PROVE Summed(f, g, s) \in Int
    <3>1. CASE s = {}
      BY <3>1 DEF Summed
    <3>2. CASE s # {}
      <4>1. f[Chosen(s)] \in Int /\ g[s \ {Chosen(s)}] \in Int
        BY <2>1, <2>2, <3>2
      <4> QED BY <3>2, <4>1 DEF Summed
    <3> QED BY <3>1, <3>2
  <2>4. h \in [Upto(S, k + 1) -> Int] /\ \A s \in Upto(S, k + 1) : h[s] = Summed(f, g, s)
    BY <2>3
  <2> HIDE DEF h
  <2>5. \A s \in Upto(S, k) : s \in Upto(S, k + 1)
    BY <1>0 DEF Upto
  <2>6. \A s \in Upto(S, k) : h[s] = g[s]
    BY <2>1, <2>4, <2>5
  <2>7. \A s \in Upto(S, k + 1) : Summed(f, g, s) = Summed(f, h, s)
    BY <2>2, <2>6 DEF Summed
  <2> QED BY <2>4, <2>7
<1>3. 0 \in N /\ \A k \in N : k + 1 \in N
  BY <1>1, <1>2
<1> HIDE DEF Has
<1>4. N = Nat
  <2> HIDE DEF N
  <2>1. N \in SUBSET Nat
    BY DEF N
  <2> QED BY <1>3, <2>1, AllNumbers
<1>5. Has(n)
  BY <1>4
<1> QED BY <1>5 DEF Has

\* Two tables of sums agree wherever both have the subsets.
Sums(f, g, S) == \A s \in SUBSET S : g[s] = Summed(f, g, s)

\* There is one such function, whatever larger set it is defined on.
LEMMA SumsAgree ==
  ASSUME NEW S, IsFiniteSet(S), NEW T \in SUBSET S, NEW f, NEW g, NEW h,
         Sums(f, g, S), Sums(f, h, T)
  PROVE  \A s \in SUBSET T : g[s] = h[s]
<1> DEFINE Bad == {n \in Nat : \E s \in SUBSET T : Cardinality(s) = n /\ g[s] # h[s]}
<1>0. \A s \in SUBSET T : s \in SUBSET S /\ IsFiniteSet(s) /\ Cardinality(s) \in Nat
  BY FS_Subset, FS_CardinalityType
<1> SUFFICES ASSUME NEW t \in SUBSET T, g[t] # h[t] PROVE FALSE
  OBVIOUS
<1>1. Bad \in SUBSET Nat /\ Cardinality(t) \in Bad
  BY <1>0
<1>2. PICK n \in Bad : \A m \in Bad : n <= m
  <2> HIDE DEF Bad
  <2> QED BY <1>1, LeastOf
<1>3. PICK s \in SUBSET T : Cardinality(s) = n /\ g[s] # h[s] /\ n \in Nat
  OBVIOUS
<1>4. s # {}
  BY <1>0, <1>3 DEF Summed, Sums
<1> DEFINE r == s \ {Chosen(s)}
<1>5. r \in SUBSET T /\ Cardinality(r) = n - 1 /\ n - 1 \in Nat
  BY <1>0, <1>3, <1>4, Smaller
<1>6. ~(n - 1 \in Bad)
  <2> HIDE DEF Bad
  <2> QED BY <1>2, <1>3
<1>7. g[r] = h[r]
  BY <1>5, <1>6
<1>8. g[s] = f[Chosen(s)] + g[r] /\ h[s] = f[Chosen(s)] + h[r]
  BY <1>0, <1>4 DEF Summed, Sums
<1> QED BY <1>3, <1>7, <1>8

\* So the sums over the parts of a set are a function, and it is the sum of each.
LEMMA SumTable ==
  ASSUME NEW S, IsFiniteSet(S), NEW f, \A z \in S : f[z] \in Int
  PROVE  \E g \in [SUBSET S -> Int] :
           \A s \in SUBSET S : g[s] = SumOver(f, s) /\ g[s] = Summed(f, g, s)
<1>0. \A s \in SUBSET S : IsFiniteSet(s) /\ Cardinality(s) \in Nat /\ Cardinality(s) <= Cardinality(S)
  BY FS_Subset, FS_CardinalityType
<1>1. PICK n \in Nat : n = Cardinality(S)
  BY <1>0
<1>2. Upto(S, n) = SUBSET S
  BY <1>0, <1>1 DEF Upto
<1>3. PICK g \in [SUBSET S -> Int] : \A s \in SUBSET S : g[s] = Summed(f, g, s)
  <2>1. \E g \in [Upto(S, n) -> Int] : \A s \in Upto(S, n) : g[s] = Summed(f, g, s)
    BY SumsExist
  <2> QED BY <1>2, <2>1
<1>4. ASSUME NEW T \in SUBSET S PROVE SumOver(f, T) = g[T]
  <2> DEFINE Is(h) == h = [s \in SUBSET T |-> Summed(f, h, s)]
             c == CHOOSE h : Is(h)
             r == [s \in SUBSET T |-> g[s]]
  <2>1. \A s \in SUBSET T : Summed(f, r, s) = g[s]
    <3>1. \A s \in SUBSET T : s \in SUBSET S /\ s \ {Chosen(s)} \in SUBSET T
      OBVIOUS
    <3>2. \A s \in SUBSET T : r[s] = g[s]
      OBVIOUS
    <3> HIDE DEF r
    <3> QED BY <1>3, <3>1, <3>2 DEF Summed
  <2>2. r = [s \in SUBSET T |-> Summed(f, r, s)]
    <3> DEFINE z == [s \in SUBSET T |-> Summed(f, r, s)]
    <3>1. DOMAIN r = SUBSET T /\ DOMAIN z = SUBSET T /\ \A s \in SUBSET T : r[s] = z[s]
      BY <2>1
    <3>2. r = [s \in SUBSET T |-> r[s]] /\ z = [s \in SUBSET T |-> z[s]]
      OBVIOUS
    <3> QED BY <2>1
  <2>3. Is(r)
    BY <2>2
  <2>4. Is(c)
    <3> HIDE DEF Is, r
    <3> QED BY <2>3
  <2> HIDE DEF c
  <2>5. \A s \in SUBSET T : c[s] = Summed(f, c, s)
    BY <2>4
  <2>6. c[T] = g[T]
    <3>1. Sums(f, g, S) /\ Sums(f, c, T)
      BY <1>3, <2>5 DEF Sums
    <3>2. \A s \in SUBSET T : g[s] = c[s]
      BY <3>1, SumsAgree
    <3> QED BY <3>2
  <2> QED BY <2>6 DEF SumOver, c
<1> QED BY <1>3, <1>4

\* The sum over no element.
LEMMA SumNone == ASSUME NEW f PROVE SumOver(f, {}) = 0
<1> DEFINE g == [s \in SUBSET {} |-> 0]
           Is(h) == h = [s \in SUBSET {} |-> Summed(f, h, s)]
           c == CHOOSE h : Is(h)
<1>1. Is(g)
  BY DEF Summed
<1>2. Is(c)
  <2> HIDE DEF Is, g
  <2> QED BY <1>1
<1> HIDE DEF c
<1>3. c[{}] = 0
  BY <1>2 DEF Summed
<1> QED BY <1>3 DEF SumOver, c

\* Any element may be taken out.
LEMMA SumWithout ==
  ASSUME NEW S, IsFiniteSet(S), NEW f, \A z \in S : f[z] \in Int, NEW x \in S
  PROVE  /\ SumOver(f, S) = f[x] + SumOver(f, S \ {x})
         /\ SumOver(f, S) \in Int /\ SumOver(f, S \ {x}) \in Int
<1>0. IsFiniteSet(S) /\ \A z \in S : f[z] \in Int
  OBVIOUS
<1>1. PICK g \in [SUBSET S -> Int] :
        \A s \in SUBSET S : g[s] = SumOver(f, s) /\ g[s] = Summed(f, g, s)
  BY ONLY ZenonT(30), <1>0, SumTable
<1> DEFINE Bad == {n \in Nat : \E s \in SUBSET S : \E y \in s :
                     Cardinality(s) = n /\ g[s] # f[y] + g[s \ {y}]}
<1>2. \A s \in SUBSET S : IsFiniteSet(s) /\ Cardinality(s) \in Nat
  BY FS_Subset, FS_CardinalityType
<1>3. ASSUME Bad # {} PROVE FALSE
  <2>1. PICK n \in Bad : \A m \in Bad : n <= m
    <3>1. Bad \in SUBSET Nat
      OBVIOUS
    <3> HIDE DEF Bad
    <3> QED BY <1>3, <3>1, LeastOf
  <2>0. PICK s \in SUBSET S : \E y \in s :
          Cardinality(s) = n /\ g[s] # f[y] + g[s \ {y}] /\ n \in Nat
    OBVIOUS
  <2>2. PICK y \in s : Cardinality(s) = n /\ g[s] # f[y] + g[s \ {y}] /\ n \in Nat
    BY <2>0
  <2> DEFINE c == Chosen(s)
  <2>3. /\ c \in s /\ n - 1 \in Nat
        /\ \A z \in s : Cardinality(s \ {z}) = n - 1
    BY <1>2, <2>2, Smaller
  <2>4. g[s] = f[c] + g[s \ {c}]
    BY <1>1, <2>2 DEF Summed
  <2> HIDE DEF c
  <2>5. ~(n - 1 \in Bad)
    <3> HIDE DEF Bad
    <3> QED BY <2>1, <2>2
  <2>6. ASSUME NEW t \in SUBSET S, NEW z \in t, Cardinality(t) = n - 1
        PROVE  g[t] = f[z] + g[t \ {z}]
    BY <2>3, <2>5, <2>6
  <2>7. CASE y = c
    BY <2>2, <2>4, <2>7
  <2>8. CASE y # c
    <3>1. g[s \ {c}] = f[y] + g[(s \ {c}) \ {y}]
      BY <2>2, <2>3, <2>6, <2>8
    <3>2. g[s \ {y}] = f[c] + g[(s \ {y}) \ {c}]
      BY <2>2, <2>3, <2>6, <2>8
    <3>3. (s \ {c}) \ {y} = (s \ {y}) \ {c}
      OBVIOUS
    <3>4. PICK w \in SUBSET S : w = (s \ {y}) \ {c}
      OBVIOUS
    <3>5. g[s] = f[c] + (f[y] + g[w]) /\ g[s \ {y}] = f[c] + g[w]
      BY <2>4, <3>1, <3>2, <3>3, <3>4
    <3>6. f[c] \in Int /\ f[y] \in Int /\ g[w] \in Int
      BY <2>2, <2>3
    <3> QED BY <2>2, <3>5, <3>6
  <2> QED BY <2>7, <2>8
<1>4. g[S] = f[x] + g[S \ {x}]
  <2> SUFFICES ASSUME g[S] # f[x] + g[S \ {x}] PROVE Bad # {}
    BY <1>3
  <2>1. S \in SUBSET S /\ Cardinality(S) \in Nat
    BY <1>2
  <2>2. \E s \in SUBSET S : \E y \in s :
          Cardinality(s) = Cardinality(S) /\ g[s] # f[y] + g[s \ {y}]
    BY <2>1
  <2> QED BY <2>1, <2>2
<1> QED BY <1>1, <1>4

\* What holds of no elements and survives one more holds of a finite set.
LEMMA AllSubsets ==
  ASSUME NEW S, IsFiniteSet(S), NEW P \in SUBSET (SUBSET S), {} \in P,
         \A T \in P : \A x \in S \ T : T \cup {x} \in P
  PROVE  S \in P
<1> SUFFICES ASSUME S \notin P PROVE FALSE
  OBVIOUS
<1> DEFINE Bad == {n \in Nat : \E s \in SUBSET S : Cardinality(s) = n /\ s \notin P}
<1>0. \A s \in SUBSET S : IsFiniteSet(s) /\ Cardinality(s) \in Nat
  BY FS_Subset, FS_CardinalityType
<1>1. Bad \in SUBSET Nat /\ Cardinality(S) \in Bad
  BY <1>0
<1>2. PICK n \in Bad : \A m \in Bad : n <= m
  <2> HIDE DEF Bad
  <2> QED BY <1>1, LeastOf
<1>3. PICK s \in SUBSET S : Cardinality(s) = n /\ s \notin P /\ n \in Nat
  OBVIOUS
<1> DEFINE x == Chosen(s)
<1>4. x \in s /\ Cardinality(s \ {x}) = n - 1 /\ n - 1 \in Nat
  BY <1>0, <1>3, Smaller
<1> HIDE DEF x
<1>5. ~(n - 1 \in Bad)
  <2> HIDE DEF Bad
  <2> QED BY <1>2, <1>3
<1>6. s \ {x} \in P
  BY <1>4, <1>5
<1>7. (s \ {x}) \cup {x} \in P /\ (s \ {x}) \cup {x} = s
  BY <1>4, <1>6
<1> QED BY <1>3, <1>7

\* The sum with one more element.
LEMMA SumWith ==
  ASSUME NEW S, IsFiniteSet(S), NEW f, \A z \in S : f[z] \in Int,
         NEW T \in SUBSET S, NEW x \in S \ T
  PROVE  /\ SumOver(f, T \cup {x}) = f[x] + SumOver(f, T)
         /\ SumOver(f, T) \in Int /\ SumOver(f, T \cup {x}) \in Int
<1> DEFINE R == T \cup {x}
<1>1. IsFiniteSet(R) /\ x \in R /\ R \ {x} = T /\ \A z \in R : f[z] \in Int
  BY FS_Subset
<1> HIDE DEF R
<1>2. /\ SumOver(f, R) = f[x] + SumOver(f, R \ {x})
      /\ SumOver(f, R) \in Int /\ SumOver(f, R \ {x}) \in Int
  BY <1>1, SumWithout
<1> QED BY <1>1, <1>2 DEF R

\* A sum of smaller terms is smaller.
LEMMA SumAtMost ==
  ASSUME NEW S, IsFiniteSet(S), NEW f, NEW g,
         \A z \in S : f[z] \in Int /\ g[z] \in Int /\ f[z] <= g[z]
  PROVE  SumOver(f, S) <= SumOver(g, S) /\ SumOver(f, S) \in Int /\ SumOver(g, S) \in Int
<1> DEFINE Le(T) == /\ SumOver(f, T) <= SumOver(g, T)
                    /\ SumOver(f, T) \in Int /\ SumOver(g, T) \in Int
           P == {T \in SUBSET S : Le(T)}
<1>1. {} \in P
  BY SumNone
<1>2. ASSUME NEW T \in P, NEW x \in S \ T PROVE T \cup {x} \in P
  <2>1. T \in SUBSET S /\ Le(T)
    OBVIOUS
  <2>2. SumOver(f, T \cup {x}) = f[x] + SumOver(f, T)
    BY <2>1, SumWith
  <2>3. SumOver(g, T \cup {x}) = g[x] + SumOver(g, T)
    BY <2>1, SumWith
  <2>4. Le(T \cup {x})
    BY <2>1, <2>2, <2>3
  <2> QED BY <2>1, <2>4
<1>3. P \in SUBSET (SUBSET S)
  OBVIOUS
<1> HIDE DEF P, Le
<1>4. S \in P
  BY <1>1, <1>2, <1>3, AllSubsets
<1> QED BY <1>4 DEF P, Le

\* A sum of zeros is zero.
LEMMA SumNothing ==
  ASSUME NEW S, IsFiniteSet(S), NEW f, \A z \in S : f[z] = 0
  PROVE  SumOver(f, S) = 0
<1> DEFINE P == {T \in SUBSET S : SumOver(f, T) = 0}
<1>1. {} \in P
  BY SumNone
<1>2. ASSUME NEW T \in P, NEW x \in S \ T PROVE T \cup {x} \in P
  <2>1. T \in SUBSET S /\ SumOver(f, T) = 0 /\ \A z \in S : f[z] \in Int
    OBVIOUS
  <2>2. SumOver(f, T \cup {x}) = f[x] + SumOver(f, T)
    BY <2>1, SumWith
  <2> QED BY <2>1, <2>2
<1>3. P \in SUBSET (SUBSET S)
  OBVIOUS
<1> HIDE DEF P
<1>4. S \in P
  BY <1>1, <1>2, <1>3, AllSubsets
<1> QED BY <1>4 DEF P

\* A sum of counts, and of fewer of them.
LEMMA SumPart ==
  ASSUME NEW S, IsFiniteSet(S), NEW f, \A z \in S : f[z] \in Nat, NEW T \in SUBSET S
  PROVE  SumOver(f, S) \in Nat /\ SumOver(f, T) \in Nat /\ SumOver(f, T) <= SumOver(f, S)
<1> DEFINE Le(R) == /\ SumOver(f, R \cap T) <= SumOver(f, R)
                    /\ SumOver(f, R \cap T) \in Nat /\ SumOver(f, R) \in Nat
           P == {R \in SUBSET S : Le(R)}
<1>0. \A z \in S : f[z] \in Int
  OBVIOUS
<1>1. {} \in P
  <2>1. {} \cap T = {}
    OBVIOUS
  <2> QED BY <2>1, SumNone
<1>2. ASSUME NEW R \in P, NEW x \in S \ R PROVE R \cup {x} \in P
  <2>1. R \in SUBSET S /\ Le(R) /\ f[x] \in Nat
    OBVIOUS
  <2>2. SumOver(f, R \cup {x}) = f[x] + SumOver(f, R)
    BY <1>0, <2>1, SumWith
  <2>3. CASE x \in T
    <3>1. (R \cup {x}) \cap T = (R \cap T) \cup {x}
      BY <2>3
    <3>2. SumOver(f, (R \cap T) \cup {x}) = f[x] + SumOver(f, R \cap T)
      <4> DEFINE U == R \cap T
      <4>1. U \in SUBSET S /\ x \in S \ U
        BY <2>1
      <4> HIDE DEF U
      <4>2. SumOver(f, U \cup {x}) = f[x] + SumOver(f, U)
        BY <1>0, <4>1, SumWith
      <4> QED BY <4>2 DEF U
    <3> QED BY <2>1, <2>2, <3>1, <3>2
  <2>4. CASE x \notin T
    <3>1. (R \cup {x}) \cap T = R \cap T
      BY <2>4
    <3> QED BY <2>1, <2>2, <3>1
  <2> QED BY <2>3, <2>4
<1>3. P \in SUBSET (SUBSET S)
  OBVIOUS
<1> HIDE DEF P, Le
<1>4. S \in P
  BY <1>1, <1>2, <1>3, AllSubsets
<1>5. S \cap T = T
  OBVIOUS
<1> QED BY <1>4, <1>5 DEF P, Le

\* One more at a place.
LEMMA SumCounted ==
  ASSUME NEW S, IsFiniteSet(S), NEW f, NEW g, NEW a,
         \A z \in S : f[z] \in Nat /\ g[z] = IF z = a THEN f[z] + 1 ELSE f[z]
  PROVE  /\ a \in S => SumOver(g, S) = SumOver(f, S) + 1
         /\ a \notin S => SumOver(g, S) = SumOver(f, S)
<1>1. \A z \in S : f[z] \in Int /\ g[z] \in Int
  OBVIOUS
<1>2. ASSUME NEW T \in SUBSET S, IsFiniteSet(T), a \notin T
      PROVE  SumOver(g, T) = SumOver(f, T)
  <2>1. \A z \in T : /\ f[z] \in Int /\ g[z] \in Int /\ f[z] = g[z]
                     /\ f[z] <= g[z] /\ g[z] <= f[z]
    BY <1>1, <1>2
  <2>2. SumOver(f, T) <= SumOver(g, T) /\ SumOver(f, T) \in Int /\ SumOver(g, T) \in Int
    BY <1>2, <2>1, SumAtMost
  <2>3. SumOver(g, T) <= SumOver(f, T)
    BY <1>2, <2>1, SumAtMost
  <2> QED BY <2>2, <2>3
<1>3. ASSUME a \notin S PROVE SumOver(g, S) = SumOver(f, S)
  BY <1>2, <1>3
<1>4. ASSUME a \in S PROVE SumOver(g, S) = SumOver(f, S) + 1
  <2>1. SumOver(f, S) = f[a] + SumOver(f, S \ {a}) /\ SumOver(f, S \ {a}) \in Int
    BY <1>1, <1>4, SumWithout
  <2>2. SumOver(g, S) = g[a] + SumOver(g, S \ {a})
    BY <1>1, <1>4, SumWithout
  <2>3. SumOver(g, S \ {a}) = SumOver(f, S \ {a})
    BY <1>2, FS_Subset
  <2>4. g[a] = f[a] + 1 /\ f[a] \in Int
    BY <1>1, <1>4
  <2> QED BY <2>1, <2>2, <2>3, <2>4
<1> QED BY <1>3, <1>4

-----------------------------------------------------------------------------
\* Webhooks.  An attempt comes no earlier than the pauses before it allow.
Pauses(n) == SumOver(RetryBackoff, 1..n)
Delayed(d, time) ==
  /\ d.stage = "sending" => time >= d.began + Pauses(d.attempt - 1)
  /\ d.stage = "pausing" => /\ d.attempt \in 1..Len(RetryBackoff)
                            /\ d.until >= d.began + Pauses(d.attempt)
  /\ d.stage = "missed" => d.ended >= d.began + Pauses(Len(RetryBackoff))
HooksInv ==
  /\ Hooks!TypeOK
  /\ \A d \in Events \X Receivers : Delayed(calls[d], now)

\* The assumptions on the constants of Webhooks.
LEMMA HooksSizes ==
  /\ RetryBackoff \in Seq(Nat) /\ Len(RetryBackoff) \in Nat /\ MaxTime.hooks \in Nat
  /\ DOMAIN RetryBackoff = 1..Len(RetryBackoff)
  /\ \A i \in 1..Len(RetryBackoff) : RetryBackoff[i] \in Nat
<1>1. RetryBackoff \in Seq(Nat) /\ MaxTime.hooks \in Nat
  BY SizesOK DEF SizesOK, Components
<1> QED BY <1>1, LenProperties, ElementOfSeq

\* Each pause adds to those before.
LEMMA PausesAdd ==
  /\ Pauses(0) = 0
  /\ \A n \in 1..Len(RetryBackoff) : /\ Pauses(n) = Pauses(n - 1) + RetryBackoff[n]
                                     /\ Pauses(n) \in Int /\ Pauses(n - 1) \in Int
<1>1. Pauses(0) = 0
  <2>1. 1..0 = {}
    OBVIOUS
  <2> QED BY <2>1, SumNone DEF Pauses
<1>2. ASSUME NEW n \in 1..Len(RetryBackoff)
      PROVE  /\ Pauses(n) = Pauses(n - 1) + RetryBackoff[n]
             /\ Pauses(n) \in Int /\ Pauses(n - 1) \in Int
  <2> DEFINE S == 1..n
  <2>0. n \in Nat /\ n \in S /\ S \ {n} = 1..n - 1
    BY HooksSizes
  <2>1. IsFiniteSet(S) /\ \A z \in S : RetryBackoff[z] \in Int
    <3>1. n \in Int /\ 1 \in Int /\ \A z \in S : z \in 1..Len(RetryBackoff)
      BY HooksSizes
    <3> QED BY <3>1, HooksSizes, FS_Interval
  <2>2. /\ SumOver(RetryBackoff, S) = RetryBackoff[n] + SumOver(RetryBackoff, S \ {n})
        /\ SumOver(RetryBackoff, S) \in Int /\ SumOver(RetryBackoff, S \ {n}) \in Int
    <3> HIDE DEF S
    <3> QED BY <2>0, <2>1, SumWithout
  <2>3. Pauses(n) = RetryBackoff[n] + Pauses(n - 1) /\ Pauses(n) \in Int /\ Pauses(n - 1) \in Int
    BY <2>0, <2>2 DEF Pauses
  <2>4. RetryBackoff[n] \in Int
    BY HooksSizes
  <2> QED BY <2>3, <2>4
<1> QED BY <1>1, <1>2

\* The pauses together last a whole number of time units.
LEMMA PausesWhole == \A n \in 0..Len(RetryBackoff) : Pauses(n) \in Int
<1> SUFFICES ASSUME NEW n \in 0..Len(RetryBackoff) PROVE Pauses(n) \in Int
  OBVIOUS
<1>1. CASE n = 0
  BY <1>1, PausesAdd
<1>2. CASE n # 0
  BY <1>2, PausesAdd, HooksSizes
<1> QED BY <1>1, <1>2

\* Webhooks begins in its invariant.
LEMMA HooksInit == Hooks!Init => HooksInv
<1> SUFFICES ASSUME Hooks!Init PROVE HooksInv
  OBVIOUS
<1>1. /\ now = 0 /\ rows = {} /\ outside \in SUBSET Receivers
      /\ calls = [d \in Events \X Receivers |-> Hooks!NoDelivery]
  BY DEF Hooks!Init
<1>2. Hooks!NoDelivery \in Hooks!Delivery /\ Hooks!NoDelivery.stage = "none"
  BY HooksSizes DEF Hooks!NoDelivery, Hooks!Delivery, Hooks!MaxDeliveryAttempts, Hooks!Times
<1>3. Hooks!TypeOK
  BY <1>1, <1>2, HooksSizes DEF Hooks!TypeOK, Hooks!Times
<1> QED BY <1>1, <1>2, <1>3 DEF HooksInv, Delayed

\* A step of one delivery.
LEMMA HooksTurns ==
  ASSUME HooksInv, NEW e \in Events, NEW r \in Receivers, NEW d \in Hooks!Delivery,
         Delayed(d, now), Hooks!Set(e, r, d), UNCHANGED <<now, rows, outside>>
  PROVE  HooksInv'
<1>1. calls' = [calls EXCEPT ![<<e, r>>] = d] /\ <<e, r>> \in Events \X Receivers
  BY DEF Hooks!Set
<1>2. calls \in [Events \X Receivers -> Hooks!Delivery] /\ rows \subseteq Receivers
      /\ outside \subseteq Receivers /\ now \in Hooks!Times
      /\ \A x \in Events \X Receivers : Delayed(calls[x], now)
  BY DEF HooksInv, Hooks!TypeOK
<1>3. calls' \in [Events \X Receivers -> Hooks!Delivery]
  BY <1>1, <1>2
<1>4. \A x \in Events \X Receivers : Delayed(calls'[x], now)
  BY <1>1, <1>2
<1>5. \A x \in Events \X Receivers : Delayed(calls[x], now)'
  BY <1>4 DEF Delayed
<1> QED BY <1>2, <1>3, <1>5 DEF HooksInv, Hooks!TypeOK, Hooks!Times

\* An attempt that is answered, fails, or is retried after its pause, keeps it.
LEMMA HooksAttempts ==
  ASSUME HooksInv, NEW e \in Events, NEW r \in Receivers,
         Hooks!Answered(e, r) \/ Hooks!AttemptFailed(e, r) \/ Hooks!Retry(e, r)
  PROVE  HooksInv'
<1> DEFINE d == calls[<<e, r>>]
           n == d.attempt
           last == Len(RetryBackoff)
<1>0. /\ d \in Hooks!Delivery /\ Delayed(d, now) /\ now \in Hooks!Times /\ now \in Nat
      /\ d.began \in Nat /\ d.until \in Nat /\ n \in 1..last + 1 /\ last \in Nat
  BY HooksSizes DEF HooksInv, Hooks!TypeOK, Hooks!Delivery, Hooks!Times,
                    Hooks!MaxDeliveryAttempts
<1>1. UNCHANGED <<now, rows, outside>>
  BY DEF Hooks!Answered, Hooks!AttemptFailed, Hooks!Retry
<1>2. ASSUME NEW q \in Hooks!Delivery, Delayed(q, now), Hooks!Set(e, r, q) PROVE HooksInv'
  BY <1>1, <1>2, HooksTurns
<1>3. CASE Hooks!Answered(e, r)
  <2> DEFINE q == [d EXCEPT !.stage = "delivered", !.ended = now]
  <2>1. Hooks!Set(e, r, q)
    BY <1>3 DEF Hooks!Answered
  <2>2. q \in Hooks!Delivery /\ q.stage = "delivered"
    BY <1>0 DEF Hooks!Delivery
  <2> HIDE DEF q
  <2>3. Delayed(q, now)
    BY <2>2 DEF Delayed
  <2> QED BY <1>2, <2>1, <2>2, <2>3
<1>4. CASE Hooks!AttemptFailed(e, r)
  <2>1. d.stage = "sending" /\ now >= d.began + Pauses(n - 1)
    BY <1>0, <1>4 DEF Hooks!AttemptFailed, Hooks!At, Delayed
  <2>2. CASE n = last + 1
    <3> DEFINE q == [d EXCEPT !.stage = "missed", !.ended = now]
    <3>1. Hooks!Set(e, r, q)
      BY <1>4, <2>2 DEF Hooks!AttemptFailed, Hooks!MaxDeliveryAttempts
    <3>2. q \in Hooks!Delivery /\ q.stage = "missed" /\ q.began = d.began /\ q.ended = now
      BY <1>0 DEF Hooks!Delivery
    <3> HIDE DEF q
    <3>3. n - 1 = last
      BY <1>0, <2>2
    <3>4. Delayed(q, now)
      BY <2>1, <3>2, <3>3 DEF Delayed
    <3> QED BY <1>2, <3>1, <3>2, <3>4
  <2>3. CASE n # last + 1
    <3>1. n \in 1..last
      BY <1>0, <2>3
    <3>2. RetryBackoff[n] \in Nat /\ Pauses(n) = Pauses(n - 1) + RetryBackoff[n]
          /\ Pauses(n) \in Int /\ Pauses(n - 1) \in Int
      BY <3>1, HooksSizes, PausesAdd
    <3> DEFINE u == now + RetryBackoff[n]
               q == [d EXCEPT !.stage = "pausing", !.until = u]
    <3>3. u \in Nat /\ u >= d.began + Pauses(n)
      <4>1. PICK b \in Nat : b = RetryBackoff[n]
        BY <3>2
      <4>2. PICK p \in Int : p = Pauses(n - 1)
        BY <3>2
      <4>3. PICK s \in Nat : s = d.began
        BY <1>0
      <4>4. now >= s + p /\ Pauses(n) = p + b /\ now \in Nat
        BY <1>0, <2>1, <3>2, <4>1, <4>2, <4>3
      <4>5. now + b \in Nat /\ now + b >= s + (p + b)
        BY <4>4
      <4> QED BY <4>1, <4>3, <4>4, <4>5
    <3>4. Hooks!Set(e, r, q)
      BY <1>4, <2>3 DEF Hooks!AttemptFailed, Hooks!MaxDeliveryAttempts, Hooks!Pause
    <3> HIDE DEF u
    <3>5. q \in Hooks!Delivery /\ q.stage = "pausing" /\ q.began = d.began /\ q.until = u
          /\ q.attempt = n
      BY <1>0, <3>3 DEF Hooks!Delivery
    <3> HIDE DEF q
    <3>6. Delayed(q, now)
      BY <3>1, <3>3, <3>5 DEF Delayed
    <3> QED BY <1>2, <3>4, <3>5, <3>6
  <2> QED BY <2>2, <2>3
<1>5. CASE Hooks!Retry(e, r)
  <2>1. /\ d.stage = "pausing" /\ now >= d.until
        /\ n \in 1..last /\ d.until >= d.began + Pauses(n)
    BY <1>0, <1>5 DEF Hooks!Retry, Hooks!At, Delayed
  <2> DEFINE m == n + 1
             q == [d EXCEPT !.stage = "sending", !.attempt = m]
  <2>2. Hooks!Set(e, r, q)
    BY <1>5 DEF Hooks!Retry
  <2>3. m \in 1..last + 1 /\ m - 1 = n /\ Pauses(n) \in Int
    <3>1. Pauses(n) \in Int
      BY <2>1, PausesAdd
    <3>2. PICK l \in Nat : l = last
      BY <1>0
    <3>3. PICK k \in 1..l : k = n
      BY <2>1, <3>2
    <3>4. k + 1 \in 1..l + 1 /\ (k + 1) - 1 = k
      BY <3>2
    <3> QED BY <3>1, <3>2, <3>3, <3>4
  <2> HIDE DEF m
  <2>4. q \in Hooks!Delivery /\ q.stage = "sending" /\ q.began = d.began /\ q.attempt = m
    BY <1>0, <2>3 DEF Hooks!Delivery, Hooks!MaxDeliveryAttempts
  <2> HIDE DEF q
  <2>5. now >= d.began + Pauses(n)
    BY <1>0, <2>1, <2>3
  <2>6. Delayed(q, now)
    BY <2>3, <2>4, <2>5 DEF Delayed
  <2> QED BY <1>2, <2>2, <2>4, <2>6
<1> QED BY <1>3, <1>4, <1>5

\* What replaces the deliveries all at once.
LEMMA HooksAll ==
  ASSUME HooksInv, UNCHANGED <<now, rows, outside>>, DOMAIN calls' = DOMAIN calls,
         calls' = [d \in DOMAIN calls |-> calls'[d]],
         \A d \in DOMAIN calls : \/ calls'[d] = calls[d]
                                 \/ calls'[d] \in Hooks!Delivery /\ Delayed(calls'[d], now)
  PROVE  HooksInv'
<1>1. calls \in [Events \X Receivers -> Hooks!Delivery] /\ rows \subseteq Receivers
      /\ outside \subseteq Receivers /\ now \in Hooks!Times
      /\ \A x \in Events \X Receivers : Delayed(calls[x], now)
  BY DEF HooksInv, Hooks!TypeOK
<1>2. calls' \in [Events \X Receivers -> Hooks!Delivery]
  BY <1>1
<1>3. \A x \in Events \X Receivers : Delayed(calls'[x], now)
  BY <1>1
<1>4. \A x \in Events \X Receivers : Delayed(calls[x], now)'
  BY <1>3 DEF Delayed
<1> QED BY <1>1, <1>2, <1>4 DEF HooksInv, Hooks!TypeOK, Hooks!Times

\* So do an event, which dates its deliveries, and a restart, which loses them.
LEMMA HooksDispatches ==
  ASSUME HooksInv, (\E e \in Events : Hooks!DispatchEvent(e)) \/ Hooks!Restart
  PROVE  HooksInv'
<1>0. now \in Hooks!Times /\ now \in Nat
  BY DEF HooksInv, Hooks!TypeOK, Hooks!Times
<1> DEFINE new == [Hooks!NoDelivery EXCEPT !.stage = "sending", !.began = now]
           lost == [Hooks!NoDelivery EXCEPT !.stage = "lost"]
<1>1. /\ new \in Hooks!Delivery /\ new.stage = "sending" /\ new.began = now /\ new.attempt = 1
      /\ lost \in Hooks!Delivery /\ lost.stage = "lost"
  <2> DEFINE z == Hooks!NoDelivery
  <2>1. z \in Hooks!Delivery /\ z.attempt = 1
    BY HooksSizes DEF Hooks!NoDelivery, Hooks!Delivery, Hooks!MaxDeliveryAttempts, Hooks!Times
  <2> HIDE DEF z
  <2>2. /\ new \in Hooks!Delivery /\ new.stage = "sending" /\ new.began = now
        /\ new.attempt = z.attempt
    BY <1>0, <2>1 DEF Hooks!Delivery, z
  <2>3. lost \in Hooks!Delivery /\ lost.stage = "lost"
    BY <2>1 DEF Hooks!Delivery, z
  <2> QED BY <2>1, <2>2, <2>3
<1>2. \/ \E e \in Events : calls' = [d \in DOMAIN calls |->
             IF d[1] = e /\ d[2] \in rows THEN new ELSE calls[d]]
      \/ calls' = [d \in DOMAIN calls |->
             IF calls[d].stage \in {"sending", "pausing"} THEN lost ELSE calls[d]]
  BY DEF Hooks!DispatchEvent, Hooks!Restart
<1>3. UNCHANGED <<now, rows, outside>>
  BY DEF Hooks!DispatchEvent, Hooks!Restart
<1> HIDE DEF new, lost
<1>4. Delayed(new, now) /\ Delayed(lost, now)
  <2>1. 1 - 1 = 0 /\ now >= now + 0
    BY <1>0
  <2> QED BY <1>1, <2>1, PausesAdd DEF Delayed
<1>5. \A d \in DOMAIN calls : calls'[d] \in {calls[d], new, lost}
  BY <1>2
<1>6. calls' = [d \in DOMAIN calls |-> calls'[d]] /\ DOMAIN calls' = DOMAIN calls
  BY <1>2
<1>7. \A d \in DOMAIN calls : \/ calls'[d] = calls[d]
                              \/ calls'[d] \in Hooks!Delivery /\ Delayed(calls'[d], now)
  BY <1>1, <1>4, <1>5
<1> QED BY <1>3, <1>6, <1>7, HooksAll

\* Every step of Webhooks keeps its invariant.
LEMMA HooksStep == ASSUME HooksInv, Hooks!Next PROVE HooksInv'
<1>1. calls \in [Events \X Receivers -> Hooks!Delivery] /\ rows \subseteq Receivers
      /\ outside \subseteq Receivers /\ now \in Hooks!Times
      /\ \A d \in Events \X Receivers : Delayed(calls[d], now)
  BY DEF HooksInv, Hooks!TypeOK
<1>2. ASSUME NEW r \in Receivers,
             \/ Hooks!CreateWebhook(r) \/ Hooks!DeleteWebhook(r)
             \/ Hooks!ComesUp(r) \/ Hooks!GoesDown(r)
      PROVE  HooksInv'
  <2>1. UNCHANGED <<now, calls>> /\ rows' \subseteq Receivers /\ outside' \subseteq Receivers
    BY <1>1, <1>2 DEF Hooks!CreateWebhook, Hooks!DeleteWebhook, Hooks!ComesUp, Hooks!GoesDown
  <2> QED BY <1>1, <2>1 DEF HooksInv, Hooks!TypeOK, Delayed, Hooks!Times
<1>3. CASE Hooks!Tick
  <2>1. now' = now + 1 /\ now' \in Hooks!Times /\ UNCHANGED <<rows, calls, outside>>
        /\ now \in Nat
    BY <1>1, <1>3, HooksSizes DEF Hooks!Tick, Hooks!Times
  <2>2. ASSUME NEW d \in Events \X Receivers PROVE Delayed(calls[d], now')
    <3>1. calls[d].began \in Nat /\ calls[d].attempt \in 1..Len(RetryBackoff) + 1
      BY <1>1 DEF Hooks!Delivery, Hooks!Times, Hooks!MaxDeliveryAttempts
    <3>2. Pauses(calls[d].attempt - 1) \in Int
      <4>1. calls[d].attempt - 1 \in 0..Len(RetryBackoff)
        BY <3>1, HooksSizes
      <4> QED BY <4>1, PausesWhole
    <3>3. Delayed(calls[d], now)
      BY <1>1
    <3> QED BY <2>1, <3>1, <3>2, <3>3 DEF Delayed
  <2>3. \A d \in Events \X Receivers : Delayed(calls[d], now)'
    BY <2>1, <2>2 DEF Delayed
  <2> QED BY <1>1, <2>1, <2>3 DEF HooksInv, Hooks!TypeOK, Hooks!Times
<1> QED BY <1>2, <1>3, HooksAttempts, HooksDispatches DEF Hooks!Next

\* A delivery given up on has waited for all the pauses.
LEMMA HooksOutlive == HooksInv => Hooks!OutageOutlived
<1> SUFFICES ASSUME HooksInv, NEW d \in DOMAIN calls, calls[d].stage = "missed"
             PROVE  calls[d].ended - calls[d].began
                      >= Hooks!MapThenSumSet(LAMBDA i : RetryBackoff[i], DOMAIN RetryBackoff)
  BY DEF Hooks!OutageOutlived
<1>1. calls \in [Events \X Receivers -> Hooks!Delivery] /\ d \in Events \X Receivers
      /\ Delayed(calls[d], now)
  BY DEF HooksInv, Hooks!TypeOK
<1>2. calls[d].began \in Nat /\ calls[d].ended \in Nat
  BY <1>1 DEF Hooks!Delivery, Hooks!Times
<1>3. calls[d].ended >= calls[d].began + Pauses(Len(RetryBackoff))
  BY <1>1 DEF Delayed
<1>4. Pauses(Len(RetryBackoff))
        = Hooks!MapThenSumSet(LAMBDA i : RetryBackoff[i], DOMAIN RetryBackoff)
  BY HooksSizes, SumsHooks DEF Pauses
<1>5. Pauses(Len(RetryBackoff)) \in Int
  BY PausesWhole, HooksSizes
<1> HIDE DEF Hooks!MapThenSumSet
<1> QED BY <1>2, <1>3, <1>4, <1>5

-----------------------------------------------------------------------------
\* RateLimit.  What was admitted of a key, by the times of its attempts, and the threads
\* that have read the clock early for it.
From(t) == {x \in Rate!Times : t <= x}
Span(t) == {x \in Rate!Times : t <= x /\ x < t + Window}
Late(cl, k, u) == {o \in Threads : cl[o].key = k /\ cl[o].at < u}
Capped(c) == IF c > MaxAttempts THEN MaxAttempts ELSE c
Counts == [Rate!Times -> Nat]

\* The admissions f of a key whose bucket started at s and has counted c: none is later than
\* the window, fewer than counted are later than its start, and those of the window before
\* are limited too; what lies before can only grow by the late threads.
Limited(f, k, s, c, cl) ==
  /\ \A t \in Rate!Times : t >= s + Window => SumOver(f, From(t)) = 0
  /\ \A t \in Rate!Times : t > s => SumOver(f, From(t)) <= Capped(c) - 1
  /\ \A t \in Rate!Times : t > s - Window =>
       SumOver(f, From(t)) <= MaxAttempts - 1 + Capped(c)
  /\ \A t \in Rate!Times : t + Window <= s =>
       SumOver(f, Span(t)) + Cardinality(Late(cl, k, t + Window))
         <= 2 * MaxAttempts + Cardinality(Threads) - 2

\* The assumptions on the constants of RateLimit.
LEMMA RateSizes ==
  /\ MaxAttempts \in Nat \ {0} /\ Window \in Nat \ {0} /\ MaxTrackedKeys \in Nat \ {0}
  /\ MaxTime.rate \in Nat /\ None \notin Keys
  /\ IsFiniteSet(Threads) /\ Cardinality(Threads) \in Nat \ {0}
<1>1. Threads # {} /\ IsFiniteSet(Threads)
  BY SizesOK DEF SizesOK
<1>2. Cardinality(Threads) \in Nat \ {0}
  BY <1>1, FS_CardinalityType, FS_EmptySet
<1> QED BY <1>1, <1>2, SizesOK DEF SizesOK, Components

\* What is admitted in a window is part of what is admitted from its start on.
LEMMA Spans ==
  ASSUME NEW f \in Counts, NEW t \in Rate!Times
  PROVE  /\ From(t) \in SUBSET Rate!Times /\ Span(t) \in SUBSET Rate!Times
         /\ IsFiniteSet(From(t)) /\ IsFiniteSet(Span(t))
         /\ SumOver(f, From(t)) \in Nat /\ SumOver(f, Span(t)) \in Nat
         /\ SumOver(f, Span(t)) <= SumOver(f, From(t))
<1>1. IsFiniteSet(Rate!Times)
  BY SMTT(30), RateSizes, FS_Interval DEF Rate!Times
<1>2. From(t) \in SUBSET Rate!Times /\ Span(t) \in SUBSET From(t) /\ Span(t) \in SUBSET Rate!Times
  BY DEF From, Span
<1>3. IsFiniteSet(From(t)) /\ IsFiniteSet(Span(t))
  BY <1>1, <1>2, FS_Subset
<1>4. \A z \in From(t) : f[z] \in Nat
  BY <1>2 DEF Counts
<1> QED BY <1>2, <1>3, <1>4, SumPart

\* One more is admitted from a time on, and within a window from it, if so it is said.
Grown(f, g, t, from, span) ==
  /\ SumOver(g, From(t)) = IF from THEN SumOver(f, From(t)) + 1 ELSE SumOver(f, From(t))
  /\ SumOver(g, Span(t)) = IF span THEN SumOver(f, Span(t)) + 1 ELSE SumOver(f, Span(t))

\* An admission counts in the spans that its time lies in.
LEMMA Admits ==
  ASSUME NEW f \in Counts, NEW a \in Rate!Times
  PROVE  LET g == [f EXCEPT ![a] = @ + 1] IN
         /\ g \in Counts
         /\ \A t \in Rate!Times : Grown(f, g, t, t <= a, t <= a /\ a < t + Window)
<1> DEFINE g == [f EXCEPT ![a] = @ + 1]
<1>1. g \in Counts
  BY DEF Counts
<1>2. ASSUME NEW t \in Rate!Times PROVE Grown(f, g, t, t <= a, t <= a /\ a < t + Window)
  <2> DEFINE S == From(t)
             T == Span(t)
  <2>1. /\ S \in SUBSET Rate!Times /\ T \in SUBSET Rate!Times
        /\ IsFiniteSet(S) /\ IsFiniteSet(T) /\ f \in [Rate!Times -> Nat]
    BY Spans DEF Counts
  <2>2. (a \in S <=> t <= a) /\ (a \in T <=> t <= a /\ a < t + Window)
    BY DEF From, Span
  <2>5. \A z \in Rate!Times : f[z] \in Nat /\ g[z] = IF z = a THEN f[z] + 1 ELSE f[z]
    BY <2>1
  <2> HIDE DEF S, T, g
  <2>3. /\ a \in S => SumOver(g, S) = SumOver(f, S) + 1
        /\ a \notin S => SumOver(g, S) = SumOver(f, S)
    BY <2>1, <2>5, SumCounted
  <2>4. /\ a \in T => SumOver(g, T) = SumOver(f, T) + 1
        /\ a \notin T => SumOver(g, T) = SumOver(f, T)
    BY <2>1, <2>5, SumCounted
  <2> QED BY <2>2, <2>3, <2>4 DEF Grown, S, T
<1> HIDE DEF g
<1> QED BY <1>1, <1>2 DEF g

\* The late threads are some of the threads.
LEMMA LateOnes ==
  ASSUME NEW cl, NEW k, NEW u
  PROVE  IsFiniteSet(Late(cl, k, u)) /\ Cardinality(Late(cl, k, u)) \in Nat
<1>1. Late(cl, k, u) \in SUBSET Threads
  BY DEF Late
<1> QED BY <1>1, RateSizes, FS_Subset, FS_CardinalityType

\* A thread that is done is late no more.
LEMMA LateDone ==
  ASSUME NEW k \in Keys, NEW cl, NEW dl, NEW th \in Threads, cl[th].key = k,
         dl[th].key # k, \A o \in Threads \ {th} : dl[o] = cl[o], NEW u
  PROVE  /\ Cardinality(Late(dl, k, u)) <= Cardinality(Threads) - 1
         /\ Cardinality(Late(dl, k, u)) <= Cardinality(Late(cl, k, u))
         /\ cl[th].at < u => Cardinality(Late(dl, k, u)) = Cardinality(Late(cl, k, u)) - 1
<1> DEFINE S == Late(cl, k, u)
           T == Late(dl, k, u)
<1>1. T = S \ {th} /\ T \in SUBSET (Threads \ {th})
  BY DEF Late
<1>2. IsFiniteSet(S) /\ Cardinality(S) \in Nat /\ IsFiniteSet(T) /\ Cardinality(T) \in Nat
  BY LateOnes
<1>3. cl[th].at < u => th \in S
  BY DEF Late
<1> HIDE DEF S, T
<1>4. Cardinality(T) = IF th \in S THEN Cardinality(S) - 1 ELSE Cardinality(S)
  BY <1>1, <1>2, FS_RemoveElement
<1>5. IsFiniteSet(Threads \ {th}) /\ Cardinality(Threads \ {th}) = Cardinality(Threads) - 1
  BY RateSizes, FS_RemoveElement
<1>6. Cardinality(T) <= Cardinality(Threads) - 1
  <2> DEFINE R == Threads \ {th}
  <2>1. T \in SUBSET R /\ IsFiniteSet(R) /\ Cardinality(R) = Cardinality(Threads) - 1
    BY <1>1, <1>5
  <2> HIDE DEF R
  <2>2. Cardinality(T) <= Cardinality(R)
    BY <2>1, FS_Subset
  <2> QED BY <2>1, <2>2
<1> QED BY <1>2, <1>3, <1>4, <1>6 DEF S, T

\* The attempt of a thread that falls into the window of its key's bucket.
LEMMA CountsInWindow ==
  ASSUME NEW f \in Counts, NEW k \in Keys, NEW s \in Rate!Times, NEW a \in Rate!Times,
         NEW c \in 1..MaxAttempts + 1, NEW cl, NEW dl, NEW th \in Threads,
         cl[th].key = k, cl[th].at = a, dl[th].key # k,
         \A o \in Threads \ {th} : dl[o] = cl[o],
         Limited(f, k, s, c, cl), a - s < Window,
         NEW d, d = IF c > MaxAttempts THEN c ELSE c + 1,
         NEW g, g = IF d > MaxAttempts THEN f ELSE [f EXCEPT ![a] = @ + 1]
  PROVE  Limited(g, k, s, d, dl)
<1>1. Window \in Nat /\ MaxAttempts \in Nat \ {0} /\ Cardinality(Threads) \in Nat
      /\ s \in Nat /\ a \in Nat /\ c \in Nat /\ \A t \in Rate!Times : t \in Nat
  BY RateSizes DEF Rate!Times
<1>2. ASSUME NEW t \in Rate!Times
      PROVE  /\ SumOver(f, From(t)) \in Nat /\ SumOver(f, Span(t)) \in Nat
             /\ Grown(f, g, t, d <= MaxAttempts /\ t <= a,
                      d <= MaxAttempts /\ t <= a /\ a < t + Window)
  <2>1. SumOver(f, From(t)) \in Nat /\ SumOver(f, Span(t)) \in Nat
    BY Spans
  <2>2. CASE d > MaxAttempts
    <3>1. g = f /\ ~(d <= MaxAttempts)
      BY <1>1, <2>2
    <3> QED BY <2>1, <3>1 DEF Grown
  <2>3. CASE ~(d > MaxAttempts)
    <3> DEFINE h == [f EXCEPT ![a] = @ + 1]
    <3>1. Grown(f, h, t, t <= a, t <= a /\ a < t + Window)
      BY Admits
    <3>2. g = h /\ d <= MaxAttempts
      BY <1>1, <2>3
    <3> HIDE DEF h
    <3> QED BY <2>1, <3>1, <3>2 DEF Grown
  <2> QED BY <2>2, <2>3
<1>3. /\ d <= MaxAttempts => Capped(d) = Capped(c) + 1
      /\ Capped(c) <= Capped(d) /\ Capped(c) \in Nat /\ Capped(d) \in Nat
  BY <1>1 DEF Capped
<1>4. ASSUME NEW t \in Rate!Times, t >= s + Window PROVE SumOver(g, From(t)) = 0
  <2>1. ~(t <= a)
    BY <1>1, <1>4
  <2>2. SumOver(g, From(t)) = SumOver(f, From(t))
    BY <1>2, <2>1 DEF Grown
  <2> QED BY <1>4, <2>2 DEF Limited
<1>5. ASSUME NEW t \in Rate!Times, NEW m \in Int, SumOver(f, From(t)) <= m + Capped(c)
      PROVE  SumOver(g, From(t)) <= m + Capped(d)
  <2>1. CASE d <= MaxAttempts
    <3>1. SumOver(g, From(t)) \in {SumOver(f, From(t)), SumOver(f, From(t)) + 1}
          /\ SumOver(f, From(t)) \in Nat
      BY <1>2 DEF Grown
    <3> QED BY <1>3, <1>5, <2>1, <3>1
  <2>2. CASE ~(d <= MaxAttempts)
    <3>1. SumOver(g, From(t)) = SumOver(f, From(t)) /\ SumOver(f, From(t)) \in Nat
      BY <1>2, <2>2 DEF Grown
    <3> QED BY <1>3, <1>5, <3>1
  <2> QED BY <2>1, <2>2
<1>6. ASSUME NEW t \in Rate!Times
      PROVE  /\ t > s => SumOver(g, From(t)) <= Capped(d) - 1
             /\ t > s - Window => SumOver(g, From(t)) <= MaxAttempts - 1 + Capped(d)
  <2>1. ASSUME t > s PROVE SumOver(g, From(t)) <= -1 + Capped(d)
    <3>1. SumOver(f, From(t)) <= Capped(c) - 1
      BY <2>1 DEF Limited
    <3>2. SumOver(f, From(t)) <= -1 + Capped(c) /\ -1 \in Int
      BY <1>2, <1>3, <3>1
    <3> QED BY <1>5, <3>2
  <2>2. ASSUME t > s - Window PROVE SumOver(g, From(t)) <= MaxAttempts - 1 + Capped(d)
    <3>1. SumOver(f, From(t)) <= MaxAttempts - 1 + Capped(c) /\ MaxAttempts - 1 \in Int
      BY <1>1, <2>2 DEF Limited
    <3> QED BY <1>5, <3>1
  <2>3. Capped(d) - 1 = -1 + Capped(d)
    BY <1>3
  <2> QED BY <2>1, <2>2, <2>3
<1>7. ASSUME NEW t \in Rate!Times, t + Window <= s
      PROVE  SumOver(g, Span(t)) + Cardinality(Late(dl, k, t + Window))
               <= 2 * MaxAttempts + Cardinality(Threads) - 2
  <2> DEFINE u == t + Window
  <2>1. SumOver(f, Span(t)) + Cardinality(Late(cl, k, u))
          <= 2 * MaxAttempts + Cardinality(Threads) - 2
    BY <1>7 DEF Limited
  <2>2. /\ SumOver(f, Span(t)) \in Nat
        /\ \/ SumOver(g, Span(t)) = SumOver(f, Span(t))
           \/ SumOver(g, Span(t)) = SumOver(f, Span(t)) + 1 /\ a < u
    BY <1>2 DEF Grown
  <2> HIDE DEF u
  <2>3. /\ Cardinality(Late(dl, k, u)) <= Cardinality(Late(cl, k, u))
        /\ a < u => Cardinality(Late(dl, k, u)) = Cardinality(Late(cl, k, u)) - 1
        /\ Cardinality(Late(dl, k, u)) \in Nat /\ Cardinality(Late(cl, k, u)) \in Nat
    BY LateDone, LateOnes
  <2>4. SumOver(g, Span(t)) + Cardinality(Late(dl, k, u))
          <= 2 * MaxAttempts + Cardinality(Threads) - 2
    BY <1>1, <2>1, <2>2, <2>3
  <2> QED BY <2>4 DEF u
<1> QED BY <1>4, <1>6, <1>7 DEF Limited

\* The attempt of a thread that starts a window: the first of its key, or the first after
\* the window before is over.
LEMMA CountsAnew ==
  ASSUME NEW f \in Counts, NEW k \in Keys, NEW a \in Rate!Times, NEW dl,
         \A t \in Rate!Times : t > a => SumOver(f, From(t)) = 0,
         \A t \in Rate!Times : t > a - Window => SumOver(f, From(t)) <= MaxAttempts - 1,
         \A t \in Rate!Times : t + Window <= a =>
           SumOver(f, Span(t)) + Cardinality(Late(dl, k, t + Window))
             <= 2 * MaxAttempts + Cardinality(Threads) - 2
  PROVE  Limited([f EXCEPT ![a] = @ + 1], k, a, 1, dl)
<1> DEFINE g == [f EXCEPT ![a] = @ + 1]
<1>1. Window \in Nat \ {0} /\ MaxAttempts \in Nat \ {0} /\ Cardinality(Threads) \in Nat
      /\ a \in Nat /\ \A t \in Rate!Times : t \in Nat
  BY RateSizes DEF Rate!Times
<1>2. \A t \in Rate!Times :
        /\ SumOver(g, From(t)) = IF t <= a THEN SumOver(f, From(t)) + 1 ELSE SumOver(f, From(t))
        /\ SumOver(g, Span(t)) = IF t <= a /\ a < t + Window THEN SumOver(f, Span(t)) + 1
                                 ELSE SumOver(f, Span(t))
        /\ SumOver(f, From(t)) \in Nat /\ SumOver(f, Span(t)) \in Nat
  <2>1. \A t \in Rate!Times : Grown(f, g, t, t <= a, t <= a /\ a < t + Window)
    BY Admits
  <2> HIDE DEF g
  <2> QED BY <2>1, Spans DEF Grown
<1> HIDE DEF g
<1>3. Capped(1) = 1
  BY <1>1 DEF Capped
<1>4. \A t \in Rate!Times : t >= a + Window => SumOver(g, From(t)) = 0
  BY <1>1, <1>2
<1>5. \A t \in Rate!Times : t > a => SumOver(g, From(t)) <= 1 - 1
  BY <1>1, <1>2
<1>6. \A t \in Rate!Times : t > a - Window => SumOver(g, From(t)) <= MaxAttempts - 1 + 1
  BY <1>1, <1>2
<1>7. ASSUME NEW t \in Rate!Times, t + Window <= a
      PROVE  SumOver(g, Span(t)) + Cardinality(Late(dl, k, t + Window))
               <= 2 * MaxAttempts + Cardinality(Threads) - 2
  <2>1. SumOver(g, Span(t)) = SumOver(f, Span(t))
    BY <1>1, <1>2, <1>7
  <2> QED BY <1>7, <2>1
<1>8. Limited(g, k, a, 1, dl)
  BY <1>3, <1>4, <1>5, <1>6, <1>7 DEF Limited
<1> QED BY <1>8 DEF g

\* The first attempt of a key that has no bucket.
LEMMA CountsFirst ==
  ASSUME NEW f \in Counts, \A x \in Rate!Times : f[x] = 0, NEW k \in Keys,
         NEW a \in Rate!Times, NEW cl, NEW dl, NEW th \in Threads,
         cl[th].key = k, dl[th].key # k, \A o \in Threads \ {th} : dl[o] = cl[o]
  PROVE  Limited([f EXCEPT ![a] = @ + 1], k, a, 1, dl)
<1>1. MaxAttempts \in Nat \ {0} /\ Cardinality(Threads) \in Nat \ {0}
  BY RateSizes
<1>2. ASSUME NEW t \in Rate!Times PROVE SumOver(f, From(t)) = 0 /\ SumOver(f, Span(t)) = 0
  <2>1. From(t) \in SUBSET Rate!Times /\ Span(t) \in SUBSET Rate!Times
        /\ IsFiniteSet(From(t)) /\ IsFiniteSet(Span(t))
    BY Spans
  <2>2. (\A z \in From(t) : f[z] = 0) /\ (\A z \in Span(t) : f[z] = 0)
    BY <2>1
  <2> QED BY <2>1, <2>2, SumNothing
<1>3. ASSUME NEW t \in Rate!Times
      PROVE  SumOver(f, Span(t)) + Cardinality(Late(dl, k, t + Window))
               <= 2 * MaxAttempts + Cardinality(Threads) - 2
  <2>1. Cardinality(Late(dl, k, t + Window)) <= Cardinality(Threads) - 1
        /\ Cardinality(Late(dl, k, t + Window)) \in Nat
    BY LateDone, LateOnes
  <2> QED BY <1>1, <1>2, <2>1
<1>4. \A t \in Rate!Times : t > a - Window => SumOver(f, From(t)) <= MaxAttempts - 1
  BY <1>1, <1>2
<1> QED BY <1>2, <1>3, <1>4, CountsAnew

\* An attempt after the end of the window of the bucket starts the next one.
LEMMA CountsNextWindow ==
  ASSUME NEW f \in Counts, NEW k \in Keys, NEW s \in Rate!Times, NEW a \in Rate!Times,
         NEW c \in 1..MaxAttempts + 1, NEW cl, NEW dl, NEW th \in Threads,
         cl[th].key = k, cl[th].at = a, dl[th].key # k,
         \A o \in Threads \ {th} : dl[o] = cl[o],
         Limited(f, k, s, c, cl), a - s >= Window
  PROVE  Limited([f EXCEPT ![a] = @ + 1], k, a, 1, dl)
<1>1. Window \in Nat \ {0} /\ MaxAttempts \in Nat \ {0} /\ Cardinality(Threads) \in Nat \ {0}
      /\ a \in Nat /\ s \in Nat /\ c \in Nat /\ \A t \in Rate!Times : t \in Nat
  BY RateSizes DEF Rate!Times
<1>2. Capped(c) \in 1..MaxAttempts
  BY <1>1 DEF Capped
<1>3. \A t \in Rate!Times : t > a => SumOver(f, From(t)) = 0
  BY <1>1 DEF Limited
<1>4. ASSUME NEW t \in Rate!Times, t > a - Window
      PROVE  SumOver(f, From(t)) <= MaxAttempts - 1
  <2>1. t > s
    BY <1>1, <1>4
  <2>2. SumOver(f, From(t)) <= Capped(c) - 1 /\ SumOver(f, From(t)) \in Nat
    BY <2>1, Spans DEF Limited
  <2> QED BY <1>1, <1>2, <2>2
<1>5. ASSUME NEW t \in Rate!Times, t + Window <= a
      PROVE  SumOver(f, Span(t)) + Cardinality(Late(dl, k, t + Window))
               <= 2 * MaxAttempts + Cardinality(Threads) - 2
  <2>1. /\ Cardinality(Late(dl, k, t + Window)) <= Cardinality(Threads) - 1
        /\ Cardinality(Late(dl, k, t + Window)) <= Cardinality(Late(cl, k, t + Window))
        /\ Cardinality(Late(dl, k, t + Window)) \in Nat
        /\ Cardinality(Late(cl, k, t + Window)) \in Nat
    <3> DEFINE u == t + Window
    <3> HIDE DEF u
    <3>1. /\ Cardinality(Late(dl, k, u)) <= Cardinality(Threads) - 1
          /\ Cardinality(Late(dl, k, u)) <= Cardinality(Late(cl, k, u))
          /\ Cardinality(Late(dl, k, u)) \in Nat /\ Cardinality(Late(cl, k, u)) \in Nat
      BY LateDone, LateOnes
    <3> QED BY <3>1 DEF u
  <2>2. SumOver(f, Span(t)) \in Nat /\ SumOver(f, From(t)) \in Nat
        /\ SumOver(f, Span(t)) <= SumOver(f, From(t))
    BY Spans
  <2>3. CASE t > s - Window
    <3>1. SumOver(f, From(t)) <= MaxAttempts - 1 + Capped(c)
      BY <2>3 DEF Limited
    <3> QED BY <1>1, <1>2, <2>1, <2>2, <3>1
  <2>4. CASE ~(t > s - Window)
    <3>1. t + Window <= s
      BY <1>1, <2>4
    <3>2. SumOver(f, Span(t)) + Cardinality(Late(cl, k, t + Window))
            <= 2 * MaxAttempts + Cardinality(Threads) - 2
      BY <3>1 DEF Limited
    <3> QED BY <1>1, <2>1, <2>2, <3>2
  <2> QED BY <2>3, <2>4
<1> QED BY <1>3, <1>4, <1>5, CountsAnew

\* What the invariant says of any window.
LEMMA LimitedBounds ==
  ASSUME NEW f \in Counts, NEW k, NEW s \in Rate!Times, NEW c \in 1..MaxAttempts + 1, NEW cl,
         Limited(f, k, s, c, cl), NEW t \in Rate!Times
  PROVE  SumOver(f, Span(t)) <= 2 * MaxAttempts + Cardinality(Threads) - 2
<1>1. Window \in Nat /\ MaxAttempts \in Nat \ {0} /\ Cardinality(Threads) \in Nat \ {0}
      /\ s \in Nat /\ t \in Nat /\ c \in Nat
  BY RateSizes DEF Rate!Times
<1>2. Capped(c) \in 1..MaxAttempts
  BY <1>1 DEF Capped
<1>3. SumOver(f, Span(t)) \in Nat /\ SumOver(f, From(t)) \in Nat
      /\ SumOver(f, Span(t)) <= SumOver(f, From(t))
      /\ Cardinality(Late(cl, k, t + Window)) \in Nat
  BY Spans, LateOnes
<1>4. CASE t > s - Window
  <2>1. SumOver(f, From(t)) <= MaxAttempts - 1 + Capped(c)
    BY <1>4 DEF Limited
  <2> QED BY <1>1, <1>2, <1>3, <2>1
<1>5. CASE ~(t > s - Window)
  <2>1. SumOver(f, Span(t)) + Cardinality(Late(cl, k, t + Window))
          <= 2 * MaxAttempts + Cardinality(Threads) - 2
    BY <1>1, <1>5 DEF Limited
  <2> QED BY <1>1, <1>3, <2>1
<1> QED BY <1>4, <1>5

-----------------------------------------------------------------------------
\* The state of the limiter.
RateCall == [key : Keys \cup {None}, at : Rate!Times]
RateHistory ==
  /\ past.admitted \in [Keys -> Counts] /\ past.crowded \in SUBSET Keys
  /\ past.after \in [Keys -> SUBSET Keys] /\ \A k \in Keys : IsFiniteSet(past.after[k])
\* A key comes before the keys counted since it was.
InOrder(seq, after) ==
  \A i, j \in 1..Len(seq) : i < j => seq[j].key \in after[seq[i].key]
Held(tab, k, f, cl) ==
  /\ \A i \in 1..Len(tab) : tab[i].key = k => Limited(f, k, tab[i].start, tab[i].count, cl)
  /\ (\A i \in 1..Len(tab) : tab[i].key # k) => \A x \in Rate!Times : f[x] = 0
RateInv ==
  /\ now \in Rate!Times /\ table \in Seq(Rate!Bucket) /\ Distinct(table, "key")
  /\ calls \in [Threads -> RateCall]
  /\ \A th \in Threads : calls[th] = Rate!Idle \/ calls[th].key \in Keys
  /\ \A th \in Threads : calls[th].at <= now
  /\ \A i \in 1..Len(table) : table[i].start <= now /\ table[i].count >= 1
  /\ RateHistory /\ InOrder(table, past.after)
  /\ \A k \in Keys \ past.crowded : Held(table, k, past.admitted[k], calls)

\* RateLimit begins in its invariant.
LEMMA RateInit == Rate!Init => RateInv
<1> SUFFICES ASSUME Rate!Init PROVE RateInv
  OBVIOUS
<1>1. /\ now = 0 /\ table = << >> /\ calls = [th \in Threads |-> Rate!Idle]
      /\ past.admitted = [k \in Keys |-> [t \in Rate!Times |-> 0]]
      /\ past.after = [k \in Keys |-> {}] /\ past.crowded = {}
  BY DEF Rate!Init
<1>2. 0 \in Rate!Times /\ Rate!Idle \in RateCall /\ Rate!Idle.at = 0
  BY RateSizes DEF Rate!Times, RateCall, Rate!Idle
<1>3. table \in Seq(Rate!Bucket) /\ Len(table) = 0
  BY <1>1
<1>4. RateHistory
  <2>1. [t \in Rate!Times |-> 0] \in Counts
    BY DEF Counts
  <2> QED BY <1>1, <2>1, FS_EmptySet DEF RateHistory
<1>5. \A k \in Keys : \A x \in Rate!Times : past.admitted[k][x] = 0
  BY <1>1
<1> QED BY <1>1, <1>2, <1>3, <1>4, <1>5 DEF RateInv, InOrder, Distinct, Held

\* The late threads of a key change only with its own calls, and with those that read a
\* clock that is not late.
LEMMA SameLate ==
  ASSUME NEW f, NEW k, NEW s \in Rate!Times, NEW c, NEW cl, NEW dl, Limited(f, k, s, c, cl),
         \A u \in Int : u <= s => Late(dl, k, u) = Late(cl, k, u)
  PROVE  Limited(f, k, s, c, dl)
<1>1. ASSUME NEW t \in Rate!Times, t + Window <= s
      PROVE  SumOver(f, Span(t)) + Cardinality(Late(dl, k, t + Window))
               <= 2 * MaxAttempts + Cardinality(Threads) - 2
  <2> DEFINE u == t + Window
  <2>1. u \in Int /\ u <= s
    BY <1>1, RateSizes DEF Rate!Times
  <2>2. SumOver(f, Span(t)) + Cardinality(Late(cl, k, u))
          <= 2 * MaxAttempts + Cardinality(Threads) - 2
    BY <1>1 DEF Limited
  <2> HIDE DEF u
  <2>3. SumOver(f, Span(t)) + Cardinality(Late(dl, k, u))
          <= 2 * MaxAttempts + Cardinality(Threads) - 2
    BY <2>1, <2>2
  <2> QED BY <2>3 DEF u
<1> QED BY <1>1 DEF Limited

\* The fields of a bucket.
LEMMA Bucketed ==
  ASSUME RateInv, NEW i \in 1..Len(table)
  PROVE  /\ table[i] \in Rate!Bucket /\ table[i].key \in Keys /\ table[i].start \in Rate!Times
         /\ table[i].start \in Nat /\ table[i].start <= now
         /\ table[i].count \in 1..MaxAttempts + 1
<1>1. table \in Seq(Rate!Bucket) /\ table[i].start <= now /\ table[i].count >= 1
  BY DEF RateInv
<1>2. table[i] \in Rate!Bucket
  BY <1>1, ElementOfSeq
<1>3. table[i].key \in Keys /\ table[i].start \in Rate!Times /\ table[i].count \in 0..MaxAttempts + 1
  BY <1>2 DEF Rate!Bucket
<1> QED BY <1>1, <1>2, <1>3, RateSizes DEF Rate!Times

\* A thread that reads the clock now is late for no window that has ended.
LEMMA RateReads ==
  ASSUME RateInv, NEW th \in Threads, NEW k \in Keys, Rate!ReadClock(th, k)
  PROVE  RateInv'
<1> DEFINE q == [key |-> k, at |-> now]
<1>1. /\ calls[th] = Rate!Idle /\ calls' = [calls EXCEPT ![th] = q]
      /\ UNCHANGED <<now, table, past>>
  BY DEF Rate!ReadClock
<1>2. /\ now \in Rate!Times /\ now \in Nat /\ calls \in [Threads -> RateCall] /\ None \notin Keys
      /\ table \in Seq(Rate!Bucket)
  BY RateSizes DEF RateInv, Rate!Times
<1>3. q \in RateCall /\ q.key = k /\ q.at = now
  BY <1>2 DEF RateCall
<1> HIDE DEF q
<1>4. calls' \in [Threads -> RateCall]
      /\ \A o \in Threads : calls'[o] = IF o = th THEN q ELSE calls[o]
  BY <1>1, <1>2, <1>3
<1>5. (\A o \in Threads : calls'[o] = Rate!Idle \/ calls'[o].key \in Keys)
      /\ \A o \in Threads : calls'[o].at <= now
  BY <1>2, <1>3, <1>4 DEF RateInv
<1>6. ASSUME NEW x \in Keys, NEW u \in Int, u <= now PROVE Late(calls', x, u) = Late(calls, x, u)
  <2>1. calls[th].key = None
    BY <1>1 DEF Rate!Idle
  <2>2. ~(q.at < u)
    BY <1>2, <1>3, <1>6
  <2> QED BY <1>2, <1>4, <2>1, <2>2 DEF Late
<1>7. ASSUME NEW x \in Keys \ past.crowded PROVE Held(table, x, past.admitted[x], calls')
  <2>1. Held(table, x, past.admitted[x], calls)
    BY DEF RateInv
  <2>2. ASSUME NEW i \in 1..Len(table), table[i].key = x
        PROVE  Limited(past.admitted[x], x, table[i].start, table[i].count, calls')
    <3>1. table[i].start \in Rate!Times /\ table[i].start <= now
      BY Bucketed
    <3>2. ASSUME NEW u \in Int, u <= table[i].start PROVE Late(calls', x, u) = Late(calls, x, u)
      BY <1>2, <1>6, <3>1, <3>2 DEF Rate!Times
    <3>3. Limited(past.admitted[x], x, table[i].start, table[i].count, calls)
      BY <2>1, <2>2 DEF Held
    <3> QED BY <3>1, <3>2, <3>3, SameLate
  <2> QED BY <2>1, <2>2 DEF Held
<1>8. \A x \in Keys \ past'.crowded : Held(table', x, past'.admitted[x], calls')
  BY <1>1, <1>7
<1> QED BY <1>1, <1>4, <1>5, <1>8 DEF RateInv, RateHistory, InOrder, Held, Rate!Times

\* Time passes: no bucket started later.
LEMMA RateTicks == ASSUME RateInv, Rate!Tick PROVE RateInv'
<1>1. now' = now + 1 /\ now' \in Rate!Times /\ UNCHANGED <<table, calls, past>> /\ now \in Nat
  BY RateSizes DEF Rate!Tick, RateInv, Rate!Times
<1>2. \A th \in Threads : calls[th].at <= now'
  BY <1>1 DEF RateInv, RateCall, Rate!Times
<1>3. \A i \in 1..Len(table) : table[i].start <= now'
  <2>1. \A i \in 1..Len(table) : table[i].start \in Nat /\ table[i].start <= now
    BY Bucketed
  <2> QED BY <1>1, <2>1
<1> QED BY <1>1, <1>2, <1>3 DEF RateInv, RateHistory, InOrder, Held

\* The bucket that an attempt counts in.
LEMMA CountedBucket ==
  ASSUME RateInv, NEW k \in Keys, NEW a \in Rate!Times, a <= now
  PROVE  LET b == Rate!Counted(Rate!BucketAt(k, a)) IN
         /\ b \in Rate!Bucket /\ b.key = k /\ b.start <= now /\ b.count >= 1
         /\ \/ (\A i \in 1..Len(table) : table[i].key # k) /\ b.start = a /\ b.count = 1
            \/ \E i \in 1..Len(table) :
                 /\ table[i].key = k
                 /\ \/ a - table[i].start >= Window /\ b.start = a /\ b.count = 1
                    \/ /\ a - table[i].start < Window /\ b.start = table[i].start
                       /\ b.count = IF table[i].count > MaxAttempts THEN table[i].count
                                    ELSE table[i].count + 1
<1> DEFINE c == Rate!BucketAt(k, a)
           b == Rate!Counted(c)
<1>0. MaxAttempts \in Nat \ {0} /\ Window \in Nat /\ a \in Nat /\ now \in Nat
      /\ DOMAIN table = 1..Len(table)
  BY RateSizes DEF Rate!Times, RateInv
<1>1. ASSUME NEW d \in Rate!Bucket, d.count <= MaxAttempts + 1
      PROVE  /\ Rate!Counted(d) \in Rate!Bucket /\ Rate!Counted(d).key = d.key
             /\ Rate!Counted(d).start = d.start
             /\ Rate!Counted(d).count = IF d.count > MaxAttempts THEN d.count ELSE d.count + 1
             /\ Rate!Counted(d).count >= 1
  <2>1. d.count \in 0..MaxAttempts + 1
    BY DEF Rate!Bucket
  <2> DEFINE n == IF d.count > MaxAttempts THEN d.count ELSE d.count + 1
  <2>2. n \in 0..MaxAttempts + 1 /\ n >= 1
    BY <1>0, <2>1
  <2>3. Rate!Counted(d) = [d EXCEPT !.count = n]
    BY DEF Rate!Counted
  <2>4. n = IF d.count > MaxAttempts THEN d.count ELSE d.count + 1
    OBVIOUS
  <2> HIDE DEF n
  <2>5. /\ Rate!Counted(d) \in Rate!Bucket /\ Rate!Counted(d).key = d.key
        /\ Rate!Counted(d).start = d.start /\ Rate!Counted(d).count = n
    BY <2>2, <2>3 DEF Rate!Bucket
  <2> QED BY <2>2, <2>4, <2>5
<1>2. \A d : d \in Rate!Bucket => d.count <= MaxAttempts + 1
  BY <1>0 DEF Rate!Bucket
<1>3. CASE Rate!Entries(k) = {}
  <2>1. c = [key |-> k, start |-> a, count |-> 0]
    BY <1>3 DEF Rate!BucketAt
  <2>2. c \in Rate!Bucket /\ c.key = k /\ c.start = a /\ c.count = 0
    BY <1>0, <2>1 DEF Rate!Bucket
  <2> HIDE DEF c
  <2>3. /\ b \in Rate!Bucket /\ b.key = k /\ b.start = a /\ b.count = 1 /\ b.count >= 1
    <3>1. /\ b \in Rate!Bucket /\ b.key = c.key /\ b.start = c.start /\ b.count >= 1
          /\ b.count = IF c.count > MaxAttempts THEN c.count ELSE c.count + 1
      BY <1>1, <1>2, <2>2
    <3> QED BY <1>0, <2>2, <3>1
  <2> HIDE DEF b
  <2>4. \A i \in 1..Len(table) : table[i].key # k
    BY <1>0, <1>3 DEF Rate!Entries
  <2>5. /\ b \in Rate!Bucket /\ b.key = k /\ b.start <= now /\ b.count >= 1
        /\ (\A i \in 1..Len(table) : table[i].key # k) /\ b.start = a /\ b.count = 1
    BY <1>0, <2>3, <2>4
  <2> QED BY <2>5 DEF b, c
<1>4. CASE Rate!Entries(k) # {}
  <2>1. PICK i \in 1..Len(table) : i = (CHOOSE x \in Rate!Entries(k) : TRUE) /\ table[i].key = k
    BY <1>0, <1>4 DEF Rate!Entries
  <2> DEFINE o == table[i]
  <2>2. /\ o \in Rate!Bucket /\ o.start \in Nat /\ o.start <= now
        /\ o.count \in 1..MaxAttempts + 1
    BY Bucketed
  <2>3. c = IF a - o.start >= Window THEN [o EXCEPT !.start = a, !.count = 0] ELSE o
    BY <1>4, <2>1 DEF Rate!BucketAt
  <2>4. o.key = k
    BY <2>1
  <2> HIDE DEF c, o
  <2>5. CASE a - o.start >= Window
    <3>0. PICK z \in Nat : z = 0
      OBVIOUS
    <3>1. c = [o EXCEPT !.start = a, !.count = z]
      BY <2>3, <2>5, <3>0
    <3>2. z \in 0..MaxAttempts + 1
      BY <1>0, <3>0
    <3>3. c \in Rate!Bucket /\ c.key = k /\ c.start = a /\ c.count = 0
      BY <2>2, <2>4, <3>0, <3>1, <3>2 DEF Rate!Bucket
    <3>4. /\ b \in Rate!Bucket /\ b.key = c.key /\ b.start = c.start /\ b.count >= 1
          /\ b.count = IF c.count > MaxAttempts THEN c.count ELSE c.count + 1
      BY <1>1, <1>2, <3>3
    <3> HIDE DEF b
    <3>5. /\ b \in Rate!Bucket /\ b.key = k /\ b.start <= now /\ b.count >= 1
          /\ b.start = a /\ b.count = 1
      BY <1>0, <3>3, <3>4
    <3> QED BY <2>1, <2>5, <3>5 DEF b, c, o
  <2>6. CASE ~(a - o.start >= Window)
    <3>1. c = o /\ a - o.start < Window
      BY <1>0, <2>2, <2>3, <2>6
    <3>2. /\ b \in Rate!Bucket /\ b.key = o.key /\ b.start = o.start /\ b.count >= 1
          /\ b.count = IF o.count > MaxAttempts THEN o.count ELSE o.count + 1
      BY <1>1, <1>2, <2>2, <3>1
    <3> HIDE DEF b
    <3>3. b.start <= now /\ b.key = k
      BY <2>2, <2>4, <3>2
    <3> QED BY <2>1, <3>1, <3>2, <3>3 DEF b, c, o
  <2> QED BY <2>5, <2>6
<1> QED BY <1>3, <1>4

\* What is left of the table is in order.
LEMMA OrderKept ==
  ASSUME NEW seq, NEW t, NEW after, InOrder(seq, after), Follows(t, seq)
  PROVE  InOrder(t, after)
<1> SUFFICES ASSUME NEW i \in 1..Len(t), NEW j \in 1..Len(t), i < j
             PROVE  t[j].key \in after[t[i].key]
  BY DEF InOrder
<1>1. PICK m \in 1..Len(seq), n \in 1..Len(seq) : m < n /\ t[i] = seq[m] /\ t[j] = seq[n]
  BY DEF Follows
<1> QED BY <1>1 DEF InOrder

\* Behind an entry that the cap drops come as many other keys as the cap.
LEMMA Behind ==
  ASSUME NEW seq, Distinct(seq, "key"), NEW after, InOrder(seq, after),
         Len(seq) \in Nat, NEW p \in 1..Len(seq), NEW cap \in Nat, p + cap <= Len(seq),
         IsFiniteSet(after[seq[p].key])
  PROVE  Cardinality(after[seq[p].key]) >= cap
<1> DEFINE T == after[seq[p].key]
           S == 1..cap
           f == [j \in S |-> seq[p + j].key]
<1>1. \A j \in S : p + j \in 1..Len(seq) /\ p < p + j
  OBVIOUS
<1>2. \A j \in S : f[j] \in T
  BY <1>1 DEF InOrder
<1>3. \A i, j \in S : f[i] = f[j] => i = j
  <2> SUFFICES ASSUME NEW i \in S, NEW j \in S, f[i] = f[j] PROVE i = j
    OBVIOUS
  <2>1. PICK m \in 1..Len(seq) : m = p + i
    BY <1>1
  <2>2. PICK n \in 1..Len(seq) : n = p + j
    BY <1>1
  <2>3. seq[m]["key"] = seq[n]["key"]
    BY <2>1, <2>2
  <2>4. m = n
    BY <2>3 DEF Distinct
  <2> QED BY <2>1, <2>2, <2>4
<1>4. f \in Injection(S, T)
  <2>1. f \in [S -> T]
    BY <1>2
  <2> HIDE DEF f
  <2> QED BY <1>3, <2>1 DEF Injection, IsInjective
<1>5. Cardinality(S) = cap
  BY FS_Interval
<1> HIDE DEF f, S, T
<1>6. Cardinality(S) <= Cardinality(T)
  BY <1>4, FS_Injection DEF T
<1> QED BY <1>5, <1>6, FS_CardinalityType DEF T

\* The table after an attempt at a key: its bucket last, the others in their order, and
\* those that the cap drops are crowded.
Refilled(tab, k, b, after) ==
  /\ tab \in Seq(Rate!Bucket) /\ Distinct(tab, "key") /\ InOrder(tab, after)
  /\ \A j \in 1..Len(tab) : \/ tab[j] = b
                            \/ tab[j].key # k /\ \E i \in 1..Len(table) : tab[j] = table[i]
  /\ \E j \in 1..Len(tab) : tab[j] = b
  /\ \A i \in 1..Len(table) :
       \/ table[i].key = k \/ \E j \in 1..Len(tab) : tab[j] = table[i]
       \/ /\ \A j \in 1..Len(tab) : tab[j].key # table[i].key
          /\ Cardinality(after[table[i].key]) >= MaxTrackedKeys

\* The table after a key is counted: it lost the bucket of no other key, unless as many others
\* were counted since.
LEMMA Enforced ==
  ASSUME RateInv, NEW k \in Keys, NEW b \in Rate!Bucket, b.key = k,
         NEW tab, tab = Rate!Kept(Append(Rate!Others(k), b)), NEW after,
         after = [x \in Keys |-> IF x = k THEN {} ELSE past.after[x] \cup {k}]
  PROVE  Refilled(tab, k, b, after)
<1> DEFINE rest == Rest(table, "key", k)
           seq == Append(rest, b)
<1>0. /\ table \in Seq(Rate!Bucket) /\ Distinct(table, "key") /\ RateHistory
      /\ InOrder(table, past.after) /\ MaxTrackedKeys \in Nat \ {0}
      /\ \A i \in 1..Len(table) : table[i].key \in Keys
  BY RateSizes, Bucketed DEF RateInv
<1>1. Rate!Others(k) = rest /\ tab = Trimmed(seq, MaxTrackedKeys)
  <2>1. Rate!Others(k) = rest
    BY DEF Rate!Others, Rate!Entries, Rest, Places
  <2>2. \A s : Rate!Kept(s) = Trimmed(s, MaxTrackedKeys)
    BY DEF Rate!Kept, Trimmed, Rate!Max, Documents!Max
  <2> HIDE DEF rest
  <2> QED BY <2>1, <2>2
<1>2. /\ rest \in Seq(Rate!Bucket) /\ Distinct(rest, "key") /\ Follows(rest, table)
      /\ \A j \in 1..Len(rest) : \E i \in 1..Len(table) :
           rest[j] = table[i] /\ table[i]["key"] # k
      /\ \A i \in 1..Len(table) : table[i]["key"] # k => \E j \in 1..Len(rest) : rest[j] = table[i]
  <2>1. table \in Seq(Rate!Bucket) /\ Distinct(table, "key")
    BY <1>0
  <2> QED BY ONLY <2>1, WithoutOne
<1> HIDE DEF rest
<1>3. \A j \in 1..Len(rest) : rest[j].key # k /\ rest[j].key \in Keys
                              /\ \E i \in 1..Len(table) : rest[j] = table[i]
  BY <1>0, <1>2
<1>4. /\ seq \in Seq(Rate!Bucket) /\ Distinct(seq, "key") /\ Len(seq) = Len(rest) + 1
      /\ \A j \in 1..Len(rest) + 1 : seq[j] = b \/ \E i \in 1..Len(rest) : seq[j] = rest[i]
  <2>1. \A j \in 1..Len(rest) : rest[j]["key"] # b["key"]
    BY <1>3
  <2> QED BY <1>2, <2>1, WithOneMore
<1>5. /\ Len(rest) \in Nat /\ seq[Len(rest) + 1] = b
      /\ \A j \in 1..Len(rest) : seq[j] = rest[j]
  BY <1>2, AppendProperties
<1> HIDE DEF seq
<1>6. InOrder(seq, after)
  <2> SUFFICES ASSUME NEW i \in 1..Len(seq), NEW j \in 1..Len(seq), i < j
               PROVE  seq[j].key \in after[seq[i].key]
    BY DEF InOrder
  <2>1. i \in 1..Len(rest) /\ seq[i] = rest[i] /\ rest[i].key # k /\ rest[i].key \in Keys
    BY <1>3, <1>4, <1>5
  <2>2. after[seq[i].key] = past.after[rest[i].key] \cup {k}
    BY <2>1
  <2>3. CASE j = Len(rest) + 1
    BY <1>5, <2>2, <2>3
  <2>4. CASE j # Len(rest) + 1
    <3>1. j \in 1..Len(rest) /\ seq[j] = rest[j]
      BY SMTT(30), <1>4, <1>5, <2>4
    <3>2. InOrder(rest, past.after)
      BY <1>0, <1>2, OrderKept
    <3>3. rest[j].key \in past.after[rest[i].key]
      BY <2>1, <3>1, <3>2 DEF InOrder
    <3> QED BY <2>2, <3>1, <3>3
  <2> QED BY <2>3, <2>4
<1> DEFINE t == Trimmed(seq, MaxTrackedKeys)
<1>7. /\ t \in Seq(Rate!Bucket) /\ Distinct(t, "key") /\ Follows(t, seq)
      /\ \A j \in 1..Len(t) : \E i \in 1..Len(seq) : t[j] = seq[i]
      /\ \A i \in 1..Len(seq) : i + MaxTrackedKeys > Len(seq) => \E j \in 1..Len(t) : t[j] = seq[i]
  <2>1. seq \in Seq(Rate!Bucket) /\ Distinct(seq, "key") /\ MaxTrackedKeys \in Nat
    BY <1>0, <1>4
  <2> QED BY ONLY <2>1, WithinCap
<1> HIDE DEF t
<1>8. InOrder(t, after)
  BY <1>6, <1>7, OrderKept
<1>9. \A j \in 1..Len(t) : \/ t[j] = b
                           \/ t[j].key # k /\ \E i \in 1..Len(table) : t[j] = table[i]
  BY SMTT(30), <1>3, <1>4, <1>7
<1>10. \E j \in 1..Len(t) : t[j] = b
  <2>1. Len(seq) \in 1..Len(seq) /\ Len(seq) + MaxTrackedKeys > Len(seq) /\ seq[Len(seq)] = b
    BY <1>0, <1>4, <1>5
  <2> QED BY <1>7, <2>1
<1>11. ASSUME NEW i \in 1..Len(table), table[i].key # k,
              ~ \E j \in 1..Len(t) : t[j] = table[i]
       PROVE  /\ \A j \in 1..Len(t) : t[j].key # table[i].key
              /\ Cardinality(after[table[i].key]) >= MaxTrackedKeys
  <2>1. PICK p \in 1..Len(rest) : rest[p] = table[i]
    BY <1>2, <1>11
  <2>2. p \in 1..Len(seq) /\ seq[p] = table[i] /\ Len(seq) \in Nat
    BY <1>4, <1>5, <2>1
  <2>3. ~(p + MaxTrackedKeys > Len(seq))
    BY <1>7, <1>11, <2>2
  <2>4. p + MaxTrackedKeys <= Len(seq)
    BY <1>0, <2>2, <2>3
  <2>5. IsFiniteSet(after[seq[p].key])
    <3>1. table[i].key \in Keys /\ IsFiniteSet(past.after[table[i].key])
      BY <1>0 DEF RateHistory
    <3>2. after[seq[p].key] = past.after[table[i].key] \cup {k}
      BY <1>11, <2>2, <3>1
    <3> DEFINE A == past.after[table[i].key]
    <3>3. IsFiniteSet(A) /\ after[seq[p].key] = A \cup {k}
      BY <3>1, <3>2
    <3> HIDE DEF A
    <3> QED BY <3>3, FS_AddElement
  <2>6. Cardinality(after[seq[p].key]) >= MaxTrackedKeys
    BY <1>0, <1>4, <1>6, <2>2, <2>4, <2>5, Behind
  <2>7. \A j \in 1..Len(t) : t[j].key # table[i].key
    <3> SUFFICES ASSUME NEW j \in 1..Len(t), t[j].key = table[i].key PROVE FALSE
      OBVIOUS
    <3>1. PICK m \in 1..Len(seq) : t[j] = seq[m]
      BY <1>7
    <3>2. seq[m]["key"] = seq[p]["key"]
      BY <2>2, <3>1
    <3>3. m = p
      BY <1>4, <2>2, <3>2 DEF Distinct
    <3> QED BY <1>11, <2>2, <3>1, <3>3
  <2> QED BY <2>2, <2>6, <2>7
<1>12. \A i \in 1..Len(table) :
         \/ table[i].key = k \/ \E j \in 1..Len(t) : t[j] = table[i]
         \/ /\ \A j \in 1..Len(t) : t[j].key # table[i].key
            /\ Cardinality(after[table[i].key]) >= MaxTrackedKeys
  BY <1>11
<1>13. t \in Seq(Rate!Bucket) /\ Distinct(t, "key")
  BY <1>7
<1>14. tab = t
  BY <1>1 DEF t
<1>15. Refilled(t, k, b, after)
  BY ONLY <1>8, <1>9, <1>10, <1>12, <1>13 DEF Refilled
<1> QED BY ONLY <1>14, <1>15

\* A thread that counts a key keeps the invariant: of that key, and of those it drops or keeps.
LEMMA RateEnforces == ASSUME RateInv, NEW th \in Threads, Rate!Enforce(th) PROVE RateInv'
<1> DEFINE k == calls[th].key
           a == calls[th].at
           b == Rate!Counted(Rate!BucketAt(k, a))
           tab == table'
           after == past'.after
<1>0. /\ k \in Keys /\ a \in Rate!Times /\ a <= now /\ now \in Rate!Times
      /\ calls \in [Threads -> RateCall] /\ RateHistory /\ None \notin Keys
      /\ MaxAttempts \in Nat \ {0}
  <2>1. calls[th] # Rate!Idle /\ calls \in [Threads -> RateCall]
    BY DEF Rate!Enforce, RateInv
  <2> QED BY <2>1, RateSizes DEF RateInv, RateCall
<1>1. /\ table' = Rate!Kept(Append(Rate!Others(k), b)) /\ now' = now
      /\ calls' = [calls EXCEPT ![th] = Rate!Idle]
      /\ past'.after = [x \in Keys |-> IF x = k THEN {} ELSE past.after[x] \cup {k}]
      /\ past.crowded \subseteq past'.crowded /\ past'.crowded \subseteq past.crowded \cup Keys
      /\ \A x \in Keys : /\ Rate!Entries(x) # {} /\ \A i \in DOMAIN table' : table'[i].key # x
                         /\ Cardinality(past'.after[x]) >= MaxTrackedKeys
                         => x \in past'.crowded
      /\ past'.admitted = IF b.count > MaxAttempts \/ k \in past'.crowded THEN past.admitted
                          ELSE [past.admitted EXCEPT ![k][a] = @ + 1]
  <2>1. \A S : Rate!Cardinality(S) = Cardinality(S)
    BY DEF Rate!Cardinality, Cardinality
  <2>2. /\ table' = Rate!Kept(Append(Rate!Others(k), b)) /\ now' = now
        /\ calls' = [calls EXCEPT ![th] = Rate!Idle]
    BY DEF Rate!Enforce
  <2>3. past'.after = [x \in Keys |-> IF x = k THEN {} ELSE past.after[x] \cup {k}]
    BY DEF Rate!Enforce
  <2>4. past'.crowded = past.crowded \cup
          {x \in {y \in {k} \cup {z \in Keys : Rate!Entries(z) # {}} :
                    \A i \in DOMAIN table' : table'[i].key # y} :
             Rate!Cardinality(past'.after[x]) >= MaxTrackedKeys}
    BY <2>3 DEF Rate!Enforce
  <2>5. past'.admitted = IF b.count > MaxAttempts \/ k \in past'.crowded THEN past.admitted
                         ELSE [past.admitted EXCEPT ![k][a] = @ + 1]
    BY DEF Rate!Enforce
  <2> HIDE DEF b, k, a
  <2> QED BY <1>0, <2>1, <2>2, <2>3, <2>4, <2>5
<1>2. /\ b \in Rate!Bucket /\ b.key = k /\ b.start <= now /\ b.count >= 1
      /\ \/ (\A i \in 1..Len(table) : table[i].key # k) /\ b.start = a /\ b.count = 1
         \/ \E i \in 1..Len(table) :
              /\ table[i].key = k
              /\ \/ a - table[i].start >= Window /\ b.start = a /\ b.count = 1
                 \/ /\ a - table[i].start < Window /\ b.start = table[i].start
                    /\ b.count = IF table[i].count > MaxAttempts THEN table[i].count
                                 ELSE table[i].count + 1
  BY <1>0, CountedBucket
<1> HIDE DEF k, a, b
<1>3. /\ tab \in Seq(Rate!Bucket) /\ Distinct(tab, "key") /\ InOrder(tab, after)
      /\ \A j \in 1..Len(tab) : \/ tab[j] = b
                                \/ tab[j].key # k /\ \E i \in 1..Len(table) : tab[j] = table[i]
      /\ \E j \in 1..Len(tab) : tab[j] = b
      /\ \A i \in 1..Len(table) :
           \/ table[i].key = k \/ \E j \in 1..Len(tab) : tab[j] = table[i]
           \/ /\ \A j \in 1..Len(tab) : tab[j].key # table[i].key
              /\ Cardinality(after[table[i].key]) >= MaxTrackedKeys
  <2>1. tab = Rate!Kept(Append(Rate!Others(k), b))
        /\ after = [x \in Keys |-> IF x = k THEN {} ELSE past.after[x] \cup {k}]
    BY <1>1
  <2> HIDE DEF tab, after
  <2>2. Refilled(tab, k, b, after)
    BY <1>0, <1>2, <2>1, Enforced
  <2> QED BY <2>2 DEF Refilled
<1>4. /\ calls' \in [Threads -> RateCall] /\ Rate!Idle.key = None /\ calls'[th] = Rate!Idle
      /\ \A o \in Threads \ {th} : calls'[o] = calls[o]
      /\ \A o \in Threads : calls'[o] = Rate!Idle \/ calls'[o].key \in Keys
      /\ \A o \in Threads : calls'[o].at <= now
  <2>1. Rate!Idle \in RateCall /\ Rate!Idle.key = None /\ Rate!Idle.at = 0 /\ 0 <= now
    BY <1>0, RateSizes DEF RateCall, Rate!Idle, Rate!Times
  <2>2. \A o \in Threads : calls'[o] = IF o = th THEN Rate!Idle ELSE calls[o]
    BY <1>0, <1>1
  <2> HIDE DEF Rate!Idle
  <2> QED BY <1>0, <1>1, <2>1, <2>2 DEF RateInv
<1>5. \A j \in 1..Len(tab) : tab[j].start <= now /\ tab[j].count >= 1
  <2> SUFFICES ASSUME NEW j \in 1..Len(tab) PROVE tab[j].start <= now /\ tab[j].count >= 1
    OBVIOUS
  <2>1. CASE tab[j] = b
    BY <1>2, <2>1
  <2>2. ASSUME NEW i \in 1..Len(table), tab[j] = table[i]
        PROVE  tab[j].start <= now /\ tab[j].count >= 1
    BY <2>2, Bucketed
  <2> QED BY <1>3, <2>1, <2>2
<1>6. /\ past.admitted \in [Keys -> Counts]
      /\ past'.admitted \in [Keys -> Counts]
      /\ \A x \in Keys \ {k} : past'.admitted[x] = past.admitted[x]
      /\ k \notin past'.crowded =>
           past'.admitted[k] = IF b.count > MaxAttempts THEN past.admitted[k]
                               ELSE [past.admitted[k] EXCEPT ![a] = @ + 1]
  <2> DEFINE f == past.admitted[k]
             g == [f EXCEPT ![a] = @ + 1]
  <2>1. past.admitted \in [Keys -> Counts] /\ f \in Counts
    BY <1>0 DEF RateHistory
  <2>2. g \in Counts
    BY <1>0, <2>1, Admits
  <2>3. [past.admitted EXCEPT ![k][a] = @ + 1] = [past.admitted EXCEPT ![k] = g]
    BY <1>0, <2>1
  <2> HIDE DEF g
  <2>4. \/ past'.admitted = past.admitted
        \/ past'.admitted = [past.admitted EXCEPT ![k] = g]
    BY <1>1, <2>3
  <2>5. k \notin past'.crowded =>
          past'.admitted = IF b.count > MaxAttempts THEN past.admitted
                           ELSE [past.admitted EXCEPT ![k] = g]
    BY <1>1, <2>3
  <2>6. past'.admitted \in [Keys -> Counts] /\ \A x \in Keys \ {k} : past'.admitted[x] = past.admitted[x]
    BY <2>1, <2>2, <2>4
  <2>7. k \notin past'.crowded =>
          past'.admitted[k] = IF b.count > MaxAttempts THEN past.admitted[k] ELSE g
    BY <1>0, <2>1, <2>5
  <2> QED BY <2>1, <2>6, <2>7 DEF g
<1>7. RateHistory'
  <2>1. past'.after \in [Keys -> SUBSET Keys]
    <3>1. \A x \in Keys : (IF x = k THEN {} ELSE past.after[x] \cup {k}) \in SUBSET Keys
      BY <1>0 DEF RateHistory
    <3> QED BY <1>1, <3>1
  <2>2. ASSUME NEW x \in Keys PROVE IsFiniteSet(past'.after[x])
    <3> DEFINE A == past.after[x]
    <3>1. IsFiniteSet(A) /\ past'.after[x] = IF x = k THEN {} ELSE A \cup {k}
      BY <1>0, <1>1 DEF RateHistory
    <3> HIDE DEF A
    <3> QED BY <3>1, FS_AddElement, FS_EmptySet
  <2>3. past'.crowded \in SUBSET Keys
    BY <1>0, <1>1 DEF RateHistory
  <2> QED BY <1>6, <2>1, <2>2, <2>3 DEF RateHistory, Counts, Rate!Times
<1>8. ASSUME NEW x \in Keys \ past'.crowded PROVE Held(tab, x, past'.admitted[x], calls')
  <2>0. x \in Keys /\ Held(table, x, past.admitted[x], calls)
    BY <1>1 DEF RateInv
  <2>1. CASE x # k
    <3>0. past'.admitted[x] = past.admitted[x]
      BY <1>6, <2>1
    <3>1. ASSUME NEW j \in 1..Len(tab), tab[j].key = x
          PROVE  Limited(past.admitted[x], x, tab[j].start, tab[j].count, calls')
      <4>1. PICK i \in 1..Len(table) : tab[j] = table[i]
        BY <1>2, <1>3, <2>1, <3>1
      <4> DEFINE s == table[i].start
                 c == table[i].count
      <4>2. Limited(past.admitted[x], x, s, c, calls) /\ s \in Rate!Times
        BY <2>0, <3>1, <4>1, Bucketed DEF Held
      <4>3. \A u : Late(calls', x, u) = Late(calls, x, u)
        <5>1. calls[th].key # x /\ calls'[th].key # x
          BY <1>0, <1>4, <2>1 DEF k
        <5> QED BY <1>4, <5>1 DEF Late
      <4> HIDE DEF s, c
      <4>4. Limited(past.admitted[x], x, s, c, calls')
        BY <4>2, <4>3, SameLate
      <4> QED BY <4>1, <4>4 DEF s, c
    <3>2. ASSUME \A j \in 1..Len(tab) : tab[j].key # x
          PROVE  \A i \in 1..Len(table) : table[i].key # x
      <4> SUFFICES ASSUME NEW i \in 1..Len(table), table[i].key = x PROVE FALSE
        OBVIOUS
      <4>1. Cardinality(after[x]) >= MaxTrackedKeys
        BY <1>3, <2>1, <3>2
      <4>2. Rate!Entries(x) # {}
        <5>1. i \in DOMAIN table
          BY DEF RateInv
        <5> QED BY <5>1 DEF Rate!Entries
      <4>3. \A j \in DOMAIN table' : table'[j].key # x
        BY <1>3, <3>2
      <4> QED BY <1>1, <1>8, <4>1, <4>2, <4>3
    <3>3. (\A j \in 1..Len(tab) : tab[j].key # x) => \A y \in Rate!Times : past.admitted[x][y] = 0
      BY <2>0, <3>2 DEF Held
    <3> HIDE DEF tab
    <3> QED BY <3>0, <3>1, <3>3 DEF Held
  <2>2. CASE x = k
    <3> DEFINE f == past.admitted[k]
               g == past'.admitted[k]
               cl == calls
               dl == calls'
    <3>1. f \in Counts /\ k \notin past'.crowded
          /\ g = IF b.count > MaxAttempts THEN f ELSE [f EXCEPT ![a] = @ + 1]
      BY <1>0, <1>6, <1>8, <2>2
    <3>2. cl[th].key = k /\ cl[th].at = a /\ dl[th].key # k
          /\ \A o \in Threads \ {th} : dl[o] = cl[o]
      BY <1>0, <1>4 DEF k, a
    <3>3. Limited(g, k, b.start, b.count, dl)
      <4> HIDE DEF dl, f, g
      <4>1. CASE (\A i \in 1..Len(table) : table[i].key # k) /\ b.start = a /\ b.count = 1
        <5>1. g = [f EXCEPT ![a] = @ + 1]
          BY <1>0, <3>1, <4>1
        <5>2. \A y \in Rate!Times : f[y] = 0
          BY <2>0, <2>2, <4>1 DEF Held, f
        <5>3. Limited([f EXCEPT ![a] = @ + 1], k, a, 1, dl)
          BY <1>0, <3>1, <3>2, <5>2, CountsFirst
        <5> QED BY <4>1, <5>1, <5>3
      <4>2. ASSUME NEW i \in 1..Len(table), table[i].key = k,
                   a - table[i].start >= Window /\ b.start = a /\ b.count = 1
            PROVE  Limited(g, k, b.start, b.count, dl)
        <5> DEFINE s == table[i].start
                   c == table[i].count
        <5>1. g = [f EXCEPT ![a] = @ + 1]
          BY <1>0, <3>1, <4>2
        <5>2. /\ Limited(f, k, s, c, cl) /\ s \in Rate!Times /\ c \in 1..MaxAttempts + 1
              /\ a - s >= Window
          BY <2>0, <2>2, <4>2, Bucketed DEF Held, f
        <5> HIDE DEF s, c, cl
        <5>3. Limited([f EXCEPT ![a] = @ + 1], k, a, 1, dl)
          BY <1>0, <3>1, <3>2, <5>2, CountsNextWindow
        <5> QED BY <4>2, <5>1, <5>3
      <4>3. ASSUME NEW i \in 1..Len(table), table[i].key = k,
                   /\ a - table[i].start < Window /\ b.start = table[i].start
                   /\ b.count = IF table[i].count > MaxAttempts THEN table[i].count
                                ELSE table[i].count + 1
            PROVE  Limited(g, k, b.start, b.count, dl)
        <5> DEFINE s == table[i].start
                   c == table[i].count
                   d == b.count
        <5>1. /\ g = IF d > MaxAttempts THEN f ELSE [f EXCEPT ![a] = @ + 1]
              /\ d = IF c > MaxAttempts THEN c ELSE c + 1
          BY <3>1, <4>3
        <5>2. /\ Limited(f, k, s, c, cl) /\ s \in Rate!Times /\ c \in 1..MaxAttempts + 1
              /\ a - s < Window
          BY <2>0, <2>2, <4>3, Bucketed DEF Held, f
        <5>3. b.start = s
          BY <4>3
        <5> HIDE DEF s, c, d, cl
        <5>4. Limited(g, k, s, d, dl)
          BY <1>0, <3>1, <3>2, <5>1, <5>2, CountsInWindow
        <5> QED BY <5>3, <5>4 DEF d
      <4> QED BY <1>2, <4>1, <4>2, <4>3
    <3>4. \A j \in 1..Len(tab) : tab[j].key = k => tab[j] = b
      BY <1>3
    <3>5. \E j \in 1..Len(tab) : tab[j].key = k
      BY <1>2, <1>3
    <3> HIDE DEF tab, g, dl
    <3>6. Held(tab, k, g, dl)
      BY <3>3, <3>4, <3>5 DEF Held
    <3> QED BY <2>2, <3>6 DEF g, dl
  <2> QED BY <2>1, <2>2
<1>9. now' = now /\ now \in Rate!Times
  BY <1>0, <1>1
<1>10. (\A x \in Keys \ past.crowded : Held(table, x, past.admitted[x], calls))'
  BY <1>8 DEF Held
<1> QED BY <1>3, <1>4, <1>5, <1>7, <1>9, <1>10 DEF RateInv, InOrder, Distinct, RateCall, Rate!Times,
                                             Rate!Bucket, Rate!Idle

\* Every step of RateLimit keeps its invariant.
LEMMA RateStep == ASSUME RateInv, Rate!Next PROVE RateInv'
BY RateReads, RateEnforces, RateTicks DEF Rate!Next

\* The invariant of RateLimit gives its types.
LEMMA RateType == RateInv => Rate!TypeOK
<1> SUFFICES ASSUME RateInv PROVE Rate!TypeOK
  OBVIOUS
<1>1. ASSUME NEW i \in DOMAIN table, NEW j \in DOMAIN table, table[i].key = table[j].key
      PROVE  i = j
  BY <1>1 DEF RateInv, Distinct
<1>2. ASSUME NEW th \in Threads
      PROVE  calls[th] = Rate!Idle \/ calls[th] \in [key : Keys, at : Rate!Times]
  BY DEF RateInv, RateCall
<1> QED BY <1>1, <1>2 DEF RateInv, Rate!TypeOK

\* The sums of RateLimit are the ones above.
LEMMA SumsRate ==
  ASSUME NEW f, NEW S PROVE Rate!MapThenSumSet(LAMBDA x : f[x], S) = SumOver(f, S)
BY DEF Rate!MapThenSumSet, Rate!MapThenFoldSet, SumOver, Summed, Chosen

\* And the bound on what is admitted in any window.
LEMMA RateBounds == RateInv => Rate!AttemptsBounded
<1> SUFFICES ASSUME RateInv, NEW k \in Keys \ past.crowded, NEW t \in Rate!Times
             PROVE  Rate!MapThenSumSet(LAMBDA x : past.admitted[k][x], Span(t))
                      <= 2 * MaxAttempts + Cardinality(Threads) - 2
  <2>1. Rate!Cardinality(Threads) = Cardinality(Threads)
    BY DEF Rate!Cardinality, Cardinality
  <2>2. \A t : {x \in Rate!Times : t <= x /\ x < t + Window} = Span(t)
    BY DEF Span
  <2> HIDE DEF Rate!MapThenSumSet
  <2> QED BY <2>1, <2>2 DEF Rate!AttemptsBounded
<1>1. /\ Held(table, k, past.admitted[k], calls) /\ past.admitted[k] \in Counts
      /\ MaxAttempts \in Nat \ {0} /\ Cardinality(Threads) \in Nat \ {0}
  BY RateSizes DEF RateInv, RateHistory
<1>2. SumOver(past.admitted[k], Span(t)) <= 2 * MaxAttempts + Cardinality(Threads) - 2
  <2>1. CASE \A i \in 1..Len(table) : table[i].key # k
    <3>1. \A x \in Rate!Times : past.admitted[k][x] = 0
      BY <1>1, <2>1 DEF Held
    <3>2. Span(t) \in SUBSET Rate!Times /\ IsFiniteSet(Span(t))
      BY <1>1, Spans
    <3>3. \A x \in Span(t) : past.admitted[k][x] = 0
      BY <3>1, <3>2
    <3>4. SumOver(past.admitted[k], Span(t)) = 0
      BY <3>2, <3>3, SumNothing
    <3> QED BY <1>1, <3>4
  <2>2. ASSUME NEW i \in 1..Len(table), table[i].key = k
        PROVE  SumOver(past.admitted[k], Span(t)) <= 2 * MaxAttempts + Cardinality(Threads) - 2
    <3> DEFINE f == past.admitted[k]
               s == table[i].start
               c == table[i].count
    <3>1. Limited(f, k, s, c, calls) /\ s \in Rate!Times /\ c \in 1..MaxAttempts + 1 /\ f \in Counts
      BY <1>1, <2>2, Bucketed DEF Held
    <3> HIDE DEF f, s, c
    <3>2. SumOver(f, Span(t)) <= 2 * MaxAttempts + Cardinality(Threads) - 2
      BY <3>1, LimitedBounds
    <3> QED BY <3>2 DEF f
  <2> QED BY <2>1, <2>2
<1>3. Rate!MapThenSumSet(LAMBDA x : past.admitted[k][x], Span(t))
        = SumOver(past.admitted[k], Span(t))
  BY SumsRate
<1> HIDE DEF Rate!MapThenSumSet
<1> QED BY <1>2, <1>3

-----------------------------------------------------------------------------

\* An interval is finite.
LEMMA IntervalFinite == ASSUME NEW n \in Int PROVE IsFiniteSet(1..n)
BY FS_Interval

\* The assumptions on the constants of GoogleStates.
LEMMA GoogleSizes ==
  /\ MaxTime.google \in Nat /\ StateTTL \in Nat /\ MaxPending \in Nat /\ MaxStates \in Nat
  /\ IsFiniteSet(Threads)
BY SizesOK DEF SizesOK, Components

-----------------------------------------------------------------------------
\* GoogleStates.

\* Each instance has the operators of the standard modules under its own name.
LEMMA GoogleCardinality == \A S : Google!Cardinality(S) = Cardinality(S)
BY DEF Google!Cardinality, Cardinality

\* A state held has not been accepted, and is dated as it was issued; none is accepted
\* twice, nor before it is issued, nor late.
GoogleOnce ==
  /\ \A s \in Google!Held : past.accepted[s] = 0 /\ table[s] = past.at[s]
  /\ \A s \in Google!States : past.accepted[s] <= 1 /\ (s > past.issued => past.accepted[s] = 0)
  /\ past.late = {}

\* A request that has scanned the table knows all there is in it from before its cutoff:
\* what is stored meanwhile is younger.
Pruned(q) ==
  /\ q.stage \in {"scanning", "pruning", "claiming"} => q.cutoff <= now
  /\ q.stage = "pruning" => \A s \in Google!Held : table[s] < q.cutoff => s \in q.expired
  /\ q.stage = "claiming" => q.state # 0 /\ \A s \in Google!Held : table[s] >= q.cutoff

GoogleInv == Google!TypeOK /\ GoogleOnce /\ \A th \in Threads : Pruned(calls[th])

\* A request that has not begun.
LEMMA GoogleIdle == Google!Idle \in Google!Request /\ Google!Idle.stage = "idle"
BY DEF Google!Idle, Google!Request

GoogleTally == [issued : 0..MaxStates, at : [Google!States -> Google!Times],
                accepted : [Google!States -> Nat], late : SUBSET Google!States]

\* The history has its type, field by field.
LEMMA GooglePast ==
  ASSUME Google!TypeOK
  PROVE  /\ past.issued \in 0..MaxStates /\ past.at \in [Google!States -> Google!Times]
         /\ past.accepted \in [Google!States -> Nat] /\ past.late \in SUBSET Google!States
         /\ past \in GoogleTally
BY DEF Google!TypeOK, GoogleTally

\* What Store and ConsumeState, in time, make of the history, and BeginScan and Store of
\* the request.
LEMMA GoogleIssue ==
  ASSUME past \in GoogleTally, NEW new \in 0..MaxStates, new \in Google!States,
         now \in Google!Times, past' = [past EXCEPT !.issued = new, !.at[new] = now]
  PROVE  /\ past' \in GoogleTally /\ past'.issued = new /\ past'.at = [past.at EXCEPT ![new] = now]
         /\ past'.accepted = past.accepted /\ past'.late = past.late
BY DEF GoogleTally

Counted(p, s, n, l) == [p EXCEPT !.accepted[s] = n, !.late = l]

\* A state counted as accepted.
LEMMA GoogleCount ==
  ASSUME NEW p \in GoogleTally, NEW s \in Google!States, NEW n \in Nat,
         NEW l \in SUBSET Google!States
  PROVE  /\ Counted(p, s, n, l) \in GoogleTally
         /\ Counted(p, s, n, l).issued = p.issued /\ Counted(p, s, n, l).at = p.at
         /\ Counted(p, s, n, l).late = l
         /\ Counted(p, s, n, l).accepted = [p.accepted EXCEPT ![s] = n]
BY DEF GoogleTally, Counted

\* The same in time: none is late.
LEMMA GoogleAccept ==
  ASSUME past \in GoogleTally, NEW s \in Google!States, NEW cutoff,
         past.accepted[s] = 0, ~(past.at[s] < cutoff),
         past' = [past EXCEPT !.accepted[s] = @ + 1,
                              !.late = IF past.at[s] < cutoff THEN @ \cup {s} ELSE @]
  PROVE  /\ past' \in GoogleTally /\ past'.issued = past.issued /\ past'.at = past.at
         /\ past'.late = past.late
         /\ past'.accepted = [past.accepted EXCEPT ![s] = 1]
<1>1. past' = Counted(past, s, 1, past.late)
  BY DEF GoogleTally, Counted
<1>2. 1 \in Nat /\ past.late \in SUBSET Google!States
  BY DEF GoogleTally
<1>3. /\ Counted(past, s, 1, past.late) \in GoogleTally
      /\ Counted(past, s, 1, past.late).issued = past.issued
      /\ Counted(past, s, 1, past.late).at = past.at
      /\ Counted(past, s, 1, past.late).late = past.late
      /\ Counted(past, s, 1, past.late).accepted = [past.accepted EXCEPT ![s] = 1]
  BY <1>2, GoogleCount
<1> QED BY <1>1, <1>3

Scanning(s, c, n) ==
  [Google!Idle EXCEPT !.stage = "scanning", !.state = s, !.cutoff = c, !.size = n]

\* A request that begins to scan.
LEMMA GoogleScanning ==
  ASSUME NEW s \in Google!States \cup {0}, NEW c \in Int, NEW n \in Nat, NEW r, r = Scanning(s, c, n)
  PROVE  r \in Google!Request /\ r.stage = "scanning" /\ r.cutoff = c
BY DEF Scanning, Google!Idle, Google!Request

\* A request that goes on to trim.
LEMMA GoogleTrimming ==
  ASSUME NEW q \in Google!Request, NEW c \in Int
  PROVE  LET r == [q EXCEPT !.stage = "trimming", !.cutoff = c]
         IN  r \in Google!Request /\ r.stage = "trimming"
BY DEF Google!Request

\* The fields of a request.
LEMMA GoogleRequest ==
  ASSUME NEW q \in Google!Request
  PROVE  /\ q.state \in Google!States \cup {0} /\ q.cutoff \in Int /\ q.size \in Nat
         /\ q.expired \in SUBSET Google!States
BY DEF Google!Request

\* GoogleStates begins in its invariant.
LEMMA GoogleInit == Google!Init => GoogleInv
<1> SUFFICES ASSUME Google!Init PROVE GoogleInv
  OBVIOUS
<1>1. /\ now = 0 /\ Google!Held = {} /\ past.issued = 0 /\ past.late = {}
      /\ \A s \in Google!States : past.accepted[s] = 0
      /\ calls = [th \in Threads |-> Google!Idle]
  BY DEF Google!Init, Google!Held
<1>2. past \in GoogleTally
  BY GoogleSizes DEF Google!Init, Google!Times, Google!States, GoogleTally
<1>3. Google!TypeOK
  BY <1>1, <1>2, GoogleIdle, GoogleSizes DEF Google!TypeOK, GoogleTally, Google!Times, Google!Init, Google!Held
<1>4. \A th \in Threads : Pruned(calls[th])
  BY <1>1, GoogleIdle DEF Pruned
<1> QED BY <1>1, <1>3, <1>4 DEF GoogleInv, GoogleOnce

\* What is held is finite.
LEMMA GoogleFinite ==
  ASSUME Google!TypeOK
  PROVE  IsFiniteSet(Google!Held) /\ Cardinality(Google!Held) \in Nat
<1>1. past.issued \in Int /\ Google!Held \subseteq 1..past.issued
  BY DEF Google!TypeOK
<1>2. IsFiniteSet(1..past.issued)
  BY <1>1, IntervalFinite
<1> QED BY <1>1, <1>2, FS_Subset, FS_CardinalityType

\* A step of one request that takes states from the table, or none.
LEMMA GoogleDrops ==
  ASSUME GoogleInv, NEW th \in Threads, NEW r \in Google!Request, NEW S,
         table' = Google!Without(S), calls' = [calls EXCEPT ![th] = r],
         UNCHANGED <<now, past>>,
         r.stage \in {"scanning", "pruning", "claiming"} => r.cutoff <= now,
         r.stage = "pruning" => \A s \in Google!Held \ S : table[s] < r.cutoff => s \in r.expired,
         r.stage = "claiming" =>
           r.state # 0 /\ \A s \in Google!Held \ S : table[s] >= r.cutoff
  PROVE  GoogleInv'
<1>1. /\ Google!Held' = Google!Held \ S
      /\ \A s \in Google!Held' : s \in Google!Held /\ table'[s] = table[s]
      /\ table \in [Google!Held -> Google!Times] => table' \in [Google!Held' -> Google!Times]
  BY DEF Google!Without, Google!Held
<1>2. Google!TypeOK'
  BY <1>1 DEF GoogleInv, Google!TypeOK
<1>3. GoogleOnce'
  BY <1>1 DEF GoogleInv, GoogleOnce
<1>4. ASSUME NEW o \in Threads PROVE Pruned(calls[o])'
  <2>1. CASE o = th
    <3>1. calls'[o] = r
      BY <2>1 DEF GoogleInv, Google!TypeOK
    <3> QED BY <1>1, <3>1 DEF Pruned
  <2>2. CASE o # th
    <3>1. calls'[o] = calls[o] /\ Pruned(calls[o])
      BY <2>2 DEF GoogleInv, Google!TypeOK
    <3> QED BY <1>1, <3>1 DEF Pruned
  <2> QED BY <2>1, <2>2
<1> QED BY <1>2, <1>3, <1>4 DEF GoogleInv

\* A step of one request that leaves the table alone.
LEMMA GoogleMoves ==
  ASSUME GoogleInv, NEW th \in Threads, NEW r \in Google!Request,
         calls' = [calls EXCEPT ![th] = r], UNCHANGED <<now, table, past>>,
         r.stage \in {"scanning", "pruning", "claiming"} => r.cutoff <= now,
         r.stage = "pruning" => \A s \in Google!Held : table[s] < r.cutoff => s \in r.expired,
         r.stage # "claiming"
  PROVE  GoogleInv'
<1>1. table = Google!Without({})
  BY DEF Google!Without, Google!Held, GoogleInv, Google!TypeOK
<1> QED BY <1>1, GoogleDrops

\* A request that is done.
LEMMA GoogleDone ==
  ASSUME GoogleInv, NEW th \in Threads, Google!Done(th), UNCHANGED <<now, table, past>>
  PROVE  GoogleInv'
BY GoogleIdle, GoogleMoves DEF Google!Done

\* Every step of GoogleStates keeps its invariant.
LEMMA GoogleStep == GoogleInv /\ [Google!Next]_Google!vars => GoogleInv'
<1> SUFFICES ASSUME GoogleInv, [Google!Next]_Google!vars PROVE GoogleInv'
  OBVIOUS
<1>0. /\ now \in Int /\ calls \in [Threads -> Google!Request]
      /\ past.issued \in Int /\ Google!Held \subseteq Google!States
  BY GoogleSizes DEF GoogleInv, Google!TypeOK, Google!Times, Google!States
<1>1. CASE UNCHANGED Google!vars
  BY <1>1 DEF Google!vars, GoogleInv, Google!TypeOK, Google!Held, GoogleOnce, Pruned
<1>2. ASSUME NEW th \in Threads, NEW s \in Google!States \cup {0}, Google!BeginScan(th, s)
      PROVE  GoogleInv'
  <2> DEFINE r == [Google!Idle EXCEPT !.stage = "scanning", !.state = s,
                     !.cutoff = now - StateTTL, !.size = Google!Cardinality(Google!Held)]
  <2>1. Google!Cardinality(Google!Held) \in Nat /\ StateTTL \in Nat
    BY GoogleFinite, GoogleSizes, GoogleCardinality DEF GoogleInv
  <2>2. r \in Google!Request /\ r.stage = "scanning" /\ r.cutoff <= now
    <3>1. now - StateTTL \in Int /\ now - StateTTL <= now
      BY <1>0, <2>1
    <3>2. PICK c \in Int, n \in Nat :
            c = now - StateTTL /\ n = Google!Cardinality(Google!Held)
      BY <2>1, <3>1
    <3>3. r = Scanning(s, c, n)
      BY <3>2 DEF Scanning
    <3> HIDE DEF r
    <3>4. r \in Google!Request /\ r.stage = "scanning" /\ r.cutoff = c
      BY <3>3, GoogleScanning
    <3> QED BY <3>1, <3>2, <3>4
  <2>3. calls' = [calls EXCEPT ![th] = r] /\ UNCHANGED <<now, table, past>>
    BY <1>2 DEF Google!BeginScan, Google!At
  <2> HIDE DEF r
  <2> QED BY <2>2, <2>3, GoogleMoves
<1>3. ASSUME NEW th \in Threads, Google!EndScan(th) PROVE GoogleInv'
  <2> DEFINE q == calls[th]
             r == [q EXCEPT !.stage = "pruning", !.expired = Google!Expired(q.cutoff)]
  <2>1. UNCHANGED <<now, table, past>> /\ q.stage = "scanning"
        /\ (Google!Done(th) \/ calls' = [calls EXCEPT ![th] = r])
    BY <1>0, <1>3 DEF Google!EndScan, Google!At, Google!Request
  <2>2. Google!Expired(q.cutoff) = {s \in Google!Held : table[s] < q.cutoff}
    BY DEF Google!Expired
  <2>3. r \in Google!Request /\ r.stage = "pruning" /\ r.cutoff = q.cutoff
        /\ r.expired = Google!Expired(q.cutoff)
    BY <1>0, <2>2 DEF Google!Request
  <2>4. q.cutoff <= now
    BY <2>1 DEF GoogleInv, Pruned
  <2> HIDE DEF q, r
  <2> QED BY <2>1, <2>2, <2>3, <2>4, GoogleDone, GoogleMoves
<1>4. ASSUME NEW th \in Threads, Google!PopExpired(th) PROVE GoogleInv'
  <2> DEFINE q == calls[th]
             r == [q EXCEPT !.stage = IF q.state = 0 THEN "storing" ELSE "claiming",
                            !.expired = {}, !.size = 0]
  <2>1. UNCHANGED <<now, past>> /\ q.stage = "pruning" /\ table' = Google!Without(q.expired)
        /\ calls' = [calls EXCEPT ![th] = r]
    BY <1>0, <1>4 DEF Google!PopExpired, Google!At, Google!Request
  <2>2. r \in Google!Request /\ r.cutoff = q.cutoff /\ r.state = q.state
        /\ r.stage \in {"storing", "claiming"} /\ (r.stage = "claiming" => q.state # 0)
    BY <1>0 DEF Google!Request
  <2>3. /\ q.cutoff <= now /\ q.cutoff \in Int
        /\ \A s \in Google!Held : table[s] < q.cutoff => s \in q.expired
        /\ \A s \in Google!Held : table[s] \in Int
    BY <1>0, <2>1 DEF GoogleInv, Pruned, Google!TypeOK, Google!Request, Google!Times
  <2> HIDE DEF q, r
  <2>4. \A s \in Google!Held \ q.expired : table[s] >= r.cutoff
    BY <2>2, <2>3
  <2> QED BY <2>1, <2>2, <2>3, <2>4, GoogleDrops
<1>5. ASSUME NEW th \in Threads, Google!Store(th) PROVE GoogleInv'
  <2> DEFINE new == past.issued + 1
             r == [calls[th] EXCEPT !.stage = "trimming", !.cutoff = 0]
  <2>1. /\ UNCHANGED now /\ past.issued < MaxStates /\ calls' = [calls EXCEPT ![th] = r]
        /\ Google!Held' = Google!Held \cup {new}
        /\ table' = [s \in Google!Held \cup {new} |-> IF s = new THEN now ELSE table[s]]
        /\ past' = [past EXCEPT !.issued = new, !.at[new] = now]
    BY <1>0, <1>5 DEF Google!Store, Google!Held, Google!Request
  <2>2. r \in Google!Request /\ r.stage = "trimming"
    BY <1>0, 0 \in Int, GoogleTrimming
  <2>3. /\ new \in Google!States /\ new \notin Google!Held /\ now \in Google!Times
        /\ Google!Held \subseteq 1..past.issued
    BY <1>0, <2>1, GoogleSizes DEF Google!States, GoogleInv, Google!TypeOK
  <2>4. /\ past'.issued = new /\ past'.accepted = past.accepted /\ past'.late = past.late
        /\ past'.at = [past.at EXCEPT ![new] = now]
        /\ past' \in GoogleTally
    <3>1. new \in 0..MaxStates /\ past \in GoogleTally
      BY <2>3, GooglePast, GoogleSizes DEF GoogleInv, Google!States
    <3>2. past' = [past EXCEPT !.issued = new, !.at[new] = now]
      BY <2>1
    <3> HIDE DEF new
    <3> QED BY <2>3, <3>1, <3>2, GoogleIssue
  <2> HIDE DEF r
  <2>5. Google!TypeOK'
    BY <1>0, <2>1, <2>2, <2>3, <2>4 DEF GoogleInv, Google!TypeOK, GoogleTally, Google!Times
  <2>6. GoogleOnce'
    <3>1. ASSUME NEW s \in Google!Held' PROVE past'.accepted[s] = 0 /\ table'[s] = past'.at[s]
      BY <1>0, <2>1, <2>3, <2>4 DEF GoogleInv, GoogleOnce, Google!TypeOK
    <3>2. \A s \in Google!States : past'.accepted[s] <= 1
                                   /\ (s > past'.issued => past'.accepted[s] = 0)
      BY <1>0, <2>4 DEF GoogleInv, GoogleOnce, Google!States
    <3> QED BY <3>1, <3>2, <2>4 DEF GoogleInv, GoogleOnce
  <2>7. ASSUME NEW o \in Threads PROVE Pruned(calls[o])'
    <3>1. CASE o = th
      <4>1. calls'[o] = r
        BY <3>1, <2>1, <1>0
      <4> QED BY <4>1, <2>2 DEF Pruned
    <3>2. CASE o # th
      <4>1. calls'[o] = calls[o] /\ Pruned(calls[o]) /\ calls[o].cutoff \in Int
        BY <3>2, <2>1, <1>0 DEF GoogleInv, Google!Request
      <4>2. \A s \in Google!Held' : table'[s] = IF s = new THEN now ELSE table[s]
        BY <2>1
      <4> QED BY <1>0, <2>1, <4>1, <4>2 DEF Pruned
    <3> QED BY <3>1, <3>2
  <2> QED BY <2>5, <2>6, <2>7 DEF GoogleInv
<1>6. ASSUME NEW th \in Threads, Google!TestSize(th) \/ Google!PickOldest(th) PROVE GoogleInv'
  <2>1. /\ UNCHANGED <<now, table, past>>
        /\ \/ Google!Done(th)
           \/ \E s \in Google!Held \cup {calls[th].state}, stage \in {"picking", "dropping"} :
                calls' = [calls EXCEPT ![th] = [calls[th] EXCEPT !.stage = stage, !.state = s]]
    <3>1. CASE Google!TestSize(th)
      <4>1. calls[th] = [calls[th] EXCEPT !.state = calls[th].state]
        BY <1>0 DEF Google!Request
      <4>2. [calls EXCEPT ![th].stage = "picking"]
              = [calls EXCEPT ![th] = [calls[th] EXCEPT !.stage = "picking", !.state = calls[th].state]]
        BY <1>0 DEF Google!Request
      <4> QED BY <3>1, <4>2 DEF Google!TestSize, Google!Goto
    <3>2. CASE Google!PickOldest(th)
      BY <1>0, <3>2 DEF Google!PickOldest, Google!Request
    <3> QED BY <1>6, <3>1, <3>2
  <2>2. ASSUME NEW s \in Google!Held \cup {calls[th].state}, NEW stage \in {"picking", "dropping"},
               calls' = [calls EXCEPT ![th] = [calls[th] EXCEPT !.stage = stage, !.state = s]]
        PROVE  GoogleInv'
    <3> DEFINE r == [calls[th] EXCEPT !.stage = stage, !.state = s]
    <3>1. r \in Google!Request /\ r.stage = stage
      BY <1>0 DEF Google!Request
    <3>2. calls' = [calls EXCEPT ![th] = r]
      BY <2>2
    <3> HIDE DEF r
    <3> QED BY <2>1, <3>1, <3>2, GoogleMoves
  <2> QED BY <2>1, <2>2, GoogleDone
<1>7. ASSUME NEW th \in Threads, Google!DropOldest(th) PROVE GoogleInv'
  <2> DEFINE r == [Google!Idle EXCEPT !.stage = "trimming"]
  <2>1. r \in Google!Request /\ r.stage = "trimming"
    BY DEF Google!Idle, Google!Request
  <2>2. /\ UNCHANGED <<now, past>> /\ calls' = [calls EXCEPT ![th] = r]
        /\ table' = Google!Without({calls[th].state})
    BY <1>7 DEF Google!DropOldest, Google!AfterDrop
  <2> HIDE DEF r
  <2> QED BY <2>1, <2>2, GoogleDrops
<1>8. ASSUME NEW th \in Threads, Google!ConsumeState(th) PROVE GoogleInv'
  <2> DEFINE s == calls[th].state
  <2>1. /\ calls[th].stage = "claiming" /\ UNCHANGED now
        /\ table' = Google!Without({s}) /\ calls' = [calls EXCEPT ![th] = Google!Idle]
    BY <1>8 DEF Google!ConsumeState, Google!At, Google!Done, Google!Claimed
  <2>2. \A t \in Google!Held : table[t] >= calls[th].cutoff
    BY <2>1 DEF GoogleInv, Pruned
  <2>3. CASE s \notin Google!Held
    <3>1. UNCHANGED past
      BY <1>8, <2>3 DEF Google!ConsumeState
    <3> QED BY <2>1, <3>1, GoogleIdle, GoogleDrops
  <2>4. CASE s \in Google!Held
    <3>1. s \in Google!States /\ past.accepted[s] = 0 /\ ~(past.at[s] < calls[th].cutoff)
      <4>1. past.at[s] = table[s] /\ table[s] >= calls[th].cutoff
        BY <2>2, <2>4 DEF GoogleInv, GoogleOnce
      <4>2. table[s] \in Int /\ calls[th].cutoff \in Int
        <5>1. table[s] \in Google!Times /\ calls[th] \in Google!Request
          BY <1>0, <2>4 DEF GoogleInv, Google!TypeOK
        <5> QED BY <5>1, GoogleSizes, GoogleRequest DEF Google!Times
      <4> QED BY <1>0, <2>4, <4>1, <4>2 DEF GoogleInv, GoogleOnce
    <3>2. past' = [past EXCEPT !.accepted[s] = @ + 1,
                               !.late = IF past.at[s] < calls[th].cutoff
                                          THEN @ \cup {s} ELSE @]
      BY <1>8, <2>4 DEF Google!ConsumeState
    <3>3. /\ past'.issued = past.issued /\ past'.at = past.at /\ past'.late = past.late
          /\ past'.accepted = [past.accepted EXCEPT ![s] = 1]
          /\ past' \in GoogleTally
      <4> HIDE DEF s
      <4> QED BY <3>1, <3>2, GooglePast, GoogleAccept DEF GoogleInv
    <3>4. /\ Google!Held' = Google!Held \ {s}
          /\ \A t \in Google!Held' : table'[t] = table[t]
          /\ table' \in [Google!Held' -> Google!Times]
      BY <2>1 DEF Google!Without, Google!Held, GoogleInv, Google!TypeOK
    <3>5. Google!TypeOK'
      BY <2>1, <3>3, <3>4, GoogleIdle DEF GoogleInv, Google!TypeOK, GoogleTally, Google!Times
    <3>6. GoogleOnce'
      <4>1. s <= past.issued
        <5>1. s \in 1..past.issued
          BY <2>4 DEF GoogleInv, Google!TypeOK
        <5> QED BY <5>1, <1>0
      <4>2. past.accepted \in [Google!States -> Nat]
        BY DEF GoogleInv, Google!TypeOK
      <4>3. \A t \in Google!States : past'.accepted[t] = IF t = s THEN 1 ELSE past.accepted[t]
        BY <3>3, <4>2
      <4> HIDE DEF s
      <4>4. ASSUME NEW t \in Google!Held' PROVE past'.accepted[t] = 0 /\ table'[t] = past'.at[t]
        BY <1>0, <3>3, <3>4, <4>3 DEF GoogleInv, GoogleOnce
      <4>5. ASSUME NEW t \in Google!States
            PROVE  past'.accepted[t] <= 1 /\ (t > past'.issued => past'.accepted[t] = 0)
        BY <1>0, <3>3, <4>1, <4>3 DEF GoogleInv, GoogleOnce, Google!States
      <4>6. past'.late = {}
        BY <3>3 DEF GoogleInv, GoogleOnce
      <4> QED BY <4>4, <4>5, <4>6 DEF GoogleOnce
    <3>7. ASSUME NEW o \in Threads PROVE Pruned(calls[o])'
      <4>1. CASE o = th
        <5>1. calls'[o] = Google!Idle
          BY <4>1, <2>1, <1>0
        <5> QED BY <5>1, GoogleIdle DEF Pruned
      <4>2. CASE o # th
        <5>1. calls'[o] = calls[o] /\ Pruned(calls[o])
          BY <4>2, <2>1, <1>0 DEF GoogleInv
        <5> QED BY <2>1, <3>4, <5>1 DEF Pruned
      <4> QED BY <4>1, <4>2
    <3> QED BY <3>5, <3>6, <3>7 DEF GoogleInv
  <2> QED BY <2>3, <2>4
<1>9. CASE Google!Restart
  <2>1. /\ Google!Held' = {} /\ UNCHANGED <<now, past>>
        /\ calls' = [th \in Threads |-> Google!Idle] /\ table' = [s \in {} |-> 0]
    BY <1>9 DEF Google!Restart, Google!Held
  <2>2. Google!TypeOK'
    BY <2>1, GoogleIdle DEF GoogleInv, Google!TypeOK, Google!Times
  <2>3. \A th \in Threads : Pruned(calls[th])'
    BY <2>1, GoogleIdle DEF Pruned
  <2> QED BY <2>1, <2>2, <2>3 DEF GoogleInv, GoogleOnce
<1>10. CASE Google!Tick
  <2>1. now' = now + 1 /\ now' \in Google!Times /\ UNCHANGED <<table, calls, past>>
    BY <1>0, <1>10, GoogleSizes DEF Google!Tick, GoogleInv, Google!TypeOK, Google!Times
  <2>2. Google!TypeOK' /\ GoogleOnce'
    BY <2>1 DEF GoogleInv, Google!TypeOK, Google!Held, GoogleOnce, Google!Times
  <2>3. ASSUME NEW th \in Threads PROVE Pruned(calls[th])'
    <3>1. Pruned(calls[th]) /\ calls[th].cutoff \in Int
      BY <1>0 DEF GoogleInv, Google!Request
    <3> QED BY <1>0, <2>1, <3>1 DEF Pruned, Google!Held
  <2> QED BY <2>2, <2>3 DEF GoogleInv
<1> QED BY <1>1, <1>2, <1>3, <1>4, <1>5, <1>6, <1>7, <1>8, <1>9, <1>10 DEF Google!Next

\* The requests in their loop over the cap.
Loopers == {th \in Threads : calls[th].stage \in {"trimming", "picking", "dropping"}}

\* The set whose number PendingBounded bounds, and the numbers it compares, now and next.
LEMMA GoogleNumbers ==
  ASSUME Google!TypeOK, Google!TypeOK'
  PROVE  /\ IsFiniteSet(Google!Held) /\ IsFiniteSet(Google!Held')
         /\ IsFiniteSet(Loopers) /\ IsFiniteSet(Loopers')
         /\ Cardinality(Google!Held) \in Nat /\ Cardinality(Google!Held') \in Nat
         /\ Cardinality(Loopers) \in Nat /\ Cardinality(Loopers') \in Nat
         /\ Google!PendingBounded
              <=> Cardinality(Google!Held) <= MaxPending + Cardinality(Loopers)
         /\ Google!PendingBounded'
              <=> Cardinality(Google!Held') <= MaxPending + Cardinality(Loopers')
<1>1. /\ past.issued \in Int /\ Google!Held \subseteq 1..past.issued
      /\ past'.issued \in Int /\ Google!Held' \subseteq 1..past'.issued
  BY DEF Google!TypeOK
<1>2. IsFiniteSet(Google!Held) /\ IsFiniteSet(Google!Held')
  BY <1>1, IntervalFinite, FS_Subset
<1>3. IsFiniteSet(Loopers) /\ IsFiniteSet(Loopers')
  BY GoogleSizes, FS_Subset DEF Loopers
<1>4. Google!PendingBounded
        <=> Cardinality(Google!Held) <= MaxPending + Cardinality(Loopers)
  BY GoogleCardinality DEF Google!PendingBounded, Loopers
<1>5. Google!PendingBounded'
        <=> Cardinality(Google!Held') <= MaxPending + Cardinality(Loopers')
  BY GoogleCardinality DEF Google!PendingBounded, Loopers
<1> QED BY <1>2, <1>3, <1>4, <1>5, FS_CardinalityType

\* Nothing is added, and no request leaves its loop.
LEMMA GoogleStays ==
  ASSUME GoogleInv, GoogleInv', Google!PendingBounded,
         Google!Held' \subseteq Google!Held, Loopers \subseteq Loopers'
  PROVE  Google!PendingBounded'
<1>1. Google!TypeOK /\ Google!TypeOK'
  BY DEF GoogleInv
<1>2. Cardinality(Google!Held') <= Cardinality(Google!Held)
  BY <1>1, GoogleNumbers, FS_Subset
<1>3. Cardinality(Loopers) <= Cardinality(Loopers')
  BY <1>1, GoogleNumbers, FS_Subset
<1> QED BY <1>1, <1>2, <1>3, GoogleNumbers, GoogleSizes

\* And the cap of its table: a request that leaves the loop found it within the cap.
LEMMA GoogleBounded ==
  ASSUME GoogleInv, GoogleInv', Google!PendingBounded, [Google!Next]_Google!vars
  PROVE  Google!PendingBounded'
<1>0. calls \in [Threads -> Google!Request] /\ Google!TypeOK /\ Google!TypeOK'
  BY DEF GoogleInv, Google!TypeOK
<1>1. CASE UNCHANGED Google!vars
  BY <1>1, GoogleStays DEF Google!vars, Google!Held, Loopers
<1>2. ASSUME NEW th \in Threads, NEW s \in Google!States \cup {0}, Google!BeginScan(th, s)
      PROVE  Google!PendingBounded'
  BY <1>0, <1>2, GoogleStays DEF Google!BeginScan, Google!At, Loopers, Google!Held
<1>3. ASSUME NEW th \in Threads, Google!EndScan(th) PROVE Google!PendingBounded'
  BY <1>0, <1>3, GoogleStays DEF Google!EndScan, Google!At, Google!Done, Loopers, Google!Held
<1>4. ASSUME NEW th \in Threads, Google!PopExpired(th) PROVE Google!PendingBounded'
  <2>1. Google!Held' \subseteq Google!Held
    BY <1>4 DEF Google!PopExpired, Google!Held, Google!Without
  <2>2. Loopers \subseteq Loopers'
    BY <1>0, <1>4 DEF Google!PopExpired, Google!At, Loopers
  <2> QED BY <2>1, <2>2, GoogleStays
<1>5. ASSUME NEW th \in Threads, Google!Store(th) PROVE Google!PendingBounded'
  <2> DEFINE new == past.issued + 1
  <2>1. Google!Held' = Google!Held \cup {new}
    BY <1>5 DEF Google!Store, Google!Held
  <2>2. th \notin Loopers /\ Loopers' = Loopers \cup {th}
    BY <1>0, <1>5 DEF Google!Store, Google!At, Loopers
  <2> HIDE DEF new
  <2>3. Cardinality(Google!Held') <= Cardinality(Google!Held) + 1
    BY <1>0, <2>1, FS_AddElement, GoogleNumbers
  <2>4. Cardinality(Loopers') = Cardinality(Loopers) + 1
    BY <1>0, <2>2, FS_AddElement, GoogleNumbers
  <2> QED BY <1>0, <2>3, <2>4, GoogleSizes, GoogleNumbers
<1>6. ASSUME NEW th \in Threads, Google!TestSize(th) PROVE Google!PendingBounded'
  <2>1. CASE Cardinality(Google!Held) > MaxPending
    <3>1. /\ calls' = [calls EXCEPT ![th].stage = "picking"]
          /\ Google!Held' = Google!Held
      BY <1>6, <2>1, GoogleCardinality DEF Google!TestSize, Google!Goto, Google!Held
    <3>2. Loopers \subseteq Loopers'
      BY <1>0, <3>1 DEF Loopers
    <3> QED BY <3>1, <3>2, GoogleStays
  <2>2. CASE ~(Cardinality(Google!Held) > MaxPending)
    <3>1. Google!Held' = Google!Held
      BY <1>6 DEF Google!TestSize, Google!Held
    <3>2. Cardinality(Google!Held') <= MaxPending
      BY <1>0, <2>2, <3>1, GoogleNumbers, GoogleSizes
    <3> QED BY <1>0, <3>2, GoogleNumbers, GoogleSizes
  <2> QED BY <2>1, <2>2
<1>7. ASSUME NEW th \in Threads, Google!PickOldest(th) PROVE Google!PendingBounded'
  <2>1. CASE Google!Held = {}
    <3>1. Cardinality(Google!Held') = 0
      BY <1>7, <2>1, FS_EmptySet DEF Google!PickOldest, Google!Held
    <3> QED BY <1>0, <3>1, GoogleNumbers, GoogleSizes
  <2>2. CASE Google!Held # {}
    <3>1. PICK s \in Google!Held :
            calls' = [calls EXCEPT ![th].stage = "dropping", ![th].state = s]
      BY <1>7, <2>2 DEF Google!PickOldest
    <3>2. Loopers \subseteq Loopers'
      BY <1>0, <3>1 DEF Loopers
    <3>3. Google!Held' = Google!Held
      BY <1>7 DEF Google!PickOldest, Google!Held
    <3> QED BY <3>2, <3>3, GoogleStays
  <2> QED BY <2>1, <2>2
<1>8. ASSUME NEW th \in Threads, Google!DropOldest(th) PROVE Google!PendingBounded'
  <2>1. Google!Held' \subseteq Google!Held
    BY <1>8 DEF Google!DropOldest, Google!Held, Google!Without
  <2>2. Loopers \subseteq Loopers'
    BY <1>0, <1>8 DEF Google!DropOldest, Google!At, Loopers, Google!AfterDrop
  <2> QED BY <2>1, <2>2, GoogleStays
<1>9. ASSUME NEW th \in Threads, Google!ConsumeState(th) PROVE Google!PendingBounded'
  <2>1. Google!Held' \subseteq Google!Held
    BY <1>9 DEF Google!ConsumeState, Google!Claimed, Google!Held, Google!Without
  <2>2. Loopers \subseteq Loopers'
    BY <1>0, <1>9 DEF Google!ConsumeState, Google!At, Google!Done, Loopers
  <2> QED BY <2>1, <2>2, GoogleStays
<1>10. CASE Google!Restart
  <2>1. Cardinality(Google!Held') = 0
    BY <1>10, FS_EmptySet DEF Google!Restart, Google!Held
  <2> QED BY <1>0, <2>1, GoogleNumbers, GoogleSizes
<1>11. CASE Google!Tick
  BY <1>11, GoogleStays DEF Google!Tick, Google!Held, Loopers
<1> QED BY <1>1, <1>2, <1>3, <1>4, <1>5, <1>6, <1>7, <1>8, <1>9, <1>10, <1>11 DEF Google!Next

\* An empty table is within its cap.
LEMMA GoogleBegins == Google!Init => Google!PendingBounded
<1> SUFFICES ASSUME Google!Init PROVE Google!PendingBounded
  OBVIOUS
<1>1. Cardinality(Google!Held) = 0
  BY FS_EmptySet DEF Google!Init, Google!Held
<1>2. IsFiniteSet(Loopers) /\ Cardinality(Loopers) \in Nat
  BY GoogleSizes, FS_Subset, FS_CardinalityType DEF Loopers
<1> QED BY <1>1, <1>2, GoogleSizes, GoogleCardinality DEF Google!PendingBounded, Loopers

-----------------------------------------------------------------------------
\* ProcessMemory: the invariant of the component exercised.
MemoryInv ==
  /\ focus \in Components
  /\ focus = "rate" => RateInv
  /\ focus = "google" => GoogleInv /\ Google!PendingBounded
  /\ focus = "documents" => DocumentsInv
  /\ focus = "access" => AccessInv
  /\ focus = "city" => CityInv
  /\ focus = "hooks" => HooksInv

\* One proof for all the properties below: each is a part of the invariant of its component.
LEMMA MemoryInit == Init => MemoryInv
<1>1. CASE focus = "rate" /\ Rate!Init
  BY <1>1, RateInit DEF MemoryInv, Components
<1>2. CASE focus = "google" /\ Google!Init
  BY <1>2, GoogleInit, GoogleBegins DEF MemoryInv, Components
<1>3. CASE focus = "documents" /\ Documents!Init
  BY <1>3, DocumentsBegin DEF MemoryInv, Components
<1>4. CASE focus = "access" /\ Access!CaaInit
  BY <1>4, AccessBegin DEF MemoryInv, Components
<1>5. CASE focus = "city" /\ City!Init
  BY <1>5, CityInit DEF MemoryInv, Components
<1>6. CASE focus = "hooks" /\ Hooks!Init
  BY <1>6, HooksInit DEF MemoryInv, Components
<1> QED BY <1>1, <1>2, <1>3, <1>4, <1>5, <1>6 DEF Init

\* A step that changes nothing keeps each of them.
LEMMA MemoryStays == ASSUME MemoryInv, UNCHANGED all PROVE MemoryInv'
<1>0. /\ focus' = focus /\ now' = now /\ table' = table /\ calls' = calls
      /\ rows' = rows /\ outside' = outside /\ past' = past
  BY DEF all
<1>1. CASE focus = "rate"
  <2>1. RateInv
    BY <1>1 DEF MemoryInv
  <2>2. RateInv'
    BY <1>0, <2>1 DEF RateInv, RateHistory
  <2> QED BY <1>0, <1>1, <2>2 DEF MemoryInv
<1>2. CASE focus = "google"
  <2>1. UNCHANGED Google!vars
    BY <1>0 DEF Google!vars
  <2>2. GoogleInv'
    BY <1>2, <2>1, GoogleStep DEF MemoryInv
  <2>3. Google!PendingBounded'
    BY <1>2, <2>1, <2>2, GoogleBounded DEF MemoryInv
  <2> QED BY <1>0, <1>2, <2>2, <2>3 DEF MemoryInv
<1>3. CASE focus = "documents"
  <2>1. DocumentsInv
    BY <1>3 DEF MemoryInv
  <2>2. DocumentsInv'
    BY <1>0, <2>1 DEF DocumentsInv, DocInv, DocTypes, DocHistory, DocCached, DocAsked, Known,
                      Documents!Replaced
  <2> QED BY <1>0, <1>3, <2>2 DEF MemoryInv
<1>4. CASE focus = "access"
  <2>1. UNCHANGED Access!caaVars
    BY <1>0 DEF Access!caaVars
  <2>2. AccessInv'
    BY <1>4, <2>1, AccessKeeps DEF MemoryInv
  <2> QED BY <1>0, <1>4, <2>2 DEF MemoryInv
<1>5. CASE focus = "city"
  <2>1. CityInv
    BY <1>5 DEF MemoryInv
  <2>2. CityInv'
    BY <1>0, <2>1 DEF CityInv
  <2> QED BY <1>0, <1>5, <2>2 DEF MemoryInv
<1>6. CASE focus = "hooks"
  <2>1. HooksInv
    BY <1>6 DEF MemoryInv
  <2>2. HooksInv'
    BY <1>0, <2>1 DEF HooksInv, Hooks!TypeOK
  <2> QED BY <1>0, <1>6, <2>2 DEF MemoryInv
<1> QED BY <1>1, <1>2, <1>3, <1>4, <1>5, <1>6 DEF MemoryInv, Components

\* Each component keeps its own invariant, and no step leaves the one exercised.
LEMMA MemoryStep == MemoryInv /\ [Next]_all => MemoryInv'
<1> SUFFICES ASSUME MemoryInv, [Next]_all PROVE MemoryInv'
  OBVIOUS
<1>1. CASE focus = "rate" /\ Rate!Next /\ UNCHANGED focus
  BY <1>1, RateStep DEF MemoryInv, Components
<1>2. CASE focus = "google" /\ Google!Next /\ UNCHANGED focus
  <2>1. GoogleInv'
    BY <1>2, GoogleStep DEF MemoryInv
  <2>2. Google!PendingBounded'
    BY <1>2, <2>1, GoogleBounded DEF MemoryInv
  <2> QED BY <1>2, <2>1, <2>2 DEF MemoryInv, Components
<1>3. CASE focus = "documents" /\ Documents!Next /\ UNCHANGED focus
  BY <1>3, DocumentsStep DEF MemoryInv, Components
<1>4. CASE focus = "access" /\ Access!CaaNext /\ UNCHANGED focus
  BY <1>4, AccessStep DEF MemoryInv, Components
<1>5. CASE focus = "city" /\ City!Next /\ UNCHANGED focus
  BY <1>5, CityStep DEF MemoryInv, Components
<1>6. CASE focus = "hooks" /\ Hooks!Next /\ UNCHANGED focus
  BY <1>6, HooksStep DEF MemoryInv, Components
<1>7. CASE UNCHANGED all
  BY <1>7, MemoryStays
<1> QED BY <1>1, <1>2, <1>3, <1>4, <1>5, <1>6, <1>7 DEF Next

\* The inductive invariant holds in every state (rate_limit.py, google_oauth.py, oauth/cimd.py,
\* oauth/cross_app_access.py, geoip.py, webhooks.py).
THEOREM MemoryInvariant == Spec => []MemoryInv
BY MemoryInit, MemoryStep, PTL DEF Spec

\* The tables, the requests and the rows of the component exercised have their types.
THEOREM TypesHold == Spec => []TypeOK
<1>1. MemoryInv => TypeOK
  BY RateType, DocumentsType, AccessType, CityType
     DEF MemoryInv, GoogleInv, HooksInv, TypeOK, Components
<1> QED BY MemoryInvariant, <1>1, PTL

\* Whatever the threads interleave, a key that no crowd of other keys pushed out of the table
\* is admitted, in any window's length, fewer times than two windows allow and one more for
\* each other thread (rate_limit.py:31-54).
THEOREM AttemptsAreBounded == Spec => []AttemptsBounded
<1>1. MemoryInv => AttemptsBounded
  BY RateBounds DEF MemoryInv, AttemptsBounded
<1> QED BY MemoryInvariant, <1>1, PTL

\* A state signs in once, and never in a request that began more than the TTL after it was
\* issued, whatever other threads prune and drop meanwhile (google_oauth.py:53-84).
THEOREM StatesAreAcceptedOnce == Spec => []StatesAcceptedOnce
<1>1. MemoryInv => StatesAcceptedOnce
  BY DEF MemoryInv, StatesAcceptedOnce, GoogleInv, GoogleOnce, Google!StatesAcceptedOnce
<1> QED BY MemoryInvariant, <1>1, PTL

\* The table holds no more states than its cap but for one of each request that is still in
\* the loop that drops the oldest (google_oauth.py:60-66).
THEOREM PendingIsBounded == Spec => []PendingBounded
<1>1. MemoryInv => PendingBounded
  BY DEF MemoryInv, PendingBounded
<1> QED BY MemoryInvariant, <1>1, PTL

\* A client's metadata document is used for no longer after its publisher replaced it than
\* the TTL and a fetch (oauth/cimd.py:73-110).
THEOREM DocumentsStayFresh == Spec => []DocumentsFresh
<1>1. MemoryInv => DocumentsFresh
  BY DocumentsAreFresh DEF MemoryInv, DocumentsFresh
<1> QED BY MemoryInvariant, <1>1, PTL

\* An identity provider's keys are looked up at the URL named for it, and a key that it
\* withdrew is honoured for no longer than the TTL and a fetch
\* (oauth/cross_app_access.py:63-102).
THEOREM KeysAreHonoured == Spec => []KeysHonoured
<1>1. MemoryInv => KeysHonoured
  BY AccessHonours DEF MemoryInv, KeysHonoured
<1> QED BY MemoryInvariant, <1>1, PTL

\* A page shows an address without a city only when a lookup of it failed less than the
\* negative TTL before the page was opened (geoip.py:62-133).
THEOREM AnswersAreHonest == Spec => []AnswersHonest
<1>1. MemoryInv => AnswersHonest
  BY CityIsHonest DEF MemoryInv, AnswersHonest
<1> QED BY MemoryInvariant, <1>1, PTL

\* An event is given up on only after all the pauses between the attempts have passed: a
\* receiver that is back before their sum misses nothing (webhooks.py:45-70).
THEOREM OutagesAreOutlived == Spec => []OutageOutlived
<1>1. MemoryInv => OutageOutlived
  BY HooksOutlive DEF MemoryInv, OutageOutlived
<1> QED BY MemoryInvariant, <1>1, PTL
=============================================================================
