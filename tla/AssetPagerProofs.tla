-------------------------- MODULE AssetPagerProofs --------------------------
(***************************************************************************)
(* The pager of the contact sheet, for every listing that its cache holds: *)
(* whatever is refreshed, restarted or fails while answers are on their    *)
(* way, the sheet takes for loaded what was read at one revision.          *)
(***************************************************************************)
EXTENDS AssetPager, SequenceTheorems, FiniteSetTheorems, WellFoundedInduction, TLAPS

-----------------------------------------------------------------------------
(* What one call after the other leaves.                                   *)

\* A set of numbers has a least one.
LEMMA LeastNumber ==
  ASSUME NEW T, T \subseteq Nat, T # {}
  PROVE  \E m \in T : \A k \in T : m <= k
<1>1. \E m \in T : \A k \in T : <<k, m>> \notin OpToRel(<, Nat)
  BY NatLessThanWellFounded, WFMin
<1>2. PICK m \in T : \A k \in T : <<k, m>> \notin OpToRel(<, Nat)
  BY <1>1
<1>3. ASSUME NEW k \in T, ~(m <= k) PROVE FALSE
  <2>1. k \in Nat /\ m \in Nat /\ k < m
    BY <1>3
  <2>2. <<k, m>> \in OpToRel(<, Nat)
    BY <2>1 DEF OpToRel
  <2> QED BY <1>2, <2>2
<1> QED BY <1>3

\* What each of these calls leaves, in their order.
Chain(calls, pg, later) ==
  calls = [k \in 0 .. Len(later) |->
             IF k = 0 THEN pg ELSE Loading(calls[k - 1], later[k], FALSE)]

\* What a chain of calls computes is there to be computed.
LEMMA CallsExist ==
  ASSUME NEW pg, NEW later, Len(later) \in Nat
  PROVE  \E calls : Chain(calls, pg, later)
<1> DEFINE Some(n) == \E calls : calls = [k \in 0 .. n |->
                        IF k = 0 THEN pg ELSE Loading(calls[k - 1], later[k], FALSE)]
<1> DEFINE T == {n \in Nat : ~Some(n)}
<1>1. Some(0)
  <2> DEFINE f == [k \in 0 .. 0 |-> pg]
  <2>1. f = [k \in 0 .. 0 |-> IF k = 0 THEN pg ELSE Loading(f[k - 1], later[k], FALSE)]
    OBVIOUS
  <2> HIDE DEF f
  <2> QED BY <2>1
<1>2. ASSUME NEW n \in Nat, Some(n) PROVE Some(n + 1)
  <2>1. PICK f : f = [k \in 0 .. n |-> IF k = 0 THEN pg ELSE Loading(f[k - 1], later[k], FALSE)]
    BY <1>2
  <2> DEFINE g == [k \in 0 .. n + 1 |-> IF k \in 0 .. n THEN f[k]
                                         ELSE Loading(f[n], later[n + 1], FALSE)]
  <2>2. ASSUME NEW k \in 0 .. n + 1
        PROVE  g[k] = IF k = 0 THEN pg ELSE Loading(g[k - 1], later[k], FALSE)
    <3>1. CASE k \in 0 .. n
      <4>1. g[k] = IF k = 0 THEN pg ELSE Loading(f[k - 1], later[k], FALSE)
        BY <2>1, <3>1
      <4>2. k # 0 => g[k - 1] = f[k - 1]
        BY <3>1
      <4> QED BY <4>1, <4>2
    <3>2. CASE k = n + 1
      <4>1. k \notin 0 .. n /\ k - 1 = n /\ n \in 0 .. n /\ n \in 0 .. n + 1 /\ k # 0
        BY <3>2
      <4>2. g[k] = Loading(f[n], later[n + 1], FALSE)
        BY <4>1
      <4>3. g[k - 1] = f[n]
        BY <4>1
      <4> QED BY <3>2, <4>1, <4>2, <4>3
    <3> QED BY <3>1, <3>2
  <2>3. g = [k \in 0 .. n + 1 |-> IF k = 0 THEN pg ELSE Loading(g[k - 1], later[k], FALSE)]
    <3>1. g = [k \in 0 .. n + 1 |-> g[k]]
      OBVIOUS
    <3> HIDE DEF g
    <3> QED BY <2>2, <3>1
  <2> HIDE DEF g
  <2> QED BY <2>3
<1> HIDE DEF Some
<1>3. T = {}
  <2> SUFFICES ASSUME T # {} PROVE FALSE
    OBVIOUS
  <2>1. PICK m \in T : \A k \in T : m <= k
    BY LeastNumber
  <2>2. m # 0 /\ m \in Nat /\ m - 1 \in Nat
    BY <1>1, <2>1
  <2>3. Some(m - 1)
    BY <2>1, <2>2
  <2>4. Some((m - 1) + 1)
    BY <1>2, <2>2, <2>3
  <2>5. (m - 1) + 1 = m
    BY <2>2
  <2> QED BY <2>1, <2>4, <2>5
<1>4. Some(Len(later))
  BY <1>3
<1> QED BY <1>4 DEF Some, Chain

\* A chain of calls is the chain that Resumed computes.
LEMMA ResumedCalls ==
  ASSUME NEW pg, NEW later, Len(later) \in Nat
  PROVE  \E calls : Chain(calls, pg, later) /\ Resumed(pg, later) = calls[Len(later)]
<1> DEFINE calls[k \in 0 .. Len(later)] ==
             IF k = 0 THEN pg ELSE Loading(calls[k - 1], later[k], FALSE)
<1>1. Chain(calls, pg, later)
  <2>1. \E some : Chain(some, pg, later)
    BY CallsExist
  <2> QED BY <2>1, Zenon DEF Chain
<1>2. Resumed(pg, later) = calls[Len(later)]
  BY DEF Resumed
<1> HIDE DEF calls
<1> QED BY <1>1, <1>2

-----------------------------------------------------------------------------
(* What is known of a pager at every time.                                 *)

Shape == [revision : None .. MaxRevision, full : BOOLEAN, query : Nat]
Request == [page : Pages, replace : BOOLEAN, generation : Nat, query : Nat,
            expected : None .. MaxRevision, after : Seq(Pages), answer : Answers]
PagerType ==
  [generation : Nat, snapshot : None .. MaxRevision, access : Seq(Pages),
   loaded : SUBSET Pages, shown : [Pages -> Shape], requests : Seq(Request),
   query : Nat, older : BOOLEAN, announced : BOOLEAN]

\* No page is in the order of access twice, and none is on its way twice since
\* the pager last began again.  An answer is a page of the revision asked for.
Current(pg, r) == r.generation = pg.generation
Told(r) ==
  r.answer.kind = "page" =>
    /\ r.answer.page.revision # None
    /\ r.expected \in {None, r.answer.page.revision}
    /\ r.answer.page.query = r.query
Called(pg) ==
  /\ IsInjective(pg.access) /\ pg.loaded \subseteq ToSet(pg.access)
  /\ \A i \in DOMAIN pg.requests :
       Told(pg.requests[i]) /\ pg.requests[i].generation <= pg.generation
  /\ \A i, j \in DOMAIN pg.requests :
       /\ Current(pg, pg.requests[i]) /\ Current(pg, pg.requests[j])
       /\ pg.requests[i].page = pg.requests[j].page
       => i = j

\* Before the first page there is no other; with it there is a snapshot, which
\* every other page was or is asked for.  This is so as long as the cache has
\* room for the listing: the first page is not dropped then.
AskedFor(pg, query) == pg.older \/ query = pg.query
Asked(pg, r) ==
  /\ AskedFor(pg, r.query)
  /\ IF pg.snapshot = None THEN r.page = 0
     ELSE r.page # 0 /\ r.expected = pg.snapshot /\ ~r.replace
OneSnapshot(pg) ==
  /\ pg.snapshot = None => pg.loaded = {}
  /\ pg.snapshot # None => 0 \in pg.loaded
  /\ \A p \in pg.loaded :
       pg.shown[p].revision = pg.snapshot /\ AskedFor(pg, pg.shown[p].query)
  /\ \A i \in DOMAIN pg.requests : Current(pg, pg.requests[i]) =>
       pg.requests[i].page \in ToSet(pg.access) /\ Asked(pg, pg.requests[i])

Fits == LastPage < MaxCached

Consistent(pg) == pg \in PagerType /\ Called(pg) /\ (Fits => OneSnapshot(pg))

\* The first page is there or on its way.
Promised(pg) == 0 \in pg.loaded \/ InFlight(pg, 0)

-----------------------------------------------------------------------------
LEMMA OneRemoved ==
  ASSUME NEW S, NEW s \in Seq(S), NEW k \in 1 .. Len(s)
  PROVE  /\ RemoveAt(s, k) \in Seq(S) /\ Len(RemoveAt(s, k)) = Len(s) - 1
         /\ \A i \in 1 .. Len(s) - 1 : RemoveAt(s, k)[i] = IF i < k THEN s[i] ELSE s[i + 1]
<1> DEFINE n == Len(s)
<1>1. n \in Nat /\ k \in Nat /\ 1 <= k /\ k <= n
  OBVIOUS
<1>2. /\ SubSeq(s, 1, k - 1) \in Seq(S) /\ Len(SubSeq(s, 1, k - 1)) = k - 1
      /\ \A i \in 1 .. k - 1 : SubSeq(s, 1, k - 1)[i] = s[i]
  <2>1. 1 \in Int /\ k - 1 \in Int /\ \A i \in 1 .. k - 1 : s[i] \in S
    BY <1>1
  <2>2. /\ SubSeq(s, 1, k - 1) \in Seq(S)
        /\ Len(SubSeq(s, 1, k - 1)) = IF 1 <= k - 1 THEN k - 1 - 1 + 1 ELSE 0
        /\ \A i \in 1 .. k - 1 - 1 + 1 : SubSeq(s, 1, k - 1)[i] = s[1 + i - 1]
    <3> DEFINE m == k - 1
    <3> HIDE DEF m
    <3>1. /\ SubSeq(s, 1, m) \in Seq(S)
          /\ Len(SubSeq(s, 1, m)) = IF 1 <= m THEN m - 1 + 1 ELSE 0
          /\ \A i \in 1 .. m - 1 + 1 : SubSeq(s, 1, m)[i] = s[1 + i - 1]
      BY <2>1, SubSeqProperties DEF m
    <3> QED BY <3>1 DEF m
  <2> QED BY <1>1, <2>2
<1>3. /\ SubSeq(s, k + 1, n) \in Seq(S) /\ Len(SubSeq(s, k + 1, n)) = n - k
      /\ \A i \in 1 .. n - k : SubSeq(s, k + 1, n)[i] = s[k + i]
  <2>1. n \in Int /\ k + 1 \in Int /\ \A i \in k + 1 .. n : s[i] \in S
    BY <1>1
  <2> DEFINE m == k + 1
  <2> HIDE DEF m
  <2>2. /\ SubSeq(s, m, n) \in Seq(S)
        /\ Len(SubSeq(s, m, n)) = IF m <= n THEN n - m + 1 ELSE 0
        /\ \A i \in 1 .. n - m + 1 : SubSeq(s, m, n)[i] = s[m + i - 1]
    BY <2>1, SubSeqProperties DEF m
  <2> QED BY <1>1, <2>2 DEF m
<1> DEFINE a == SubSeq(s, 1, k - 1)
           b == SubSeq(s, k + 1, n)
<1>4. RemoveAt(s, k) = a \o b
  BY DEF RemoveAt
<1> HIDE DEF a, b
<1>5. /\ a \o b \in Seq(S) /\ Len(a \o b) = Len(a) + Len(b)
      /\ \A i \in 1 .. Len(a) + Len(b) : (a \o b)[i] = IF i <= Len(a) THEN a[i] ELSE b[i - Len(a)]
  BY <1>2, <1>3, ConcatProperties DEF a, b
<1>6. /\ Len(a) = k - 1 /\ Len(b) = n - k /\ \A i \in 1 .. k - 1 : a[i] = s[i]
      /\ \A i \in 1 .. n - k : b[i] = s[k + i]
  BY <1>2, <1>3 DEF a, b
<1>7. ASSUME NEW i \in 1 .. n - 1 PROVE (a \o b)[i] = IF i < k THEN s[i] ELSE s[i + 1]
  <2>1. CASE i < k
    <3>1. i \in 1 .. Len(a) + Len(b) /\ i <= Len(a) /\ i \in 1 .. k - 1
      BY <1>1, <1>6, <1>7, <2>1
    <3> QED BY <1>5, <1>6, <2>1, <3>1
  <2>2. CASE ~(i < k)
    <3>1. /\ i \in 1 .. Len(a) + Len(b) /\ ~(i <= Len(a)) /\ i - Len(a) \in 1 .. n - k
          /\ k + (i - Len(a)) = i + 1
      BY <1>1, <1>6, <1>7, <2>2
    <3> QED BY <1>5, <1>6, <2>2, <3>1
  <2> QED BY <2>1, <2>2
<1> QED BY <1>1, <1>4, <1>5, <1>6, <1>7

\* A page called for is in front, and no other is lost or doubled.
LEMMA MovedToFront ==
  ASSUME NEW S, NEW s \in Seq(S), IsInjective(s), NEW p \in S
  PROVE  /\ <<p>> \o RemoveFirst(s, p) \in Seq(S) /\ IsInjective(<<p>> \o RemoveFirst(s, p))
         /\ ToSet(<<p>> \o RemoveFirst(s, p)) = ToSet(s) \union {p}
<1>1. PICK t : t = RemoveFirst(s, p)
  OBVIOUS
<1>2. /\ t \in Seq(S) /\ IsInjective(t) /\ p \notin ToSet(t)
      /\ ToSet(t) \union {p} = ToSet(s) \union {p}
  <2>1. CASE ~ \E i \in 1 .. Len(s) : s[i] = p
    <3>1. t = s
      BY <1>1, <2>1 DEF RemoveFirst
    <3> QED BY <2>1, <3>1 DEF ToSet
  <2>2. ASSUME NEW k \in 1 .. Len(s), s[k] = p
        PROVE  /\ t \in Seq(S) /\ IsInjective(t) /\ p \notin ToSet(t)
               /\ ToSet(t) \union {p} = ToSet(s) \union {p}
    <3>1. DOMAIN s = 1 .. Len(s) /\ Len(s) \in Nat
      OBVIOUS
    <3>2. \A i \in 1 .. Len(s) : s[i] = p <=> i = k
      BY <2>2, <3>1 DEF IsInjective
    <3>3. {i \in 1 .. Len(s) : s[i] = p} = {k}
      BY <3>2
    <3>4. Min({k}) = k
      BY DEF Min
    <3>5. SelectInSeq(s, LAMBDA v : v = p) = k
      BY <3>3, <3>4 DEF SelectInSeq
    <3>6. t = RemoveAt(s, k)
      BY <1>1, <2>2, <3>5 DEF RemoveFirst
    <3>7. /\ t \in Seq(S) /\ Len(t) = Len(s) - 1
          /\ \A i \in 1 .. Len(s) - 1 : t[i] = IF i < k THEN s[i] ELSE s[i + 1]
      BY <3>6, OneRemoved
    <3>8. DOMAIN t = 1 .. Len(s) - 1
      BY <3>7
    <3>9. \A i \in 1 .. Len(s) - 1 : \E j \in 1 .. Len(s) \ {k} :
            t[i] = s[j] /\ j = IF i < k THEN i ELSE i + 1
      BY <3>1, <3>7
    <3>10. \A j \in 1 .. Len(s) \ {k} : \E i \in 1 .. Len(s) - 1 : t[i] = s[j]
      <4> TAKE j \in 1 .. Len(s) \ {k}
      <4>1. CASE j < k
        BY <3>1, <3>7, <4>1
      <4>2. CASE ~(j < k)
        <5>1. j - 1 \in 1 .. Len(s) - 1 /\ ~(j - 1 < k) /\ (j - 1) + 1 = j
          BY <3>1, <4>2
        <5> QED BY <3>7, <5>1
      <4> QED BY <4>1, <4>2
    <3>11. IsInjective(t)
      <4> SUFFICES ASSUME NEW a \in 1 .. Len(s) - 1, NEW b \in 1 .. Len(s) - 1, t[a] = t[b]
                   PROVE  a = b
        BY <3>8 DEF IsInjective
      <4>1. PICK i \in 1 .. Len(s) \ {k} : t[a] = s[i] /\ i = IF a < k THEN a ELSE a + 1
        BY <3>9
      <4>2. PICK j \in 1 .. Len(s) \ {k} : t[b] = s[j] /\ j = IF b < k THEN b ELSE b + 1
        BY <3>9
      <4>3. i = j
        BY <3>1, <4>1, <4>2 DEF IsInjective
      <4> QED BY <4>1, <4>2, <4>3
    <3>12. p \notin ToSet(t)
      BY <3>2, <3>8, <3>9 DEF ToSet
    <3>13. ToSet(t) \union {p} = ToSet(s) \union {p}
      <4>1. \A x \in ToSet(t) : x \in ToSet(s)
        <5> TAKE x \in ToSet(t)
        <5>1. PICK i \in 1 .. Len(s) - 1 : x = t[i]
          BY <3>8 DEF ToSet
        <5>2. PICK j \in 1 .. Len(s) : x = s[j]
          BY <3>9, <5>1
        <5> QED BY <3>1, <5>2 DEF ToSet
      <4>2. \A x \in ToSet(s) : x \in ToSet(t) \union {p}
        <5> TAKE x \in ToSet(s)
        <5>1. PICK j \in 1 .. Len(s) : x = s[j]
          BY <3>1 DEF ToSet
        <5> QED BY <2>2, <3>8, <3>10, <5>1 DEF ToSet
      <4> QED BY <4>1, <4>2
    <3> QED BY <3>7, <3>11, <3>12, <3>13
  <2> QED BY <2>1, <2>2
<1> DEFINE u == <<p>> \o t
<1>3. /\ u \in Seq(S) /\ Len(u) = Len(t) + 1 /\ u[1] = p
      /\ \A i \in 2 .. Len(t) + 1 : u[i] = t[i - 1]
  <2>1. <<p>> \in Seq(S) /\ Len(<<p>>) = 1 /\ <<p>>[1] = p
    OBVIOUS
  <2>2. /\ u \in Seq(S) /\ Len(u) = Len(<<p>>) + Len(t)
        /\ \A i \in 1 .. Len(<<p>>) + Len(t) :
             u[i] = IF i <= Len(<<p>>) THEN <<p>>[i] ELSE t[i - Len(<<p>>)]
    BY <1>2, <2>1, ConcatProperties
  <2>3. Len(t) \in Nat
    BY <1>2
  <2> HIDE DEF u
  <2> QED BY <2>1, <2>2, <2>3
<1> HIDE DEF u
<1>4. Len(t) \in Nat /\ DOMAIN t = 1 .. Len(t) /\ DOMAIN u = 1 .. Len(t) + 1
  BY <1>2, <1>3
<1>5. \A i \in 2 .. Len(t) + 1 : i - 1 \in DOMAIN t /\ u[i] = t[i - 1]
  BY <1>3, <1>4
<1>6. IsInjective(u)
  <2>1. \A i \in 2 .. Len(t) + 1 : u[i] # p
    BY <1>2, <1>5 DEF ToSet
  <2>2. \A i, j \in 2 .. Len(t) + 1 : u[i] = u[j] => i = j
    BY <1>2, <1>4, <1>5 DEF IsInjective
  <2>3. \A i \in 1 .. Len(t) + 1 : i = 1 \/ i \in 2 .. Len(t) + 1
    BY <1>4
  <2> QED BY <1>3, <1>4, <2>1, <2>2, <2>3 DEF IsInjective
<1>7. ToSet(u) = ToSet(t) \union {p}
  <2>1. \A x \in ToSet(u) : x \in ToSet(t) \union {p}
    <3> TAKE x \in ToSet(u)
    <3>1. PICK i \in 1 .. Len(t) + 1 : x = u[i]
      BY <1>4 DEF ToSet
    <3> QED BY <1>3, <1>4, <1>5, <3>1 DEF ToSet
  <2>2. \A x \in ToSet(t) : x \in ToSet(u)
    <3> TAKE x \in ToSet(t)
    <3>1. PICK i \in 1 .. Len(t) : x = t[i]
      BY <1>4 DEF ToSet
    <3>2. i + 1 \in 2 .. Len(t) + 1 /\ i + 1 \in DOMAIN u /\ (i + 1) - 1 = i
      BY <1>4
    <3> QED BY <1>5, <3>1, <3>2 DEF ToSet
  <2>3. p \in ToSet(u)
    BY <1>3, <1>4 DEF ToSet
  <2> QED BY <2>1, <2>2, <2>3
<1> QED BY <1>1, <1>2, <1>3, <1>6, <1>7 DEF u

-----------------------------------------------------------------------------
(* What a call does to it.                                                 *)

\* What the pager keeps of a request when pages are to be called for after it.
LEMMA RequestsTyped ==
  ASSUME NEW pg \in PagerType
  PROVE  /\ pg.requests \in Seq(Request) /\ DOMAIN pg.requests = 1 .. Len(pg.requests)
         /\ Len(pg.requests) \in Nat
         /\ \A i \in 1 .. Len(pg.requests) :
              /\ pg.requests[i] \in Request
              /\ pg.requests[i].page \in Pages /\ pg.requests[i].generation \in Nat
              /\ pg.requests[i].after \in Seq(Pages)
<1>1. pg.requests \in Seq(Request)
  BY DEF PagerType
<1>2. \A i \in 1 .. Len(pg.requests) : pg.requests[i] \in Request
  BY <1>1
<1> QED BY <1>1, <1>2 DEF Request

LEMMA TouchedKeeps ==
  ASSUME NEW pg, Consistent(pg), NEW p \in Pages
  PROVE  /\ Consistent(Touched(pg, p)) /\ p \in ToSet(Touched(pg, p).access)
         /\ Touched(pg, p).requests = pg.requests /\ Touched(pg, p).loaded = pg.loaded
         /\ Touched(pg, p).snapshot = pg.snapshot
         /\ Touched(pg, p).generation = pg.generation
<1>1. PICK t : t = Touched(pg, p)
  OBVIOUS
<1>2. pg \in PagerType
  BY DEF Consistent
<1>3. PICK access : access = <<p>> \o RemoveFirst(pg.access, p)
  OBVIOUS
<1>4. t = [pg EXCEPT !.access = access]
  BY <1>1, <1>3 DEF Touched
<1>5. /\ access \in Seq(Pages) /\ IsInjective(access)
      /\ ToSet(access) = ToSet(pg.access) \union {p}
  <2>1. pg.access \in Seq(Pages) /\ IsInjective(pg.access)
    BY <1>2 DEF PagerType, Consistent, Called
  <2> QED BY <1>3, <2>1, MovedToFront
<1>6. /\ t \in PagerType /\ t.access = access /\ t.requests = pg.requests
      /\ t.loaded = pg.loaded /\ t.snapshot = pg.snapshot /\ t.generation = pg.generation
      /\ t.shown = pg.shown /\ t.query = pg.query /\ t.older = pg.older
  BY <1>2, <1>4, <1>5 DEF PagerType
<1>7. Called(t)
  BY <1>5, <1>6 DEF Consistent, Called, Current
<1>8. Fits => OneSnapshot(t)
  BY <1>5, <1>6 DEF Consistent, OneSnapshot, Current, Asked, AskedFor
<1> QED BY <1>1, <1>5, <1>6, <1>7, <1>8 DEF Consistent

LEMMA SentKeeps ==
  ASSUME NEW pg, Consistent(pg), NEW p \in Pages, NEW replace \in BOOLEAN,
         ~InFlight(pg, p),
         Fits => /\ p \in ToSet(pg.access)
                 /\ IF pg.snapshot = None THEN p = 0 ELSE p # 0 /\ ~replace
  PROVE  /\ Consistent(Sent(pg, p, replace))
         /\ Promised(pg) \/ p = 0 => Promised(Sent(pg, p, replace))
<1>1. PICK t : t = Sent(pg, p, replace)
  OBVIOUS
<1>2. pg \in PagerType
  BY DEF Consistent
<1>3. PICK e \in None .. MaxRevision : e = IF p = 0 THEN None ELSE pg.snapshot
  <2>1. None \in None .. MaxRevision /\ pg.snapshot \in None .. MaxRevision
    BY <1>2, AssetPagerAssumption DEF PagerType, None
  <2> QED BY <2>1
<1>4. PICK r : r = [page |-> p, replace |-> replace, generation |-> pg.generation,
                    query |-> pg.query, expected |-> e, after |-> << >>, answer |-> Is("none")]
  OBVIOUS
<1>5. Is("none") \in Answers /\ Is("none").kind = "none"
  <2>1. Blank \in [revision : None .. MaxRevision, full : BOOLEAN, query : Nat]
    BY AssetPagerAssumption DEF Blank, None
  <2> QED BY <2>1 DEF Is, Answers
<1>6. r \in Request
  <2>1. << >> \in Seq(Pages) /\ pg.generation \in Nat /\ pg.query \in Nat
    BY <1>2, EmptySeq DEF PagerType
  <2> QED BY <1>4, <1>5, <2>1 DEF Request
<1>7. t = [pg EXCEPT !.requests = Append(@, r)]
  BY <1>1, <1>3, <1>4 DEF Sent
<1>8. PICK rs : rs = Append(pg.requests, r)
  OBVIOUS
<1>9. /\ rs \in Seq(Request) /\ Len(rs) = Len(pg.requests) + 1 /\ rs[Len(pg.requests) + 1] = r
      /\ \A i \in 1 .. Len(pg.requests) : rs[i] = pg.requests[i]
  BY <1>2, <1>6, <1>8, RequestsTyped, AppendProperties
<1>10. /\ t \in PagerType /\ t.access = pg.access /\ t.requests = rs
       /\ t.loaded = pg.loaded /\ t.snapshot = pg.snapshot /\ t.generation = pg.generation
       /\ t.shown = pg.shown /\ t.query = pg.query /\ t.older = pg.older
  BY <1>2, <1>7, <1>8, <1>9 DEF PagerType
<1> DEFINE n == Len(pg.requests)
<1>11. n \in Nat /\ DOMAIN pg.requests = 1 .. n /\ DOMAIN rs = 1 .. n + 1
  BY <1>2, <1>9, RequestsTyped
<1>12. \A i \in DOMAIN rs : \/ i \in 1 .. n /\ rs[i] = pg.requests[i]
                            \/ i = n + 1 /\ rs[i] = r
  BY <1>9, <1>11
<1>13. /\ r.page = p /\ r.generation = pg.generation /\ r.replace = replace /\ r.expected = e
       /\ r.query = pg.query /\ r.answer.kind = "none"
  BY <1>4, <1>5
<1>14. \A i \in 1 .. n : ~(pg.requests[i].generation = pg.generation /\ pg.requests[i].page = p)
  BY <1>11 DEF InFlight
<1>15. pg.generation \in Nat
  BY <1>2 DEF PagerType
<1> HIDE DEF n
<1>16. Called(t)
  <2>1. \A i \in DOMAIN rs : Told(rs[i]) /\ rs[i].generation <= pg.generation
    BY <1>11, <1>12, <1>13, <1>15 DEF Consistent, Called, Told
  <2>2. \A i, j \in DOMAIN rs :
          /\ rs[i].generation = pg.generation /\ rs[j].generation = pg.generation
          /\ rs[i].page = rs[j].page
          => i = j
    BY <1>11, <1>12, <1>13, <1>14 DEF Consistent, Called, Current
  <2> QED BY <1>10, <2>1, <2>2 DEF Consistent, Called, Current
<1>17. Fits => OneSnapshot(t)
  <2> SUFFICES ASSUME Fits PROVE OneSnapshot(t)
    OBVIOUS
  <2>1. r.page \in ToSet(pg.access) /\ Asked(pg, r)
    BY <1>3, <1>13 DEF Asked, AskedFor
  <2>2. \A i \in DOMAIN rs : rs[i].generation = pg.generation =>
          rs[i].page \in ToSet(pg.access) /\ Asked(pg, rs[i])
    BY <1>11, <1>12, <2>1 DEF Consistent, OneSnapshot, Current
  <2> QED BY <1>10, <2>2 DEF Consistent, OneSnapshot, Current, Asked, AskedFor
<1>18. ASSUME Promised(pg) \/ p = 0 PROVE Promised(t)
  <2>1. InFlight(pg, 0) => InFlight(t, 0)
    BY <1>9, <1>10, <1>11 DEF InFlight
  <2>2. p = 0 => InFlight(t, 0)
    BY <1>9, <1>10, <1>11, <1>13 DEF InFlight
  <2> QED BY <1>10, <1>18, <2>1, <2>2 DEF Promised
<1> QED BY <1>1, <1>10, <1>16, <1>17, <1>18 DEF Consistent

LEMMA FirstKeeps ==
  ASSUME NEW pg, Consistent(pg), pg.snapshot = None
  PROVE  Consistent(First(pg)) /\ Promised(First(pg))
<1>1. 0 \in Pages
  BY AssetPagerAssumption DEF Pages
<1>2. PICK t : t = Touched(pg, 0)
  OBVIOUS
<1>3. /\ Consistent(t) /\ 0 \in ToSet(t.access) /\ t.snapshot = None
      /\ InFlight(t, 0) <=> InFlight(pg, 0)
  BY <1>1, <1>2, TouchedKeeps DEF InFlight
<1>4. ~InFlight(t, 0) => Consistent(Sent(t, 0, TRUE)) /\ Promised(Sent(t, 0, TRUE))
  BY <1>1, <1>3, SentKeeps
<1> QED BY <1>2, <1>3, <1>4 DEF First, Promised

LEMMA AfterFirstKeeps ==
  ASSUME NEW pg, Consistent(pg), NEW p \in Pages
  PROVE  Consistent(AfterFirst(pg, p)) /\ (Promised(pg) => Promised(AfterFirst(pg, p)))
<1>1. PICK t : t = AfterFirst(pg, p)
  OBVIOUS
<1>2. pg \in PagerType
  BY DEF Consistent
<1> DEFINE row(i) == Awaited(pg, pg.requests[i], p)
<1>3. \A i \in 1 .. Len(pg.requests) :
        /\ row(i) \in Request
        /\ row(i).page = pg.requests[i].page /\ row(i).generation = pg.requests[i].generation
        /\ row(i).answer = pg.requests[i].answer /\ row(i).expected = pg.requests[i].expected
        /\ row(i).replace = pg.requests[i].replace /\ row(i).query = pg.requests[i].query
  <2> TAKE i \in 1 .. Len(pg.requests)
  <2>1. PICK r \in Request : r = pg.requests[i] /\ r.after \in Seq(Pages)
    BY <1>2, RequestsTyped
  <2>2. PICK after \in Seq(Pages) :
          after = IF p \in ToSet(r.after) THEN r.after ELSE Append(r.after, p)
    BY <2>1, AppendProperties
  <2>3. row(i) = r \/ row(i) = [r EXCEPT !.after = after]
    BY <2>1, <2>2 DEF Awaited
  <2> HIDE DEF row
  <2> QED BY <2>1, <2>3 DEF Request
<1>4. PICK rs : rs = [i \in DOMAIN pg.requests |-> row(i)]
  OBVIOUS
<1>5. t = [pg EXCEPT !.requests = rs]
  BY <1>1, <1>4 DEF AfterFirst
<1> HIDE DEF row
<1>6. /\ DOMAIN pg.requests = 1 .. Len(pg.requests) /\ DOMAIN rs = 1 .. Len(pg.requests)
      /\ Len(pg.requests) \in Nat /\ \A i \in DOMAIN rs : rs[i] = row(i)
  BY <1>2, <1>4, RequestsTyped
<1>7. rs \in Seq(Request)
  <2>1. rs \in [1 .. Len(pg.requests) -> Request]
    BY <1>3, <1>4, <1>6
  <2> QED BY <1>6, <2>1, SeqDef
<1>8. /\ t \in PagerType /\ t.access = pg.access /\ t.requests = rs
      /\ t.loaded = pg.loaded /\ t.snapshot = pg.snapshot /\ t.generation = pg.generation
      /\ t.shown = pg.shown /\ t.query = pg.query /\ t.older = pg.older
  BY <1>2, <1>5, <1>7 DEF PagerType
<1>9. Called(t)
  BY <1>3, <1>6, <1>8 DEF Consistent, Called, Current, Told
<1>10. Fits => OneSnapshot(t)
  BY <1>3, <1>6, <1>8 DEF Consistent, OneSnapshot, Current, Asked, AskedFor
<1>11. Promised(pg) => Promised(t)
  BY <1>3, <1>6, <1>8 DEF Promised, InFlight
<1> QED BY <1>1, <1>8, <1>9, <1>10, <1>11 DEF Consistent

\* A call for a page keeps what is known of the pager: the first page is only
\* asked for before there is a snapshot.
LEMMA LoadingKeeps ==
  ASSUME NEW pg, Consistent(pg), NEW p \in Pages, NEW replace \in BOOLEAN,
         replace => p = 0 /\ pg.snapshot = None
  PROVE  /\ Consistent(Loading(pg, p, replace))
         /\ Promised(pg) \/ p = 0 => Promised(Loading(pg, p, replace))
<1>1. PICK t : t = Touched(pg, p)
  OBVIOUS
<1>2. /\ Consistent(t) /\ p \in ToSet(t.access) /\ t.snapshot = pg.snapshot
      /\ t.loaded = pg.loaded
      /\ InFlight(t, p) <=> InFlight(pg, p)
      /\ Promised(t) <=> Promised(pg)
  BY <1>1, TouchedKeeps DEF InFlight, Promised
<1>3. CASE (~replace /\ p \in pg.loaded) \/ InFlight(pg, p)
  BY <1>1, <1>2, <1>3 DEF Loading, Promised
<1>4. CASE /\ ~((~replace /\ p \in pg.loaded) \/ InFlight(pg, p))
           /\ p # 0 /\ pg.snapshot = None
  <2>1. Loading(pg, p, replace) = AfterFirst(First(t), p)
    BY <1>1, <1>4 DEF Loading
  <2> QED BY <1>2, <1>4, <2>1, FirstKeeps, AfterFirstKeeps
<1>5. CASE /\ ~((~replace /\ p \in pg.loaded) \/ InFlight(pg, p))
           /\ ~(p # 0 /\ pg.snapshot = None)
  <2>1. Loading(pg, p, replace) = Sent(t, p, replace)
    BY <1>1, <1>5 DEF Loading
  <2>2. Fits /\ pg.snapshot # None => 0 \in pg.loaded
    BY DEF Consistent, OneSnapshot
  <2> QED BY <1>2, <1>5, <2>1, <2>2, SentKeeps
<1> QED BY <1>3, <1>4, <1>5

\* ... and so does every call of a chain of them.
LEMMA ResumedKeeps ==
  ASSUME NEW pg, Consistent(pg), NEW later \in Seq(Pages)
  PROVE  Consistent(Resumed(pg, later)) /\ (Promised(pg) => Promised(Resumed(pg, later)))
<1>1. Len(later) \in Nat /\ \A k \in 1 .. Len(later) : later[k] \in Pages
  OBVIOUS
<1>2. PICK calls : Chain(calls, pg, later) /\ Resumed(pg, later) = calls[Len(later)]
  BY <1>1, ResumedCalls
<1>3. \A k \in 0 .. Len(later) :
        calls[k] = IF k = 0 THEN pg ELSE Loading(calls[k - 1], later[k], FALSE)
  BY <1>2 DEF Chain
<1> DEFINE Fine(c) == Consistent(c) /\ (Promised(pg) => Promised(c))
           T == {k \in 0 .. Len(later) : ~Fine(calls[k])}
<1>4. T = {}
  <2> SUFFICES ASSUME T # {} PROVE FALSE
    OBVIOUS
  <2>1. T \subseteq Nat
    BY <1>1
  <2> HIDE DEF T
  <2>2. PICK m \in T : \A k \in T : m <= k
    BY <2>1, LeastNumber
  <2>3. m \in 0 .. Len(later) /\ ~Fine(calls[m])
    BY <2>2 DEF T
  <2>4. calls[0] = pg
    <3>1. 0 \in 0 .. Len(later)
      BY <1>1
    <3> QED BY <1>3, <3>1
  <2>5. m # 0
    BY <2>3, <2>4
  <2>6. /\ m - 1 \in 0 .. Len(later) /\ m \in 1 .. Len(later) /\ ~(m <= m - 1)
        /\ later[m] \in Pages
    BY <1>1, <2>3, <2>5
  <2>7. Fine(calls[m - 1])
    BY <2>2, <2>6 DEF T
  <2>8. calls[m] = Loading(calls[m - 1], later[m], FALSE)
    BY <1>3, <2>3, <2>5
  <2>9. Fine(calls[m])
    BY <2>6, <2>7, <2>8, LoadingKeeps
  <2> QED BY <2>3, <2>9
<1> QED BY <1>1, <1>2, <1>4

\* A pager that begins again knows nothing and has asked for nothing.
LEMMA ClearedKeeps ==
  ASSUME NEW pg, Consistent(pg)
  PROVE  /\ Consistent(Cleared(pg)) /\ Cleared(pg).snapshot = None
         /\ Cleared(pg).loaded = {}
         /\ \A i \in DOMAIN Cleared(pg).requests :
              ~Current(Cleared(pg), Cleared(pg).requests[i])
<1>1. PICK t : t = Cleared(pg)
  OBVIOUS
<1>2. pg \in PagerType /\ pg.generation \in Nat
  BY DEF Consistent, PagerType
<1>3. << >> \in Seq(Pages) /\ DOMAIN << >> = {} /\ None \in None .. MaxRevision
  BY EmptySeq, AssetPagerAssumption DEF None
<1>4. PICK access \in Seq(Pages) : access = << >> /\ DOMAIN access = {}
  BY <1>3
<1>5. PICK g \in Nat : g = pg.generation + 1
  BY <1>2
<1>6. PICK loaded \in SUBSET Pages : loaded = {}
  OBVIOUS
<1>7. t = [pg EXCEPT !.generation = g, !.access = access, !.loaded = loaded, !.snapshot = None,
                         !.older = FALSE]
  BY <1>1, <1>4, <1>5, <1>6 DEF Cleared
<1>8. /\ t \in PagerType /\ t.access = access /\ t.requests = pg.requests
      /\ t.loaded = {} /\ t.snapshot = None /\ t.generation = g
  BY <1>2, <1>3, <1>6, <1>7 DEF PagerType
<1>9. \A i \in DOMAIN pg.requests : pg.requests[i].generation \in Nat
                                    /\ pg.requests[i].generation <= pg.generation
  BY <1>2, RequestsTyped DEF Consistent, Called
<1>10. Called(t)
  <2>1. \A i \in DOMAIN pg.requests : /\ Told(pg.requests[i])
                                       /\ pg.requests[i].generation <= g
                                       /\ pg.requests[i].generation # g
    BY <1>2, <1>5, <1>9 DEF Consistent, Called, PagerType
  <2>2. IsInjective(access)
    BY <1>4 DEF IsInjective
  <2> QED BY <1>6, <1>8, <2>1, <2>2 DEF Called, Current
<1>11. Fits => OneSnapshot(t)
  BY <1>2, <1>5, <1>8, <1>9 DEF Consistent, OneSnapshot, Current
<1>12. \A i \in DOMAIN t.requests : ~Current(t, t.requests[i])
  BY <1>2, <1>5, <1>8, <1>9 DEF Current
<1> QED BY <1>1, <1>6, <1>8, <1>10, <1>11, <1>12 DEF Consistent

\* What it is to show meanwhile and which query it is for may be chosen then.
LEMMA AnewKeeps ==
  ASSUME NEW pg, Consistent(pg), NEW shown \in [Pages -> Shape], NEW query \in Nat,
         NEW announced \in BOOLEAN
  PROVE  LET t == [Cleared(pg) EXCEPT !.shown = shown, !.query = query,
                                      !.announced = announced]
         IN  Consistent(Loading(t, 0, TRUE)) /\ Promised(Loading(t, 0, TRUE))
<1>1. PICK c : c = Cleared(pg)
  OBVIOUS
<1>2. /\ Consistent(c) /\ c.snapshot = None /\ c.loaded = {} /\ c \in PagerType
      /\ \A i \in DOMAIN c.requests : ~Current(c, c.requests[i])
  BY <1>1, ClearedKeeps DEF Consistent
<1>3. PICK t : t = [c EXCEPT !.shown = shown, !.query = query, !.announced = announced]
  OBVIOUS
<1>4. /\ t \in PagerType /\ t.access = c.access /\ t.requests = c.requests
      /\ t.loaded = {} /\ t.snapshot = None /\ t.generation = c.generation
  BY <1>2, <1>3 DEF PagerType
<1>5. Called(t)
  BY <1>2, <1>4 DEF Consistent, Called, Current
<1>6. Fits => OneSnapshot(t)
  BY <1>2, <1>4 DEF OneSnapshot, Current
<1>7. Consistent(t) /\ t.snapshot = None
  BY <1>4, <1>5, <1>6 DEF Consistent
<1>8. 0 \in Pages
  BY AssetPagerAssumption DEF Pages
<1>9. Consistent(Loading(t, 0, TRUE)) /\ Promised(Loading(t, 0, TRUE))
  BY <1>7, <1>8, LoadingKeeps
<1> QED BY <1>1, <1>3, <1>9

\* A request that was answered leaves no other for its page behind.
LEMMA ReceivedKeeps ==
  ASSUME NEW pg, Consistent(pg), pg.requests # << >>
  PROVE  LET t == [pg EXCEPT !.requests = Tail(@)]
             r == Head(pg.requests)
         IN  /\ Consistent(t) /\ r \in Request /\ Told(r)
             /\ Current(pg, r) =>
                  /\ Current(t, r) /\ ~InFlight(t, r.page)
                  /\ Fits => Asked(t, r) /\ r.page \in ToSet(t.access)
             /\ ~Current(pg, r) /\ Promised(pg) => Promised(t)
<1> DEFINE u == [pg EXCEPT !.requests = Tail(@)]
<1>1. PICK t : t = u
  OBVIOUS
<1>2. PICK r : r = Head(pg.requests)
  OBVIOUS
<1>3. pg \in PagerType /\ pg.requests \in Seq(Request) /\ Len(pg.requests) \in Nat
  BY RequestsTyped DEF Consistent
<1>4. PICK rs : rs = Tail(pg.requests)
  OBVIOUS
<1>5. /\ rs \in Seq(Request) /\ r \in Request /\ Len(rs) = Len(pg.requests) - 1
      /\ Len(pg.requests) \in Nat \ {0} /\ r = pg.requests[1]
      /\ \A i \in 1 .. Len(rs) : rs[i] = pg.requests[i + 1]
  BY <1>2, <1>3, <1>4, EmptySeq, HeadTailProperties
<1>6. /\ t \in PagerType /\ t.access = pg.access /\ t.requests = rs
      /\ t.loaded = pg.loaded /\ t.snapshot = pg.snapshot /\ t.generation = pg.generation
      /\ t.shown = pg.shown /\ t.query = pg.query /\ t.older = pg.older
  BY <1>1, <1>3, <1>4, <1>5 DEF PagerType
<1>7. /\ DOMAIN rs = 1 .. Len(pg.requests) - 1 /\ DOMAIN pg.requests = 1 .. Len(pg.requests)
      /\ \A i \in DOMAIN rs : i + 1 \in DOMAIN pg.requests /\ rs[i] = pg.requests[i + 1]
      /\ 1 \in DOMAIN pg.requests
  BY <1>3, <1>5
<1>8. Called(t)
  <2>1. \A i \in DOMAIN rs : Told(rs[i]) /\ rs[i].generation <= pg.generation
    BY <1>7 DEF Consistent, Called
  <2>2. ASSUME NEW i \in DOMAIN rs, NEW j \in DOMAIN rs,
               rs[i].generation = pg.generation, rs[j].generation = pg.generation,
               rs[i].page = rs[j].page
        PROVE  i = j
    <3>1. i + 1 = j + 1
      BY <1>7, <2>2 DEF Consistent, Called, Current
    <3> QED BY <1>5, <1>7, <3>1
  <2> QED BY <1>6, <2>1, <2>2 DEF Consistent, Called, Current
<1>9. Fits => OneSnapshot(t)
  BY <1>6, <1>7 DEF Consistent, OneSnapshot, Current, Asked, AskedFor
<1>10. /\ Told(r)
       /\ Fits /\ Current(pg, r) => Asked(pg, r) /\ r.page \in ToSet(pg.access)
  BY <1>5, <1>7 DEF Consistent, OneSnapshot, Called
<1>11. ASSUME Current(pg, r), NEW i \in DOMAIN rs, rs[i].page = r.page, rs[i].generation = pg.generation
       PROVE  FALSE
  <2>1. i + 1 = 1
    BY <1>5, <1>7, <1>11 DEF Consistent, Called, Current
  <2> QED BY <1>5, <1>7, <2>1
<1>12. Current(pg, r) =>
         /\ Current(t, r) /\ ~InFlight(t, r.page)
         /\ Fits => Asked(t, r) /\ r.page \in ToSet(t.access)
  BY <1>6, <1>10, <1>11 DEF Current, Asked, AskedFor, InFlight
<1>13. ASSUME ~Current(pg, r), Promised(pg) PROVE Promised(t)
  <2>1. ASSUME NEW i \in DOMAIN pg.requests, pg.requests[i].page = 0,
               pg.requests[i].generation = pg.generation
        PROVE  InFlight(t, 0)
    <3>1. i - 1 \in DOMAIN rs /\ rs[i - 1] = pg.requests[i]
      <4>1. i # 1
        BY <1>5, <1>13, <2>1 DEF Current
      <4>2. i \in 1 .. Len(pg.requests) /\ i - 1 \in 1 .. Len(pg.requests) - 1 /\ (i - 1) + 1 = i
        BY <1>3, <1>7, <4>1
      <4> QED BY <1>7, <4>2
    <3> QED BY <1>6, <2>1, <3>1 DEF InFlight
  <2> QED BY <1>6, <1>13, <2>1 DEF Promised, InFlight
<1> HIDE DEF u
<1>14. /\ Consistent(u) /\ r \in Request /\ Told(r)
       /\ Current(pg, r) =>
            /\ Current(u, r) /\ ~InFlight(u, r.page)
            /\ Fits => Asked(u, r) /\ r.page \in ToSet(u.access)
       /\ ~Current(pg, r) /\ Promised(pg) => Promised(u)
  BY <1>1, <1>5, <1>6, <1>8, <1>9, <1>10, <1>12, <1>13 DEF Consistent
<1> QED BY <1>2, <1>14 DEF u

\* The pages that are kept.
Kept(access) ==
  SubSeq(access, 1, IF Len(access) < MaxCached THEN Len(access) ELSE MaxCached)

LEMMA KeptOnce ==
  ASSUME NEW access \in Seq(Pages), IsInjective(access)
  PROVE  Kept(access) \in Seq(Pages) /\ IsInjective(Kept(access))
<1>1. PICK n \in Nat : /\ n = IF Len(access) < MaxCached THEN Len(access) ELSE MaxCached
                       /\ n <= Len(access)
  BY AssetPagerAssumption
<1>2. PICK t : t = SubSeq(access, 1, n)
  OBVIOUS
<1>3. /\ t \in Seq(Pages) /\ Len(t) = IF 1 <= n THEN n - 1 + 1 ELSE 0
      /\ \A i \in 1 .. n - 1 + 1 : t[i] = access[1 + i - 1]
  <2>1. 1 \in Int /\ n \in Int /\ \A i \in 1 .. n : access[i] \in Pages
    BY <1>1
  <2> QED BY <1>2, <2>1, SubSeqProperties
<1>4. /\ DOMAIN t = 1 .. n /\ DOMAIN access = 1 .. Len(access)
      /\ \A i \in 1 .. n : i \in 1 .. Len(access) /\ t[i] = access[i]
  BY <1>1, <1>3
<1>5. IsInjective(t)
  BY <1>4 DEF IsInjective
<1> QED BY <1>1, <1>2, <1>3, <1>5 DEF Kept

\* A cache that has room for every page drops none.
LEMMA NothingTrimmed ==
  ASSUME Fits, NEW access \in Seq(Pages), IsInjective(access)
  PROVE  Kept(access) = access
<1>1. LastPage \in Nat /\ MaxCached \in Nat /\ Len(access) \in Nat
  BY AssetPagerAssumption
<1>2. Len(access) <= LastPage + 1
  <2>1. IsFiniteSet(Pages) /\ Cardinality(Pages) = LastPage + 1
    BY <1>1, FS_Interval DEF Pages
  <2>2. Cardinality(1 .. Len(access)) = Len(access)
    <3>1. Cardinality(1 .. Len(access)) = IF 1 > Len(access) THEN 0 ELSE Len(access) - 1 + 1
      BY <1>1, FS_Interval
    <3> QED BY <1>1, <3>1
  <2>3. access \in Injection(1 .. Len(access), Pages)
    BY DEF Injection
  <2>4. Cardinality(1 .. Len(access)) <= Cardinality(Pages)
    BY <2>1, <2>3, FS_Injection
  <2> QED BY <2>1, <2>2, <2>4
<1> DEFINE n == IF Len(access) < MaxCached THEN Len(access) ELSE MaxCached
<1>3. n = Len(access)
  BY <1>1, <1>2 DEF Fits
<1>4. SubSeq(access, 1, Len(access)) = access
  <2>1. /\ SubSeq(access, 1, Len(access)) \in Seq(Pages)
        /\ Len(SubSeq(access, 1, Len(access))) =
             IF 1 <= Len(access) THEN Len(access) - 1 + 1 ELSE 0
        /\ \A i \in 1 .. Len(access) - 1 + 1 :
             SubSeq(access, 1, Len(access))[i] = access[1 + i - 1]
    <3>1. 1 \in Int /\ Len(access) \in Int /\ \A i \in 1 .. Len(access) : access[i] \in Pages
      BY <1>1
    <3> QED BY <3>1, SubSeqProperties
  <2>2. PICK t : t = SubSeq(access, 1, Len(access))
    OBVIOUS
  <2>3. t \in Seq(Pages) /\ Len(t) = Len(access) /\ \A i \in 1 .. Len(t) : t[i] = access[i]
    BY <1>1, <2>1, <2>2
  <2>4. t = access
    BY <2>3, SeqEqual
  <2> QED BY <2>2, <2>4
<1> QED BY <1>3, <1>4 DEF Kept

\* The first page makes the snapshot, when nothing else is loaded or asked for;
\* every other page is of the snapshot there is.
LEMMA LoadedKeeps ==
  ASSUME NEW pg, Consistent(pg), NEW r \in Request, Told(r),
         r.answer.kind = "page", Current(pg, r), ~InFlight(pg, r.page),
         Fits => Asked(pg, r) /\ r.page \in ToSet(pg.access)
  PROVE  Consistent(Loaded(pg, r)) /\ (Fits => Promised(Loaded(pg, r)))
<1>1. pg \in PagerType
  BY DEF Consistent
<1>2. /\ r.page \in Pages /\ r.answer.page \in Shape /\ r.answer.page.revision \in None .. MaxRevision
      /\ r.answer.page.revision # None /\ r.expected \in {None, r.answer.page.revision}
      /\ r.answer.page.query = r.query
  BY DEF Request, Answers, Shape, Told
<1>3. PICK snapshot \in None .. MaxRevision :
        snapshot = IF r.page = 0 THEN r.answer.page.revision ELSE pg.snapshot
  BY <1>1, <1>2 DEF PagerType
<1>4. PICK loaded \in SUBSET Pages : loaded = (IF r.replace THEN {} ELSE pg.loaded) \union {r.page}
  BY <1>1, <1>2 DEF PagerType
<1>5. PICK shown : shown = [p \in Pages |-> IF p = r.page THEN r.answer.page
                                            ELSE IF r.replace THEN Blank ELSE pg.shown[p]]
  OBVIOUS
<1>6. Blank \in Shape
  BY AssetPagerAssumption DEF Blank, Shape, None
<1>7. shown \in [Pages -> Shape] /\ shown[r.page] = r.answer.page
  BY <1>1, <1>2, <1>5, <1>6 DEF PagerType
<1>8. PICK t : t = [pg EXCEPT !.snapshot = snapshot, !.loaded = loaded, !.shown = shown]
  OBVIOUS
<1>9. Loaded(pg, r) = Trimmed(t)
  BY <1>3, <1>4, <1>5, <1>8 DEF Loaded
<1>10. /\ t \in PagerType /\ t.access = pg.access /\ t.requests = pg.requests
       /\ t.loaded = loaded /\ t.snapshot = snapshot /\ t.generation = pg.generation
       /\ t.shown = shown /\ t.query = pg.query /\ t.older = pg.older
  BY <1>1, <1>7, <1>8 DEF PagerType
<1>11. pg.access \in Seq(Pages) /\ IsInjective(pg.access)
  BY <1>1 DEF PagerType, Consistent, Called
<1>12. PICK kept \in Seq(Pages) : kept = Kept(pg.access) /\ IsInjective(kept)
  BY <1>11, KeptOnce
<1>13. PICK left : left = [p \in Pages |-> IF p \in ToSet(kept) THEN shown[p] ELSE Blank]
  OBVIOUS
<1>14. left \in [Pages -> Shape] /\ \A p \in Pages \intersect ToSet(kept) : left[p] = shown[p]
  BY <1>6, <1>7, <1>13
<1>15. PICK rest \in SUBSET Pages : rest = loaded \intersect ToSet(kept)
  OBVIOUS
<1>16. PICK u : u = [t EXCEPT !.access = kept, !.loaded = rest, !.shown = left]
  OBVIOUS
<1>17. Trimmed(t) = u
  BY <1>10, <1>12, <1>13, <1>15, <1>16 DEF Trimmed, Kept
<1>18. /\ u \in PagerType /\ u.access = kept /\ u.requests = pg.requests
       /\ u.loaded = rest /\ u.snapshot = snapshot /\ u.generation = pg.generation
       /\ u.shown = left /\ u.query = pg.query /\ u.older = pg.older
  BY <1>10, <1>12, <1>14, <1>15, <1>16 DEF PagerType
<1>19. Called(u)
  BY <1>12, <1>15, <1>18 DEF Consistent, Called, Current
<1>20. Fits => OneSnapshot(u) /\ Promised(u)
  <2> SUFFICES ASSUME Fits PROVE OneSnapshot(u) /\ Promised(u)
    OBVIOUS
  <2>1. kept = pg.access /\ rest = loaded
    <3>1. kept = pg.access
      BY <1>11, <1>12, NothingTrimmed
    <3> QED BY <1>4, <1>15, <3>1 DEF Consistent, Called
  <2>2. \A p \in loaded : left[p] = shown[p]
    BY <1>14, <1>15, <2>1
  <2>3. \A i \in DOMAIN pg.requests : Current(pg, pg.requests[i]) =>
          /\ pg.requests[i].page \in ToSet(pg.access) /\ Asked(pg, pg.requests[i])
          /\ pg.requests[i].page # r.page
    BY DEF Consistent, OneSnapshot, Current, InFlight
  <2>4. CASE r.page = 0
    <3>1. pg.snapshot = None /\ pg.loaded = {}
      BY <2>4 DEF Asked, Consistent, OneSnapshot
    <3>2. loaded = {0} /\ snapshot = r.answer.page.revision /\ snapshot # None
      BY <1>2, <1>3, <1>4, <2>4, <3>1
    <3>3. \A i \in DOMAIN pg.requests : ~Current(pg, pg.requests[i])
      BY <2>3, <2>4, <3>1 DEF Asked
    <3>4. AskedFor(pg, shown[0].query)
      BY <1>2, <1>7, <2>4 DEF Asked
    <3> QED BY <1>7, <1>18, <2>1, <2>2, <2>4, <3>2, <3>3, <3>4
          DEF OneSnapshot, AskedFor, Current, Promised
  <2>5. CASE r.page # 0
    <3>1. pg.snapshot # None /\ r.expected = pg.snapshot /\ ~r.replace /\ 0 \in pg.loaded
      BY <2>5 DEF Asked, Consistent, OneSnapshot
    <3>2. /\ snapshot = pg.snapshot /\ loaded = pg.loaded \union {r.page}
          /\ r.answer.page.revision = snapshot
      BY <1>2, <1>3, <1>4, <2>5, <3>1
    <3>3. \A p \in loaded : shown[p].revision = snapshot
      BY <1>5, <1>7, <3>1, <3>2 DEF Consistent, OneSnapshot
    <3>4. \A p \in loaded : AskedFor(pg, shown[p].query)
      <4>1. AskedFor(pg, shown[r.page].query)
        BY <1>2, <1>7 DEF Asked
      <4>2. \A p \in pg.loaded : p # r.page => AskedFor(pg, shown[p].query)
        BY <1>1, <1>5, <3>1 DEF Consistent, OneSnapshot, PagerType
      <4> QED BY <3>2, <4>1, <4>2
    <3> QED BY <1>18, <2>1, <2>2, <2>3, <3>1, <3>2, <3>3, <3>4
          DEF OneSnapshot, Current, Asked, AskedFor, Promised
  <2> QED BY <2>4, <2>5
<1> QED BY <1>9, <1>17, <1>18, <1>19, <1>20 DEF Consistent

\* A pager that restarts shows nothing and asks for the first page alone.
LEMMA RestartedKeeps ==
  ASSUME NEW pg, Consistent(pg)
  PROVE  Consistent(Restarted(pg)) /\ Promised(Restarted(pg))
<1>1. PICK c : c = Cleared(pg)
  OBVIOUS
<1>2. c \in PagerType
  BY <1>1, ClearedKeeps DEF Consistent
<1>3. PICK shown : shown = [p \in Pages |-> Blank]
  OBVIOUS
<1>4. shown \in [Pages -> Shape]
  BY <1>3, AssetPagerAssumption DEF Blank, Shape, None
<1>5. [c EXCEPT !.shown = shown]
        = [c EXCEPT !.shown = shown, !.query = c.query, !.announced = c.announced]
  BY <1>2 DEF PagerType
<1>6. c.query \in Nat /\ c.announced \in BOOLEAN
  BY <1>2 DEF PagerType
<1>7. PICK t : t = [c EXCEPT !.shown = shown, !.query = c.query, !.announced = c.announced]
  OBVIOUS
<1>8. Consistent(Loading(t, 0, TRUE)) /\ Promised(Loading(t, 0, TRUE))
  BY <1>1, <1>4, <1>6, <1>7, AnewKeeps
<1>9. Restarted(pg) = Loading(t, 0, TRUE)
  BY <1>1, <1>3, <1>5, <1>7 DEF Restarted
<1> QED BY <1>8, <1>9

\* What is of an older query is marked, before the pager begins again and after.
LEMMA LabelledKeeps ==
  ASSUME NEW pg, Consistent(pg), NEW query \in Nat
  PROVE  LET t == [pg EXCEPT !.query = query, !.older = TRUE]
         IN  Consistent(t) /\ (Promised(pg) => Promised(t))
<1>1. PICK t : t = [pg EXCEPT !.query = query, !.older = TRUE]
  OBVIOUS
<1>2. pg \in PagerType
  BY DEF Consistent
<1>3. /\ t \in PagerType /\ t.access = pg.access /\ t.requests = pg.requests
      /\ t.loaded = pg.loaded /\ t.snapshot = pg.snapshot /\ t.generation = pg.generation
      /\ t.shown = pg.shown /\ t.older
  BY <1>1, <1>2 DEF PagerType
<1>4. Called(t)
  BY <1>3 DEF Consistent, Called, Current
<1>5. Fits => OneSnapshot(t)
  BY <1>3 DEF Consistent, OneSnapshot, Current, Asked, AskedFor
<1>6. Promised(pg) => Promised(t)
  BY <1>3 DEF Promised, InFlight
<1> QED BY <1>1, <1>3, <1>4, <1>5, <1>6 DEF Consistent

LEMMA LeftKeeps ==
  ASSUME NEW pg, Consistent(pg)
  PROVE  Consistent([pg EXCEPT !.generation = @ + 1, !.query = @ + 1, !.older = TRUE])
<1>1. pg \in PagerType /\ pg.generation \in Nat /\ pg.query \in Nat
  BY DEF Consistent, PagerType
<1>2. PICK g \in Nat, query \in Nat : g = pg.generation + 1 /\ query = pg.query + 1
  BY <1>1
<1>3. PICK t : t = [pg EXCEPT !.generation = g, !.query = query, !.older = TRUE]
  OBVIOUS
<1>4. /\ t \in PagerType /\ t.access = pg.access /\ t.requests = pg.requests
      /\ t.loaded = pg.loaded /\ t.snapshot = pg.snapshot /\ t.generation = g
      /\ t.shown = pg.shown /\ t.older
  BY <1>1, <1>3 DEF PagerType
<1>5. \A i \in DOMAIN pg.requests :
        /\ Told(pg.requests[i])
        /\ pg.requests[i].generation <= g /\ pg.requests[i].generation # g
  BY <1>1, <1>2, RequestsTyped DEF Consistent, Called
<1>6. Called(t)
  BY <1>4, <1>5 DEF Consistent, Called, Current
<1>7. Fits => OneSnapshot(t)
  BY <1>4, <1>5 DEF Consistent, OneSnapshot, Current, AskedFor
<1> QED BY <1>2, <1>3, <1>4, <1>6, <1>7 DEF Consistent

\* An answer is a page of the revision that was asked for, or no page.
LEMMA AnswerKeeps ==
  ASSUME NEW pg, Consistent(pg), NEW i \in DOMAIN pg.requests, NEW a \in Answers,
         a.kind = "page" => /\ a.page.revision # None /\ a.page.query = pg.requests[i].query
                            /\ pg.requests[i].expected \in {None, a.page.revision}
  PROVE  /\ Consistent([pg EXCEPT !.requests[i].answer = a])
         /\ Promised(pg) => Promised([pg EXCEPT !.requests[i].answer = a])
<1>1. pg \in PagerType
  BY DEF Consistent
<1>2. PICK r \in Request : r = pg.requests[i]
  BY <1>1, RequestsTyped
<1>3. PICK s : s = [r EXCEPT !.answer = a]
  OBVIOUS
<1>4. /\ s \in Request /\ s.page = r.page /\ s.replace = r.replace /\ s.query = r.query
      /\ s.generation = r.generation /\ s.expected = r.expected /\ s.answer = a
  BY <1>2, <1>3 DEF Request
<1>5. PICK rs : rs = [pg.requests EXCEPT ![i] = s]
  OBVIOUS
<1>6. PICK t : t = [pg EXCEPT !.requests = rs]
  OBVIOUS
<1>7. [pg EXCEPT !.requests[i].answer = a] = t
  BY <1>2, <1>3, <1>5, <1>6
<1>8. /\ rs \in Seq(Request) /\ DOMAIN rs = DOMAIN pg.requests /\ rs[i] = s
      /\ \A j \in DOMAIN pg.requests : j # i => rs[j] = pg.requests[j]
  <2>1. pg.requests \in Seq(Request)
    BY <1>1 DEF PagerType
  <2> QED BY <1>4, <1>5, <2>1, ExceptSeq
<1>9. /\ t \in PagerType /\ t.access = pg.access /\ t.requests = rs
      /\ t.loaded = pg.loaded /\ t.snapshot = pg.snapshot /\ t.generation = pg.generation
      /\ t.shown = pg.shown /\ t.query = pg.query /\ t.older = pg.older
  BY <1>1, <1>6, <1>8 DEF PagerType
<1>10. \A j \in DOMAIN rs :
         /\ rs[j].page = pg.requests[j].page /\ rs[j].generation = pg.requests[j].generation
         /\ rs[j].query = pg.requests[j].query /\ rs[j].expected = pg.requests[j].expected /\ rs[j].replace = pg.requests[j].replace
  BY <1>2, <1>4, <1>8
<1>11. \A j \in DOMAIN rs : Told(rs[j])
  BY <1>2, <1>4, <1>8 DEF Consistent, Called, Told
<1>12. Called(t)
  BY <1>8, <1>9, <1>10, <1>11 DEF Consistent, Called, Current
<1>13. Fits => OneSnapshot(t)
  BY <1>8, <1>9, <1>10 DEF Consistent, OneSnapshot, Current, Asked, AskedFor
<1>14. Promised(pg) => Promised(t)
  BY <1>8, <1>9, <1>10 DEF Promised, InFlight
<1> QED BY <1>7, <1>9, <1>12, <1>13, <1>14 DEF Consistent

-----------------------------------------------------------------------------
(* The sheet and the core around it.                                       *)

PagerInv ==
  /\ revision \in 1 .. MaxRevision /\ news \in BOOLEAN /\ failed \in BOOLEAN
  /\ failures \in 0 .. MaxFailures /\ visible \in Pages
  /\ Consistent(pager)
  /\ Fits => failed \/ Promised(pager)

LEMMA FirstPage == 0 \in Pages
  BY AssetPagerAssumption DEF Pages

LEMMA PagerBegins ==
  ASSUME Init
  PROVE  PagerInv
<1>1. PICK none \in Seq(Pages) : none = << >> /\ DOMAIN none = {} /\ IsInjective(none)
  <2>1. << >> \in Seq(Pages) /\ DOMAIN << >> = {}
    BY EmptySeq
  <2>2. PICK none \in Seq(Pages) : none = << >> /\ DOMAIN none = {}
    BY <2>1
  <2>3. IsInjective(none)
    BY <2>2 DEF IsInjective
  <2> QED BY <2>2, <2>3
<1>2. PICK asked \in Seq(Request) : asked = << >> /\ DOMAIN asked = {}
  <2>1. << >> \in Seq(Request) /\ DOMAIN << >> = {}
    BY EmptySeq
  <2> QED BY <2>1
<1>3. PICK shown : shown = [p \in Pages |-> Blank]
  OBVIOUS
<1>4. shown \in [Pages -> Shape]
  BY <1>3, AssetPagerAssumption DEF Blank, Shape, None
<1>5. PICK pg : pg = [generation |-> 0, snapshot |-> None, access |-> none, loaded |-> {},
                      shown |-> shown, requests |-> asked, query |-> 0,
                      older |-> FALSE, announced |-> FALSE]
  OBVIOUS
<1>6. /\ pg \in PagerType /\ pg.snapshot = None /\ pg.loaded = {}
      /\ pg.access = none /\ pg.requests = asked
  BY <1>4, <1>5, AssetPagerAssumption DEF PagerType, None
<1>7. Consistent(pg)
  BY <1>1, <1>2, <1>6 DEF Consistent, Called, OneSnapshot
<1>8. pager = Loading(pg, 0, TRUE)
  BY <1>1, <1>2, <1>3, <1>5 DEF Init
<1>9. Consistent(pager) /\ Promised(pager)
  BY <1>6, <1>7, <1>8, FirstPage, LoadingKeeps
<1>10. /\ revision \in 1 .. MaxRevision /\ news \in BOOLEAN /\ failed \in BOOLEAN
       /\ failures \in 0 .. MaxFailures /\ visible \in Pages
  <2>1. /\ revision = 1 /\ news = FALSE /\ failures = 0 /\ visible = 0 /\ failed = FALSE
        /\ MaxRevision \in Nat \ {0} /\ MaxFailures \in Nat
    BY AssetPagerAssumption DEF Init
  <2>2. revision \in 1 .. MaxRevision /\ failures \in 0 .. MaxFailures
    BY <2>1
  <2>3. news \in BOOLEAN /\ failed \in BOOLEAN
    BY <2>1
  <2> QED BY <2>1, <2>2, <2>3, FirstPage
<1> QED BY <1>9, <1>10 DEF PagerInv

LEMMA AnswerStep ==
  ASSUME PagerInv, Answer
  PROVE  PagerInv'
<1>1. /\ revision \in 1 .. MaxRevision /\ Consistent(pager) /\ failures \in 0 .. MaxFailures
      /\ revision # None /\ revision \in None .. MaxRevision
  BY AssetPagerAssumption DEF PagerInv, None
<1>2. Blank \in Shape
  BY AssetPagerAssumption DEF Blank, Shape, None
<1>3. PICK i \in DOMAIN pager.requests :
        /\ UNCHANGED <<revision, news, visible, failed>>
        /\ \/ /\ failures < MaxFailures /\ failures' = failures + 1
              /\ pager' = [pager EXCEPT !.requests[i].answer = Is("failed")]
           \/ /\ UNCHANGED failures
              /\ pager' = [pager EXCEPT !.requests[i].answer = Is("changed")]
           \/ /\ pager.requests[i].expected \in {None, revision} /\ UNCHANGED failures
              /\ pager' = [pager EXCEPT !.requests[i].answer =
                   [kind |-> "page", page |-> [revision |-> revision,
                      query |-> pager.requests[i].query, full |-> pager.requests[i].page \notin Truncates]]]
  BY DEF Answer
<1>4. PICK a \in Answers :
        /\ pager' = [pager EXCEPT !.requests[i].answer = a]
        /\ a.kind = "page" => /\ a.page.revision # None
                              /\ a.page.query = pager.requests[i].query
                              /\ pager.requests[i].expected \in {None, a.page.revision}
  <2>1. \A kind \in {"failed", "changed"} : Is(kind) \in Answers /\ Is(kind).kind # "page"
    BY <1>2 DEF Is, Answers, Shape
  <2>2. CASE pager' = [pager EXCEPT !.requests[i].answer = Is("failed")]
    BY <2>1, <2>2
  <2>3. CASE pager' = [pager EXCEPT !.requests[i].answer = Is("changed")]
    BY <2>1, <2>3
  <2>4. CASE /\ pager.requests[i].expected \in {None, revision}
             /\ pager' = [pager EXCEPT !.requests[i].answer =
                   [kind |-> "page", page |-> [revision |-> revision,
                      query |-> pager.requests[i].query, full |-> pager.requests[i].page \notin Truncates]]]
    <3>1. PICK full \in BOOLEAN : full = (pager.requests[i].page \notin Truncates)
      OBVIOUS
    <3>2. PICK page : page = [revision |-> revision, query |-> pager.requests[i].query, full |-> full]
      OBVIOUS
    <3>3. /\ page \in Shape /\ page.revision = revision
          /\ page.query = pager.requests[i].query
      <4>1. pager.requests[i].query \in Nat
        BY <1>1, RequestsTyped DEF Consistent, Request
      <4> QED BY <1>1, <3>2, <4>1 DEF Shape
    <3>4. PICK a : a = [kind |-> "page", page |-> page]
      OBVIOUS
    <3>5. a \in Answers /\ a.page = page
      BY <3>3, <3>4 DEF Answers, Shape
    <3>6. pager' = [pager EXCEPT !.requests[i].answer = a]
      BY <2>4, <3>1, <3>2, <3>4
    <3> QED BY <1>1, <2>4, <3>3, <3>5, <3>6
  <2> QED BY <1>3, <2>2, <2>3, <2>4
<1>5. PICK u : u = [pager EXCEPT !.requests[i].answer = a]
  OBVIOUS
<1>6. Consistent(u) /\ (Promised(pager) => Promised(u))
  BY <1>1, <1>4, <1>5, AnswerKeeps
<1>7. pager' = u
  BY <1>4, <1>5
<1>8. Consistent(pager') /\ (Fits => failed' \/ Promised(pager'))
  BY <1>3, <1>6, <1>7 DEF PagerInv
<1>9. failures' \in 0 .. MaxFailures
  BY <1>1, <1>3, AssetPagerAssumption
<1> QED BY <1>3, <1>8, <1>9 DEF PagerInv

LEMMA ReceiveStep ==
  ASSUME PagerInv, Receive
  PROVE  PagerInv'
<1>1. Consistent(pager) /\ visible \in Pages /\ failed \in BOOLEAN
  BY DEF PagerInv
<1>2. pager.requests # << >>
  BY DEF Receive, DropLate, ReceiveError, ReceiveChanged, ReceivePage
<1>3. PICK t : t = Received
  OBVIOUS
<1>4. PICK r : r = Head(pager.requests)
  OBVIOUS
<1>5. /\ Consistent(t) /\ r \in Request /\ Told(r)
      /\ ~Late(r) => /\ Current(t, r) /\ ~InFlight(t, r.page)
                     /\ Fits => Asked(t, r) /\ r.page \in ToSet(t.access)
      /\ Late(r) /\ Promised(pager) => Promised(t)
  <2>1. PICK pg : pg = pager
    OBVIOUS
  <2>2. Consistent(pg) /\ pg.requests # << >>
    BY <1>1, <1>2, <2>1
  <2>3. t = [pg EXCEPT !.requests = Tail(@)] /\ r = Head(pg.requests)
    BY <1>3, <1>4, <2>1 DEF Received
  <2>4. Late(r) <=> ~Current(pg, r)
    BY <2>1 DEF Late, Current
  <2> QED BY <2>1, <2>2, <2>3, <2>4, ReceivedKeeps
<1>6. r.after \in Seq(Pages)
  BY <1>5 DEF Request
<1>7. CASE DropLate
  <2>1. pager' = t /\ UNCHANGED <<revision, news, failures, visible, failed>>
    BY <1>3, <1>7 DEF DropLate
  <2>2. Late(r)
    BY <1>4, <1>7 DEF DropLate
  <2>3. Consistent(pager') /\ (Fits => failed' \/ Promised(pager'))
    BY <1>5, <2>1, <2>2 DEF PagerInv
  <2> QED BY <2>1, <2>3 DEF PagerInv
<1>8. CASE ReceiveError
  <2>1. /\ pager' = Resumed(t, r.after) /\ failed' = TRUE /\ visible' = 0
        /\ UNCHANGED <<revision, news, failures>>
    BY <1>3, <1>4, <1>8 DEF ReceiveError
  <2>2. PICK u : u = Resumed(t, r.after)
    OBVIOUS
  <2>3. Consistent(u) /\ pager' = u
    BY <1>5, <1>6, <2>1, <2>2, ResumedKeeps
  <2>4. Consistent(pager')
    BY <2>3
  <2> QED BY <2>1, <2>4, FirstPage DEF PagerInv
<1>9. CASE ReceiveChanged
  <2>1. /\ pager' = Restarted(t) /\ failed' = FALSE /\ visible' = 0
        /\ UNCHANGED <<revision, news, failures>>
    BY <1>3, <1>9 DEF ReceiveChanged
  <2>2. PICK u : u = Restarted(t)
    OBVIOUS
  <2>3. Consistent(u) /\ Promised(u) /\ pager' = u
    BY <1>5, <2>1, <2>2, RestartedKeeps
  <2>4. Consistent(pager') /\ Promised(pager')
    BY <2>3
  <2> QED BY <2>1, <2>4, FirstPage DEF PagerInv
<1>10. CASE ReceivePage
  <2>1. PICK u : u = Resumed(Loaded(t, r), r.after)
    OBVIOUS
  <2>2. /\ ~Late(r) /\ r.answer.kind = "page" /\ failed' = FALSE
        /\ pager' = IF failed THEN Loading(u, visible, FALSE) ELSE u
        /\ UNCHANGED <<revision, news, failures, visible>>
    BY <1>3, <1>4, <1>10, <2>1 DEF ReceivePage
  <2>3. PICK l : l = Loaded(t, r)
    OBVIOUS
  <2>4. Consistent(l) /\ (Fits => Promised(l))
    BY <1>5, <2>2, <2>3, LoadedKeeps
  <2>5. Consistent(u) /\ (Fits => Promised(u))
    BY <1>6, <2>1, <2>3, <2>4, ResumedKeeps
  <2>6. PICK v : v = IF failed THEN Loading(u, visible, FALSE) ELSE u
    OBVIOUS
  <2>7. Consistent(v) /\ (Fits => Promised(v))
    <3>1. FALSE \in BOOLEAN
      OBVIOUS
    <3> QED BY <1>1, <2>5, <2>6, <3>1, LoadingKeeps
  <2>8. Consistent(pager') /\ (Fits => Promised(pager'))
    BY <2>2, <2>6, <2>7
  <2> QED BY <2>2, <2>8 DEF PagerInv
<1> QED BY <1>7, <1>8, <1>9, <1>10 DEF Receive

LEMMA RefreshStep ==
  ASSUME PagerInv, Refresh
  PROVE  PagerInv'
<1>1. PICK c : c = Cleared(pager)
  OBVIOUS
<1>2. Consistent(pager) /\ c \in PagerType
  BY <1>1, ClearedKeeps DEF PagerInv, Consistent
<1>3. PICK announced \in BOOLEAN : announced = (c.announced \/ news)
  OBVIOUS
<1>4. c.shown \in [Pages -> Shape] /\ c.query \in Nat
  BY <1>2 DEF PagerType
<1>5. PICK d : d = [c EXCEPT !.shown = c.shown, !.query = c.query, !.announced = announced]
  OBVIOUS
<1>6. [c EXCEPT !.announced = announced] = d
  BY <1>2, <1>5 DEF PagerType
<1>7. PICK t : t = Loading(d, 0, TRUE)
  OBVIOUS
<1>8. Consistent(t) /\ Promised(t)
  BY <1>1, <1>2, <1>4, <1>5, <1>7, AnewKeeps
<1>9. [c EXCEPT !.announced = @ \/ news] = d
  BY <1>3, <1>6
<1>10. pager' = t /\ news' = FALSE /\ UNCHANGED <<revision, failures, visible, failed>>
  BY <1>1, <1>7, <1>9 DEF Refresh
<1>11. Consistent(pager') /\ Promised(pager')
  BY <1>8, <1>10
<1> QED BY <1>10, <1>11 DEF PagerInv

\* An older call of refresh asks for a page of another query, and says so.
LEMMA RefreshOlderStep ==
  ASSUME PagerInv, RefreshOlder
  PROVE  PagerInv'
<1>1. PICK c : c = Cleared(pager)
  OBVIOUS
<1>2. Consistent(pager) /\ pager \in PagerType /\ c \in PagerType
  BY <1>1, ClearedKeeps DEF PagerInv, Consistent
<1>3. PICK q \in 0 .. pager.query - 1 :
        pager' = [Loading([c EXCEPT !.query = q], 0, TRUE)
                    EXCEPT !.query = pager.query, !.older = TRUE]
  BY <1>1 DEF RefreshOlder
<1>4. c.shown \in [Pages -> Shape] /\ c.announced \in BOOLEAN /\ q \in Nat
  BY <1>2 DEF PagerType
<1>5. PICK d : d = [c EXCEPT !.shown = c.shown, !.query = q, !.announced = c.announced]
  OBVIOUS
<1>6. [c EXCEPT !.query = q] = d
  BY <1>2, <1>5 DEF PagerType
<1>7. PICK t : t = Loading(d, 0, TRUE)
  OBVIOUS
<1>8. Consistent(t) /\ Promised(t)
  BY <1>1, <1>2, <1>4, <1>5, <1>7, AnewKeeps
<1>9. PICK query \in Nat : query = pager.query
  BY <1>2 DEF PagerType
<1>10. PICK u : u = [t EXCEPT !.query = query, !.older = TRUE]
  OBVIOUS
<1>11. Consistent(u) /\ Promised(u)
  BY <1>8, <1>10, LabelledKeeps
<1>12. pager' = u
  BY <1>3, <1>6, <1>7, <1>9, <1>10
<1>13. Consistent(pager') /\ Promised(pager')
  BY <1>11, <1>12
<1>14. UNCHANGED <<revision, news, failures, visible, failed>>
  BY DEF RefreshOlder
<1> QED BY <1>13, <1>14 DEF PagerInv

\* A new query ends the generation, whatever the sheet asks for then.
LEMMA NewQueryStep ==
  ASSUME PagerInv, NewQuery
  PROVE  PagerInv'
<1>1. PICK pg : pg = pager
  OBVIOUS
<1>2. PICK left : left = [pg EXCEPT !.generation = @ + 1, !.query = @ + 1, !.older = TRUE]
  OBVIOUS
<1>3. Consistent(left)
  BY <1>1, <1>2, LeftKeeps DEF PagerInv
<1>4. PICK called : called = IF SheetIsThere THEN Loading(left, visible, FALSE) ELSE left
  OBVIOUS
<1>5. Consistent(called)
  <2>1. FALSE \in BOOLEAN /\ visible \in Pages
    BY DEF PagerInv
  <2> QED BY <1>3, <1>4, <2>1, LoadingKeeps
<1>6. PICK begins : begins = Restarted(called)
  OBVIOUS
<1>7. Consistent(begins) /\ Promised(begins)
  BY <1>5, <1>6, RestartedKeeps
<1>8. PICK again : again = Loading(Cleared(begins), 0, TRUE)
  OBVIOUS
<1>9. Consistent(again) /\ Promised(again)
  <2>1. PICK c : c = Cleared(begins)
    OBVIOUS
  <2>2. Consistent(c) /\ c.snapshot = None
    BY <1>7, <2>1, ClearedKeeps
  <2> QED BY <1>8, <2>1, <2>2, FirstPage, LoadingKeeps
<1>10. pager' = IF pg.announced THEN again ELSE begins
  BY <1>1, <1>2, <1>4, <1>6, <1>8 DEF NewQuery, Turned
<1>11. Consistent(pager') /\ Promised(pager')
  BY <1>7, <1>9, <1>10
<1>12. failed' = FALSE /\ visible' = 0 /\ UNCHANGED <<revision, news, failures>>
  BY DEF NewQuery
<1> QED BY <1>11, <1>12, FirstPage DEF PagerInv

LEMMA ScrollStep ==
  ASSUME PagerInv, NEW p \in Pages, Scroll(p)
  PROVE  PagerInv'
<1>1. PICK t : t = Loading(pager, p, FALSE)
  OBVIOUS
<1>2. Consistent(t) /\ (Promised(pager) => Promised(t))
  <2>1. FALSE \in BOOLEAN /\ Consistent(pager)
    BY DEF PagerInv
  <2> QED BY <1>1, <2>1, LoadingKeeps
<1>3. pager' = t /\ visible' = p /\ UNCHANGED <<revision, news, failures, failed>>
  BY <1>1 DEF Scroll
<1>4. Consistent(pager') /\ (Fits => failed' \/ Promised(pager'))
  BY <1>2, <1>3 DEF PagerInv
<1> QED BY <1>3, <1>4 DEF PagerInv

LEMMA CommitStep ==
  ASSUME PagerInv, Commit
  PROVE  PagerInv'
<1>1. revision' \in 1 .. MaxRevision
  <2>1. revision \in 1 .. MaxRevision /\ revision < MaxRevision /\ revision' = revision + 1
    BY DEF Commit, PagerInv
  <2> QED BY <2>1, AssetPagerAssumption
<1>2. news' \in BOOLEAN
  BY Zenon DEF Commit, PagerInv
<1>3. UNCHANGED <<failures, visible, failed, pager>>
  BY DEF Commit
<1> QED BY <1>1, <1>2, <1>3 DEF PagerInv, Consistent, Called, OneSnapshot, Promised

\* In whatever order events, answers, failures and windows meet, no page
\* is on its way twice since the pager last began again, and when the listing fits
\* the cache all it has loaded or asked for is of the snapshot of the first page
\* (the refs of useAssetPager).
THEOREM PagerInvariance == Spec => []PagerInv
<1>1. Init => PagerInv
  BY PagerBegins
<1>2. PagerInv /\ [Next]_vars => PagerInv'
  <2> SUFFICES ASSUME PagerInv, [Next]_vars PROVE PagerInv'
    OBVIOUS
  <2>1. CASE Answer
    BY <2>1, AnswerStep
  <2>2. CASE Receive
    BY <2>2, ReceiveStep
  <2>3. CASE Refresh
    BY <2>3, RefreshStep
  <2>4. CASE NewQuery
    BY <2>4, NewQueryStep
  <2>5. CASE RefreshOlder
    BY <2>5, RefreshOlderStep
  <2>6. CASE Commit
    BY <2>6, CommitStep
  <2>7. CASE \E p \in Pages : Scroll(p)
    BY <2>7, ScrollStep
  <2>8. CASE UNCHANGED vars
    BY <2>8 DEF vars, PagerInv, Consistent, Called, OneSnapshot, Promised, InFlight
  <2> QED BY <2>1, <2>2, <2>3, <2>4, <2>5, <2>6, <2>7, <2>8 DEF Next
<1> QED BY <1>1, <1>2, PTL DEF Spec

\* The refs of the pager keep their types, no page is in the order of access
\* twice, and what is loaded is in that order (loadPage, retainedPageOffsets).
THEOREM PagerTypeCorrect == Spec => []TypeOK
<1>1. PagerInv => TypeOK
  <2> SUFFICES ASSUME PagerInv PROVE TypeOK
    OBVIOUS
  <2>1. PICK pg : pg = pager
    OBVIOUS
  <2>2. pg \in PagerType /\ Called(pg)
    BY <2>1 DEF PagerInv, Consistent
  <2>3. \A i \in DOMAIN pg.requests :
          pg.requests[i].page \in Pages /\ pg.requests[i].answer \in Answers
    BY <2>2, RequestsTyped DEF Request
  <2>4. /\ pg.generation \in Nat /\ pg.query \in Nat
        /\ pg.older \in BOOLEAN /\ pg.announced \in BOOLEAN /\ pg.snapshot \in None .. MaxRevision
        /\ IsInjective(pg.access) /\ ToSet(pg.access) \subseteq Pages
        /\ pg.loaded \subseteq ToSet(pg.access)
        /\ \A p \in Pages : pg.shown[p].revision \in None .. MaxRevision
    BY <2>2 DEF PagerType, Called, Shape, ToSet
  <2> QED BY <2>1, <2>3, <2>4 DEF PagerInv, TypeOK
<1> QED BY <1>1, PagerInvariance, PTL

\* The pages the sheet takes for loaded were read at one revision and, but for a
\* refresh of an older call, for the query the person sees, whatever was refreshed
\* or asked anew while answers were on their way, when the listing fits the cache
\* (loadPage, restartSnapshot).  With fewer places than pages it need not be so.
THEOREM PagerShowsOneSnapshot ==
  ASSUME LastPage < MaxCached
  PROVE  Spec => []OneSnapshotShown
<1>1. PagerInv => OneSnapshotShown
  BY DEF Fits, PagerInv, Consistent, OneSnapshot, AskedFor, OneSnapshotShown
<1> QED BY <1>1, PagerInvariance, PTL

\* Whenever the sheet is without its first page and shows no error, a request for
\* that page is on its way, whatever was refreshed, restarted or dropped: what
\* useAssetPager must do to come back it has done (SheetComesBack says it does).
THEOREM MissingFirstPageIsAsked ==
  ASSUME LastPage < MaxCached
  PROVE  Spec => [](0 \in pager.loaded \/ failed \/ InFlight(pager, 0))
<1>1. PagerInv => 0 \in pager.loaded \/ failed \/ InFlight(pager, 0)
  BY DEF Fits, PagerInv, Promised
<1> QED BY <1>1, PagerInvariance, PTL
=============================================================================
