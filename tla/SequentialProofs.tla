-------------------------- MODULE SequentialProofs --------------------------
(***************************************************************************)
(* The LRU cache and the allocating index for every number of keys and     *)
(* values, every size of the cache, of the file and of the ring.           *)
(*                                                                         *)
(* The cache: LruInv says that the nodes of the list are a chain from the  *)
(* head to the tail, linked in both directions, with the task of each      *)
(* node, in the order of recent (Holds).  Unlink and AddToHead are then    *)
(* removal from and insertion into that chain, whatever it is.             *)
(*                                                                         *)
(* The index: AllocInv says what every byte of the store is.  A byte of a  *)
(* value, of its terminator, or a zero that nothing covers (ValuesStored,  *)
(* ValuesApart, RestIsZero); the list is in order and of exactly the bytes *)
(* that nothing covers (ListOfFree).  With that, strlen finds the length   *)
(* of each value (StringIsValue), Delete frees what the value has, and a   *)
(* zero is free exactly when the byte before it is zero (FreeIsFreeByte),  *)
(* which is what Start goes by.  What the operators on the list do to its  *)
(* bytes is stated byte by byte (InBlock), apart from the index.           *)
(***************************************************************************)
EXTENDS MCSequential, FiniteSetTheorems, SequenceTheorems, WellFoundedInduction, TLAPS

-----------------------------------------------------------------------------
(* Sequences *)

LEMMA RemoveAtFacts ==
  ASSUME NEW S, NEW s \in Seq(S), NEW p \in 1 .. Len(s)
  PROVE  /\ RemoveAt(s, p) \in Seq(S)
         /\ Len(RemoveAt(s, p)) = Len(s) - 1
         /\ \A i \in 1 .. Len(s) - 1 : RemoveAt(s, p)[i] = IF i < p THEN s[i] ELSE s[i + 1]
<1> DEFINE a == SubSeq(s, 1, p - 1)
           b == SubSeq(s, p + 1, Len(s))
<1>1. Len(s) \in Nat /\ \A i \in 1 .. Len(s) : s[i] \in S
  BY LenProperties, ElementOfSeq
<1>2. /\ a \in Seq(S) /\ Len(a) = p - 1
      /\ \A i \in 1 .. p - 1 : a[i] = s[i]
  <2>1. \A i \in 1 .. p - 1 : s[i] \in S
    BY <1>1
  <2> QED BY <1>1, <2>1, SubSeqProperties
<1>3. /\ b \in Seq(S) /\ Len(b) = Len(s) - p
      /\ \A i \in 1 .. Len(s) - p : b[i] = s[p + i]
  <2>1. \A i \in p + 1 .. Len(s) : s[i] \in S
    BY <1>1
  <2> QED BY <1>1, <2>1, SubSeqProperties
<1>4. RemoveAt(s, p) = a \o b
  BY DEF RemoveAt
<1> HIDE DEF a, b
<1>5. /\ a \o b \in Seq(S) /\ Len(a \o b) = Len(s) - 1
      /\ \A i \in 1 .. Len(s) - 1 : (a \o b)[i] = IF i <= p - 1 THEN a[i] ELSE b[i - (p - 1)]
  BY <1>1, <1>2, <1>3, ConcatProperties
<1>6. ASSUME NEW i \in 1 .. Len(s) - 1
      PROVE  (a \o b)[i] = IF i < p THEN s[i] ELSE s[i + 1]
  <2>1. CASE i < p
    BY <1>1, <1>2, <1>5, <2>1
  <2>2. CASE i >= p
    <3>1. i - (p - 1) \in 1 .. Len(s) - p /\ p + (i - (p - 1)) = i + 1 /\ ~(i <= p - 1)
      BY <1>1, <2>2
    <3>2. (a \o b)[i] = b[i - (p - 1)]
      BY <1>5, <3>1
    <3>3. b[i - (p - 1)] = s[p + (i - (p - 1))]
      BY <1>3, <3>1
    <3> QED BY <1>1, <2>2, <3>1, <3>2, <3>3
  <2>3. i < p \/ i >= p
    BY <1>1
  <2> QED BY <2>1, <2>2, <2>3
<1> QED BY <1>4, <1>5, <1>6

LEMMA PrependFacts ==
  ASSUME NEW S, NEW s \in Seq(S), NEW x \in S
  PROVE  /\ << x >> \o s \in Seq(S)
         /\ Len(<< x >> \o s) = Len(s) + 1
         /\ (<< x >> \o s)[1] = x
         /\ \A i \in 2 .. Len(s) + 1 : (<< x >> \o s)[i] = s[i - 1]
<1>1. << x >> \in Seq(S) /\ Len(<< x >>) = 1 /\ << x >>[1] = x /\ Len(s) \in Nat
  BY LenProperties
<1> QED BY <1>1, ConcatProperties

-----------------------------------------------------------------------------
(* The list of the cache *)

LruNode == Lru!LruNodes
Heap == Lru!Heap
CachedTask == Keys \X Values

\* The chain of the tasks r whose nodes the index x names.
ChainOf(r, x) == << Lru!lruHead >> \o [i \in DOMAIN r |-> x[r[i][1]]]

Distinct(c) == \A i, j \in 1 .. Len(c) : c[i] = c[j] => i = j

\* The links l are those of the chain c.
Linked(l, c) ==
  /\ \A i \in 1 .. Len(c) : l.next[c[i]] = IF i < Len(c) THEN c[i + 1] ELSE NULL
  /\ \A i \in 1 .. Len(c) : l.prev[c[i]] = IF i = 1 THEN NULL ELSE c[i - 1]
  /\ l.tail = c[Len(c)]

LinkTypes ==
  [next : [LruNode -> LruNode \cup {NULL}], prev : [LruNode -> LruNode \cup {NULL}], tail : LruNode]

Chains == {c \in Seq(LruNode) : Len(c) > 0 /\ c[1] = Lru!lruHead /\ Distinct(c)}

LEMMA LruNodeFacts == /\ LruNode \subseteq Nat /\ Heap \subseteq LruNode /\ Lru!lruHead \in LruNode
                      /\ NULL \notin LruNode /\ Lru!lruHead \notin Heap
BY LruAssumption DEF LruNode, Heap, Lru!LruNodes, Lru!Heap, Lru!lruHead

\* A node that is taken out of a chain.
LEMMA UnlinkLinked ==
  ASSUME NEW l \in LinkTypes, NEW c \in Chains, Linked(l, c), NEW p \in 2 .. Len(c)
  PROVE  /\ RemoveAt(c, p) \in Chains
         /\ Lru!Unlink(Lru!MoveTailOff(l, c[p]), c[p]) \in LinkTypes
         /\ Linked(Lru!Unlink(Lru!MoveTailOff(l, c[p]), c[p]), RemoveAt(c, p))
<1> DEFINE n == c[p]
           a == c[p - 1]
           b == IF p < Len(c) THEN c[p + 1] ELSE NULL
           m == Lru!MoveTailOff(l, n)
           u == Lru!Unlink(m, n)
           d == RemoveAt(c, p)
<1>1. Len(c) \in Nat /\ \A i \in 1 .. Len(c) : c[i] \in LruNode
  BY LenProperties, ElementOfSeq DEF Chains
<1>2. /\ d \in Seq(LruNode) /\ Len(d) = Len(c) - 1
      /\ \A i \in 1 .. Len(c) - 1 : d[i] = IF i < p THEN c[i] ELSE c[i + 1]
  BY RemoveAtFacts DEF Chains
<1>3. l.next[n] = b /\ l.prev[n] = a /\ n \in LruNode /\ a \in LruNode /\ b \in LruNode \cup {NULL}
  BY <1>1 DEF Linked
<1>4. /\ m \in LinkTypes /\ m.next = l.next /\ m.prev = l.prev
      /\ m.tail = IF n = l.tail THEN a ELSE l.tail
  BY <1>3 DEF LinkTypes, Lru!MoveTailOff
<1>5. /\ u.tail = m.tail
      /\ u.next = [q \in LruNode |-> IF q = n THEN NULL ELSE IF q = a THEN b ELSE l.next[q]]
      /\ u.prev = [q \in LruNode |-> IF q = n THEN NULL ELSE IF q = b THEN a ELSE l.prev[q]]
      /\ u = [next |-> u.next, prev |-> u.prev, tail |-> u.tail]
  <2> HIDE DEF m, n
  <2>1. m.next[n] = b /\ m.prev[n] = a
    BY <1>3, <1>4
  <2> HIDE DEF a, b
  <2> QED BY <1>4, <2>1 DEF Lru!Unlink, LruNode
<1> HIDE DEF u, m
<1>6. u \in LinkTypes
  BY <1>3, <1>4, <1>5 DEF LinkTypes
<1>7. \A i, j \in 1 .. Len(c) : c[i] = c[j] => i = j
  BY DEF Chains, Distinct
<1>8. d \in Chains
  <2> HIDE DEF d
  <2>1. Distinct(d)
    <3> SUFFICES ASSUME NEW i \in 1 .. Len(d), NEW j \in 1 .. Len(d), d[i] = d[j] PROVE i = j
      BY DEF Distinct
    <3>1. (IF i < p THEN c[i] ELSE c[i + 1]) = (IF j < p THEN c[j] ELSE c[j + 1])
      BY <1>2
    <3>2. (IF i < p THEN i ELSE i + 1) = (IF j < p THEN j ELSE j + 1)
      BY <1>1, <1>2, <1>7, <3>1
    <3> QED BY <1>1, <1>2, <3>2
  <2> QED BY <1>1, <1>2, <2>1 DEF Chains
<1>9. Linked(u, d)
  <2> HIDE DEF d
  <2>1. ASSUME NEW i \in 1 .. Len(d)
        PROVE  u.next[d[i]] = IF i < Len(d) THEN d[i + 1] ELSE NULL
    <3>1. CASE i < p - 1
      <4>1. d[i] = c[i] /\ d[i] # n /\ d[i] # a /\ d[i] \in LruNode
        BY <1>1, <1>2, <1>7, <3>1
      <4>2. l.next[c[i]] = c[i + 1] /\ i < Len(d) /\ d[i + 1] = c[i + 1]
        BY <1>1, <1>2, <3>1 DEF Linked
      <4> QED BY <1>5, <4>1, <4>2
    <3>2. CASE i = p - 1
      <4>1. d[i] = a /\ a # n
        BY <1>1, <1>2, <1>7, <3>2
      <4>2. u.next[d[i]] = b
        BY <1>3, <1>5, <4>1
      <4>3. i < Len(d) => d[i + 1] = c[p + 1]
        BY <1>1, <1>2, <3>2
      <4> QED BY <1>1, <1>2, <3>2, <4>2, <4>3
    <3>3. CASE i >= p
      <4>1. d[i] = c[i + 1] /\ d[i] # n /\ d[i] # a /\ d[i] \in LruNode
        BY <1>1, <1>2, <1>7, <3>3
      <4>2. l.next[c[i + 1]] = IF i + 1 < Len(c) THEN c[i + 2] ELSE NULL
        BY <1>1, <1>2 DEF Linked
      <4>3. i < Len(d) => d[i + 1] = c[i + 2]
        BY <1>1, <1>2, <3>3
      <4> QED BY <1>1, <1>2, <1>5, <4>1, <4>2, <4>3
    <3> QED BY <1>1, <1>2, <3>1, <3>2, <3>3
  <2>2. ASSUME NEW i \in 1 .. Len(d)
        PROVE  u.prev[d[i]] = IF i = 1 THEN NULL ELSE d[i - 1]
    <3>1. CASE i < p
      <4>1. d[i] = c[i] /\ d[i] # n /\ d[i] # b /\ d[i] \in LruNode
        BY <1>1, <1>2, <1>7, <3>1, LruNodeFacts
      <4>2. l.prev[c[i]] = IF i = 1 THEN NULL ELSE c[i - 1]
        BY <1>1, <1>2, <3>1 DEF Linked
      <4>3. i # 1 => d[i - 1] = c[i - 1]
        BY <1>1, <1>2, <3>1
      <4> QED BY <1>5, <4>1, <4>2, <4>3
    <3>2. CASE i = p
      <4>1. d[i] = b /\ b # n /\ b \in LruNode
        BY <1>1, <1>2, <1>7, <3>2
      <4>2. d[i - 1] = a
        BY <1>1, <1>2, <3>2
      <4> QED BY <1>5, <3>2, <4>1, <4>2
    <3>3. CASE i > p
      <4>1. d[i] = c[i + 1] /\ d[i] # n /\ d[i] # b /\ d[i] \in LruNode
        BY <1>1, <1>2, <1>7, <3>3
      <4>2. l.prev[c[i + 1]] = c[i]
        BY <1>1, <1>2 DEF Linked
      <4>3. d[i - 1] = c[i]
        BY <1>1, <1>2, <3>3
      <4> QED BY <1>1, <1>2, <1>5, <3>3, <4>1, <4>2, <4>3
    <3> QED BY <1>1, <1>2, <3>1, <3>2, <3>3
  <2>3. u.tail = d[Len(d)]
    <3>1. l.tail = c[Len(c)]
      BY DEF Linked
    <3>2. CASE p = Len(c)
      <4>1. d[Len(d)] = a
        BY <1>1, <1>2, <3>2
      <4> QED BY <1>4, <1>5, <3>1, <3>2, <4>1
    <3>3. CASE p < Len(c)
      <4>1. d[Len(d)] = c[Len(c)] /\ n # c[Len(c)]
        BY <1>1, <1>2, <1>7, <3>3
      <4> QED BY <1>4, <1>5, <3>1, <4>1
    <3> QED BY <1>1, <3>2, <3>3
  <2> QED BY <2>1, <2>2, <2>3 DEF Linked
<1> QED BY <1>6, <1>8, <1>9 DEF u, m

LEMMA AddLinked ==
  ASSUME NEW l \in LinkTypes, NEW c \in Chains, Linked(l, c), NEW n \in Heap,
         \A i \in 1 .. Len(c) : c[i] # n,
         NEW d \in Seq(LruNode), Len(d) = Len(c) + 1, d[1] = Lru!lruHead, d[2] = n,
         \A i \in 2 .. Len(c) : d[i + 1] = c[i]
  PROVE  d \in Chains /\ Lru!AddToHead(l, n) \in LinkTypes /\ Linked(Lru!AddToHead(l, n), d)
<1> DEFINE h == Lru!lruHead
           b == IF Len(c) > 1 THEN c[2] ELSE NULL
           u == Lru!AddToHead(l, n)
<1>0. Len(c) \in Nat /\ Len(c) > 0
  BY LenProperties DEF Chains
<1>1. Len(c) \in Nat \ {0} /\ c[1] = h /\ \A i \in 1 .. Len(c) : c[i] \in LruNode
  BY LenProperties, ElementOfSeq DEF Chains
<1>2. \A i, j \in 1 .. Len(c) : c[i] = c[j] => i = j
  BY DEF Chains, Distinct
<1>3. l.next[h] = b /\ b \in LruNode \cup {NULL} /\ n \in LruNode /\ h \in LruNode /\ n # h /\ n # NULL /\ h # NULL
  BY <1>1, LruNodeFacts DEF Linked
<1>4. /\ u = [next |-> u.next, prev |-> u.prev, tail |-> u.tail]
      /\ u.next = [[l.next EXCEPT ![n] = b] EXCEPT ![h] = n]
      /\ u.prev = [q \in LruNode |-> IF q = n THEN h ELSE IF q = b THEN n ELSE l.prev[q]]
      /\ u.tail = IF l.tail = h THEN n ELSE l.tail
  <2> HIDE DEF b
  <2> QED BY <1>3 DEF Lru!AddToHead, LruNode, LinkTypes
<1> HIDE DEF u
<1>5. u \in LinkTypes
  <2> HIDE DEF b
  <2>1. l.next \in [LruNode -> LruNode \cup {NULL}] /\ l.prev \in [LruNode -> LruNode \cup {NULL}]
        /\ l.tail \in LruNode
    BY DEF LinkTypes
  <2>2. u.next \in [LruNode -> LruNode \cup {NULL}] /\ u.prev \in [LruNode -> LruNode \cup {NULL}]
    BY <1>3, <1>4, <2>1
  <2>3. u.tail \in LruNode
    BY <1>3, <1>4, <2>1
  <2> QED BY <1>4, <2>2, <2>3 DEF LinkTypes
<1>6. \A q \in LruNode : u.next[q] = IF q = h THEN n ELSE IF q = n THEN b ELSE l.next[q]
  <2>1. l.next \in [LruNode -> LruNode \cup {NULL}]
    BY DEF LinkTypes
  <2> HIDE DEF b
  <2> QED BY <1>3, <1>4, <2>1
<1>7. d \in Chains
  <2> SUFFICES ASSUME NEW i \in 1 .. Len(d), NEW j \in 1 .. Len(d), d[i] = d[j] PROVE i = j
    BY <1>1 DEF Distinct, Chains
  <2>1. \A q \in 3 .. Len(d) : q - 1 \in 2 .. Len(c) /\ d[q] = c[q - 1] /\ d[q] # n /\ d[q] # h
    <3> TAKE q \in 3 .. Len(d)
    <3>1. q - 1 \in 2 .. Len(c) /\ (q - 1) + 1 = q
      BY <1>1
    <3> QED BY <1>1, <1>2, <3>1
  <2>2. \A q \in 3 .. Len(d) : d[i] = d[q] => i = q
    <3> TAKE q \in 3 .. Len(d)
    <3>1. CASE i <= 2
      <4>1. i = 1 \/ i = 2
        BY <3>1
      <4> QED BY <2>1, <4>1
    <3>2. CASE i >= 3
      <4>1. i \in 3 .. Len(d)
        BY <1>1, <3>2
      <4>2. d[i] = d[q] => i - 1 = q - 1
        BY <1>2, <2>1, <4>1
      <4> QED BY <1>1, <4>1, <4>2
    <3> QED BY <1>1, <3>1, <3>2
  <2>3. CASE j >= 3
    BY <1>1, <2>2, <2>3
  <2>4. CASE j <= 2
    BY <1>1, <1>3, <2>1, <2>4
  <2> QED BY <1>1, <2>3, <2>4
<1>8. \A q \in 3 .. Len(d) : /\ q - 1 \in 2 .. Len(c) /\ d[q] = c[q - 1]
                             /\ d[q] # n /\ d[q] # h /\ d[q] \in LruNode
  <2> TAKE q \in 3 .. Len(d)
  <2>1. q - 1 \in 2 .. Len(c) /\ (q - 1) + 1 = q
    BY <1>1
  <2> QED BY <1>1, <1>2, <2>1
<1>9. ASSUME NEW i \in 1 .. Len(d)
      PROVE  u.next[d[i]] = IF i < Len(d) THEN d[i + 1] ELSE NULL
  <2>1. CASE i = 1
    BY <1>1, <1>3, <1>6, <2>1
  <2>2. CASE i = 2
    <3>1. 2 < Len(d) => d[3] = c[2]
      BY <1>1, <1>8
    <3> QED BY <1>1, <1>3, <1>6, <2>2, <3>1
  <2>3. CASE i > 2
    <3>1. u.next[d[i]] = l.next[c[i - 1]]
      BY <1>6, <1>8, <2>3
    <3>2. l.next[c[i - 1]] = IF i - 1 < Len(c) THEN c[(i - 1) + 1] ELSE NULL
      BY <1>1, <1>8, <2>3 DEF Linked
    <3>3. i < Len(d) => d[i + 1] = c[i]
      BY <1>1, <2>3
    <3> QED BY <1>1, <2>3, <3>1, <3>2, <3>3
  <2> QED BY <2>1, <2>2, <2>3
<1>10. ASSUME NEW i \in 1 .. Len(d)
       PROVE  u.prev[d[i]] = IF i = 1 THEN NULL ELSE d[i - 1]
  <2>1. CASE i = 1
    <3>1. h # b
      BY <1>1, <1>2, <1>3
    <3>2. l.prev[h] = NULL
      BY <1>1 DEF Linked
    <3> QED BY <1>3, <1>4, <2>1, <3>1, <3>2
  <2>2. CASE i = 2
    BY <1>3, <1>4, <2>2
  <2>3. CASE i = 3
    <3>1. d[i] = b
      BY <1>1, <1>8, <2>3
    <3> QED BY <1>4, <1>8, <2>3, <3>1
  <2>4. CASE i > 3
    <3>1. d[i] # b
      BY <1>1, <1>2, <1>8, <2>4
    <3>2. u.prev[d[i]] = l.prev[c[i - 1]]
      BY <1>4, <1>8, <2>4, <3>1
    <3>3. l.prev[c[i - 1]] = c[(i - 1) - 1]
      BY <1>1, <1>8, <2>4 DEF Linked
    <3>4. d[i - 1] = c[i - 2]
      BY <1>8, <2>4
    <3> QED BY <2>4, <3>2, <3>3, <3>4
  <2> QED BY <2>1, <2>2, <2>3, <2>4
<1>11. u.tail = d[Len(d)]
  <2>1. l.tail = c[Len(c)]
    BY DEF Linked
  <2>2. CASE Len(c) = 1
    BY <1>1, <1>4, <2>1, <2>2
  <2>3. CASE Len(c) > 1
    <3>1. d[Len(d)] = c[Len(c)] /\ c[Len(c)] # h
      BY <1>1, <1>2, <2>3
    <3> QED BY <1>4, <2>1, <3>1
  <2>4. \A q \in Nat : q > 0 => q = 1 \/ q > 1
    OBVIOUS
  <2>5. Len(c) = 1 \/ Len(c) > 1
    BY <1>0, <2>4
  <2> QED BY <2>2, <2>3, <2>5
<1> QED BY <1>5, <1>7, <1>9, <1>10, <1>11 DEF Linked, u
-----------------------------------------------------------------------------
(* What is cached *)

\* The index x and the nodes' tasks t are those of the tasks r.
Holds(r, x, t) ==
  /\ r \in Seq(CachedTask)
  /\ x \in [Keys -> Heap \cup {NULL}]
  /\ t \in [Heap -> CachedTask \cup {NULL}]
  /\ \A i \in 1 .. Len(r) : x[r[i][1]] \in Heap /\ t[x[r[i][1]]] = r[i]
  /\ \A i, j \in 1 .. Len(r) : r[i][1] = r[j][1] => i = j
  /\ \A k \in Keys : x[k] # NULL => \E i \in 1 .. Len(r) : r[i][1] = k
  /\ \A n \in Heap : t[n] # NULL => \E i \in 1 .. Len(r) : x[r[i][1]] = n

LruInv ==
  /\ Holds(recent, lruIndex, content)
  /\ Lru!Links \in LinkTypes
  /\ Linked(Lru!Links, Lru!Chain)
  /\ totalCached = Len(recent) /\ totalCached <= MAXCACHED

\* The chain of what is cached.
ChainFacts(c, r, x) ==
  /\ c \in Chains /\ Len(c) = Len(r) + 1
  /\ \A i \in 1 .. Len(r) : c[i + 1] = x[r[i][1]]

LEMMA ChainIsChain ==
  ASSUME NEW r, NEW x, NEW t, Holds(r, x, t)
  PROVE  ChainFacts(ChainOf(r, x), r, x)
<1> DEFINE h == Lru!lruHead
           y == [i \in 1 .. Len(r) |-> x[r[i][1]]]
           c == ChainOf(r, x)
<1>1. Len(r) \in Nat /\ DOMAIN r = 1 .. Len(r)
  BY LenProperties DEF Holds
<1>2. y \in Seq(LruNode) /\ Len(y) = Len(r)
  <2>1. y \in [1 .. Len(r) -> LruNode]
    BY LruNodeFacts DEF Holds
  <2>2. y \in Seq(LruNode)
    BY <1>1, <2>1
  <2> QED BY <1>1, <2>1, <2>2, LenProperties
<1>3. \A i \in 1 .. Len(r) : y[i] = x[r[i][1]]
  OBVIOUS
<1>4. c = << h >> \o y
  BY <1>1 DEF ChainOf
<1> HIDE DEF y, c
<1>5. c \in Seq(LruNode) /\ Len(c) = Len(r) + 1 /\ c[1] = h /\ \A i \in 2 .. Len(r) + 1 : c[i] = y[i - 1]
  BY <1>2, <1>4, LruNodeFacts, PrependFacts
<1>6. \A i \in 1 .. Len(r) : c[i + 1] = x[r[i][1]]
  <2> TAKE i \in 1 .. Len(r)
  <2>1. i + 1 \in 2 .. Len(r) + 1 /\ (i + 1) - 1 = i
    BY <1>1
  <2> QED BY <1>3, <1>5, <2>1
<1>7. \A i \in 2 .. Len(c) : /\ i - 1 \in 1 .. Len(r) /\ c[i] = x[r[i - 1][1]]
                             /\ c[i] \in Heap /\ t[c[i]] = r[i - 1]
  <2> TAKE i \in 2 .. Len(c)
  <2>1. i - 1 \in 1 .. Len(r) /\ (i - 1) + 1 = i
    BY <1>1, <1>5
  <2> QED BY <1>6, <2>1 DEF Holds
<1>8. Distinct(c)
  <2> SUFFICES ASSUME NEW i \in 1 .. Len(c), NEW j \in 1 .. Len(c), c[i] = c[j] PROVE i = j
    BY DEF Distinct
  <2>1. CASE i = 1 \/ j = 1
    BY <1>1, <1>5, <1>7, <2>1, LruNodeFacts
  <2>2. CASE i # 1 /\ j # 1
    <3>1. i \in 2 .. Len(c) /\ j \in 2 .. Len(c)
      BY <1>1, <1>5, <2>2
    <3>2. r[i - 1] = r[j - 1]
      BY <1>7, <3>1
    <3>3. i - 1 = j - 1
      BY <1>7, <3>1, <3>2 DEF Holds
    <3> QED BY <1>1, <3>1, <3>3
  <2> QED BY <2>1, <2>2
<1> QED BY <1>1, <1>5, <1>6, <1>8 DEF Chains, ChainFacts, c

LEMMA ChainEqual ==
  ASSUME NEW r, NEW x, NEW t, Holds(r, x, t), NEW c \in Chains, ChainFacts(c, r, x)
  PROVE  c = ChainOf(r, x)
<1> DEFINE d == ChainOf(r, x)
<1>1. d \in Chains /\ Len(d) = Len(r) + 1 /\ \A i \in 1 .. Len(r) : d[i + 1] = x[r[i][1]]
  BY ChainIsChain DEF ChainFacts
<1> HIDE DEF d
<1>2. Len(r) \in Nat
  BY LenProperties DEF Holds
<1>3. ASSUME NEW i \in 1 .. Len(c) PROVE c[i] = d[i]
  <2>1. CASE i = 1
    BY <1>1, <2>1 DEF Chains
  <2>2. CASE i # 1
    <3>1. i - 1 \in 1 .. Len(r) /\ (i - 1) + 1 = i
      BY <1>2, <2>2 DEF ChainFacts
    <3> QED BY <1>1, <3>1 DEF ChainFacts
  <2> QED BY <2>1, <2>2
<1> QED BY <1>1, <1>3, SeqEqual DEF Chains, ChainFacts, d

\* LruInv says what IsLru says.
LEMMA LruInvIsLru == LruInv => CacheIsLru
<1> SUFFICES ASSUME LruInv PROVE Lru!IsLru
  BY DEF CacheIsLru
<1> DEFINE c == Lru!Chain
<1>1. c = ChainOf(recent, lruIndex)
  BY DEF Lru!Chain, ChainOf
<1>2. ChainFacts(c, recent, lruIndex)
  BY <1>1, ChainIsChain DEF LruInv
<1>3. Len(recent) \in Nat /\ DOMAIN recent = 1 .. Len(recent) /\ DOMAIN c = 1 .. Len(c)
  BY <1>2, LenProperties DEF LruInv, Holds, ChainFacts, Chains
<1>4. /\ \A i \in DOMAIN c : next[c[i]] = IF i < Len(c) THEN c[i + 1] ELSE NULL
      /\ \A i \in DOMAIN c : prev[c[i]] = IF i = 1 THEN NULL ELSE c[i - 1]
      /\ lruTail = c[Len(c)]
  BY <1>3 DEF LruInv, Linked, Lru!Links
<1>5. ASSUME NEW k \in Keys
      PROVE  (lruIndex[k] = NULL) <=> \A i \in DOMAIN recent : recent[i][1] # k
  <2>1. lruIndex[k] # NULL => \E i \in DOMAIN recent : recent[i][1] = k
    BY <1>3 DEF LruInv, Holds
  <2>2. \A i \in DOMAIN recent : lruIndex[recent[i][1]] \in Heap
    BY <1>3 DEF LruInv, Holds
  <2>3. NULL \notin Heap
    BY LruNodeFacts
  <2> QED BY <2>1, <2>2, <2>3
<1>6. \A i \in DOMAIN recent : content[c[i + 1]] = recent[i]
  BY <1>2, <1>3 DEF ChainFacts, LruInv, Holds
<1>7. ASSUME NEW n \in Heap, content[n] # NULL PROVE \E i \in DOMAIN c : c[i] = n
  <2>1. PICK i \in 1 .. Len(recent) : lruIndex[recent[i][1]] = n
    BY <1>7 DEF LruInv, Holds
  <2>2. c[i + 1] = n /\ i + 1 \in DOMAIN c
    BY <1>2, <1>3, <2>1 DEF ChainFacts
  <2> QED BY <2>2
<1> HIDE DEF c
<1> QED BY <1>4, <1>5, <1>6, <1>7 DEF Lru!IsLru, Lru!After, Lru!Last, LruInv, Heap, c

LEMMA InitLru == Lru!Init => LruInv
<1> SUFFICES ASSUME Lru!Init PROVE LruInv
  OBVIOUS
<1> USE DEF Lru!Init
<1>1. recent \in Seq(CachedTask) /\ Len(recent) = 0
  OBVIOUS
<1>2. Holds(recent, lruIndex, content)
  BY <1>1 DEF Holds, Heap
<1>3. Lru!Links \in LinkTypes
  BY LruNodeFacts DEF Lru!Links, LinkTypes, LruNode
<1>4. ChainFacts(Lru!Chain, recent, lruIndex)
  <2>1. Lru!Chain = ChainOf(recent, lruIndex)
    BY DEF Lru!Chain, ChainOf
  <2> QED BY <1>2, <2>1, ChainIsChain
<1>5. Linked(Lru!Links, Lru!Chain)
  <2>1. Len(Lru!Chain) = 1 /\ Lru!Chain[1] = Lru!lruHead
    BY <1>1, <1>4 DEF ChainFacts, Chains
  <2> QED BY <2>1, LruNodeFacts DEF Linked, Lru!Links, LruNode
<1> QED BY <1>1, <1>2, <1>3, <1>5, LruAssumption DEF LruInv

-----------------------------------------------------------------------------
(* Taking out and adding *)

\* The task at place p is forgotten.
LEMMA HoldsWithout ==
  ASSUME NEW r, NEW x, NEW t, Holds(r, x, t), NEW p \in 1 .. Len(r)
  PROVE  Holds(RemoveAt(r, p), [x EXCEPT ![r[p][1]] = NULL], [t EXCEPT ![x[r[p][1]]] = NULL])
<1> DEFINE k == r[p][1]
           n == x[k]
           s == RemoveAt(r, p)
           y == [x EXCEPT ![k] = NULL]
           u == [t EXCEPT ![n] = NULL]
           Old(i) == IF i < p THEN i ELSE i + 1
<1>1. Len(r) \in Nat /\ \A i \in 1 .. Len(r) : r[i] \in CachedTask
  BY LenProperties, ElementOfSeq DEF Holds
<1>2. k \in Keys /\ n \in Heap
  BY <1>1 DEF Holds, CachedTask
<1>3. /\ s \in Seq(CachedTask) /\ Len(s) = Len(r) - 1
      /\ \A i \in 1 .. Len(r) - 1 : s[i] = IF i < p THEN r[i] ELSE r[i + 1]
  BY RemoveAtFacts DEF Holds
<1>4. y \in [Keys -> Heap \cup {NULL}] /\ u \in [Heap -> CachedTask \cup {NULL}]
  BY DEF Holds
<1>5. /\ \A j \in Keys : y[j] = IF j = k THEN NULL ELSE x[j]
      /\ \A m \in Heap : u[m] = IF m = n THEN NULL ELSE t[m]
  BY DEF Holds
<1> HIDE DEF s, y, u
<1>6. \A i \in 1 .. Len(s) : Old(i) \in 1 .. Len(r) /\ Old(i) # p /\ s[i] = r[Old(i)]
  BY <1>1, <1>3
<1>7. \A i \in 1 .. Len(r) : i # p => \E j \in 1 .. Len(s) : Old(j) = i
  <2> TAKE i \in 1 .. Len(r)
  <2>1. CASE i < p
    BY <1>1, <1>3, <2>1
  <2>2. CASE i > p
    <3>1. i - 1 \in 1 .. Len(s) /\ Old(i - 1) = i
      BY <1>1, <1>3, <2>2
    <3> QED BY <3>1
  <2> QED BY <1>1, <2>1, <2>2
<1>8. \A i, j \in 1 .. Len(s) : Old(i) = Old(j) => i = j
  BY <1>1, <1>3
<1> HIDE DEF Old, k, n
<1>9. \A i \in 1 .. Len(r) : r[i][1] \in Keys /\ (i # p => r[i][1] # k /\ x[r[i][1]] # n)
  BY <1>1 DEF Holds, CachedTask, k, n
<1>10. ASSUME NEW i \in 1 .. Len(s) PROVE y[s[i][1]] \in Heap /\ u[y[s[i][1]]] = s[i]
  <2>1. s[i] = r[Old(i)] /\ y[s[i][1]] = x[r[Old(i)][1]]
    BY <1>5, <1>6, <1>9
  <2> QED BY <1>5, <1>6, <1>9, <2>1 DEF Holds
<1>11. ASSUME NEW i \in 1 .. Len(s), NEW j \in 1 .. Len(s), s[i][1] = s[j][1] PROVE i = j
  <2>1. Old(i) = Old(j)
    BY <1>6, <1>11 DEF Holds
  <2> QED BY <1>8, <2>1
<1>12. ASSUME NEW j \in Keys, y[j] # NULL PROVE \E i \in 1 .. Len(s) : s[i][1] = j
  <2>1. j # k /\ x[j] # NULL
    BY <1>5, <1>12
  <2>2. PICK i \in 1 .. Len(r) : r[i][1] = j
    BY <2>1 DEF Holds
  <2>3. i # p
    BY <2>1, <2>2 DEF k
  <2> QED BY <1>6, <1>7, <2>2, <2>3
<1>13. ASSUME NEW m \in Heap, u[m] # NULL PROVE \E i \in 1 .. Len(s) : y[s[i][1]] = m
  <2>1. m # n /\ t[m] # NULL
    BY <1>5, <1>13
  <2>2. PICK i \in 1 .. Len(r) : x[r[i][1]] = m
    BY <2>1 DEF Holds
  <2>3. i # p
    BY <2>1, <2>2 DEF k, n
  <2>4. PICK j \in 1 .. Len(s) : Old(j) = i
    BY <1>7, <2>3
  <2> QED BY <1>5, <1>6, <1>9, <2>2, <2>3, <2>4
<1>14. Holds(s, y, u)
  BY <1>3, <1>4, <1>10, <1>11, <1>12, <1>13 DEF Holds
<1> QED BY <1>14 DEF s, y, u, k, n

\* The task of key k, in the free node n, is the last used.
LEMMA HoldsWith ==
  ASSUME NEW r, NEW x, NEW t, Holds(r, x, t), NEW k \in Keys, NEW v \in Values, NEW n \in Heap,
         x[k] = NULL, t[n] = NULL
  PROVE  Holds(<< <<k, v>> >> \o r, [x EXCEPT ![k] = n], [t EXCEPT ![n] = <<k, v>>])
<1> DEFINE s == << <<k, v>> >> \o r
           y == [x EXCEPT ![k] = n]
           u == [t EXCEPT ![n] = <<k, v>>]
<1>1. Len(r) \in Nat /\ \A i \in 1 .. Len(r) : r[i] \in CachedTask /\ r[i][1] \in Keys
  BY LenProperties, ElementOfSeq DEF Holds, CachedTask
<1>2. /\ s \in Seq(CachedTask) /\ Len(s) = Len(r) + 1 /\ s[1] = <<k, v>>
      /\ \A i \in 2 .. Len(r) + 1 : s[i] = r[i - 1]
  BY PrependFacts DEF Holds, CachedTask
<1>3. y \in [Keys -> Heap \cup {NULL}] /\ u \in [Heap -> CachedTask \cup {NULL}]
  BY DEF Holds, CachedTask
<1>4. /\ \A j \in Keys : y[j] = IF j = k THEN n ELSE x[j]
      /\ \A m \in Heap : u[m] = IF m = n THEN <<k, v>> ELSE t[m]
  BY DEF Holds
<1>5. s[1][1] = k
  BY <1>2
<1> HIDE DEF s, y, u
<1>6. NULL \notin Heap /\ NULL \notin CachedTask
  BY LruNodeFacts, LruAssumption DEF CachedTask
<1>7. \A i \in 1 .. Len(r) : r[i][1] # k /\ x[r[i][1]] # n /\ x[r[i][1]] \in Heap
  BY <1>1, <1>6 DEF Holds
<1>8. \A i \in 2 .. Len(s) : i - 1 \in 1 .. Len(r) /\ s[i] = r[i - 1]
  BY <1>1, <1>2
<1>9. \A i \in 1 .. Len(r) : i + 1 \in 2 .. Len(s) /\ s[i + 1] = r[i]
  <2> TAKE i \in 1 .. Len(r)
  <2>1. i + 1 \in 2 .. Len(s) /\ (i + 1) - 1 = i
    BY <1>1, <1>2
  <2> QED BY <1>8, <2>1
<1>10. ASSUME NEW i \in 1 .. Len(s) PROVE y[s[i][1]] \in Heap /\ u[y[s[i][1]]] = s[i]
  <2>1. CASE i = 1
    BY <1>2, <1>4, <1>5, <2>1
  <2>2. CASE i # 1
    <3>1. i \in 2 .. Len(s)
      BY <1>1, <1>2, <2>2
    <3> QED BY <1>1, <1>4, <1>7, <1>8, <3>1 DEF Holds
  <2> QED BY <2>1, <2>2
<1>11. ASSUME NEW i \in 1 .. Len(s), NEW j \in 1 .. Len(s), s[i][1] = s[j][1] PROVE i = j
  <2>1. \A q \in 1 .. Len(s) : q # 1 => q \in 2 .. Len(s)
    BY <1>1, <1>2
  <2>2. CASE i = 1 \/ j = 1
    BY <1>5, <1>7, <1>8, <1>11, <2>1, <2>2
  <2>3. CASE i # 1 /\ j # 1
    <3>1. i - 1 = j - 1
      BY <1>8, <1>11, <2>1, <2>3 DEF Holds
    <3> QED BY <1>1, <1>2, <3>1
  <2> QED BY <2>2, <2>3
<1>12. ASSUME NEW j \in Keys, y[j] # NULL PROVE \E i \in 1 .. Len(s) : s[i][1] = j
  <2>1. CASE j = k
    BY <1>1, <1>2, <1>5, <2>1
  <2>2. CASE j # k
    <3>1. PICK i \in 1 .. Len(r) : r[i][1] = j
      BY <1>4, <1>12, <2>2 DEF Holds
    <3> QED BY <1>9, <3>1
  <2> QED BY <2>1, <2>2
<1>13. ASSUME NEW m \in Heap, u[m] # NULL PROVE \E i \in 1 .. Len(s) : y[s[i][1]] = m
  <2>1. CASE m = n
    BY <1>1, <1>2, <1>4, <1>5, <2>1
  <2>2. CASE m # n
    <3>1. PICK i \in 1 .. Len(r) : x[r[i][1]] = m
      BY <1>4, <1>13, <2>2 DEF Holds
    <3> QED BY <1>1, <1>4, <1>7, <1>9, <3>1
  <2> QED BY <2>1, <2>2
<1>14. Holds(s, y, u)
  BY <1>2, <1>3, <1>10, <1>11, <1>12, <1>13 DEF Holds
<1> QED BY <1>14 DEF s, y, u

Good(l, r, x, t) == Holds(r, x, t) /\ l \in LinkTypes /\ Linked(l, ChainOf(r, x))

LEMMA TakenOut ==
  ASSUME NEW l, NEW r, NEW x, NEW t, Good(l, r, x, t), NEW p \in 1 .. Len(r),
         NEW k, k = r[p][1], NEW n, n = x[k]
  PROVE  Good(Lru!Unlink(Lru!MoveTailOff(l, n), n), RemoveAt(r, p),
              [x EXCEPT ![k] = NULL], [t EXCEPT ![n] = NULL])
<1> DEFINE c == ChainOf(r, x)
           d == RemoveAt(c, p + 1)
           s == RemoveAt(r, p)
           y == [x EXCEPT ![k] = NULL]
           u == [t EXCEPT ![n] = NULL]
<1>1. ChainFacts(c, r, x) /\ Len(r) \in Nat
  BY ChainIsChain, LenProperties DEF Good, Holds
<1>2. c \in Chains /\ Len(c) = Len(r) + 1 /\ c[p + 1] = n /\ p + 1 \in 2 .. Len(c)
  BY <1>1 DEF ChainFacts
<1>3. Holds(s, y, u)
  BY HoldsWithout DEF Good
<1>4. /\ s \in Seq(CachedTask) /\ Len(s) = Len(r) - 1
      /\ \A i \in 1 .. Len(r) - 1 : s[i] = IF i < p THEN r[i] ELSE r[i + 1]
  <2>1. r \in Seq(CachedTask)
    BY DEF Good, Holds
  <2> QED BY <2>1, RemoveAtFacts
<1>5. /\ d \in Chains /\ Lru!Unlink(Lru!MoveTailOff(l, n), n) \in LinkTypes
      /\ Linked(Lru!Unlink(Lru!MoveTailOff(l, n), n), d)
  BY <1>2, UnlinkLinked DEF Good
<1>6. /\ Len(d) = Len(c) - 1
      /\ \A i \in 1 .. Len(c) - 1 : d[i] = IF i < p + 1 THEN c[i] ELSE c[i + 1]
  <2>1. c \in Seq(LruNode) /\ p + 1 \in 1 .. Len(c)
    BY <1>1, <1>2 DEF Chains
  <2> HIDE DEF c
  <2> QED BY <2>1, RemoveAtFacts
<1>7. \A j \in Keys : y[j] = IF j = k THEN NULL ELSE x[j]
  BY DEF Good, Holds
<1>8. \A i \in 1 .. Len(r) : r[i][1] \in Keys /\ (i # p => r[i][1] # k)
  <2> TAKE i \in 1 .. Len(r)
  <2>1. r[i] \in CachedTask
    BY <1>1, ElementOfSeq DEF Good, Holds
  <2> QED BY <2>1 DEF Good, Holds, CachedTask
<1> HIDE DEF s, d, y, u, c
<1>9. \A i \in 1 .. Len(s) : d[i + 1] = y[s[i][1]]
  <2> TAKE i \in 1 .. Len(s)
  <2>1. CASE i < p
    <3>1. d[i + 1] = c[i + 1] /\ s[i] = r[i] /\ i \in 1 .. Len(r)
      <4>1. i + 1 \in 1 .. Len(c) - 1 /\ i + 1 < p + 1 /\ i \in 1 .. Len(r) - 1 /\ i \in 1 .. Len(r)
        BY <1>1, <1>2, <1>4, <2>1
      <4> QED BY <1>4, <1>6, <2>1, <4>1
    <3> QED BY <1>1, <1>7, <1>8, <2>1, <3>1 DEF ChainFacts
  <2>2. CASE i >= p
    <3>1. d[i + 1] = c[(i + 1) + 1] /\ s[i] = r[i + 1] /\ i + 1 \in 1 .. Len(r) /\ i + 1 # p
      <4>1. i + 1 \in 1 .. Len(r) /\ i + 1 # p /\ i + 1 \in 1 .. Len(c) - 1 /\ ~(i + 1 < p + 1)
            /\ i \in 1 .. Len(r) - 1 /\ ~(i < p)
        BY <1>1, <1>2, <1>4, <2>2
      <4> QED BY <1>4, <1>6, <4>1
    <3> QED BY <1>1, <1>7, <1>8, <3>1 DEF ChainFacts
  <2>3. i < p \/ i >= p
    BY <1>1, <1>4
  <2> QED BY <2>1, <2>2, <2>3
<1>10. ChainFacts(d, s, y)
  BY <1>1, <1>2, <1>4, <1>5, <1>6, <1>9 DEF ChainFacts
<1>11. d = ChainOf(s, y)
  BY <1>3, <1>5, <1>10, ChainEqual
<1>12. Good(Lru!Unlink(Lru!MoveTailOff(l, n), n), s, y, u)
  BY <1>3, <1>5, <1>11 DEF Good
<1> QED BY <1>12 DEF s, y, u

LEMMA Added ==
  ASSUME NEW l, NEW r, NEW x, NEW t, Good(l, r, x, t), NEW k \in Keys, NEW v \in Values,
         NEW n \in Heap, x[k] = NULL, t[n] = NULL
  PROVE  Good(Lru!AddToHead(l, n), << <<k, v>> >> \o r, [x EXCEPT ![k] = n],
              [t EXCEPT ![n] = <<k, v>>])
<1> DEFINE s == << <<k, v>> >> \o r
           y == [x EXCEPT ![k] = n]
           u == [t EXCEPT ![n] = <<k, v>>]
           c == ChainOf(r, x)
           d == ChainOf(s, y)
<1>1. ChainFacts(c, r, x) /\ Len(r) \in Nat
  BY ChainIsChain, LenProperties DEF Good, Holds
<1>2. Holds(s, y, u)
  BY HoldsWith DEF Good
<1>3. ChainFacts(d, s, y)
  BY <1>2, ChainIsChain
<1>4. /\ s \in Seq(CachedTask) /\ Len(s) = Len(r) + 1 /\ s[1] = <<k, v>>
      /\ \A i \in 2 .. Len(r) + 1 : s[i] = r[i - 1]
  BY PrependFacts DEF Good, Holds, CachedTask
<1>5. \A j \in Keys : y[j] = IF j = k THEN n ELSE x[j]
  BY DEF Good, Holds
<1>6. \A i \in 1 .. Len(r) : /\ r[i][1] \in Keys /\ r[i][1] # k
                             /\ x[r[i][1]] # n
  <2> TAKE i \in 1 .. Len(r)
  <2>1. r[i] \in CachedTask /\ x[r[i][1]] \in Heap /\ t[x[r[i][1]]] = r[i]
    BY <1>1, ElementOfSeq DEF Good, Holds
  <2>2. NULL \notin Heap /\ NULL \notin CachedTask
    BY LruNodeFacts, LruAssumption DEF CachedTask
  <2> QED BY <2>1, <2>2 DEF CachedTask
<1>7. s[1][1] = k
  BY <1>4
<1> HIDE DEF s, y, u, c, d
<1>8. d \in Seq(LruNode) /\ d[1] = Lru!lruHead /\ Len(d) = Len(c) + 1 /\ Len(c) = Len(r) + 1
  BY <1>1, <1>3, <1>4 DEF ChainFacts, Chains
<1>9. d[2] = n
  <2>1. 1 \in 1 .. Len(s) /\ 1 + 1 = 2
    BY <1>1, <1>4
  <2>2. d[1 + 1] = y[s[1][1]]
    BY <1>3, <2>1 DEF ChainFacts
  <2> QED BY <1>5, <1>7, <2>1, <2>2
<1>10. \A i \in 2 .. Len(c) : d[i + 1] = c[i]
  <2> TAKE i \in 2 .. Len(c)
  <2>1. i - 1 \in 1 .. Len(r) /\ i \in 1 .. Len(s) /\ s[i] = r[i - 1] /\ (i - 1) + 1 = i
    BY <1>1, <1>4, <1>8
  <2>2. d[i + 1] = y[s[i][1]]
    BY <1>3, <2>1 DEF ChainFacts
  <2>3. c[i] = x[r[i - 1][1]]
    BY <1>1, <2>1 DEF ChainFacts
  <2> QED BY <1>5, <1>6, <2>1, <2>2, <2>3
<1>11. \A i \in 1 .. Len(c) : c[i] # n
  <2> TAKE i \in 1 .. Len(c)
  <2>1. CASE i = 1
    BY <1>1, <2>1, LruNodeFacts DEF ChainFacts, Chains
  <2>2. CASE i # 1
    <3>1. i - 1 \in 1 .. Len(r) /\ (i - 1) + 1 = i
      BY <1>1, <1>8, <2>2
    <3> QED BY <1>1, <1>6, <3>1 DEF ChainFacts
  <2> QED BY <2>1, <2>2
<1>12. c \in Chains /\ l \in LinkTypes /\ Linked(l, c)
  BY <1>1 DEF ChainFacts, Good, c
<1>13. Lru!AddToHead(l, n) \in LinkTypes /\ Linked(Lru!AddToHead(l, n), d)
  BY <1>8, <1>9, <1>10, <1>11, <1>12, AddLinked
<1>14. Good(Lru!AddToHead(l, n), s, y, u)
  BY <1>2, <1>13 DEF Good, d
<1> QED BY <1>14 DEF s, y, u

-----------------------------------------------------------------------------
(* The methods of Cache *)

LEMMA LruInvGood ==
  LruInv <=> /\ Good(Lru!Links, recent, lruIndex, content)
             /\ totalCached = Len(recent) /\ totalCached <= MAXCACHED
<1>1. Lru!Chain = ChainOf(recent, lruIndex)
  BY DEF Lru!Chain, ChainOf
<1> QED BY <1>1 DEF LruInv, Good

LEMMA LruInvNext ==
  ASSUME Good(Lru!Links, recent, lruIndex, content)',
         totalCached' = Len(recent)', totalCached' <= MAXCACHED
  PROVE  LruInv'
<1>1. Lru!Chain' = ChainOf(recent, lruIndex)'
  BY DEF Lru!Chain, ChainOf
<1> QED BY <1>1 DEF LruInv, Good

\* What the pointers are after SetLinks.
LEMMA LinksSet ==
  ASSUME NEW l \in LinkTypes, Lru!SetLinks(l) PROVE Lru!Links' = l
BY DEF Lru!SetLinks, Lru!Links, LinkTypes

\* Where a cached key is.
LEMMA CachedAt ==
  ASSUME LruInv, NEW k \in Keys, lruIndex[k] # NULL
  PROVE  /\ Lru!Place(k) \in 1 .. Len(recent) /\ recent[Lru!Place(k)][1] = k
         /\ lruIndex[k] \in Heap /\ Len(recent) \in Nat
         /\ content[lruIndex[k]] = recent[Lru!Place(k)]
         /\ \E v \in Values : recent[Lru!Place(k)] = <<k, v>>
         /\ Lru!Without(k) = RemoveAt(recent, Lru!Place(k))
<1>1. DOMAIN recent = 1 .. Len(recent) /\ Len(recent) \in Nat
  BY LenProperties DEF LruInv, Holds
<1>2. \E i \in DOMAIN recent : recent[i][1] = k
  BY <1>1 DEF LruInv, Holds
<1>3. Lru!Place(k) \in DOMAIN recent /\ recent[Lru!Place(k)][1] = k
  BY <1>2 DEF Lru!Place
<1>4. recent[Lru!Place(k)] \in CachedTask
  BY <1>1, <1>3, ElementOfSeq DEF LruInv, Holds
<1>5. \E v \in Values : recent[Lru!Place(k)] = <<k, v>>
  BY <1>3, <1>4 DEF CachedTask
<1>6. Lru!Without(k) = RemoveAt(recent, Lru!Place(k))
  BY DEF Lru!Without, Lru!RemoveAt, RemoveAt
<1> QED BY <1>1, <1>3, <1>5, <1>6 DEF LruInv, Holds

LEMMA GetHitLru == ASSUME LruInv, NEW k \in Keys, Lru!GetHit(k) PROVE LruInv'
<1> DEFINE n == lruIndex[k]
           p == Lru!Place(k)
           l == Lru!Unlink(Lru!MoveTailOff(Lru!Links, n), n)
           r == Lru!Without(k)
           x == [lruIndex EXCEPT ![k] = NULL]
           t == [content EXCEPT ![n] = NULL]
<1>1. /\ n # NULL /\ Lru!SetLinks(Lru!AddToHead(l, n)) /\ recent' = << content[n] >> \o r
      /\ UNCHANGED <<content, lruIndex, totalCached>>
  BY DEF Lru!GetHit
<1>2. PICK v \in Values : recent[p] = <<k, v>>
  BY <1>1, CachedAt
<1>3. p \in 1 .. Len(recent) /\ n \in Heap /\ recent[p][1] = k /\ content[n] = <<k, v>> /\ r = RemoveAt(recent, p)
  BY <1>1, <1>2, CachedAt
<1>4. Good(l, r, x, t)
  <2>1. Good(Lru!Links, recent, lruIndex, content)
    BY LruInvGood
  <2> QED BY <1>3, <2>1, TakenOut
<1>5. x[k] = NULL /\ t[n] = NULL
  BY <1>3 DEF LruInv, Holds
<1>6. Good(Lru!AddToHead(l, n), << <<k, v>> >> \o r, [x EXCEPT ![k] = n], [t EXCEPT ![n] = <<k, v>>])
  <2> HIDE DEF l, r, x, t, n
  <2> QED BY <1>3, <1>4, <1>5, Added
<1>7. [x EXCEPT ![k] = n] = lruIndex /\ [t EXCEPT ![n] = <<k, v>>] = content
  <2>1. lruIndex \in [Keys -> Heap \cup {NULL}] /\ content \in [Heap -> CachedTask \cup {NULL}]
    BY DEF LruInv, Holds
  <2>2. /\ DOMAIN x = Keys /\ \A j \in Keys : j # k => x[j] = lruIndex[j]
        /\ DOMAIN t = Heap /\ \A m \in Heap : m # n => t[m] = content[m]
    BY <2>1
  <2>3. lruIndex = [j \in Keys |-> lruIndex[j]] /\ content = [m \in Heap |-> content[m]]
    BY <2>1
  <2> HIDE DEF x, t
  <2>4. [x EXCEPT ![k] = n] = [j \in Keys |-> lruIndex[j]]
    BY <2>2
  <2>5. [t EXCEPT ![n] = <<k, v>>] = [m \in Heap |-> content[m]]
    <3> HIDE DEF n
    <3> QED BY <1>3, <2>2
  <2> QED BY <2>3, <2>4, <2>5
<1>8. Good(Lru!AddToHead(l, n), recent', lruIndex', content')
  BY <1>1, <1>3, <1>6, <1>7
<1>9. Lru!Links' = Lru!AddToHead(l, n)
  BY <1>1, <1>8, LinksSet DEF Good
<1>10. Len(recent') = Len(recent)
  <2>1. r \in Seq(CachedTask) /\ Len(r) = Len(recent) - 1 /\ Len(recent) \in Nat
    BY <1>1, <1>3, RemoveAtFacts, CachedAt DEF LruInv, Holds
  <2>2. Len(<< content[n] >> \o r) = Len(r) + 1
    BY <1>3, <2>1, PrependFacts DEF CachedTask
  <2> QED BY <1>1, <2>1, <2>2
<1>11. totalCached' = Len(recent)' /\ totalCached' <= MAXCACHED
  BY <1>1, <1>10 DEF LruInv
<1>12. Good(Lru!Links, recent, lruIndex, content)'
  BY <1>8, <1>9
<1> QED BY <1>11, <1>12, LruInvNext

LEMMA DeleteCacheLru == ASSUME LruInv, NEW k \in Keys, Lru!DeleteCache(k) PROVE LruInv'
<1> DEFINE n == lruIndex[k]
           p == Lru!Place(k)
           l == Lru!Unlink(Lru!MoveTailOff(Lru!Links, n), n)
<1>1. /\ n # NULL /\ Lru!SetLinks(l) /\ recent' = Lru!Without(k)
      /\ content' = [content EXCEPT ![n] = NULL] /\ lruIndex' = [lruIndex EXCEPT ![k] = NULL]
      /\ totalCached' = totalCached - 1
  BY DEF Lru!DeleteCache
<1>2. p \in 1 .. Len(recent) /\ recent[p][1] = k /\ recent' = RemoveAt(recent, p)
  BY <1>1, CachedAt
<1>3. Good(l, recent', lruIndex', content')
  <2>1. Good(Lru!Links, recent, lruIndex, content)
    BY LruInvGood
  <2>2. Good(l, RemoveAt(recent, p), [lruIndex EXCEPT ![k] = NULL], [content EXCEPT ![n] = NULL])
    BY <1>2, <2>1, TakenOut
  <2> QED BY <1>1, <1>2, <2>2
<1>4. Lru!Links' = l
  BY <1>1, <1>3, LinksSet DEF Good
<1>5. totalCached' = Len(recent)' /\ totalCached' <= MAXCACHED
  <2>1. Len(recent') = Len(recent) - 1 /\ Len(recent) \in Nat
    BY <1>1, <1>2, RemoveAtFacts, CachedAt DEF LruInv, Holds
  <2> QED BY <1>1, <2>1, LruAssumption DEF LruInv
<1>6. Good(Lru!Links, recent, lruIndex, content)'
  BY <1>3, <1>4
<1> QED BY <1>5, <1>6, LruInvNext

\* There is a node that nothing is cached in.
LEMMA FreeLruNode == LruInv => \E n \in Heap : content[n] = NULL
<1> SUFFICES ASSUME LruInv, \A n \in Heap : content[n] # NULL PROVE FALSE
  OBVIOUS
<1> DEFINE Slot(n) == CHOOSE i \in 1 .. Len(recent) : lruIndex[recent[i][1]] = n
           f == [n \in Heap |-> Slot(n)]
<1>1. Len(recent) \in Nat /\ Len(recent) <= MAXCACHED /\ MAXCACHED \in Nat
  BY LenProperties, LruAssumption DEF LruInv, Holds
<1>2. \A n \in Heap : Slot(n) \in 1 .. Len(recent) /\ lruIndex[recent[Slot(n)][1]] = n
  BY DEF LruInv, Holds
<1> HIDE DEF Slot
<1>3. f \in [Heap -> 1 .. Len(recent)] /\ \A n \in Heap : f[n] = Slot(n)
  BY <1>2
<1> HIDE DEF f
<1>4. IsFiniteSet(Heap) /\ Cardinality(Heap) = MAXCACHED + 1
  BY <1>1, FS_Interval DEF Heap, Lru!Heap
<1>5. IsFiniteSet(1 .. Len(recent)) /\ Cardinality(1 .. Len(recent)) = Len(recent)
  <2>1. \A q \in Nat : IsFiniteSet(1 .. q) /\ Cardinality(1 .. q) = q
    BY FS_Interval
  <2> QED BY <1>1, <2>1
<1>6. Cardinality(1 .. Len(recent)) < Cardinality(Heap)
  BY <1>1, <1>4, <1>5
<1>7. \E m, n \in Heap : m # n /\ f[m] = f[n]
  BY <1>3, <1>4, <1>5, <1>6, FS_PigeonHole
<1> QED BY <1>2, <1>3, <1>7

LEMMA AddToCacheLru ==
  ASSUME LruInv, NEW k \in Keys, NEW v \in Values, lruIndex[k] = NULL, Lru!AddToCache(k, v)
  PROVE  LruInv'
<1> DEFINE n == CHOOSE m \in Lru!Heap : content[m] = NULL
           l == Lru!AddToHead(Lru!Links, n)
           full == totalCached + 1 > MAXCACHED
           t == l.tail
           c == [content EXCEPT ![n] = <<k, v>>]
           x == [lruIndex EXCEPT ![k] = n]
           r == << <<k, v>> >> \o recent
           p == Len(r)
           m == Lru!Unlink([l EXCEPT !.tail = l.prev[t]], t)
<1>1. /\ full => /\ Lru!SetLinks(m) /\ content' = [c EXCEPT ![t] = NULL]
                 /\ lruIndex' = [x EXCEPT ![c[t][1]] = NULL] /\ totalCached' = totalCached
                 /\ recent' = << <<k, v>> >> \o Lru!Front(recent)
      /\ ~full => /\ Lru!SetLinks(l) /\ content' = c /\ lruIndex' = x
                  /\ totalCached' = totalCached + 1 /\ recent' = r
  BY DEF Lru!AddToCache
<1>2. n \in Heap /\ content[n] = NULL
  BY FreeLruNode DEF Heap
<1>3. Good(Lru!Links, recent, lruIndex, content) /\ totalCached = Len(recent) /\ totalCached <= MAXCACHED
  BY LruInvGood
<1> HIDE DEF n
<1>4. Good(l, r, x, c)
  BY <1>2, <1>3, Added
<1>5. /\ recent \in Seq(CachedTask) /\ Len(recent) \in Nat
      /\ r \in Seq(CachedTask) /\ p = Len(recent) + 1 /\ r[1] = <<k, v>>
      /\ \A i \in 2 .. Len(recent) + 1 : r[i] = recent[i - 1]
  BY LenProperties, PrependFacts DEF LruInv, Holds, CachedTask
<1> HIDE DEF l, c, x, r
<1>6. CASE ~full
  <2>1. Lru!Links' = l
    BY <1>1, <1>4, <1>6, LinksSet DEF Good
  <2>2. Good(Lru!Links, recent, lruIndex, content)'
    BY <1>1, <1>4, <1>6, <2>1
  <2>3. totalCached' = Len(recent)' /\ totalCached' <= MAXCACHED
    BY <1>1, <1>3, <1>5, <1>6, LruAssumption
  <2> QED BY <2>2, <2>3, LruInvNext
<1>7. CASE full
  <2>1. t = x[r[p][1]] /\ c[t] = r[p] /\ p \in 1 .. Len(r)
    <3>1. ChainFacts(ChainOf(r, x), r, x)
      BY <1>4, ChainIsChain DEF Good
    <3>2. t = ChainOf(r, x)[Len(ChainOf(r, x))]
      BY <1>4 DEF Good, Linked
    <3>3. p \in 1 .. Len(r)
      BY <1>5
    <3> QED BY <1>4, <3>1, <3>2, <3>3 DEF ChainFacts, Good, Holds
  <2>2. m = Lru!Unlink(Lru!MoveTailOff(l, t), t)
    BY DEF Lru!MoveTailOff
  <2>3. Good(m, RemoveAt(r, p), lruIndex', content')
    <3>1. Good(Lru!Unlink(Lru!MoveTailOff(l, t), t), RemoveAt(r, p),
               [x EXCEPT ![r[p][1]] = NULL], [c EXCEPT ![t] = NULL])
      BY <1>4, <2>1, TakenOut
    <3> QED BY <1>1, <1>7, <2>1, <2>2, <3>1
  <2>4. recent' = RemoveAt(r, p) /\ Len(recent') = Len(recent)
    <3> DEFINE f == Lru!Front(recent)
               g == << <<k, v>> >> \o f
               s == RemoveAt(r, p)
    <3>1. f \in Seq(CachedTask) /\ Len(f) = Len(recent) - 1 /\ Len(recent) > 0
          /\ \A i \in 1 .. Len(recent) - 1 : f[i] = recent[i]
      <4>1. Len(recent) > 0
        BY <1>3, <1>5, <1>7, LruAssumption
      <4>2. \A i \in 1 .. Len(recent) - 1 : recent[i] \in CachedTask
        BY <1>5, ElementOfSeq
      <4>3. f = SubSeq(recent, 1, Len(recent) - 1)
        BY DEF Lru!Front
      <4> DEFINE q == Len(recent) - 1
      <4>4. q \in Nat /\ \A i \in 1 .. q : recent[i] \in CachedTask
        BY <1>5, <4>1, <4>2
      <4> HIDE DEF q
      <4>5. /\ SubSeq(recent, 1, q) \in Seq(CachedTask) /\ Len(SubSeq(recent, 1, q)) = q
            /\ \A i \in 1 .. q : SubSeq(recent, 1, q)[i] = recent[i]
        BY <4>4, SubSeqProperties
      <4> QED BY <4>1, <4>3, <4>5 DEF q
    <3> HIDE DEF f
    <3>2. /\ g \in Seq(CachedTask) /\ Len(g) = Len(f) + 1 /\ g[1] = <<k, v>>
          /\ \A i \in 2 .. Len(f) + 1 : g[i] = f[i - 1]
      BY <3>1, PrependFacts DEF CachedTask
    <3>3. /\ s \in Seq(CachedTask) /\ Len(s) = Len(r) - 1
          /\ \A i \in 1 .. Len(r) - 1 : s[i] = IF i < p THEN r[i] ELSE r[i + 1]
      BY <1>5, <2>1, RemoveAtFacts
    <3> HIDE DEF g, s
    <3>4. Len(g) = Len(recent) /\ Len(s) = Len(recent)
      BY <1>5, <3>1, <3>2, <3>3
    <3>5. ASSUME NEW i \in 1 .. Len(g) PROVE g[i] = s[i]
      <4>1. s[i] = r[i]
        BY <1>5, <3>3, <3>4
      <4>2. CASE i = 1
        BY <1>5, <3>2, <4>1, <4>2
      <4>3. CASE i # 1
        <5>1. i \in 2 .. Len(recent) + 1 /\ i \in 2 .. Len(f) + 1 /\ i - 1 \in 1 .. Len(recent) - 1
          BY <1>5, <3>1, <3>4, <4>3
        <5> QED BY <1>5, <3>1, <3>2, <4>1, <5>1
      <4> QED BY <4>2, <4>3
    <3>6. g = s
      BY <3>2, <3>3, <3>4, <3>5, SeqEqual
    <3> QED BY <1>1, <1>7, <3>4, <3>6 DEF g, f, s
  <2>5. Lru!Links' = m
    BY <1>1, <1>7, <2>3, LinksSet DEF Good
  <2>6. Good(Lru!Links, recent, lruIndex, content)'
    BY <2>3, <2>4, <2>5
  <2>7. totalCached' = Len(recent)' /\ totalCached' <= MAXCACHED
    BY <1>1, <1>3, <1>7, <2>4
  <2> QED BY <2>6, <2>7, LruInvNext
<1> QED BY <1>6, <1>7

LEMMA NextLruInv == LruInv /\ [Lru!Next]_(Lru!lruVars) => LruInv'
<1> SUFFICES ASSUME LruInv, [Lru!Next]_(Lru!lruVars) PROVE LruInv'
  OBVIOUS
<1>1. CASE UNCHANGED Lru!lruVars
  BY <1>1 DEF Lru!lruVars, LruInv, Lru!Links, Lru!Chain
<1>2. ASSUME NEW k \in Keys, Lru!GetMiss(k) PROVE LruInv'
  BY <1>1, <1>2 DEF Lru!GetMiss
<1> QED BY <1>1, <1>2, GetHitLru, DeleteCacheLru, AddToCacheLru DEF Lru!Next

\* The cache of any size, for every sequence of calls: the doubly linked list,
\* the index and the count agree, and a full cache drops the task that was not
\* used for longest (cache.h:40-113).
THEOREM CacheCorrect == Lru!Spec => []CacheIsLru
<1>1. Lru!Init => LruInv
  BY InitLru
<1>2. LruInv /\ [Lru!Next]_(Lru!lruVars) => LruInv'
  BY NextLruInv
<1>3. LruInv => CacheIsLru
  BY LruInvIsLru
<1> QED BY <1>1, <1>2, <1>3, PTL DEF Lru!Spec
-----------------------------------------------------------------------------
(* The list of free blocks *)

Blocks(l) == l \in Seq(Nat \X Nat)

\* In order, with at least a byte between two blocks.
Apart(l) ==
  /\ \A i \in 1 .. Len(l) : l[i][1] <= l[i][2]
  /\ \A i, j \in 1 .. Len(l) : i < j => l[i][2] + 1 < l[j][1]

Sorted(l) == Blocks(l) /\ Apart(l)

Holding(l, i, b) == l[i][1] <= b /\ b <= l[i][2]
InBlock(l, b) == \E i \in 1 .. Len(l) : Holding(l, i, b)

LEMMA BlockNats ==
  ASSUME NEW l, Blocks(l)
  PROVE  /\ Len(l) \in Nat /\ DOMAIN l = 1 .. Len(l)
         /\ \A i \in 1 .. Len(l) : /\ l[i] \in Nat \X Nat
                                   /\ l[i][1] \in Nat /\ l[i][2] \in Nat
                                   /\ l[i] = << l[i][1], l[i][2] >>
<1>1. l \in Seq(Nat \X Nat)
  BY DEF Blocks
<1>2. Len(l) \in Nat /\ DOMAIN l = 1 .. Len(l) /\ \A i \in 1 .. Len(l) : l[i] \in Nat \X Nat
  BY <1>1, LenProperties, ElementOfSeq
<1>3. \A p \in Nat \X Nat : p[1] \in Nat /\ p[2] \in Nat /\ p = << p[1], p[2] >>
  OBVIOUS
<1> QED BY <1>2, <1>3

\* Every byte is in one block at most.
LEMMA OneBlock ==
  ASSUME NEW l, Sorted(l), NEW i \in 1 .. Len(l), NEW j \in 1 .. Len(l), NEW b \in Nat,
         Holding(l, i, b), Holding(l, j, b)
  PROVE  i = j
<1>1. Len(l) \in Nat /\ \A x \in 1 .. Len(l) : l[x][1] \in Nat /\ l[x][2] \in Nat
  BY BlockNats DEF Sorted
<1>2. ~(i < j) /\ ~(j < i)
  BY <1>1 DEF Sorted, Apart, Holding
<1> QED BY <1>1, <1>2

LEMMA BlockRemoved ==
  ASSUME NEW l, Sorted(l), NEW p \in 1 .. Len(l)
  PROVE  /\ Sorted(RemoveAt(l, p))
         /\ \A b \in Nat : InBlock(RemoveAt(l, p), b) <=> InBlock(l, b) /\ ~Holding(l, p, b)
<1> DEFINE r == RemoveAt(l, p)
<1>1. Len(l) \in Nat /\ \A x \in 1 .. Len(l) : l[x][1] \in Nat /\ l[x][2] \in Nat
  BY BlockNats DEF Sorted
<1>2. /\ r \in Seq(Nat \X Nat)
      /\ Len(r) = Len(l) - 1
      /\ \A i \in 1 .. Len(l) - 1 : r[i] = IF i < p THEN l[i] ELSE l[i + 1]
  BY RemoveAtFacts DEF Sorted, Blocks
<1> HIDE DEF r
<1> DEFINE Old(i) == IF i < p THEN i ELSE i + 1
<1>a. \A i \in 1 .. Len(r) : Old(i) \in 1 .. Len(l) /\ r[i] = l[Old(i)]
  BY <1>1, <1>2
<1>b. \A i, j \in 1 .. Len(r) : i < j => Old(i) < Old(j)
  BY <1>1, <1>2
<1>3. Apart(r)
  <2> HIDE DEF Old
  <2>1. \A i \in 1 .. Len(r) : r[i][1] <= r[i][2]
    BY <1>a DEF Sorted, Apart
  <2>2. \A i, j \in 1 .. Len(r) : i < j => r[i][2] + 1 < r[j][1]
    BY <1>a, <1>b DEF Sorted, Apart
  <2> QED BY <2>1, <2>2 DEF Apart
<1>4. ASSUME NEW b \in Nat PROVE InBlock(r, b) <=> InBlock(l, b) /\ ~Holding(l, p, b)
  <2>1. ASSUME NEW i \in 1 .. Len(r), Holding(r, i, b) PROVE InBlock(l, b) /\ ~Holding(l, p, b)
    <3>1. PICK x \in 1 .. Len(l) : r[i] = l[x] /\ x # p
      <4>1. Old(i) # p
        BY <1>1, <1>2
      <4> HIDE DEF Old
      <4> QED BY <1>a, <4>1
    <3>2. Holding(l, x, b)
      BY <2>1, <3>1 DEF Holding
    <3>3. ~Holding(l, p, b)
      BY <3>1, <3>2, OneBlock
    <3> QED BY <3>2, <3>3 DEF InBlock
  <2>2. ASSUME NEW x \in 1 .. Len(l), Holding(l, x, b), ~Holding(l, p, b) PROVE InBlock(r, b)
    <3>1. x # p
      BY <2>2
    <3>2. PICK i \in 1 .. Len(r) : r[i] = l[x]
      <4>1. CASE x < p
        BY <1>1, <1>2, <4>1
      <4>2. CASE x > p
        <5>1. x - 1 \in 1 .. Len(r) /\ ~(x - 1 < p) /\ x - 1 + 1 = x
          BY <1>1, <1>2, <4>2
        <5> QED BY <1>2, <5>1
      <4> QED BY <1>1, <3>1, <4>1, <4>2
    <3> QED BY <2>2, <3>2 DEF InBlock, Holding
  <2> QED BY <2>1, <2>2 DEF InBlock
<1> QED BY <1>2, <1>3, <1>4 DEF r, Sorted, Blocks

\* A block that is shortened at its start, or made longer at its end.
LEMMA BlockChanged ==
  ASSUME NEW l, Sorted(l), NEW p \in 1 .. Len(l), NEW h \in Nat, NEW t \in Nat, h <= t,
         \A j \in 1 .. Len(l) : j < p => l[j][2] + 1 < h,
         \A j \in 1 .. Len(l) : p < j => t + 1 < l[j][1]
  PROVE  /\ Sorted([l EXCEPT ![p] = << h, t >>])
         /\ \A b \in Nat : InBlock([l EXCEPT ![p] = << h, t >>], b)
                             <=> (InBlock(l, b) /\ ~Holding(l, p, b)) \/ (h <= b /\ b <= t)
<1> DEFINE r == [l EXCEPT ![p] = << h, t >>]
<1>1. Len(l) \in Nat /\ \A x \in 1 .. Len(l) : l[x][1] \in Nat /\ l[x][2] \in Nat
  BY BlockNats DEF Sorted
<1>2. /\ r \in Seq(Nat \X Nat)
      /\ Len(r) = Len(l)
      /\ \A i \in 1 .. Len(l) : r[i] = IF i = p THEN << h, t >> ELSE l[i]
  <2>1. l \in Seq(Nat \X Nat) /\ << h, t >> \in Nat \X Nat
    BY DEF Sorted, Blocks
  <2> QED BY <2>1, ExceptSeq
<1> HIDE DEF r
<1>3. \A i \in 1 .. Len(l) : /\ r[i][1] = IF i = p THEN h ELSE l[i][1]
                             /\ r[i][2] = IF i = p THEN t ELSE l[i][2]
  BY <1>2
<1>4. Apart(r)
  <2>1. \A i \in 1 .. Len(r) : r[i][1] <= r[i][2]
    BY <1>2, <1>3 DEF Sorted, Apart
  <2>2. ASSUME NEW i \in 1 .. Len(r), NEW j \in 1 .. Len(r), i < j PROVE r[i][2] + 1 < r[j][1]
    <3>1. i \in 1 .. Len(l) /\ j \in 1 .. Len(l)
      BY <1>2
    <3>2. CASE i = p
      BY <1>1, <1>3, <2>2, <3>1, <3>2
    <3>3. CASE j = p
      BY <1>1, <1>3, <2>2, <3>1, <3>3
    <3>4. CASE i # p /\ j # p
      BY <1>3, <2>2, <3>1, <3>4 DEF Sorted, Apart
    <3> QED BY <3>2, <3>3, <3>4
  <2> QED BY <2>1, <2>2 DEF Apart
<1>5. ASSUME NEW b \in Nat
      PROVE  InBlock(r, b) <=> (InBlock(l, b) /\ ~Holding(l, p, b)) \/ (h <= b /\ b <= t)
  <2>1. \A i \in 1 .. Len(l) : Holding(r, i, b) <=> IF i = p THEN h <= b /\ b <= t ELSE Holding(l, i, b)
    BY <1>3 DEF Holding
  <2>2. \A i \in 1 .. Len(l) : Holding(l, i, b) /\ Holding(l, p, b) => i = p
    BY OneBlock
  <2>3. InBlock(r, b) <=> \E i \in 1 .. Len(l) : Holding(r, i, b)
    BY <1>2 DEF InBlock
  <2>4. (\E i \in 1 .. Len(l) : Holding(r, i, b))
          <=> (\E i \in 1 .. Len(l) : Holding(l, i, b) /\ i # p) \/ (h <= b /\ b <= t)
    BY <2>1
  <2>5. (\E i \in 1 .. Len(l) : Holding(l, i, b) /\ i # p) <=> InBlock(l, b) /\ ~Holding(l, p, b)
    BY <2>2 DEF InBlock
  <2> QED BY <2>3, <2>4, <2>5
<1> QED BY <1>2, <1>4, <1>5 DEF r, Sorted, Blocks

\* A block after the others.
LEMMA BlockAppended ==
  ASSUME NEW l, Sorted(l), NEW h \in Nat, NEW t \in Nat, h <= t,
         \A j \in 1 .. Len(l) : l[j][2] + 1 < h
  PROVE  /\ Sorted(Append(l, << h, t >>))
         /\ \A b \in Nat : InBlock(Append(l, << h, t >>), b) <=> InBlock(l, b) \/ (h <= b /\ b <= t)
<1> DEFINE r == Append(l, << h, t >>)
<1>1. Len(l) \in Nat /\ \A x \in 1 .. Len(l) : l[x][1] \in Nat /\ l[x][2] \in Nat
  BY BlockNats DEF Sorted
<1>2. /\ r \in Seq(Nat \X Nat)
      /\ Len(r) = Len(l) + 1
      /\ \A i \in 1 .. Len(l) : r[i] = l[i]
      /\ r[Len(l) + 1] = << h, t >>
  <2>1. l \in Seq(Nat \X Nat) /\ << h, t >> \in Nat \X Nat
    BY DEF Sorted, Blocks
  <2> QED BY <2>1, AppendProperties
<1> HIDE DEF r
<1>3. r[Len(l) + 1][1] = h /\ r[Len(l) + 1][2] = t
  BY <1>2
<1>4. \A i \in 1 .. Len(r) : i \in 1 .. Len(l) \/ i = Len(l) + 1
  BY <1>1, <1>2
<1>5. 1 .. Len(l) \subseteq 1 .. Len(r) /\ Len(l) + 1 \in 1 .. Len(r)
  BY <1>1, <1>2
<1>6. Apart(r)
  <2>1. \A i \in 1 .. Len(r) : r[i][1] <= r[i][2]
    BY <1>2, <1>3, <1>4 DEF Sorted, Apart
  <2>2. ASSUME NEW i \in 1 .. Len(r), NEW j \in 1 .. Len(r), i < j PROVE r[i][2] + 1 < r[j][1]
    <3>1. i \in 1 .. Len(l)
      BY <1>1, <1>2, <2>2
    <3>2. CASE j \in 1 .. Len(l)
      BY <1>2, <2>2, <3>1, <3>2 DEF Sorted, Apart
    <3>3. CASE j = Len(l) + 1
      BY <1>2, <1>3, <3>1, <3>3
    <3> QED BY <1>4, <3>2, <3>3
  <2> QED BY <2>1, <2>2 DEF Apart
<1>7. ASSUME NEW b \in Nat PROVE InBlock(r, b) <=> InBlock(l, b) \/ (h <= b /\ b <= t)
  <2>1. \A i \in 1 .. Len(l) : Holding(r, i, b) <=> Holding(l, i, b)
    BY <1>2 DEF Holding
  <2>2. Holding(r, Len(l) + 1, b) <=> (h <= b /\ b <= t)
    BY <1>3 DEF Holding
  <2>3. InBlock(r, b) <=> Holding(r, Len(l) + 1, b) \/ \E i \in 1 .. Len(l) : Holding(r, i, b)
    BY <1>4, <1>5 DEF InBlock
  <2> QED BY <2>1, <2>2, <2>3 DEF InBlock
<1> QED BY <1>2, <1>6, <1>7 DEF r, Sorted, Blocks

\* r is s with m in place of what is after position a and before position c.
Splices(r, s, m, a, c) ==
  /\ Len(r) = a + 2 + Len(s) - c
  /\ \A i \in 1 .. a : r[i] = s[i]
  /\ r[a + 1] = m
  /\ \A i \in c .. Len(s) : r[i + a + 2 - c] = s[i]

LEMMA Spliced ==
  ASSUME NEW S, NEW s \in Seq(S), NEW m \in S, NEW a \in 0 .. Len(s), NEW c \in 1 .. Len(s) + 1, a < c
  PROVE  /\ SubSeq(s, 1, a) \o << m >> \o SubSeq(s, c, Len(s)) \in Seq(S)
         /\ Splices(SubSeq(s, 1, a) \o << m >> \o SubSeq(s, c, Len(s)), s, m, a, c)
<1> DEFINE x == SubSeq(s, 1, a)
           y == SubSeq(s, c, Len(s))
<1>1. Len(s) \in Nat /\ \A i \in 1 .. Len(s) : s[i] \in S
  BY LenProperties, ElementOfSeq
<1>2. x \in Seq(S) /\ Len(x) = a /\ \A i \in 1 .. a : x[i] = s[i]
  <2>1. \A i \in 1 .. a : s[i] \in S
    BY <1>1
  <2> QED BY <1>1, <2>1, SubSeqProperties
<1>3. /\ y \in Seq(S) /\ Len(y) = Len(s) - c + 1
      /\ \A i \in 1 .. Len(s) - c + 1 : y[i] = s[c + i - 1]
  <2>1. \A i \in c .. Len(s) : s[i] \in S
    BY <1>1
  <2> QED BY <1>1, <2>1, SubSeqProperties
<1>4. << m >> \in Seq(S) /\ Len(<< m >>) = 1 /\ << m >>[1] = m
  OBVIOUS
<1> HIDE DEF x, y
<1> DEFINE z == x \o << m >>
<1>5. /\ z \in Seq(S) /\ Len(z) = a + 1
      /\ \A i \in 1 .. a : z[i] = s[i]
      /\ z[a + 1] = m
  BY <1>1, <1>2, <1>4, ConcatProperties
<1> HIDE DEF z
<1> DEFINE r == z \o y
<1>6. /\ r \in Seq(S) /\ Len(r) = a + 2 + Len(s) - c
      /\ \A i \in 1 .. Len(r) : r[i] = IF i <= a + 1 THEN z[i] ELSE y[i - (a + 1)]
  <2>1. z \in Seq(S) /\ y \in Seq(S)
    BY <1>3, <1>5
  <2>2. /\ z \o y \in Seq(S)
        /\ Len(z \o y) = Len(z) + Len(y)
        /\ \A i \in 1 .. Len(z) + Len(y) : (z \o y)[i] = IF i <= Len(z) THEN z[i] ELSE y[i - Len(z)]
    BY <2>1, ConcatProperties
  <2>3. Len(z) + Len(y) = a + 2 + Len(s) - c /\ Len(z) = a + 1
    BY <1>1, <1>3, <1>5
  <2> QED BY <2>2, <2>3
<1> HIDE DEF r
<1>7. \A i \in 1 .. a : r[i] = s[i]
  BY <1>1, <1>5, <1>6
<1>8. r[a + 1] = m
  BY <1>1, <1>5, <1>6
<1>9. ASSUME NEW i \in c .. Len(s) PROVE r[i + a + 2 - c] = s[i]
  <2>1. /\ i + a + 2 - c \in 1 .. Len(r)
        /\ ~(i + a + 2 - c <= a + 1)
        /\ i + a + 2 - c - (a + 1) = i + 1 - c
        /\ i + 1 - c \in 1 .. Len(s) - c + 1
        /\ c + (i + 1 - c) - 1 = i
    BY <1>1, <1>6
  <2>2. r[i + a + 2 - c] = y[i + 1 - c]
    BY <1>6, <2>1
  <2>3. y[i + 1 - c] = s[c + (i + 1 - c) - 1]
    BY <1>3, <2>1
  <2> QED BY <2>1, <2>2, <2>3
<1>10. r = SubSeq(s, 1, a) \o << m >> \o SubSeq(s, c, Len(s))
  BY DEF r, z, x, y
<1>11. Splices(r, s, m, a, c)
  BY <1>6, <1>7, <1>8, <1>9 DEF Splices
<1> QED BY <1>6, <1>10, <1>11

LEMMA BlockSpliced ==
  ASSUME NEW l, Sorted(l), NEW h \in Nat, NEW t \in Nat, h <= t,
         NEW a \in 0 .. Len(l), NEW c \in 1 .. Len(l) + 1, a < c,
         \A j \in 1 .. a : l[j][2] + 1 < h,
         \A j \in c .. Len(l) : t + 1 < l[j][1],
         NEW r \in Seq(Nat \X Nat), Splices(r, l, << h, t >>, a, c)
  PROVE  /\ Sorted(r)
         /\ \A b \in Nat : InBlock(r, b) <=> \/ \E j \in 1 .. a : Holding(l, j, b)
                                             \/ h <= b /\ b <= t
                                             \/ \E j \in c .. Len(l) : Holding(l, j, b)
<1>1. Len(l) \in Nat /\ \A x \in 1 .. Len(l) : l[x][1] \in Nat /\ l[x][2] \in Nat
  BY BlockNats DEF Sorted
<1> DEFINE m == << h, t >>
           At(i) == i + a + 2 - c
<1>2. /\ Len(r) = a + 2 + Len(l) - c
      /\ \A i \in 1 .. a : r[i] = l[i]
      /\ r[a + 1] = m
      /\ \A i \in c .. Len(l) : r[At(i)] = l[i]
  BY DEF Splices
<1>3. m[1] = h /\ m[2] = t
  OBVIOUS
<1> HIDE DEF m
<1>a. a \in Nat /\ c \in Nat \ {0} /\ a <= Len(l) /\ c <= Len(l) + 1 /\ Len(r) = a + 2 + Len(l) - c
  BY <1>1, <1>2
<1>4. ASSUME NEW k \in 1 .. Len(r)
      PROVE  k \in 1 .. a \/ k = a + 1 \/ \E i \in c .. Len(l) : At(i) = k
  <2>1. CASE k > a + 1
    <3> DEFINE i == k - a - 2 + c
    <3>1. i \in c .. Len(l)
      BY <1>1, <1>a, <2>1
    <3>2. At(i) = k
      BY <1>1, <1>a
    <3> QED BY <3>1, <3>2
  <2>2. CASE ~(k > a + 1)
    BY <1>1, <1>a, <2>2
  <2> QED BY <2>1, <2>2
<1>5. /\ 1 .. a \subseteq 1 .. Len(r) /\ a + 1 \in 1 .. Len(r) /\ \A i \in c .. Len(l) : At(i) \in 1 .. Len(r)
      /\ 1 .. a \subseteq 1 .. Len(l) /\ c .. Len(l) \subseteq 1 .. Len(l)
  <2>1. 1 .. a \subseteq 1 .. Len(r) /\ a + 1 \in 1 .. Len(r)
    BY <1>1, <1>a
  <2>2. \A i \in c .. Len(l) : At(i) \in 1 .. Len(r)
    BY <1>1, <1>a
  <2>3. 1 .. a \subseteq 1 .. Len(l) /\ c .. Len(l) \subseteq 1 .. Len(l)
    BY <1>1, <1>a
  <2> QED BY <2>1, <2>2, <2>3
<1>6. \A i, j \in c .. Len(l) : At(i) < At(j) => i < j
  BY <1>1, <1>a
<1>7. /\ \A i \in c .. Len(l) : At(i) > a + 1
      /\ \A i \in 1 .. a : i < a + 1
      /\ \A i \in 1 .. a : \A j \in c .. Len(l) : i < j
  BY <1>1, <1>a
<1> HIDE DEF At
<1>8. Apart(r)
  <2>1. ASSUME NEW k \in 1 .. Len(r) PROVE r[k][1] <= r[k][2]
    <3>1. CASE k \in 1 .. a
      BY <1>2, <1>5, <3>1 DEF Sorted, Apart
    <3>2. CASE k = a + 1
      BY <1>2, <1>3, <3>2
    <3>3. ASSUME NEW i \in c .. Len(l), At(i) = k PROVE r[k][1] <= r[k][2]
      BY <1>2, <1>5, <3>3 DEF Sorted, Apart
    <3> QED BY <1>4, <3>1, <3>2, <3>3
  <2>2. ASSUME NEW k \in 1 .. Len(r), NEW n \in 1 .. Len(r), k < n PROVE r[k][2] + 1 < r[n][1]
    <3>1. CASE k \in 1 .. a
      <4>1. r[k] = l[k] /\ k \in 1 .. Len(l)
        BY <1>2, <1>5, <3>1
      <4>2. CASE n \in 1 .. a
        BY <1>2, <1>5, <2>2, <4>1, <4>2 DEF Sorted, Apart
      <4>3. CASE n = a + 1
        BY <1>2, <1>3, <3>1, <4>1, <4>3
      <4>4. ASSUME NEW j \in c .. Len(l), At(j) = n PROVE r[k][2] + 1 < r[n][1]
        <5>1. k < j /\ j \in 1 .. Len(l) /\ r[n] = l[j]
          BY <1>2, <1>5, <1>7, <3>1, <4>4
        <5> QED BY <4>1, <5>1 DEF Sorted, Apart
      <4> QED BY <1>4, <4>2, <4>3, <4>4
    <3>2. CASE k = a + 1
      <4>1. n \notin 1 .. a /\ n # a + 1
        BY <1>1, <2>2, <3>2
      <4>2. ASSUME NEW j \in c .. Len(l), At(j) = n PROVE r[k][2] + 1 < r[n][1]
        BY <1>2, <1>3, <3>2, <4>2
      <4> QED BY <1>4, <4>1, <4>2
    <3>3. ASSUME NEW i \in c .. Len(l), At(i) = k PROVE r[k][2] + 1 < r[n][1]
      <4>0. k > a + 1
        BY <1>7, <3>3
      <4>1. n \notin 1 .. a /\ n # a + 1
        BY <1>1, <1>a, <2>2, <4>0
      <4>2. ASSUME NEW j \in c .. Len(l), At(j) = n PROVE r[k][2] + 1 < r[n][1]
        <5>1. i < j /\ i \in 1 .. Len(l) /\ j \in 1 .. Len(l) /\ r[k] = l[i] /\ r[n] = l[j]
          BY <1>2, <1>5, <1>6, <2>2, <3>3, <4>2
        <5> QED BY <5>1 DEF Sorted, Apart
      <4> QED BY <1>4, <4>1, <4>2
    <3> QED BY <1>4, <3>1, <3>2, <3>3
  <2> QED BY <2>1, <2>2 DEF Apart
<1>9. ASSUME NEW b \in Nat
      PROVE  InBlock(r, b) <=> \/ \E j \in 1 .. a : Holding(l, j, b)
                               \/ h <= b /\ b <= t
                               \/ \E j \in c .. Len(l) : Holding(l, j, b)
  <2>1. \A i \in 1 .. a : Holding(r, i, b) <=> Holding(l, i, b)
    BY <1>2 DEF Holding
  <2>2. Holding(r, a + 1, b) <=> (h <= b /\ b <= t)
    BY <1>2, <1>3 DEF Holding
  <2>3. \A j \in c .. Len(l) : Holding(r, At(j), b) <=> Holding(l, j, b)
    BY <1>2 DEF Holding
  <2>4. InBlock(r, b) <=> \/ \E i \in 1 .. a : Holding(r, i, b)
                          \/ Holding(r, a + 1, b)
                          \/ \E j \in c .. Len(l) : Holding(r, At(j), b)
    BY <1>4, <1>5 DEF InBlock
  <2> QED BY <2>1, <2>2, <2>3, <2>4
<1> QED BY <1>2, <1>8, <1>9 DEF Sorted, Blocks

-----------------------------------------------------------------------------
(* Insert, Delete and Resize on the list *)

\* A set of numbers that is not empty has a least element.
LEMMA LeastNumber ==
  ASSUME NEW S \in SUBSET Nat, S # {}
  PROVE  \E m \in S : \A n \in S : m <= n
<1>1. IsWellFoundedOn(OpToRel(<, Nat), Nat)
  BY NatLessThanWellFounded
<1>2. PICK m \in S : \A n \in S : <<n, m>> \notin OpToRel(<, Nat)
  BY <1>1, WFMin
<1>3. \A n \in S : ~(n < m)
  BY <1>2 DEF OpToRel
<1> QED BY <1>3

LEMMA MinIsLeast ==
  ASSUME NEW S \in SUBSET Nat, S # {}
  PROVE  Min(S) \in S /\ \A n \in S : Min(S) <= n
<1>1. \E m \in S : \A n \in S : m <= n
  BY LeastNumber
<1> QED BY <1>1 DEF Min

LEMMA FirstFitFacts ==
  ASSUME Sorted(mem_list), NEW n \in Nat
  PROVE  LET i == FirstFit(n)
         IN i = 0 \/ (i \in 1 .. Len(mem_list) /\ mem_list[i][2] - mem_list[i][1] + 1 >= n)
<1> DEFINE I == {i \in 1 .. Len(mem_list) : mem_list[i][2] - mem_list[i][1] + 1 >= n}
<1>1. FirstFit(n) = IF I # {} THEN Min(I) ELSE 0
  BY DEF FirstFit, SelectInSeq
<1>2. I \in SUBSET Nat
  OBVIOUS
<1>3. I # {} => Min(I) \in I
  <2> HIDE DEF I
  <2> QED BY <1>2, MinIsLeast
<1> QED BY <1>1, <1>3

\* Insert takes the first n bytes of block i.
LEMMA TakenFacts ==
  ASSUME Sorted(mem_list), NEW i \in 1 .. Len(mem_list), NEW n \in Nat \ {0},
         mem_list[i][2] - mem_list[i][1] + 1 >= n
  PROVE  /\ Sorted(Taken(i, n))
         /\ \A b \in Nat : InBlock(Taken(i, n), b) <=>
              InBlock(mem_list, b) /\ ~(mem_list[i][1] <= b /\ b <= mem_list[i][1] + n - 1)
<1> DEFINE l == mem_list
           h == l[i][1]
           t == l[i][2]
<1>1. /\ Len(l) \in Nat
      /\ \A x \in 1 .. Len(l) : l[x][1] \in Nat /\ l[x][2] \in Nat
      /\ l[i] \in Nat \X Nat /\ l[i] = << h, t >>
  BY BlockNats DEF Sorted
<1>2. h \in Nat /\ t \in Nat
  BY <1>1
<1>3. CASE t - h + 1 = n
  <2>1. Taken(i, n) = RemoveAt(l, i)
    BY <1>3 DEF Taken
  <2>2. \A b \in Nat : Holding(l, i, b) <=> (h <= b /\ b <= h + n - 1)
    BY <1>2, <1>3 DEF Holding
  <2> HIDE DEF l, h, t
  <2>3. Sorted(l) /\ i \in 1 .. Len(l)
    BY DEF l
  <2>4. /\ Sorted(RemoveAt(l, i))
        /\ \A b \in Nat : InBlock(RemoveAt(l, i), b) <=> InBlock(l, b) /\ ~Holding(l, i, b)
    BY <2>3, BlockRemoved
  <2> QED BY <2>1, <2>2, <2>4 DEF l, h
<1>4. CASE t - h + 1 # n
  <2> DEFINE g == h + n
  <2>1. g \in Nat /\ g <= t /\ h < g
    BY <1>2, <1>4
  <2>2. Taken(i, n) = [l EXCEPT ![i] = << g, t >>]
    <3>1. Taken(i, n) = [l EXCEPT ![i] = [l[i] EXCEPT ![1] = g]]
      BY <1>4 DEF Taken
    <3>2. [l[i] EXCEPT ![1] = g] = << g, t >>
      <4> HIDE DEF g, h, t, l
      <4>1. [<< h, t >> EXCEPT ![1] = g] = << g, t >>
        OBVIOUS
      <4> QED BY <1>1, <4>1
    <3> QED BY <3>1, <3>2
  <2>3. \A j \in 1 .. Len(l) : j < i => l[j][2] + 1 < g
    BY <1>1, <1>2, <2>1 DEF Sorted, Apart
  <2>4. \A j \in 1 .. Len(l) : i < j => t + 1 < l[j][1]
    BY DEF Sorted, Apart
  <2>5. Sorted(l)
    OBVIOUS
  <2>6. \A b \in Nat : Holding(l, i, b) <=> (h <= b /\ b <= t)
    BY DEF Holding
  <2>7. g - 1 = h + n - 1
    BY <1>2
  <2>8. i \in 1 .. Len(l)
    OBVIOUS
  <2> HIDE DEF l, h, g, t
  <2>9. /\ Sorted([l EXCEPT ![i] = << g, t >>])
        /\ \A b \in Nat : InBlock([l EXCEPT ![i] = << g, t >>], b)
                            <=> (InBlock(l, b) /\ ~Holding(l, i, b)) \/ (g <= b /\ b <= t)
    BY <1>2, <2>1, <2>3, <2>4, <2>5, <2>8, BlockChanged
  <2>10. \A b \in Nat : (InBlock(l, b) /\ ~Holding(l, i, b)) \/ (g <= b /\ b <= t)
                          <=> InBlock(l, b) /\ ~(h <= b /\ b <= g - 1)
    <3>1. \A b \in Nat : Holding(l, i, b) => InBlock(l, b)
      BY <2>8 DEF InBlock
    <3> QED BY <1>2, <2>1, <2>6, <3>1
  <2> QED BY <2>2, <2>7, <2>9, <2>10 DEF l, h
<1> QED BY <1>3, <1>4

\* Resize makes the list end with the bytes that the file got.
LEMMA ExtendedFacts ==
  ASSUME Sorted(mem_list), NEW n \in Nat \ {0}, \A b \in Nat : InBlock(mem_list, b) => b < n
  PROVE  /\ Sorted(Extended(n))
         /\ \A b \in Nat : InBlock(Extended(n), b) <=> InBlock(mem_list, b) \/ (n <= b /\ b <= 2 * n - 1)
<1> DEFINE l == mem_list
           e == 2 * n - 1
<1>1. /\ Len(l) \in Nat
      /\ \A x \in 1 .. Len(l) : l[x] \in Nat \X Nat /\ l[x][1] \in Nat /\ l[x][2] \in Nat
      /\ \A x \in 1 .. Len(l) : l[x] = << l[x][1], l[x][2] >>
  BY BlockNats DEF Sorted
<1>2. \A j \in 1 .. Len(l) : l[j][1] <= l[j][2] /\ l[j][2] < n
  <2>1. ASSUME NEW j \in 1 .. Len(l) PROVE l[j][1] <= l[j][2] /\ l[j][2] < n
    <3>1. l[j][1] <= l[j][2]
      BY DEF Sorted, Apart
    <3>2. InBlock(l, l[j][2])
      BY <1>1, <3>1 DEF InBlock, Holding
    <3> QED BY <1>1, <3>1, <3>2
  <2> QED BY <2>1
<1>3. e \in Nat /\ n <= e
  OBVIOUS
<1>4. Sorted(l)
  OBVIOUS
<1>5. CASE l # << >> /\ Last(l)[2] = n - 1
  <2> DEFINE p == Len(l)
             h == l[p][1]
  <2>1. p \in 1 .. Len(l) /\ l[p][2] = n - 1
    <3>1. l \in Seq(Nat \X Nat)
      BY DEF Sorted, Blocks
    <3>2. p # 0
      BY <1>5, <3>1, EmptySeq
    <3> QED BY <1>1, <1>5, <3>2 DEF Last
  <2>2. h \in Nat /\ h <= n - 1
    BY <1>1, <1>2, <2>1
  <2>3. Extended(n) = [l EXCEPT ![p] = << h, e >>]
    <3>1. Extended(n) = [l EXCEPT ![p] = [l[p] EXCEPT ![2] = e]]
      BY <1>5 DEF Extended
    <3>2. l[p] = << h, l[p][2] >>
      BY <1>1, <2>1
    <3>3. [l[p] EXCEPT ![2] = e] = << h, e >>
      <4> HIDE DEF h, p, l, e
      <4>1. [<< h, l[p][2] >> EXCEPT ![2] = e] = << h, e >>
        OBVIOUS
      <4> QED BY <3>2, <4>1
    <3> QED BY <3>1, <3>3
  <2>4. \A j \in 1 .. Len(l) : j < p => l[j][2] + 1 < h
    BY <2>1 DEF Sorted, Apart
  <2>5. \A j \in 1 .. Len(l) : ~(p < j)
    BY <1>1
  <2>6. \A b \in Nat : Holding(l, p, b) <=> (h <= b /\ b <= n - 1)
    BY <2>1 DEF Holding
  <2> HIDE DEF l, h, p, e
  <2>7. /\ Sorted([l EXCEPT ![p] = << h, e >>])
        /\ \A b \in Nat : InBlock([l EXCEPT ![p] = << h, e >>], b)
                            <=> (InBlock(l, b) /\ ~Holding(l, p, b)) \/ (h <= b /\ b <= e)
    <3>1. h <= e
      BY <1>3, <2>2
    <3> QED BY <1>3, <1>4, <2>1, <2>2, <2>4, <2>5, <3>1, BlockChanged
  <2>8. \A b \in Nat : Holding(l, p, b) => InBlock(l, b)
    BY <2>1 DEF InBlock
  <2>9. \A b \in Nat : (InBlock(l, b) /\ ~Holding(l, p, b)) \/ (h <= b /\ b <= e)
                         <=> InBlock(l, b) \/ (n <= b /\ b <= e)
    BY <1>3, <2>2, <2>6, <2>8
  <2> QED BY <2>3, <2>7, <2>9 DEF l, e
<1>6. CASE ~(l # << >> /\ Last(l)[2] = n - 1)
  <2>1. Extended(n) = Append(l, << n, e >>)
    BY <1>6 DEF Extended
  <2>2. ASSUME NEW j \in 1 .. Len(l) PROVE l[j][2] + 1 < n
    <3>1. l # << >> /\ Len(l) \in 1 .. Len(l)
      <4>1. l \in Seq(Nat \X Nat)
        BY DEF Sorted, Blocks
      <4>2. l # << >>
        BY <1>1, <4>1, EmptySeq
      <4> QED BY <1>1, <4>2
    <3>2. l[Len(l)][2] # n - 1
      BY <1>6, <3>1 DEF Last
    <3>3. l[Len(l)][2] + 1 < n
      BY <1>1, <1>2, <3>1, <3>2
    <3>4. CASE j < Len(l)
      <4>1. l[j][2] + 1 < l[Len(l)][1]
        BY <3>1, <3>4 DEF Sorted, Apart
      <4> QED BY <1>1, <1>2, <3>1, <3>3, <4>1
    <3> QED BY <1>1, <3>3, <3>4
  <2> HIDE DEF l, e
  <2>3. /\ Sorted(Append(l, << n, e >>))
        /\ \A b \in Nat : InBlock(Append(l, << n, e >>), b) <=> InBlock(l, b) \/ (n <= b /\ b <= e)
    BY <1>3, <1>4, <2>2, BlockAppended
  <2> QED BY <2>1, <2>3 DEF l, e
<1> QED BY <1>5, <1>6

\* The place of a block that Delete frees: before the first block behind it.
PlaceOf(t) ==
  LET i == SelectInSeq(mem_list, LAMBDA b : b[1] > t)
  IN IF i = 0 THEN Len(mem_list) + 1 ELSE i

LEMMA PlaceFacts ==
  ASSUME Sorted(mem_list), NEW t \in Nat, NEW at, at = PlaceOf(t)
  PROVE  /\ at \in 1 .. Len(mem_list) + 1
         /\ \A j \in 1 .. Len(mem_list) : IF j < at THEN mem_list[j][1] <= t ELSE t < mem_list[j][1]
<1> DEFINE I == {i \in 1 .. Len(mem_list) : mem_list[i][1] > t}
<1>1. /\ Len(mem_list) \in Nat
      /\ \A x \in 1 .. Len(mem_list) : mem_list[x][1] \in Nat /\ mem_list[x][2] \in Nat
  BY BlockNats DEF Sorted
<1>2. SelectInSeq(mem_list, LAMBDA b : b[1] > t) = IF I # {} THEN Min(I) ELSE 0
  BY DEF SelectInSeq
<1>3. I \in SUBSET Nat
  OBVIOUS
<1>4. CASE I = {}
  <2>1. at = Len(mem_list) + 1
    BY <1>2, <1>4 DEF PlaceOf
  <2>2. \A j \in 1 .. Len(mem_list) : ~(mem_list[j][1] > t)
    BY <1>4
  <2> QED BY <1>1, <2>1, <2>2
<1>5. CASE I # {}
  <2>1. Min(I) \in I /\ \A n \in I : Min(I) <= n
    <3> HIDE DEF I
    <3> QED BY <1>3, <1>5, MinIsLeast
  <2>2. Min(I) # 0
    BY <2>1
  <2>3. at = Min(I)
    BY <1>2, <1>5, <2>2 DEF PlaceOf
  <2>4. at \in 1 .. Len(mem_list) /\ mem_list[at][1] > t /\ \A n \in I : at <= n
    BY <2>1, <2>3
  <2>5. \A j \in 1 .. Len(mem_list) : j < at => mem_list[j][1] <= t
    BY <1>1, <2>4
  <2>6. \A j \in 1 .. Len(mem_list) : at < j => t < mem_list[j][1]
    <3>1. \A j \in 1 .. Len(mem_list) : at < j => mem_list[at][2] + 1 < mem_list[j][1]
      BY <2>4 DEF Sorted, Apart
    <3>2. mem_list[at][1] <= mem_list[at][2]
      BY <2>4 DEF Sorted, Apart
    <3> QED BY <1>1, <2>4, <3>1, <3>2
  <2> QED BY <1>1, <2>4, <2>5, <2>6
<1> QED BY <1>4, <1>5

\* Delete puts the bytes head .. tail, which were in no block, into the list.
LEMMA ReleasedFacts ==
  ASSUME Sorted(mem_list), NEW head \in Nat, NEW tail \in Nat, head <= tail,
         \A b \in Nat : InBlock(mem_list, b) => ~(head <= b /\ b <= tail)
  PROVE  /\ Sorted(Released(head, tail))
         /\ \A b \in Nat : InBlock(Released(head, tail), b)
                               <=> InBlock(mem_list, b) \/ (head <= b /\ b <= tail)
<1> DEFINE l == mem_list
<1>1. /\ Len(l) \in Nat
      /\ \A x \in 1 .. Len(l) : l[x] \in Nat \X Nat /\ l[x][1] \in Nat /\ l[x][2] \in Nat
  BY BlockNats DEF Sorted
<1>2. PICK at : at = PlaceOf(tail)
  OBVIOUS
<1>3. /\ at \in 1 .. Len(l) + 1
      /\ \A j \in 1 .. Len(l) : IF j < at THEN l[j][1] <= tail ELSE tail < l[j][1]
  BY <1>2, PlaceFacts
<1> DEFINE pre == at > 1 /\ l[at - 1][2] + 1 = head
           nxt == at <= Len(l) /\ tail + 1 = l[at][1]
           a == IF pre THEN at - 2 ELSE at - 1
           c == IF nxt THEN at + 1 ELSE at
           h == IF pre THEN l[at - 1][1] ELSE head
           t == IF nxt THEN l[at][2] ELSE tail
<1>4. Released(head, tail) = SubSeq(l, 1, a) \o << << h, t >> >> \o SubSeq(l, c, Len(l))
  BY <1>2 DEF Released, PlaceOf
<1>5. Sorted(l)
  OBVIOUS
<1>6. ASSUME NEW j \in 1 .. Len(l) PROVE IF j < at THEN l[j][2] < head ELSE tail < l[j][1]
  <2>1. CASE j < at
    <3>1. l[j][1] <= tail /\ l[j][1] <= l[j][2]
      BY <1>3, <2>1 DEF Sorted, Apart
    <3>2. l[j][2] \in Nat /\ l[j][1] \in Nat
      BY <1>1
    <3>3. InBlock(l, l[j][2]) /\ InBlock(l, l[j][1])
      BY <3>1, <3>2 DEF InBlock, Holding
    <3>4. ~(head <= l[j][1] /\ l[j][1] <= tail) /\ ~(head <= l[j][2] /\ l[j][2] <= tail)
      BY <3>2, <3>3
    <3>5. l[j][1] < head
      BY <3>1, <3>2, <3>4
    <3>6. CASE l[j][2] > tail
      <4>1. Holding(l, j, head)
        BY <3>2, <3>5, <3>6 DEF Holding
      <4>2. InBlock(l, head)
        BY <4>1 DEF InBlock
      <4> QED BY <4>2
    <3> QED BY <2>1, <3>2, <3>4, <3>6
  <2>2. CASE ~(j < at)
    BY <1>3, <2>2
  <2> QED BY <2>1, <2>2
<1> HIDE DEF l
<1>7. /\ a \in 0 .. Len(l) /\ c \in 1 .. Len(l) + 1 /\ a < c
      /\ pre => at - 1 \in 1 .. Len(l) /\ at - 1 < at /\ l[at - 1][2] = head - 1
      /\ nxt => at \in 1 .. Len(l) /\ ~(at < at) /\ l[at][1] = tail + 1
  <2>1. pre => at - 1 \in 1 .. Len(l) /\ at - 1 < at /\ l[at - 1][2] = head - 1
    <3>1. CASE pre
      <4>1. at - 1 \in 1 .. Len(l)
        BY <1>1, <1>3, <3>1
      <4> QED BY <1>1, <1>3, <3>1, <4>1
    <3> QED BY <3>1
  <2>2. nxt => at \in 1 .. Len(l) /\ ~(at < at) /\ l[at][1] = tail + 1
    BY <1>1, <1>3
  <2>3. a \in 0 .. Len(l) /\ c \in 1 .. Len(l) + 1 /\ a < c
    <3>1. at \in Nat /\ at >= 1 /\ at <= Len(l) + 1
      BY <1>1, <1>3
    <3>2. a \in {at - 1, at - 2} /\ (a = at - 2 => at > 1)
      BY <3>1
    <3>3. c \in {at, at + 1} /\ (c = at + 1 => at <= Len(l))
      BY <3>1
    <3> HIDE DEF a, c
    <3> QED BY <1>1, <3>1, <3>2, <3>3
  <2> QED BY <2>1, <2>2, <2>3
<1>8. /\ h \in Nat /\ h <= head
      /\ \A b \in Nat : h <= b /\ b <= head - 1 <=> pre /\ Holding(l, at - 1, b)
  <2>1. CASE pre
    <3>1. h = l[at - 1][1] /\ l[at - 1][1] \in Nat /\ l[at - 1][1] <= l[at - 1][2]
      BY <1>1, <1>5, <1>7, <2>1 DEF Sorted, Apart
    <3>2. l[at - 1][2] = head - 1
      BY <1>7, <2>1
    <3> HIDE DEF h, pre
    <3> QED BY <2>1, <3>1, <3>2 DEF Holding
  <2>2. CASE ~pre
    <3>1. h = head
      BY <2>2
    <3> HIDE DEF h, pre
    <3> QED BY <2>2, <3>1
  <2> QED BY <2>1, <2>2
<1>9. /\ t \in Nat /\ tail <= t
      /\ \A b \in Nat : tail + 1 <= b /\ b <= t <=> nxt /\ Holding(l, at, b)
  <2>1. CASE nxt
    <3>1. t = l[at][2] /\ l[at][2] \in Nat /\ l[at][1] <= l[at][2]
      BY <1>1, <1>5, <1>7, <2>1 DEF Sorted, Apart
    <3>2. l[at][1] = tail + 1
      BY <1>7, <2>1
    <3> HIDE DEF t, nxt
    <3> QED BY <2>1, <3>1, <3>2 DEF Holding
  <2>2. CASE ~nxt
    <3>1. t = tail
      BY <2>2
    <3> HIDE DEF t, nxt
    <3> QED BY <2>2, <3>1
  <2> QED BY <2>1, <2>2
<1>10. ASSUME NEW j \in 1 .. a PROVE l[j][2] + 1 < h
  <2>1. j \in 1 .. Len(l) /\ j < at
    BY <1>1, <1>3, <1>7
  <2>2. CASE pre
    <3>1. j < at - 1 /\ at - 1 \in 1 .. Len(l) /\ h = l[at - 1][1]
      BY <1>1, <1>3, <1>7, <2>2
    <3> QED BY <1>5, <2>1, <3>1 DEF Sorted, Apart
  <2>3. CASE ~pre
    <3>1. h = head /\ at > 1 /\ at - 1 \in 1 .. Len(l) /\ l[at - 1][2] + 1 # head
      BY <1>1, <1>3, <2>1, <2>3
    <3>2. l[at - 1][2] + 1 < head
      <4>1. at - 1 < at
        BY <1>3
      <4>2. l[at - 1][2] < head
        BY <1>6, <3>1, <4>1
      <4> QED BY <1>1, <3>1, <4>2
    <3>3. CASE j = at - 1
      BY <3>1, <3>2, <3>3
    <3>4. CASE j < at - 1
      <4>1. l[j][2] + 1 < l[at - 1][1] /\ l[at - 1][1] <= l[at - 1][2]
        BY <1>5, <2>1, <3>1, <3>4 DEF Sorted, Apart
      <4>2. l[j][2] \in Nat /\ l[at - 1][1] \in Nat /\ l[at - 1][2] \in Nat
        BY <1>1, <2>1, <3>1
      <4> QED BY <3>1, <3>2, <4>1, <4>2
    <3> QED BY <1>3, <2>1, <3>3, <3>4
  <2> QED BY <2>2, <2>3
<1>11. ASSUME NEW j \in c .. Len(l) PROVE t + 1 < l[j][1]
  <2>1. j \in 1 .. Len(l) /\ ~(j < at)
    BY <1>1, <1>3, <1>7
  <2>2. CASE nxt
    <3>1. at < j /\ at \in 1 .. Len(l) /\ t = l[at][2]
      BY <1>1, <1>3, <1>7, <2>2
    <3> QED BY <1>5, <2>1, <3>1 DEF Sorted, Apart
  <2>3. CASE ~nxt
    <3>1. t = tail /\ at \in 1 .. Len(l) /\ tail + 1 # l[at][1]
      BY <1>1, <1>3, <2>1, <2>3
    <3>2. tail + 1 < l[at][1]
      <4>1. ~(at < at)
        BY <1>3
      <4>2. tail < l[at][1]
        BY <1>6, <3>1, <4>1
      <4> QED BY <1>1, <3>1, <4>2
    <3>3. CASE j = at
      BY <3>1, <3>2, <3>3
    <3>4. CASE at < j
      <4>1. l[at][2] + 1 < l[j][1] /\ l[at][1] <= l[at][2]
        BY <1>5, <2>1, <3>1, <3>4 DEF Sorted, Apart
      <4>2. l[j][1] \in Nat /\ l[at][1] \in Nat /\ l[at][2] \in Nat
        BY <1>1, <2>1, <3>1
      <4> QED BY <3>1, <3>2, <4>1, <4>2
    <3> QED BY <1>3, <2>1, <3>3, <3>4
  <2> QED BY <2>2, <2>3
<1>12. ASSUME NEW j \in 1 .. Len(l)
       PROVE  j \in 1 .. a \/ j \in c .. Len(l) \/ (pre /\ j = at - 1) \/ (nxt /\ j = at)
  <2>1. at \in Nat
    BY <1>1, <1>3
  <2>2. a = (IF pre THEN at - 2 ELSE at - 1) /\ c = (IF nxt THEN at + 1 ELSE at)
    OBVIOUS
  <2> HIDE DEF a, c, pre, nxt
  <2> QED BY <1>1, <2>1, <2>2
<1>13. 1 .. a \subseteq 1 .. Len(l) /\ c .. Len(l) \subseteq 1 .. Len(l)
  BY <1>1, <1>7
<1> DEFINE r == SubSeq(l, 1, a) \o << << h, t >> >> \o SubSeq(l, c, Len(l))
<1> HIDE DEF a, c, h, t
<1>14. r \in Seq(Nat \X Nat) /\ Splices(r, l, << h, t >>, a, c)
  <2> DEFINE m == << h, t >>
             S == Nat \X Nat
  <2>1. l \in Seq(S) /\ m \in S
    BY <1>5, <1>8, <1>9 DEF Sorted, Blocks
  <2> HIDE DEF m, S
  <2>2. /\ SubSeq(l, 1, a) \o << m >> \o SubSeq(l, c, Len(l)) \in Seq(S)
        /\ Splices(SubSeq(l, 1, a) \o << m >> \o SubSeq(l, c, Len(l)), l, m, a, c)
    BY <1>7, <2>1, Spliced
  <2> QED BY <2>2 DEF m, S
<1> HIDE DEF r
<1>15. /\ Sorted(r)
       /\ \A b \in Nat : InBlock(r, b) <=> \/ \E j \in 1 .. a : Holding(l, j, b)
                                           \/ h <= b /\ b <= t
                                           \/ \E j \in c .. Len(l) : Holding(l, j, b)
  <2>1. h <= t
    BY <1>8, <1>9
  <2> QED BY <1>5, <1>7, <1>8, <1>9, <1>10, <1>11, <1>14, <2>1, BlockSpliced
<1>16. ASSUME NEW b \in Nat
       PROVE  InBlock(r, b) <=> InBlock(l, b) \/ (head <= b /\ b <= tail)
  <2>1. h <= b /\ b <= t <=> \/ pre /\ Holding(l, at - 1, b)
                             \/ head <= b /\ b <= tail
                             \/ nxt /\ Holding(l, at, b)
    <3> HIDE DEF pre, nxt
    <3>1. h <= b /\ b <= t <=> \/ h <= b /\ b <= head - 1
                               \/ head <= b /\ b <= tail
                               \/ tail + 1 <= b /\ b <= t
      BY <1>8, <1>9
    <3> QED BY <1>8, <1>9, <3>1
  <2>2. InBlock(l, b) <=> \/ \E j \in 1 .. a : Holding(l, j, b)
                          \/ \E j \in c .. Len(l) : Holding(l, j, b)
                          \/ pre /\ Holding(l, at - 1, b)
                          \/ nxt /\ Holding(l, at, b)
    <3>1. pre => at - 1 \in 1 .. Len(l)
      BY <1>7
    <3>2. nxt => at \in 1 .. Len(l)
      BY <1>7
    <3> HIDE DEF pre, nxt
    <3> QED BY <1>12, <1>13, <3>1, <3>2 DEF InBlock
  <2> QED BY <1>15, <2>1, <2>2
<1> QED BY <1>4, <1>15, <1>16 DEF r, l

-----------------------------------------------------------------------------
(* The scan of the data file by Start *)

\* A zero byte that does not end a value.
FreeByte(s, b) == b \in DOMAIN s /\ s[b] = 0 /\ (b = 0 \/ s[b - 1] = 0)

LEMMA SizeOfBytes ==
  ASSUME NEW s, NEW n \in Nat, DOMAIN s = 0 .. n - 1
  PROVE  SizeOf(s) = n
BY FS_Interval DEF SizeOf

\* The runs of zeros are apart from each other.
LEMMA RunsApart ==
  ASSUME NEW s, NEW n \in Nat, DOMAIN s = 0 .. n - 1, NEW x \in ZeroRuns(s), NEW y \in ZeroRuns(s)
  PROVE  x = y \/ x[2] + 1 < y[1] \/ y[2] + 1 < x[1]
<1>1. SizeOf(s) = n
  BY SizeOfBytes
<1>2. ASSUME NEW r \in ZeroRuns(s)
      PROVE  /\ r[1] \in 0 .. n - 1 /\ r[2] \in 0 .. n - 1 /\ r = << r[1], r[2] >>
             /\ r[1] <= r[2]
             /\ \A b \in r[1] .. r[2] : s[b] = 0
             /\ r[1] = 0 \/ s[r[1] - 1] # 0
             /\ r[2] = n - 1 \/ s[r[2] + 1] # 0
  <2>1. r \in (0 .. n - 1) \X (0 .. n - 1)
    BY DEF ZeroRuns
  <2>2. r[1] \in 0 .. n - 1 /\ r[2] \in 0 .. n - 1 /\ r = << r[1], r[2] >>
    BY <2>1
  <2>3. /\ r[1] <= r[2]
        /\ \A b \in r[1] .. r[2] : s[b] = 0
        /\ r[1] = 0 \/ s[r[1] - 1] # 0
        /\ r[2] = n - 1 \/ s[r[2] + 1] # 0
    BY <1>1 DEF ZeroRuns
  <2> QED BY <2>2, <2>3
<1>3. ASSUME NEW u \in ZeroRuns(s), NEW w \in ZeroRuns(s), u[1] < w[1] PROVE u[2] + 1 < w[1]
  <2>1. s[w[1] - 1] # 0
    BY <1>2, <1>3
  <2>2. w[1] - 1 \notin u[1] .. u[2]
    BY <1>2, <2>1
  <2>3. u[1] \in Nat /\ u[2] \in Nat /\ w[1] \in Nat
    BY <1>2
  <2> QED BY <1>3, <2>2, <2>3
<1>4. ASSUME NEW u \in ZeroRuns(s), NEW w \in ZeroRuns(s), u[1] = w[1] PROVE ~(u[2] < w[2])
  <2>1. SUFFICES ASSUME u[2] < w[2] PROVE FALSE
    OBVIOUS
  <2>2. u[1] \in Nat /\ u[2] \in Nat /\ w[2] \in Nat /\ w[2] <= n - 1 /\ u[1] <= u[2]
    BY <1>2
  <2>3. s[u[2] + 1] # 0
    <3>1. u[2] = n - 1 \/ s[u[2] + 1] # 0
      BY <1>2
    <3> QED BY <2>1, <2>2, <3>1
  <2>4. u[2] + 1 \in w[1] .. w[2]
    BY <1>4, <2>1, <2>2
  <2> QED BY <1>2, <2>3, <2>4
<1>5. CASE x[1] = y[1]
  <2>1. ~(x[2] < y[2]) /\ ~(y[2] < x[2])
    BY <1>4, <1>5
  <2>2. x[2] \in Nat /\ y[2] \in Nat
    BY <1>2
  <2>3. x[2] = y[2]
    BY <2>1, <2>2
  <2>4. x = << x[1], x[2] >> /\ y = << y[1], y[2] >>
    BY <1>2
  <2> QED BY <1>5, <2>3, <2>4
<1>6. CASE x[1] # y[1]
  <2>1. x[1] \in Nat /\ y[1] \in Nat
    BY <1>2
  <2>2. x[1] < y[1] \/ y[1] < x[1]
    BY <1>6, <2>1
  <2> QED BY <1>3, <2>2
<1> QED BY <1>5, <1>6

\* The blocks that are found, one by one.
LEMMA FoundFacts ==
  ASSUME NEW s, NEW n \in Nat, DOMAIN s = 0 .. n - 1
  PROVE  /\ FoundBlocks(s) \subseteq (0 .. n - 1) \X (0 .. n - 1)
         /\ \A x \in FoundBlocks(s) : /\ x[1] <= x[2]
                                      /\ \A b \in x[1] .. x[2] : FreeByte(s, b)
         /\ \A x, y \in FoundBlocks(s) : x = y \/ x[2] + 1 < y[1] \/ y[2] + 1 < x[1]
<1>1. SizeOf(s) = n
  BY SizeOfBytes
<1>2. ASSUME NEW x \in FoundBlocks(s)
      PROVE  \E r \in ZeroRuns(s) : /\ x = << BlockStart(r[1]), r[2] >>
                                    /\ x[1] = BlockStart(r[1]) /\ x[2] = r[2]
                                    /\ x[1] <= x[2]
  BY DEF FoundBlocks
<1>3. ASSUME NEW r \in ZeroRuns(s)
      PROVE  /\ r[1] \in 0 .. n - 1 /\ r[2] \in 0 .. n - 1
             /\ \A b \in r[1] .. r[2] : s[b] = 0
             /\ BlockStart(r[1]) \in Nat /\ r[1] <= BlockStart(r[1])
             /\ BlockStart(r[1]) = r[1] => r[1] = 0
  <2>1. r \in (0 .. n - 1) \X (0 .. n - 1)
    BY DEF ZeroRuns
  <2>2. r[1] \in 0 .. n - 1 /\ r[2] \in 0 .. n - 1
    BY <2>1
  <2>3. \A b \in r[1] .. r[2] : s[b] = 0
    BY DEF ZeroRuns
  <2> QED BY <2>2, <2>3 DEF BlockStart
<1>4. ASSUME NEW x \in FoundBlocks(s)
      PROVE  /\ x \in (0 .. n - 1) \X (0 .. n - 1)
             /\ x[1] <= x[2]
             /\ \A b \in x[1] .. x[2] : FreeByte(s, b)
  <2>1. PICK r \in ZeroRuns(s) : /\ x = << BlockStart(r[1]), r[2] >>
                                 /\ x[1] = BlockStart(r[1]) /\ x[2] = r[2]
                                 /\ x[1] <= x[2]
    BY <1>2
  <2> DEFINE h == BlockStart(r[1])
             i == r[1]
             t == r[2]
  <2>2. /\ i \in 0 .. n - 1 /\ t \in 0 .. n - 1 /\ \A b \in i .. t : s[b] = 0
        /\ h \in Nat /\ i <= h /\ (h = i => i = 0)
    BY <1>3
  <2>3. h <= t /\ x[1] = h /\ x[2] = t /\ x = << h, t >>
    BY <2>1
  <2> HIDE DEF h, i, t
  <2>4. h \in 0 .. n - 1
    BY <2>2, <2>3
  <2>5. ASSUME NEW b \in h .. t PROVE FreeByte(s, b)
    <3>1. b \in i .. t /\ b \in 0 .. n - 1
      BY <2>2, <2>3
    <3>2. CASE b = i
      <4>1. b = 0
        BY <2>2, <2>4, <3>2
      <4> QED BY <2>2, <3>1, <4>1 DEF FreeByte
    <3>3. CASE b # i
      <4>1. b - 1 \in i .. t
        BY <2>2, <3>1, <3>3
      <4> QED BY <2>2, <3>1, <4>1 DEF FreeByte
    <3> QED BY <3>2, <3>3
  <2> QED BY <2>2, <2>3, <2>4, <2>5
<1>5. ASSUME NEW x \in FoundBlocks(s), NEW y \in FoundBlocks(s)
      PROVE  x = y \/ x[2] + 1 < y[1] \/ y[2] + 1 < x[1]
  <2>1. PICK r \in ZeroRuns(s) : x = << BlockStart(r[1]), r[2] >> /\ x[1] = BlockStart(r[1]) /\ x[2] = r[2]
    BY <1>2
  <2>2. PICK q \in ZeroRuns(s) : y = << BlockStart(q[1]), q[2] >> /\ y[1] = BlockStart(q[1]) /\ y[2] = q[2]
    BY <1>2
  <2>3. r = q \/ r[2] + 1 < q[1] \/ q[2] + 1 < r[1]
    BY RunsApart
  <2>4. /\ r[2] \in Nat /\ q[2] \in Nat /\ r[1] \in Nat /\ q[1] \in Nat
        /\ BlockStart(r[1]) \in Nat /\ BlockStart(q[1]) \in Nat
        /\ r[1] <= BlockStart(r[1]) /\ q[1] <= BlockStart(q[1])
    BY <1>3
  <2>5. CASE r = q
    BY <2>1, <2>2, <2>5
  <2>6. CASE r[2] + 1 < q[1]
    BY <2>1, <2>2, <2>4, <2>6
  <2>7. CASE q[2] + 1 < r[1]
    BY <2>1, <2>2, <2>4, <2>7
  <2> QED BY <2>3, <2>5, <2>6, <2>7
<1>6. FoundBlocks(s) \subseteq (0 .. n - 1) \X (0 .. n - 1)
  BY <1>4
<1>7. \A x \in FoundBlocks(s) : x[1] <= x[2] /\ \A b \in x[1] .. x[2] : FreeByte(s, b)
  BY <1>4
<1>8. \A x, y \in FoundBlocks(s) : x = y \/ x[2] + 1 < y[1] \/ y[2] + 1 < x[1]
  BY <1>5
<1> QED BY <1>6, <1>7, <1>8

\* No free byte is missed: the zeros around it, as far as they go, are a run.
LEMMA FreeByteFound ==
  ASSUME NEW s, NEW n \in Nat, DOMAIN s = 0 .. n - 1, NEW b \in Nat, FreeByte(s, b)
  PROVE  \E x \in FoundBlocks(s) : x[1] <= b /\ b <= x[2]
<1>1. SizeOf(s) = n
  BY SizeOfBytes
<1>2. b \in 0 .. n - 1 /\ s[b] = 0 /\ (b = 0 \/ s[b - 1] = 0)
  BY DEF FreeByte
<1> DEFINE Ends == {j \in b .. n - 1 : j = n - 1 \/ s[j + 1] # 0}
           Starts == {d \in 0 .. b : b - d = 0 \/ s[b - d - 1] # 0}
<1>3. PICK t \in Ends : \A j \in Ends : t <= j
  <2>1. n - 1 \in Ends
    BY <1>2
  <2>2. Ends \subseteq b .. n - 1 /\ b .. n - 1 \subseteq Nat
    OBVIOUS
  <2>3. Ends \in SUBSET Nat /\ Ends # {}
    BY <2>1, <2>2
  <2> HIDE DEF Ends
  <2> QED BY <2>3, LeastNumber
<1>4. PICK d \in Starts : \A j \in Starts : d <= j
  <2>1. b \in Starts
    OBVIOUS
  <2>2. Starts \in SUBSET Nat /\ Starts # {}
    BY <2>1
  <2> HIDE DEF Starts
  <2> QED BY <2>2, LeastNumber
<1> DEFINE h == b - d
<1>5. /\ h \in 0 .. n - 1 /\ h <= b /\ (h = 0 \/ s[h - 1] # 0)
      /\ t \in 0 .. n - 1 /\ b <= t /\ (t = n - 1 \/ s[t + 1] # 0)
  BY <1>2, <1>3, <1>4
<1>6. ASSUME NEW x \in b .. t PROVE s[x] = 0
  <2>1. SUFFICES ASSUME s[x] # 0 PROVE FALSE
    OBVIOUS
  <2>2. x # b
    BY <1>2, <2>1
  <2>3. x - 1 \in b .. n - 1 /\ x - 1 + 1 = x
    BY <1>2, <1>5, <2>2
  <2>4. x - 1 \in Ends
    BY <2>1, <2>3
  <2>5. t <= x - 1
    BY <1>3, <2>4
  <2> QED BY <1>2, <1>5, <2>5
<1>7. ASSUME NEW x \in h .. b PROVE s[x] = 0
  <2>1. SUFFICES ASSUME s[x] # 0 PROVE FALSE
    OBVIOUS
  <2>2. x # b
    BY <1>2, <2>1
  <2> DEFINE e == b - x - 1
  <2>3. e \in 0 .. b /\ b - e - 1 = x
    BY <1>2, <1>5, <2>2
  <2>4. e \in Starts
    BY <2>1, <2>3
  <2>5. d <= e
    BY <1>4, <2>4
  <2> QED BY <1>2, <1>4, <1>5, <2>5
<1> HIDE DEF h, Ends, Starts
<1>8. << h, t >> \in ZeroRuns(s)
  <2>1. \A x \in h .. t : s[x] = 0
    <3>1. \A x \in h .. t : x \in h .. b \/ x \in b .. t
      BY <1>2, <1>5
    <3> QED BY <1>6, <1>7, <3>1
  <2>2. << h, t >> \in (DOMAIN s) \X (DOMAIN s) /\ << h, t >>[1] = h /\ << h, t >>[2] = t /\ h <= t
    BY <1>2, <1>5
  <2> QED BY <1>1, <1>5, <2>1, <2>2 DEF ZeroRuns
<1>9. BlockStart(h) <= b
  <2>1. CASE h = 0
    BY <1>5, <2>1 DEF BlockStart
  <2>2. CASE h # 0
    <3>1. h # b
      BY <1>2, <1>5, <2>2
    <3> QED BY <1>2, <1>5, <2>2, <3>1 DEF BlockStart
  <2> QED BY <2>1, <2>2
<1> DEFINE x == << BlockStart(h), t >>
<1>10. x[1] = BlockStart(h) /\ x[2] = t /\ x[1] <= x[2]
  <2>1. BlockStart(h) \in Nat
    BY <1>5 DEF BlockStart
  <2> QED BY <1>2, <1>5, <1>9, <2>1
<1>11. x \in FoundBlocks(s)
  <2>1. x \in {<< BlockStart(r[1]), r[2] >> : r \in ZeroRuns(s)}
    <3>1. << h, t >>[1] = h /\ << h, t >>[2] = t
      OBVIOUS
    <3> QED BY <1>8, <3>1
  <2> QED BY <1>10, <2>1 DEF FoundBlocks
<1> QED BY <1>5, <1>9, <1>10, <1>11

-----------------------------------------------------------------------------
(* The blocks in order *)

LowerBlocks(S, b) == {a \in S : a[1] < b[1]}
BlockRank(S, b) == Cardinality(LowerBlocks(S, b))

\* Each of the blocks in S has another one of the ranks 0 .. Cardinality(S) - 1.
LEMMA BlockRanks ==
  ASSUME NEW S, IsFiniteSet(S), \A x \in S : x[1] \in Nat, \A x, y \in S : x[1] = y[1] => x = y
  PROVE  /\ Cardinality(S) \in Nat
         /\ \A x, y \in S : BlockRank(S, x) < BlockRank(S, y) => x[1] < y[1]
         /\ \A x, y \in S : BlockRank(S, x) = BlockRank(S, y) => x = y
         /\ \A x \in S : BlockRank(S, x) \in 0 .. Cardinality(S) - 1
         /\ \A k \in 1 .. Cardinality(S) : \E x \in S : BlockRank(S, x) = k - 1
<1>1. Cardinality(S) \in Nat
  BY FS_CardinalityType
<1>2. ASSUME NEW x \in S
      PROVE  /\ IsFiniteSet(LowerBlocks(S, x))
             /\ BlockRank(S, x) \in Nat /\ BlockRank(S, x) < Cardinality(S)
  <2>1. LowerBlocks(S, x) \in SUBSET S /\ x \notin LowerBlocks(S, x)
    BY DEF LowerBlocks
  <2>2. LowerBlocks(S, x) # S
    BY <2>1
  <2>3. IsFiniteSet(LowerBlocks(S, x))
    BY <2>1, FS_Subset
  <2>4. Cardinality(LowerBlocks(S, x)) \in Nat
    BY <2>3, FS_CardinalityType
  <2>5. /\ Cardinality(LowerBlocks(S, x)) <= Cardinality(S)
        /\ Cardinality(LowerBlocks(S, x)) # Cardinality(S)
    BY <2>1, <2>2, FS_Subset
  <2> QED BY <1>1, <2>3, <2>4, <2>5 DEF BlockRank
<1>3. ASSUME NEW x \in S, NEW y \in S, x[1] <= y[1] PROVE BlockRank(S, x) <= BlockRank(S, y)
  <2>1. LowerBlocks(S, x) \in SUBSET LowerBlocks(S, y)
    BY <1>3 DEF LowerBlocks
  <2> QED BY <1>2, <2>1, FS_Subset DEF BlockRank
<1>4. ASSUME NEW x \in S, NEW y \in S, x[1] < y[1] PROVE BlockRank(S, x) < BlockRank(S, y)
  <2>1. LowerBlocks(S, x) \in SUBSET LowerBlocks(S, y) /\ x \in LowerBlocks(S, y) /\ x \notin LowerBlocks(S, x)
    BY <1>4 DEF LowerBlocks
  <2>2. /\ Cardinality(LowerBlocks(S, x)) <= Cardinality(LowerBlocks(S, y))
        /\ Cardinality(LowerBlocks(S, x)) # Cardinality(LowerBlocks(S, y))
    BY <1>2, <2>1, FS_Subset
  <2> QED BY <1>2, <2>2 DEF BlockRank
<1>5. ASSUME NEW x \in S, NEW y \in S, BlockRank(S, x) < BlockRank(S, y) PROVE x[1] < y[1]
  <2>1. ~(y[1] <= x[1])
    BY <1>2, <1>3, <1>5
  <2> QED BY <2>1
<1>6. ASSUME NEW x \in S, NEW y \in S, BlockRank(S, x) = BlockRank(S, y) PROVE x = y
  <2>1. ~(x[1] < y[1]) /\ ~(y[1] < x[1])
    BY <1>2, <1>4, <1>6
  <2>2. x[1] = y[1]
    BY <2>1
  <2> QED BY <2>2
<1> DEFINE n == Cardinality(S)
           rank == [x \in S |-> BlockRank(S, x)]
<1>7. \A x \in S : BlockRank(S, x) \in 0 .. n - 1
  BY <1>1, <1>2
<1>8. IsFiniteSet(0 .. n - 1) /\ Cardinality(0 .. n - 1) = n
  BY <1>1, FS_Interval
<1>9. rank \in Injection(S, 0 .. n - 1)
  <2>1. rank \in [S -> 0 .. n - 1]
    BY <1>7
  <2>2. \A x, y \in S : rank[x] = rank[y] => x = y
    BY <1>6
  <2> QED BY <2>1, <2>2 DEF Injection, IsInjective
<1>10. rank \in Surjection(S, 0 .. n - 1)
  <2> HIDE DEF rank, n
  <2> QED BY <1>8, <1>9, FS_Injection DEF n
<1>11. ASSUME NEW k \in 1 .. n PROVE \E x \in S : BlockRank(S, x) = k - 1
  <2>1. k - 1 \in 0 .. n - 1
    BY <1>1
  <2>2. PICK x \in S : rank[x] = k - 1
    BY <1>10, <2>1 DEF Surjection
  <2> QED BY <2>2
<1> QED BY <1>1, <1>5, <1>6, <1>7, <1>11

\* The list that Start builds: in order, of exactly the free bytes.
LEMMA ScannedFacts ==
  ASSUME NEW s, NEW n \in Nat, DOMAIN s = 0 .. n - 1
  PROVE  /\ Sorted(ScannedBlocks(s))
         /\ \A b \in Nat : InBlock(ScannedBlocks(s), b) <=> FreeByte(s, b)
<1> DEFINE S == FoundBlocks(s)
           N == Cardinality(S)
           At(i) == CHOOSE b \in S : BlockRank(S, b) = i - 1
           l == [i \in 1 .. N |-> At(i)]
<1>1. ScannedBlocks(s) = l
  BY DEF ScannedBlocks, BlockRank, LowerBlocks
<1>2. /\ S \subseteq (0 .. n - 1) \X (0 .. n - 1)
      /\ \A x \in S : x[1] <= x[2] /\ \A b \in x[1] .. x[2] : FreeByte(s, b)
      /\ \A x, y \in S : x = y \/ x[2] + 1 < y[1] \/ y[2] + 1 < x[1]
  BY FoundFacts
<1> HIDE DEF S
<1>3. \A x \in S : x \in Nat \X Nat /\ x[1] \in Nat /\ x[2] \in Nat
  <2>1. \A x \in (0 .. n - 1) \X (0 .. n - 1) : x \in Nat \X Nat /\ x[1] \in Nat /\ x[2] \in Nat
    OBVIOUS
  <2> QED BY <1>2, <2>1
<1>4. IsFiniteSet(S)
  <2>1. IsFiniteSet(0 .. n - 1)
    BY FS_Interval
  <2>2. IsFiniteSet((0 .. n - 1) \X (0 .. n - 1))
    BY <2>1, FS_Product
  <2> QED BY <1>2, <2>2, FS_Subset
<1>5. \A x, y \in S : x[1] = y[1] => x = y
  BY <1>2, <1>3
<1>6. /\ N \in Nat
      /\ \A x, y \in S : BlockRank(S, x) < BlockRank(S, y) => x[1] < y[1]
      /\ \A x, y \in S : BlockRank(S, x) = BlockRank(S, y) => x = y
      /\ \A x \in S : BlockRank(S, x) \in 0 .. N - 1
      /\ \A k \in 1 .. N : \E x \in S : BlockRank(S, x) = k - 1
  BY <1>3, <1>4, <1>5, BlockRanks
<1> HIDE DEF N
<1>7. \A i \in 1 .. N : At(i) \in S /\ BlockRank(S, At(i)) = i - 1
  <2> SUFFICES ASSUME NEW i \in 1 .. N PROVE At(i) \in S /\ BlockRank(S, At(i)) = i - 1
    OBVIOUS
  <2>1. \E x \in S : BlockRank(S, x) = i - 1
    BY <1>6
  <2> QED BY <2>1
<1> HIDE DEF At
<1>8. /\ l \in Seq(Nat \X Nat) /\ Len(l) = N
      /\ \A i \in 1 .. N : l[i] \in S /\ BlockRank(S, l[i]) = i - 1
  BY <1>3, <1>6, <1>7
<1> HIDE DEF l
<1>9. Apart(l)
  <2>1. \A i \in 1 .. Len(l) : l[i][1] <= l[i][2]
    BY <1>2, <1>8
  <2>2. ASSUME NEW i \in 1 .. Len(l), NEW j \in 1 .. Len(l), i < j PROVE l[i][2] + 1 < l[j][1]
    <3>1. l[i] \in S /\ l[j] \in S /\ BlockRank(S, l[i]) < BlockRank(S, l[j])
      BY <1>6, <1>8, <2>2
    <3>2. l[i][1] < l[j][1]
      BY <1>6, <3>1
    <3>3. /\ l[i] # l[j] /\ l[j][1] <= l[j][2] /\ l[i][1] <= l[i][2]
          /\ l[i][1] \in Nat /\ l[j][1] \in Nat /\ l[i][2] \in Nat /\ l[j][2] \in Nat
      BY <1>2, <1>3, <3>1, <3>2
    <3>4. l[i] = l[j] \/ l[i][2] + 1 < l[j][1] \/ l[j][2] + 1 < l[i][1]
      BY <1>2, <3>1
    <3> QED BY <3>2, <3>3, <3>4
  <2> QED BY <2>1, <2>2 DEF Apart
<1>10. ASSUME NEW b \in Nat PROVE InBlock(l, b) <=> FreeByte(s, b)
  <2>1. ASSUME NEW i \in 1 .. Len(l), Holding(l, i, b) PROVE FreeByte(s, b)
    <3>1. l[i] \in S /\ b \in l[i][1] .. l[i][2]
      BY <1>3, <1>8, <2>1 DEF Holding
    <3> QED BY <1>2, <3>1
  <2>2. ASSUME FreeByte(s, b) PROVE InBlock(l, b)
    <3>1. PICK x \in S : x[1] <= b /\ b <= x[2]
      BY <2>2, FreeByteFound DEF S
    <3> DEFINE k == BlockRank(S, x) + 1
    <3>2. k \in 1 .. N /\ k - 1 = BlockRank(S, x)
      BY <1>6
    <3>3. l[k] \in S /\ BlockRank(S, l[k]) = BlockRank(S, x)
      BY <1>8, <3>2
    <3>4. l[k] = x
      BY <1>6, <3>3
    <3> QED BY <1>8, <3>1, <3>2, <3>4 DEF InBlock, Holding
  <2> QED BY <2>1, <2>2 DEF InBlock
<1> QED BY <1>1, <1>8, <1>9, <1>10 DEF Sorted, Blocks

-----------------------------------------------------------------------------
(* The map, the iterators and the cache slots *)

\* The entries of kv_: an erased element has no cache slot.
EntryType ==
  {e \in [first : CacheSlots \cup {-1}, second : Nat \cup {-1}] : e.second = -1 => e.first = -1}

Iterators == Keys \cup {End, Dangling}

\* An element with a cache slot is the one the iterator of the slot names.
IteratorsLinked(m, e) == \A k \in Keys : m[k].first # -1 => e[m[k].first] = k

LEMMA SlotFacts == 0 \in CacheSlots /\ CacheSlots \subseteq Nat /\ CACHE_SIZE \in Nat \ {0}
BY AllocAssumption DEF CacheSlots

LEMMA PresentEntry ==
  ASSUME NEW m \in [Keys -> EntryType], NEW k \in Keys
  PROVE  Present(m, k) <=> m[k].second # -1
<1>1. m[k] \in EntryType
  OBVIOUS
<1> QED BY <1>1 DEF Present, NoEntry, EntryType

WithFirst(m, k, i) == [m EXCEPT ![k].first = i]

FirstIs(n, m, k, i) ==
  \A j \in Keys : /\ n[j].first = IF j = k THEN i ELSE m[j].first
                  /\ n[j].second = m[j].second
                  /\ j # k => n[j] = m[j]

LEMMA FirstSet ==
  ASSUME NEW m \in [Keys -> EntryType], NEW k \in Keys, NEW i \in CacheSlots \cup {-1}
  PROVE  FirstIs(WithFirst(m, k, i), m, k, i)
BY DEF EntryType, WithFirst, FirstIs

LEMMA FirstTyped ==
  ASSUME NEW m \in [Keys -> EntryType], NEW k \in Keys, NEW i \in CacheSlots \cup {-1},
         i = -1 \/ m[k].second # -1
  PROVE  WithFirst(m, k, i) \in [Keys -> EntryType]
BY DEF EntryType, WithFirst

\* EraseCache takes the slot from the element that the iterator names, and may
\* take the slot of another one.
SlotErased(m, e, i, d) ==
  /\ d[1] \in [Keys -> EntryType]
  /\ d[2] = [e EXCEPT ![i] = End]
  /\ \A k \in Keys : /\ d[1][k].second = m[k].second
                     /\ d[1][k].first \in {m[k].first, -1}
                     /\ e[i] = k => d[1][k].first = -1

LEMMA EraseCacheFacts ==
  ASSUME NEW m \in [Keys -> EntryType], NEW e \in [CacheSlots -> Iterators],
         NEW i \in CacheSlots, NEW d \in EraseCache(m, e, i)
  PROVE  SlotErased(m, e, i, d)
<1> DEFINE Unslotted(j) == WithFirst(m, j, -1)
<1>1. \A j \in Keys :
        /\ Unslotted(j) \in [Keys -> EntryType]
        /\ \A k \in Keys : /\ Unslotted(j)[k].second = m[k].second
                           /\ Unslotted(j)[k].first = IF k = j THEN -1 ELSE m[k].first
  BY FirstSet, FirstTyped DEF FirstIs
<1> HIDE DEF Unslotted
<1>2. CASE e[i] = End
  <2>1. d = <<m, e>>
    BY <1>2, AllocAssumption DEF EraseCache
  <2>2. e = [e EXCEPT ![i] = End]
    BY <1>2
  <2>3. d[1] = m /\ d[2] = e
    BY <2>1
  <2> QED BY <1>2, <2>2, <2>3, AllocAssumption DEF SlotErased
<1>3. CASE e[i] \in Keys
  <2>1. d = <<Unslotted(e[i]), [e EXCEPT ![i] = End]>>
    BY <1>3, AllocAssumption DEF EraseCache, Unslotted, WithFirst
  <2>2. d[1] = Unslotted(e[i]) /\ d[2] = [e EXCEPT ![i] = End]
    BY <2>1
  <2> QED BY <1>1, <1>3, <2>2 DEF SlotErased
<1>4. CASE e[i] = Dangling
  <2>1. PICK n \in {m} \cup {Unslotted(k) : k \in {j \in Keys : Present(m, j)}} :
          d = <<n, [e EXCEPT ![i] = End]>>
    BY <1>4, AllocAssumption DEF EraseCache, Unslotted, WithFirst
  <2>2. n = m \/ \E j \in Keys : n = Unslotted(j)
    OBVIOUS
  <2>3. d[1] = n /\ d[2] = [e EXCEPT ![i] = End]
    BY <2>1
  <2> QED BY <1>1, <1>4, <2>2, <2>3, AllocAssumption DEF SlotErased
<1> QED BY <1>2, <1>3, <1>4 DEF Iterators

\* Slot i goes to key k: no other element keeps it.
LEMMA SlotTaken ==
  ASSUME NEW m \in [Keys -> EntryType], NEW e \in [CacheSlots -> Iterators],
         NEW i \in CacheSlots, NEW d \in EraseCache(m, e, i), NEW k \in Keys,
         \A j \in Keys \ {k} : m[j].first # -1 => e[m[j].first] = j
  PROVE  /\ \A j \in Keys \ {k} : d[1][j].first # i
         /\ IteratorsLinked(WithFirst(d[1], k, i), [d[2] EXCEPT ![i] = k])
<1>0. SlotErased(m, e, i, d)
  BY EraseCacheFacts
<1>1. \A j \in Keys \ {k} : d[1][j].first # i /\ (d[1][j].first # -1 => e[d[1][j].first] = j)
  <2>1. i # -1
    BY SlotFacts
  <2> QED BY <1>0, <2>1 DEF SlotErased
<1>2. d[1] \in [Keys -> EntryType] /\ d[2] = [e EXCEPT ![i] = End]
  BY <1>0 DEF SlotErased
<1>3. \A j \in Keys : d[1][j].first \in CacheSlots \cup {-1}
  BY <1>2 DEF EntryType
<1> DEFINE n == WithFirst(d[1], k, i)
<1>4. \A j \in Keys : n[j].first = IF j = k THEN i ELSE d[1][j].first
  <2>1. FirstIs(n, d[1], k, i)
    BY <1>2, FirstSet
  <2> QED BY <2>1 DEF FirstIs
<1>5. \A s \in CacheSlots : [d[2] EXCEPT ![i] = k][s] = IF s = i THEN k ELSE e[s]
  BY <1>2
<1> HIDE DEF n
<1>6. IteratorsLinked(n, [d[2] EXCEPT ![i] = k])
  BY <1>1, <1>3, <1>4, <1>5 DEF IteratorsLinked
<1> QED BY <1>1, <1>6 DEF n

KeyErased(m, k, d) ==
  /\ d[1] \in [Keys -> EntryType]
  /\ d[2] \in [CacheSlots -> Iterators]
  /\ IteratorsLinked(d[1], d[2])
  /\ d[1][k] = NoEntry
  /\ \A j \in Keys \ {k} : d[1][j].second = m[j].second /\ d[1][j].first \in {m[j].first, -1}

LEMMA DeletionFacts ==
  ASSUME NEW m \in [Keys -> EntryType], NEW e \in [CacheSlots -> Iterators],
         IteratorsLinked(m, e), NEW k \in Keys, NEW d \in Deletions(m, e, k)
  PROVE  KeyErased(m, k, d)
<1> DEFINE f == IF Present(m, k) THEN m[k].first ELSE NewEntry.first
           D == IF f = -1 THEN {<<m, e>>} ELSE EraseCache(m, e, f)
<1>1. PICK b \in D : d = EraseKey(b[1], b[2], k)
  BY DEF Deletions
<1>2. f \in CacheSlots \cup {-1}
  <2>1. m[k].first \in CacheSlots \cup {-1}
    BY DEF EntryType
  <2> QED BY <2>1, SlotFacts DEF NewEntry
<1> HIDE DEF f
<1>3. /\ b[1] \in [Keys -> EntryType]
      /\ b[2] \in [CacheSlots -> Iterators]
      /\ \A s \in CacheSlots : b[2][s] \in {e[s], End}
      /\ \A j \in Keys : b[1][j].second = m[j].second /\ b[1][j].first \in {m[j].first, -1}
      /\ IteratorsLinked(b[1], b[2])
  <2>1. CASE f = -1
    <3>1. b = <<m, e>>
      BY <1>1, <2>1
    <3> QED BY <3>1
  <2>2. CASE f # -1
    <3>1. f \in CacheSlots /\ b \in EraseCache(m, e, f)
      BY <1>1, <1>2, <2>2
    <3>a. SlotErased(m, e, f, b)
      BY <3>1, EraseCacheFacts
    <3>2. /\ b[1] \in [Keys -> EntryType] /\ b[2] = [e EXCEPT ![f] = End]
          /\ \A j \in Keys : /\ b[1][j].second = m[j].second
                             /\ b[1][j].first \in {m[j].first, -1}
                             /\ e[f] = j => b[1][j].first = -1
      BY <3>a DEF SlotErased
    <3>3. b[2] \in [CacheSlots -> Iterators]
      BY <3>2 DEF Iterators
    <3>4. \A j \in Keys : b[1][j].first \in CacheSlots \cup {-1}
      BY <3>2 DEF EntryType
    <3>5. \A s \in CacheSlots : b[2][s] = IF s = f THEN End ELSE e[s]
      BY <3>2
    <3>6. IteratorsLinked(b[1], b[2])
      BY <2>2, <3>2, <3>4, <3>5 DEF IteratorsLinked
    <3> QED BY <3>2, <3>3, <3>5, <3>6
  <2> QED BY <2>1, <2>2
<1>4. /\ d[1] = [b[1] EXCEPT ![k] = NoEntry]
      /\ d[2] = [i \in CacheSlots |-> IF b[2][i] = k THEN Dangling ELSE b[2][i]]
  BY <1>1 DEF EraseKey
<1>5. NoEntry \in EntryType /\ NoEntry.first = -1
  BY DEF NoEntry, EntryType
<1>6. d[1] \in [Keys -> EntryType] /\ d[2] \in [CacheSlots -> Iterators]
  BY <1>3, <1>4, <1>5 DEF Iterators
<1>7. d[1][k] = NoEntry /\ \A j \in Keys \ {k} : d[1][j] = b[1][j]
  BY <1>3, <1>4
<1>8. IteratorsLinked(d[1], d[2])
  <2>1. \A j \in Keys : b[1][j].first \in CacheSlots \cup {-1}
    BY <1>3 DEF EntryType
  <2> QED BY <1>3, <1>4, <1>5, <1>7, <2>1 DEF IteratorsLinked
<1> QED BY <1>3, <1>6, <1>7, <1>8 DEF KeyErased


-----------------------------------------------------------------------------
(* The invariant of the index: the bytes of the store are those of the      *)
(* values, of their terminators, and zeros                                  *)

LastOf(k) == kv[k].second + Len(latest[k])
Covers(k, b) == kv[k].second <= b /\ b <= LastOf(k)
Free(b) == b \in DOMAIN store /\ \A k \in IsSet : ~Covers(k, b)

IndexTypes ==
  /\ kv \in [Keys -> EntryType]
  /\ cache_element \in [CacheSlots -> Iterators]
  /\ cache \in [CacheSlots -> Values \cup {<< >>}]
  /\ cache_index \in CacheSlots \cup {-1}
  /\ latest \in [Keys -> Values \cup {Absent}]
  /\ file_size \in Nat \ {0}
  /\ DOMAIN store = 0 .. file_size - 1

\* The key of a set in progress has no value: Set deleted the old one.
PendingIsAbsent ==
  pending = << >> \/ (pending \in Keys \X Values /\ latest[pending[1]] = Absent)

EntryIfSet == \A k \in Keys : kv[k].second # -1 <=> latest[k] # Absent

ValuesStored ==
  \A k \in IsSet :
    /\ LastOf(k) < file_size
    /\ store[LastOf(k)] = 0
    /\ \A i \in 1 .. Len(latest[k]) : store[kv[k].second + i - 1] = latest[k][i]

ValuesApart ==
  \A j, k \in IsSet : j # k => LastOf(j) < kv[k].second \/ LastOf(k) < kv[j].second

RestIsZero == \A b \in Nat : Free(b) => store[b] = 0

CopiesCurrent == \A k \in IsSet : kv[k].first # -1 => cache[kv[k].first] = latest[k]

ListOfFree == Sorted(mem_list) /\ \A b \in Nat : InBlock(mem_list, b) <=> Free(b)

Bytewise == EntryIfSet /\ ValuesStored /\ ValuesApart /\ RestIsZero

IndexInv ==
  /\ IndexTypes
  /\ Bytewise
  /\ IteratorsLinked(kv, cache_element)
  /\ CopiesCurrent
  /\ ListOfFree

AllocInv == IndexInv /\ PendingIsAbsent

LEMMA ValueFacts ==
  ASSUME NEW v \in Values
  PROVE  /\ Len(v) \in Nat \ {0}
         /\ v = [i \in 1 .. Len(v) |-> v[i]]
         /\ \A i \in 1 .. Len(v) : v[i] # 0
         /\ v # Absent
<1>1. v \in Seq(Range(v)) /\ v # << >> /\ 0 \notin Range(v) /\ v # Absent
  BY AllocAssumption
<1>2. Len(v) \in Nat /\ DOMAIN v = 1 .. Len(v) /\ v \in [1 .. Len(v) -> Range(v)]
  BY <1>1, LenProperties
<1>3. Len(v) # 0
  BY <1>1, EmptySeq
<1>4. \A i \in 1 .. Len(v) : v[i] \in Range(v)
  BY <1>2
<1>5. v = [i \in 1 .. Len(v) |-> v[i]]
  BY <1>2
<1> QED BY <1>1, <1>2, <1>3, <1>4, <1>5

LEMMA SetKeyFacts ==
  ASSUME IndexTypes, EntryIfSet, NEW k \in IsSet
  PROVE  /\ k \in Keys /\ latest[k] \in Values
         /\ Len(latest[k]) \in Nat \ {0}
         /\ kv[k].second \in Nat
         /\ LastOf(k) \in Nat /\ kv[k].second < LastOf(k)
<1>1. k \in Keys /\ latest[k] # Absent /\ kv[k].second # -1
  BY DEF IsSet, EntryIfSet
<1>2. latest[k] \in Values /\ kv[k] \in EntryType
  BY <1>1 DEF IndexTypes
<1>3. kv[k].second \in Nat
  BY <1>1, <1>2 DEF EntryType
<1>4. Len(latest[k]) \in Nat \ {0}
  BY <1>2, ValueFacts
<1> QED BY <1>1, <1>2, <1>3, <1>4 DEF LastOf

\* strlen and the string that it measures: the terminator is the first zero.
LEMMA StringIsValue ==
  ASSUME IndexTypes, Bytewise, NEW k \in IsSet
  PROVE  StringAt(kv[k].second) = latest[k]
<1> DEFINE p == kv[k].second
           v == latest[k]
           t == p + Len(v)
           Ends(i) == /\ i = file_size \/ store[i] = 0
                      /\ \A j \in p .. i - 1 : store[j] # 0
           n == CHOOSE i \in p .. file_size : Ends(i)
<1>1. p \in Nat /\ Len(v) \in Nat \ {0} /\ v \in Values /\ file_size \in Nat
  BY SetKeyFacts DEF Bytewise, IndexTypes
<1>2. t < file_size /\ store[t] = 0 /\ \A i \in 1 .. Len(v) : store[p + i - 1] = v[i]
  BY DEF Bytewise, ValuesStored, LastOf
<1>3. \A i \in 1 .. Len(v) : v[i] # 0
  BY <1>1, ValueFacts
<1>4. StringAt(p) = [i \in 1 .. n - p |-> store[p + i - 1]]
  BY DEF StringAt
<1> HIDE DEF p, v
<1>5. \A j \in p .. t - 1 : store[j] # 0
  <2>1. ASSUME NEW j \in p .. t - 1 PROVE store[j] # 0
    <3>1. j - p + 1 \in 1 .. Len(v) /\ p + (j - p + 1) - 1 = j
      BY <1>1
    <3> QED BY <1>2, <1>3, <3>1
  <2> QED BY <2>1
<1>6. t \in p .. file_size /\ Ends(t)
  BY <1>1, <1>2, <1>5
<1>7. \A i \in p .. file_size : Ends(i) => i = t
  <2> SUFFICES ASSUME NEW i \in p .. file_size, Ends(i) PROVE i = t
    OBVIOUS
  <2>1. ~(i < t)
    <3>1. SUFFICES ASSUME i < t PROVE FALSE
      OBVIOUS
    <3>2. i \in p .. t - 1 /\ i # file_size
      BY <1>1, <1>2, <3>1
    <3> QED BY <1>5, <3>2
  <2>2. ~(t < i)
    <3>1. SUFFICES ASSUME t < i PROVE FALSE
      OBVIOUS
    <3>2. t \in p .. i - 1
      BY <1>1, <3>1
    <3> QED BY <1>2, <3>2
  <2> QED BY <1>1, <2>1, <2>2
<1>8. n = t
  <2>1. n \in p .. file_size /\ Ends(n)
    BY <1>6
  <2> HIDE DEF n, Ends, t
  <2> QED BY <1>7, <2>1
<1>9. n - p = Len(v)
  <2> HIDE DEF n
  <2> QED BY <1>1, <1>8
<1>10. StringAt(p) = [i \in 1 .. Len(v) |-> v[i]]
  <2> HIDE DEF n
  <2> QED BY <1>2, <1>4, <1>9
<1>11. v = [i \in 1 .. Len(v) |-> v[i]]
  BY <1>1, ValueFacts
<1> QED BY <1>10, <1>11 DEF p, v

\* What Start takes for free is what no value covers.
LEMMA FreeIsFreeByte ==
  ASSUME IndexTypes, Bytewise, NEW b \in Nat
  PROVE  Free(b) <=> FreeByte(store, b)
<1>1. \A k \in IsSet : /\ kv[k].second \in Nat /\ LastOf(k) \in Nat
                       /\ kv[k].second < LastOf(k) /\ LastOf(k) < file_size
                       /\ store[LastOf(k)] = 0
  BY SetKeyFacts DEF Bytewise, ValuesStored
<1>2. \A k \in IsSet : \A x \in Nat : kv[k].second <= x /\ x < LastOf(k) => store[x] # 0
  <2>1. ASSUME NEW k \in IsSet, NEW x \in Nat, kv[k].second <= x, x < LastOf(k) PROVE store[x] # 0
    <3> DEFINE p == kv[k].second
               n == Len(latest[k])
               i == x - p + 1
    <3>1. p \in Nat /\ n \in Nat /\ x < p + n /\ p <= x
      BY <2>1, SetKeyFacts DEF Bytewise, LastOf
    <3>2. i \in 1 .. n /\ p + i - 1 = x
      <4> HIDE DEF p, n
      <4> QED BY <3>1
    <3>3. store[p + i - 1] = latest[k][i]
      BY <3>2 DEF Bytewise, ValuesStored
    <3>4. latest[k][i] # 0
      BY <3>2, SetKeyFacts, ValueFacts DEF Bytewise
    <3> QED BY <3>2, <3>3, <3>4
  <2> QED BY <2>1
<1>3. file_size \in Nat /\ DOMAIN store = 0 .. file_size - 1
  BY DEF IndexTypes
<1>4. ASSUME Free(b) PROVE FreeByte(store, b)
  <2>1. b \in DOMAIN store /\ store[b] = 0
    BY <1>4 DEF Free, Bytewise, RestIsZero
  <2>2. b # 0 => store[b - 1] = 0
    <3>1. SUFFICES ASSUME b # 0 PROVE store[b - 1] = 0
      OBVIOUS
    <3>2. b - 1 \in Nat /\ b - 1 \in DOMAIN store
      BY <1>3, <2>1, <3>1
    <3>3. CASE Free(b - 1)
      BY <3>2, <3>3 DEF Bytewise, RestIsZero
    <3>4. CASE ~Free(b - 1)
      <4>1. PICK k \in IsSet : Covers(k, b - 1) /\ ~Covers(k, b)
        BY <1>4, <3>2, <3>4 DEF Free
      <4>2. b - 1 = LastOf(k)
        BY <1>1, <3>2, <4>1 DEF Covers
      <4> QED BY <1>1, <4>2
    <3> QED BY <3>3, <3>4
  <2> QED BY <2>1, <2>2 DEF FreeByte
<1>5. ASSUME FreeByte(store, b), ~Free(b) PROVE FALSE
  <2>1. PICK k \in IsSet : Covers(k, b)
    BY <1>5 DEF FreeByte, Free
  <2>2. b = LastOf(k)
    BY <1>1, <1>2, <1>5, <2>1 DEF FreeByte, Covers
  <2>3. b - 1 \in Nat /\ kv[k].second <= b - 1 /\ b - 1 < LastOf(k) /\ b # 0
    BY <1>1, <2>2
  <2> QED BY <1>2, <1>5, <2>3 DEF FreeByte
<1> QED BY <1>4, <1>5

\* The invariant says what the two properties say.
LEMMA InvListExact ==
  ASSUME AllocInv
  PROVE  FreeListExact
<1>1. IndexTypes /\ Bytewise /\ ListOfFree /\ Sorted(mem_list)
  BY DEF AllocInv, IndexInv, ListOfFree
<1>2. /\ Len(mem_list) \in Nat /\ DOMAIN mem_list = 1 .. Len(mem_list)
      /\ \A i \in 1 .. Len(mem_list) : mem_list[i][1] \in Nat /\ mem_list[i][2] \in Nat
  BY <1>1, BlockNats DEF Sorted
<1>3. \A i \in DOMAIN mem_list : mem_list[i][1] <= mem_list[i][2]
  BY <1>1, <1>2 DEF Sorted, Apart
<1>4. \A i \in 1 .. Len(mem_list) - 1 : mem_list[i][2] + 1 < mem_list[i + 1][1]
  <2>1. \A i \in 1 .. Len(mem_list) - 1 : i \in 1 .. Len(mem_list) /\ i + 1 \in 1 .. Len(mem_list) /\ i < i + 1
    BY <1>2
  <2> QED BY <1>1, <2>1 DEF Sorted, Apart
<1> DEFINE In == UNION {b[1] .. b[2] : b \in Range(mem_list)}
           Out == UNION {Span(k) : k \in IsSet}
<1>5. \A x : x \in In <=> x \in Nat /\ InBlock(mem_list, x)
  <2>1. \A x : x \in In <=> \E i \in 1 .. Len(mem_list) : x \in mem_list[i][1] .. mem_list[i][2]
    BY <1>2 DEF Range
  <2>2. \A x : \A i \in 1 .. Len(mem_list) :
          x \in mem_list[i][1] .. mem_list[i][2] <=> x \in Nat /\ Holding(mem_list, i, x)
    BY <1>2 DEF Holding
  <2> HIDE DEF In
  <2> QED BY <2>1, <2>2 DEF InBlock
<1>6. \A x : x \in Out <=> x \in Nat /\ \E k \in IsSet : Covers(k, x)
  <2>1. \A x : x \in Out <=> \E k \in IsSet : x \in Span(k)
    OBVIOUS
  <2>2. \A k \in IsSet : \A x : x \in Span(k) <=> x \in Nat /\ Covers(k, x)
    <3>1. \A k \in IsSet : kv[k].second \in Nat /\ LastOf(k) \in Nat
      BY <1>1, SetKeyFacts DEF Bytewise
    <3> QED BY <3>1 DEF Span, Covers, LastOf
  <2> HIDE DEF Out
  <2> QED BY <2>1, <2>2
<1>7. DOMAIN store \subseteq Nat
  BY <1>1 DEF IndexTypes
<1> HIDE DEF In, Out
<1>8. In = (DOMAIN store) \ Out
  <2>1. \A x : x \in In <=> x \in Nat /\ Free(x)
    BY <1>1, <1>5 DEF ListOfFree
  <2>2. \A x : x \in (DOMAIN store) \ Out <=> x \in Nat /\ Free(x)
    BY <1>6, <1>7 DEF Free
  <2> QED BY <2>1, <2>2
<1> QED BY <1>3, <1>4, <1>8 DEF FreeListExact, In, Out

LEMMA InvValuesIntact ==
  ASSUME AllocInv
  PROVE  ValuesIntact
<1>1. IndexTypes /\ Bytewise /\ CopiesCurrent
  BY DEF AllocInv, IndexInv
<1>2. ASSUME NEW k \in Keys PROVE Present(kv, k) <=> k \in IsSet
  <2>1. Present(kv, k) <=> kv[k].second # -1
    BY <1>1, PresentEntry DEF IndexTypes
  <2> QED BY <1>1, <2>1 DEF Bytewise, EntryIfSet, IsSet
<1>3. ASSUME NEW k \in IsSet, NEW j \in IsSet \ {k} PROVE Span(j) \cap Span(k) = {}
  <2>1. LastOf(j) < kv[k].second \/ LastOf(k) < kv[j].second
    BY <1>1 DEF Bytewise, ValuesApart
  <2>2. kv[k].second \in Nat /\ LastOf(k) \in Nat /\ kv[j].second \in Nat /\ LastOf(j) \in Nat
    BY <1>1, SetKeyFacts DEF Bytewise
  <2> QED BY <2>1, <2>2 DEF Span, LastOf
<1>4. \A k \in IsSet : StringAt(kv[k].second) = latest[k]
  BY <1>1, StringIsValue
<1> QED BY <1>1, <1>2, <1>3, <1>4 DEF ValuesIntact, CopiesCurrent

LEMMA InitAlloc == Init => AllocInv
<1> SUFFICES ASSUME Init PROVE AllocInv
  OBVIOUS
<1>1. InitialSize \in Nat \ {0} /\ CACHE_SIZE \in Nat \ {0} /\ End \in Iterators
  BY AllocAssumption DEF Iterators
<1>2. DOMAIN store = 0 .. InitialSize - 1 /\ \A b \in 0 .. InitialSize - 1 : store[b] = 0
  BY DEF Init, Zeros
<1>3. file_size = InitialSize
  BY <1>1, <1>2, SizeOfBytes DEF file_size
<1>4. \A k \in Keys : kv[k] = NoEntry /\ latest[k] = Absent
  BY DEF Init
<1>5. IsSet = {}
  BY <1>4 DEF IsSet
<1>6. NoEntry \in EntryType /\ NoEntry.first = -1 /\ NoEntry.second = -1
  BY DEF NoEntry, EntryType
<1>7. IndexTypes
  BY <1>1, <1>2, <1>3, <1>6 DEF Init, IndexTypes
<1>8. Bytewise
  <2>1. EntryIfSet
    BY <1>4, <1>6 DEF EntryIfSet
  <2>2. ValuesStored /\ ValuesApart
    BY <1>5 DEF ValuesStored, ValuesApart
  <2>3. RestIsZero
    BY <1>2 DEF RestIsZero, Free
  <2> QED BY <2>1, <2>2, <2>3 DEF Bytewise
<1>9. IteratorsLinked(kv, cache_element) /\ CopiesCurrent /\ PendingIsAbsent
  BY <1>4, <1>5, <1>6 DEF IteratorsLinked, CopiesCurrent, PendingIsAbsent, Init
<1>10. ListOfFree
  <2>1. mem_list = ScannedBlocks(store)
    BY DEF Init
  <2>2. /\ Sorted(ScannedBlocks(store))
        /\ \A b \in Nat : InBlock(ScannedBlocks(store), b) <=> FreeByte(store, b)
    BY <1>1, <1>2, ScannedFacts
  <2> QED BY <1>7, <1>8, <2>1, <2>2, FreeIsFreeByte DEF ListOfFree
<1> QED BY <1>7, <1>8, <1>9, <1>10 DEF AllocInv, IndexInv

-----------------------------------------------------------------------------
(* The steps *)

\* No two values have a byte in common.
LEMMA CoversOne ==
  ASSUME IndexTypes, Bytewise, NEW j \in IsSet, NEW k \in IsSet, NEW b \in Nat, Covers(j, b), Covers(k, b)
  PROVE  j = k
<1>1. j # k => LastOf(j) < kv[k].second \/ LastOf(k) < kv[j].second
  BY DEF Bytewise, ValuesApart
<1>2. /\ LastOf(j) \in Nat /\ kv[j].second \in Nat
      /\ LastOf(k) \in Nat /\ kv[k].second \in Nat
  BY SetKeyFacts DEF Bytewise
<1> QED BY <1>1, <1>2 DEF Covers

\* The bytes of a value, seen by their places.
LEMMA ByteOfValue ==
  ASSUME IndexTypes, Bytewise, NEW k \in IsSet, NEW i \in 1 .. Len(latest[k])
  PROVE  /\ kv[k].second + i - 1 \in Nat
         /\ kv[k].second <= kv[k].second + i - 1
         /\ kv[k].second + i - 1 < LastOf(k)
<1> DEFINE p == kv[k].second
           n == Len(latest[k])
<1>1. p \in Nat /\ n \in Nat /\ LastOf(k) = p + n
  BY SetKeyFacts DEF Bytewise, LastOf
<1>2. i \in 1 .. n
  OBVIOUS
<1> HIDE DEF p, n
<1>3. p + i - 1 \in Nat /\ p <= p + i - 1 /\ p + i - 1 < LastOf(k)
  BY <1>1, <1>2
<1> QED BY <1>3 DEF p

LEMMA DeleteStep ==
  ASSUME IndexInv, NEW k \in Keys, Delete(k)
  PROVE  IndexInv' /\ latest' = [latest EXCEPT ![k] = Absent]
<1>1. IndexTypes /\ Bytewise /\ IteratorsLinked(kv, cache_element) /\ CopiesCurrent /\ ListOfFree
  BY DEF IndexInv
<1>2. k \in IsSet
  <2>1. Present(kv, k)
    BY DEF Delete
  <2>2. kv[k].second # -1
    BY <1>1, <2>1, PresentEntry DEF IndexTypes
  <2> QED BY <1>1, <2>2 DEF Bytewise, EntryIfSet, IsSet
<1> DEFINE head == kv[k].second
           len == Len(latest[k])
           tail == LastOf(k)
<1>3. /\ head \in Nat /\ len \in Nat \ {0} /\ tail \in Nat /\ head < tail /\ tail < file_size
      /\ tail = head + len
  BY <1>1, <1>2, SetKeyFacts DEF Bytewise, ValuesStored, LastOf
<1>4. StringAt(kv[k].second) = latest[k]
  BY <1>1, <1>2, StringIsValue
<1>5. /\ mem_list' = Released(head, tail)
      /\ store' = [i \in DOMAIN store |-> IF i \in head .. tail - 1 THEN 0 ELSE store[i]]
      /\ latest' = [latest EXCEPT ![k] = Absent]
      /\ cache' = cache /\ cache_index' = cache_index
  BY <1>3, <1>4 DEF Delete
<1>6. PICK d \in Deletions(kv, cache_element, k) : kv' = d[1] /\ cache_element' = d[2]
  BY DEF Delete
<1>7. KeyErased(kv, k, d)
  BY <1>1, DeletionFacts DEF IndexTypes
<1>8. /\ kv' \in [Keys -> EntryType]
      /\ cache_element' \in [CacheSlots -> Iterators]
      /\ IteratorsLinked(kv', cache_element')
      /\ kv'[k] = NoEntry
      /\ \A j \in Keys \ {k} : kv'[j].second = kv[j].second /\ kv'[j].first \in {kv[j].first, -1}
  BY <1>6, <1>7 DEF KeyErased
<1>9. /\ latest' \in [Keys -> Values \cup {Absent}]
      /\ latest'[k] = Absent
      /\ \A j \in Keys \ {k} : latest'[j] = latest[j]
  BY <1>1, <1>5 DEF IndexTypes
<1>10. IsSet' = IsSet \ {k}
  BY <1>9 DEF IsSet
<1>11. ASSUME NEW j \in IsSet \ {k}
       PROVE  /\ kv'[j].second = kv[j].second /\ latest'[j] = latest[j]
              /\ kv'[j].first \in {kv[j].first, -1}
              /\ LastOf(j)' = LastOf(j)
              /\ \A b : Covers(j, b)' <=> Covers(j, b)
  <2>1. j \in Keys \ {k}
    BY DEF IsSet
  <2>2. kv'[j].second = kv[j].second /\ latest'[j] = latest[j] /\ kv'[j].first \in {kv[j].first, -1}
    BY <1>8, <1>9, <2>1
  <2> QED BY <2>2 DEF LastOf, Covers
<1>12. DOMAIN store' = DOMAIN store /\ file_size' = file_size
  <2>1. DOMAIN store' = DOMAIN store
    BY <1>5
  <2> QED BY <2>1 DEF file_size, SizeOf
<1>13. file_size \in Nat \ {0} /\ DOMAIN store = 0 .. file_size - 1
  BY <1>1 DEF IndexTypes
<1>14. IndexTypes'
  BY <1>1, <1>5, <1>8, <1>9, <1>12, <1>13 DEF IndexTypes
<1>15. \A b \in DOMAIN store : store'[b] = IF Covers(k, b) THEN 0 ELSE store[b]
  <2>1. \A b \in DOMAIN store : store'[b] = IF b \in head .. tail - 1 THEN 0 ELSE store[b]
    BY <1>5
  <2>2. store[tail] = 0
    BY <1>1, <1>2 DEF Bytewise, ValuesStored
  <2>3. \A b \in DOMAIN store : Covers(k, b) <=> b \in head .. tail - 1 \/ b = tail
    BY <1>3, <1>13 DEF Covers
  <2> HIDE DEF head, tail
  <2> QED BY <2>1, <2>2, <2>3
<1>16. ASSUME NEW b \in Nat PROVE Free(b)' <=> Free(b) \/ Covers(k, b)
  <2>1. Free(b)' <=> b \in DOMAIN store /\ \A j \in IsSet \ {k} : ~Covers(j, b)
    BY <1>10, <1>11, <1>12 DEF Free
  <2>2. Covers(k, b) => b \in DOMAIN store
    BY <1>3, <1>13 DEF Covers
  <2>3. \A j \in IsSet \ {k} : Covers(k, b) => ~Covers(j, b)
    BY <1>1, <1>2, CoversOne
  <2> QED BY <1>2, <2>1, <2>2, <2>3 DEF Free
<1>17. Bytewise'
  <2>1. EntryIfSet'
    <3>1. ASSUME NEW j \in Keys PROVE kv'[j].second # -1 <=> latest'[j] # Absent
      <4>1. CASE j = k
        BY <1>8, <1>9, <4>1 DEF NoEntry
      <4>2. CASE j # k
        BY <1>1, <1>8, <1>9, <4>2 DEF Bytewise, EntryIfSet
      <4> QED BY <4>1, <4>2
    <3> QED BY <3>1 DEF EntryIfSet
  <2>2. ValuesStored'
    <3>1. ASSUME NEW j \in IsSet \ {k}
          PROVE  /\ LastOf(j)' < file_size'
                 /\ store'[LastOf(j)'] = 0
                 /\ \A i \in 1 .. Len(latest'[j]) : store'[kv'[j].second + i - 1] = latest'[j][i]
      <4>1. LastOf(j)' = LastOf(j) /\ kv'[j].second = kv[j].second /\ latest'[j] = latest[j]
        BY <1>11
      <4>2. /\ LastOf(j) < file_size /\ store[LastOf(j)] = 0
            /\ \A i \in 1 .. Len(latest[j]) : store[kv[j].second + i - 1] = latest[j][i]
        BY <1>1 DEF Bytewise, ValuesStored
      <4>3. \A b \in Nat : Covers(j, b) => b \in DOMAIN store /\ store'[b] = store[b]
        <5>1. \A b \in Nat : Covers(j, b) => b \in DOMAIN store /\ ~Covers(k, b)
          <6>1. LastOf(j) \in Nat
            BY <1>1, SetKeyFacts DEF Bytewise
          <6>2. \A b \in Nat : Covers(j, b) => ~Covers(k, b)
            BY <1>1, <1>2, CoversOne
          <6>3. \A b \in Nat : Covers(j, b) => b \in DOMAIN store
            BY <1>13, <4>2, <6>1 DEF Covers
          <6> QED BY <6>2, <6>3
        <5> QED BY <1>15, <5>1
      <4>4. store'[LastOf(j)] = 0
        <5>1. LastOf(j) \in Nat /\ Covers(j, LastOf(j))
          BY <1>1, SetKeyFacts DEF Bytewise, Covers
        <5> QED BY <4>2, <4>3, <5>1
      <4>5. ASSUME NEW i \in 1 .. Len(latest[j])
            PROVE  store'[kv[j].second + i - 1] = latest[j][i]
        <5>0. LastOf(j) \in Nat
          BY <1>1, SetKeyFacts DEF Bytewise
        <5>1. kv[j].second + i - 1 \in Nat /\ Covers(j, kv[j].second + i - 1)
          BY <1>1, <5>0, ByteOfValue DEF Covers
        <5> QED BY <4>2, <4>3, <5>1
      <4> QED BY <1>12, <4>1, <4>2, <4>4, <4>5
    <3> QED BY <1>10, <3>1 DEF ValuesStored
  <2>3. ValuesApart'
    <3>1. \A i, j \in IsSet \ {k} : i # j => LastOf(i)' < kv'[j].second \/ LastOf(j)' < kv'[i].second
      BY <1>1, <1>11 DEF Bytewise, ValuesApart
    <3> QED BY <1>10, <3>1 DEF ValuesApart
  <2>4. RestIsZero'
    <3>1. ASSUME NEW b \in Nat, Free(b)' PROVE store'[b] = 0
      <4>1. b \in DOMAIN store
        BY <1>12, <3>1 DEF Free
      <4>2. Free(b) \/ Covers(k, b)
        BY <1>16, <3>1
      <4> QED BY <1>1, <1>15, <4>1, <4>2 DEF Bytewise, RestIsZero
    <3> QED BY <3>1 DEF RestIsZero
  <2> QED BY <2>1, <2>2, <2>3, <2>4 DEF Bytewise
<1>18. CopiesCurrent'
  <2>1. \A j \in IsSet \ {k} : kv'[j].first # -1 => cache'[kv'[j].first] = latest'[j]
    BY <1>1, <1>5, <1>11 DEF CopiesCurrent
  <2> QED BY <1>10, <2>1 DEF CopiesCurrent
<1>19. ListOfFree'
  <2>1. Sorted(mem_list) /\ \A b \in Nat : InBlock(mem_list, b) <=> Free(b)
    BY <1>1 DEF ListOfFree
  <2>2. \A b \in Nat : Covers(k, b) <=> head <= b /\ b <= tail
    BY DEF Covers
  <2>3. \A b \in Nat : InBlock(mem_list, b) => ~(head <= b /\ b <= tail)
    BY <1>2, <2>1, <2>2 DEF Free
  <2> HIDE DEF head, tail, len
  <2>4. /\ Sorted(Released(head, tail))
        /\ \A b \in Nat : InBlock(Released(head, tail), b)
                               <=> InBlock(mem_list, b) \/ (head <= b /\ b <= tail)
    BY <1>3, <2>1, <2>3, ReleasedFacts
  <2>5. \A b \in Nat : InBlock(mem_list', b) <=> Free(b)'
    BY <1>5, <1>16, <2>1, <2>2, <2>4
  <2> QED BY <1>5, <2>4, <2>5 DEF ListOfFree
<1> QED BY <1>5, <1>8, <1>14, <1>17, <1>18, <1>19 DEF IndexInv

LEMMA InsertStep ==
  ASSUME IndexInv, PendingIsAbsent, Insert
  PROVE  IndexInv' /\ PendingIsAbsent'
<1>1. IndexTypes /\ Bytewise /\ IteratorsLinked(kv, cache_element) /\ CopiesCurrent /\ ListOfFree
  BY DEF IndexInv
<1>a. PICK k, v, head : k = pending[1] /\ v = pending[2] /\ head = mem_list[Fits][1]
  OBVIOUS
<1> DEFINE n == Len(v)
           last == head + n
           entry == [first |-> -1, second |-> head]
<1>2. k \in Keys /\ v \in Values /\ latest[k] = Absent
  BY <1>a DEF Insert, PendingIsAbsent
<1>3. n \in Nat \ {0} /\ v \in Seq(Range(v)) /\ v # Absent
  BY <1>2, ValueFacts, AllocAssumption
<1>4. Sorted(mem_list) /\ \A b \in Nat : InBlock(mem_list, b) <=> Free(b)
  BY <1>1 DEF ListOfFree
<1>5. Fits \in 1 .. Len(mem_list) /\ mem_list[Fits][2] - head + 1 >= n + 1
  <2>1. n + 1 \in Nat /\ Fits = FirstFit(n + 1) /\ Fits # 0
    BY <1>3, <1>a DEF Fits, Insert
  <2>2. Fits = 0 \/ (Fits \in 1 .. Len(mem_list) /\ mem_list[Fits][2] - mem_list[Fits][1] + 1 >= n + 1)
    BY <1>4, <2>1, FirstFitFacts
  <2> QED BY <1>a, <2>1, <2>2
<1>6. Len(Bytes(v)) = n + 1 /\ DOMAIN Bytes(v) = 1 .. n + 1 /\ Bytes(v)[n + 1] = 0
      /\ \A i \in 1 .. n : Bytes(v)[i] = v[i]
  <2> DEFINE S == Range(v) \cup {0}
  <2>1. v \in Seq(S) /\ 0 \in S
    BY <1>3, SeqMonotonic
  <2> HIDE DEF S
  <2>2. /\ Append(v, 0) \in Seq(S)
        /\ Len(Append(v, 0)) = Len(v) + 1
        /\ \A i \in 1 .. Len(v) : Append(v, 0)[i] = v[i]
        /\ Append(v, 0)[Len(v) + 1] = 0
    BY <2>1, AppendProperties
  <2>3. DOMAIN Append(v, 0) = 1 .. Len(Append(v, 0))
    BY <2>2, LenProperties
  <2> QED BY <2>2, <2>3 DEF Bytes
<1>7. /\ kv' = [kv EXCEPT ![k] = entry]
      /\ store' = [i \in DOMAIN store |-> IF i - head + 1 \in 1 .. n + 1 THEN Bytes(v)[i - head + 1] ELSE store[i]]
      /\ mem_list' = Taken(Fits, n + 1)
      /\ latest' = [latest EXCEPT ![k] = v]
      /\ pending' = << >>
      /\ cache' = cache /\ cache_index' = cache_index /\ cache_element' = cache_element
  BY <1>6, <1>a DEF Insert
<1>8. head \in Nat /\ mem_list[Fits][2] \in Nat
  BY <1>4, <1>5, <1>a, BlockNats DEF Sorted
<1>9. last \in Nat /\ head < last
  BY <1>3, <1>8
<1>10. \A b \in Nat : head <= b /\ b <= last => Free(b)
  <2>1. \A b \in Nat : head <= b /\ b <= last => InBlock(mem_list, b)
    BY <1>3, <1>5, <1>8, <1>a DEF InBlock, Holding
  <2> QED BY <1>4, <2>1
<1>11. file_size \in Nat \ {0} /\ DOMAIN store = 0 .. file_size - 1
  BY <1>1 DEF IndexTypes
<1>12. last < file_size
  <2>1. last \in DOMAIN store
    <3>1. head <= last /\ last <= last
      BY <1>8, <1>9
    <3>2. Free(last)
      <4> HIDE DEF last
      <4> QED BY <1>9, <1>10, <3>1
    <3> QED BY <3>2 DEF Free
  <2> QED BY <1>9, <1>11, <2>1
<1>13. DOMAIN store' = DOMAIN store /\ file_size' = file_size
  <2>1. DOMAIN store' = DOMAIN store
    BY <1>7
  <2> QED BY <2>1 DEF file_size, SizeOf
<1>14. entry \in EntryType /\ entry.first = -1 /\ entry.second = head
  BY <1>8 DEF EntryType
<1>15. /\ kv' \in [Keys -> EntryType] /\ kv'[k] = entry
       /\ \A j \in Keys \ {k} : kv'[j] = kv[j]
       /\ latest' \in [Keys -> Values \cup {Absent}] /\ latest'[k] = v
       /\ \A j \in Keys \ {k} : latest'[j] = latest[j]
  BY <1>1, <1>2, <1>7, <1>14 DEF IndexTypes
<1>16. IndexTypes'
  BY <1>1, <1>7, <1>11, <1>13, <1>15 DEF IndexTypes
<1>17. IsSet' = IsSet \cup {k} /\ k \notin IsSet
  BY <1>2, <1>3, <1>15 DEF IsSet
<1>18. ASSUME NEW j \in IsSet
       PROVE  /\ j \in Keys \ {k}
              /\ kv'[j] = kv[j] /\ latest'[j] = latest[j]
              /\ LastOf(j)' = LastOf(j)
              /\ \A b : Covers(j, b)' <=> Covers(j, b)
  <2>1. j \in Keys \ {k}
    BY <1>17 DEF IsSet
  <2>2. kv'[j] = kv[j] /\ latest'[j] = latest[j]
    BY <1>15, <2>1
  <2> QED BY <2>1, <2>2 DEF LastOf, Covers
<1>19. /\ LastOf(k)' = last /\ kv'[k].second = head /\ kv'[k].first = -1
       /\ \A b : Covers(k, b)' <=> head <= b /\ b <= last
  <2>1. kv'[k].second = head /\ kv'[k].first = -1 /\ latest'[k] = v
    BY <1>14, <1>15
  <2>2. LastOf(k)' = last
    BY <2>1 DEF LastOf
  <2> QED BY <2>1, <2>2 DEF Covers
<1> HIDE DEF last, entry
<1>20. \A b \in DOMAIN store : ~(head <= b /\ b <= last) => store'[b] = store[b]
  <2>1. ASSUME NEW b \in DOMAIN store, b - head + 1 \in 1 .. n + 1 PROVE head <= b /\ b <= last
    BY <1>3, <1>8, <1>11, <2>1 DEF last
  <2> QED BY <1>7, <2>1
<1>21. /\ \A i \in 1 .. n : store'[head + i - 1] = v[i]
       /\ store'[last] = 0
  <2>1. ASSUME NEW i \in 1 .. n + 1 PROVE store'[head + i - 1] = Bytes(v)[i]
    <3> DEFINE b == head + i - 1
    <3>1. b \in DOMAIN store /\ b - head + 1 = i
      BY <1>3, <1>8, <1>11, <1>12 DEF last
    <3> HIDE DEF b
    <3>2. store'[b] = Bytes(v)[i]
      BY <1>7, <3>1
    <3> QED BY <3>2 DEF b
  <2>2. \A i \in 1 .. n : i \in 1 .. n + 1
    BY <1>3
  <2>3. n + 1 \in 1 .. n + 1 /\ head + (n + 1) - 1 = last
    BY <1>3, <1>8 DEF last
  <2>4. store'[head + (n + 1) - 1] = Bytes(v)[n + 1]
    BY <2>1, <2>3
  <2> QED BY <1>6, <2>1, <2>2, <2>3, <2>4
<1>22. ASSUME NEW b \in Nat PROVE Free(b)' <=> Free(b) /\ ~(head <= b /\ b <= last)
  <2>1. Free(b)' <=> /\ b \in DOMAIN store /\ ~(head <= b /\ b <= last)
                     /\ \A j \in IsSet : ~Covers(j, b)
    BY <1>13, <1>17, <1>18, <1>19 DEF Free
  <2> QED BY <2>1 DEF Free
<1>23. ASSUME NEW j \in IsSet
       PROVE  /\ LastOf(j) < head \/ last < kv[j].second
              /\ kv[j].second \in Nat /\ LastOf(j) \in Nat /\ kv[j].second < LastOf(j)
  <2>1. kv[j].second \in Nat /\ LastOf(j) \in Nat /\ kv[j].second < LastOf(j)
    BY <1>1, SetKeyFacts DEF Bytewise
  <2>2. ~Covers(j, head) /\ ~(head <= kv[j].second /\ kv[j].second <= last)
    <3>1. Free(head) /\ Covers(j, kv[j].second)
      BY <1>8, <1>9, <1>10, <2>1 DEF Covers
    <3>2. ~Free(kv[j].second)
      BY <3>1 DEF Free
    <3> QED BY <1>10, <2>1, <3>1, <3>2 DEF Free
  <2> QED BY <1>8, <1>9, <2>1, <2>2 DEF Covers
<1>24. Bytewise'
  <2>1. EntryIfSet'
    <3>1. ASSUME NEW j \in Keys PROVE kv'[j].second # -1 <=> latest'[j] # Absent
      <4>1. CASE j = k
        BY <1>3, <1>8, <1>15, <1>19, <4>1
      <4>2. CASE j # k
        BY <1>1, <1>15, <4>2 DEF Bytewise, EntryIfSet
      <4> QED BY <4>1, <4>2
    <3> QED BY <3>1 DEF EntryIfSet
  <2>2. ValuesStored'
    <3>1. ASSUME NEW j \in IsSet
          PROVE  /\ LastOf(j)' < file_size'
                 /\ store'[LastOf(j)'] = 0
                 /\ \A i \in 1 .. Len(latest'[j]) : store'[kv'[j].second + i - 1] = latest'[j][i]
      <4>1. LastOf(j)' = LastOf(j) /\ kv'[j].second = kv[j].second /\ latest'[j] = latest[j]
        BY <1>18
      <4>2. /\ LastOf(j) < file_size /\ store[LastOf(j)] = 0
            /\ \A i \in 1 .. Len(latest[j]) : store[kv[j].second + i - 1] = latest[j][i]
        BY <1>1 DEF Bytewise, ValuesStored
      <4>3. \A b \in Nat : kv[j].second <= b /\ b <= LastOf(j) => store'[b] = store[b]
        BY <1>8, <1>9, <1>11, <1>20, <1>23, <4>2
      <4>4. store'[LastOf(j)] = 0
        BY <1>23, <4>2, <4>3
      <4>5. ASSUME NEW i \in 1 .. Len(latest[j])
            PROVE  store'[kv[j].second + i - 1] = latest[j][i]
        <5>1. /\ kv[j].second + i - 1 \in Nat
              /\ kv[j].second <= kv[j].second + i - 1
              /\ kv[j].second + i - 1 <= LastOf(j)
          BY <1>1, <1>23, ByteOfValue
        <5> QED BY <4>2, <4>3, <5>1
      <4> QED BY <1>13, <4>1, <4>2, <4>4, <4>5
    <3>2. /\ LastOf(k)' < file_size'
          /\ store'[LastOf(k)'] = 0
          /\ \A i \in 1 .. Len(latest'[k]) : store'[kv'[k].second + i - 1] = latest'[k][i]
      BY <1>12, <1>13, <1>15, <1>19, <1>21
    <3> QED BY <1>17, <3>1, <3>2 DEF ValuesStored
  <2>3. ValuesApart'
    <3>1. \A i, j \in IsSet : i # j => LastOf(i)' < kv'[j].second \/ LastOf(j)' < kv'[i].second
      BY <1>1, <1>18 DEF Bytewise, ValuesApart
    <3>2. \A j \in IsSet : LastOf(j)' < kv'[k].second \/ LastOf(k)' < kv'[j].second
      BY <1>18, <1>19, <1>23
    <3> QED BY <1>17, <3>1, <3>2 DEF ValuesApart
  <2>4. RestIsZero'
    <3>1. ASSUME NEW b \in Nat, Free(b)' PROVE store'[b] = 0
      <4>1. Free(b) /\ ~(head <= b /\ b <= last)
        BY <1>22, <3>1
      <4>2. store[b] = 0 /\ b \in DOMAIN store
        BY <1>1, <4>1 DEF Bytewise, RestIsZero, Free
      <4> QED BY <1>20, <4>1, <4>2
    <3> QED BY <3>1 DEF RestIsZero
  <2> QED BY <2>1, <2>2, <2>3, <2>4 DEF Bytewise
<1>25. IteratorsLinked(kv', cache_element')
  <2>1. ASSUME NEW j \in Keys, kv'[j].first # -1 PROVE cache_element'[kv'[j].first] = j
    <3>1. j # k
      BY <1>19, <2>1
    <3> QED BY <1>1, <1>7, <1>15, <2>1, <3>1 DEF IteratorsLinked
  <2> QED BY <2>1 DEF IteratorsLinked
<1>26. CopiesCurrent'
  <2>1. \A j \in IsSet : kv'[j].first # -1 => cache'[kv'[j].first] = latest'[j]
    BY <1>1, <1>7, <1>18 DEF CopiesCurrent
  <2> QED BY <1>17, <1>19, <2>1 DEF CopiesCurrent
<1>27. ListOfFree'
  <2>1. n + 1 \in Nat \ {0} /\ head + (n + 1) - 1 = last
    BY <1>3, <1>8 DEF last
  <2>2. /\ Sorted(Taken(Fits, n + 1))
        /\ \A b \in Nat : InBlock(Taken(Fits, n + 1), b) <=>
             InBlock(mem_list, b) /\ ~(mem_list[Fits][1] <= b /\ b <= mem_list[Fits][1] + (n + 1) - 1)
    <3> DEFINE size == n + 1
    <3>1. mem_list[Fits][2] - mem_list[Fits][1] + 1 >= size
      BY <1>5, <1>a
    <3>2. size \in Nat \ {0}
      BY <2>1
    <3> HIDE DEF size
    <3>3. /\ Sorted(Taken(Fits, size))
          /\ \A b \in Nat : InBlock(Taken(Fits, size), b) <=>
               InBlock(mem_list, b) /\ ~(mem_list[Fits][1] <= b /\ b <= mem_list[Fits][1] + size - 1)
      BY <1>4, <1>5, <3>1, <3>2, TakenFacts
    <3> QED BY <3>3 DEF size
  <2>3. \A b \in Nat : InBlock(mem_list', b) <=> Free(b)'
    BY <1>4, <1>7, <1>22, <1>a, <2>1, <2>2
  <2> QED BY <1>7, <2>2, <2>3 DEF ListOfFree
<1> QED BY <1>7, <1>16, <1>24, <1>25, <1>26, <1>27 DEF IndexInv, PendingIsAbsent

LEMMA ResizeStep ==
  ASSUME IndexInv, PendingIsAbsent, Resize
  PROVE  IndexInv' /\ PendingIsAbsent'
<1>1. IndexTypes /\ Bytewise /\ IteratorsLinked(kv, cache_element) /\ CopiesCurrent /\ ListOfFree
  BY DEF IndexInv
<1>a. PICK n : n = file_size
  OBVIOUS
<1>2. n \in Nat \ {0} /\ DOMAIN store = 0 .. n - 1
  BY <1>1, <1>a DEF IndexTypes
<1>3. /\ store' = [i \in 0 .. 2 * n - 1 |-> IF i < n THEN store[i] ELSE 0]
      /\ mem_list' = Extended(n)
      /\ UNCHANGED <<kv, cache, cache_index, cache_element, pending, latest>>
  BY <1>a DEF Resize
<1>4. DOMAIN store' = 0 .. 2 * n - 1 /\ 2 * n \in Nat \ {0}
  BY <1>2, <1>3
<1>5. file_size' = 2 * n
  <2>1. SizeOf(store') = 2 * n
    BY <1>4, SizeOfBytes
  <2> QED BY <2>1 DEF file_size
<1>6. /\ \A b \in Nat : b < n => store'[b] = store[b]
      /\ \A b \in Nat : n <= b /\ b <= 2 * n - 1 => store'[b] = 0
  BY <1>2, <1>3
<1>7. /\ IsSet' = IsSet
      /\ \A j : LastOf(j)' = LastOf(j)
      /\ \A j : \A b : Covers(j, b)' <=> Covers(j, b)
  BY <1>3 DEF IsSet, LastOf, Covers
<1>8. IndexTypes'
  BY <1>1, <1>3, <1>4, <1>5 DEF IndexTypes
<1>9. \A j \in IsSet : /\ kv[j].second \in Nat /\ LastOf(j) \in Nat /\ kv[j].second < LastOf(j)
                       /\ LastOf(j) < n
  BY <1>1, <1>a, SetKeyFacts DEF Bytewise, ValuesStored
<1>10. ASSUME NEW b \in Nat PROVE Free(b)' <=> Free(b) \/ (n <= b /\ b <= 2 * n - 1)
  <2>1. Free(b)' <=> b \in 0 .. 2 * n - 1 /\ \A j \in IsSet : ~Covers(j, b)
    BY <1>4, <1>7 DEF Free
  <2>2. n <= b => \A j \in IsSet : ~Covers(j, b)
    BY <1>2, <1>9 DEF Covers
  <2>3. b \in 0 .. 2 * n - 1 <=> b \in 0 .. n - 1 \/ (n <= b /\ b <= 2 * n - 1)
    BY <1>2
  <2>4. b \in 0 .. n - 1 => ~(n <= b)
    BY <1>2
  <2> QED BY <1>2, <2>1, <2>2, <2>3, <2>4 DEF Free
<1>11. Bytewise'
  <2>1. EntryIfSet'
    BY <1>1, <1>3 DEF Bytewise, EntryIfSet
  <2>2. ValuesStored'
    <3>1. ASSUME NEW j \in IsSet
          PROVE  /\ LastOf(j) < 2 * n
                 /\ store'[LastOf(j)] = 0
                 /\ \A i \in 1 .. Len(latest[j]) : store'[kv[j].second + i - 1] = latest[j][i]
      <4>1. /\ store[LastOf(j)] = 0
            /\ \A i \in 1 .. Len(latest[j]) : store[kv[j].second + i - 1] = latest[j][i]
        BY <1>1 DEF Bytewise, ValuesStored
      <4>2. LastOf(j) < 2 * n /\ store'[LastOf(j)] = 0
        BY <1>2, <1>6, <1>9, <4>1
      <4>3. ASSUME NEW i \in 1 .. Len(latest[j]) PROVE store'[kv[j].second + i - 1] = latest[j][i]
        <5>1. kv[j].second + i - 1 \in Nat /\ kv[j].second + i - 1 < LastOf(j)
          BY <1>1, ByteOfValue
        <5>2. kv[j].second + i - 1 < n
          BY <1>2, <1>9, <5>1
        <5> QED BY <1>6, <4>1, <5>1, <5>2
      <4> QED BY <4>2, <4>3
    <3>2. ASSUME NEW j \in IsSet
          PROVE  /\ LastOf(j)' < file_size'
                 /\ store'[LastOf(j)'] = 0
                 /\ \A i \in 1 .. Len(latest'[j]) : store'[kv'[j].second + i - 1] = latest'[j][i]
      <4>1. LastOf(j)' = LastOf(j) /\ kv'[j] = kv[j] /\ latest'[j] = latest[j]
        BY <1>3, <1>7
      <4> QED BY <1>5, <3>1, <4>1
    <3> QED BY <1>7, <3>2 DEF ValuesStored
  <2>3. ValuesApart'
    BY <1>1, <1>3, <1>7 DEF Bytewise, ValuesApart
  <2>4. RestIsZero'
    <3>1. ASSUME NEW b \in Nat, Free(b)' PROVE store'[b] = 0
      <4>1. CASE Free(b)
        <5>1. store[b] = 0 /\ b < n
          BY <1>1, <1>2, <4>1 DEF Bytewise, RestIsZero, Free
        <5> QED BY <1>6, <5>1
      <4>2. CASE n <= b /\ b <= 2 * n - 1
        BY <1>6, <4>2
      <4> QED BY <1>10, <3>1, <4>1, <4>2
    <3> QED BY <3>1 DEF RestIsZero
  <2> QED BY <2>1, <2>2, <2>3, <2>4 DEF Bytewise
<1>12. IteratorsLinked(kv', cache_element') /\ CopiesCurrent' /\ PendingIsAbsent'
  BY <1>1, <1>3, <1>7 DEF CopiesCurrent, PendingIsAbsent
<1>13. ListOfFree'
  <2>1. Sorted(mem_list) /\ \A b \in Nat : InBlock(mem_list, b) <=> Free(b)
    BY <1>1 DEF ListOfFree
  <2>2. \A b \in Nat : InBlock(mem_list, b) => b < n
    BY <1>2, <2>1 DEF Free
  <2>3. /\ Sorted(Extended(n))
        /\ \A b \in Nat : InBlock(Extended(n), b) <=> InBlock(mem_list, b) \/ (n <= b /\ b <= 2 * n - 1)
    BY <1>2, <2>1, <2>2, ExtendedFacts
  <2>4. \A b \in Nat : InBlock(mem_list', b) <=> Free(b)'
    BY <1>3, <1>10, <2>1, <2>3
  <2> QED BY <1>3, <2>3, <2>4 DEF ListOfFree
<1> QED BY <1>8, <1>11, <1>12, <1>13 DEF IndexInv

\* A cache slot is reused: the element that had it loses it.
LEMMA GetStep ==
  ASSUME IndexInv, PendingIsAbsent, NEW k \in Keys, Get(k)
  PROVE  IndexInv' /\ PendingIsAbsent'
<1>1. IndexTypes /\ Bytewise /\ IteratorsLinked(kv, cache_element) /\ CopiesCurrent /\ ListOfFree
  BY DEF IndexInv
<1>2. k \in IsSet /\ kv[k].second # -1
  <2>1. Present(kv, k)
    BY DEF Get
  <2>2. kv[k].second # -1
    BY <1>1, <2>1, PresentEntry DEF IndexTypes
  <2> QED BY <1>1, <2>2 DEF Bytewise, EntryIfSet, IsSet
<1>a. PICK i, value : /\ i = (cache_index + 1) % CACHE_SIZE
                      /\ value = IF kv[k].first # -1 THEN cache[kv[k].first] ELSE StringAt(kv[k].second)
  OBVIOUS
<1>3. i \in CacheSlots
  <2>1. CACHE_SIZE \in Nat \ {0} /\ cache_index + 1 \in Nat
    BY <1>1, SlotFacts DEF IndexTypes, CacheSlots
  <2>2. (cache_index + 1) % CACHE_SIZE \in 0 .. CACHE_SIZE - 1
    <3> DEFINE a == cache_index + 1
    <3>1. a \in Nat
      BY <2>1
    <3> HIDE DEF a
    <3>2. a % CACHE_SIZE \in 0 .. CACHE_SIZE - 1
      BY <2>1, <3>1
    <3> QED BY <3>2 DEF a
  <2> QED BY <1>a, <2>2 DEF CacheSlots
<1>4. value = latest[k] /\ value \in Values
  <2>1. StringAt(kv[k].second) = latest[k]
    BY <1>1, <1>2, StringIsValue
  <2>2. latest[k] \in Values
    BY <1>1, <1>2, SetKeyFacts DEF Bytewise
  <2> QED BY <1>1, <1>2, <1>a, <2>1, <2>2 DEF CopiesCurrent
<1>5. /\ cache_index' = i
      /\ cache' = [cache EXCEPT ![i] = value]
      /\ UNCHANGED <<store, mem_list, pending, latest>>
  BY <1>a DEF Get
<1>6. PICK d \in EraseCache(kv, cache_element, i) :
        /\ kv' = WithFirst(d[1], k, i)
        /\ cache_element' = [d[2] EXCEPT ![i] = k]
  BY <1>a DEF Get, WithFirst
<1>7. kv \in [Keys -> EntryType] /\ cache_element \in [CacheSlots -> Iterators]
  BY <1>1 DEF IndexTypes
<1>8. SlotErased(kv, cache_element, i, d)
  BY <1>3, <1>7, EraseCacheFacts
<1>9. /\ \A j \in Keys \ {k} : d[1][j].first # i
      /\ IteratorsLinked(WithFirst(d[1], k, i), [d[2] EXCEPT ![i] = k])
  BY <1>1, <1>3, <1>7, SlotTaken DEF IteratorsLinked
<1>10. /\ d[1] \in [Keys -> EntryType] /\ d[2] = [cache_element EXCEPT ![i] = End]
       /\ \A j \in Keys : d[1][j].second = kv[j].second /\ d[1][j].first \in {kv[j].first, -1}
  BY <1>8 DEF SlotErased
<1>11. FirstIs(kv', d[1], k, i) /\ kv' \in [Keys -> EntryType]
  BY <1>2, <1>3, <1>6, <1>10, FirstSet, FirstTyped
<1>12. \A j \in Keys : /\ kv'[j].second = kv[j].second
                       /\ kv'[j].first = IF j = k THEN i ELSE d[1][j].first
  BY <1>10, <1>11 DEF FirstIs
<1>13. /\ IsSet' = IsSet
       /\ \A j \in IsSet : LastOf(j)' = LastOf(j) /\ \A b : Covers(j, b)' <=> Covers(j, b)
  <2>1. IsSet' = IsSet
    BY <1>5 DEF IsSet
  <2>2. \A j \in IsSet : kv'[j].second = kv[j].second
    BY <1>12 DEF IsSet
  <2> QED BY <1>5, <2>1, <2>2 DEF LastOf, Covers
<1>14. file_size' = file_size
  BY <1>5 DEF file_size, SizeOf
<1>15. IndexTypes'
  <2>1. cache_element' \in [CacheSlots -> Iterators]
    <3>1. k \in Iterators /\ End \in Iterators
      BY DEF Iterators
    <3> QED BY <1>6, <1>7, <1>10, <3>1
  <2>2. cache' \in [CacheSlots -> Values \cup {<< >>}]
    BY <1>1, <1>4, <1>5 DEF IndexTypes
  <2> QED BY <1>1, <1>3, <1>5, <1>11, <1>14, <2>1, <2>2 DEF IndexTypes
<1>16. \A b : Free(b)' <=> Free(b)
  BY <1>5, <1>13 DEF Free
<1>17. Bytewise'
  <2>1. EntryIfSet'
    BY <1>1, <1>5, <1>12 DEF Bytewise, EntryIfSet
  <2>2. \A j \in IsSet : kv'[j].second = kv[j].second
    BY <1>12 DEF IsSet
  <2>3. ValuesStored'
    BY <1>1, <1>5, <1>13, <1>14, <2>2 DEF Bytewise, ValuesStored
  <2>4. ValuesApart'
    BY <1>1, <1>13, <2>2 DEF Bytewise, ValuesApart
  <2>5. RestIsZero'
    BY <1>1, <1>5, <1>16 DEF Bytewise, RestIsZero
  <2> QED BY <2>1, <2>3, <2>4, <2>5 DEF Bytewise
<1>18. IteratorsLinked(kv', cache_element')
  BY <1>6, <1>9
<1>19. CopiesCurrent'
  <2>1. ASSUME NEW j \in IsSet, kv'[j].first # -1 PROVE cache'[kv'[j].first] = latest[j]
    <3>1. j \in Keys
      BY DEF IsSet
    <3>2. cache \in [CacheSlots -> Values \cup {<< >>}]
      BY <1>1 DEF IndexTypes
    <3>3. CASE j = k
      BY <1>3, <1>4, <1>5, <1>12, <3>1, <3>2, <3>3
    <3>4. CASE j # k
      <4>1. kv'[j].first = kv[j].first /\ kv'[j].first # i /\ kv[j].first # -1
        BY <1>9, <1>10, <1>12, <2>1, <3>1, <3>4
      <4>2. kv[j].first \in CacheSlots
        BY <1>7, <3>1, <4>1 DEF EntryType
      <4>3. cache[kv[j].first] = latest[j]
        BY <1>1, <4>1 DEF CopiesCurrent
      <4> QED BY <1>5, <3>2, <4>1, <4>2, <4>3
    <3> QED BY <3>3, <3>4
  <2> QED BY <1>5, <1>13, <2>1 DEF CopiesCurrent
<1>20. ListOfFree' /\ PendingIsAbsent'
  BY <1>1, <1>5, <1>16 DEF ListOfFree, PendingIsAbsent
<1> QED BY <1>15, <1>17, <1>18, <1>19, <1>20 DEF IndexInv

LEMMA QuitAndStartStep ==
  ASSUME IndexInv, PendingIsAbsent, QuitAndStart
  PROVE  IndexInv' /\ PendingIsAbsent'
<1>1. IndexTypes /\ Bytewise /\ IteratorsLinked(kv, cache_element) /\ CopiesCurrent /\ ListOfFree
  BY DEF IndexInv
<1>2. /\ kv' = [k \in Keys |-> IF Present(kv, k) THEN [kv[k] EXCEPT !.first = -1] ELSE NoEntry]
      /\ mem_list' = ScannedBlocks(store)
      /\ cache' = [i \in CacheSlots |-> << >>]
      /\ cache_index' = -1
      /\ cache_element' = [i \in CacheSlots |-> End]
      /\ UNCHANGED <<store, pending, latest>>
  BY DEF QuitAndStart
<1>3. NoEntry \in EntryType /\ NoEntry.first = -1 /\ NoEntry.second = -1
  BY DEF NoEntry, EntryType
<1>4. ASSUME NEW k \in Keys
      PROVE  kv'[k] \in EntryType /\ kv'[k].first = -1 /\ kv'[k].second = kv[k].second
  <2>1. kv[k] \in EntryType /\ (Present(kv, k) <=> kv[k].second # -1)
    BY <1>1, PresentEntry DEF IndexTypes
  <2>2. CASE Present(kv, k)
    <3>1. kv'[k] = [kv[k] EXCEPT !.first = -1]
      BY <1>2, <2>2
    <3> QED BY <2>1, <3>1 DEF EntryType
  <2>3. CASE ~Present(kv, k)
    BY <1>2, <1>3, <2>1, <2>3
  <2> QED BY <2>2, <2>3
<1>5. file_size' = file_size
  BY <1>2 DEF file_size, SizeOf
<1>6. IndexTypes'
  <2>1. kv' \in [Keys -> EntryType]
    BY <1>2, <1>4
  <2>2. End \in Iterators
    BY DEF Iterators
  <2> QED BY <1>1, <1>2, <1>5, <2>1, <2>2 DEF IndexTypes
<1>7. \A j \in IsSet : kv'[j].second = kv[j].second
  BY <1>4 DEF IsSet
<1>8. /\ IsSet' = IsSet
      /\ \A j \in IsSet : LastOf(j)' = LastOf(j) /\ \A b : Covers(j, b)' <=> Covers(j, b)
  <2>1. IsSet' = IsSet
    BY <1>2 DEF IsSet
  <2> QED BY <1>2, <1>7, <2>1 DEF LastOf, Covers
<1>9. \A b : Free(b)' <=> Free(b)
  BY <1>2, <1>8 DEF Free
<1>10. Bytewise'
  <2>1. EntryIfSet'
    BY <1>1, <1>2, <1>4 DEF Bytewise, EntryIfSet
  <2>2. ValuesStored'
    BY <1>1, <1>2, <1>5, <1>7, <1>8 DEF Bytewise, ValuesStored
  <2>3. ValuesApart'
    BY <1>1, <1>7, <1>8 DEF Bytewise, ValuesApart
  <2>4. RestIsZero'
    BY <1>1, <1>2, <1>9 DEF Bytewise, RestIsZero
  <2> QED BY <2>1, <2>2, <2>3, <2>4 DEF Bytewise
<1>11. IteratorsLinked(kv', cache_element')
  BY <1>4 DEF IteratorsLinked
<1>12. CopiesCurrent'
  <2>1. \A j \in IsSet : kv'[j].first = -1
    BY <1>4 DEF IsSet
  <2> QED BY <1>8, <2>1 DEF CopiesCurrent
<1>13. ListOfFree'
  <2>1. file_size \in Nat /\ DOMAIN store = 0 .. file_size - 1
    BY <1>1 DEF IndexTypes
  <2>2. /\ Sorted(ScannedBlocks(store))
        /\ \A b \in Nat : InBlock(ScannedBlocks(store), b) <=> FreeByte(store, b)
    BY <2>1, ScannedFacts
  <2>3. \A b \in Nat : FreeByte(store, b) <=> Free(b)
    BY <1>1, FreeIsFreeByte
  <2> QED BY <1>2, <1>9, <2>2, <2>3 DEF ListOfFree
<1> QED BY <1>2, <1>6, <1>10, <1>11, <1>12, <1>13 DEF IndexInv, PendingIsAbsent

\* The variables that the invariant is about.
LEMMA SameState ==
  ASSUME AllocInv,
         UNCHANGED <<kv, store, mem_list, cache, cache_index, cache_element, pending, latest>>
  PROVE  AllocInv'
BY DEF AllocInv, IndexInv, IndexTypes, Bytewise, EntryIfSet, ValuesStored, ValuesApart,
       RestIsZero, CopiesCurrent, ListOfFree, PendingIsAbsent, IsSet, LastOf, Covers, Free,
       file_size, SizeOf, IteratorsLinked

LEMMA NextAllocInv ==
  ASSUME AllocInv, [Next]_allocVars
  PROVE  AllocInv'
<1>1. IndexInv /\ PendingIsAbsent
  BY DEF AllocInv
<1>2. ASSUME NEW k \in Keys, Del(k) PROVE AllocInv'
  <2>1. IndexInv'
    BY <1>1, <1>2, DeleteStep DEF Del
  <2>2. pending' = << >>
    BY <1>2 DEF Del
  <2> QED BY <2>1, <2>2 DEF AllocInv, PendingIsAbsent
<1>3. ASSUME NEW k \in Keys, NEW v \in Values, Set(k, v) PROVE AllocInv'
  <2>1. pending' = <<k, v>> /\ pending'[1] = k /\ pending' \in Keys \X Values
    BY <1>3 DEF Set
  <2>2. kv \in [Keys -> EntryType] /\ latest \in [Keys -> Values \cup {Absent}] /\ EntryIfSet
    BY <1>1 DEF IndexInv, IndexTypes, Bytewise
  <2>3. CASE Present(kv, k)
    <3>1. Delete(k)
      BY <1>3, <2>3 DEF Set
    <3>2. IndexInv' /\ latest' = [latest EXCEPT ![k] = Absent]
      BY <1>1, <3>1, DeleteStep
    <3>3. latest'[k] = Absent
      BY <2>2, <3>2
    <3> QED BY <2>1, <3>2, <3>3 DEF AllocInv, PendingIsAbsent
  <2>4. CASE ~Present(kv, k)
    <3>1. UNCHANGED <<kv, store, mem_list, mapped, cache, cache_index, cache_element, latest>>
      BY <1>3, <2>4 DEF Set
    <3>2. latest[k] = Absent
      <4>1. ~(kv[k].second # -1)
        BY <2>2, <2>4, PresentEntry
      <4> QED BY <2>2, <4>1 DEF EntryIfSet
    <3>3. IndexInv'
      BY <1>1, <3>1 DEF IndexInv, IndexTypes, Bytewise, EntryIfSet, ValuesStored, ValuesApart,
        RestIsZero, CopiesCurrent, ListOfFree, IsSet, LastOf, Covers, Free, file_size, SizeOf,
        IteratorsLinked
    <3> QED BY <2>1, <3>1, <3>2, <3>3 DEF AllocInv, PendingIsAbsent
  <2> QED BY <2>3, <2>4
<1>4. ASSUME NEW k \in Keys, Get(k) PROVE AllocInv'
  BY <1>1, <1>4, GetStep DEF AllocInv
<1>5. ASSUME Insert PROVE AllocInv'
  BY <1>1, <1>5, InsertStep DEF AllocInv
<1>6. ASSUME Resize PROVE AllocInv'
  BY <1>1, <1>6, ResizeStep DEF AllocInv
<1>7. ASSUME ResizeFails PROVE AllocInv'
  <2>1. UNCHANGED <<kv, store, mem_list, cache, cache_index, cache_element, latest>> /\ pending' = << >>
    BY <1>7 DEF ResizeFails
  <2>2. IndexInv'
    BY <1>1, <2>1 DEF IndexInv, IndexTypes, Bytewise, EntryIfSet, ValuesStored, ValuesApart,
      RestIsZero, CopiesCurrent, ListOfFree, IsSet, LastOf, Covers, Free, file_size, SizeOf,
      IteratorsLinked
  <2> QED BY <2>1, <2>2 DEF AllocInv, PendingIsAbsent
<1>8. ASSUME QuitAndStart PROVE AllocInv'
  BY <1>1, <1>8, QuitAndStartStep DEF AllocInv
<1>9. CASE UNCHANGED allocVars
  BY <1>9, SameState DEF allocVars
<1> QED BY <1>2, <1>3, <1>4, <1>5, <1>6, <1>7, <1>8, <1>9 DEF Next

LEMMA AllocInvariant == Spec => []AllocInv
BY InitAlloc, NextAllocInv, PTL DEF Spec

(* The free list is, in order, the longest blocks of bytes that belong to no *)
(* value, for every number of keys, every set of values, every size of the   *)
(* file and of the cache: what Insert, Delete and Resize make of it          *)
(* (KVIndex.h:124-224) is what the scan of Start finds (KVIndex.h:100-116).  *)
THEOREM FreeListCorrect == Spec => []FreeListExact
BY AllocInvariant, InvListExact, PTL

(* A key has an entry exactly when it is set, no two values overlap, and the *)
(* bytes in the store and the cached copy are the value of its last set      *)
(* (KVIndex.h:154-294), for every instance.                                  *)
THEOREM ValuesCorrect == Spec => []ValuesIntact
BY AllocInvariant, InvValuesIntact, PTL

-----------------------------------------------------------------------------
(* MCSequential's specification is that of the structure it chooses *)

\* A behaviour that exercises one of the two is a behaviour of each of them:
\* the other one stutters.
LEMMA EitherIsEach == SpecEither => Spec /\ Lru!Spec
<1>1. InitEither => Init /\ Lru!Init
  BY DEF InitEither
<1>2. [NextAlloc \/ NextLru]_<<structure, allocVars, lruState>>
        => [Next]_allocVars /\ [Lru!Next]_Lru!lruVars
  BY DEF NextAlloc, NextLru, allocVars, lruState, Lru!lruVars
<1> QED BY <1>1, <1>2, PTL DEF SpecEither, Spec, Lru!Spec
=============================================================================
