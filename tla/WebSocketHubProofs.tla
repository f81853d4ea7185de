------------------------- MODULE WebSocketHubProofs -------------------------
(***************************************************************************)
(* Safety of WebSocketHub, for any sockets, users, tenants and events, any *)
(* queue bound and connection limit, and any failures: types, the bound of *)
(* a queue, the connection limit, the order and the tenants of what a      *)
(* client is sent, what backpressure may take, and that the two copies of  *)
(* an event reach a client as one.                                         *)
(***************************************************************************)
EXTENDS WebSocketHub, FiniteSetTheorems, SequenceTheorems, TLAPS

-----------------------------------------------------------------------------
(* Subsequences: what filtering, trimming and taking from a queue leave.   *)

(* f places r in s, in the order of r. *)
Embeds(f, r, s) ==
  /\ f \in [1..Len(r) -> 1..Len(s)]
  /\ \A j, k \in 1..Len(r) : j < k => f[j] < f[k]
  /\ \A k \in 1..Len(r) : r[k] = s[f[k]]

Subsequence(r, s) == \E f \in [1..Len(r) -> 1..Len(s)] : Embeds(f, r, s)

LEMMA SubsequenceRefl ==
  ASSUME NEW s \in Seq(Item)
  PROVE  Subsequence(s, s)
<1> DEFINE f == [k \in 1..Len(s) |-> k]
<1>1. Len(s) \in Nat  BY LenProperties
<1>2. Embeds(f, s, s)  BY <1>1 DEF Embeds
<1> QED  BY <1>2 DEF Subsequence, Embeds

LEMMA SubsequenceTrans ==
  ASSUME NEW r \in Seq(Item), NEW s \in Seq(Item), NEW t \in Seq(Item),
         Subsequence(r, s), Subsequence(s, t)
  PROVE  Subsequence(r, t)
<1>1. Len(r) \in Nat /\ Len(s) \in Nat /\ Len(t) \in Nat  BY LenProperties
<1>2. PICK f \in [1..Len(r) -> 1..Len(s)] : Embeds(f, r, s)  BY DEF Subsequence
<1>3. PICK g \in [1..Len(s) -> 1..Len(t)] : Embeds(g, s, t)  BY DEF Subsequence
<1> DEFINE h == [k \in 1..Len(r) |-> g[f[k]]]
<1>4. h \in [1..Len(r) -> 1..Len(t)]  OBVIOUS
<1>5. ASSUME NEW j \in 1..Len(r), NEW k \in 1..Len(r), j < k
      PROVE  h[j] < h[k]
  <2>1. f[j] \in 1..Len(s) /\ f[k] \in 1..Len(s) /\ f[j] < f[k]  BY <1>2, <1>5 DEF Embeds
  <2> QED  BY <2>1, <1>3 DEF Embeds
<1>6. ASSUME NEW k \in 1..Len(r) PROVE r[k] = t[h[k]]
  BY <1>2, <1>3 DEF Embeds
<1>7. Embeds(h, r, t)  BY <1>4, <1>5, <1>6 DEF Embeds
<1> QED  BY <1>4, <1>7 DEF Subsequence

(* Two sequences side by side: whoever embeds the second keeps the first.  *)
LEMMA SubsequenceBehind ==
  ASSUME NEW p \in Seq(Item), NEW r \in Seq(Item), NEW s \in Seq(Item), Subsequence(r, s)
  PROVE  Subsequence(p \o r, p \o s)
<1>1. Len(p) \in Nat /\ Len(r) \in Nat /\ Len(s) \in Nat  BY LenProperties
<1>2. /\ Len(p \o r) = Len(p) + Len(r)
      /\ \A i \in 1..Len(p) + Len(r) :
           (p \o r)[i] = IF i <= Len(p) THEN p[i] ELSE r[i - Len(p)]
  BY ConcatProperties
<1>3. /\ Len(p \o s) = Len(p) + Len(s)
      /\ \A i \in 1..Len(p) + Len(s) :
           (p \o s)[i] = IF i <= Len(p) THEN p[i] ELSE s[i - Len(p)]
  BY ConcatProperties
<1>4. PICK f \in [1..Len(r) -> 1..Len(s)] : Embeds(f, r, s)  BY DEF Subsequence
<1> DEFINE n == Len(p)
           h == [k \in 1..(n + Len(r)) |-> IF k <= n THEN k ELSE n + f[k - n]]
<1>5. ASSUME NEW k \in 1..(n + Len(r)), ~(k <= n)
      PROVE  k - n \in 1..Len(r) /\ f[k - n] \in 1..Len(s)
  <2>1. k - n \in 1..Len(r)  BY <1>1, <1>5
  <2> QED  BY <2>1
<1>6. h \in [1..(n + Len(r)) -> 1..(n + Len(s))]
  <2>1. ASSUME NEW k \in 1..(n + Len(r))
        PROVE  (IF k <= n THEN k ELSE n + f[k - n]) \in 1..(n + Len(s))
    BY <1>1, <1>5
  <2> QED  BY <2>1
<1>7. ASSUME NEW j \in 1..(n + Len(r)), NEW k \in 1..(n + Len(r)), j < k
      PROVE  h[j] < h[k]
  <2>1. CASE k <= n  BY <2>1, <1>7, <1>1
  <2>2. CASE j <= n /\ ~(k <= n)  BY <2>2, <1>5, <1>1
  <2>3. CASE ~(j <= n)
    <3>1. ~(k <= n) /\ j - n < k - n  BY <2>3, <1>7, <1>1
    <3>2. f[j - n] < f[k - n]  BY <3>1, <2>3, <1>4, <1>5 DEF Embeds
    <3>3. f[j - n] \in Nat /\ f[k - n] \in Nat  BY <3>1, <2>3, <1>5, <1>1
    <3>4. h[j] = n + f[j - n] /\ h[k] = n + f[k - n]  BY <3>1, <2>3
    <3> HIDE DEF h
    <3> QED  BY <3>2, <3>3, <3>4, <1>1
  <2> QED  BY <2>1, <2>2, <2>3, <1>1
<1>8. ASSUME NEW k \in 1..(n + Len(r)) PROVE (p \o r)[k] = (p \o s)[h[k]]
  <2>1. CASE k <= n
    <3>1. h[k] = k /\ k \in 1..(n + Len(s))  BY <2>1, <1>1
    <3> QED  BY <3>1, <2>1, <1>2, <1>3
  <2>2. CASE ~(k <= n)
    <3> DEFINE i == f[k - n]
    <3>1. k - n \in 1..Len(r) /\ i \in 1..Len(s) /\ h[k] = n + i  BY <2>2, <1>5
    <3>2. r[k - n] = s[i]  BY <3>1, <1>4 DEF Embeds
    <3> HIDE DEF i, h
    <3>3. n + i \in 1..(n + Len(s)) /\ ~(n + i <= n) /\ (n + i) - n = i  BY <3>1, <1>1
    <3>4. (p \o s)[n + i] = s[i]  BY <3>3, <1>3
    <3>5. (p \o r)[k] = r[k - n]  BY <2>2, <1>2
    <3> QED  BY <3>1, <3>2, <3>4, <3>5
  <2> QED  BY <2>1, <2>2
<1> HIDE DEF h
<1>9. Embeds(h, p \o r, p \o s)  BY <1>2, <1>3, <1>6, <1>7, <1>8 DEF Embeds
<1> QED  BY <1>9 DEF Subsequence, Embeds

(* The same with one more item behind both, and one behind the longer.     *)
LEMMA SubsequenceAppend ==
  ASSUME NEW r \in Seq(Item), NEW s \in Seq(Item), NEW x \in Item, Subsequence(r, s)
  PROVE  /\ Subsequence(Append(r, x), Append(s, x))
         /\ Subsequence(r, Append(s, x))
<1>1. Len(r) \in Nat /\ Len(s) \in Nat  BY LenProperties
<1>2. /\ Len(Append(r, x)) = Len(r) + 1
      /\ \A i \in 1..Len(r) : Append(r, x)[i] = r[i]
      /\ Append(r, x)[Len(r) + 1] = x
  BY AppendProperties
<1>3. /\ Len(Append(s, x)) = Len(s) + 1
      /\ \A i \in 1..Len(s) : Append(s, x)[i] = s[i]
      /\ Append(s, x)[Len(s) + 1] = x
  BY AppendProperties
<1>4. PICK f \in [1..Len(r) -> 1..Len(s)] : Embeds(f, r, s)  BY DEF Subsequence
<1> DEFINE h == [k \in 1..(Len(r) + 1) |-> IF k = Len(r) + 1 THEN Len(s) + 1 ELSE f[k]]
<1>5. \A k \in 1..(Len(r) + 1) : k # Len(r) + 1 => k \in 1..Len(r)  BY <1>1
<1>6. Embeds(h, Append(r, x), Append(s, x))
  <2>1. h \in [1..(Len(r) + 1) -> 1..(Len(s) + 1)]  BY <1>1, <1>5
  <2>2. ASSUME NEW j \in 1..(Len(r) + 1), NEW k \in 1..(Len(r) + 1), j < k
        PROVE  h[j] < h[k]
    <3>1. j \in 1..Len(r) /\ j # Len(r) + 1 /\ f[j] \in 1..Len(s)  BY <2>2, <1>1
    <3>2. CASE k = Len(r) + 1  BY <3>1, <3>2, <1>1
    <3>3. CASE k # Len(r) + 1  BY <3>1, <3>3, <2>2, <1>4, <1>5 DEF Embeds
    <3> QED  BY <3>2, <3>3
  <2>3. ASSUME NEW k \in 1..(Len(r) + 1) PROVE Append(r, x)[k] = Append(s, x)[h[k]]
    <3>1. CASE k = Len(r) + 1  BY <3>1, <1>2, <1>3
    <3>2. CASE k # Len(r) + 1
      <4>1. k \in 1..Len(r) /\ h[k] = f[k] /\ f[k] \in 1..Len(s)  BY <3>2, <1>5
      <4>2. r[k] = s[f[k]]  BY <4>1, <1>4 DEF Embeds
      <4> HIDE DEF h
      <4> QED  BY <4>1, <4>2, <1>2, <1>3
    <3> QED  BY <3>1, <3>2
  <2> QED  BY <2>1, <2>2, <2>3, <1>2, <1>3 DEF Embeds
<1>7. Embeds(f, r, Append(s, x))
  <2>1. f \in [1..Len(r) -> 1..(Len(s) + 1)]  BY <1>1
  <2> QED  BY <2>1, <1>3, <1>4 DEF Embeds
<1> QED  BY <1>6, <1>7 DEF Subsequence, Embeds

LEMMA NoItemEmbeds ==
  ASSUME NEW s \in Seq(Item)
  PROVE  Subsequence(<< >>, s)
<1> DEFINE f == [k \in 1..0 |-> k]
<1>1. Len(<< >>) = 0 /\ Len(s) \in Nat  BY EmptySeq, LenProperties
<1>2. 1..0 = {}  OBVIOUS
<1>3. f \in [1..0 -> 1..Len(s)]  BY <1>2
<1> HIDE DEF f
<1>4. Embeds(f, << >>, s)  BY <1>1, <1>2, <1>3 DEF Embeds
<1> QED  BY <1>1, <1>3, <1>4 DEF Subsequence

(* Sent and SendFails take the head of a queue. *)
LEMMA TailEmbeds ==
  ASSUME NEW s \in Seq(Item), s # << >>
  PROVE  Tail(s) \in Seq(Item) /\ Subsequence(Tail(s), s)
<1>1. /\ Tail(s) \in Seq(Item) /\ Len(Tail(s)) = Len(s) - 1
      /\ \A i \in 1..Len(Tail(s)) : Tail(s)[i] = s[i + 1]
  BY HeadTailProperties
<1>2. Len(s) \in Nat /\ Len(Tail(s)) \in Nat  BY <1>1, LenProperties
<1> DEFINE f == [k \in 1..Len(Tail(s)) |-> k + 1]
<1>3. f \in [1..Len(Tail(s)) -> 1..Len(s)]  BY <1>1, <1>2
<1>4. Embeds(f, Tail(s), s)  BY <1>1, <1>2, <1>3 DEF Embeds
<1> QED  BY <1>1, <1>3, <1>4 DEF Subsequence

(* The trim of GH #395 cuts from the front, down to the bound. *)
LEMMA NewestFits ==
  ASSUME NEW s \in Seq(Item)
  PROVE  /\ Newest(s) \in Seq(Item) /\ Subsequence(Newest(s), s)
         /\ Len(Newest(s)) <= LIMIT
         /\ Len(s) <= LIMIT => Newest(s) = s
         /\ Len(s) > LIMIT => Len(Newest(s)) = LIMIT
         /\ \A k \in 1..Len(Newest(s)) : \E j \in 1..Len(s) : Newest(s)[k] = s[j]
<1>1. Len(s) \in Nat /\ LIMIT \in Nat  BY LenProperties, HubAssumption
<1>2. CASE ~(Len(s) > LIMIT)
  BY <1>1, <1>2, SubsequenceRefl DEF Newest
<1>3. CASE Len(s) > LIMIT
  <2> DEFINE d == Len(s) - LIMIT
             t == SubSeq(s, d + 1, Len(s))
  <2>1. d \in Nat /\ d + LIMIT = Len(s)  BY <1>1, <1>3
  <2>2. Newest(s) = t  BY <1>3 DEF Newest
  <2>3. \A i \in (d + 1)..Len(s) : s[i] \in Item
    <3> SUFFICES ASSUME NEW i \in (d + 1)..Len(s) PROVE s[i] \in Item  OBVIOUS
    <3>1. i \in 1..Len(s)  BY <2>1, <1>1
    <3> QED  BY <3>1, ElementOfSeq
  <2>4. /\ t \in Seq(Item)
        /\ Len(t) = IF d + 1 <= Len(s) THEN Len(s) - (d + 1) + 1 ELSE 0
        /\ \A i \in 1..(Len(s) - (d + 1) + 1) : t[i] = s[(d + 1) + i - 1]
    <3>1. d + 1 \in Int /\ Len(s) \in Int  BY <1>1, <2>1
    <3> QED  BY <3>1, <2>3, SubSeqProperties
  <2> HIDE DEF d, t
  <2>5. Len(t) = LIMIT  BY <2>1, <2>4, <1>1, <1>3
  <2>6. \A i \in 1..LIMIT : t[i] = s[d + i]
    <3> SUFFICES ASSUME NEW i \in 1..LIMIT PROVE t[i] = s[d + i]  OBVIOUS
    <3>1. i \in 1..(Len(s) - (d + 1) + 1) /\ (d + 1) + i - 1 = d + i  BY <2>1, <1>1
    <3> QED  BY <3>1, <2>4
  <2> DEFINE f == [k \in 1..LIMIT |-> d + k]
  <2>7. f \in [1..LIMIT -> 1..Len(s)]  BY <2>1, <1>1
  <2>8. Embeds(f, t, s)
    <3>1. \A j, k \in 1..LIMIT : j < k => f[j] < f[k]  BY <2>1, <1>1
    <3>2. \A k \in 1..LIMIT : t[k] = s[f[k]]  BY <2>6
    <3> QED  BY <2>5, <2>7, <3>1, <3>2 DEF Embeds
  <2>9. Subsequence(t, s)  BY <2>5, <2>7, <2>8 DEF Subsequence
  <2>10. \A k \in 1..Len(t) : \E j \in 1..Len(s) : t[k] = s[j]
    BY <2>5, <2>7, <2>8 DEF Embeds
  <2> QED  BY <2>2, <2>4, <2>5, <2>9, <2>10, <1>1, <1>3
<1> QED  BY <1>2, <1>3

-----------------------------------------------------------------------------
(* The n-th member of a finite set of positions exists and grows with n.   *)

LEMMA RankTable ==
  ASSUME NEW S, IsFiniteSet(S), S \subseteq Nat
  PROVE  /\ Cardinality(S) \in Nat
         /\ \A k \in S : Rank(S, k) \in 1..Cardinality(S)
         /\ \A j, k \in S : j < k => Rank(S, j) < Rank(S, k)
<1> DEFINE Upto(k) == {j \in S : j <= k}
<1>1. Cardinality(S) \in Nat  BY FS_CardinalityType
<1>2. ASSUME NEW k \in S
      PROVE  /\ IsFiniteSet(Upto(k)) /\ Cardinality(Upto(k)) \in Nat
             /\ Cardinality(Upto(k)) <= Cardinality(S)
  <2>1. Upto(k) \in SUBSET S  OBVIOUS
  <2> HIDE DEF Upto
  <2> QED  BY <2>1, FS_Subset, FS_CardinalityType
<1>3. ASSUME NEW k \in S PROVE Cardinality(Upto(k)) >= 1
  <2>1. {k} \in SUBSET Upto(k)  OBVIOUS
  <2>2. Cardinality({k}) = 1  BY FS_Singleton
  <2> HIDE DEF Upto
  <2>3. Cardinality({k}) <= Cardinality(Upto(k))  BY <1>2, <2>1, FS_Subset
  <2> QED  BY <2>2, <2>3, <1>2
<1>4. ASSUME NEW j \in S, NEW k \in S, j < k
      PROVE  Cardinality(Upto(j)) < Cardinality(Upto(k))
  <2>1. Upto(j) \cup {k} \in SUBSET Upto(k) /\ k \notin Upto(j)
    <3>1. j \in Nat /\ k \in Nat /\ ~(k <= j) /\ k <= k  BY <1>4
    <3>2. \A i \in S : i <= j => i <= k  BY <1>4
    <3> QED  BY <3>1, <3>2
  <2> HIDE DEF Upto
  <2>2. Cardinality(Upto(j) \cup {k}) = Cardinality(Upto(j)) + 1
    BY <1>2, <2>1, FS_AddElement
  <2>3. Cardinality(Upto(j) \cup {k}) <= Cardinality(Upto(k))
    BY <1>2, <2>1, FS_Subset
  <2> QED  BY <2>2, <2>3, <1>2
<1>5. \A k \in S : Rank(S, k) = Cardinality(Upto(k))  BY DEF Rank
<1> HIDE DEF Upto
<1> QED  BY <1>1, <1>2, <1>3, <1>4, <1>5

LEMMA NthTable ==
  ASSUME NEW S, IsFiniteSet(S), S \subseteq Nat
  PROVE  /\ \A n \in 1..Cardinality(S) : Nth(S, n) \in S /\ Rank(S, Nth(S, n)) = n
         /\ \A m, n \in 1..Cardinality(S) : m < n => Nth(S, m) < Nth(S, n)
         /\ \A k \in S : \E n \in 1..Cardinality(S) : Nth(S, n) = k
<1> DEFINE N == Cardinality(S)
           r == [k \in S |-> Rank(S, k)]
<1>1. /\ N \in Nat
      /\ \A k \in S : Rank(S, k) \in 1..N
      /\ \A j, k \in S : j < k => Rank(S, j) < Rank(S, k)
  BY RankTable
<1>2. \A j, k \in S : Rank(S, j) = Rank(S, k) => j = k
  <2> SUFFICES ASSUME NEW j \in S, NEW k \in S, Rank(S, j) = Rank(S, k), j # k
               PROVE  FALSE
    OBVIOUS
  <2>1. j < k \/ k < j  OBVIOUS
  <2>2. Rank(S, j) \in Nat /\ Rank(S, k) \in Nat  BY <1>1
  <2> QED  BY <2>1, <2>2, <1>1
<1>3. r \in Injection(S, 1..N)  BY <1>1, <1>2 DEF Injection, IsInjective
<1>4. IsFiniteSet(1..N) /\ Cardinality(1..N) = N  BY <1>1, FS_Interval
<1>5. r \in Surjection(S, 1..N)  BY <1>3, <1>4, FS_Injection
<1>6. \A n \in 1..N : \E k \in S : Rank(S, k) = n  BY <1>5 DEF Surjection
<1>7. \A n \in 1..N : Nth(S, n) \in S /\ Rank(S, Nth(S, n)) = n  BY <1>6 DEF Nth
<1>8. \A m, n \in 1..N : m < n => Nth(S, m) < Nth(S, n)
  <2> SUFFICES ASSUME NEW m \in 1..N, NEW n \in 1..N, m < n, ~(Nth(S, m) < Nth(S, n))
               PROVE  FALSE
    OBVIOUS
  <2> DEFINE a == Nth(S, m)
             b == Nth(S, n)
  <2>1. a \in S /\ b \in S /\ Rank(S, a) = m /\ Rank(S, b) = n /\ ~(a < b)  BY <1>7
  <2> HIDE DEF a, b
  <2>2. a = b \/ b < a  BY <2>1
  <2>3. b < a => n < m  BY <2>1, <1>1
  <2> QED  BY <2>1, <2>2, <2>3
<1>9. \A k \in S : \E n \in 1..N : Nth(S, n) = k  BY <1>1, <1>2, <1>7
<1> QED  BY <1>7, <1>8, <1>9

-----------------------------------------------------------------------------
(* The queue. *)

(* Criticals keeps every critical item, in order, and nothing else. *)
LEMMA CriticalsTable ==
  ASSUME NEW q \in Seq(Item)
  PROVE  /\ Criticals(q) \in Seq(Item) /\ Subsequence(Criticals(q), q)
         /\ \A n \in 1..Len(Criticals(q)) : IsCritical(Criticals(q)[n])
         /\ \A k \in 1..Len(q) :
              IsCritical(q[k]) => \E n \in 1..Len(Criticals(q)) : Criticals(q)[n] = q[k]
<1> DEFINE S == CriticalAt(q)
           N == Cardinality(S)
           f == [n \in 1..N |-> Nth(S, n)]
<1>1. Len(q) \in Nat /\ DOMAIN q = 1..Len(q)  BY LenProperties
<1>2. IsFiniteSet(1..Len(q))  BY <1>1, FS_Interval
<1>3. S \in SUBSET (1..Len(q))  BY <1>1 DEF CriticalAt
<1>4. IsFiniteSet(S) /\ S \subseteq Nat  BY <1>1, <1>2, <1>3, FS_Subset
<1>5. N \in Nat  BY <1>4, FS_CardinalityType
<1>6. /\ \A n \in 1..N : Nth(S, n) \in S
      /\ \A m, n \in 1..N : m < n => Nth(S, m) < Nth(S, n)
      /\ \A k \in S : \E n \in 1..N : Nth(S, n) = k
  BY <1>4, NthTable
<1>7. \A k \in 1..Len(q) : k \in S <=> IsCritical(q[k])  BY <1>1 DEF CriticalAt
<1>8. Criticals(q) = [n \in 1..N |-> q[Nth(S, n)]]  BY DEF Criticals
<1> HIDE DEF S, N
<1>9. \A n \in 1..N : q[Nth(S, n)] \in Item
  BY <1>3, <1>6, ElementOfSeq
<1>10. Criticals(q) \in Seq(Item) /\ Len(Criticals(q)) = N
  <2>1. Criticals(q) \in [1..N -> Item]  BY <1>8, <1>9
  <2>2. Criticals(q) \in Seq(Item)  BY <2>1, <1>5
  <2> QED  BY <2>1, <2>2, <1>5
<1>11. f \in [1..N -> 1..Len(q)]  BY <1>3, <1>6
<1>12. \A n \in 1..N : Criticals(q)[n] = q[f[n]]  BY <1>8
<1>13. Embeds(f, Criticals(q), q)
  <2>1. \A m, n \in 1..N : m < n => f[m] < f[n]  BY <1>6
  <2> QED  BY <2>1, <1>10, <1>11, <1>12 DEF Embeds
<1>14. Subsequence(Criticals(q), q)  BY <1>10, <1>11, <1>13 DEF Subsequence
<1>15. \A n \in 1..N : IsCritical(Criticals(q)[n])  BY <1>3, <1>6, <1>7, <1>8
<1>16. ASSUME NEW k \in 1..Len(q), IsCritical(q[k])
       PROVE  \E n \in 1..N : Criticals(q)[n] = q[k]
  BY <1>6, <1>7, <1>8, <1>16
<1> QED  BY <1>10, <1>14, <1>15, <1>16

(* What a client has queued after an enqueue is a part of the old queue    *)
(* with the new item behind it, and fits.                                  *)
LEMMA EnqueueFits ==
  ASSUME NEW q \in Seq(Item), NEW item \in Item
  PROVE  /\ Enqueue(q, item) \in Seq(Item)
         /\ Subsequence(Enqueue(q, item), Append(q, item))
         /\ Len(q) <= LIMIT => Len(Enqueue(q, item)) <= LIMIT
<1>1. Len(q) \in Nat /\ LIMIT \in Nat  BY LenProperties, HubAssumption
<1>2. Append(q, item) \in Seq(Item) /\ Len(Append(q, item)) = Len(q) + 1
  BY AppendProperties
<1>3. CASE Len(q) < LIMIT
  <2>1. Enqueue(q, item) = Append(q, item)  BY <1>3 DEF Enqueue
  <2>2. Subsequence(Append(q, item), Append(q, item))  BY <1>2, SubsequenceRefl
  <2>3. Len(Append(q, item)) <= LIMIT  BY <1>1, <1>2, <1>3
  <2> QED  BY <2>1, <2>2, <2>3, <1>2
<1>4. CASE ~(Len(q) < LIMIT) /\ IsCritical(item)
  <2> DEFINE keep == Append(Criticals(q), item)
  <2>1. Criticals(q) \in Seq(Item) /\ Subsequence(Criticals(q), q)  BY CriticalsTable
  <2>2. keep \in Seq(Item)  BY <2>1, AppendProperties
  <2>3. Subsequence(keep, Append(q, item))  BY <2>1, SubsequenceAppend
  <2>4. Enqueue(q, item) = Newest(keep)  BY <1>4 DEF Enqueue
  <2> HIDE DEF keep
  <2>5. /\ Newest(keep) \in Seq(Item) /\ Subsequence(Newest(keep), keep)
        /\ Len(Newest(keep)) <= LIMIT
    BY <2>2, NewestFits
  <2>6. Subsequence(Newest(keep), Append(q, item))
    BY <1>2, <2>2, <2>3, <2>5, SubsequenceTrans
  <2> QED  BY <2>4, <2>5, <2>6
<1>5. CASE ~(Len(q) < LIMIT) /\ ~IsCritical(item)
  <2>1. Enqueue(q, item) = q  BY <1>5 DEF Enqueue
  <2>2. Subsequence(q, Append(q, item))  BY SubsequenceRefl, SubsequenceAppend
  <2> QED  BY <2>1, <2>2
<1> QED  BY <1>3, <1>4, <1>5

(* What backpressure takes: nothing while there is room, the new item if   *)
(* it is a plain event, and a critical item only if everything that is     *)
(* kept is critical, too, and fills the queue.                             *)
LEMMA EnqueueKeepsCritical ==
  ASSUME NEW q \in Seq(Item), NEW item \in Item, NEW k \in 1..Len(Append(q, item)),
         IsCritical(Append(q, item)[k]),
         \A j \in 1..Len(Enqueue(q, item)) : Enqueue(q, item)[j] # Append(q, item)[k]
  PROVE  /\ Len(Enqueue(q, item)) = LIMIT
         /\ \A j \in 1..Len(Enqueue(q, item)) : IsCritical(Enqueue(q, item)[j])
<1> DEFINE full == Append(q, item)
           keep == Append(Criticals(q), item)
           lost == full[k]
<1>1. Len(q) \in Nat /\ LIMIT \in Nat  BY LenProperties, HubAssumption
<1>2. /\ full \in Seq(Item) /\ Len(full) = Len(q) + 1 /\ full[Len(q) + 1] = item
      /\ \A i \in 1..Len(q) : full[i] = q[i]
  BY AppendProperties
<1>3. /\ Criticals(q) \in Seq(Item)
      /\ \A n \in 1..Len(Criticals(q)) : IsCritical(Criticals(q)[n])
      /\ \A i \in 1..Len(q) :
           IsCritical(q[i]) => \E n \in 1..Len(Criticals(q)) : Criticals(q)[n] = q[i]
  BY CriticalsTable
<1>4. Len(Criticals(q)) \in Nat  BY <1>3, LenProperties
<1>5. /\ keep \in Seq(Item) /\ Len(keep) = Len(Criticals(q)) + 1
      /\ keep[Len(Criticals(q)) + 1] = item
      /\ \A n \in 1..Len(Criticals(q)) : keep[n] = Criticals(q)[n]
  BY <1>3, AppendProperties
<1> HIDE DEF full, keep
<1>6. k \in 1..(Len(q) + 1) /\ IsCritical(lost)  BY <1>2 DEF full
<1>7. \A j \in 1..Len(Enqueue(q, item)) : Enqueue(q, item)[j] # lost  BY DEF full
<1>8. ~(Len(q) < LIMIT)
  <2>1. Len(q) < LIMIT => Enqueue(q, item) = full  BY DEF Enqueue, full
  <2> QED  BY <2>1, <1>2, <1>6, <1>7
<1>9. IsCritical(item)
  <2> SUFFICES ASSUME ~IsCritical(item) PROVE FALSE  OBVIOUS
  <2>1. Enqueue(q, item) = q  BY <1>8 DEF Enqueue
  <2>2. k # Len(q) + 1  BY <1>2, <1>6
  <2>3. k \in 1..Len(q)  BY <2>2, <1>1, <1>6
  <2> QED  BY <2>1, <2>3, <1>2, <1>7
<1>10. Enqueue(q, item) = Newest(keep)  BY <1>8, <1>9 DEF Enqueue, keep
<1>11. \E n \in 1..Len(keep) : keep[n] = lost
  <2>1. CASE k = Len(q) + 1
    <3>1. Len(Criticals(q)) + 1 \in 1..Len(keep)  BY <1>4, <1>5
    <3> QED  BY <2>1, <3>1, <1>2, <1>5
  <2>2. CASE k # Len(q) + 1
    <3>1. k \in 1..Len(q) /\ lost = q[k]  BY <2>2, <1>1, <1>2, <1>6
    <3>2. PICK n \in 1..Len(Criticals(q)) : Criticals(q)[n] = lost  BY <3>1, <1>3, <1>6
    <3>3. n \in 1..Len(keep) /\ keep[n] = lost  BY <3>2, <1>4, <1>5
    <3> QED  BY <3>3
  <2> QED  BY <2>1, <2>2
<1>12. \A n \in 1..Len(keep) : IsCritical(keep[n])
  <2> SUFFICES ASSUME NEW n \in 1..Len(keep) PROVE IsCritical(keep[n])  OBVIOUS
  <2>1. CASE n = Len(Criticals(q)) + 1  BY <2>1, <1>5, <1>9
  <2>2. CASE n # Len(Criticals(q)) + 1
    <3>1. n \in 1..Len(Criticals(q))  BY <2>2, <1>4, <1>5
    <3> QED  BY <3>1, <1>3, <1>5
  <2> QED  BY <2>1, <2>2
<1>13. /\ Len(keep) <= LIMIT => Newest(keep) = keep
       /\ Len(keep) > LIMIT => Len(Newest(keep)) = LIMIT
       /\ \A i \in 1..Len(Newest(keep)) : \E j \in 1..Len(keep) : Newest(keep)[i] = keep[j]
  BY <1>5, NewestFits
<1>14. Len(keep) > LIMIT
  <2>1. ~(Len(keep) <= LIMIT)  BY <1>7, <1>10, <1>11, <1>13
  <2>2. Len(keep) \in Nat  BY <1>5, LenProperties
  <2> QED  BY <2>1, <2>2, <1>1
<1> QED  BY <1>10, <1>12, <1>13, <1>14

LEMMA ItemTable ==
  ASSUME NEW x \in Item
  PROVE  /\ x.type \in {"event", "ack", "notification"}
         /\ x.type = "event" => x.event \in Events /\ x.n \in Nat
BY DEF Item

LEMMA EventsInType ==
  ASSUME NEW q \in Seq(Item)
  PROVE  EventsIn(q) \subseteq Events
<1> SUFFICES ASSUME NEW k \in DOMAIN q, q[k].type = "event" PROVE q[k].event \in Events
  BY DEF EventsIn
<1>1. q[k] \in Item  BY LenProperties, ElementOfSeq
<1> QED  BY <1>1, ItemTable

-----------------------------------------------------------------------------
(* Types. Redis holds for a channel only events of that channel, a socket  *)
(* past the access check of its route may follow the route's investigation *)
(* and a client follows only what it has access to: without these three a  *)
(* dispatched event could be foreign to the client it is queued for.       *)

ConnStates == {"new", "accepting", "refusing", "accepted", "open", "gone"}
PubStates == {"unpublished", "raised", "half", "done", "lost", "dropped"}

RightMessage ==
  {m \in Message : m.channel # "notification"
                     => m.of \in Events /\ m.channel \in {Global, EventOf[m.of].inv}}

ConnTypeOK ==
  /\ hub \in {"starting", "running", "crashed", "stopped"}
  /\ lock \in Clients \cup {None}
  /\ conn \in [Clients -> ConnStates]
  /\ subs \in [Clients -> SUBSET Invs]
  /\ \A c \in Clients : subs[c] \subseteq Access[c]
  /\ \A c \in Clients : conn[c] \in {"accepting", "accepted"}
                          => RouteOf[c] = Global \/ RouteOf[c] \in Access[c]
QueueTypeOK ==
  /\ queue \in [Clients -> Seq(Item)]
  /\ sender \in [Clients -> {"none", "running", "ended"}]
  /\ received \in [Clients -> Seq(Item)]
  /\ dropped \in [Clients -> SUBSET Events]
PubTypeOK ==
  /\ pub \in [Events -> PubStates]
  /\ wire \in Seq(RightMessage)
  /\ dispatched \in Nat
  /\ transcript \in [Events -> Nat]
  /\ notifications \in Nat
RestTypeOK ==
  /\ faults \in BOOLEAN
  /\ changes \in Nat
  /\ due \in [Clients -> SUBSET Events]

TypeInv == ConnTypeOK /\ QueueTypeOK /\ PubTypeOK /\ RestTypeOK

LEMMA RightMessageType == RightMessage \subseteq Message
BY DEF RightMessage

LEMMA TypeInvTypeOK == TypeInv => TypeOK
<1> SUFFICES ASSUME TypeInv PROVE TypeOK  OBVIOUS
<1>1. wire \in Seq(Message)
  <2>1. wire \in Seq(RightMessage)  BY DEF TypeInv, PubTypeOK
  <2> QED  BY <2>1, RightMessageType, SeqMonotonic
<1> QED
  BY <1>1 DEF TypeInv, ConnTypeOK, QueueTypeOK, PubTypeOK, RestTypeOK, TypeOK, ConnStates,
              PubStates

LEMMA TypeInvInit == Init => TypeInv
<1> SUFFICES ASSUME Init PROVE TypeInv  OBVIOUS
<1>1. PICK s \in Scenarios :
        /\ conn = [c \in Clients |-> IF c \in s.clients THEN "new" ELSE "gone"]
        /\ pub = [e \in Events |-> IF e \in s.events THEN "unpublished" ELSE "dropped"]
        /\ notifications = s.notifications /\ changes = s.changes /\ faults = s.faults
  BY DEF Init
<1>2. s.notifications \in Nat /\ s.changes \in Nat /\ s.faults \in BOOLEAN
  BY HubAssumption
<1>3. ConnTypeOK  BY <1>1, HubAssumption DEF Init, ConnTypeOK, ConnStates
<1>4. QueueTypeOK  BY EmptySeq DEF Init, QueueTypeOK
<1>5. PubTypeOK  BY <1>1, <1>2, EmptySeq DEF Init, PubTypeOK, PubStates
<1>6. RestTypeOK  BY <1>1, <1>2 DEF Init, RestTypeOK
<1> QED  BY <1>3, <1>4, <1>5, <1>6 DEF TypeInv

(* What EnqueueAll does to the queues and to the ghost beside them. *)
LEMMA EnqueueAllTable ==
  ASSUME QueueTypeOK, NEW item \in Item, NEW targets, EnqueueAll(targets, item)
  PROVE  /\ queue' \in [Clients -> Seq(Item)] /\ dropped' \in [Clients -> SUBSET Events]
         /\ \A c \in Clients : c \in targets => queue'[c] = Enqueue(queue[c], item)
         /\ \A c \in Clients : c \notin targets
              => queue'[c] = queue[c] /\ dropped'[c] = dropped[c]
         /\ \A c \in Clients : c \in targets
              => dropped'[c] = dropped[c]
                   \cup (EventsIn(Append(queue[c], item)) \ EventsIn(queue'[c]))
<1>1. queue \in [Clients -> Seq(Item)] /\ dropped \in [Clients -> SUBSET Events]
  BY DEF QueueTypeOK
<1>2. \A c \in Clients : Enqueue(queue[c], item) \in Seq(Item)  BY <1>1, EnqueueFits
<1>3. \A c \in Clients : EventsIn(Append(queue[c], item)) \subseteq Events
  BY <1>1, AppendProperties, EventsInType
<1>4. queue' = [c \in Clients |->
                  IF c \in targets THEN Enqueue(queue[c], item) ELSE queue[c]]
  BY DEF EnqueueAll
<1>5. dropped' = [c \in Clients |->
                    IF c \in targets
                    THEN dropped[c]
                           \cup (EventsIn(Append(queue[c], item)) \ EventsIn(queue'[c]))
                    ELSE dropped[c]]
  BY DEF EnqueueAll
<1>6. queue' \in [Clients -> Seq(Item)]  BY <1>1, <1>2, <1>4
<1>7. dropped' \in [Clients -> SUBSET Events]  BY <1>1, <1>3, <1>5
<1> QED  BY <1>4, <1>5, <1>6, <1>7

(* The message the listener is about to dispatch. *)
LEMMA HeadTable ==
  ASSUME TypeInv, wire # << >>
  PROVE  /\ Tail(wire) \in Seq(RightMessage)
         /\ Head(wire).channel = "notification" => Head(wire).of \in Users
         /\ Head(wire).channel # "notification"
              => /\ Head(wire).of \in Events
                 /\ Head(wire).channel \in {Global, EventOf[Head(wire).of].inv}
<1>1. wire \in Seq(RightMessage)  BY DEF TypeInv, PubTypeOK
<1>2. Head(wire) \in RightMessage /\ Tail(wire) \in Seq(RightMessage)
  BY <1>1, HeadTailProperties
<1>3. Head(wire).channel = "notification" => Head(wire).of \in Users
  BY <1>2, HubAssumption DEF RightMessage, Message
<1> QED  BY <1>2, <1>3 DEF RightMessage

LEMMA SendType ==
  ASSUME TypeInv, NEW channel, NEW x, [channel |-> channel, of |-> x] \in RightMessage,
         Send(channel, x)
  PROVE  wire' \in Seq(RightMessage)
<1>1. wire \in Seq(RightMessage)  BY DEF TypeInv, PubTypeOK
<1>2. Append(wire, [channel |-> channel, of |-> x]) \in Seq(RightMessage)
  BY <1>1, AppendProperties
<1> QED  BY <1>1, <1>2 DEF Send

LEMMA CopyType ==
  ASSUME NEW e \in Events
  PROVE  /\ [channel |-> EventOf[e].inv, of |-> e] \in RightMessage
         /\ [channel |-> Global, of |-> e] \in RightMessage
<1>1. EventOf[e].inv \in Invs  BY HubAssumption DEF EventType
<1> QED  BY <1>1 DEF RightMessage, Message, Channels

LEMMA RaiseAlertType ==
  ASSUME NEW p \in [Events -> PubStates], NEW e
  PROVE  RaiseAlert(p, e) \in [Events -> PubStates]
BY DEF RaiseAlert, PubStates

LEMMA AckType == ASSUME NEW i \in Invs PROVE Ack(i) \in Item /\ Ack(i).type # "event"
BY DEF Ack, Item

LEMMA NotificationType ==
  ASSUME NEW u \in Users PROVE Notification(u) \in Item /\ Notification(u).type # "event"
BY DEF Notification, Item

LEMMA EventItemType ==
  ASSUME NEW e \in Events, NEW n \in Nat
  PROVE  /\ Event(e, n) \in Item /\ Event(e, n).type = "event"
         /\ Event(e, n).event = e /\ Event(e, n).n = n
BY DEF Event, Item

(* An operation on a connection leaves what is published alone, except for *)
(* the subscription that changes.                                          *)
LEMMA ConnTypeStep ==
  ASSUME TypeInv, NEW c \in Clients,
         \/ Connect(c) \/ Accepted(c) \/ NotAccepted(c) \/ Register(c) \/ Disconnect(c)
         \/ Sent(c) \/ SendFails(c)
         \/ \E i \in Invs : Subscribe(c, i) \/ Unsubscribe(c, i)
  PROVE  TypeInv'
<1> USE DEF TypeInv
<1>1. CASE Connect(c)
  <2>1. ConnTypeOK'  BY <1>1 DEF ConnTypeOK, Connect, ConnStates
  <2> QED  BY <2>1, <1>1 DEF Connect, QueueTypeOK, PubTypeOK, RestTypeOK, queueVars,
                             pubVars, tallies
<1>2. CASE Accepted(c)
  <2>1. ConnTypeOK'  BY <1>2 DEF ConnTypeOK, Accepted, ConnStates
  <2>2. QueueTypeOK'  BY <1>2 DEF QueueTypeOK, Accepted
  <2> QED  BY <2>1, <2>2, <1>2 DEF Accepted, PubTypeOK, RestTypeOK, pubVars, tallies
<1>3. CASE NotAccepted(c)
  <2>1. ConnTypeOK'  BY <1>3 DEF ConnTypeOK, NotAccepted, ConnStates
  <2> QED  BY <2>1, <1>3 DEF NotAccepted, QueueTypeOK, PubTypeOK, RestTypeOK, queueVars,
                             pubVars, tallies
<1>4. CASE Register(c)
  <2>1. CASE RouteOf[c] = Global
    <3>1. ConnTypeOK'  BY <1>4, <2>1 DEF ConnTypeOK, Register, ConnStates
    <3> QED  BY <3>1, <2>1, <1>4 DEF Register, QueueTypeOK, PubTypeOK, RestTypeOK,
                                     pubVars, tallies
  <2>2. CASE RouteOf[c] # Global
    <3>1. RouteOf[c] \in Access[c] /\ RouteOf[c] \in Invs
      BY <1>4, <2>2, HubAssumption DEF ConnTypeOK, Register
    <3>2. ConnTypeOK'  BY <1>4, <2>2, <3>1 DEF ConnTypeOK, Register, ConnStates
    <3>3. EnqueueAll({c}, Ack(RouteOf[c]))  BY <1>4, <2>2 DEF Register
    <3>4. queue' \in [Clients -> Seq(Item)] /\ dropped' \in [Clients -> SUBSET Events]
      BY <3>1, <3>3, AckType, EnqueueAllTable
    <3>5. QueueTypeOK'  BY <1>4, <3>4 DEF QueueTypeOK, Register
    <3> QED  BY <3>2, <3>5, <1>4 DEF Register, PubTypeOK, RestTypeOK, pubVars, tallies
  <2> QED  BY <2>1, <2>2
<1>5. CASE Disconnect(c)
  <2>1. ConnTypeOK'  BY <1>5 DEF ConnTypeOK, Disconnect, ConnStates
  <2>2. QueueTypeOK'  BY <1>5, EmptySeq DEF QueueTypeOK, Disconnect
  <2>3. RestTypeOK'  BY <1>5 DEF RestTypeOK, Disconnect
  <2> QED  BY <2>1, <2>2, <2>3, <1>5 DEF Disconnect, PubTypeOK, pubVars, tallies
<1>6. CASE Sent(c)
  <2>1. queue[c] \in Seq(Item) /\ received[c] \in Seq(Item) /\ queue[c] # << >>
    BY <1>6 DEF QueueTypeOK, Sent
  <2>2. Head(queue[c]) \in Item /\ Tail(queue[c]) \in Seq(Item)  BY <2>1, HeadTailProperties
  <2>3. Append(received[c], Head(queue[c])) \in Seq(Item)
    BY <2>1, <2>2, AppendProperties
  <2>4. QueueTypeOK'  BY <1>6, <2>2, <2>3 DEF QueueTypeOK, Sent
  <2> QED  BY <2>4, <1>6 DEF Sent, ConnTypeOK, PubTypeOK, RestTypeOK, connVars, pubVars,
                             tallies
<1>7. CASE SendFails(c)
  <2>1. queue[c] \in Seq(Item) /\ queue[c] # << >>  BY <1>7 DEF QueueTypeOK, SendFails
  <2>2. Tail(queue[c]) \in Seq(Item)  BY <2>1, HeadTailProperties
  <2>3. QueueTypeOK'  BY <1>7, <2>2 DEF QueueTypeOK, SendFails
  <2> QED  BY <2>3, <1>7 DEF SendFails, ConnTypeOK, PubTypeOK, RestTypeOK, connVars,
                             pubVars, tallies
<1>8. ASSUME NEW i \in Invs, Subscribe(c, i) \/ Unsubscribe(c, i)
      PROVE  TypeInv'
  <2>1. EnqueueAll({c}, Ack(i))  BY <1>8 DEF Subscribe, Unsubscribe
  <2>2. queue' \in [Clients -> Seq(Item)] /\ dropped' \in [Clients -> SUBSET Events]
    BY <2>1, AckType, EnqueueAllTable
  <2>3. QueueTypeOK'  BY <1>8, <2>2 DEF QueueTypeOK, Subscribe, Unsubscribe
  <2>4. ConnTypeOK'
    <3>1. CASE Subscribe(c, i)  BY <3>1 DEF ConnTypeOK, Subscribe
    <3>2. CASE Unsubscribe(c, i)  BY <3>2 DEF ConnTypeOK, Unsubscribe
    <3> QED  BY <1>8, <3>1, <3>2
  <2>5. RestTypeOK'
    <3>1. changes' \in Nat  BY <1>8 DEF RestTypeOK, Subscribe, Unsubscribe
    <3> QED  BY <3>1, <1>8 DEF RestTypeOK, Subscribe, Unsubscribe
  <2> QED
    BY <2>3, <2>4, <2>5, <1>8 DEF Subscribe, Unsubscribe, PubTypeOK, pubVars, tallies
<1> QED  BY <1>1, <1>2, <1>3, <1>4, <1>5, <1>6, <1>7, <1>8

(* A publication touches nothing but what is published. *)
LEMMA PublishTypeStep ==
  ASSUME TypeInv,
         \/ \E e \in Events : \/ Emit(e) \/ Publish(e) \/ PublishGlobal(e)
                              \/ PublishGlobalFails(e)
         \/ \E u \in Users : SendInapp(u)
         \/ ListenerSubscribes \/ ListenerCrashes \/ Stop
  PROVE  TypeInv'
<1> USE DEF TypeInv
<1>1. ASSUME NEW e \in Events, Emit(e) PROVE TypeInv'
  <2>1. Send(EventOf[e].inv, e)  BY <1>1 DEF Emit
  <2>2. wire' \in Seq(RightMessage)  BY <2>1, CopyType, SendType
  <2>3. PubTypeOK'  BY <1>1, <2>2 DEF PubTypeOK, PubStates, Emit, tallies
  <2>4. RestTypeOK'  BY <1>1 DEF RestTypeOK, Emit
  <2> QED  BY <2>3, <2>4, <1>1 DEF Emit, ConnTypeOK, QueueTypeOK, connVars, queueVars
<1>2. ASSUME NEW e \in Events, Publish(e) PROVE TypeInv'
  <2>1. wire' \in Seq(RightMessage)
    <3>1. Send(EventOf[e].inv, e) => wire' \in Seq(RightMessage)
      BY CopyType, SendType
    <3> QED  BY <3>1, <1>2 DEF Publish, PubTypeOK
  <2>2. pub' \in [Events -> PubStates]
    <3>1. pub \in [Events -> PubStates]  BY DEF PubTypeOK
    <3>2. [pub EXCEPT ![e] = "dropped"] \in [Events -> PubStates]  BY <3>1 DEF PubStates
    <3>3. [pub EXCEPT ![e] = "half"] \in [Events -> PubStates]  BY <3>1 DEF PubStates
    <3>4. RaiseAlert([pub EXCEPT ![e] = "dropped"], e) \in [Events -> PubStates]
      BY <3>2, RaiseAlertType
    <3>5. \/ pub' = RaiseAlert([pub EXCEPT ![e] = "dropped"], e)
          \/ pub' = [pub EXCEPT ![e] = "dropped"]
          \/ pub' = [pub EXCEPT ![e] = "half"]
      BY <1>2 DEF Publish
    <3> QED  BY <3>2, <3>3, <3>4, <3>5
  <2>3. PubTypeOK'  BY <1>2, <2>1, <2>2 DEF PubTypeOK, Publish, tallies
  <2>4. RestTypeOK'  BY <1>2 DEF RestTypeOK, Publish
  <2> QED  BY <2>3, <2>4, <1>2 DEF Publish, ConnTypeOK, QueueTypeOK, connVars, queueVars
<1>3. ASSUME NEW e \in Events, PublishGlobal(e) PROVE TypeInv'
  <2>1. Send(Global, e)  BY <1>3 DEF PublishGlobal
  <2>2. wire' \in Seq(RightMessage)  BY <2>1, CopyType, SendType
  <2>3. PubTypeOK'  BY <1>3, <2>2 DEF PubTypeOK, PubStates, PublishGlobal, tallies
  <2> QED  BY <2>3, <1>3 DEF PublishGlobal, ConnTypeOK, QueueTypeOK, RestTypeOK, connVars,
                             queueVars
<1>4. ASSUME NEW e \in Events, PublishGlobalFails(e) PROVE TypeInv'
  <2>1. PubTypeOK'  BY <1>4 DEF PubTypeOK, PubStates, PublishGlobalFails, tallies
  <2> QED  BY <2>1, <1>4 DEF PublishGlobalFails, ConnTypeOK, QueueTypeOK, RestTypeOK,
                             connVars, queueVars
<1>5. ASSUME NEW u \in Users, SendInapp(u) PROVE TypeInv'
  <2>1. [channel |-> "notification", of |-> u] \in RightMessage
    BY DEF RightMessage, Message
  <2>2. wire' \in Seq(RightMessage)  BY <1>5, <2>1, SendType DEF SendInapp
  <2>3. notifications' \in Nat  BY <1>5 DEF PubTypeOK, SendInapp
  <2>4. PubTypeOK'  BY <1>5, <2>2, <2>3 DEF PubTypeOK, SendInapp
  <2> QED  BY <2>4, <1>5 DEF SendInapp, ConnTypeOK, QueueTypeOK, RestTypeOK, connVars,
                             queueVars
<1>6. CASE ListenerCrashes \/ Stop
  <2>1. wire' \in Seq(RightMessage)  BY <1>6, EmptySeq DEF ListenerCrashes, Stop
  <2>2. PubTypeOK'  BY <1>6, <2>1 DEF PubTypeOK, ListenerCrashes, Stop, tallies
  <2>3. ConnTypeOK'  BY <1>6 DEF ConnTypeOK, ListenerCrashes, Stop, connVars
  <2> QED  BY <2>2, <2>3, <1>6 DEF ListenerCrashes, Stop, QueueTypeOK, RestTypeOK, queueVars
<1>7. CASE ListenerSubscribes
  <2>1. ConnTypeOK'  BY <1>7 DEF ConnTypeOK, ListenerSubscribes, connVars
  <2> QED  BY <2>1, <1>7 DEF ListenerSubscribes, QueueTypeOK, PubTypeOK, RestTypeOK,
                             queueVars, pubVars, tallies
<1> QED  BY <1>1, <1>2, <1>3, <1>4, <1>5, <1>6, <1>7

LEMMA DispatchTypeStep ==
  ASSUME TypeInv, Dispatch
  PROVE  TypeInv'
<1> USE DEF TypeInv
<1>1. wire # << >> /\ wire' = Tail(wire)
  BY DEF Dispatch, DispatchNotification, DispatchDrops, DispatchEvent, Listening
<1>2. wire' \in Seq(RightMessage)  BY <1>1, HeadTable
<1>3. dispatched' \in Nat /\ dispatched + 1 \in Nat  BY DEF Dispatch, PubTypeOK
<1>4. ConnTypeOK' /\ RestTypeOK'  BY DEF Dispatch, ConnTypeOK, RestTypeOK, connVars
<1>5. sender' = sender /\ received' = received /\ notifications' = notifications
  BY DEF Dispatch
<1> SUFFICES /\ queue' \in [Clients -> Seq(Item)]
             /\ dropped' \in [Clients -> SUBSET Events]
             /\ pub' \in [Events -> PubStates]
             /\ transcript' \in [Events -> Nat]
  BY <1>2, <1>3, <1>4, <1>5 DEF QueueTypeOK, PubTypeOK
<1>6. CASE DispatchNotification
  <2>1. Notification(Head(wire).of) \in Item
    BY <1>1, <1>6, HeadTable, NotificationType DEF DispatchNotification
  <2> QED  BY <1>6, <2>1, EnqueueAllTable DEF DispatchNotification, PubTypeOK
<1>7. CASE DispatchDrops
  BY <1>7, RaiseAlertType DEF DispatchDrops, PubTypeOK, QueueTypeOK
<1>8. CASE DispatchEvent
  <2> DEFINE e == Head(wire).of
  <2>1. e \in Events  BY <1>1, <1>8, HeadTable DEF DispatchEvent
  <2>2. Event(e, dispatched + 1) \in Item  BY <2>1, <1>3, EventItemType
  <2>3. EnqueueAll(Targets(e, Head(wire).channel), Event(e, dispatched + 1))
    BY <1>8 DEF DispatchEvent
  <2>4. queue' \in [Clients -> Seq(Item)] /\ dropped' \in [Clients -> SUBSET Events]
    BY <2>2, <2>3, EnqueueAllTable
  <2>5. transcript' \in [Events -> Nat]
    <3>1. transcript \in [Events -> Nat]  BY DEF PubTypeOK
    <3>2. transcript' = transcript \/ transcript' = [transcript EXCEPT ![e] = @ + 1]
      BY <1>8, <2>1, <3>1 DEF DispatchEvent
    <3> QED  BY <3>1, <3>2
  <2> QED  BY <2>4, <2>5, <1>8 DEF DispatchEvent, PubTypeOK
<1> QED  BY <1>6, <1>7, <1>8 DEF Dispatch

LEMMA TypeInvStep == TypeInv /\ [Next]_vars => TypeInv'
<1> SUFFICES ASSUME TypeInv, [Next]_vars PROVE TypeInv'  OBVIOUS
<1>1. CASE Next  BY <1>1, ConnTypeStep, PublishTypeStep, DispatchTypeStep DEF Next
<1>2. CASE UNCHANGED vars
  BY <1>2 DEF vars, connVars, queueVars, pubVars, tallies, TypeInv, ConnTypeOK, QueueTypeOK,
              PubTypeOK, RestTypeOK
<1> QED  BY <1>1, <1>2

LEMMA Typed == Spec => []TypeInv
BY TypeInvInit, TypeInvStep, PTL DEF Spec

(* Every variable of the hub keeps its type, for any sockets, events and   *)
(* failures.                                                               *)
THEOREM TypeCorrect == Spec => []TypeOK
BY Typed, TypeInvTypeOK, PTL

-----------------------------------------------------------------------------
(* Connections: connect holds the lock from its check of the limit to the  *)
(* registration, so that no two checks see the same room.                  *)

ConnInv ==
  /\ \A c \in Clients : conn[c] \in {"accepting", "refusing"} => lock = c
  /\ \A c \in Clients : conn[c] = "accepting" => UnderLimit(c)
  /\ \A u \in Users : IsFiniteSet(Registered(u)) /\ Cardinality(Registered(u)) <= MAX_PER_USER

LEMMA ConnInvInit == Init => ConnInv
<1> SUFFICES ASSUME Init PROVE ConnInv  OBVIOUS
<1>1. \A c \in Clients : conn[c] \in {"new", "gone"}  BY DEF Init
<1>2. \A u \in Users : Registered(u) = {}  BY <1>1 DEF Registered
<1>3. IsFiniteSet({}) /\ Cardinality({}) = 0 /\ 0 <= MAX_PER_USER
  BY FS_EmptySet, HubAssumption
<1> QED  BY <1>1, <1>2, <1>3 DEF ConnInv

(* A step that registers nobody and lets nobody else into a handshake.     *)
LEMMA ConnInvShrinks ==
  ASSUME TypeInv, ConnInv, conn' \in [Clients -> ConnStates],
         \A c \in Clients :
           conn'[c] \in {"accepted", "open"} => conn[c] \in {"accepted", "open"},
         \A c \in Clients : conn'[c] = "accepting" => UnderLimit(c),
         \A c \in Clients : conn'[c] \in {"accepting", "refusing"} => lock' = c
  PROVE  ConnInv'
<1>1. ASSUME NEW u \in Users
      PROVE  /\ IsFiniteSet(Registered(u)') /\ Cardinality(Registered(u)') \in Nat
             /\ Cardinality(Registered(u)') <= Cardinality(Registered(u))
             /\ Cardinality(Registered(u)) \in Nat
             /\ Cardinality(Registered(u)) <= MAX_PER_USER
  <2>1. Registered(u)' \in SUBSET Registered(u)  BY DEF Registered
  <2>2. IsFiniteSet(Registered(u)) /\ Cardinality(Registered(u)) <= MAX_PER_USER
    BY DEF ConnInv
  <2> QED  BY <2>1, <2>2, FS_Subset, FS_CardinalityType
<1>2. MAX_PER_USER \in Nat  BY HubAssumption
<1>3. \A u \in Users : /\ IsFiniteSet(Registered(u)')
                       /\ Cardinality(Registered(u)') <= MAX_PER_USER
  BY <1>1, <1>2
<1>4. ASSUME NEW c \in Clients, conn'[c] = "accepting" PROVE UnderLimit(c)'
  <2>1. UserOf[c] \in Users  BY DEF Users
  <2>2. Cardinality(Registered(UserOf[c])) < MAX_PER_USER  BY <1>4 DEF UnderLimit
  <2>3. Cardinality(Registered(UserOf[c])') < MAX_PER_USER  BY <1>1, <1>2, <2>1, <2>2
  <2> QED  BY <2>3 DEF UnderLimit
<1> QED  BY <1>3, <1>4 DEF ConnInv

LEMMA ConnInvStep == TypeInv /\ ConnInv /\ [Next]_vars => ConnInv'
<1> SUFFICES ASSUME TypeInv, ConnInv, [Next]_vars PROVE ConnInv'  OBVIOUS
<1>1. conn \in [Clients -> ConnStates] /\ lock \in Clients \cup {None} /\ None \notin Clients
  BY HubAssumption DEF TypeInv, ConnTypeOK
<1>2. conn' \in [Clients -> ConnStates]  BY TypeInvStep DEF TypeInv, ConnTypeOK
<1>3. CASE conn' = conn /\ lock' = lock
  BY <1>1, <1>3, ConnInvShrinks DEF ConnInv
<1>4. ASSUME NEW c \in Clients, Connect(c) PROVE ConnInv'
  <2>1. lock = None /\ lock' = c
    /\ conn' = [conn EXCEPT ![c] = IF UnderLimit(c) THEN "accepting" ELSE "refusing"]
    BY <1>4 DEF Connect
  <2>2. \A d \in Clients : conn[d] \notin {"accepting", "refusing"}
    BY <2>1, <1>1 DEF ConnInv
  <2>3. \A d \in Clients : conn'[d] \in {"accepting", "refusing"} => d = c
    BY <2>1, <2>2, <1>1
  <2>4. conn'[c] = "accepting" => UnderLimit(c)  BY <2>1, <1>1
  <2>5. \A d \in Clients :
          conn'[d] \in {"accepted", "open"} => conn[d] \in {"accepted", "open"}
    BY <2>1, <1>1
  <2> QED  BY <2>1, <2>3, <2>4, <2>5, <1>2, ConnInvShrinks
<1>5. ASSUME NEW c \in Clients, Accepted(c) PROVE ConnInv'
  <2>1. conn[c] = "accepting" /\ lock' = None /\ conn' = [conn EXCEPT ![c] = "accepted"]
    BY <1>5 DEF Accepted
  <2>2. \A d \in Clients : d # c => conn[d] \notin {"accepting", "refusing"}
    BY <2>1 DEF ConnInv
  <2>3. \A d \in Clients : conn'[d] \notin {"accepting", "refusing"}  BY <2>1, <2>2, <1>1
  <2>4. ASSUME NEW u \in Users
        PROVE  IsFiniteSet(Registered(u)') /\ Cardinality(Registered(u)') <= MAX_PER_USER
    <3>1. IsFiniteSet(Registered(u)) /\ Cardinality(Registered(u)) <= MAX_PER_USER
      BY DEF ConnInv
    <3>2. CASE u = UserOf[c]
      <4>1. Registered(u)' = Registered(u) \cup {c}  BY <2>1, <1>1, <3>2 DEF Registered
      <4>2. c \notin Registered(u)  BY <2>1 DEF Registered
      <4>3. Cardinality(Registered(u)) < MAX_PER_USER
        BY <2>1, <3>2 DEF ConnInv, UnderLimit
      <4>4. /\ IsFiniteSet(Registered(u) \cup {c})
            /\ Cardinality(Registered(u) \cup {c}) = Cardinality(Registered(u)) + 1
        BY <3>1, <4>2, FS_AddElement
      <4>5. Cardinality(Registered(u)) \in Nat /\ MAX_PER_USER \in Nat
        BY <3>1, FS_CardinalityType, HubAssumption
      <4> QED  BY <4>1, <4>3, <4>4, <4>5
    <3>3. CASE u # UserOf[c]
      <4>1. Registered(u)' = Registered(u)  BY <2>1, <1>1, <3>3 DEF Registered
      <4> QED  BY <3>1, <4>1
    <3> QED  BY <3>2, <3>3
  <2> QED  BY <2>3, <2>4 DEF ConnInv
<1>6. ASSUME NEW c \in Clients, NotAccepted(c) PROVE ConnInv'
  <2>1. conn[c] \in {"accepting", "refusing"} /\ conn' = [conn EXCEPT ![c] = "gone"]
    BY <1>6 DEF NotAccepted
  <2>2. \A d \in Clients : conn'[d] \notin {"accepting", "refusing"}
    BY <2>1, <1>1 DEF ConnInv
  <2>3. \A d \in Clients :
          conn'[d] \in {"accepted", "open"} => conn[d] \in {"accepted", "open"}
    BY <2>1, <1>1
  <2> QED  BY <2>2, <2>3, <1>2, ConnInvShrinks
<1>7. ASSUME NEW c \in Clients, Register(c) \/ Disconnect(c) PROVE ConnInv'
  <2>1. /\ lock' = lock /\ conn[c] \in {"accepted", "open"}
        /\ conn' = [conn EXCEPT ![c] = "open"] \/ conn' = [conn EXCEPT ![c] = "gone"]
    BY <1>7 DEF Register, Disconnect
  <2>2. \A d \in Clients : /\ conn'[d] \in {"accepting", "refusing"} => conn[d] = conn'[d]
                           /\ conn'[d] \in {"accepted", "open"}
                                => conn[d] \in {"accepted", "open"}
    BY <2>1, <1>1
  <2>3. \A d \in Clients : conn'[d] \in {"accepting", "refusing"} => lock' = d
    BY <2>1, <2>2 DEF ConnInv
  <2>4. \A d \in Clients : conn'[d] = "accepting" => UnderLimit(d)
    BY <2>2 DEF ConnInv
  <2> QED  BY <2>2, <2>3, <2>4, <1>2, ConnInvShrinks
<1>8. ASSUME NEW c \in Clients, NEW i \in Invs,
             Sent(c) \/ SendFails(c) \/ Subscribe(c, i) \/ Unsubscribe(c, i)
      PROVE  conn' = conn /\ lock' = lock
  BY <1>8 DEF Sent, SendFails, Subscribe, Unsubscribe, connVars
<1>9. ASSUME NEW c \in Clients, Sent(c) \/ SendFails(c)
      PROVE  conn' = conn /\ lock' = lock
  BY <1>9 DEF Sent, SendFails, connVars
<1>10. ASSUME NEW e \in Events,
              Emit(e) \/ Publish(e) \/ PublishGlobal(e) \/ PublishGlobalFails(e)
       PROVE  conn' = conn /\ lock' = lock
  BY <1>10 DEF Emit, Publish, PublishGlobal, PublishGlobalFails, connVars
<1>11. ASSUME NEW u \in Users, SendInapp(u) PROVE conn' = conn /\ lock' = lock
  BY <1>11 DEF SendInapp, connVars
<1>12. ASSUME Dispatch \/ ListenerSubscribes \/ ListenerCrashes \/ Stop \/ UNCHANGED vars
       PROVE  conn' = conn /\ lock' = lock
  BY <1>12 DEF Dispatch, ListenerSubscribes, ListenerCrashes, Stop, vars, connVars
<1> QED
  BY <1>3, <1>4, <1>5, <1>6, <1>7, <1>8, <1>9, <1>10, <1>11, <1>12 DEF Next

(* No user has more registered sockets than the limit, however many        *)
(* handshakes are under way at once: the check and the registration are    *)
(* one critical section.                                                   *)
THEOREM WithinLimit == Spec => []ConnectionLimit
<1>1. (TypeInv /\ ConnInv) /\ [Next]_vars => (TypeInv /\ ConnInv)'
  BY TypeInvStep, ConnInvStep
<1>2. ConnInv => ConnectionLimit  BY DEF ConnInv, ConnectionLimit
<1> QED  BY TypeInvInit, ConnInvInit, <1>1, <1>2, PTL DEF Spec

-----------------------------------------------------------------------------
(* What one step may do to the queue of a client, and to what it was sent. *)

Untouched(c) == queue'[c] = queue[c] /\ received'[c] = received[c] /\ dropped'[c] = dropped[c]

(* The event at the head of the wire is dispatched, and c is a target. *)
Delivers(c) ==
  /\ wire # << >> /\ Head(wire).channel # "notification"
  /\ c \in Targets(Head(wire).of, Head(wire).channel)
  /\ dispatched' = dispatched + 1

Dispatches(c, x) == Delivers(c) /\ x = Event(Head(wire).of, dispatched + 1)

Queued(c, x) ==
  /\ queue'[c] = Enqueue(queue[c], x)
  /\ received'[c] = received[c]
  /\ dropped'[c] = dropped[c] \cup (EventsIn(Append(queue[c], x)) \ EventsIn(queue'[c]))
  /\ x.type # "event" \/ Dispatches(c, x)

Taken(c) ==
  /\ queue[c] # << >> /\ queue'[c] = Tail(queue[c]) /\ dropped'[c] = dropped[c]
  /\ \/ received'[c] = Append(received[c], Head(queue[c]))
     \/ /\ received'[c] = received[c]
        /\ Head(queue[c]).type # "event" \/ sender'[c] = "ended"

Cleared(c) ==
  queue'[c] = << >> /\ received'[c] = << >> /\ dropped'[c] = {} /\ due'[c] = {}

ClientMove(c) ==
  Untouched(c) \/ (\E x \in Item : Queued(c, x)) \/ Taken(c) \/ Cleared(c)

LEMMA AckMove ==
  ASSUME TypeInv, NEW c \in Clients, NEW i \in Invs, EnqueueAll({c}, Ack(i)),
         received' = received
  PROVE  \A d \in Clients : ClientMove(d)
<1> SUFFICES ASSUME NEW d \in Clients PROVE ClientMove(d)  OBVIOUS
<1>1. Ack(i) \in Item /\ Ack(i).type # "event" /\ QueueTypeOK  BY AckType DEF TypeInv
<1>2. CASE d = c
  <2>1. Queued(d, Ack(i))  BY <1>1, <1>2, EnqueueAllTable DEF Queued
  <2> QED  BY <1>1, <2>1 DEF ClientMove
<1>3. CASE d # c
  <2>1. d \notin {c}  BY <1>3
  <2> QED  BY <1>1, <2>1, EnqueueAllTable DEF ClientMove, Untouched
<1> QED  BY <1>2, <1>3

LEMMA DispatchMove ==
  ASSUME TypeInv, Dispatch
  PROVE  \A d \in Clients : ClientMove(d)
<1>1. wire # << >> /\ received' = received /\ dispatched' = dispatched + 1
  BY DEF Dispatch, DispatchNotification, DispatchDrops, DispatchEvent, Listening
<1>2. QueueTypeOK /\ dispatched + 1 \in Nat  BY DEF TypeInv, PubTypeOK
<1>3. CASE DispatchNotification
  <2> DEFINE u == Head(wire).of
  <2>1. Head(wire).channel = "notification" /\ EnqueueAll(Registered(u), Notification(u))
    BY <1>3 DEF DispatchNotification
  <2>2. Notification(u) \in Item /\ Notification(u).type # "event"
    BY <1>1, <2>1, HeadTable, NotificationType
  <2> HIDE DEF u
  <2> SUFFICES ASSUME NEW d \in Clients PROVE ClientMove(d)  OBVIOUS
  <2>3. CASE d \in Registered(u)
    <3>1. Queued(d, Notification(u))
      BY <1>1, <1>2, <2>1, <2>2, <2>3, EnqueueAllTable DEF Queued
    <3> QED  BY <2>2, <3>1 DEF ClientMove
  <2>4. CASE d \notin Registered(u)
    BY <1>1, <1>2, <2>1, <2>2, <2>4, EnqueueAllTable DEF ClientMove, Untouched
  <2> QED  BY <2>3, <2>4
<1>4. CASE DispatchDrops
  BY <1>1, <1>4 DEF DispatchDrops, ClientMove, Untouched
<1>5. CASE DispatchEvent
  <2> DEFINE x == Event(Head(wire).of, dispatched + 1)
             T == Targets(Head(wire).of, Head(wire).channel)
  <2>1. Head(wire).channel # "notification" /\ EnqueueAll(T, x)  BY <1>5 DEF DispatchEvent
  <2>2. x \in Item  BY <1>1, <1>2, <2>1, HeadTable, EventItemType
  <2>3. \A d \in Clients : d \in T => Dispatches(d, x)
    BY <1>1, <2>1 DEF Dispatches, Delivers
  <2> HIDE DEF x, T
  <2> SUFFICES ASSUME NEW d \in Clients PROVE ClientMove(d)  OBVIOUS
  <2>4. CASE d \in T
    <3>1. Queued(d, x)  BY <1>1, <1>2, <2>1, <2>2, <2>3, <2>4, EnqueueAllTable DEF Queued
    <3> QED  BY <2>2, <3>1 DEF ClientMove
  <2>5. CASE d \notin T
    BY <1>1, <1>2, <2>1, <2>2, <2>5, EnqueueAllTable DEF ClientMove, Untouched
  <2> QED  BY <2>4, <2>5
<1> QED  BY <1>3, <1>4, <1>5 DEF Dispatch

LEMMA ClientTable ==
  ASSUME TypeInv, [Next]_vars
  PROVE  /\ \A d \in Clients : ClientMove(d)
         /\ dispatched' \in {dispatched, dispatched + 1}
<1>1. QueueTypeOK /\ RestTypeOK  BY DEF TypeInv
<1>2. CASE UNCHANGED <<queue, received, dropped>> /\ dispatched' = dispatched
  BY <1>2 DEF ClientMove, Untouched
<1>3. ASSUME NEW c \in Clients, Register(c)
      PROVE  (\A d \in Clients : ClientMove(d)) /\ dispatched' = dispatched
  <2>1. received' = received /\ dispatched' = dispatched
    BY <1>3 DEF Register, pubVars, tallies
  <2>2. CASE RouteOf[c] = Global
    BY <1>3, <2>1, <2>2 DEF Register, ClientMove, Untouched
  <2>3. CASE RouteOf[c] # Global
    <3>1. RouteOf[c] \in Invs  BY <2>3, HubAssumption DEF Channels
    <3> QED  BY <1>3, <2>1, <2>3, <3>1, AckMove DEF Register
  <2> QED  BY <2>2, <2>3
<1>4. ASSUME NEW c \in Clients, NEW i \in Invs, Subscribe(c, i) \/ Unsubscribe(c, i)
      PROVE  (\A d \in Clients : ClientMove(d)) /\ dispatched' = dispatched
  <2>1. received' = received /\ dispatched' = dispatched /\ EnqueueAll({c}, Ack(i))
    BY <1>4 DEF Subscribe, Unsubscribe, pubVars, tallies
  <2> QED  BY <2>1, AckMove
<1>5. ASSUME NEW c \in Clients, Disconnect(c)
      PROVE  (\A d \in Clients : ClientMove(d)) /\ dispatched' = dispatched
  <2>1. dispatched' = dispatched  BY <1>5 DEF Disconnect, pubVars, tallies
  <2>2. Cleared(c)  BY <1>1, <1>5 DEF Disconnect, QueueTypeOK, RestTypeOK, Cleared
  <2>3. \A d \in Clients : d # c => Untouched(d)
    BY <1>1, <1>5 DEF Disconnect, QueueTypeOK, Untouched
  <2> QED  BY <2>1, <2>2, <2>3 DEF ClientMove
<1>6. ASSUME NEW c \in Clients, Sent(c) \/ SendFails(c)
      PROVE  (\A d \in Clients : ClientMove(d)) /\ dispatched' = dispatched
  <2>1. dispatched' = dispatched  BY <1>6 DEF Sent, SendFails, pubVars, tallies
  <2>2. Taken(c)  BY <1>1, <1>6 DEF Sent, SendFails, QueueTypeOK, Taken
  <2>3. \A d \in Clients : d # c => Untouched(d)
    BY <1>1, <1>6 DEF Sent, SendFails, QueueTypeOK, Untouched
  <2> QED  BY <2>1, <2>2, <2>3 DEF ClientMove
<1>7. ASSUME NEW c \in Clients, Connect(c) \/ Accepted(c) \/ NotAccepted(c)
      PROVE  UNCHANGED <<queue, received, dropped>> /\ dispatched' = dispatched
  BY <1>7 DEF Connect, Accepted, NotAccepted, queueVars, pubVars, tallies
<1>8. ASSUME NEW e \in Events,
             Emit(e) \/ Publish(e) \/ PublishGlobal(e) \/ PublishGlobalFails(e)
      PROVE  UNCHANGED <<queue, received, dropped>> /\ dispatched' = dispatched
  BY <1>8 DEF Emit, Publish, PublishGlobal, PublishGlobalFails, queueVars, tallies
<1>9. ASSUME NEW u \in Users, SendInapp(u)
      PROVE  UNCHANGED <<queue, received, dropped>> /\ dispatched' = dispatched
  BY <1>9 DEF SendInapp, queueVars
<1>10. ASSUME ListenerSubscribes \/ ListenerCrashes \/ Stop \/ UNCHANGED vars
       PROVE  UNCHANGED <<queue, received, dropped>> /\ dispatched' = dispatched
  BY <1>10 DEF ListenerSubscribes, ListenerCrashes, Stop, vars, pubVars, queueVars, tallies
<1>11. CASE Dispatch
  BY <1>11, DispatchMove DEF Dispatch
<1> QED
  BY <1>2, <1>3, <1>4, <1>5, <1>6, <1>7, <1>8, <1>9, <1>10, <1>11 DEF Next

(* A queue never outgrows its bound, whoever fills it and however slowly   *)
(* it is read: put_nowait never raises inside the listener that serves     *)
(* everybody.                                                              *)
THEOREM QueuesBounded == Spec => []QueueBound
<1>1. Init => QueueBound
  <2> SUFFICES ASSUME Init PROVE QueueBound  OBVIOUS
  <2>1. \A c \in Clients : Len(queue[c]) = 0  BY EmptySeq DEF Init
  <2> QED  BY <2>1, HubAssumption DEF QueueBound
<1>2. TypeInv /\ QueueBound /\ [Next]_vars => QueueBound'
  <2> SUFFICES ASSUME TypeInv, QueueBound, [Next]_vars, NEW c \in Clients
               PROVE  Len(queue'[c]) <= LIMIT
    BY DEF QueueBound
  <2>1. ClientMove(c)  BY ClientTable
  <2>2. queue[c] \in Seq(Item) /\ Len(queue[c]) <= LIMIT
    BY DEF TypeInv, QueueTypeOK, QueueBound
  <2>3. CASE Untouched(c)  BY <2>2, <2>3 DEF Untouched
  <2>4. ASSUME NEW x \in Item, Queued(c, x) PROVE Len(queue'[c]) <= LIMIT
    BY <2>2, <2>4, EnqueueFits DEF Queued
  <2>5. CASE Taken(c)
    <3>1. Len(Tail(queue[c])) = Len(queue[c]) - 1 /\ queue'[c] = Tail(queue[c])
      BY <2>2, <2>5, HeadTailProperties DEF Taken
    <3>2. Len(queue[c]) \in Nat /\ LIMIT \in Nat  BY <2>2, LenProperties, HubAssumption
    <3> QED  BY <3>1, <3>2, <2>2
  <2>6. CASE Cleared(c)  BY <2>6, EmptySeq, HubAssumption DEF Cleared
  <2> QED  BY <2>1, <2>3, <2>4, <2>5, <2>6 DEF ClientMove
<1>3. (TypeInv /\ QueueBound) /\ [Next]_vars => (TypeInv /\ QueueBound)'
  BY <1>2, TypeInvStep
<1> QED  BY TypeInvInit, <1>1, <1>3, PTL DEF Spec

-----------------------------------------------------------------------------
(* What a client was sent and is to be sent, followed through a step: it   *)
(* loses something, or has one item more behind it.                        *)

LEMMA StreamType ==
  ASSUME TypeInv, NEW c \in Clients
  PROVE  queue[c] \in Seq(Item) /\ received[c] \in Seq(Item) /\ Stream(c) \in Seq(Item)
<1>1. queue[c] \in Seq(Item) /\ received[c] \in Seq(Item)  BY DEF TypeInv, QueueTypeOK
<1> QED  BY <1>1, ConcatProperties DEF Stream

(* Taking the head of the queue and sending it leaves the stream as it is. *)
LEMMA HeadMoves ==
  ASSUME NEW r \in Seq(Item), NEW q \in Seq(Item), q # << >>
  PROVE  Append(r, Head(q)) \o Tail(q) = r \o q
<1> DEFINE h == << Head(q) >>
           t == Tail(q)
<1>1. Head(q) \in Item /\ t \in Seq(Item)  BY HeadTailProperties
<1>2. h \in Seq(Item)  BY <1>1
<1>3. h \o t = q
  <2>1. Len(q) \in Nat /\ 1 \in 1..Len(q) /\ Len(q) \in 1..Len(q)
    BY LenProperties, EmptySeq
  <2>2. SubSeq(q, 1, Len(q)) = << q[1] >> \o SubSeq(q, 1 + 1, Len(q))
    BY <2>1, SubSeqRecursiveFirst
  <2>3. SubSeq(q, 1, Len(q)) = q  BY SubSeqFull
  <2>4. t = SubSeq(q, 2, Len(q))  BY TailIsSubSeq
  <2>5. Head(q) = q[1] /\ 1 + 1 = 2  OBVIOUS
  <2> QED  BY <2>2, <2>3, <2>4, <2>5
<1>4. Append(r, Head(q)) = r \o h  BY <1>1, AppendIsConcat
<1> HIDE DEF h, t
<1>5. (r \o h) \o t = r \o (h \o t)  BY <1>1, <1>2, ConcatAssociative
<1>6. (r \o h) \o t = r \o q  BY <1>3, <1>5
<1> QED  BY <1>4, <1>6 DEF t

LEMMA StreamTable ==
  ASSUME TypeInv, [Next]_vars, NEW c \in Clients
  PROVE  \/ Subsequence(Stream(c)', Stream(c))
         \/ \E x \in Item : /\ x.type # "event" \/ Dispatches(c, x)
                            /\ Subsequence(Stream(c)', Append(Stream(c), x))
<1> DEFINE q == queue[c]
           r == received[c]
<1>1. q \in Seq(Item) /\ r \in Seq(Item) /\ Stream(c) = r \o q /\ r \o q \in Seq(Item)
  BY StreamType DEF Stream
<1>2. Stream(c)' = received'[c] \o queue'[c]  BY DEF Stream
<1>3. CASE Untouched(c)
  <2>1. Stream(c)' = Stream(c)  BY <1>1, <1>2, <1>3 DEF Untouched
  <2> QED  BY <2>1, <1>1, SubsequenceRefl
<1>4. ASSUME NEW x \in Item, Queued(c, x)
      PROVE  Subsequence(Stream(c)', Append(Stream(c), x))
  <2> HIDE DEF q, r
  <2>1. Enqueue(q, x) \in Seq(Item) /\ Append(q, x) \in Seq(Item)
        /\ Subsequence(Enqueue(q, x), Append(q, x))
    BY <1>1, EnqueueFits, AppendProperties
  <2>2. Subsequence(r \o Enqueue(q, x), r \o Append(q, x))
    BY <1>1, <2>1, SubsequenceBehind
  <2>3. r \o Append(q, x) = Append(r \o q, x)
    <3>1. << x >> \in Seq(Item)  OBVIOUS
    <3>2. Append(q, x) = q \o << x >> /\ Append(r \o q, x) = (r \o q) \o << x >>
      BY <1>1, AppendIsConcat
    <3> QED  BY <1>1, <3>1, <3>2, ConcatAssociative
  <2>4. Stream(c)' = r \o Enqueue(q, x)  BY <1>2, <1>4 DEF Queued, q, r
  <2> QED  BY <2>2, <2>3, <2>4, <1>1
<1>5. CASE Taken(c)
  <2>1. q # << >> /\ queue'[c] = Tail(q)
        /\ received'[c] \in {r, Append(r, Head(q))}
    BY <1>5 DEF Taken
  <2> HIDE DEF q, r
  <2>2. Head(q) \in Item /\ Tail(q) \in Seq(Item) /\ Subsequence(Tail(q), q)
    BY <1>1, <2>1, HeadTailProperties, TailEmbeds
  <2>3. CASE received'[c] = r
    BY <1>1, <1>2, <2>1, <2>2, <2>3, SubsequenceBehind
  <2>4. CASE received'[c] = Append(r, Head(q))
    <3>1. Append(r, Head(q)) \o Tail(q) = r \o q  BY <1>1, <2>1, HeadMoves
    <3>2. Stream(c)' = Stream(c)  BY <1>1, <1>2, <2>1, <2>4, <3>1
    <3> QED  BY <3>2, <1>1, SubsequenceRefl
  <2> QED  BY <2>1, <2>3, <2>4
<1>6. CASE Cleared(c)
  <2>1. << >> \o << >> = << >>  OBVIOUS
  <2>2. Stream(c)' = << >>  BY <1>2, <1>6, <2>1 DEF Cleared
  <2> QED  BY <2>2, <1>1, NoItemEmbeds
<1>7. ClientMove(c)  BY ClientTable
<1>8. \A x \in Item : Queued(c, x) => x.type # "event" \/ Dispatches(c, x)  BY DEF Queued
<1> HIDE DEF q, r
<1> QED  BY <1>3, <1>4, <1>5, <1>6, <1>7, <1>8 DEF ClientMove

-----------------------------------------------------------------------------
(* Order. InOrder is not inductive: a new event is the last one because    *)
(* every earlier one bears the number of an earlier dispatch.              *)

OrderedUpTo(s, n) ==
  /\ \A j, k \in 1..Len(s) :
       (j < k /\ s[j].type = "event" /\ s[k].type = "event") => s[j].n < s[k].n
  /\ \A k \in 1..Len(s) : s[k].type = "event" => s[k].n <= n

OrderInv == \A c \in Clients : OrderedUpTo(Stream(c), dispatched)

LEMMA OrderedPart ==
  ASSUME NEW r \in Seq(Item), NEW s \in Seq(Item), Subsequence(r, s), NEW n, OrderedUpTo(s, n)
  PROVE  OrderedUpTo(r, n)
<1>1. PICK f \in [1..Len(r) -> 1..Len(s)] : Embeds(f, r, s)  BY DEF Subsequence
<1>2. ASSUME NEW j \in 1..Len(r), NEW k \in 1..Len(r), j < k,
             r[j].type = "event", r[k].type = "event"
      PROVE  r[j].n < r[k].n
  <2>1. f[j] \in 1..Len(s) /\ f[k] \in 1..Len(s) /\ f[j] < f[k]  BY <1>1, <1>2 DEF Embeds
  <2>2. r[j] = s[f[j]] /\ r[k] = s[f[k]]  BY <1>1 DEF Embeds
  <2> QED  BY <2>1, <2>2, <1>2 DEF OrderedUpTo
<1>3. ASSUME NEW k \in 1..Len(r), r[k].type = "event" PROVE r[k].n <= n
  BY <1>1, <1>3 DEF Embeds, OrderedUpTo
<1> QED  BY <1>2, <1>3 DEF OrderedUpTo

LEMMA OrderedLater ==
  ASSUME NEW s \in Seq(Item), NEW n \in Nat, OrderedUpTo(s, n)
  PROVE  OrderedUpTo(s, n + 1)
<1>1. ASSUME NEW k \in 1..Len(s), s[k].type = "event" PROVE s[k].n <= n + 1
  <2>1. s[k].n \in Nat  BY <1>1, ElementOfSeq, ItemTable
  <2>2. s[k].n <= n  BY <1>1 DEF OrderedUpTo
  <2> QED  BY <2>1, <2>2
<1> QED  BY <1>1 DEF OrderedUpTo

LEMMA OrderedAppend ==
  ASSUME NEW s \in Seq(Item), NEW n \in Nat, OrderedUpTo(s, n), NEW x \in Item,
         NEW m \in {n, n + 1}, x.type = "event" => x.n = n + 1 /\ m = n + 1
  PROVE  OrderedUpTo(Append(s, x), m)
<1> DEFINE t == Append(s, x)
<1>1. /\ Len(t) = Len(s) + 1 /\ t[Len(s) + 1] = x
      /\ \A i \in 1..Len(s) : t[i] = s[i]
  BY AppendProperties
<1>2. Len(s) \in Nat  BY LenProperties
<1>3. \A k \in 1..Len(s) : s[k].type = "event" => s[k].n \in Nat
  BY ElementOfSeq, ItemTable
<1> HIDE DEF t
<1>4. \A k \in 1..Len(t) : k = Len(s) + 1 \/ k \in 1..Len(s)  BY <1>1, <1>2
<1>5. ASSUME NEW j \in 1..Len(t), NEW k \in 1..Len(t), j < k,
             t[j].type = "event", t[k].type = "event"
      PROVE  t[j].n < t[k].n
  <2>1. j \in 1..Len(s)  BY <1>1, <1>2, <1>5
  <2>2. t[j] = s[j] /\ s[j].n \in Nat /\ s[j].n <= n  BY <2>1, <1>1, <1>3, <1>5 DEF OrderedUpTo
  <2>3. CASE k = Len(s) + 1
    <3>1. t[k].n = n + 1  BY <2>3, <1>1, <1>5
    <3> QED  BY <3>1, <2>2
  <2>4. CASE k \in 1..Len(s)  BY <2>1, <2>4, <1>1, <1>5 DEF OrderedUpTo
  <2> QED  BY <2>3, <2>4, <1>4
<1>6. ASSUME NEW k \in 1..Len(t), t[k].type = "event" PROVE t[k].n <= m
  <2>1. CASE k = Len(s) + 1
    <3>1. t[k].n = n + 1 /\ m = n + 1  BY <2>1, <1>1, <1>6
    <3> QED  BY <3>1
  <2>2. CASE k \in 1..Len(s)
    <3>1. t[k].n \in Nat /\ t[k].n <= n  BY <2>2, <1>1, <1>3, <1>6 DEF OrderedUpTo
    <3> QED  BY <3>1
  <2> QED  BY <2>1, <2>2, <1>4
<1> QED  BY <1>5, <1>6 DEF OrderedUpTo, t

LEMMA OrderInvStep == TypeInv /\ OrderInv /\ [Next]_vars => OrderInv'
<1> SUFFICES ASSUME TypeInv, OrderInv, [Next]_vars, NEW c \in Clients
             PROVE  OrderedUpTo(Stream(c)', dispatched')
  BY DEF OrderInv
<1> DEFINE s == Stream(c)
<1>1. s \in Seq(Item) /\ OrderedUpTo(s, dispatched) /\ dispatched \in Nat
  BY StreamType DEF OrderInv, TypeInv, PubTypeOK
<1>2. Stream(c)' \in Seq(Item)
  <2>1. TypeInv'  BY TypeInvStep
  <2>2. queue'[c] \in Seq(Item) /\ received'[c] \in Seq(Item)
    BY <2>1 DEF TypeInv, QueueTypeOK
  <2> QED  BY <2>2, ConcatProperties DEF Stream
<1>3. dispatched' \in {dispatched, dispatched + 1}  BY ClientTable
<1>4. CASE Subsequence(Stream(c)', s)
  <2>1. OrderedUpTo(Stream(c)', dispatched)  BY <1>1, <1>2, <1>4, OrderedPart
  <2> QED  BY <2>1, <1>1, <1>2, <1>3, OrderedLater
<1>5. ASSUME NEW x \in Item, x.type # "event" \/ Dispatches(c, x),
             Subsequence(Stream(c)', Append(s, x))
      PROVE  OrderedUpTo(Stream(c)', dispatched')
  <2>1. x.type = "event" => x.n = dispatched + 1 /\ dispatched' = dispatched + 1
    BY <1>5 DEF Dispatches, Delivers, Event
  <2>2. OrderedUpTo(Append(s, x), dispatched')  BY <1>1, <1>3, <2>1, OrderedAppend
  <2>3. Append(s, x) \in Seq(Item)  BY <1>1, AppendProperties
  <2> QED  BY <1>2, <1>5, <2>2, <2>3, OrderedPart
<1> QED  BY <1>4, <1>5, StreamTable

(* A client sees events in the order of their dispatch, through every      *)
(* overflow, drain and refill of its queue.                                *)
THEOREM Ordered == Spec => []InOrder
<1>1. Init => OrderInv
  <2> SUFFICES ASSUME Init, NEW c \in Clients PROVE OrderedUpTo(Stream(c), dispatched)
    BY DEF OrderInv
  <2>1. << >> \o << >> = << >>  OBVIOUS
  <2>2. Stream(c) = << >> /\ Len(Stream(c)) = 0  BY <2>1, EmptySeq DEF Init, Stream
  <2>3. 1..0 = {}  OBVIOUS
  <2> QED  BY <2>2, <2>3 DEF OrderedUpTo
<1>2. (TypeInv /\ OrderInv) /\ [Next]_vars => (TypeInv /\ OrderInv)'
  BY TypeInvStep, OrderInvStep
<1>3. TypeInv /\ OrderInv => InOrder
  <2> SUFFICES ASSUME TypeInv, OrderInv, NEW c \in Clients,
                      NEW j \in DOMAIN Stream(c), NEW k \in DOMAIN Stream(c), j < k,
                      Stream(c)[j].type = "event", Stream(c)[k].type = "event"
               PROVE  Stream(c)[j].n < Stream(c)[k].n
    BY DEF InOrder
  <2>1. DOMAIN Stream(c) = 1..Len(Stream(c))  BY StreamType, LenProperties
  <2>2. OrderedUpTo(Stream(c), dispatched)  BY DEF OrderInv
  <2> QED  BY <2>1, <2>2 DEF OrderedUpTo
<1> QED  BY TypeInvInit, <1>1, <1>2, <1>3, PTL DEF Spec

-----------------------------------------------------------------------------
(* Tenants. *)

Permitted(c, e) ==
  OrgOf[c] # None =>
    \/ EventOf[e].org = OrgOf[c]
    \/ EventOf[e].org = None /\ EventOf[e].inv \in Access[c]

LEMMA PartEvents ==
  ASSUME NEW r \in Seq(Item), NEW s \in Seq(Item), Subsequence(r, s)
  PROVE  EventsIn(r) \subseteq EventsIn(s)
<1>1. DOMAIN r = 1..Len(r) /\ DOMAIN s = 1..Len(s)  BY LenProperties
<1>2. PICK f \in [1..Len(r) -> 1..Len(s)] : Embeds(f, r, s)  BY DEF Subsequence
<1> SUFFICES ASSUME NEW k \in 1..Len(r), r[k].type = "event"
             PROVE  \E i \in 1..Len(s) : s[i].type = "event" /\ s[i].event = r[k].event
  BY <1>1 DEF EventsIn
<1>3. f[k] \in 1..Len(s) /\ r[k] = s[f[k]]  BY <1>2 DEF Embeds
<1> QED  BY <1>3

LEMMA AppendEvents ==
  ASSUME NEW s \in Seq(Item), NEW x \in Item, NEW e \in EventsIn(Append(s, x))
  PROVE  e \in EventsIn(s) \/ (x.type = "event" /\ e = x.event)
<1> DEFINE t == Append(s, x)
<1>1. /\ t \in Seq(Item) /\ Len(t) = Len(s) + 1 /\ t[Len(s) + 1] = x
      /\ \A i \in 1..Len(s) : t[i] = s[i]
  BY AppendProperties
<1>2. Len(s) \in Nat /\ DOMAIN s = 1..Len(s) /\ DOMAIN t = 1..Len(t)
  BY <1>1, LenProperties
<1>3. e \in EventsIn(t)  OBVIOUS
<1> HIDE DEF t
<1>4. PICK k \in 1..Len(t) : t[k].type = "event" /\ e = t[k].event
  BY <1>2, <1>3 DEF EventsIn
<1>5. CASE k = Len(s) + 1  BY <1>1, <1>4, <1>5
<1>6. CASE k # Len(s) + 1
  <2>1. k \in 1..Len(s) /\ t[k] = s[k]  BY <1>1, <1>2, <1>6
  <2>2. k \in DOMAIN s /\ s[k].type = "event" /\ e = s[k].event  BY <2>1, <1>2, <1>4
  <2>3. e \in EventsIn(s)  BY <2>2 DEF EventsIn
  <2> QED  BY <2>3
<1> QED  BY <1>5, <1>6

(* The listener queues an event only for clients it may be shown to. *)
LEMMA DispatchPermitted ==
  ASSUME TypeInv, NEW c \in Clients, NEW x, Dispatches(c, x)
  PROVE  Permitted(c, x.event)
<1> DEFINE e == Head(wire).of
           channel == Head(wire).channel
<1>1. /\ x.event = e /\ channel # "notification" /\ wire # << >>
      /\ c \in Targets(e, channel)
  BY DEF Dispatches, Delivers, Event
<1>2. e \in Events /\ channel \in {Global, EventOf[e].inv}  BY <1>1, HeadTable
<1>3. EventOf[e].inv # Global  BY <1>2, HubAssumption DEF EventType
<1> HIDE DEF e, channel
<1>4. CASE channel = Global
  BY <1>1, <1>4 DEF Targets, PassesOrgFilter, Permitted
<1>5. CASE channel = EventOf[e].inv
  <2>1. EventOf[e].inv \in subs[c] /\ PassesOrgFilter(c, e, FALSE)
    BY <1>1, <1>3, <1>5 DEF Targets, Subscribers
  <2>2. subs[c] \subseteq Access[c]  BY DEF TypeInv, ConnTypeOK
  <2> QED  BY <1>1, <2>1, <2>2 DEF PassesOrgFilter, Permitted
<1> QED  BY <1>2, <1>4, <1>5

(* No client of an organisation is sent an event of another, or one of an  *)
(* investigation it has no access to, whichever publisher and channel the  *)
(* event came through.                                                     *)
THEOREM Isolated == Spec => []TenantIsolation
<1>1. Init => TenantIsolation
  <2> SUFFICES ASSUME Init, NEW c \in Clients PROVE EventsIn(Stream(c)) = {}
    BY DEF TenantIsolation
  <2>1. << >> \o << >> = << >> /\ DOMAIN << >> = {}  OBVIOUS
  <2>2. Stream(c) = << >>  BY <2>1 DEF Init, Stream
  <2> QED  BY <2>1, <2>2 DEF EventsIn
<1>2. TypeInv /\ TenantIsolation /\ [Next]_vars => TenantIsolation'
  <2> SUFFICES ASSUME TypeInv, TenantIsolation, [Next]_vars, NEW c \in Clients,
                      NEW e \in EventsIn(Stream(c)')
               PROVE  Permitted(c, e)
    BY DEF TenantIsolation, Permitted
  <2> DEFINE s == Stream(c)
  <2>1. s \in Seq(Item)  BY StreamType
  <2>2. Stream(c)' \in Seq(Item)
    <3>1. TypeInv'  BY TypeInvStep
    <3>2. queue'[c] \in Seq(Item) /\ received'[c] \in Seq(Item)
      BY <3>1 DEF TypeInv, QueueTypeOK
    <3> QED  BY <3>2, ConcatProperties DEF Stream
  <2>3. \A d \in EventsIn(s) : Permitted(c, d)  BY DEF TenantIsolation, Permitted
  <2>4. CASE Subsequence(Stream(c)', s)  BY <2>1, <2>2, <2>3, <2>4, PartEvents
  <2>5. ASSUME NEW x \in Item, x.type # "event" \/ Dispatches(c, x),
               Subsequence(Stream(c)', Append(s, x))
        PROVE  Permitted(c, e)
    <3>1. Append(s, x) \in Seq(Item)  BY <2>1, AppendProperties
    <3>2. e \in EventsIn(Append(s, x))  BY <2>2, <2>5, <3>1, PartEvents
    <3>3. e \in EventsIn(s) \/ (x.type = "event" /\ e = x.event)
      BY <2>1, <3>2, AppendEvents
    <3> QED  BY <2>3, <2>5, <3>3, DispatchPermitted
  <2> QED  BY <2>4, <2>5, StreamTable
<1>3. (TypeInv /\ TenantIsolation) /\ [Next]_vars => (TypeInv /\ TenantIsolation)'
  BY <1>2, TypeInvStep
<1> QED  BY TypeInvInit, <1>1, <1>3, PTL DEF Spec

-----------------------------------------------------------------------------
(* Backpressure. *)

(* Backpressure takes a critical event only from a queue that is full of   *)
(* critical messages, which are newer or have to be kept as well.          *)
THEOREM CriticalKept == Spec => CriticalYieldsToCritical
<1>1. ASSUME TypeInv, [Next]_vars, NEW c \in Clients, NEW e \in Events,
             e \in dropped'[c] \ dropped[c], EventOf[e].critical
      PROVE  /\ Len(queue'[c]) = LIMIT
             /\ \A k \in DOMAIN queue'[c] : IsCritical(queue'[c][k])
  <2>1. PICK x \in Item : Queued(c, x)
    <3>1. ClientMove(c)  BY <1>1, ClientTable
    <3> QED  BY <3>1, <1>1 DEF ClientMove, Untouched, Taken, Cleared
  <2> DEFINE q == queue[c]
             full == Append(q, x)
             kept == Enqueue(q, x)
  <2>2. q \in Seq(Item)  BY <1>1, StreamType
  <2>3. full \in Seq(Item) /\ kept \in Seq(Item)  BY <2>2, AppendProperties, EnqueueFits
  <2>4. DOMAIN full = 1..Len(full) /\ DOMAIN kept = 1..Len(kept)  BY <2>3, LenProperties
  <2>5. queue'[c] = kept /\ e \in EventsIn(full) /\ e \notin EventsIn(kept)
    BY <2>1, <1>1 DEF Queued
  <2> HIDE DEF full, kept
  <2>6. PICK k \in 1..Len(full) : full[k].type = "event" /\ full[k].event = e
    BY <2>4, <2>5 DEF EventsIn
  <2>7. IsCritical(full[k])  BY <2>6, <1>1 DEF IsCritical
  <2>8. \A j \in 1..Len(kept) : kept[j] # full[k]  BY <2>4, <2>5, <2>6 DEF EventsIn
  <2>9. Len(kept) = LIMIT /\ \A j \in 1..Len(kept) : IsCritical(kept[j])
    BY <2>2, <2>6, <2>7, <2>8, EnqueueKeepsCritical DEF full, kept
  <2> QED  BY <2>4, <2>5, <2>9
<1>2. TypeInv /\ [Next]_vars
        => [\A c \in Clients : \A e \in Events :
              (e \in dropped'[c] \ dropped[c] /\ EventOf[e].critical)
                => /\ Len(queue'[c]) = LIMIT
                   /\ \A k \in DOMAIN queue'[c] : IsCritical(queue'[c][k])]_vars
  BY <1>1
<1> QED  BY TypeInvInit, TypeInvStep, <1>2, PTL DEF Spec, CriticalYieldsToCritical

-----------------------------------------------------------------------------
(* The two copies of an event. First what the operations on a sequence do  *)
(* to the events in it, and to the messages of a channel.                  *)

Once(s, e) ==
  \A j, k \in 1..Len(s) :
    (/\ s[j].type = "event" /\ s[j].event = e
     /\ s[k].type = "event" /\ s[k].event = e) => j = k

LEMMA EventsInSeq ==
  ASSUME NEW s \in Seq(Item), NEW e
  PROVE  e \in EventsIn(s) <=> \E k \in 1..Len(s) : s[k].type = "event" /\ s[k].event = e
<1>1. DOMAIN s = 1..Len(s)  BY LenProperties
<1> QED  BY <1>1 DEF EventsIn

LEMMA ConcatEvents ==
  ASSUME NEW r \in Seq(Item), NEW q \in Seq(Item), NEW e
  PROVE  e \in EventsIn(r \o q) <=> e \in EventsIn(r) \/ e \in EventsIn(q)
<1> DEFINE s == r \o q
           Here(t, k) == t[k].type = "event" /\ t[k].event = e
<1>1. /\ s \in Seq(Item) /\ Len(s) = Len(r) + Len(q)
      /\ \A i \in 1..Len(r) + Len(q) : s[i] = IF i <= Len(r) THEN r[i] ELSE q[i - Len(r)]
  BY ConcatProperties
<1>2. Len(r) \in Nat /\ Len(q) \in Nat  BY LenProperties
<1> HIDE DEF s
<1>3. ASSUME NEW k \in 1..Len(r) PROVE k \in 1..Len(s) /\ s[k] = r[k]
  BY <1>1, <1>2
<1>4. ASSUME NEW k \in 1..Len(q)
      PROVE  Len(r) + k \in 1..Len(s) /\ s[Len(r) + k] = q[k]
  <2>1. Len(r) + k \in 1..Len(r) + Len(q) /\ ~(Len(r) + k <= Len(r))
        /\ (Len(r) + k) - Len(r) = k
    BY <1>2
  <2> QED  BY <2>1, <1>1
<1>5. ASSUME NEW k \in 1..Len(s)
      PROVE  \/ k \in 1..Len(r) /\ s[k] = r[k]
             \/ k - Len(r) \in 1..Len(q) /\ s[k] = q[k - Len(r)]
  <2>1. k \in 1..Len(r) + Len(q)  BY <1>1
  <2>2. CASE k <= Len(r)  BY <2>1, <2>2, <1>1, <1>2
  <2>3. CASE ~(k <= Len(r))
    <3>1. k - Len(r) \in 1..Len(q)  BY <2>1, <2>3, <1>2
    <3> QED  BY <3>1, <2>1, <2>3, <1>1
  <2> QED  BY <2>2, <2>3
<1>6. (\E k \in 1..Len(s) : Here(s, k))
        <=> (\E k \in 1..Len(r) : Here(r, k)) \/ (\E k \in 1..Len(q) : Here(q, k))
  <2>1. ASSUME NEW k \in 1..Len(s), Here(s, k)
        PROVE  (\E i \in 1..Len(r) : Here(r, i)) \/ (\E i \in 1..Len(q) : Here(q, i))
    BY <2>1, <1>5
  <2>2. ASSUME NEW k \in 1..Len(r), Here(r, k) PROVE \E i \in 1..Len(s) : Here(s, i)
    BY <2>2, <1>3
  <2>3. ASSUME NEW k \in 1..Len(q), Here(q, k) PROVE \E i \in 1..Len(s) : Here(s, i)
    BY <2>3, <1>4
  <2> QED  BY <2>1, <2>2, <2>3
<1>7. e \in EventsIn(s) <=> e \in EventsIn(r) \/ e \in EventsIn(q)
  BY <1>1, <1>6, EventsInSeq
<1> QED  BY <1>7 DEF s

LEMMA OncePart ==
  ASSUME NEW r \in Seq(Item), NEW s \in Seq(Item), Subsequence(r, s), NEW e, Once(s, e)
  PROVE  Once(r, e)
<1>1. Len(r) \in Nat /\ Len(s) \in Nat  BY LenProperties
<1>2. PICK f \in [1..Len(r) -> 1..Len(s)] : Embeds(f, r, s)  BY DEF Subsequence
<1> SUFFICES ASSUME NEW j \in 1..Len(r), NEW k \in 1..Len(r),
                    r[j].type = "event", r[j].event = e,
                    r[k].type = "event", r[k].event = e
             PROVE  j = k
  BY DEF Once
<1>3. f[j] \in 1..Len(s) /\ f[k] \in 1..Len(s) /\ r[j] = s[f[j]] /\ r[k] = s[f[k]]
  BY <1>2 DEF Embeds
<1>4. f[j] = f[k]  BY <1>3 DEF Once
<1>5. ~(j < k) /\ ~(k < j)
  <2>1. j < k => f[j] < f[k]  BY <1>2 DEF Embeds
  <2>2. k < j => f[k] < f[j]  BY <1>2 DEF Embeds
  <2> QED  BY <2>1, <2>2, <1>3, <1>4, <1>1
<1> QED  BY <1>5

LEMMA OnceAppend ==
  ASSUME NEW s \in Seq(Item), NEW x \in Item, NEW e, Once(s, e),
         (x.type = "event" /\ x.event = e) => e \notin EventsIn(s)
  PROVE  Once(Append(s, x), e)
<1> DEFINE t == Append(s, x)
<1>1. /\ Len(t) = Len(s) + 1 /\ t[Len(s) + 1] = x
      /\ \A i \in 1..Len(s) : t[i] = s[i]
  BY AppendProperties
<1>2. Len(s) \in Nat  BY LenProperties
<1> HIDE DEF t
<1>3. \A k \in 1..Len(t) : k = Len(s) + 1 \/ (k \in 1..Len(s) /\ t[k] = s[k])
  BY <1>1, <1>2
<1>4. (x.type = "event" /\ x.event = e)
        => ~\E k \in 1..Len(s) : s[k].type = "event" /\ s[k].event = e
  BY EventsInSeq
<1> SUFFICES ASSUME NEW j \in 1..Len(t), NEW k \in 1..Len(t),
                    t[j].type = "event", t[j].event = e,
                    t[k].type = "event", t[k].event = e
             PROVE  j = k
  BY DEF Once, t
<1> QED  BY <1>1, <1>3, <1>4 DEF Once

LEMMA AppendHolds ==
  ASSUME NEW s \in Seq(Item), NEW x \in Item
  PROVE  /\ EventsIn(s) \subseteq EventsIn(Append(s, x))
         /\ x.type = "event" => x.event \in EventsIn(Append(s, x))
<1> DEFINE t == Append(s, x)
<1>1. /\ t \in Seq(Item) /\ Len(t) = Len(s) + 1 /\ t[Len(s) + 1] = x
      /\ \A i \in 1..Len(s) : t[i] = s[i]
  BY AppendProperties
<1>2. Len(s) \in Nat  BY LenProperties
<1> HIDE DEF t
<1>3. ASSUME NEW e \in EventsIn(s) PROVE e \in EventsIn(t)
  <2>1. PICK k \in 1..Len(s) : s[k].type = "event" /\ s[k].event = e  BY EventsInSeq
  <2>2. k \in 1..Len(t) /\ t[k] = s[k]  BY <1>1, <1>2
  <2> QED  BY <2>1, <2>2, <1>1, EventsInSeq
<1>4. ASSUME x.type = "event" PROVE x.event \in EventsIn(t)
  <2>1. Len(s) + 1 \in 1..Len(t)  BY <1>1, <1>2
  <2> QED  BY <2>1, <1>1, <1>4, EventsInSeq
<1> QED  BY <1>3, <1>4 DEF t

(* A copy of e for a channel among the messages m. *)
On(m, channel, e) == \E k \in 1..Len(m) : m[k].channel = channel /\ m[k].of = e

(* No channel has two copies of e. *)
OneCopy(m, e) ==
  \A j, k \in 1..Len(m) :
    (/\ m[j].of = e /\ m[k].of = e /\ m[j].channel = m[k].channel
     /\ m[j].channel # "notification") => j = k

LEMMA WireAppend ==
  ASSUME NEW m \in Seq(RightMessage), NEW x \in RightMessage
  PROVE  /\ \A channel, e : On(Append(m, x), channel, e)
              <=> On(m, channel, e) \/ (x.channel = channel /\ x.of = e)
         /\ \A e : (OneCopy(m, e) /\ (x.of = e => (x.channel = "notification"
                                                  \/ ~On(m, x.channel, e))))
                     => OneCopy(Append(m, x), e)
<1> DEFINE t == Append(m, x)
<1>1. /\ Len(t) = Len(m) + 1 /\ t[Len(m) + 1] = x
      /\ \A i \in 1..Len(m) : t[i] = m[i]
  BY AppendProperties
<1>2. Len(m) \in Nat  BY LenProperties
<1> HIDE DEF t
<1>3. \A k \in 1..Len(t) : k = Len(m) + 1 \/ (k \in 1..Len(m) /\ t[k] = m[k])
  BY <1>1, <1>2
<1>4. Len(m) + 1 \in 1..Len(t) /\ \A k \in 1..Len(m) : k \in 1..Len(t)
  BY <1>1, <1>2
<1>5. \A channel, e : On(t, channel, e)
        <=> On(m, channel, e) \/ (x.channel = channel /\ x.of = e)
  BY <1>1, <1>3, <1>4 DEF On
<1>6. ASSUME NEW e, OneCopy(m, e),
             x.of = e => (x.channel = "notification" \/ ~On(m, x.channel, e))
      PROVE  OneCopy(t, e)
  <2> SUFFICES ASSUME NEW j \in 1..Len(t), NEW k \in 1..Len(t),
                      t[j].of = e, t[k].of = e, t[j].channel = t[k].channel,
                      t[j].channel # "notification"
               PROVE  j = k
    BY DEF OneCopy
  <2>1. CASE j = Len(m) + 1 /\ k # Len(m) + 1
    BY <2>1, <1>1, <1>3, <1>6 DEF On
  <2>2. CASE j # Len(m) + 1 /\ k = Len(m) + 1
    BY <2>2, <1>1, <1>3, <1>6 DEF On
  <2>3. CASE j # Len(m) + 1 /\ k # Len(m) + 1
    BY <2>3, <1>3, <1>6 DEF OneCopy
  <2> QED  BY <2>1, <2>2, <2>3
<1> QED  BY <1>5, <1>6 DEF t

LEMMA WireTail ==
  ASSUME NEW m \in Seq(RightMessage), m # << >>
  PROVE  /\ \A channel, e : On(Tail(m), channel, e) => On(m, channel, e)
         /\ \A channel, e : On(m, channel, e)
              => On(Tail(m), channel, e) \/ (Head(m).channel = channel /\ Head(m).of = e)
         /\ On(m, Head(m).channel, Head(m).of)
         /\ \A e : OneCopy(m, e) => OneCopy(Tail(m), e)
         /\ \A e : (OneCopy(m, e) /\ Head(m).of = e /\ Head(m).channel # "notification")
                     => ~On(Tail(m), Head(m).channel, e)
<1> DEFINE t == Tail(m)
<1>1. /\ t \in Seq(RightMessage) /\ Len(t) = Len(m) - 1
      /\ \A i \in 1..Len(t) : t[i] = m[i + 1]
  BY HeadTailProperties
<1>2. Len(m) \in Nat /\ Len(m) # 0  BY LenProperties, EmptySeq
<1>3. Head(m) = m[1]  OBVIOUS
<1> HIDE DEF t
<1>4. 1 \in 1..Len(m)  BY <1>2
<1>5. ASSUME NEW k \in 1..Len(t) PROVE k + 1 \in 1..Len(m) /\ k + 1 # 1 /\ t[k] = m[k + 1]
  BY <1>1, <1>2
<1>6. ASSUME NEW k \in 1..Len(m), k # 1 PROVE k - 1 \in 1..Len(t) /\ t[k - 1] = m[k]
  <2>1. k - 1 \in 1..Len(t) /\ (k - 1) + 1 = k  BY <1>1, <1>2, <1>6
  <2> QED  BY <2>1, <1>1
<1>7. \A channel, e : On(t, channel, e) => On(m, channel, e)
  BY <1>5 DEF On
<1>8. \A channel, e : On(m, channel, e)
        => On(t, channel, e) \/ (Head(m).channel = channel /\ Head(m).of = e)
  BY <1>3, <1>6 DEF On
<1>9. On(m, Head(m).channel, Head(m).of)  BY <1>3, <1>4 DEF On
<1>10. ASSUME NEW e, OneCopy(m, e) PROVE OneCopy(t, e)
  <2> SUFFICES ASSUME NEW j \in 1..Len(t), NEW k \in 1..Len(t),
                      t[j].of = e, t[k].of = e, t[j].channel = t[k].channel,
                      t[j].channel # "notification"
               PROVE  j = k
    BY DEF OneCopy
  <2>1. j + 1 = k + 1  BY <1>5, <1>10 DEF OneCopy
  <2> QED  BY <2>1, <1>1, <1>2
<1>11. ASSUME NEW e, OneCopy(m, e), Head(m).of = e, Head(m).channel # "notification",
              On(t, Head(m).channel, e)
       PROVE  FALSE
  <2>1. PICK k \in 1..Len(t) : t[k].channel = Head(m).channel /\ t[k].of = e
    BY <1>11 DEF On
  <2> QED  BY <2>1, <1>3, <1>4, <1>5, <1>11 DEF OneCopy
<1> QED  BY <1>7, <1>8, <1>9, <1>10, <1>11 DEF t

LEMMA WireEmpty ==
  \A e : OneCopy(<< >>, e) /\ \A channel : ~On(<< >>, channel, e)
<1>1. Len(<< >>) = 0 /\ 1..0 = {}  BY EmptySeq
<1> QED  BY <1>1 DEF OneCopy, On

(* The event the listener dispatches reaches the queue of every target. *)
LEMMA DispatchReaches ==
  ASSUME TypeInv, DispatchEvent, NEW c \in Clients,
         c \in Targets(Head(wire).of, Head(wire).channel)
  PROVE  LET x == Event(Head(wire).of, dispatched + 1)
         IN  /\ x \in Item /\ queue'[c] = Enqueue(queue[c], x)
             /\ dropped'[c] = dropped[c]
                  \cup (EventsIn(Append(queue[c], x)) \ EventsIn(queue'[c]))
<1> DEFINE x == Event(Head(wire).of, dispatched + 1)
           T == Targets(Head(wire).of, Head(wire).channel)
<1>1. /\ wire # << >> /\ Head(wire).channel # "notification"
      /\ EnqueueAll(T, x) /\ c \in T
  BY DEF DispatchEvent, Listening
<1>2. QueueTypeOK /\ dispatched + 1 \in Nat  BY DEF TypeInv, PubTypeOK
<1>3. x \in Item  BY <1>1, <1>2, HeadTable, EventItemType
<1> HIDE DEF x, T
<1>4. /\ queue'[c] = Enqueue(queue[c], x)
      /\ dropped'[c] = dropped[c]
           \cup (EventsIn(Append(queue[c], x)) \ EventsIn(queue'[c]))
  BY <1>1, <1>2, <1>3, EnqueueAllTable
<1> QED  BY <1>3, <1>4 DEF x

(* What a step does to the events of a client's stream: it gains at most   *)
(* the dispatched one, and loses one only to backpressure, to a socket     *)
(* that failed or to a client that left.                                   *)
LEMMA StreamEvents ==
  ASSUME TypeInv, [Next]_vars, NEW c \in Clients, NEW e \in Events
  PROVE  /\ e \in EventsIn(Stream(c)')
              => e \in EventsIn(Stream(c)) \/ (Delivers(c) /\ e = Head(wire).of)
         /\ (/\ Once(Stream(c), e)
             /\ (Delivers(c) /\ e = Head(wire).of) => e \notin EventsIn(Stream(c)))
              => Once(Stream(c)', e)
<1> DEFINE s == Stream(c)
<1>1. s \in Seq(Item)  BY StreamType
<1>2. Stream(c)' \in Seq(Item)
  <2>1. TypeInv'  BY TypeInvStep
  <2>2. queue'[c] \in Seq(Item) /\ received'[c] \in Seq(Item)
    BY <2>1 DEF TypeInv, QueueTypeOK
  <2> QED  BY <2>2, ConcatProperties DEF Stream
<1>3. CASE Subsequence(Stream(c)', s)
  <2> HIDE DEF s
  <2>1. EventsIn(Stream(c)') \subseteq EventsIn(s)  BY <1>1, <1>2, <1>3, PartEvents
  <2>2. Once(s, e) => Once(Stream(c)', e)  BY <1>1, <1>2, <1>3, OncePart
  <2> QED  BY <2>1, <2>2 DEF s
<1>4. ASSUME NEW x \in Item, x.type # "event" \/ Dispatches(c, x),
             Subsequence(Stream(c)', Append(s, x))
      PROVE  /\ e \in EventsIn(Stream(c)')
                  => e \in EventsIn(s) \/ (Delivers(c) /\ e = Head(wire).of)
             /\ (/\ Once(s, e)
                 /\ (Delivers(c) /\ e = Head(wire).of) => e \notin EventsIn(s))
                  => Once(Stream(c)', e)
  <2> HIDE DEF s
  <2>1. Append(s, x) \in Seq(Item)  BY <1>1, AppendProperties
  <2>2. EventsIn(Stream(c)') \subseteq EventsIn(Append(s, x))
    BY <1>2, <1>4, <2>1, PartEvents
  <2>3. Once(Append(s, x), e) => Once(Stream(c)', e)
    BY <1>2, <1>4, <2>1, OncePart
  <2>4. (x.type = "event" /\ x.event = e) => Delivers(c) /\ e = Head(wire).of
    BY <1>4 DEF Dispatches, Event
  <2>5. e \in EventsIn(Append(s, x)) => e \in EventsIn(s) \/ (x.type = "event" /\ e = x.event)
    BY <1>1, AppendEvents
  <2>6. ASSUME Once(s, e), (Delivers(c) /\ e = Head(wire).of) => e \notin EventsIn(s)
        PROVE  Once(Append(s, x), e)
    <3>1. (x.type = "event" /\ x.event = e) => e \notin EventsIn(s)  BY <2>4, <2>6
    <3> QED  BY <1>1, <2>6, <3>1, OnceAppend
  <2> QED  BY <2>2, <2>3, <2>4, <2>5, <2>6
<1> QED  BY <1>3, <1>4, StreamTable

LEMMA StreamLosses ==
  ASSUME TypeInv, [Next]_vars, NEW c \in Clients, NEW e \in due'[c]
  PROVE  /\ e \in EventsIn(Stream(c))
              => e \in EventsIn(Stream(c)') \/ e \in dropped'[c] \/ sender'[c] = "ended"
         /\ e \in dropped[c] => e \in dropped'[c]
<1> DEFINE q == queue[c]
           r == received[c]
<1>1. q \in Seq(Item) /\ r \in Seq(Item) /\ Stream(c) = r \o q
  BY StreamType DEF Stream
<1>2. Stream(c)' = received'[c] \o queue'[c]  BY DEF Stream
<1>3. TypeInv'  BY TypeInvStep
<1>4. queue'[c] \in Seq(Item) /\ received'[c] \in Seq(Item)  BY <1>3 DEF TypeInv, QueueTypeOK
<1>5. e \in EventsIn(Stream(c)) <=> e \in EventsIn(r) \/ e \in EventsIn(q)
  BY <1>1, ConcatEvents
<1>6. e \in EventsIn(Stream(c)') <=> e \in EventsIn(received'[c]) \/ e \in EventsIn(queue'[c])
  BY <1>2, <1>4, ConcatEvents
<1>7. CASE Untouched(c)  BY <1>5, <1>6, <1>7 DEF Untouched
<1>8. ASSUME NEW x \in Item, Queued(c, x)
      PROVE  /\ e \in EventsIn(Stream(c)) => e \in EventsIn(Stream(c)') \/ e \in dropped'[c]
             /\ e \in dropped[c] => e \in dropped'[c]
  <2>1. EventsIn(q) \subseteq EventsIn(Append(q, x))  BY <1>1, AppendHolds
  <2>2. received'[c] = r
        /\ dropped'[c] = dropped[c] \cup (EventsIn(Append(q, x)) \ EventsIn(queue'[c]))
    BY <1>8 DEF Queued
  <2> QED  BY <2>1, <2>2, <1>5, <1>6
<1>9. CASE Taken(c)
  <2>1. q # << >> /\ queue'[c] = Tail(q) /\ dropped'[c] = dropped[c]  BY <1>9 DEF Taken
  <2>2. Head(q) \in Item /\ Tail(q) \in Seq(Item)  BY <1>1, <2>1, HeadTailProperties
  <2>3. CASE received'[c] = Append(r, Head(q))
    <3>1. Stream(c)' = Stream(c)  BY <1>1, <1>2, <2>1, <2>3, HeadMoves
    <3> QED  BY <3>1, <2>1
  <2>4. CASE received'[c] = r /\ Head(q).type # "event"
    <3>1. e \in EventsIn(q) => e \in EventsIn(Tail(q))
      <4> SUFFICES ASSUME e \in EventsIn(q) PROVE e \in EventsIn(Tail(q))  OBVIOUS
      <4> HIDE DEF q
      <4>1. PICK k \in 1..Len(q) : q[k].type = "event" /\ q[k].event = e
        BY <1>1, EventsInSeq
      <4>2. Len(Tail(q)) = Len(q) - 1 /\ \A i \in 1..Len(Tail(q)) : Tail(q)[i] = q[i + 1]
        BY <1>1, <2>1, HeadTailProperties
      <4>3. Head(q) = q[1]  BY <1>1, <2>1
      <4>4. k # 1  BY <4>1, <4>3, <2>4
      <4>5. Len(q) \in Nat  BY <1>1, LenProperties
      <4>6. k - 1 \in 1..Len(Tail(q)) /\ (k - 1) + 1 = k  BY <4>1, <4>2, <4>4, <4>5
      <4>7. Tail(q)[k - 1] = q[k]  BY <4>2, <4>6
      <4>8. Tail(q)[k - 1].type = "event" /\ Tail(q)[k - 1].event = e  BY <4>1, <4>7
      <4> QED  BY <2>2, <4>6, <4>8, EventsInSeq
    <3> QED  BY <3>1, <2>1, <2>4, <1>5, <1>6
  <2>5. CASE sender'[c] = "ended"  BY <2>1, <2>5
  <2> QED  BY <2>3, <2>4, <2>5, <1>9 DEF Taken
<1>10. ~Cleared(c)  BY DEF Cleared
<1>11. ClientMove(c)  BY ClientTable
<1> QED  BY <1>7, <1>8, <1>9, <1>10, <1>11 DEF ClientMove

-----------------------------------------------------------------------------
(* Copies: an event is on the wire at most once for each of its channels,  *)
(* the global copy follows the other, an answer is stored with the first,  *)
(* and what is not published yet, or only waits for a refusal to raise it, *)
(* has left no trace.                                                      *)

Refused(e) == ShouldDropForTlp(e)
Home(e) == EventOf[e].inv

Untraced(e) ==
  /\ ~On(wire, Home(e), e) /\ ~On(wire, Global, e)
  /\ transcript[e] = 0
  /\ \A c \in Clients : e \notin EventsIn(Stream(c)) /\ e \notin due[c]

Unsent(e) == pub[e] \in {"unpublished", "raised"}

AlertWaits(e) ==
  (Refused(e) /\ (Unsent(e) \/ On(wire, Home(e), e)))
    => Untraced(EventOf[e].alert) /\ pub[EventOf[e].alert] \in {"unpublished", "dropped"}

CopyInv(e) ==
  /\ OneCopy(wire, e)
  /\ (pub[e] = "half" \/ EventOf[e].via = "emitter" \/ Refused(e)) => ~On(wire, Global, e)
  /\ pub[e] = "half" => EventOf[e].via # "emitter" /\ ~Refused(e)
  /\ transcript[e] <= 1
  /\ On(wire, Home(e), e) => transcript[e] = 0
  /\ Unsent(e) => Untraced(e)
  /\ AlertWaits(e)

CopiesInv == \A e \in Events : CopyInv(e)

LEMMA EventTable ==
  ASSUME NEW e \in Events
  PROVE  /\ Home(e) \in Invs /\ Home(e) # Global
         /\ Home(e) # "notification" /\ Global # "notification"
BY HubAssumption DEF Home, EventType, Channels

LEMMA AlertTable ==
  ASSUME NEW e \in Events, Refused(e)
  PROVE  LET a == EventOf[e].alert
         IN  /\ a \in Events /\ a # e /\ ~Refused(a) /\ EventOf[a].via = "sink"
             /\ \A f \in Events : (Refused(f) /\ EventOf[f].alert = a) => f = e
<1>1. EventOf[e].red /\ ~EventOf[e].exempt  BY DEF Refused, ShouldDropForTlp
<1>2. EventOf[e].alert \in Events  BY <1>1, HubAssumption
<1> QED  BY <1>1, <1>2, HubAssumption DEF Refused, ShouldDropForTlp

(* An event that has left no trace stays so while nothing of it is sent. *)
LEMMA UntracedKept ==
  ASSUME TypeInv, [Next]_vars, NEW e \in Events, Untraced(e),
         ~On(wire', Home(e), e), ~On(wire', Global, e), transcript'[e] = 0,
         \A c \in Clients : e \notin due'[c]
  PROVE  Untraced(e)'
<1>1. ASSUME NEW c \in Clients PROVE e \notin EventsIn(Stream(c)')
  <2> SUFFICES ASSUME e \in EventsIn(Stream(c)') PROVE FALSE  OBVIOUS
  <2>1. Delivers(c) /\ e = Head(wire).of  BY StreamEvents DEF Untraced
  <2>2. wire # << >> /\ Head(wire).channel \in {Global, Home(e)}
    BY <2>1, HeadTable DEF Delivers, Home
  <2>3. wire \in Seq(RightMessage)  BY DEF TypeInv, PubTypeOK
  <2>4. On(wire, Head(wire).channel, e)  BY <2>1, <2>2, <2>3, WireTail
  <2> QED  BY <2>2, <2>4 DEF Untraced
<1> QED  BY <1>1 DEF Untraced, Home

(* A step that sends no copy of e, stores nothing of it and makes nobody   *)
(* entitled to it.                                                         *)
Idle(e) ==
  /\ OneCopy(wire, e) => OneCopy(wire', e)
  /\ \A channel \in {Home(e), Global} : On(wire', channel, e) => On(wire, channel, e)
  /\ transcript'[e] = transcript[e]
  /\ \A c \in Clients : e \in due'[c] => e \in due[c]

PubKept(e) == pub'[e] \in {pub[e], "dropped"} \/ (pub[e] = "half" /\ pub'[e] = "lost")

LEMMA IdleUntraced ==
  ASSUME TypeInv, [Next]_vars, NEW e \in Events, Idle(e), Untraced(e)
  PROVE  Untraced(e)'
<1>1. ~On(wire', Home(e), e) /\ ~On(wire', Global, e)  BY DEF Idle, Untraced
<1>2. transcript'[e] = 0 /\ \A c \in Clients : e \notin due'[c]  BY DEF Idle, Untraced
<1> QED  BY <1>1, <1>2, UntracedKept

LEMMA KeptCopy ==
  ASSUME TypeInv, [Next]_vars, NEW e \in Events, CopyInv(e), Idle(e), PubKept(e),
         (Refused(e) /\ (Unsent(e) \/ On(wire, Home(e), e)))
            => Idle(EventOf[e].alert) /\ PubKept(EventOf[e].alert)
  PROVE  CopyInv(e)'
<1>1. Unsent(e)' => Unsent(e)  BY DEF Unsent, PubKept
<1>2. pub'[e] = "half" => pub[e] = "half"  BY DEF PubKept
<1>3. On(wire', Home(e), e) => On(wire, Home(e), e)  BY DEF Idle
<1>4. On(wire', Global, e) => On(wire, Global, e)  BY DEF Idle
<1>5. Unsent(e)' => Untraced(e)'  BY <1>1, IdleUntraced DEF CopyInv
<1>6. AlertWaits(e)'
  <2> SUFFICES ASSUME Refused(e), Unsent(e)' \/ On(wire', Home(e), e)
               PROVE  /\ Untraced(EventOf[e].alert)'
                      /\ pub'[EventOf[e].alert] \in {"unpublished", "dropped"}
    BY DEF AlertWaits, Refused, ShouldDropForTlp, Home
  <2> DEFINE a == EventOf[e].alert
  <2>1. Unsent(e) \/ On(wire, Home(e), e)  BY <1>1, <1>3
  <2>2. a \in Events  BY AlertTable
  <2>3. Untraced(a) /\ pub[a] \in {"unpublished", "dropped"}
    BY <2>1 DEF CopyInv, AlertWaits
  <2>4. Idle(a) /\ PubKept(a)  BY <2>1
  <2> HIDE DEF a
  <2>5. Untraced(a)'  BY <2>2, <2>3, <2>4, IdleUntraced
  <2>6. pub'[a] \in {"unpublished", "dropped"}  BY <2>3, <2>4 DEF PubKept
  <2> QED  BY <2>5, <2>6 DEF a
<1>7. OneCopy(wire', e) /\ transcript'[e] = transcript[e]  BY DEF Idle, CopyInv
<1> QED
  BY <1>2, <1>3, <1>4, <1>5, <1>6, <1>7 DEF CopyInv, Refused, ShouldDropForTlp, Home

(* The first copy is sent: by a RedisEmitter, or by hub.publish. *)
LEMMA FirstCopy ==
  ASSUME TypeInv, CopiesInv, [Next]_vars, NEW e \in Events, Unsent(e),
         OneCopy(wire', e), ~On(wire', Global, e), transcript' = transcript,
         \/ EventOf[e].via = "emitter" /\ pub'[e] = "done"
         \/ EventOf[e].via # "emitter" /\ ~Refused(e) /\ pub'[e] = "half",
         pub[e] = "raised" \/ EventOf[e].via # "sink",
         \A f \in Events : f # e => Idle(f) /\ pub'[f] = pub[f]
  PROVE  CopiesInv'
<1>1. CopyInv(e) /\ Untraced(e) /\ transcript[e] = 0  BY DEF CopiesInv, CopyInv, Untraced
<1>2. ASSUME NEW f \in Events, Refused(f), Unsent(f) \/ On(wire, Home(f), f)
      PROVE  LET a == EventOf[f].alert
             IN  /\ a \in Events /\ a # e /\ Idle(a) /\ PubKept(a)
                 /\ Untraced(a) /\ pub[a] \in {"unpublished", "dropped"}
  <2> DEFINE a == EventOf[f].alert
  <2>1. a \in Events /\ EventOf[a].via = "sink"  BY <1>2, AlertTable
  <2>2. Untraced(a) /\ pub[a] \in {"unpublished", "dropped"}
    BY <1>2 DEF CopiesInv, CopyInv, AlertWaits
  <2> HIDE DEF a
  <2>3. a # e  BY <2>1, <2>2
  <2>4. Idle(a) /\ PubKept(a)  BY <2>1, <2>3 DEF PubKept
  <2> QED  BY <2>1, <2>2, <2>3, <2>4 DEF a
<1>3. ASSUME NEW f \in Events, f # e PROVE CopyInv(f)'
  <2>1. CopyInv(f) /\ Idle(f) /\ PubKept(f)  BY <1>3 DEF CopiesInv, PubKept
  <2> QED  BY <2>1, <1>2, KeptCopy
<1>4. CopyInv(e)'
  <2>1. AlertWaits(e)'
    <3> SUFFICES ASSUME Refused(e)
                 PROVE  /\ Untraced(EventOf[e].alert)'
                        /\ pub'[EventOf[e].alert] \in {"unpublished", "dropped"}
      BY DEF AlertWaits, Refused, ShouldDropForTlp, Home
    <3> DEFINE a == EventOf[e].alert
    <3>1. /\ a \in Events /\ a # e /\ Idle(a)
          /\ Untraced(a) /\ pub[a] \in {"unpublished", "dropped"}
      BY <1>2
    <3> HIDE DEF a
    <3>2. Untraced(a)'  BY <3>1, IdleUntraced
    <3>3. pub'[a] = pub[a]  BY <3>1
    <3> QED  BY <3>1, <3>2, <3>3 DEF a
  <2>2. ~Unsent(e)'  BY DEF Unsent
  <2>3. transcript'[e] = 0  BY <1>1
  <2> QED  BY <2>1, <2>2, <2>3 DEF CopyInv, Refused, ShouldDropForTlp
<1> QED  BY <1>3, <1>4 DEF CopiesInv

(* A refusal raises the alert of the refused event, here or at the gate of *)
(* the listener, and nobody will refuse the event again.                   *)
LEMMA RefusalCopy ==
  ASSUME TypeInv, CopiesInv, [Next]_vars, NEW e \in Events, Refused(e),
         Unsent(e) \/ On(wire, Home(e), e), \A f \in Events : Idle(f),
         PubKept(e), ~Unsent(e)', ~On(wire', Home(e), e),
         pub'[EventOf[e].alert] = "raised",
         \A f \in Events : f \notin {e, EventOf[e].alert} => pub'[f] = pub[f]
  PROVE  CopiesInv'
<1> DEFINE a == EventOf[e].alert
<1>1. /\ a \in Events /\ a # e /\ ~Refused(a) /\ EventOf[a].via = "sink"
      /\ \A f \in Events : (Refused(f) /\ EventOf[f].alert = a) => f = e
  BY AlertTable
<1>2. Untraced(a)  BY DEF CopiesInv, CopyInv, AlertWaits
<1>3. pub'[a] = "raised" /\ \A f \in Events : f \notin {e, a} => pub'[f] = pub[f]
  OBVIOUS
<1>4. ASSUME NEW f \in Events, f \notin {e, a} PROVE CopyInv(f)'
  <2>1. CopyInv(f) /\ Idle(f) /\ PubKept(f)  BY <1>3, <1>4 DEF CopiesInv, PubKept
  <2>2. Refused(f) => Idle(EventOf[f].alert) /\ PubKept(EventOf[f].alert)
    <3> SUFFICES ASSUME Refused(f)
                 PROVE  Idle(EventOf[f].alert) /\ PubKept(EventOf[f].alert)
      OBVIOUS
    <3>1. EventOf[f].alert \in Events /\ ~Refused(EventOf[f].alert)  BY AlertTable
    <3>2. EventOf[f].alert \notin {e, a}  BY <3>1, <1>1, <1>4
    <3> QED  BY <3>1, <3>2, <1>3 DEF PubKept
  <2> QED  BY <2>1, <2>2, KeptCopy
<1> HIDE DEF a
<1>5. CopyInv(a)'
  <2>1. CopyInv(a) /\ Idle(a)  BY <1>1 DEF CopiesInv
  <2>2. Untraced(a)'  BY <2>1, <1>1, <1>2, IdleUntraced
  <2>3. AlertWaits(a)'  BY <1>1 DEF AlertWaits, Refused, ShouldDropForTlp
  <2>4. OneCopy(wire', a)  BY <2>1 DEF Idle, CopyInv
  <2>5. pub'[a] # "half"  BY <1>3
  <2>6. transcript'[a] = 0 /\ ~On(wire', Global, a)  BY <2>2 DEF Untraced
  <2> QED  BY <2>2, <2>3, <2>4, <2>5, <2>6 DEF CopyInv
<1>6. CopyInv(e)'
  <2>1. CopyInv(e) /\ Idle(e)  BY DEF CopiesInv
  <2>2. AlertWaits(e)'  BY DEF AlertWaits, Home
  <2>3. OneCopy(wire', e) /\ transcript'[e] = transcript[e]
        /\ (On(wire', Global, e) => On(wire, Global, e))
    BY <2>1 DEF Idle, CopyInv
  <2>4. pub'[e] = "half" => pub[e] = "half"  BY DEF PubKept
  <2> QED  BY <2>1, <2>2, <2>3, <2>4 DEF CopyInv, Refused, ShouldDropForTlp, Home
<1> QED  BY <1>4, <1>5, <1>6 DEF CopiesInv

(* What each operation does to the copies of an event. *)
LEMMA IdleStep ==
  ASSUME TypeInv, NEW e \in Events, transcript'[e] = transcript[e],
         \A c \in Clients : e \in due'[c] => e \in due[c],
         \/ wire' = wire \/ wire' = << >>
         \/ wire # << >> /\ wire' = Tail(wire)
         \/ \E u \in Users : wire' = Append(wire, [channel |-> "notification", of |-> u])
  PROVE  Idle(e)
<1>1. wire \in Seq(RightMessage)  BY DEF TypeInv, PubTypeOK
<1>2. /\ OneCopy(wire, e) => OneCopy(wire', e)
      /\ \A channel \in {Home(e), Global} : On(wire', channel, e) => On(wire, channel, e)
  <2>1. CASE wire' = wire  BY <2>1
  <2>2. CASE wire' = << >>  BY <2>2, WireEmpty
  <2>3. CASE wire # << >> /\ wire' = Tail(wire)  BY <1>1, <2>3, WireTail
  <2>4. ASSUME NEW u \in Users,
               wire' = Append(wire, [channel |-> "notification", of |-> u])
        PROVE  /\ OneCopy(wire, e) => OneCopy(wire', e)
               /\ \A channel \in {Home(e), Global} :
                    On(wire', channel, e) => On(wire, channel, e)
    <3> DEFINE x == [channel |-> "notification", of |-> u]
    <3>1. x \in RightMessage /\ x.channel = "notification"  BY DEF RightMessage, Message
    <3>2. wire' = Append(wire, x)  BY <2>4
    <3> HIDE DEF x
    <3> QED  BY <1>1, <3>1, <3>2, WireAppend, EventTable
  <2> QED  BY <2>1, <2>2, <2>3, <2>4
<1> QED  BY <1>2 DEF Idle

(* Sending a copy of e puts nothing else on the wire. *)
LEMMA SendCopy ==
  ASSUME TypeInv, NEW e \in Events, NEW channel \in {Home(e), Global}, Send(channel, e)
  PROVE  /\ \A f \in Events : \A ch : On(wire', ch, f)
              => On(wire, ch, f) \/ (ch = channel /\ f = e)
         /\ \A f \in Events : \A ch : On(wire, ch, f) => On(wire', ch, f)
         /\ hub = "running" => On(wire', channel, e)
         /\ \A f \in Events : (OneCopy(wire, f) /\ (f = e => ~On(wire, channel, e)))
                                => OneCopy(wire', f)
<1> DEFINE x == [channel |-> channel, of |-> e]
<1>1. wire \in Seq(RightMessage)  BY DEF TypeInv, PubTypeOK
<1>2. x \in RightMessage /\ x.channel = channel /\ x.of = e  BY CopyType DEF Home
<1>3. wire' = IF hub = "running" THEN Append(wire, x) ELSE wire  BY DEF Send
<1> HIDE DEF x
<1>4. CASE hub = "running"
  <2>1. wire' = Append(wire, x)  BY <1>3, <1>4
  <2> QED  BY <1>1, <1>2, <2>1, WireAppend
<1>5. CASE hub # "running"  BY <1>3, <1>5
<1> QED  BY <1>4, <1>5

LEMMA SendIdles ==
  ASSUME TypeInv, NEW e \in Events, NEW channel \in {Home(e), Global}, Send(channel, e),
         transcript' = transcript,
         \A f \in Events, c \in Clients : (f # e /\ f \in due'[c]) => f \in due[c]
  PROVE  \A f \in Events : f # e => Idle(f)
BY SendCopy DEF Idle

LEMMA QuietCopies ==
  ASSUME TypeInv, CopiesInv, [Next]_vars, \A e \in Events : Idle(e) /\ PubKept(e)
  PROVE  CopiesInv'
<1> SUFFICES ASSUME NEW e \in Events PROVE CopyInv(e)'  BY DEF CopiesInv
<1>1. Refused(e) => EventOf[e].alert \in Events  BY AlertTable
<1> QED  BY <1>1, KeptCopy DEF CopiesInv

LEMMA CopiesInvPublish ==
  ASSUME TypeInv, CopiesInv, [Next]_vars, NEW e \in Events, Emit(e) \/ Publish(e)
  PROVE  CopiesInv'
<1>1. pub \in [Events -> PubStates] /\ due \in [Clients -> SUBSET Events]
  BY DEF TypeInv, PubTypeOK, RestTypeOK
<1>2. transcript' = transcript  BY DEF Emit, Publish, tallies
<1>3. Unsent(e)  BY DEF Emit, Publish, Publishable, Unsent
<1>4. CopyInv(e) /\ Untraced(e)  BY <1>3 DEF CopiesInv, CopyInv
<1>5. Home(e) \in {Home(e), Global} /\ Home(e) # Global  BY EventTable
<1>6. ASSUME Send(Home(e), e)
      PROVE  /\ OneCopy(wire', e) /\ ~On(wire', Global, e)
             /\ (\A f \in Events, c \in Clients : (f # e /\ f \in due'[c]) => f \in due[c])
                  => \A f \in Events : f # e => Idle(f)
  <2>1. OneCopy(wire', e) /\ ~On(wire', Global, e)
    BY <1>4, <1>5, <1>6, SendCopy DEF CopyInv, Untraced
  <2> QED  BY <2>1, <1>2, <1>5, <1>6, SendIdles
<1>7. CASE Emit(e)
  <2>1. Send(Home(e), e) /\ EventOf[e].via = "emitter"  BY <1>7 DEF Emit, Home
  <2>2. pub'[e] = "done" /\ \A f \in Events : f # e => pub'[f] = pub[f]
    BY <1>1, <1>7 DEF Emit
  <2>3. \A f \in Events, c \in Clients : (f # e /\ f \in due'[c]) => f \in due[c]
    BY <1>7 DEF Emit
  <2> QED  BY <2>1, <2>2, <2>3, <1>2, <1>3, <1>6, FirstCopy
<1>8. CASE Publish(e) /\ Refused(e)
  <2> DEFINE a == EventOf[e].alert
  <2>1. a \in Events /\ a # e  BY <1>8, AlertTable
  <2>2. pub' = RaiseAlert([pub EXCEPT ![e] = "dropped"], e) /\ wire' = wire /\ due' = due
    BY <1>8 DEF Publish, Refused
  <2>3. /\ pub'[a] = "raised" /\ pub'[e] = "dropped"
        /\ \A f \in Events : f \notin {e, a} => pub'[f] = pub[f]
    BY <1>1, <2>1, <2>2 DEF RaiseAlert
  <2>4. \A f \in Events : Idle(f)  BY <1>2, <2>2, IdleStep
  <2>5. ~On(wire', Home(e), e)  BY <1>4, <2>2 DEF Untraced
  <2>6. ~Unsent(e)' /\ PubKept(e)  BY <2>3 DEF Unsent, PubKept
  <2> QED  BY <1>3, <1>8, <2>3, <2>4, <2>5, <2>6, RefusalCopy
<1>9. CASE Publish(e) /\ ~Refused(e) /\ hub = "stopped"
  <2>1. pub' = [pub EXCEPT ![e] = "dropped"] /\ wire' = wire /\ due' = due
    BY <1>9 DEF Publish, Refused
  <2>2. \A f \in Events : Idle(f)  BY <1>2, <2>1, IdleStep
  <2>3. \A f \in Events : PubKept(f)  BY <1>1, <2>1 DEF PubKept
  <2> QED  BY <2>2, <2>3, QuietCopies
<1>10. CASE Publish(e) /\ ~Refused(e) /\ hub # "stopped"
  <2>1. /\ pub' = [pub EXCEPT ![e] = "half"] /\ Send(Home(e), e)
        /\ due' = [c \in Clients |-> IF c \in Due(e) THEN due[c] \cup {e} ELSE due[c]]
    BY <1>10 DEF Publish, Refused, Home
  <2>2. pub'[e] = "half" /\ \A f \in Events : f # e => pub'[f] = pub[f]
    BY <1>1, <2>1
  <2>3. \A f \in Events, c \in Clients : (f # e /\ f \in due'[c]) => f \in due[c]
    BY <2>1
  <2>4. EventOf[e].via # "emitter" /\ (pub[e] = "raised" \/ EventOf[e].via # "sink")
    BY <1>10 DEF Publish, Publishable
  <2> QED  BY <2>1, <2>2, <2>3, <2>4, <1>2, <1>3, <1>6, <1>10, FirstCopy
<1> QED  BY <1>7, <1>8, <1>9, <1>10

LEMMA CopiesInvGlobal ==
  ASSUME TypeInv, CopiesInv, [Next]_vars, NEW e \in Events, PublishGlobal(e)
  PROVE  CopiesInv'
<1>1. pub \in [Events -> PubStates]  BY DEF TypeInv, PubTypeOK
<1>2. /\ pub[e] = "half" /\ Send(Global, e)
      /\ transcript' = transcript /\ due' = due
      /\ pub'[e] = "done" /\ \A f \in Events : f # e => pub'[f] = pub[f]
  BY <1>1 DEF PublishGlobal, tallies
<1>3. Global \in {Home(e), Global} /\ Home(e) # Global  BY EventTable
<1>4. \A f \in Events : f # e => Idle(f)
  <2>1. \A f \in Events, c \in Clients : (f # e /\ f \in due'[c]) => f \in due[c]
    BY <1>2
  <2> QED  BY <2>1, <1>2, <1>3, SendIdles
<1>5. ASSUME NEW f \in Events, f # e PROVE CopyInv(f)'
  <2>1. CopyInv(f) /\ Idle(f) /\ PubKept(f)  BY <1>2, <1>4, <1>5 DEF CopiesInv, PubKept
  <2>2. ASSUME Refused(f), Unsent(f) \/ On(wire, Home(f), f)
        PROVE  Idle(EventOf[f].alert) /\ PubKept(EventOf[f].alert)
    <3>1. EventOf[f].alert \in Events  BY <2>2, AlertTable
    <3>2. pub[EventOf[f].alert] \in {"unpublished", "dropped"}
      BY <2>1, <2>2 DEF CopyInv, AlertWaits
    <3>3. EventOf[f].alert # e  BY <3>2, <1>2
    <3> QED  BY <3>1, <3>3, <1>2, <1>4 DEF PubKept
  <2> QED  BY <2>1, <2>2, KeptCopy
<1>6. CopyInv(e)'
  <2>1. CopyInv(e) /\ ~On(wire, Global, e) /\ EventOf[e].via # "emitter" /\ ~Refused(e)
    BY <1>2 DEF CopiesInv, CopyInv
  <2>2. OneCopy(wire', e) /\ (On(wire', Home(e), e) => On(wire, Home(e), e))
    BY <2>1, <1>2, <1>3, SendCopy DEF CopyInv
  <2>3. ~Unsent(e)' /\ pub'[e] # "half"  BY <1>2 DEF Unsent
  <2>4. AlertWaits(e)'  BY <2>1 DEF AlertWaits, Refused, ShouldDropForTlp
  <2> QED
    BY <2>1, <2>2, <2>3, <2>4, <1>2 DEF CopyInv, Refused, ShouldDropForTlp, Home
<1> QED  BY <1>5, <1>6 DEF CopiesInv

LEMMA CopiesInvDispatch ==
  ASSUME TypeInv, CopiesInv, [Next]_vars, Dispatch
  PROVE  CopiesInv'
<1>0. PICK e, ch : e = Head(wire).of /\ ch = Head(wire).channel  OBVIOUS
<1>1. /\ wire # << >> /\ wire' = Tail(wire) /\ due' = due
      /\ wire \in Seq(RightMessage) /\ pub \in [Events -> PubStates]
      /\ transcript \in [Events -> Nat]
  BY DEF Dispatch, DispatchNotification, DispatchDrops, DispatchEvent, Listening, TypeInv,
         PubTypeOK
<1>2. ch # "notification" => e \in Events /\ ch \in {Global, Home(e)}
  BY <1>0, <1>1, HeadTable DEF Home
<1>3. /\ On(wire, ch, e)
      /\ \A f : (OneCopy(wire, f) /\ f = e /\ ch # "notification") => ~On(wire', ch, f)
  BY <1>0, <1>1, WireTail
<1>4. \A f \in Events : transcript'[f] = transcript[f] => Idle(f)  BY <1>1, IdleStep
<1>5. CASE DispatchNotification
  <2>1. pub' = pub /\ transcript' = transcript  BY <1>5 DEF DispatchNotification
  <2> QED  BY <2>1, <1>4, QuietCopies DEF PubKept
<1>6. CASE DispatchDrops
  <2> DEFINE a == EventOf[e].alert
  <2>1. /\ ch # "notification" /\ Refused(e)
        /\ pub' = RaiseAlert(pub, e) /\ transcript' = transcript
    BY <1>0, <1>6 DEF DispatchDrops, Refused
  <2>2. e \in Events /\ CopyInv(e)  BY <2>1, <1>2 DEF CopiesInv
  <2>3. a \in Events /\ a # e  BY <2>1, <2>2, AlertTable
  <2>4. ch = Home(e) /\ On(wire, Home(e), e)  BY <2>1, <2>2, <1>2, <1>3 DEF CopyInv
  <2>5. ~On(wire', Home(e), e)  BY <2>1, <2>2, <2>4, <1>3 DEF CopyInv
  <2>6. pub'[a] = "raised" /\ pub'[e] = pub[e]
        /\ \A f \in Events : f \notin {e, a} => pub'[f] = pub[f]
    BY <2>1, <2>2, <2>3, <1>1 DEF RaiseAlert
  <2>7. ~Unsent(e)  BY <2>2, <2>4 DEF CopyInv, Untraced
  <2>8. ~Unsent(e)' /\ PubKept(e)  BY <2>6, <2>7 DEF Unsent, PubKept
  <2>9. \A f \in Events : Idle(f)  BY <2>1, <1>4
  <2> QED  BY <2>1, <2>2, <2>4, <2>5, <2>6, <2>8, <2>9, RefusalCopy
<1>7. CASE DispatchEvent
  <2>1. /\ ch # "notification" /\ ~Refused(e) /\ pub' = pub
        /\ transcript' = [transcript EXCEPT ![e] = IF Persists(Head(wire)) THEN @ + 1 ELSE @]
    BY <1>0, <1>7 DEF DispatchEvent, Refused
  <2>2. e \in Events /\ CopyInv(e)  BY <2>1, <1>2 DEF CopiesInv
  <2>3. ch = Global => transcript'[e] = transcript[e]
    BY <1>0, <2>1, <2>2, <1>1 DEF Persists
  <2>4. transcript'[e] \in {transcript[e], transcript[e] + 1}  BY <2>1, <2>2, <1>1
  <2>5. \A f \in Events : f # e => Idle(f)  BY <2>1, <2>2, <1>1, <1>4
  <2>6. \A f \in Events : PubKept(f)  BY <2>1 DEF PubKept
  <2>7. CASE ch = Global
    <3>1. Idle(e)  BY <2>2, <2>3, <2>7, <1>4
    <3> QED  BY <3>1, <2>5, <2>6, QuietCopies
  <2>8. CASE ch # Global
    <3>1. ch = Home(e) /\ On(wire, Home(e), e)  BY <2>1, <2>8, <1>2, <1>3
    <3>2. ~On(wire', Home(e), e)  BY <2>1, <2>2, <3>1, <1>3 DEF CopyInv
    <3>3. ASSUME NEW f \in Events, f # e PROVE CopyInv(f)'
      <4>1. ASSUME Refused(f), Unsent(f) \/ On(wire, Home(f), f)
            PROVE  Idle(EventOf[f].alert) /\ PubKept(EventOf[f].alert)
        <5>1. EventOf[f].alert \in Events  BY <4>1, AlertTable
        <5>2. Untraced(EventOf[f].alert)  BY <4>1 DEF CopiesInv, CopyInv, AlertWaits
        <5>3. EventOf[f].alert # e  BY <5>2, <3>1 DEF Untraced
        <5> QED  BY <5>1, <5>3, <2>5, <2>6
      <4>2. CopyInv(f) /\ Idle(f) /\ PubKept(f)  BY <3>3, <2>5, <2>6 DEF CopiesInv
      <4> QED  BY <4>1, <4>2, KeptCopy
    <3>4. CopyInv(e)'
      <4>1. OneCopy(wire', e) /\ (On(wire', Global, e) => On(wire, Global, e))
        BY <2>2, <1>1, WireTail DEF CopyInv
      <4>2. transcript[e] = 0 /\ ~Unsent(e)  BY <3>1, <2>2 DEF CopyInv, Untraced
      <4>3. transcript'[e] <= 1  BY <4>2, <2>4
      <4>4. ~Unsent(e)' /\ pub'[e] = pub[e]  BY <4>2, <2>1 DEF Unsent
      <4>5. AlertWaits(e)'  BY <2>1 DEF AlertWaits, Refused, ShouldDropForTlp
      <4> QED
        BY <4>1, <4>3, <4>4, <4>5, <3>2, <2>2 DEF CopyInv, Refused, ShouldDropForTlp, Home
    <3> QED  BY <3>3, <3>4 DEF CopiesInv
  <2> QED  BY <2>7, <2>8
<1> QED  BY <1>5, <1>6, <1>7 DEF Dispatch

LEMMA CopiesInvInit == Init => CopiesInv
<1> SUFFICES ASSUME Init PROVE CopiesInv  OBVIOUS
<1>1. wire = << >> /\ \A e \in Events : transcript[e] = 0 /\ pub[e] \in {"unpublished", "dropped"}
  BY DEF Init
<1>2. ASSUME NEW e \in Events PROVE Untraced(e)
  <2>1. \A c \in Clients : Stream(c) = << >> \o << >> /\ due[c] = {}  BY DEF Init, Stream
  <2>2. << >> \o << >> = << >>  OBVIOUS
  <2>3. << >> \in Seq(Item) /\ 1..Len(<< >>) = {}  BY EmptySeq
  <2>4. e \notin EventsIn(<< >>)  BY <2>3, EventsInSeq
  <2> QED  BY <2>1, <2>2, <2>4, <1>1, WireEmpty DEF Untraced
<1>3. ASSUME NEW e \in Events PROVE CopyInv(e)
  <2>1. Refused(e) => EventOf[e].alert \in Events  BY AlertTable
  <2>2. AlertWaits(e)  BY <2>1, <1>1, <1>2 DEF AlertWaits
  <2>3. Untraced(e) /\ OneCopy(wire, e)  BY <1>1, <1>2, WireEmpty
  <2>4. ~On(wire, Home(e), e) /\ ~On(wire, Global, e)  BY <2>3 DEF Untraced
  <2> QED  BY <2>2, <2>3, <2>4, <1>1 DEF CopyInv
<1> QED  BY <1>3 DEF CopiesInv

(* Connections, senders, failures: no copy is sent. *)
LEMMA CopiesInvStep == TypeInv /\ CopiesInv /\ [Next]_vars => CopiesInv'
<1> SUFFICES ASSUME TypeInv, CopiesInv, [Next]_vars PROVE CopiesInv'  OBVIOUS
<1>1. due \in [Clients -> SUBSET Events] /\ pub \in [Events -> PubStates]
  BY DEF TypeInv, RestTypeOK, PubTypeOK
<1>2. ASSUME wire' = wire \/ wire' = << >>
                \/ \E u \in Users : wire' = Append(wire, [channel |-> "notification", of |-> u]),
             transcript' = transcript, \A e \in Events : PubKept(e),
             \A c \in Clients : due'[c] \subseteq due[c]
      PROVE  CopiesInv'
  <2>1. \A e \in Events : Idle(e)  BY <1>2, IdleStep
  <2> QED  BY <2>1, <1>2, QuietCopies
<1>3. pub' = pub => \A e \in Events : PubKept(e)  BY DEF PubKept
<1>4. due' = due => \A c \in Clients : due'[c] \subseteq due[c]  OBVIOUS
<1>5. ASSUME NEW c \in Clients,
             \/ Connect(c) \/ Accepted(c) \/ NotAccepted(c) \/ Register(c) \/ Disconnect(c)
             \/ Sent(c) \/ SendFails(c)
             \/ \E i \in Invs : Subscribe(c, i) \/ Unsubscribe(c, i)
      PROVE  CopiesInv'
  <2>1. wire' = wire /\ transcript' = transcript /\ pub' = pub
    BY <1>5 DEF Connect, Accepted, NotAccepted, Register, Disconnect, Sent, SendFails,
                Subscribe, Unsubscribe, pubVars, tallies
  <2>2. \A d \in Clients : due'[d] \subseteq due[d]
    <3>1. CASE Disconnect(c)  BY <1>1, <3>1 DEF Disconnect
    <3>2. ASSUME NEW i \in Invs, Subscribe(c, i) \/ Unsubscribe(c, i)
          PROVE  \A d \in Clients : due'[d] \subseteq due[d]
      BY <1>1, <3>2 DEF Subscribe, Unsubscribe
    <3>3. CASE \/ Connect(c) \/ Accepted(c) \/ NotAccepted(c) \/ Register(c)
               \/ Sent(c) \/ SendFails(c)
      BY <3>3 DEF Connect, Accepted, NotAccepted, Register, Sent, SendFails
    <3> QED  BY <1>5, <3>1, <3>2, <3>3
  <2> QED  BY <2>1, <2>2, <1>2, <1>3
<1>6. ASSUME NEW e \in Events, PublishGlobalFails(e) PROVE CopiesInv'
  <2>1. \A f \in Events : PubKept(f)  BY <1>1, <1>6 DEF PublishGlobalFails, PubKept
  <2> QED  BY <2>1, <1>2, <1>4, <1>6 DEF PublishGlobalFails, tallies
<1>7. ASSUME NEW u \in Users, SendInapp(u) PROVE CopiesInv'
  BY <1>2, <1>3, <1>4, <1>7 DEF SendInapp, Send
<1>8. CASE ListenerSubscribes \/ ListenerCrashes \/ Stop
  BY <1>2, <1>3, <1>4, <1>8 DEF ListenerSubscribes, ListenerCrashes, Stop, pubVars, tallies
<1>9. CASE UNCHANGED vars
  BY <1>2, <1>3, <1>4, <1>9 DEF vars, pubVars, tallies
<1> QED
  BY <1>5, <1>6, <1>7, <1>8, <1>9, CopiesInvPublish, CopiesInvGlobal, CopiesInvDispatch
  DEF Next

-----------------------------------------------------------------------------
(* Deliveries. A client that is entitled to an event, and has not changed  *)
(* its subscription since, is served by one of the two copies, always the  *)
(* same one, and has the event or is still to get it.                      *)

Route(c, e) == IF Home(e) \in subs[c] THEN Home(e) ELSE Global

Coming(c, e) ==
  On(wire, Route(c, e), e) \/ (Route(c, e) = Global /\ pub[e] = "half")

DueFor(c, e) ==
  /\ c \in Entitled(e) /\ ~Refused(e)
  /\ Once(Stream(c), e)
  /\ Coming(c, e) => e \notin EventsIn(Stream(c))
  /\ (hub = "running" /\ sender[c] # "ended")
       => \/ e \in EventsIn(Stream(c)) \/ e \in dropped[c]
          \/ Coming(c, e) \/ (Route(c, e) = Global /\ pub[e] = "lost")

DueInv == \A c \in Clients : \A e \in due[c] : DueFor(c, e)

LEMMA EntitledTable ==
  ASSUME NEW c \in Clients, NEW e \in Events
  PROVE  /\ c \in Entitled(e)
              <=> /\ conn[c] = "open"
                  /\ IF Home(e) \in subs[c] THEN PassesOrgFilter(c, e, FALSE)
                     ELSE /\ RouteOf[c] = Global /\ EventOf[e].via # "emitter"
                          /\ PassesOrgFilter(c, e, TRUE)
         /\ c \in Entitled(e)' <=> /\ conn'[c] = "open"
                  /\ IF Home(e) \in subs'[c] THEN PassesOrgFilter(c, e, FALSE)
                     ELSE /\ RouteOf[c] = Global /\ EventOf[e].via # "emitter"
                          /\ PassesOrgFilter(c, e, TRUE)
BY DEF Entitled, Subscribers, GlobalClients, Home, PassesOrgFilter

(* While an event is due to it, a client stays where it is. *)
LEMMA ClientStays ==
  ASSUME TypeInv, [Next]_vars, NEW c \in Clients, NEW e \in Events,
         e \in due'[c], conn[c] = "open"
  PROVE  /\ conn'[c] = "open" /\ (Home(e) \in subs'[c] <=> Home(e) \in subs[c])
         /\ sender[c] = "ended" => sender'[c] = "ended"
<1> DEFINE Stays == /\ conn'[c] = "open" /\ (Home(e) \in subs'[c] <=> Home(e) \in subs[c])
                    /\ sender[c] = "ended" => sender'[c] = "ended"
<1>1. /\ conn \in [Clients -> ConnStates] /\ subs \in [Clients -> SUBSET Invs]
      /\ sender \in [Clients -> {"none", "running", "ended"}]
      /\ due \in [Clients -> SUBSET Events]
  BY DEF TypeInv, ConnTypeOK, QueueTypeOK, RestTypeOK
<1>2. CASE UNCHANGED <<conn, subs, sender>>  BY <1>2
<1>3. ASSUME NEW d \in Clients, Connect(d) \/ NotAccepted(d) PROVE Stays
  <2>1. conn[d] # "open"  BY <1>3 DEF Connect, NotAccepted
  <2> QED  BY <2>1, <1>1, <1>3 DEF Connect, NotAccepted, queueVars
<1>4. ASSUME NEW d \in Clients, Accepted(d) PROVE Stays
  <2>1. conn[d] # "open"  BY <1>4 DEF Accepted
  <2> QED  BY <2>1, <1>1, <1>4 DEF Accepted
<1>5. ASSUME NEW d \in Clients, Register(d) PROVE Stays
  <2>1. conn[d] # "open"  BY <1>5 DEF Register
  <2> QED  BY <2>1, <1>1, <1>5 DEF Register
<1>6. ASSUME NEW d \in Clients, Disconnect(d) PROVE Stays
  <2>1. d # c  BY <1>1, <1>6 DEF Disconnect
  <2> QED  BY <2>1, <1>1, <1>6 DEF Disconnect
<1>7. ASSUME NEW d \in Clients, Sent(d) \/ SendFails(d) PROVE Stays
  BY <1>1, <1>7 DEF Sent, SendFails, connVars
<1>8. ASSUME NEW d \in Clients, NEW i \in Invs, Subscribe(d, i) \/ Unsubscribe(d, i)
      PROVE  Stays
  <2>1. d = c => i # Home(e)
    BY <1>1, <1>8 DEF Subscribe, Unsubscribe, OfInv, Home
  <2>2. conn'[c] = "open" /\ sender' = sender  BY <1>8 DEF Subscribe, Unsubscribe
  <2>3. Home(e) \in subs'[c] <=> Home(e) \in subs[c]
    <3>1. CASE Subscribe(d, i)  BY <2>1, <3>1, <1>1 DEF Subscribe
    <3>2. CASE Unsubscribe(d, i)  BY <2>1, <3>2, <1>1 DEF Unsubscribe
    <3> QED  BY <3>1, <3>2, <1>8
  <2> QED  BY <2>2, <2>3
<1>9. ASSUME NEW f \in Events,
             Emit(f) \/ Publish(f) \/ PublishGlobal(f) \/ PublishGlobalFails(f)
      PROVE  UNCHANGED <<conn, subs, sender>>
  BY <1>9 DEF Emit, Publish, PublishGlobal, PublishGlobalFails, connVars, queueVars
<1>10. ASSUME NEW u \in Users, SendInapp(u) PROVE UNCHANGED <<conn, subs, sender>>
  BY <1>10 DEF SendInapp, connVars, queueVars
<1>11. ASSUME Dispatch \/ ListenerSubscribes \/ ListenerCrashes \/ Stop \/ UNCHANGED vars
       PROVE  UNCHANGED <<conn, subs, sender>>
  BY <1>11 DEF Dispatch, ListenerSubscribes, ListenerCrashes, Stop, vars, connVars, queueVars
<1> QED
  BY <1>2, <1>3, <1>4, <1>5, <1>6, <1>7, <1>8, <1>9, <1>10, <1>11 DEF Next

(* A client to which an event becomes due is entitled to it as its first   *)
(* copy is sent, with the listener listening or gone but not yet to come.  *)
LEMMA NewlyDue ==
  ASSUME TypeInv, [Next]_vars, NEW c \in Clients, NEW e \in Events,
         e \in due'[c], e \notin due[c]
  PROVE  /\ Emit(e) \/ Publish(e)
         /\ Send(Home(e), e) /\ c \in Entitled(e) /\ ~Refused(e)
         /\ UNCHANGED <<hub, conn, subs, queue, sender, received>> /\ hub # "starting"
         /\ Emit(e) => EventOf[e].via = "emitter"
         /\ Publish(e) => pub'[e] = "half"
<1>0. due \in [Clients -> SUBSET Events] /\ pub \in [Events -> PubStates]
  BY DEF TypeInv, RestTypeOK, PubTypeOK
<1>1. ASSUME NEW f \in Events, Emit(f)
      PROVE  f = e /\ c \in Entitled(e) /\ ~Refused(e) /\ hub # "starting"
  <2>1. f = e /\ c \in Due(e) /\ ~Refused(e)  BY <1>0, <1>1 DEF Emit, Refused
  <2> QED  BY <2>1 DEF Due
<1>2. ASSUME NEW f \in Events, Publish(f)
      PROVE  /\ f = e /\ c \in Entitled(e) /\ ~Refused(e) /\ Send(Home(e), e)
             /\ pub'[e] = "half" /\ hub # "starting"
  <2>1. /\ f = e /\ c \in Due(e) /\ ~Refused(e) /\ Send(Home(e), e)
        /\ pub'[e] = "half"
    BY <1>0, <1>2 DEF Publish, Refused, Home
  <2> QED  BY <2>1 DEF Due
<1>3. Emit(e) \/ Publish(e)
  <2>1. due' = due => FALSE  OBVIOUS
  <2>2. ASSUME NEW d \in Clients, NEW i \in Invs, Subscribe(d, i) \/ Unsubscribe(d, i)
        PROVE  FALSE
    BY <1>0, <2>2 DEF Subscribe, Unsubscribe
  <2>3. ASSUME NEW d \in Clients, Disconnect(d) PROVE FALSE
    BY <1>0, <2>3 DEF Disconnect
  <2>4. ASSUME NEW d \in Clients,
               \/ Connect(d) \/ Accepted(d) \/ NotAccepted(d) \/ Register(d)
               \/ Sent(d) \/ SendFails(d)
        PROVE  FALSE
    BY <2>1, <2>4 DEF Connect, Accepted, NotAccepted, Register, Sent, SendFails
  <2>5. ASSUME NEW f \in Events, PublishGlobal(f) \/ PublishGlobalFails(f) PROVE FALSE
    BY <2>1, <2>5 DEF PublishGlobal, PublishGlobalFails
  <2>6. ASSUME NEW u \in Users, SendInapp(u) PROVE FALSE
    BY <2>1, <2>6 DEF SendInapp
  <2>7. ASSUME Dispatch \/ ListenerSubscribes \/ ListenerCrashes \/ Stop \/ UNCHANGED vars
        PROVE  FALSE
    BY <2>1, <2>7 DEF Dispatch, ListenerSubscribes, ListenerCrashes, Stop, vars
  <2> QED
    BY <1>1, <1>2, <2>2, <2>3, <2>4, <2>5, <2>6, <2>7 DEF Next
<1>4. UNCHANGED <<hub, conn, subs, queue, sender, received>>
  BY <1>3 DEF Emit, Publish, connVars, queueVars
<1>5. Emit(e) => Send(Home(e), e) /\ EventOf[e].via = "emitter"  BY DEF Emit, Home
<1> QED  BY <1>1, <1>2, <1>3, <1>4, <1>5

(* As long as the listener has not subscribed, nothing is due to anybody.  *)
StartInv == hub = "starting" => \A c \in Clients : due[c] = {}

LEMMA StartInvStep == TypeInv /\ StartInv /\ [Next]_vars => StartInv'
<1> SUFFICES ASSUME TypeInv, StartInv, [Next]_vars PROVE StartInv'  OBVIOUS
<1>0. TypeInv'  BY TypeInvStep
<1> SUFFICES ASSUME hub' = "starting", NEW c \in Clients, NEW e \in due'[c]
             PROVE  FALSE
  BY DEF StartInv
<1>1. e \in Events  BY <1>0 DEF TypeInv, RestTypeOK
<1>2. CASE hub' = hub
  <2>1. hub = "starting" /\ e \notin due[c]  BY <1>2 DEF StartInv
  <2> QED  BY <2>1, <1>1, NewlyDue
<1>3. ASSUME NEW d \in Clients,
             \/ Connect(d) \/ Accepted(d) \/ NotAccepted(d) \/ Register(d) \/ Disconnect(d)
             \/ Sent(d) \/ SendFails(d)
             \/ \E i \in Invs : Subscribe(d, i) \/ Unsubscribe(d, i)
      PROVE  hub' = hub
  BY <1>3 DEF Connect, Accepted, NotAccepted, Register, Disconnect, Sent, SendFails,
              Subscribe, Unsubscribe, connVars
<1>4. ASSUME NEW f \in Events,
             Emit(f) \/ Publish(f) \/ PublishGlobal(f) \/ PublishGlobalFails(f)
      PROVE  hub' = hub
  BY <1>4 DEF Emit, Publish, PublishGlobal, PublishGlobalFails
<1>5. ASSUME NEW u \in Users, SendInapp(u) PROVE hub' = hub
  BY <1>5 DEF SendInapp
<1>6. ASSUME Dispatch \/ UNCHANGED vars PROVE hub' = hub
  BY <1>6 DEF Dispatch, vars
<1>7. ASSUME ListenerSubscribes \/ ListenerCrashes \/ Stop PROVE FALSE
  BY <1>7 DEF ListenerSubscribes, ListenerCrashes, Stop
<1> QED  BY <1>2, <1>3, <1>4, <1>5, <1>6, <1>7 DEF Next

(* What one step may do to the copies of an event that is due to somebody. *)
SameCopies(e) ==
  /\ pub'[e] = pub[e]
  /\ \A channel \in {Home(e), Global} : On(wire', channel, e) <=> On(wire, channel, e)

SecondCopy(e) ==
  /\ pub[e] = "half" /\ pub'[e] = "done"
  /\ \A channel \in {Home(e), Global} :
       On(wire', channel, e)
         <=> On(wire, channel, e) \/ (channel = Global /\ hub = "running")

CopyLost(e) ==
  \/ pub[e] = "half" /\ pub'[e] = "lost" /\ wire' = wire
  \/ hub' # "running" /\ wire' = << >> /\ pub' = pub

CopyMove(e) ==
  /\ SameCopies(e) \/ SecondCopy(e) \/ CopyLost(e)
  /\ dispatched' = dispatched /\ (hub' = "running" => hub = "running")

LEMMA SameCopiesStep ==
  ASSUME TypeInv, NEW e \in Events, pub'[e] = pub[e],
         \/ wire' = wire
         \/ \E u \in Users : wire' = Append(wire, [channel |-> "notification", of |-> u])
  PROVE  SameCopies(e)
<1>1. wire \in Seq(RightMessage)  BY DEF TypeInv, PubTypeOK
<1>2. ASSUME NEW u \in Users,
             wire' = Append(wire, [channel |-> "notification", of |-> u])
      PROVE  SameCopies(e)
  <2> DEFINE x == [channel |-> "notification", of |-> u]
  <2>1. x \in RightMessage /\ x.channel = "notification"  BY DEF RightMessage, Message
  <2>2. wire' = Append(wire, x)  BY <1>2
  <2> HIDE DEF x
  <2> QED  BY <1>1, <2>1, <2>2, WireAppend, EventTable DEF SameCopies
<1> QED  BY <1>2 DEF SameCopies

LEMMA DueCopies ==
  ASSUME TypeInv, CopiesInv, StartInv, [Next]_vars, NEW c \in Clients, NEW e \in due[c]
  PROVE  CopyMove(e) \/ (Dispatch /\ pub'[e] = pub[e])
<1>1. /\ pub \in [Events -> PubStates] /\ due \in [Clients -> SUBSET Events]
  BY DEF TypeInv, PubTypeOK, RestTypeOK
<1>2. e \in Events  BY <1>1
<1>3. ~Untraced(e)  BY DEF Untraced
<1>4. ~Unsent(e)  BY <1>2, <1>3 DEF CopiesInv, CopyInv
<1>5. ASSUME NEW f \in Events, Refused(f), Unsent(f) \/ On(wire, Home(f), f)
      PROVE  EventOf[f].alert # e
  BY <1>3, <1>5 DEF CopiesInv, CopyInv, AlertWaits
<1>6. ASSUME NEW d \in Clients,
             \/ Connect(d) \/ Accepted(d) \/ NotAccepted(d) \/ Register(d) \/ Disconnect(d)
             \/ Sent(d) \/ SendFails(d)
             \/ \E i \in Invs : Subscribe(d, i) \/ Unsubscribe(d, i)
      PROVE  CopyMove(e)
  <2>1. wire' = wire /\ pub' = pub /\ dispatched' = dispatched /\ hub' = hub
    BY <1>6 DEF Connect, Accepted, NotAccepted, Register, Disconnect, Sent, SendFails,
                Subscribe, Unsubscribe, pubVars, tallies
  <2> QED  BY <2>1, <1>2, SameCopiesStep DEF CopyMove
<1>7. ASSUME NEW f \in Events, Emit(f) \/ Publish(f) PROVE CopyMove(e)
  <2>1. f # e  BY <1>4, <1>7 DEF Emit, Publish, Publishable, Unsent
  <2>2. Unsent(f)  BY <1>7 DEF Emit, Publish, Publishable, Unsent
  <2>3. dispatched' = dispatched /\ hub' = hub  BY <1>7 DEF Emit, Publish, tallies
  <2>4. pub'[e] = pub[e]
    <3>1. CASE Emit(f)  BY <2>1, <3>1, <1>1, <1>2 DEF Emit
    <3>2. CASE Publish(f) /\ Refused(f)
      <4>1. EventOf[f].alert # e  BY <2>2, <3>2, <1>5
      <4> QED
        BY <4>1, <2>1, <3>2, <1>1, <1>2 DEF Publish, RaiseAlert, Refused
    <3>3. CASE Publish(f) /\ ~Refused(f)
      BY <2>1, <3>3, <1>1, <1>2 DEF Publish, Refused
    <3> QED  BY <1>7, <3>1, <3>2, <3>3
  <2>5. SameCopies(e)
    <3>1. CASE wire' = wire  BY <2>4, <3>1, <1>2, SameCopiesStep
    <3>2. CASE Send(Home(f), f)
      <4>1. \A ch : On(wire', ch, e) <=> On(wire, ch, e)
        BY <1>2, <2>1, <3>2, SendCopy
      <4> QED  BY <4>1, <2>4 DEF SameCopies
    <3>3. wire' = wire \/ Send(Home(f), f)  BY <1>7 DEF Emit, Publish, Home
    <3> QED  BY <3>1, <3>2, <3>3
  <2> QED  BY <2>3, <2>5 DEF CopyMove
<1>8. ASSUME NEW f \in Events, PublishGlobal(f) PROVE CopyMove(e)
  <2>1. /\ Send(Global, f) /\ dispatched' = dispatched /\ hub' = hub
        /\ pub[f] = "half" /\ pub' = [pub EXCEPT ![f] = "done"]
    BY <1>8 DEF PublishGlobal, tallies
  <2>2. CASE f = e
    <3>1. pub'[e] = "done" /\ Home(e) # Global  BY <2>1, <2>2, <1>1, <1>2, EventTable
    <3>2. CASE hub = "running"
      <4>1. \A channel \in {Home(e), Global} :
              On(wire', channel, e) <=> On(wire, channel, e) \/ channel = Global
        BY <2>1, <2>2, <1>2, <3>2, SendCopy
      <4> QED  BY <4>1, <3>1, <3>2, <2>1, <2>2 DEF CopyMove, SecondCopy
    <3>3. CASE hub # "running"
      BY <3>1, <3>3, <2>1, <2>2 DEF CopyMove, SecondCopy, Send
    <3> QED  BY <3>2, <3>3
  <2>3. CASE f # e
    <3>1. \A ch : On(wire', ch, e) <=> On(wire, ch, e)
      BY <2>1, <2>3, <1>2, SendCopy
    <3>2. pub'[e] = pub[e]  BY <2>1, <2>3, <1>1, <1>2
    <3> QED  BY <3>1, <3>2, <2>1 DEF CopyMove, SameCopies
  <2> QED  BY <2>2, <2>3
<1>9. ASSUME NEW f \in Events, PublishGlobalFails(f) PROVE CopyMove(e)
  <2>1. /\ wire' = wire /\ dispatched' = dispatched /\ hub' = hub
        /\ pub[f] = "half" /\ pub' = [pub EXCEPT ![f] = "lost"]
    BY <1>9 DEF PublishGlobalFails, tallies
  <2>2. CASE f = e  BY <2>1, <2>2, <1>1, <1>2 DEF CopyMove, CopyLost
  <2>3. CASE f # e
    <3>1. pub'[e] = pub[e]  BY <2>1, <2>3, <1>1, <1>2
    <3> QED  BY <3>1, <2>1, <1>2, SameCopiesStep DEF CopyMove
  <2> QED  BY <2>2, <2>3
<1>10. ASSUME NEW u \in Users, SendInapp(u) PROVE CopyMove(e)
  <2>1. pub'[e] = pub[e] /\ dispatched' = dispatched /\ hub' = hub
    BY <1>10 DEF SendInapp
  <2>2. SameCopies(e)  BY <2>1, <1>2, <1>10, SameCopiesStep DEF SendInapp, Send
  <2> QED  BY <2>1, <2>2 DEF CopyMove
<1>11. CASE ListenerCrashes \/ Stop
  BY <1>11 DEF ListenerCrashes, Stop, CopyMove, CopyLost, tallies
<1>12. CASE UNCHANGED vars
  BY <1>12, <1>2, SameCopiesStep DEF vars, pubVars, tallies, CopyMove
<1>13. CASE Dispatch
  <2>1. CASE DispatchDrops
    <3> DEFINE f == Head(wire).of
    <3>1. /\ wire # << >> /\ Head(wire).channel # "notification" /\ Refused(f)
          /\ pub' = RaiseAlert(pub, f)
      BY <2>1 DEF DispatchDrops, Listening, Refused
    <3>2. f \in Events /\ Head(wire).channel \in {Global, Home(f)}
      BY <3>1, HeadTable DEF Home
    <3>3. On(wire, Head(wire).channel, f)
      <4>1. wire \in Seq(RightMessage)  BY DEF TypeInv, PubTypeOK
      <4> QED  BY <4>1, <3>1, WireTail
    <3> HIDE DEF f
    <3>4. On(wire, Home(f), f)  BY <3>1, <3>2, <3>3 DEF CopiesInv, CopyInv
    <3>5. EventOf[f].alert # e  BY <3>1, <3>2, <3>4, <1>5
    <3>6. pub'[e] = pub[e]  BY <3>1, <3>5, <1>1, <1>2 DEF RaiseAlert
    <3> QED  BY <3>6, <1>13
  <2>2. CASE DispatchNotification \/ DispatchEvent
    BY <2>2, <1>13 DEF DispatchNotification, DispatchEvent
  <2> QED  BY <2>1, <2>2, <1>13 DEF Dispatch
<1>14. ~ListenerSubscribes  BY DEF StartInv, ListenerSubscribes
<1> QED
  BY <1>6, <1>7, <1>8, <1>9, <1>10, <1>11, <1>12, <1>13, <1>14 DEF Next

LEMMA DeliveredIsComing ==
  ASSUME TypeInv, NEW c \in Clients, NEW e \in Events, c \in Entitled(e), Delivers(c),
         e = Head(wire).of
  PROVE  Head(wire).channel = Route(c, e) /\ On(wire, Route(c, e), e)
<1>1. /\ wire # << >> /\ Head(wire).channel # "notification"
      /\ c \in Targets(e, Head(wire).channel)
  BY DEF Delivers
<1>2. Head(wire).channel \in {Global, Home(e)} /\ wire \in Seq(RightMessage)
  BY <1>1, HeadTable DEF Home, TypeInv, PubTypeOK
<1>3. Head(wire).channel = Route(c, e)
  <2>1. CASE Head(wire).channel = Global
    BY <1>1, <2>1 DEF Targets, Route, Home
  <2>2. CASE Head(wire).channel = Home(e) /\ Home(e) # Global
    BY <1>1, <2>2 DEF Targets, Subscribers, Route
  <2> QED  BY <1>2, <2>1, <2>2, EventTable
<1>4. On(wire, Head(wire).channel, e)  BY <1>1, <1>2, WireTail
<1> QED  BY <1>3, <1>4

(* Conversely, dispatching the copy that serves the client puts the event  *)
(* into its queue, unless backpressure takes it at once.                   *)
LEMMA ComingIsDelivered ==
  ASSUME TypeInv, [Next]_vars, Dispatch, NEW c \in Clients, NEW e \in Events,
         c \in Entitled(e), ~Refused(e),
         Head(wire).channel = Route(c, e), Head(wire).of = e
  PROVE  e \in EventsIn(Stream(c)') \/ e \in dropped'[c]
<1>1. Route(c, e) # "notification" /\ Route(c, e) \in {Home(e), Global} /\ Home(e) # Global
  BY EventTable DEF Route
<1>2. DispatchEvent
  BY <1>1 DEF Dispatch, DispatchNotification, DispatchDrops, DispatchEvent, Refused
<1>3. c \in Targets(Head(wire).of, Head(wire).channel)
  BY <1>1, EntitledTable DEF Targets, Route, Subscribers, GlobalClients, Home
<1> DEFINE x == Event(Head(wire).of, dispatched + 1)
<1>4. /\ x \in Item /\ queue'[c] = Enqueue(queue[c], x)
      /\ dropped'[c] = dropped[c] \cup (EventsIn(Append(queue[c], x)) \ EventsIn(queue'[c]))
  BY <1>2, <1>3, DispatchReaches
<1>5. x.type = "event" /\ x.event = e  BY DEF Event
<1> HIDE DEF x
<1>6. e \in EventsIn(Append(queue[c], x))  BY <1>4, <1>5, StreamType, AppendHolds
<1>7. e \in EventsIn(queue'[c]) \/ e \in dropped'[c]  BY <1>4, <1>6
<1>8. e \in EventsIn(queue'[c]) => e \in EventsIn(Stream(c)')
  <2>1. TypeInv'  BY TypeInvStep
  <2>2. queue'[c] \in Seq(Item) /\ received'[c] \in Seq(Item)
    BY <2>1 DEF TypeInv, QueueTypeOK
  <2> QED  BY <2>2, ConcatEvents DEF Stream
<1> QED  BY <1>7, <1>8

LEMMA DueKept ==
  ASSUME TypeInv, CopiesInv, StartInv, [Next]_vars, NEW c \in Clients, NEW e \in due[c],
         e \in due'[c], DueFor(c, e)
  PROVE  DueFor(c, e)'
<1>1. e \in Events /\ dispatched \in Nat /\ wire \in Seq(RightMessage)
  BY DEF TypeInv, RestTypeOK, PubTypeOK
<1>2. c \in Entitled(e) /\ ~Refused(e) /\ conn[c] = "open" /\ Once(Stream(c), e)
  BY <1>1, EntitledTable DEF DueFor
<1>3. /\ conn'[c] = "open" /\ (Home(e) \in subs'[c] <=> Home(e) \in subs[c])
      /\ sender[c] = "ended" => sender'[c] = "ended"
  BY <1>1, <1>2, ClientStays
<1>4. PICK r : r = Route(c, e)  OBVIOUS
<1>5. r \in {Home(e), Global} /\ Route(c, e)' = r
  BY <1>3, <1>4 DEF Route, Home
<1>6. c \in Entitled(e)' /\ ~Refused(e)'
  BY <1>1, <1>2, <1>3, EntitledTable DEF Refused, ShouldDropForTlp
<1>7. CopyInv(e)  BY <1>1 DEF CopiesInv
<1>8. /\ Coming(c, e) <=> On(wire, r, e) \/ (r = Global /\ pub[e] = "half")
      /\ Coming(c, e)' <=> On(wire', r, e) \/ (r = Global /\ pub'[e] = "half")
  BY <1>4, <1>5 DEF Coming
<1>9. (Delivers(c) /\ e = Head(wire).of) => Head(wire).channel = r /\ On(wire, r, e)
  BY <1>1, <1>2, <1>4, DeliveredIsComing
<1>10. (Delivers(c) /\ e = Head(wire).of) => e \notin EventsIn(Stream(c))
  BY <1>8, <1>9 DEF DueFor
<1>11. Once(Stream(c), e)'  BY <1>1, <1>2, <1>10, StreamEvents DEF Once, Stream
<1>12. /\ Coming(c, e)' => Coming(c, e) /\ ~(Delivers(c) /\ e = Head(wire).of)
       /\ hub' = "running" => hub = "running"
       /\ (Coming(c, e) /\ hub' = "running")
            => \/ Coming(c, e)' \/ e \in EventsIn(Stream(c)') \/ e \in dropped'[c]
               \/ (r = Global /\ pub'[e] = "lost")
       /\ pub[e] = "lost" => pub'[e] = "lost"
  <2>1. CASE CopyMove(e)
    <3>1. ~Delivers(c)  BY <2>1, <1>1 DEF CopyMove, Delivers
    <3>2. hub' = "running" => hub = "running"  BY <2>1 DEF CopyMove
    <3>3. CASE SameCopies(e)
      <4>1. pub'[e] = pub[e] /\ (On(wire', r, e) <=> On(wire, r, e))
        BY <3>3, <1>5 DEF SameCopies
      <4> QED  BY <4>1, <3>1, <3>2, <1>8
    <3>4. CASE SecondCopy(e)
      <4>1. /\ pub[e] = "half" /\ pub'[e] = "done"
            /\ On(wire', r, e) <=> On(wire, r, e) \/ (r = Global /\ hub = "running")
        BY <3>4, <1>5 DEF SecondCopy
      <4> QED  BY <4>1, <3>1, <3>2, <1>8
    <3>5. CASE CopyLost(e)
      <4>1. \/ pub[e] = "half" /\ pub'[e] = "lost" /\ wire' = wire
            \/ hub' # "running" /\ ~On(wire', r, e) /\ pub' = pub
        BY <3>5, WireEmpty DEF CopyLost
      <4> QED  BY <4>1, <3>1, <3>2, <1>8
    <3> QED  BY <2>1, <3>3, <3>4, <3>5 DEF CopyMove
  <2>2. CASE Dispatch /\ pub'[e] = pub[e]
    <3>1. wire # << >> /\ wire' = Tail(wire) /\ hub' = hub
      BY <2>2 DEF Dispatch, DispatchNotification, DispatchDrops, DispatchEvent, Listening
    <3>2. On(wire', r, e) => On(wire, r, e)  BY <1>1, <3>1, WireTail
    <3>3. Coming(c, e)' => Coming(c, e)  BY <3>2, <2>2, <1>8
    <3>4. ASSUME Coming(c, e)', Delivers(c), e = Head(wire).of PROVE FALSE
      <4>1. Head(wire).channel = r /\ On(wire, r, e)  BY <3>4, <1>9
      <4>2. ~On(wire', r, e)
        BY <4>1, <3>1, <3>4, <1>1, <1>7, WireTail DEF CopyInv, Delivers
      <4>3. r = Global /\ pub[e] = "half"  BY <3>4, <4>2, <2>2, <1>8
      <4> QED  BY <4>1, <4>3, <1>7 DEF CopyInv
    <3>5. ASSUME Coming(c, e)
          PROVE  Coming(c, e)' \/ e \in EventsIn(Stream(c)') \/ e \in dropped'[c]
      <4>1. CASE r = Global /\ pub[e] = "half"  BY <4>1, <2>2, <1>8
      <4>2. CASE On(wire', r, e)  BY <4>2, <1>8
      <4>3. CASE On(wire, r, e) /\ ~On(wire', r, e)
        <5>1. Head(wire).channel = r /\ Head(wire).of = e
          BY <4>3, <3>1, <1>1, WireTail
        <5> QED  BY <5>1, <2>2, <1>1, <1>2, <1>4, ComingIsDelivered
      <4> QED  BY <3>5, <4>1, <4>2, <4>3, <1>8
    <3> QED  BY <3>1, <3>3, <3>4, <3>5, <2>2
  <2> QED  BY <2>1, <2>2, DueCopies
<1>13. Coming(c, e)' => e \notin EventsIn(Stream(c)')
  <2> SUFFICES ASSUME Coming(c, e)' PROVE e \notin EventsIn(Stream(c)')  OBVIOUS
  <2>1. e \notin EventsIn(Stream(c))  BY <1>12 DEF DueFor
  <2> QED  BY <2>1, <1>1, <1>12, StreamEvents
<1>14. ASSUME hub' = "running", sender'[c] # "ended"
       PROVE  \/ e \in EventsIn(Stream(c)') \/ e \in dropped'[c]
              \/ Coming(c, e)' \/ (r = Global /\ pub'[e] = "lost")
  <2>1. hub = "running" /\ sender[c] # "ended"  BY <1>3, <1>12, <1>14
  <2>2. \/ e \in EventsIn(Stream(c)) \/ e \in dropped[c]
        \/ Coming(c, e) \/ (r = Global /\ pub[e] = "lost")
    BY <2>1, <1>4 DEF DueFor
  <2>3. /\ e \in EventsIn(Stream(c)) => e \in EventsIn(Stream(c)') \/ e \in dropped'[c]
        /\ e \in dropped[c] => e \in dropped'[c]
    BY <1>1, <1>14, StreamLosses
  <2> QED  BY <2>2, <2>3, <1>12, <1>14
<1>15. EventsIn(Stream(c))' = EventsIn(Stream(c)')  BY DEF EventsIn, Stream
<1> QED  BY <1>5, <1>6, <1>11, <1>13, <1>14, <1>15 DEF DueFor

(* Who is entitled to an event when its first copy is sent is served by    *)
(* that copy, or by the second.                                            *)
LEMMA DueNew ==
  ASSUME TypeInv, CopiesInv, [Next]_vars, NEW c \in Clients, NEW e \in Events,
         e \in due'[c], e \notin due[c]
  PROVE  DueFor(c, e)'
<1>1. /\ Emit(e) \/ Publish(e)
      /\ Send(Home(e), e) /\ c \in Entitled(e) /\ ~Refused(e)
      /\ UNCHANGED <<hub, conn, subs, queue, sender, received>>
      /\ Emit(e) => EventOf[e].via = "emitter"
      /\ Publish(e) => pub'[e] = "half"
  BY NewlyDue
<1>2. Unsent(e)  BY <1>1 DEF Emit, Publish, Publishable, Unsent
<1>3. Untraced(e) /\ Home(e) # Global  BY <1>2, EventTable DEF CopiesInv, CopyInv
<1>4. e \notin EventsIn(Stream(c)) /\ Stream(c)' = Stream(c)
  BY <1>1, <1>3 DEF Untraced, Stream
<1>5. c \in Entitled(e)' /\ ~Refused(e)'
  BY <1>1, EntitledTable DEF Refused, ShouldDropForTlp
<1>6. EventsIn(Stream(c))' = EventsIn(Stream(c))  BY <1>4 DEF EventsIn
<1>7. Once(Stream(c), e)'
  <2>1. Once(Stream(c), e)  BY <1>4, StreamType, EventsInSeq DEF Once
  <2> QED  BY <2>1, <1>4 DEF Once
<1>8. hub' = "running" => Coming(c, e)'
  <2> SUFFICES ASSUME hub' = "running" PROVE Coming(c, e)'  OBVIOUS
  <2>1. On(wire', Home(e), e)  BY <1>1, SendCopy
  <2>2. CASE Home(e) \in subs'[c]  BY <2>1, <2>2 DEF Coming, Route, Home
  <2>3. CASE Home(e) \notin subs'[c]
    <3>1. EventOf[e].via # "emitter"  BY <1>5, <2>3, EntitledTable
    <3>2. pub'[e] = "half"  BY <3>1, <1>1
    <3> QED  BY <3>2, <2>3 DEF Coming, Route, Home
  <2> QED  BY <2>2, <2>3
<1> QED  BY <1>4, <1>5, <1>6, <1>7, <1>8 DEF DueFor

LEMMA DueInvStep == TypeInv /\ CopiesInv /\ StartInv /\ DueInv /\ [Next]_vars => DueInv'
<1> SUFFICES ASSUME TypeInv, CopiesInv, StartInv, DueInv, [Next]_vars,
                    NEW c \in Clients, NEW e \in due'[c]
             PROVE  DueFor(c, e)'
  BY DEF DueInv
<1>1. e \in Events
  <2>1. TypeInv'  BY TypeInvStep
  <2> QED  BY <2>1 DEF TypeInv, RestTypeOK
<1>2. CASE e \in due[c]
  <2>1. DueFor(c, e)  BY <1>2 DEF DueInv
  <2> QED  BY <2>1, <1>2, DueKept
<1>3. CASE e \notin due[c]  BY <1>1, <1>3, DueNew
<1> QED  BY <1>2, <1>3

LEMMA ServedOnce ==
  ASSUME TypeInv, CopiesInv, DueInv
  PROVE  ExactlyOnce
<1>1. \A e \in Events : transcript[e] <= 1  BY DEF CopiesInv, CopyInv
<1>2. ASSUME NEW c \in Clients, NEW e \in due[c]
      PROVE  /\ Cardinality(Positions(c, e)) <= 1
             /\ (Settled(e) /\ sender[c] # "ended")
                  => (Positions(c, e) # {} \/ e \in dropped[c])
  <2> DEFINE s == Stream(c)
             P == Positions(c, e)
  <2>1. DueFor(c, e) /\ e \in Events  BY DEF DueInv, TypeInv, RestTypeOK
  <2>2. s \in Seq(Item) /\ wire \in Seq(RightMessage)
    BY StreamType DEF TypeInv, PubTypeOK
  <2>3. DOMAIN s = 1..Len(s) /\ DOMAIN wire = 1..Len(wire)  BY <2>2, LenProperties
  <2>4. P = {k \in 1..Len(s) : s[k].type = "event" /\ s[k].event = e}
    BY <2>3 DEF Positions
  <2>5. Cardinality(P) <= 1
    <3> HIDE DEF P
    <3>1. CASE P = {}  BY <3>1, FS_EmptySet
    <3>2. CASE P # {}
      <4>1. PICK k : k \in P  BY <3>2
      <4>2. \A j \in P : j = k  BY <4>1, <2>1, <2>4 DEF DueFor, Once
      <4>3. P = {k}  BY <4>1, <4>2
      <4> QED  BY <4>3, FS_Singleton
    <3> QED  BY <3>1, <3>2
  <2>6. ASSUME Settled(e), sender[c] # "ended" PROVE P # {} \/ e \in dropped[c]
    <3>1. hub = "running" /\ pub[e] = "done"  BY <2>6 DEF Settled
    <3>2. \A channel : ~On(wire, channel, e)  BY <2>3, <2>6 DEF Settled, On
    <3>3. ~Coming(c, e)  BY <3>1, <3>2 DEF Coming
    <3>4. e \in EventsIn(s) \/ e \in dropped[c]  BY <2>1, <2>6, <3>1, <3>3 DEF DueFor
    <3>5. e \in EventsIn(s) => P # {}  BY <2>2, <2>4, EventsInSeq
    <3> QED  BY <3>4, <3>5
  <2> QED  BY <2>5, <2>6
<1> QED  BY <1>1, <1>2 DEF ExactlyOnce

(* The two copies of an event are one: it is stored at most once, and a    *)
(* client that was entitled to it when it was published, the listener      *)
(* having subscribed by then, and has stayed so, gets it once unless       *)
(* backpressure took it or the second copy was lost, although copies and   *)
(* clients are matched at two moments.                                     *)
THEOREM Exact == Spec => []ExactlyOnce
<1>1. Init => StartInv /\ DueInv
  BY DEF Init, StartInv, DueInv
<1>2. (TypeInv /\ CopiesInv /\ StartInv /\ DueInv) /\ [Next]_vars
        => (TypeInv /\ CopiesInv /\ StartInv /\ DueInv)'
  BY TypeInvStep, CopiesInvStep, StartInvStep, DueInvStep
<1>3. TypeInv /\ CopiesInv /\ DueInv => ExactlyOnce  BY ServedOnce
<1> QED  BY TypeInvInit, CopiesInvInit, <1>1, <1>2, <1>3, PTL DEF Spec
=============================================================================
