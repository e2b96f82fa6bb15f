-------------------------- MODULE Containers_proof ---------------------------
(***************************************************************************)
(* Theorems about the two containers of libcmpt: OList, for every set of   *)
(* addresses and values, whether or not calloc may return an address the   *)
(* caller still holds; and OBuffer, for every alphabet, size, rule and     *)
(* chunk, with the callers that keep to what the rules look for.           *)
(***************************************************************************)
EXTENDS OList, OBuffer, FiniteSetTheorems, SequenceTheorems, TLAPS

-----------------------------------------------------------------------------
(* Chains: what the loop from head on passes, as a function of head, next   *)
(* and num.                                                                *)

IsChain(c, h, nx, n) ==
    c = [k \in 1..n |-> IF k = 1 THEN h ELSE nx[c[k - 1]]]

Chain(h, nx, n) == CHOOSE c : IsChain(c, h, nx, n)

\* A non-empty set of naturals has a least element.
LEMMA LeastNatural ==
    ASSUME NEW S, S \subseteq Nat, S # {}
    PROVE  \E x \in S : \A y \in S : x <= y
<1>1. PICK x \in S : \A y \in S : <<y, x>> \notin OpToRel(<, Nat)
  BY NatLessThanWellFounded, WFMin, Zenon
<1>2. \A y \in S : ~(y < x)
  BY <1>1, Zenon DEF OpToRel
<1>3. \A y \in S : x <= y
  BY <1>2
<1> QED BY <1>3

\* There is a chain of every length: the recursion in Nodes is well founded.
LEMMA ChainExists ==
    ASSUME NEW h, NEW nx, NEW n \in Nat
    PROVE  \E c : IsChain(c, h, nx, n)
<1> DEFINE Bad == {m \in Nat : ~ \E c : IsChain(c, h, nx, m)}
<1>1. SUFFICES ASSUME Bad # {} PROVE FALSE
  OBVIOUS
<1>2. PICK m \in Bad : \A y \in Bad : m <= y
  BY <1>1, LeastNatural
<1>3. CASE m = 0
  <2>1. IsChain([k \in 1..0 |-> h], h, nx, 0)
    BY DEF IsChain
  <2> QED BY <1>2, <1>3, <2>1
<1>4. CASE m # 0
  <2>1. m - 1 \in Nat /\ m - 1 \notin Bad
    BY <1>2, <1>4
  <2>2. PICK c : IsChain(c, h, nx, m - 1)
    BY <2>1
  <2> DEFINE d == [k \in 1..m |-> IF k = 1 THEN h ELSE nx[c[k - 1]]]
  <2>3. \A k \in 1..(m - 1) : d[k] = c[k]
    BY <2>1, <2>2 DEF IsChain
  <2>4. \A k \in 1..m : d[k] = IF k = 1 THEN h ELSE nx[d[k - 1]]
    <3>1. TAKE k \in 1..m
    <3>2. d[k] = IF k = 1 THEN h ELSE nx[c[k - 1]]
      OBVIOUS
    <3>3. k = 1 \/ k - 1 \in 1..(m - 1)
      BY <1>2
    <3> QED BY <2>3, <3>2, <3>3
  <2>5. IsChain(d, h, nx, m)
    BY <2>4, Zenon DEF IsChain
  <2> QED BY <1>2, <2>5
<1> QED BY <1>3, <1>4

\* Two chains agree as far as both reach.
LEMMA ChainUnique ==
    ASSUME NEW h, NEW nx, NEW n \in Nat, NEW c, NEW d,
           IsChain(c, h, nx, n), IsChain(d, h, nx, n)
    PROVE  c = d
<1> DEFINE Bad == {m \in 1..n : c[m] # d[m]}
<1>1. ASSUME Bad # {} PROVE FALSE
  <2>0. Bad \subseteq Nat
    OBVIOUS
  <2>1. PICK m \in Bad : \A y \in Bad : m <= y
    <3> HIDE DEF Bad
    <3> QED BY <1>1, <2>0, LeastNatural
  <2>2. CASE m = 1
    BY <2>1, <2>2 DEF IsChain
  <2>3. CASE m # 1
    <3>1. m - 1 \in 1..n /\ m - 1 \notin Bad
      BY <2>1, <2>3
    <3> QED BY <2>1, <2>3, <3>1 DEF IsChain
  <2> QED BY <2>2, <2>3
<1>2. \A m \in 1..n : c[m] = d[m]
  BY <1>1
<1>3. /\ c = [k \in 1..n |-> c[k]]
      /\ d = [k \in 1..n |-> d[k]]
  BY DEF IsChain
<1> QED BY <1>2, <1>3

\* What is a chain is what the loop passes.
LEMMA ChainIs ==
    ASSUME NEW h, NEW nx, NEW n \in Nat, NEW c, IsChain(c, h, nx, n)
    PROVE  Chain(h, nx, n) = c
BY ChainUnique, ChainExists DEF Chain

LEMMA ChainEquation ==
    ASSUME NEW h, NEW nx, NEW n \in Nat
    PROVE  IsChain(Chain(h, nx, n), h, nx, n)
BY ChainExists DEF Chain

LEMMA NodesChain ==
    ASSUME num \in Nat
    PROVE  Nodes = Chain(head, next, num)
<1> DEFINE c == Chain(head, next, num)
<1>1. Nodes = [k \in 1..num |-> c[k]]
  BY DEF Nodes, Chain, IsChain
<1>2. c = [k \in 1..num |-> c[k]]
  BY ChainEquation DEF IsChain
<1> QED BY <1>1, <1>2

LEMMA NodesChainNext ==
    ASSUME num' \in Nat
    PROVE  Nodes' = Chain(head', next', num')
<1> DEFINE c == Chain(head', next', num')
<1>1. Nodes' = [k \in 1..num' |-> c[k]]
  BY DEF Nodes, Chain, IsChain
<1>2. c = [k \in 1..num' |-> c[k]]
  BY ChainEquation DEF IsChain
<1> QED BY <1>1, <1>2

-----------------------------------------------------------------------------
(* A list of the nodes of the sequence s. *)

Distinct(s, n) == \A j, k \in 1..n : s[j] = s[k] => j = k
Members(s, n) == {s[k] : k \in 1..n}

Linked(s, h, t, n, nx, pv, lv) ==
    /\ s \in [1..n -> Addr]
    /\ n = 0 => h = NULL /\ t = NULL
    /\ n > 0 => h = s[1] /\ t = s[n] /\ pv[h] = NULL /\ nx[t] = NULL
    /\ \A k \in 1..(n - 1) : nx[s[k]] = s[k + 1] /\ pv[s[k + 1]] = s[k]
    /\ Distinct(s, n)
    /\ lv = Members(s, n)

LEMMA LinkedIsChain ==
    ASSUME NEW s, NEW h, NEW t, NEW n \in Nat, NEW nx, NEW pv, NEW lv,
           Linked(s, h, t, n, nx, pv, lv)
    PROVE  Chain(h, nx, n) = s
<1>1. \A k \in 1..n : s[k] = IF k = 1 THEN h ELSE nx[s[k - 1]]
  <2>1. TAKE k \in 1..n
  <2>2. CASE k = 1
    BY <2>2 DEF Linked
  <2>3. CASE k # 1
    <3>1. k - 1 \in 1..(n - 1) /\ (k - 1) + 1 = k
      BY <2>3
    <3>2. nx[s[k - 1]] = s[(k - 1) + 1]
      BY <3>1 DEF Linked
    <3> QED BY <2>3, <3>1, <3>2
  <2> QED BY <2>2, <2>3
<1>2. s = [k \in 1..n |-> s[k]]
  BY DEF Linked
<1>3. IsChain(s, h, nx, n)
  BY <1>1, <1>2 DEF IsChain
<1> QED BY <1>3, ChainIs

\* The invariant says that the list is linked as its nodes are, and nothing
\* else but that free nodes are clear and live ones have a value.
LEMMA LinkedNodes ==
    ASSUME TypeOK, DoublyLinked, NoLeakNoDangling
    PROVE  Linked(Nodes, head, tail, num, next, prev, live)
<1> DEFINE c == Chain(head, next, num)
<1>1. Nodes = c /\ IsChain(c, head, next, num)
  BY NodesChain, ChainEquation DEF TypeOK
<1>2. DOMAIN c = 1..num /\ c = [k \in 1..num |-> c[k]]
  BY <1>1 DEF IsChain
<1>3. live = {c[k] : k \in 1..num}
  BY <1>1, <1>2 DEF NoLeakNoDangling, ToSet
<1>4. c \in [1..num -> Addr]
  BY <1>2, <1>3 DEF TypeOK
<1>5. num > 0 => head = c[1]
  BY <1>1 DEF IsChain, TypeOK
<1>6. \A k \in 1..(num - 1) : next[c[k]] = c[k + 1]
  BY <1>1 DEF IsChain, TypeOK
<1>7. num > 0 => tail = c[num] /\ prev[head] = NULL /\ next[tail] = NULL
  BY <1>1 DEF DoublyLinked
<1>8. /\ num = 0 => head = NULL /\ tail = NULL
      /\ \A k \in 1..(num - 1) : prev[c[k + 1]] = c[k]
      /\ \A j, k \in 1..num : c[j] = c[k] => j = k
  BY <1>1, <1>5 DEF DoublyLinked, TypeOK
<1> QED BY <1>1, <1>3, <1>4, <1>5, <1>6, <1>7, <1>8 DEF Linked, Distinct, Members

LEMMA LinkedKeeps ==
    ASSUME TypeOK', NEW s, Linked(s, head', tail', num', next', prev', live')
    PROVE  Nodes' = s /\ DoublyLinked' /\ NoLeakNoDangling'
<1>1. Nodes' = s
  BY LinkedIsChain, NodesChainNext DEF TypeOK
<1>2. DoublyLinked'
  BY <1>1 DEF DoublyLinked, Linked, Distinct, TypeOK
<1>3. NoLeakNoDangling'
  BY <1>1 DEF NoLeakNoDangling, Linked, Members, ToSet
<1> QED BY <1>1, <1>2, <1>3

-----------------------------------------------------------------------------
(* What the operations do to a linked list, for any pointers. *)

\* The sequence s of length n with a at position j, and without its j-th member.
With(s, n, j, a) ==
    [k \in 1..(n + 1) |-> IF k < j THEN s[k] ELSE IF k = j THEN a ELSE s[k - 1]]
Without(s, n, j) == [k \in 1..(n - 1) |-> IF k < j THEN s[k] ELSE s[k + 1]]

LEMMA WithProperties ==
    ASSUME NEW n \in Nat, NEW s \in [1..n -> Addr], NEW j \in 1..(n + 1), NEW a \in Addr,
           Distinct(s, n), a \notin Members(s, n)
    PROVE  /\ With(s, n, j, a) \in [1..(n + 1) -> Addr]
           /\ Distinct(With(s, n, j, a), n + 1)
           /\ Members(With(s, n, j, a), n + 1) = Members(s, n) \cup {a}
<1> DEFINE w == With(s, n, j, a)
<1> USE DEF Distinct, Members
<1>1. \A k \in 1..(n + 1) : (k < j => k \in 1..n) /\ (k > j => k - 1 \in 1..n)
  OBVIOUS
<1>2. \A k \in 1..(n + 1) : w[k] = IF k < j THEN s[k] ELSE IF k = j THEN a ELSE s[k - 1]
  BY DEF With
<1>3. DOMAIN w = 1..(n + 1) /\ w = [k \in 1..(n + 1) |-> w[k]]
  BY DEF With
<1> HIDE DEF w
<1>4. w \in [1..(n + 1) -> Addr]
  <2>1. \A k \in 1..(n + 1) : w[k] \in Addr
    BY <1>1, <1>2
  <2> QED BY <1>3, <2>1
<1>5. \A i, k \in 1..(n + 1) : w[i] = w[k] => i = k
  BY <1>1, <1>2
<1>6. \A k \in 1..(n + 1) : w[k] \in {s[m] : m \in 1..n} \cup {a}
  BY <1>1, <1>2
<1>7. \A m \in 1..n : \E k \in 1..(n + 1) : w[k] = s[m]
  <2>1. TAKE m \in 1..n
  <2>2. CASE m < j
    BY <1>2, <2>2
  <2>3. CASE ~(m < j)
    <3>1. m + 1 \in 1..(n + 1) /\ ~(m + 1 < j) /\ m + 1 # j /\ (m + 1) - 1 = m
      BY <2>3
    <3> QED BY <1>2, <3>1
  <2> QED BY <2>2, <2>3
<1>8. w[j] = a
  BY <1>2
<1>9. {w[k] : k \in 1..(n + 1)} = {s[k] : k \in 1..n} \cup {a}
  BY <1>6, <1>7, <1>8
<1> QED BY <1>4, <1>5, <1>9 DEF w

LEMMA WithoutProperties ==
    ASSUME NEW n \in Nat, NEW s \in [1..n -> Addr], NEW j \in 1..n,
           Distinct(s, n)
    PROVE  /\ Without(s, n, j) \in [1..(n - 1) -> Addr]
           /\ Distinct(Without(s, n, j), n - 1)
           /\ Members(Without(s, n, j), n - 1) = Members(s, n) \ {s[j]}
<1> DEFINE w == Without(s, n, j)
<1> USE DEF Distinct, Members
<1>1. \A k \in 1..(n - 1) : k \in 1..n /\ k + 1 \in 1..n
  OBVIOUS
<1>2. \A k \in 1..(n - 1) : w[k] = IF k < j THEN s[k] ELSE s[k + 1]
  BY DEF Without
<1>3. DOMAIN w = 1..(n - 1) /\ w = [k \in 1..(n - 1) |-> w[k]]
  BY DEF Without
<1> HIDE DEF w
<1>4. w \in [1..(n - 1) -> Addr]
  <2>1. \A k \in 1..(n - 1) : w[k] \in Addr
    BY <1>1, <1>2
  <2> QED BY <1>3, <2>1
<1>5. \A i, k \in 1..(n - 1) : w[i] = w[k] => i = k
  BY <1>1, <1>2
<1>6. \A k \in 1..(n - 1) : w[k] \in {s[m] : m \in 1..n} \ {s[j]}
  BY <1>1, <1>2
<1>7. \A m \in 1..n : m # j => \E k \in 1..(n - 1) : w[k] = s[m]
  <2>1. TAKE m \in 1..n
  <2>2. CASE m < j
    BY <1>2, <2>2
  <2>3. CASE m > j
    <3>1. m - 1 \in 1..(n - 1) /\ ~(m - 1 < j) /\ (m - 1) + 1 = m
      BY <2>3
    <3> QED BY <1>2, <3>1
  <2> QED BY <2>2, <2>3
<1>8. {w[k] : k \in 1..(n - 1)} = {s[k] : k \in 1..n} \ {s[j]}
  BY <1>6, <1>7
<1> QED BY <1>4, <1>5, <1>8 DEF w

\* The first node.
LEMMA LinksFirst ==
    ASSUME NEW s, NEW nx, NEW pv, NEW a \in Addr, nx[a] = NULL, pv[a] = NULL
    PROVE  Linked(With(s, 0, 1, a), a, a, 1, nx, pv, {a})
<1> DEFINE w == With(s, 0, 1, a)
<1>1. w = [k \in 1..1 |-> a]
  BY DEF With
<1>2. w \in [1..1 -> Addr] /\ w[1] = a
  BY <1>1
<1> HIDE DEF w
<1>3. Distinct(w, 1) /\ Members(w, 1) = {a}
  BY <1>2 DEF Distinct, Members
<1> QED BY <1>2, <1>3 DEF Linked, w

\* A node behind the last one.
LEMMA LinksLast ==
    ASSUME NEW n \in Nat \ {0}, NEW s, NEW h, NEW t, NEW nx, NEW pv, NEW lv,
           nx \in [Addr -> Ptr], pv \in [Addr -> Ptr],
           Linked(s, h, t, n, nx, pv, lv),
           NEW a \in Addr \ lv, nx[a] = NULL
    PROVE  Linked(With(s, n, n + 1, a), h, a, n + 1,
                  [nx EXCEPT ![t] = a], [pv EXCEPT ![a] = t], lv \cup {a})
<1> DEFINE w == With(s, n, n + 1, a)
           nx2 == [nx EXCEPT ![t] = a]
           pv2 == [pv EXCEPT ![a] = t]
<1>0. Distinct(s, n) /\ lv = Members(s, n)
  BY DEF Linked
<1>1. s \in [1..n -> Addr] /\ \A k \in 1..n : s[k] \in lv
  BY <1>0 DEF Linked, Members
<1>2. /\ \A i, k \in 1..n : s[i] = s[k] => i = k
      /\ \A k \in 1..n : s[k] # a
  BY <1>0, <1>1 DEF Distinct
<1>3. /\ w \in [1..(n + 1) -> Addr]
      /\ Distinct(w, n + 1)
      /\ Members(w, n + 1) = lv \cup {a}
  <2>1. n \in Nat /\ n + 1 \in 1..(n + 1) /\ a \in Addr
    OBVIOUS
  <2> QED BY <1>0, <1>1, <2>1, WithProperties
<1>4. \A k \in 1..n : w[k] = s[k]
  BY DEF With
<1>5. w[n + 1] = a
  BY DEF With
<1>6. h = s[1] /\ t = s[n] /\ pv[h] = NULL /\ nx[t] = NULL
  BY DEF Linked
<1>7. h \in Addr /\ t \in Addr /\ h # a /\ t # a
  BY <1>1, <1>2, <1>6
<1>8. \A k \in 1..n : nx2[s[k]] = IF k = n THEN a ELSE nx[s[k]]
  BY <1>1, <1>2, <1>6
<1>9. \A b \in Addr : pv2[b] = IF b = a THEN t ELSE pv[b]
  OBVIOUS
<1>10. nx2[a] = NULL
  BY <1>7
<1> HIDE DEF w, nx2, pv2
<1>11. \A k \in 1..n : nx2[w[k]] = w[k + 1] /\ pv2[w[k + 1]] = w[k]
  <2>1. TAKE k \in 1..n
  <2>2. CASE k = n
    BY <1>4, <1>5, <1>6, <1>7, <1>8, <1>9, <2>2
  <2>3. CASE k # n
    <3>1. k \in 1..(n - 1) /\ k + 1 \in 1..n
      BY <2>3
    <3>2. nx[s[k]] = s[k + 1] /\ pv[s[k + 1]] = s[k]
      BY <3>1 DEF Linked
    <3>3. s[k + 1] \in Addr /\ s[k + 1] # a
      BY <1>1, <1>2, <3>1
    <3> QED BY <1>4, <1>8, <1>9, <2>3, <3>1, <3>2, <3>3
  <2> QED BY <2>2, <2>3
<1>12. pv2[h] = NULL /\ w[1] = h
  BY <1>4, <1>6, <1>7, <1>9
<1>13. Linked(w, h, a, n + 1, nx2, pv2, lv \cup {a})
  <2>1. (n + 1) - 1 = n /\ n + 1 # 0
    OBVIOUS
  <2> QED BY <1>3, <1>5, <1>10, <1>11, <1>12, <2>1, Zenon DEF Linked
<1> QED BY <1>13 DEF w, nx2, pv2

\* A node in front of the j-th one.
LEMMA LinksBefore ==
    ASSUME NEW n \in Nat \ {0}, NEW s, NEW h, NEW t, NEW nx, NEW pv, NEW lv,
           nx \in [Addr -> Ptr], pv \in [Addr -> Ptr],
           Linked(s, h, t, n, nx, pv, lv),
           NEW a \in Addr \ lv, NEW j \in 1..n, NEW pos, pos = s[j]
    PROVE  Linked(With(s, n, j, a), IF pos = h THEN a ELSE h, t, n + 1,
                  IF pos = h THEN [nx EXCEPT ![a] = pos]
                  ELSE [nx EXCEPT ![pv[pos]] = a, ![a] = pos],
                  [pv EXCEPT ![a] = IF pos = h THEN NULL ELSE pv[pos], ![pos] = a],
                  lv \cup {a})
<1> DEFINE w == With(s, n, j, a)
           h2 == IF pos = h THEN a ELSE h
           nx2 == IF pos = h THEN [nx EXCEPT ![a] = pos]
                  ELSE [nx EXCEPT ![pv[pos]] = a, ![a] = pos]
           pv2 == [pv EXCEPT ![a] = IF pos = h THEN NULL ELSE pv[pos], ![pos] = a]
<1>0. Distinct(s, n) /\ lv = Members(s, n)
  BY DEF Linked
<1>1. s \in [1..n -> Addr] /\ \A k \in 1..n : s[k] \in lv
  BY <1>0 DEF Linked, Members
<1>2. /\ \A i, k \in 1..n : s[i] = s[k] => i = k
      /\ \A k \in 1..n : s[k] # a
  BY <1>0, <1>1 DEF Distinct
<1>3. /\ w \in [1..(n + 1) -> Addr]
      /\ Distinct(w, n + 1)
      /\ Members(w, n + 1) = lv \cup {a}
  <2>1. n \in Nat /\ j \in 1..(n + 1) /\ a \in Addr
    OBVIOUS
  <2> QED BY <1>0, <1>1, <2>1, WithProperties
<1>4. \A k \in 1..(n + 1) : w[k] = IF k < j THEN s[k] ELSE IF k = j THEN a ELSE s[k - 1]
  BY DEF With
<1>5. h = s[1] /\ t = s[n] /\ pv[h] = NULL /\ nx[t] = NULL
  BY DEF Linked
<1>6. \A k \in 1..(n - 1) : nx[s[k]] = s[k + 1] /\ pv[s[k + 1]] = s[k]
  BY DEF Linked
<1>7. pos = h <=> j = 1
  BY <1>2, <1>5
<1>8. pos \in Addr /\ pos # a /\ t \in Addr /\ t # a
  BY <1>1, <1>2, <1>5
<1>9. j # 1 => j - 1 \in 1..(n - 1) /\ pv[pos] = s[j - 1] /\ s[j - 1] \in Addr /\ s[j - 1] # a
  <2>1. SUFFICES ASSUME j # 1
                 PROVE  j - 1 \in 1..(n - 1) /\ pv[pos] = s[j - 1]
                        /\ s[j - 1] \in Addr /\ s[j - 1] # a
    OBVIOUS
  <2>2. j - 1 \in 1..(n - 1) /\ (j - 1) + 1 = j
    BY <2>1
  <2>3. pv[s[(j - 1) + 1]] = s[j - 1]
    BY <1>6, <2>2
  <2> QED BY <1>1, <1>2, <2>2, <2>3
<1>10. \A k \in 1..n : nx2[s[k]] = IF k + 1 = j THEN a ELSE nx[s[k]]
  BY <1>1, <1>2, <1>7, <1>8, <1>9
<1>11. nx2[a] = pos
  BY <1>7, <1>8, <1>9
<1>12. \A k \in 1..n : pv2[s[k]] = IF k = j THEN a ELSE pv[s[k]]
  BY <1>1, <1>2, <1>8
<1>13. pv2[a] = IF j = 1 THEN NULL ELSE s[j - 1]
  BY <1>7, <1>8, <1>9
<1> HIDE DEF w, nx2, pv2
<1>14. \A k \in 1..n : nx2[w[k]] = w[k + 1] /\ pv2[w[k + 1]] = w[k]
  <2>1. TAKE k \in 1..n
  <2>0. k \in 1..(n + 1) /\ k + 1 \in 1..(n + 1) /\ (k + 1) - 1 = k
    OBVIOUS
  <2>2. CASE k + 1 < j
    <3>1. w[k] = s[k] /\ w[k + 1] = s[k + 1] /\ k \in 1..(n - 1) /\ k + 1 \in 1..n
      BY <1>4, <2>0, <2>2
    <3> QED BY <1>6, <1>10, <1>12, <2>2, <3>1
  <2>3. CASE k + 1 = j
    <3>1. w[k] = s[k] /\ w[k + 1] = a /\ k = j - 1 /\ j # 1
      BY <1>4, <2>0, <2>3
    <3> QED BY <1>10, <1>13, <2>3, <3>1
  <2>4. CASE k = j
    <3>1. w[k] = a /\ w[k + 1] = s[k]
      BY <1>4, <2>0, <2>4
    <3> QED BY <1>11, <1>12, <2>4, <3>1
  <2>5. CASE k > j
    <3>1. w[k] = s[k - 1] /\ w[k + 1] = s[k] /\ k - 1 \in 1..(n - 1) /\ k - 1 \in 1..n
          /\ (k - 1) + 1 = k
      BY <1>4, <2>0, <2>5
    <3>2. nx[s[k - 1]] = s[k] /\ pv[s[k]] = s[k - 1]
      BY <1>6, <3>1
    <3> QED BY <1>10, <1>12, <2>5, <3>1, <3>2
  <2> QED BY <2>2, <2>3, <2>4, <2>5
<1>15. w[1] = h2 /\ pv2[h2] = NULL
  BY <1>4, <1>5, <1>7, <1>12, <1>13
<1>16. w[n + 1] = t /\ nx2[t] = NULL
  BY <1>4, <1>5, <1>10
<1>17. Linked(w, h2, t, n + 1, nx2, pv2, lv \cup {a})
  <2> HIDE DEF h2
  <2>1. (n + 1) - 1 = n /\ n + 1 # 0
    OBVIOUS
  <2> QED BY <1>3, <1>14, <1>15, <1>16, <2>1, Zenon DEF Linked
<1> QED BY <1>17 DEF w, nx2, pv2

\* The pointers after the erasure of pos, as Erase says.
NextWithout(h, nx, pv, pos) ==
    [a \in Addr |-> IF a = pos THEN NULL
                    ELSE IF pos # h /\ a = pv[pos] THEN nx[pos] ELSE nx[a]]
PrevWithout(h, nx, pv, pos) ==
    [a \in Addr |-> IF a = pos THEN NULL
                    ELSE IF a = nx[pos] THEN IF pos = h THEN NULL ELSE pv[pos]
                    ELSE pv[a]]

\* The j-th node is erased.
LEMMA LinksErased ==
    ASSUME NEW n \in Nat \ {0}, NEW s, NEW h, NEW t, NEW nx, NEW pv, NEW lv,
           nx \in [Addr -> Ptr], pv \in [Addr -> Ptr],
           Linked(s, h, t, n, nx, pv, lv),
           NEW j \in 1..n, NEW pos, pos = s[j]
    PROVE  Linked(Without(s, n, j),
                  IF n - 1 = 0 THEN NULL ELSE IF pos = h THEN nx[pos] ELSE h,
                  IF n - 1 = 0 THEN NULL ELSE IF pos # h /\ pos = t THEN pv[pos] ELSE t,
                  n - 1, NextWithout(h, nx, pv, pos), PrevWithout(h, nx, pv, pos),
                  lv \ {pos})
<1> DEFINE w == Without(s, n, j)
           h2 == IF n - 1 = 0 THEN NULL ELSE IF pos = h THEN nx[pos] ELSE h
           t2 == IF n - 1 = 0 THEN NULL ELSE IF pos # h /\ pos = t THEN pv[pos] ELSE t
           nx2 == NextWithout(h, nx, pv, pos)
           pv2 == PrevWithout(h, nx, pv, pos)
<1>0. Distinct(s, n) /\ lv = Members(s, n)
  BY DEF Linked
<1>1. s \in [1..n -> Addr] /\ \A i, k \in 1..n : s[i] = s[k] => i = k
  BY <1>0 DEF Linked, Distinct
<1>2. \A k \in 1..n : s[k] \in Addr /\ s[k] # NULL
  BY <1>1, NullAssumption
<1>3. /\ w \in [1..(n - 1) -> Addr]
      /\ Distinct(w, n - 1)
      /\ Members(w, n - 1) = lv \ {pos}
  BY <1>0, <1>1, WithoutProperties
<1>4. \A k \in 1..(n - 1) : w[k] = IF k < j THEN s[k] ELSE s[k + 1]
  BY DEF Without
<1>5. h = s[1] /\ t = s[n] /\ pv[h] = NULL /\ nx[t] = NULL
  BY DEF Linked
<1>6. \A k \in 1..(n - 1) : nx[s[k]] = s[k + 1] /\ pv[s[k + 1]] = s[k]
  BY DEF Linked
<1>7. (pos = h <=> j = 1) /\ (pos = t <=> j = n)
  BY <1>1, <1>5
<1>8. nx[pos] = IF j = n THEN NULL ELSE s[j + 1]
  BY <1>5, <1>6
<1>9. pv[pos] = IF j = 1 THEN NULL ELSE s[j - 1]
  <2>1. j # 1 => j - 1 \in 1..(n - 1) /\ (j - 1) + 1 = j
    OBVIOUS
  <2> QED BY <1>5, <1>6, <2>1
<1>10. \A k \in 1..n : nx2[s[k]] = IF k = j THEN NULL
                                   ELSE IF k + 1 = j THEN nx[pos] ELSE nx[s[k]]
  <2>1. TAKE k \in 1..n
  <2>2. nx2[s[k]] = IF s[k] = pos THEN NULL
                    ELSE IF pos # h /\ s[k] = pv[pos] THEN nx[pos] ELSE nx[s[k]]
    BY <1>2 DEF NextWithout
  <2>3. s[k] = pos <=> k = j
    BY <1>1
  <2>4. (pos # h /\ s[k] = pv[pos]) <=> k + 1 = j
    <3>1. j # 1 => j - 1 \in 1..n
      OBVIOUS
    <3> QED BY <1>1, <1>7, <1>9, <3>1
  <2> QED BY <2>2, <2>3, <2>4
<1>11. \A k \in 1..n : pv2[s[k]] = IF k = j THEN NULL
                                   ELSE IF k = j + 1 THEN pv[pos] ELSE pv[s[k]]
  <2>1. TAKE k \in 1..n
  <2>2. pv2[s[k]] = IF s[k] = pos THEN NULL
                    ELSE IF s[k] = nx[pos] THEN IF pos = h THEN NULL ELSE pv[pos]
                    ELSE pv[s[k]]
    BY <1>2 DEF PrevWithout
  <2>3. s[k] = pos <=> k = j
    BY <1>1
  <2>4. s[k] = nx[pos] <=> k = j + 1
    BY <1>1, <1>2, <1>8
  <2>5. pos = h => pv[pos] = NULL
    BY <1>5
  <2> QED BY <2>2, <2>3, <2>4, <2>5
<1> HIDE DEF w, nx2, pv2
<1>12. \A k \in 1..((n - 1) - 1) : nx2[w[k]] = w[k + 1] /\ pv2[w[k + 1]] = w[k]
  <2>1. TAKE k \in 1..((n - 1) - 1)
  <2>2. k \in 1..(n - 1) /\ k + 1 \in 1..(n - 1) /\ k \in 1..n /\ k + 1 \in 1..n
        /\ (k + 1) + 1 \in 1..n
    OBVIOUS
  <2>3. nx[s[k]] = s[k + 1] /\ pv[s[k + 1]] = s[k]
        /\ nx[s[k + 1]] = s[(k + 1) + 1] /\ pv[s[(k + 1) + 1]] = s[k + 1]
    BY <1>6, <2>2
  <2>4. CASE k + 1 < j
    <3>1. w[k] = s[k] /\ w[k + 1] = s[k + 1]
      BY <1>4, <2>2, <2>4
    <3> QED BY <1>10, <1>11, <2>2, <2>3, <2>4, <3>1
  <2>5. CASE k + 1 = j
    <3>1. w[k] = s[k] /\ w[k + 1] = s[(k + 1) + 1]
      BY <1>4, <2>2, <2>5
    <3>2. nx[pos] = s[(k + 1) + 1] /\ pv[pos] = s[k]
      BY <2>3, <2>5
    <3> QED BY <1>10, <1>11, <2>2, <2>5, <3>1, <3>2
  <2>6. CASE k + 1 > j
    <3>1. w[k] = s[k + 1] /\ w[k + 1] = s[(k + 1) + 1]
      BY <1>4, <2>2, <2>6
    <3> QED BY <1>10, <1>11, <2>2, <2>3, <2>6, <3>1
  <2> QED BY <2>4, <2>5, <2>6
<1>13. n - 1 > 0 => w[1] = h2 /\ pv2[h2] = NULL
  <2>1. SUFFICES ASSUME n - 1 > 0 PROVE w[1] = h2 /\ pv2[h2] = NULL
    OBVIOUS
  <2>2. 1 \in 1..(n - 1) /\ 1 \in 1..n /\ 2 \in 1..n /\ 1 + 1 = 2
    BY <2>1
  <2>3. CASE j = 1
    <3>1. w[1] = s[2] /\ h2 = s[2] /\ pv[pos] = NULL
      BY <1>4, <1>7, <1>8, <1>9, <2>1, <2>2, <2>3
    <3> QED BY <1>11, <2>2, <2>3, <3>1
  <2>4. CASE j # 1
    <3>1. w[1] = s[1] /\ h2 = s[1]
      BY <1>4, <1>5, <1>7, <2>1, <2>2, <2>4
    <3> QED BY <1>5, <1>11, <2>2, <2>4, <3>1
  <2> QED BY <2>3, <2>4
<1>14. n - 1 > 0 => w[n - 1] = t2 /\ nx2[t2] = NULL
  <2>1. SUFFICES ASSUME n - 1 > 0 PROVE w[n - 1] = t2 /\ nx2[t2] = NULL
    OBVIOUS
  <2>2. n - 1 \in 1..(n - 1) /\ n - 1 \in 1..n /\ n \in 1..n /\ (n - 1) + 1 = n
    BY <2>1
  <2>3. CASE j = n
    <3>1. w[n - 1] = s[n - 1] /\ t2 = s[n - 1]
      BY <1>4, <1>7, <1>9, <2>1, <2>2, <2>3
    <3> QED BY <1>8, <1>10, <2>2, <2>3, <3>1
  <2>4. CASE j # n
    <3>1. w[n - 1] = s[n] /\ t2 = s[n]
      BY <1>4, <1>5, <1>7, <2>1, <2>2, <2>4
    <3> QED BY <1>5, <1>10, <2>2, <2>4, <3>1
  <2> QED BY <2>3, <2>4
<1>15. n - 1 = 0 => h2 = NULL /\ t2 = NULL
  OBVIOUS
<1>16. Linked(w, h2, t2, n - 1, nx2, pv2, lv \ {pos})
  <2> HIDE DEF h2, t2
  <2> QED BY <1>3, <1>12, <1>13, <1>14, <1>15 DEF Linked
<1> QED BY <1>16 DEF w, nx2, pv2

-----------------------------------------------------------------------------
(* The invariant is kept, and what becomes of the nodes. *)

LEMMA InitIInv == Init => IInv
<1> SUFFICES ASSUME Init PROVE IInv
  OBVIOUS
<1>1. TypeOK
  BY DEF Init, TypeOK, Ptr
<1>2. DOMAIN Nodes = {}
  BY DEF Init, Nodes
<1>3. DoublyLinked
  BY <1>1 DEF Init, DoublyLinked
<1>4. NoLeakNoDangling
  BY <1>2 DEF Init, NoLeakNoDangling, ToSet
<1> QED BY <1>1, <1>3, <1>4 DEF Init, IInv, FreeIsClear, LiveHasValue

\* A sequence that links the new state makes the new state one with IInv.
LEMMA LinkedIInv ==
    ASSUME TypeOK', NEW s, Linked(s, head', tail', num', next', prev', live'),
           FreeIsClear', LiveHasValue'
    PROVE  IInv' /\ Nodes' = s
BY LinkedKeeps DEF IInv

LEMMA LastKeeps ==
    ASSUME IInv, NEW a \in Addr, NEW v \in Value, LinkLast(a, v), iter' = iter
    PROVE  IInv' /\ num' = num + 1 /\ Nodes' = With(Nodes, num, num + 1, a)
<1> USE DEF IInv
<1>0. TypeOK /\ Linked(Nodes, head, tail, num, next, prev, live)
  BY LinkedNodes DEF DoublyLinked
<1>1. /\ a \in Addr \ live /\ live' = live \cup {a} /\ tail' = a /\ num' = num + 1
      /\ value' = [value EXCEPT ![a] = v]
  BY DEF LinkLast, Fresh
<1>2. next[a] = NULL /\ prev[a] = NULL
  BY <1>1 DEF FreeIsClear
<1>3. LiveHasValue'
  BY <1>0, <1>1 DEF LiveHasValue, TypeOK
<1>4. CASE num = 0
  <2>1. head = NULL /\ tail = NULL /\ live = {}
    BY <1>0, <1>4 DEF Linked, Members
  <2>2. head' = a /\ next' = next /\ prev' = prev
    BY <1>4, <2>1 DEF LinkLast
  <2>3. num' = 1 /\ live' = {a}
    BY <1>1, <1>4, <2>1
  <2>4. Linked(With(Nodes, 0, 1, a), a, a, 1, next, prev, {a})
    BY <1>2, LinksFirst
  <2>5. TypeOK' /\ FreeIsClear'
    BY <1>0, <1>1, <2>2 DEF TypeOK, Ptr, FreeIsClear
  <2>6. IInv' /\ Nodes' = With(Nodes, 0, 1, a)
    BY <1>1, <1>3, <2>2, <2>3, <2>4, <2>5, LinkedIInv
  <2> QED BY <1>1, <1>4, <2>6
<1>5. CASE num # 0
  <2>1. head' = head /\ prev' = [prev EXCEPT ![a] = tail] /\ next' = [next EXCEPT ![tail] = a]
    BY <1>5 DEF LinkLast
  <2>2. num \in Nat \ {0} /\ next \in [Addr -> Ptr] /\ prev \in [Addr -> Ptr]
    BY <1>0, <1>5 DEF TypeOK
  <2>3. Linked(With(Nodes, num, num + 1, a), head', tail', num', next', prev', live')
    BY <1>0, <1>1, <1>2, <2>1, <2>2, LinksLast
  <2>4. tail \in live
    BY <1>0, <2>2 DEF Linked, Members
  <2>5. TypeOK' /\ FreeIsClear'
    BY <1>0, <1>1, <2>1, <2>4 DEF TypeOK, Ptr, FreeIsClear
  <2> QED BY <1>1, <1>3, <2>3, <2>5, LinkedIInv
<1> QED BY <1>4, <1>5

LEMMA BeforeKeeps ==
    ASSUME IInv, NEW a \in Addr, NEW v \in Value, LinkBefore(a, iter, v), iter' = iter,
           NEW j \in 1..num, Nodes[j] = iter
    PROVE  IInv' /\ num' = num + 1 /\ Nodes' = With(Nodes, num, j, a)
<1> USE DEF IInv
<1>0. TypeOK /\ Linked(Nodes, head, tail, num, next, prev, live)
  BY LinkedNodes DEF DoublyLinked
<1>1. /\ a \in Addr \ live /\ live' = live \cup {a} /\ tail' = tail /\ num' = num + 1
      /\ value' = [value EXCEPT ![a] = v]
      /\ head' = IF iter = head THEN a ELSE head
      /\ next' = IF iter = head THEN [next EXCEPT ![a] = iter]
                 ELSE [next EXCEPT ![prev[iter]] = a, ![a] = iter]
      /\ prev' = [prev EXCEPT ![a] = IF iter = head THEN NULL ELSE prev[iter], ![iter] = a]
  BY DEF LinkBefore, Fresh
<1>2. num \in Nat \ {0} /\ next \in [Addr -> Ptr] /\ prev \in [Addr -> Ptr]
  BY <1>0 DEF TypeOK
<1>3. Linked(With(Nodes, num, j, a), head', tail', num', next', prev', live')
  BY <1>0, <1>1, <1>2, LinksBefore
<1>4. /\ \A k \in 1..num : Nodes[k] \in live
      /\ Nodes[1] = head
      /\ \A k \in 1..(num - 1) : prev[Nodes[k + 1]] = Nodes[k]
  BY <1>0, <1>2 DEF Linked, Members
<1>5. iter \in live /\ (iter # head => prev[iter] \in live)
  <2>1. CASE j = 1
    BY <1>4, <2>1
  <2>2. CASE j # 1
    <3>1. j - 1 \in 1..(num - 1) /\ j - 1 \in 1..num /\ (j - 1) + 1 = j
      BY <1>2, <2>2
    <3> QED BY <1>4, <3>1
  <2> QED BY <2>1, <2>2
<1>6. TypeOK' /\ FreeIsClear'
  <2>1. head' \in Ptr /\ next' \in [Addr -> Ptr] /\ prev' \in [Addr -> Ptr]
    BY <1>0, <1>1, <1>5 DEF TypeOK, Ptr
  <2>2. TypeOK'
    BY <1>0, <1>1, <2>1 DEF TypeOK
  <2>3. FreeIsClear'
    BY <1>0, <1>1, <1>5 DEF TypeOK, FreeIsClear
  <2> QED BY <2>2, <2>3
<1>7. LiveHasValue'
  BY <1>0, <1>1 DEF LiveHasValue, TypeOK
<1> QED BY <1>1, <1>3, <1>6, <1>7, LinkedIInv

LEMMA EraseKeeps ==
    ASSUME IInv, NEW j \in 1..num, Erase(Nodes[j]), iter' = iter
    PROVE  IInv' /\ num' = num - 1 /\ Nodes' = Without(Nodes, num, j)
<1> USE DEF IInv
<1> DEFINE pos == Nodes[j]
<1>0. TypeOK /\ Linked(Nodes, head, tail, num, next, prev, live)
  BY LinkedNodes DEF DoublyLinked
<1>1. /\ live' = live \ {pos} /\ num' = num - 1
      /\ value' = [value EXCEPT ![pos] = NULL]
      /\ next' = NextWithout(head, next, prev, pos)
      /\ prev' = PrevWithout(head, next, prev, pos)
      /\ head' = IF num - 1 = 0 THEN NULL ELSE IF pos = head THEN next[pos] ELSE head
      /\ tail' = IF num - 1 = 0 THEN NULL
                 ELSE IF pos # head /\ pos = tail THEN prev[pos] ELSE tail
  BY DEF Erase, NextWithout, PrevWithout
<1>2. num \in Nat \ {0} /\ next \in [Addr -> Ptr] /\ prev \in [Addr -> Ptr]
  BY <1>0 DEF TypeOK
<1>3. Linked(Without(Nodes, num, j), head', tail', num', next', prev', live')
  BY <1>0, <1>1, <1>2, LinksErased
<1>4. pos \in live /\ pos \in Addr /\ Nodes[1] \in live /\ Nodes[1] = head
  BY <1>0, <1>2 DEF Linked, Members
<1> HIDE DEF pos
<1>5. TypeOK'
  <2>1. next' \in [Addr -> Ptr] /\ prev' \in [Addr -> Ptr]
    BY <1>1, <1>2, <1>4 DEF NextWithout, PrevWithout, Ptr
  <2>2. head' \in Ptr /\ tail' \in Ptr
    BY <1>0, <1>1, <1>2, <1>4 DEF TypeOK, Ptr
  <2>3. num' \in Nat /\ value' \in [Addr -> Value \cup {NULL}] /\ live' \subseteq Addr
    <3>1. num' \in Nat
      BY <1>1, <1>2
    <3>2. value' \in [Addr -> Value \cup {NULL}] /\ live' \subseteq Addr
      BY <1>0, <1>1 DEF TypeOK
    <3> QED BY <3>1, <3>2
  <2> QED BY <1>0, <2>1, <2>2, <2>3 DEF TypeOK
<1>6. \A a \in Addr \ live : a # pos /\ next'[a] = NULL /\ prev'[a] = NULL
  <2>1. TAKE a \in Addr \ live
  <2>2. a # pos /\ next[a] = NULL /\ prev[a] = NULL
    BY <1>4 DEF FreeIsClear
  <2>3. a # prev[pos] \/ pos = head
    <3>1. CASE j = 1
      BY <1>4, <3>1 DEF pos
    <3>2. CASE j # 1
      <4>1. j - 1 \in 1..(num - 1) /\ j - 1 \in 1..num /\ (j - 1) + 1 = j
        BY <1>2, <3>2
      <4>2. prev[pos] = Nodes[j - 1] /\ Nodes[j - 1] \in live
        BY <1>0, <4>1 DEF Linked, Members, pos
      <4> QED BY <4>2
    <3> QED BY <3>1, <3>2
  <2>4. a # next[pos]
    <3>1. CASE j = num
      BY <1>0, <1>2, <3>1, NullAssumption DEF Linked, pos
    <3>2. CASE j # num
      <4>1. j \in 1..(num - 1) /\ j + 1 \in 1..num
        BY <1>2, <3>2
      <4>2. next[pos] = Nodes[j + 1] /\ Nodes[j + 1] \in live
        BY <1>0, <4>1 DEF Linked, Members, pos
      <4> QED BY <4>2
    <3> QED BY <3>1, <3>2
  <2> QED BY <1>1, <2>2, <2>3, <2>4 DEF NextWithout, PrevWithout
<1>7. next'[pos] = NULL /\ prev'[pos] = NULL
  BY <1>1, <1>4 DEF NextWithout, PrevWithout
<1>8. FreeIsClear'
  BY <1>1, <1>6, <1>7 DEF FreeIsClear
<1>9. LiveHasValue'
  BY <1>0, <1>1 DEF LiveHasValue, TypeOK
<1> QED BY <1>1, <1>3, <1>5, <1>8, <1>9, LinkedIInv

\* What InList and NodeAt find is a position among the nodes.
LEMMA Found ==
    ASSUME IInv
    PROVE  /\ \A a : InList(a) <=> \E j \in 1..num : Nodes[j] = a
           /\ \A i \in Nat : NodeAt(i) = IF i < num THEN Nodes[i + 1] ELSE NULL
           /\ \A j \in 1..num : Nodes[j] \in Addr /\ Nodes[j] # NULL
<1>0. TypeOK /\ Linked(Nodes, head, tail, num, next, prev, live)
  BY LinkedNodes DEF IInv, DoublyLinked
<1>1. Nodes \in [1..num -> Addr] /\ num \in Nat
  BY <1>0 DEF Linked, TypeOK
<1>2. \A a : InList(a) <=> \E j \in 1..num : Nodes[j] = a
  BY <1>1 DEF InList, ToSet
<1>3. num > 0 => head = Nodes[1]
  BY <1>0 DEF Linked
<1>4. ASSUME NEW i \in Nat
      PROVE  NodeAt(i) = IF i < num THEN Nodes[i + 1] ELSE NULL
  <2>1. CASE i < num
    BY <1>1, <1>3, <2>1 DEF NodeAt
  <2>2. CASE ~(i < num)
    BY <1>1, <2>2 DEF NodeAt
  <2> QED BY <2>1, <2>2
<1> QED BY <1>1, <1>2, <1>4, NullAssumption

LEMMA ClearKeeps ==
    ASSUME IInv, clear
    PROVE  IInv' /\ num' = 0
<1> USE DEF IInv
<1>0. TypeOK /\ Linked(Nodes, head, tail, num, next, prev, live)
  BY LinkedNodes DEF DoublyLinked
<1>1. /\ head' = NULL /\ tail' = NULL /\ num' = 0 /\ iter' = iter
      /\ next' = [a \in Addr |-> IF InList(a) THEN NULL ELSE next[a]]
      /\ prev' = [a \in Addr |-> IF InList(a) THEN NULL ELSE prev[a]]
      /\ value' = [a \in Addr |-> IF InList(a) THEN NULL ELSE value[a]]
      /\ live' = live \ ToSet(Nodes)
  BY DEF clear
<1>2. live' = {}
  BY <1>1 DEF NoLeakNoDangling
<1>3. \A a \in Addr : InList(a) <=> a \in live
  BY DEF InList, NoLeakNoDangling
<1>4. TypeOK'
  <2>1. next' \in [Addr -> Ptr] /\ prev' \in [Addr -> Ptr]
        /\ value' \in [Addr -> Value \cup {NULL}]
    BY <1>0, <1>1 DEF TypeOK, Ptr
  <2> QED BY <1>0, <1>1, <1>2, <2>1 DEF TypeOK, Ptr
<1>5. FreeIsClear' /\ LiveHasValue'
  BY <1>1, <1>2, <1>3 DEF FreeIsClear, LiveHasValue
<1>6. Linked([k \in 1..0 |-> NULL], head', tail', num', next', prev', live')
  BY <1>1, <1>2 DEF Linked, Distinct, Members
<1> QED BY <1>1, <1>4, <1>5, <1>6, LinkedIInv

\* A step that leaves the pointers alone.
LEMMA SameNodes ==
    ASSUME UNCHANGED <<head, num, next>>
    PROVE  Nodes' = Nodes
BY DEF Nodes

LEMMA OthersKeep ==
    ASSUME IInv, UNCHANGED <<head, tail, num, next, prev, live>>, iter' \in Ptr,
           value' \in [Addr -> Value \cup {NULL}],
           \A a \in live : value'[a] \in Value
    PROVE  IInv'
<1> USE DEF IInv
<1>1. Nodes' = Nodes
  BY SameNodes
<1>2. TypeOK'
  BY DEF DoublyLinked, TypeOK
<1>3. DoublyLinked' /\ NoLeakNoDangling'
  BY <1>1, <1>2 DEF DoublyLinked, NoLeakNoDangling
<1> QED BY <1>3 DEF FreeIsClear, LiveHasValue

LEMMA UpdateKeeps ==
    ASSUME IInv, NEW v \in Value, update(v)
    PROVE  IInv'
<1>1. value' \in [Addr -> Value \cup {NULL}] /\ iter' \in Ptr
  BY DEF update, IInv, DoublyLinked, TypeOK
<1>2. \A a \in live : value'[a] \in Value
  BY DEF update, IInv, DoublyLinked, TypeOK, LiveHasValue
<1> QED BY <1>1, <1>2, OthersKeep DEF update

\* The caller's iterator is an address of a node or NULL, wherever it goes.
LEMMA SeekKeeps ==
    ASSUME IInv, seek
    PROVE  IInv'
<1>0. TypeOK
  BY DEF IInv, DoublyLinked
<1>1. Begin \in Ptr
  BY <1>0 DEF Begin, TypeOK
<1>2. End \in Ptr
  BY <1>0 DEF End, TypeOK, Ptr
<1>3. NextOf(iter) \in Ptr /\ PrevOf(iter) \in Ptr
  <2>1. InList(iter) => iter \in Addr
    BY Found
  <2> QED BY <1>0, <2>1 DEF NextOf, PrevOf, TypeOK, Ptr
<1>4. \A i \in 0..num : NodeAt(i) \in Ptr
  <2>1. TAKE i \in 0..num
  <2>2. i \in Nat /\ NodeAt(i) = (IF i < num THEN Nodes[i + 1] ELSE NULL)
    BY <1>0, Found DEF TypeOK
  <2>3. i < num => Nodes[i + 1] \in Addr
    BY <1>0, Found DEF TypeOK
  <2> QED BY <2>2, <2>3 DEF Ptr
<1>5. iter' \in Ptr
  BY <1>1, <1>2, <1>3, <1>4 DEF seek
<1>6. UNCHANGED listVars
  BY DEF seek
<1>7. value' \in [Addr -> Value \cup {NULL}] /\ \A a \in live : value'[a] \in Value
  BY <1>0, <1>6 DEF listVars, TypeOK, IInv, LiveHasValue
<1> QED BY <1>5, <1>6, <1>7, OthersKeep DEF listVars

-----------------------------------------------------------------------------
(* The invariants. *)

\* What an insertion at the caller's iterator does.
LEMMA InsertKeeps ==
    ASSUME IInv, NEW a \in Addr, NEW v \in Value, insert(a, v)
    PROVE  IInv'
<1>1. CASE iter = NULL /\ LinkLast(a, v)
  BY <1>1, LastKeeps DEF insert
<1>2. CASE InList(iter) /\ LinkBefore(a, iter, v)
  <2>1. PICK j \in 1..num : Nodes[j] = iter
    BY <1>2, Found
  <2> QED BY <1>2, <2>1, BeforeKeeps DEF insert
<1> QED BY <1>1, <1>2 DEF insert

LEMMA EraseKeepsAt ==
    ASSUME IInv, erase \/ \E i \in 0..num : eraseAt(i)
    PROVE  IInv'
<1>1. CASE erase
  <2>1. PICK j \in 1..num : Nodes[j] = iter
    BY <1>1, Found DEF erase
  <2> QED BY <1>1, <2>1, EraseKeeps DEF erase
<1>2. CASE \E i \in 0..num : eraseAt(i)
  <2>1. PICK i \in 0..num : eraseAt(i)
    BY <1>2
  <2>2. num \in Nat
    BY DEF IInv, DoublyLinked, TypeOK
  <2>3. i \in Nat /\ i + 1 \in 1..num /\ NodeAt(i) = Nodes[i + 1]
    BY <2>1, <2>2, Found DEF eraseAt
  <2>4. Erase(Nodes[i + 1]) /\ iter' = iter
    BY <2>1, <2>3 DEF eraseAt
  <2> QED BY <2>3, <2>4, EraseKeeps
<1> QED BY <1>1, <1>2

\* IInv holds always.
THEOREM InductiveInvariant == Spec => []IInv
<1>1. ASSUME IInv, [Next]_vars
      PROVE  IInv'
  <2>1. CASE \E a \in Addr, v \in Value : append(a, v) \/ insert(a, v)
    BY <1>1, <2>1, LastKeeps, InsertKeeps DEF append
  <2>2. CASE \E v \in Value : update(v)
    BY <1>1, <2>2, UpdateKeeps
  <2>3. CASE erase \/ \E i \in 0..num : eraseAt(i)
    BY <1>1, <2>3, EraseKeepsAt
  <2>4. CASE clear
    BY <1>1, <2>4, ClearKeeps
  <2>5. CASE seek
    BY <1>1, <2>5, SeekKeeps
  <2>6. CASE UNCHANGED vars
    <3>1. /\ value' \in [Addr -> Value \cup {NULL}] /\ iter' \in Ptr
          /\ \A a \in live : value'[a] \in Value
      BY <1>1, <2>6 DEF vars, IInv, DoublyLinked, TypeOK, LiveHasValue
    <3>2. UNCHANGED <<head, tail, num, next, prev, live>>
      BY <2>6 DEF vars
    <3> QED BY <1>1, <3>1, <3>2, OthersKeep
  <2> QED BY <1>1, <2>1, <2>2, <2>3, <2>4, <2>5, <2>6 DEF Next
<1> QED BY <1>1, InitIInv, PTL DEF Spec

\* The chain from head has num different nodes, is the same backwards, and ends
\* in tail, after any operations in any order.
THEOREM AlwaysDoublyLinked == Spec => []DoublyLinked
<1>1. IInv => DoublyLinked
  BY DEF IInv
<1> QED BY <1>1, InductiveInvariant, PTL

\* No operation leaks a node, or leaves a freed one in the chain.
THEOREM NeverLeaksNorDangles == Spec => []NoLeakNoDangling
<1>1. IInv => NoLeakNoDangling
  BY DEF IInv
<1> QED BY <1>1, InductiveInvariant, PTL

-----------------------------------------------------------------------------
(* The list implements the sequence. *)

\* A concatenation, as a function of the position.
LEMMA ConcatIs ==
    ASSUME NEW S, NEW a \in Seq(S), NEW b \in Seq(S)
    PROVE  /\ a \o b \in Seq(S) /\ Len(a \o b) = Len(a) + Len(b)
           /\ a \o b = [i \in 1..(Len(a) + Len(b)) |->
                          IF i <= Len(a) THEN a[i] ELSE b[i - Len(a)]]
<1>1. /\ a \o b \in Seq(S) /\ Len(a \o b) = Len(a) + Len(b)
      /\ \A i \in 1..(Len(a) + Len(b)) :
            (a \o b)[i] = IF i <= Len(a) THEN a[i] ELSE b[i - Len(a)]
  BY ConcatProperties
<1>2. a \o b = [i \in 1..(Len(a) + Len(b)) |-> (a \o b)[i]]
  BY <1>1, LenProperties
<1> QED BY <1>1, <1>2

\* The same of a part of a sequence.
LEMMA SubSeqIs ==
    ASSUME NEW S, NEW s \in Seq(S), NEW m \in Nat \ {0}, NEW n \in Nat,
           m <= n + 1, n <= Len(s)
    PROVE  /\ SubSeq(s, m, n) \in Seq(S) /\ Len(SubSeq(s, m, n)) = n - m + 1
           /\ \A i \in 1..(n - m + 1) : SubSeq(s, m, n)[i] = s[m + i - 1]
<1>1. \A i \in m..n : s[i] \in S
  BY ElementOfSeq, LenProperties
<1>2. /\ SubSeq(s, m, n) \in Seq(S)
      /\ Len(SubSeq(s, m, n)) = IF m <= n THEN n - m + 1 ELSE 0
      /\ \A i \in 1..(n - m + 1) : SubSeq(s, m, n)[i] = s[m + i - 1]
  BY <1>1, SubSeqProperties
<1> QED BY <1>2

\* InsertAt and RemoveAt.
LEMMA InsertAtIs ==
    ASSUME NEW S, NEW s \in Seq(S), NEW n \in Nat, Len(s) = n,
           NEW j \in 1..(n + 1), NEW e \in S
    PROVE  InsertAt(s, j, e) =
             [k \in 1..(n + 1) |-> IF k < j THEN s[k] ELSE IF k = j THEN e ELSE s[k - 1]]
<1> DEFINE a == SubSeq(s, 1, j - 1)
           b == SubSeq(s, j, n)
           one == <<e>>
           c == a \o one
<1>0. /\ j - 1 \in Nat /\ n - j + 1 \in Nat /\ j \in Nat \ {0}
      /\ (j - 1) + 1 = j /\ j + (n - j + 1) = n + 1
  OBVIOUS
<1>1. a \in Seq(S) /\ Len(a) = j - 1 /\ \A i \in 1..(j - 1) : a[i] = s[i]
  BY <1>0, SubSeqIs
<1>2. b \in Seq(S) /\ Len(b) = n - j + 1 /\ \A i \in 1..(n - j + 1) : b[i] = s[j + i - 1]
  BY <1>0, SubSeqIs
<1>3. one \in Seq(S) /\ Len(one) = 1 /\ one[1] = e
  OBVIOUS
<1> HIDE DEF a, b, one
<1>4. c = [i \in 1..j |-> IF i <= j - 1 THEN a[i] ELSE one[i - (j - 1)]]
  <2>1. c = [i \in 1..(Len(a) + Len(one)) |-> IF i <= Len(a) THEN a[i] ELSE one[i - Len(a)]]
    BY <1>1, <1>3, ConcatIs
  <2> QED BY <1>0, <1>1, <1>3, <2>1
<1>5. c \in Seq(S) /\ Len(c) = j
  <2>1. c \in Seq(S) /\ Len(c) = Len(a) + Len(one)
    BY <1>1, <1>3, ConcatIs
  <2> QED BY <1>0, <1>1, <1>3, <2>1
<1> HIDE DEF c
<1>6. c \o b = [i \in 1..(n + 1) |-> IF i <= j THEN c[i] ELSE b[i - j]]
  <2>1. c \o b = [i \in 1..(Len(c) + Len(b)) |-> IF i <= Len(c) THEN c[i] ELSE b[i - Len(c)]]
    BY <1>2, <1>5, ConcatIs
  <2> QED BY <1>0, <1>2, <1>5, <2>1
<1>7. \A i \in 1..(n + 1) :
         (IF i <= j THEN c[i] ELSE b[i - j])
           = IF i < j THEN s[i] ELSE IF i = j THEN e ELSE s[i - 1]
  <2>1. TAKE i \in 1..(n + 1)
  <2>2. CASE i < j
    BY <1>1, <1>4, <2>2
  <2>3. CASE i = j
    BY <1>3, <1>4, <2>3
  <2>4. CASE i > j
    <3>1. i - j \in 1..(n - j + 1) /\ j + (i - j) - 1 = i - 1
      BY <2>4
    <3> QED BY <1>2, <2>4, <3>1
  <2> QED BY <2>2, <2>3, <2>4
<1>8. InsertAt(s, j, e) = c \o b
  BY DEF InsertAt, a, b, c, one
<1> QED BY <1>6, <1>7, <1>8

LEMMA RemoveAtIs ==
    ASSUME NEW S, NEW s \in Seq(S), NEW n \in Nat, Len(s) = n, NEW j \in 1..n
    PROVE  RemoveAt(s, j) = [k \in 1..(n - 1) |-> IF k < j THEN s[k] ELSE s[k + 1]]
<1> DEFINE a == SubSeq(s, 1, j - 1)
           b == SubSeq(s, j + 1, n)
<1>0. /\ j - 1 \in Nat /\ n - j \in Nat /\ j + 1 \in Nat \ {0}
      /\ (j - 1) + (n - j) = n - 1 /\ n - (j + 1) + 1 = n - j
  OBVIOUS
<1>1. a \in Seq(S) /\ Len(a) = j - 1 /\ \A i \in 1..(j - 1) : a[i] = s[i]
  BY <1>0, SubSeqIs
<1>2. b \in Seq(S) /\ Len(b) = n - j /\ \A i \in 1..(n - j) : b[i] = s[(j + 1) + i - 1]
  <2>1. j + 1 <= n + 1
    OBVIOUS
  <2>2. b \in Seq(S) /\ Len(b) = n - (j + 1) + 1
        /\ \A i \in 1..(n - (j + 1) + 1) : b[i] = s[(j + 1) + i - 1]
    BY <1>0, <2>1, SubSeqIs
  <2> QED BY <1>0, <2>2
<1> HIDE DEF a, b
<1>3. a \o b = [i \in 1..(n - 1) |-> IF i <= j - 1 THEN a[i] ELSE b[i - (j - 1)]]
  <2>1. a \o b = [i \in 1..(Len(a) + Len(b)) |-> IF i <= Len(a) THEN a[i] ELSE b[i - Len(a)]]
    BY <1>1, <1>2, ConcatIs
  <2> QED BY <1>0, <1>1, <1>2, <2>1
<1>4. \A i \in 1..(n - 1) :
         (IF i <= j - 1 THEN a[i] ELSE b[i - (j - 1)]) = IF i < j THEN s[i] ELSE s[i + 1]
  <2>1. TAKE i \in 1..(n - 1)
  <2>2. CASE i < j
    BY <1>1, <2>2
  <2>3. CASE i >= j
    <3>1. i - (j - 1) \in 1..(n - j) /\ (j + 1) + (i - (j - 1)) - 1 = i + 1
      BY <2>3
    <3> QED BY <1>2, <2>3, <3>1
  <2> QED BY <2>2, <2>3
<1>5. RemoveAt(s, j) = a \o b
  BY DEF RemoveAt, a, b
<1> QED BY <1>3, <1>4, <1>5

LEMMA ElementsType ==
    ASSUME IInv
    PROVE  /\ num \in Nat /\ Elements \in Seq(Value) /\ Len(Elements) = num
           /\ \A k \in 1..num : Elements[k] = value[Nodes[k]]
<1>1. num \in Nat /\ \A k \in 1..num : value[Nodes[k]] \in Value
  BY LinkedNodes DEF IInv, DoublyLinked, TypeOK, LiveHasValue, Linked, Members
<1> QED BY <1>1 DEF Elements

\* The caller's iterator is the only position of its node, or 0.
LEMMA CursorIs ==
    ASSUME IInv
    PROVE  /\ Cursor \in 0..num
           /\ \A j \in 1..num : Cursor = j <=> Nodes[j] = iter
           /\ InList(iter) <=> Cursor # 0
<1>1. \A j, k \in 1..num : Nodes[j] = Nodes[k] => j = k
  BY DEF IInv, DoublyLinked
<1>2. num \in Nat
  BY ElementsType
<1>3. CASE InList(iter)
  <2>1. PICK j \in 1..num : Nodes[j] = iter
    BY <1>3, Found
  <2>2. \A k \in 1..num : Nodes[k] = iter => k = j
    BY <1>1, <2>1
  <2>3. Cursor = j
    BY <1>3, <2>1, <2>2 DEF Cursor
  <2> QED BY <1>2, <1>3, <2>1, <2>2, <2>3
<1>4. CASE ~InList(iter)
  BY <1>2, <1>4, Found DEF Cursor
<1> QED BY <1>3, <1>4

LEMMA CursorNext ==
    ASSUME IInv'
    PROVE  /\ num' \in Nat /\ Cursor' \in 0..num'
           /\ \A j \in 1..num' : Cursor' = j <=> Nodes'[j] = iter'
<1>0. DoublyLinked' /\ NoLeakNoDangling' /\ TypeOK'
  BY DEF IInv, DoublyLinked
<1>1. \A j, k \in 1..num' : Nodes'[j] = Nodes'[k] => j = k
  BY <1>0 DEF DoublyLinked
<1>2. num' \in Nat /\ DOMAIN Nodes' = 1..num'
  <2>1. num' \in Nat
    BY <1>0 DEF TypeOK
  <2>2. IsChain(Nodes', head', next', num')
    BY <2>1, NodesChainNext, ChainEquation
  <2> QED BY <2>1, <2>2 DEF IsChain
<1>3. Cursor' = IF iter' \in ToSet(Nodes')
                THEN CHOOSE k \in 1..num' : Nodes'[k] = iter' ELSE 0
  BY DEF Cursor, InList
<1>4. iter' \in ToSet(Nodes') <=> \E k \in 1..num' : Nodes'[k] = iter'
  BY <1>2 DEF ToSet
<1>5. CASE \E k \in 1..num' : Nodes'[k] = iter'
  <2>1. PICK j \in 1..num' : Nodes'[j] = iter'
    BY <1>5
  <2>2. \A k \in 1..num' : Nodes'[k] = iter' => k = j
    BY <1>1, <2>1
  <2>3. Cursor' = j
    BY <1>3, <1>4, <1>5, <2>1, <2>2
  <2> QED BY <1>2, <2>1, <2>2, <2>3
<1>6. CASE ~ \E k \in 1..num' : Nodes'[k] = iter'
  BY <1>2, <1>3, <1>4, <1>6
<1> QED BY <1>5, <1>6

\* There are as many nodes as addresses at most, and fewer as long as one is free.
LEMMA RoomLeft ==
    ASSUME IInv, IsFiniteSet(Addr), NEW a \in Addr \ live
    PROVE  num < Cardinality(Addr)
<1>1. /\ num \in Nat /\ live \subseteq Addr
      /\ Nodes \in [1..num -> Addr] /\ Distinct(Nodes, num) /\ live = Members(Nodes, num)
  BY LinkedNodes DEF IInv, DoublyLinked, TypeOK, Linked
<1>2. ExistsBijection(1..num, live)
  <2>1. Nodes \in [1..num -> live]
    BY <1>1 DEF Members
  <2>2. Nodes \in Bijection(1..num, live)
    BY <1>1, <2>1 DEF Bijection, Injection, Surjection, IsInjective, Distinct, Members
  <2> QED BY <2>2 DEF ExistsBijection
<1>3. Cardinality(live) = num
  BY <1>1, <1>2, FS_CountingElements
<1>4. IsFiniteSet(live) /\ live \cup {a} \in SUBSET Addr
  BY <1>1, FS_Subset
<1>5. Cardinality(live \cup {a}) = num + 1
  BY <1>3, <1>4, FS_AddElement
<1>6. Cardinality(live \cup {a}) <= Cardinality(Addr)
  BY <1>4, FS_Subset
<1>7. Cardinality(Addr) \in Nat
  BY FS_CardinalityType
<1> QED BY <1>1, <1>5, <1>6, <1>7

\* An element is put at position j.
LEMMA RefinesPut ==
    ASSUME IInv, IInv', IsFiniteSet(Addr), NEW a \in Addr \ live, NEW v \in Value,
           NEW j \in 1..(num + 1),
           num' = num + 1, Nodes' = With(Nodes, num, j, a),
           value' = [value EXCEPT ![a] = v], iter' = iter, a # iter
    PROVE  Abstract!Put(j, v)
<1>1. /\ num \in Nat /\ Elements \in Seq(Value) /\ Len(Elements) = num
      /\ \A k \in 1..num : Elements[k] = value[Nodes[k]]
  BY ElementsType
<1>2. /\ value \in [Addr -> Value \cup {NULL}]
      /\ \A k \in 1..num : Nodes[k] \in live /\ Nodes[k] \in Addr /\ Nodes[k] # a
  BY LinkedNodes DEF IInv, DoublyLinked, TypeOK, Linked, Members
<1>3. \A k \in 1..(num + 1) :
         Nodes'[k] = IF k < j THEN Nodes[k] ELSE IF k = j THEN a ELSE Nodes[k - 1]
  BY DEF With
<1>4. Elements' = InsertAt(Elements, j, v)
  <2>1. Elements' = [k \in 1..(num + 1) |-> value'[Nodes'[k]]]
    BY DEF Elements
  <2>2. \A k \in 1..(num + 1) :
           value'[Nodes'[k]] = IF k < j THEN Elements[k]
                               ELSE IF k = j THEN v ELSE Elements[k - 1]
    <3>1. TAKE k \in 1..(num + 1)
    <3>2. CASE k < j
      <4>1. k \in 1..num
        BY <1>1, <3>2
      <4> QED BY <1>1, <1>2, <1>3, <3>2, <4>1
    <3>3. CASE k = j
      BY <1>1, <1>2, <1>3, <3>3
    <3>4. CASE k > j
      <4>1. k - 1 \in 1..num
        BY <1>1, <3>4
      <4> QED BY <1>1, <1>2, <1>3, <3>4, <4>1
    <3> QED BY <1>1, <3>2, <3>3, <3>4
  <2>3. InsertAt(Elements, j, v) =
           [k \in 1..(num + 1) |-> IF k < j THEN Elements[k]
                                   ELSE IF k = j THEN v ELSE Elements[k - 1]]
    BY <1>1, InsertAtIs
  <2> QED BY <2>1, <2>2, <2>3
<1>5. Cursor' = IF Cursor >= j THEN Cursor + 1 ELSE Cursor
  <2>1. /\ Cursor \in 0..num /\ \A k \in 1..num : Cursor = k <=> Nodes[k] = iter
    BY CursorIs
  <2>2. /\ Cursor' \in 0..(num + 1)
        /\ \A k \in 1..(num + 1) : Cursor' = k <=> Nodes'[k] = iter
    BY CursorNext
  <2>3. CASE Cursor = 0
    <3>1. \A k \in 1..(num + 1) : k - 1 \in 1..num \/ k <= j
      BY <1>1
    <3>2. \A k \in 1..(num + 1) : Nodes'[k] # iter
      BY <1>1, <1>3, <2>1, <2>3, <3>1
    <3> QED BY <1>1, <2>2, <2>3, <3>2
  <2>4. CASE Cursor # 0 /\ Cursor >= j
    <3>1. Cursor + 1 \in 1..(num + 1) /\ Nodes'[Cursor + 1] = Nodes[Cursor]
      BY <1>1, <1>3, <2>1, <2>4
    <3> QED BY <1>1, <2>1, <2>2, <2>4, <3>1
  <2>5. CASE Cursor # 0 /\ ~(Cursor >= j)
    <3>1. Cursor \in 1..(num + 1) /\ Nodes'[Cursor] = Nodes[Cursor]
      BY <1>1, <1>3, <2>1, <2>5
    <3> QED BY <1>1, <2>1, <2>2, <2>5, <3>1
  <2> QED BY <2>3, <2>4, <2>5
<1>6. Len(Elements) < Cardinality(Addr)
  BY <1>1, RoomLeft
<1> QED BY <1>4, <1>5, <1>6 DEF Abstract!Put, Abstract!InsertAt, InsertAt

\* The element at position j goes.
LEMMA RefinesDrop ==
    ASSUME IInv, IInv', NEW j \in 1..num,
           num' = num - 1, Nodes' = Without(Nodes, num, j),
           value' = [value EXCEPT ![Nodes[j]] = NULL], iter' = iter
    PROVE  Abstract!Drop(j)
<1>1. /\ num \in Nat /\ Elements \in Seq(Value) /\ Len(Elements) = num
      /\ \A k \in 1..num : Elements[k] = value[Nodes[k]]
  BY ElementsType
<1>2. /\ value \in [Addr -> Value \cup {NULL}]
      /\ \A k \in 1..num : Nodes[k] \in Addr
      /\ \A i, k \in 1..num : Nodes[i] = Nodes[k] => i = k
  BY LinkedNodes DEF IInv, DoublyLinked, TypeOK, Linked
<1>3. \A k \in 1..(num - 1) : Nodes'[k] = IF k < j THEN Nodes[k] ELSE Nodes[k + 1]
  BY DEF Without
<1>4. Elements' = RemoveAt(Elements, j)
  <2>1. Elements' = [k \in 1..(num - 1) |-> value'[Nodes'[k]]]
    BY DEF Elements
  <2>2. \A k \in 1..(num - 1) :
           value'[Nodes'[k]] = IF k < j THEN Elements[k] ELSE Elements[k + 1]
    <3>1. TAKE k \in 1..(num - 1)
    <3>2. k \in 1..num /\ k + 1 \in 1..num
      BY <1>1
    <3> QED BY <1>1, <1>2, <1>3, <3>2
  <2>3. RemoveAt(Elements, j) =
           [k \in 1..(num - 1) |-> IF k < j THEN Elements[k] ELSE Elements[k + 1]]
    BY <1>1, RemoveAtIs
  <2> QED BY <2>1, <2>2, <2>3
<1>5. Cursor' = IF Cursor = j THEN 0 ELSE IF Cursor > j THEN Cursor - 1 ELSE Cursor
  <2>1. /\ Cursor \in 0..num /\ \A k \in 1..num : Cursor = k <=> Nodes[k] = iter
    BY CursorIs
  <2>2. /\ Cursor' \in 0..(num - 1)
        /\ \A k \in 1..(num - 1) : Cursor' = k <=> Nodes'[k] = iter
    BY CursorNext
  <2>3. CASE Cursor = 0 \/ Cursor = j
    <3>1. \A k \in 1..(num - 1) : Nodes'[k] # iter
      <4>1. TAKE k \in 1..(num - 1)
      <4>2. k \in 1..num /\ k + 1 \in 1..num
        BY <1>1
      <4> QED BY <1>1, <1>3, <2>1, <2>3, <4>2
    <3> QED BY <1>1, <2>2, <2>3, <3>1
  <2>4. CASE Cursor # 0 /\ Cursor > j
    <3>1. Cursor - 1 \in 1..(num - 1) /\ Nodes'[Cursor - 1] = Nodes[Cursor]
      BY <1>1, <1>3, <2>1, <2>4
    <3> QED BY <1>1, <2>1, <2>2, <2>4, <3>1
  <2>5. CASE Cursor # 0 /\ Cursor < j
    <3>1. Cursor \in 1..(num - 1) /\ Nodes'[Cursor] = Nodes[Cursor]
      BY <1>1, <1>3, <2>1, <2>5
    <3> QED BY <1>1, <2>1, <2>2, <2>5, <3>1
  <2> QED BY <1>1, <2>1, <2>3, <2>4, <2>5
<1> QED BY <1>4, <1>5 DEF Abstract!Drop, Abstract!RemoveAt, RemoveAt

\* A step that keeps the nodes.
LEMMA SameCursor ==
    ASSUME UNCHANGED <<head, num, next, iter>>
    PROVE  Cursor' = Cursor
<1>1. Nodes' = Nodes
  BY SameNodes
<1> QED BY <1>1 DEF Cursor, InList

LEMMA InitRefines == Init => Abstract!Init
<1> SUFFICES ASSUME Init PROVE Abstract!Init
  OBVIOUS
<1>1. num = 0
  BY DEF Init
<1>2. IInv
  BY InitIInv
<1>3. Elements = <<>>
  BY <1>1, <1>2, ElementsType
<1>4. Cursor = 0
  BY <1>1, <1>2, CursorIs
<1> QED BY <1>3, <1>4 DEF Abstract!Init

LEMMA EndRefines ==
    ASSUME IInv, IInv', ~ReuseHeld, IsFiniteSet(Addr),
           NEW a \in Addr, NEW v \in Value, LinkLast(a, v), iter' = iter
    PROVE  Abstract!Put(Len(Elements) + 1, v)
<1>1. /\ num' = num + 1 /\ Nodes' = With(Nodes, num, num + 1, a)
      /\ value' = [value EXCEPT ![a] = v]
  BY LastKeeps DEF LinkLast
<1>2. a \in Addr \ live /\ a # iter
  BY DEF LinkLast, Fresh
<1>3. num + 1 \in 1..(num + 1) /\ Len(Elements) = num
  BY ElementsType
<1>4. Abstract!Put(num + 1, v)
  BY <1>1, <1>2, <1>3, RefinesPut
<1> QED BY <1>3, <1>4

LEMMA InsertRefines ==
    ASSUME IInv, IInv', ~ReuseHeld, IsFiniteSet(Addr),
           NEW a \in Addr, NEW v \in Value, insert(a, v)
    PROVE  Abstract!insert(v)
<1>1. CASE iter = NULL /\ LinkLast(a, v)
  <2>1. ~InList(iter)
    BY <1>1, Found
  <2>2. Cursor = 0
    BY <2>1, CursorIs
  <2>3. Abstract!Put(Len(Elements) + 1, v)
    BY <1>1, EndRefines DEF insert
  <2> QED BY <2>2, <2>3 DEF Abstract!insert
<1>2. CASE InList(iter) /\ LinkBefore(a, iter, v)
  <2>1. PICK j \in 1..num : Nodes[j] = iter
    BY <1>2, Found
  <2>2. Cursor = j /\ j # 0 /\ j \in 1..(num + 1)
    BY <2>1, CursorIs, ElementsType
  <2>3. a \in Addr \ live /\ a # iter /\ value' = [value EXCEPT ![a] = v] /\ iter' = iter
    BY <1>2 DEF insert, LinkBefore, Fresh
  <2>4. num' = num + 1 /\ Nodes' = With(Nodes, num, j, a)
    BY <1>2, <2>1, <2>3, BeforeKeeps
  <2>5. Abstract!Put(j, v)
    BY <2>2, <2>3, <2>4, RefinesPut
  <2> QED BY <2>2, <2>5 DEF Abstract!insert
<1> QED BY <1>1, <1>2 DEF insert

LEMMA UpdateRefines ==
    ASSUME IInv, IInv', NEW v \in Value, update(v)
    PROVE  Abstract!update(v)
<1>1. /\ num' = num /\ value' = [value EXCEPT ![iter] = v] /\ InList(iter)
      /\ UNCHANGED <<head, num, next, iter>>
  BY DEF update
<1>2. Nodes' = Nodes
  BY <1>1, SameNodes
<1>3. /\ Cursor \in 0..num /\ Cursor # 0 /\ num \in Nat
      /\ \A k \in 1..num : Cursor = k <=> Nodes[k] = iter
  BY <1>1, CursorIs, ElementsType
<1>4. /\ value \in [Addr -> Value \cup {NULL}]
      /\ \A k \in 1..num : Nodes[k] \in Addr
  BY Found DEF IInv, DoublyLinked, TypeOK
<1>5. \A k \in 1..num : value'[Nodes'[k]] = IF k = Cursor THEN v ELSE value[Nodes[k]]
  BY <1>1, <1>2, <1>3, <1>4
<1>6. Elements = [k \in 1..num |-> value[Nodes[k]]]
      /\ Elements' = [k \in 1..num |-> value'[Nodes'[k]]]
  BY <1>1 DEF Elements
<1>7. Elements' = [Elements EXCEPT ![Cursor] = v]
  BY <1>3, <1>5, <1>6
<1> QED BY <1>1, <1>3, <1>7, SameCursor DEF Abstract!update

\* The node at position j goes.
LEMMA EraseRefines ==
    ASSUME IInv, IInv', NEW j \in 1..num, Erase(Nodes[j]), iter' = iter
    PROVE  Abstract!Drop(j)
<1>1. num' = num - 1 /\ Nodes' = Without(Nodes, num, j)
  BY EraseKeeps
<1>2. value' = [value EXCEPT ![Nodes[j]] = NULL]
  BY DEF Erase
<1> QED BY <1>1, <1>2, RefinesDrop

LEMMA ClearRefines ==
    ASSUME IInv, clear
    PROVE  Abstract!clear
<1>1. IInv' /\ num' = 0
  BY ClearKeeps
<1>2. Cursor' = 0
  BY <1>1, CursorNext
<1>3. Elements' = <<>>
  <2>1. Elements' = [k \in 1..num' |-> value'[Nodes'[k]]]
    BY DEF Elements
  <2> QED BY <1>1, <2>1
<1> QED BY <1>2, <1>3 DEF Abstract!clear

LEMMA SeekRefines ==
    ASSUME IInv, IInv', seek
    PROVE  Abstract!seek
<1>1. UNCHANGED <<head, num, next, value>>
  BY DEF seek, listVars
<1>2. Elements' = Elements
  BY <1>1, SameNodes DEF Elements
<1>3. Cursor' \in 0..Len(Elements)
  BY <1>1, CursorNext, ElementsType
<1> QED BY <1>2, <1>3 DEF Abstract!seek

\* Every step of the list is a step of the sequence, or leaves it as it is.
LEMMA StepRefines ==
    ASSUME IInv, IInv', [Next]_vars, ~ReuseHeld, IsFiniteSet(Addr)
    PROVE  [Abstract!Next]_(Abstract!vars)
<1>1. ASSUME NEW a \in Addr, NEW v \in Value, append(a, v)
      PROVE  Abstract!Next
  <2>1. Abstract!append(v)
    BY <1>1, EndRefines DEF append, Abstract!append
  <2> QED BY <2>1 DEF Abstract!Next
<1>2. ASSUME NEW a \in Addr, NEW v \in Value, insert(a, v)
      PROVE  Abstract!Next
  <2>1. Abstract!insert(v)
    BY <1>2, InsertRefines
  <2> QED BY <2>1 DEF Abstract!Next
<1>3. ASSUME NEW v \in Value, update(v)
      PROVE  Abstract!Next
  <2>1. Abstract!update(v)
    BY <1>3, UpdateRefines
  <2> QED BY <2>1 DEF Abstract!Next
<1>4. ASSUME NEW i \in 0..num, eraseAt(i)
      PROVE  Abstract!Next
  <2>1. num \in Nat /\ Len(Elements) = num
    BY ElementsType
  <2>2. i \in Nat /\ i + 1 \in 1..num /\ NodeAt(i) = Nodes[i + 1]
    BY <1>4, <2>1, Found DEF eraseAt
  <2>3. Abstract!Drop(i + 1)
    <3>1. Erase(Nodes[i + 1]) /\ iter' = iter
      BY <1>4, <2>2 DEF eraseAt
    <3> QED BY <2>2, <3>1, EraseRefines
  <2>4. i + 1 \in Abstract!Position /\ Abstract!eraseAt(i + 1)
    BY <2>1, <2>2, <2>3 DEF Abstract!eraseAt, Abstract!Position
  <2> QED BY <2>4 DEF Abstract!Next
<1>5. CASE erase
  <2>1. PICK j \in 1..num : Nodes[j] = iter
    BY <1>5, Found DEF erase
  <2>2. Cursor = j /\ Cursor # 0
    BY <2>1, CursorIs, ElementsType
  <2>3. Abstract!Drop(j)
    BY <1>5, <2>1, EraseRefines DEF erase
  <2>4. Abstract!erase
    BY <2>2, <2>3 DEF Abstract!erase
  <2> QED BY <2>4 DEF Abstract!Next
<1>6. CASE clear
  BY <1>6, ClearRefines DEF Abstract!Next
<1>7. CASE seek
  BY <1>7, SeekRefines DEF Abstract!Next
<1>8. CASE UNCHANGED vars
  <2>1. UNCHANGED <<head, num, next, value, iter>>
    BY <1>8 DEF vars
  <2>2. Elements' = Elements /\ Cursor' = Cursor
    BY <2>1, SameNodes, SameCursor DEF Elements
  <2> QED BY <2>2 DEF Abstract!vars
<1> QED BY <1>1, <1>2, <1>3, <1>4, <1>5, <1>6, <1>7, <1>8 DEF Next

\* As long as calloc does not return the address the caller's iterator still
\* holds, a list of any size is a sequence with an iterator that stays with its
\* element while others come and go around it.
THEOREM ImplementsTheSequence ==
    ASSUME ~ReuseHeld, IsFiniteSet(Addr)
    PROVE  Spec => ImplementsSeq
<1>1. IInv /\ IInv' /\ [Next]_vars => [Abstract!Next]_(Abstract!vars)
  BY StepRefines
<1> QED BY <1>1, InitRefines, InductiveInvariant, PTL DEF Spec, ImplementsSeq, Abstract!Spec

-----------------------------------------------------------------------------
(***************************************************************************)
(* OBuffer: what a move, an append and a search do to the array.           *)
(***************************************************************************)

\* An array of n elements is a sequence of length n.
LEMMA ArrayIsSeq ==
    ASSUME NEW S, NEW n \in Nat, NEW f \in [1..n -> S]
    PROVE  f \in Seq(S) /\ Len(f) = n
OBVIOUS

\* The first n elements of an array, when they are the elements of t.
LEMMA PrefixIs ==
    ASSUME NEW b, NEW n \in Nat, NEW S, NEW t \in Seq(S), Len(t) = n,
           \A k \in 1..n : b[k] = t[k]
    PROVE  SubSeq(b, 1, n) = t
<1>1. \A k \in 1..n : b[k] \in S
  BY ElementOfSeq
<1>2. /\ SubSeq(b, 1, n) \in Seq(S)
      /\ Len(SubSeq(b, 1, n)) = IF 1 <= n THEN n - 1 + 1 ELSE 0
      /\ \A k \in 1..(n - 1 + 1) : SubSeq(b, 1, n)[k] = b[1 + k - 1]
  BY <1>1, SubSeqProperties
<1>3. \A k \in 1..n : SubSeq(b, 1, n)[k] = t[k]
  <2> TAKE k \in 1..n
  <2>1. 1 + k - 1 = k /\ n - 1 + 1 = n
    OBVIOUS
  <2> QED BY <1>2, <2>1
<1>4. Len(SubSeq(b, 1, n)) = n
  BY <1>2
<1> QED BY <1>2, <1>3, <1>4, SeqEqual

\* The elements of a sequence from lo + 1 to hi.
LEMMA PartIs ==
    ASSUME NEW S, NEW s \in Seq(S), NEW lo \in Nat, NEW hi \in Nat, lo <= hi, hi <= Len(s)
    PROVE  /\ SubSeq(s, lo + 1, hi) \in Seq(S)
           /\ Len(SubSeq(s, lo + 1, hi)) = hi - lo
           /\ \A k \in 1..(hi - lo) : SubSeq(s, lo + 1, hi)[k] = s[k + lo]
<1>1. \A k \in (lo + 1)..hi : s[k] \in S
  BY ElementOfSeq, LenProperties
<1>2. /\ SubSeq(s, lo + 1, hi) \in Seq(S)
      /\ Len(SubSeq(s, lo + 1, hi)) = IF lo + 1 <= hi THEN hi - (lo + 1) + 1 ELSE 0
      /\ \A k \in 1..(hi - (lo + 1) + 1) : SubSeq(s, lo + 1, hi)[k] = s[(lo + 1) + k - 1]
  BY <1>1, SubSeqProperties
<1>3. \A k \in 1..(hi - lo) : SubSeq(s, lo + 1, hi)[k] = s[k + lo]
  <2> TAKE k \in 1..(hi - lo)
  <2>1. (lo + 1) + k - 1 = k + lo /\ hi - (lo + 1) + 1 = hi - lo
    OBVIOUS
  <2> QED BY <1>2, <2>1
<1> QED BY <1>2, <1>3

\* The data is a sequence of len bytes.
LEMMA Content ==
    ASSUME BInv
    PROVE  /\ SubSeq(buf, 1, len) \in Seq(Byte)
           /\ Len(SubSeq(buf, 1, len)) = len
           /\ \A k \in 1..len : SubSeq(buf, 1, len)[k] = buf[k]
<1>1. len \in Nat /\ \A k \in 1..len : buf[k] \in Byte
  BY DEF BInv, BTypeOK, DataInv, size
<1>2. /\ SubSeq(buf, 1, len) \in Seq(Byte)
      /\ Len(SubSeq(buf, 1, len)) = IF 1 <= len THEN len - 1 + 1 ELSE 0
      /\ \A k \in 1..(len - 1 + 1) : SubSeq(buf, 1, len)[k] = buf[1 + k - 1]
  BY <1>1, SubSeqProperties
<1>3. \A k \in 1..len : SubSeq(buf, 1, len)[k] = buf[k]
  <2> TAKE k \in 1..len
  <2>1. 1 + k - 1 = k /\ len - 1 + 1 = len
    BY <1>1
  <2> QED BY <1>2, <2>1
<1> QED BY <1>1, <1>2, <1>3

\* The types of the array, from BInv.
LEMMA Array ==
    ASSUME BInv
    PROVE  /\ size \in Nat /\ len \in 0..size /\ len \in Nat
           /\ buf \in [1..size -> Byte \cup {NUL}]
BY LenProperties DEF BInv, BTypeOK, size

\* A part of the data is the same part of the array.
LEMMA PartOfData ==
    ASSUME BInv, NEW p \in Nat \ {0}, NEW e \in Nat, e <= len
    PROVE  /\ SubSeq(SubSeq(buf, 1, len), p, e) = SubSeq(buf, p, e)
           /\ SubSeq(buf, p, e) \in Seq(Byte)
<1> DEFINE c == SubSeq(buf, 1, len)
<1>1. len \in Nat /\ \A k \in 1..len : c[k] = buf[k] /\ buf[k] \in Byte
  BY Content, Array DEF BInv, DataInv
<1>2. \A k \in p..e : c[k] = buf[k] /\ buf[k] \in Byte
  BY <1>1
<1> HIDE DEF c
<1>3. \A k \in p..e : c[k] \in Byte
  BY <1>2
<1>4. /\ SubSeq(buf, p, e) \in Seq(Byte)
      /\ Len(SubSeq(buf, p, e)) = IF p <= e THEN e - p + 1 ELSE 0
      /\ \A k \in 1..(e - p + 1) : SubSeq(buf, p, e)[k] = buf[p + k - 1]
  BY <1>2, SubSeqProperties
<1>5. /\ SubSeq(c, p, e) \in Seq(Byte)
      /\ Len(SubSeq(c, p, e)) = IF p <= e THEN e - p + 1 ELSE 0
      /\ \A k \in 1..(e - p + 1) : SubSeq(c, p, e)[k] = c[p + k - 1]
  BY <1>3, SubSeqProperties
<1>6. \A k \in 1..(e - p + 1) : SubSeq(c, p, e)[k] = SubSeq(buf, p, e)[k]
  <2> TAKE k \in 1..(e - p + 1)
  <2>1. p + k - 1 \in p..e
    OBVIOUS
  <2> QED BY <1>2, <1>4, <1>5, <2>1
<1>7. \A k \in 1..Len(SubSeq(c, p, e)) : SubSeq(c, p, e)[k] = SubSeq(buf, p, e)[k]
  BY <1>5, <1>6
<1>8. SubSeq(c, p, e) = SubSeq(buf, p, e)
  BY <1>4, <1>5, <1>7, SeqEqual
<1> QED BY <1>4, <1>8 DEF c

-----------------------------------------------------------------------------
(* Init, and the operations that move bytes.                                 *)

LEMMA BufferInit ==
    ASSUME BInit, "careless" \notin Callers
    PROVE  BInv /\ Fifo!Init
<1> USE SizeAssumption, ByteAssumption, CallerAssumption
<1>1. PICK request \in Requests : buf = Zeros(IF request < 0 THEN DefaultSize ELSE request)
  BY DEF BInit
<1> DEFINE n == IF request < 0 THEN DefaultSize ELSE request
<1>2. n \in Nat
  OBVIOUS
<1>3. buf \in [1..n -> Byte \cup {NUL}] /\ \A k \in 1..n : buf[k] = NUL
  BY <1>1 DEF Zeros
<1> HIDE DEF n
<1>4. buf \in Seq(Byte \cup {NUL}) /\ size = n
  BY <1>2, <1>3, ArrayIsSeq DEF size
<1>5. len = 0 /\ out = <<>> /\ outLen = 0 /\ ret = -1 /\ caller \in Callers /\ held = FALSE
      /\ crashed = FALSE
  BY DEF BInit
<1>6. out \in Seq(Byte) /\ out \in Seq(Byte \cup {NUL})
  BY <1>5, EmptySeq
<1>7. BTypeOK
  <2>1. len \in 0..size /\ outLen \in Nat /\ ret \in {-1, 0}
    BY <1>2, <1>4, <1>5
  <2>2. held \in BOOLEAN /\ crashed \in BOOLEAN
    BY <1>5, Zenon
  <2> QED BY <1>4, <1>5, <1>6, <2>1, <2>2, Zenon DEF BTypeOK
<1>8. DataInv
  BY <1>2, <1>3, <1>4, <1>5 DEF DataInv
<1>9. SubSeq(buf, 1, len) = <<>>
  BY <1>5, SubSeqEmpty
<1> QED BY <1>2, <1>4, <1>5, <1>6, <1>7, <1>8, <1>9 DEF BInv, Fifo!Init

\* What the move to the front leaves: the bytes from from + 1 on, and behind
\* them what was there.
LEMMA MovedIs ==
    ASSUME BInv, NEW from \in Nat, NEW count \in Nat, from + count <= len
    PROVE  /\ Moved(from, count) \in [1..size -> Byte \cup {NUL}]
           /\ \A k \in 1..count : Moved(from, count)[k] = buf[k + from]
<1>1. size \in Nat /\ len \in 0..size /\ buf \in [1..size -> Byte \cup {NUL}]
  BY Array
<1>2. \A k \in 1..count : k \in 1..size /\ k + from \in 1..size
  BY <1>1
<1> QED BY <1>1, <1>2 DEF Moved

\* A step keeps the invariant if it leaves an array of the same size whose
\* first len bytes are data and which is clean where that matters.
LEMMA ArrayKeeps ==
    ASSUME BInv, buf' \in [1..size -> Byte \cup {NUL}], len' \in 0..size,
           \A k \in 1..len' : buf'[k] \in Byte,
           caller' = caller, crashed' = crashed,
           out' \in Seq(Byte), outLen' \in Nat, ret' \in {-1, 0},
           held' \in BOOLEAN, held' => caller = "frames",
           caller # "bytes" /\ ~held' => \A k \in (len' + 1)..size : buf'[k] = NUL
    PROVE  BInv' /\ size' = size
<1>1. size \in Nat
  BY Array
<1>2. buf' \in Seq(Byte \cup {NUL}) /\ Len(buf') = size
  BY <1>1, ArrayIsSeq
<1>3. size' = size
  BY <1>2 DEF size
<1>4. out' \in Seq(Byte \cup {NUL})
  BY SeqMonotonic, Byte \subseteq Byte \cup {NUL}
<1>5. BTypeOK'
  BY <1>2, <1>3, <1>4 DEF BInv, BTypeOK
<1>6. DataInv'
  BY <1>3 DEF DataInv
<1> QED BY <1>3, <1>5, <1>6 DEF BInv

LEMMA ClearKeepsBuffer ==
    ASSUME BInv, bClear
    PROVE  BInv' /\ Fifo!bClear
<1>1. size \in Nat
  BY Array
<1>2. buf' = Zeros(size) /\ len' = 0 /\ held' = FALSE
      /\ UNCHANGED <<out, outLen, ret, caller, crashed>>
  BY DEF bClear
<1>3. buf' \in [1..size -> Byte \cup {NUL}] /\ \A k \in 1..size : buf'[k] = NUL
  BY <1>2 DEF Zeros
<1>4. out \in Seq(Byte) /\ outLen \in Nat /\ ret \in {-1, 0}
  BY DEF BInv, BTypeOK
<1>5. BInv' /\ size' = size
  <2>1. len' \in 0..size /\ (\A k \in 1..len' : buf'[k] \in Byte)
        /\ \A k \in (len' + 1)..size : buf'[k] = NUL
    BY <1>1, <1>2, <1>3
  <2> QED BY <1>2, <1>3, <1>4, <2>1, ArrayKeeps
<1>6. SubSeq(buf', 1, len') = <<>>
  BY <1>2, SubSeqEmpty
<1> QED BY <1>2, <1>5, <1>6 DEF Fifo!bClear

\* What is left of the data when its first bytes are gone.
LEMMA RestOfData ==
    ASSUME BInv, NEW n \in 0..len, buf' = Moved(n, len - n), len' = len - n
    PROVE  /\ SubSeq(buf', 1, len') = SubSeq(SubSeq(buf, 1, len), n + 1, len)
           /\ buf' \in [1..size -> Byte \cup {NUL}]
           /\ \A k \in 1..len' : buf'[k] \in Byte
<1> DEFINE c == SubSeq(buf, 1, len)
           r == SubSeq(c, n + 1, len)
<1>1. size \in Nat /\ len \in 0..size /\ len - n \in Nat /\ n \in Nat
  BY Array
<1>2. /\ buf' \in [1..size -> Byte \cup {NUL}]
      /\ \A k \in 1..(len - n) : buf'[k] = buf[k + n]
  BY <1>1, MovedIs, n + (len - n) <= len
<1>3. c \in Seq(Byte) /\ Len(c) = len /\ \A k \in 1..len : c[k] = buf[k]
  BY Content
<1> HIDE DEF c
<1>5. /\ r \in Seq(Byte)
      /\ Len(r) = len - n
      /\ \A k \in 1..(len - n) : r[k] = c[k + n]
  BY <1>1, <1>3, PartIs
<1>6. \A k \in 1..(len - n) : buf'[k] = r[k]
  <2> TAKE k \in 1..(len - n)
  <2>1. k + n \in 1..len
    BY <1>1
  <2> QED BY <1>2, <1>3, <1>5, <2>1
<1> HIDE DEF r
<1>8. SubSeq(buf', 1, len - n) = r
  BY <1>1, <1>5, <1>6, PrefixIs
<1>9. \A k \in 1..(len - n) : buf'[k] \in Byte
  BY <1>5, <1>6, ElementOfSeq
<1> QED BY <1>2, <1>8, <1>9 DEF c, r

LEMMA RemoveKeeps ==
    ASSUME BInv, NEW n \in 1..(size + 1), bRemove(n)
    PROVE  BInv' /\ Fifo!bRemove(n)
<1> DEFINE c == SubSeq(buf, 1, len)
<1>1. size \in Nat /\ len \in 0..size /\ buf \in [1..size -> Byte \cup {NUL}]
  BY Array
<1>2. UNCHANGED <<out, outLen, ret, caller, held, crashed>> /\ caller = "bytes"
  BY DEF bRemove
<1>3. out' \in Seq(Byte) /\ outLen' \in Nat /\ ret' \in {-1, 0} /\ held' \in BOOLEAN
      /\ (held' => caller = "frames")
  BY <1>2 DEF BInv, BTypeOK, DataInv
<1>4. Len(c) = len
  BY Content
<1>5. CASE n > len
  <2>1. buf' = [k \in 1..size |-> IF k <= len THEN NUL ELSE buf[k]] /\ len' = 0
    BY <1>5 DEF bRemove
  <2>2. BInv' /\ size' = size
    BY <1>1, <1>2, <1>3, <2>1, ArrayKeeps
  <2>3. SubSeq(buf', 1, len') = <<>>
    BY <2>1, SubSeqEmpty
  <2>4. SubSeq(c, n + 1, len) = <<>>
    BY <1>1, <1>5, SubSeqEmpty
  <2> QED BY <1>2, <1>4, <2>2, <2>3, <2>4 DEF Fifo!bRemove
<1>6. CASE n <= len
  <2>1. buf' = Moved(n, len - n) /\ len' = len - n /\ n \in 0..len
    BY <1>1, <1>6 DEF bRemove
  <2>2. /\ SubSeq(buf', 1, len') = SubSeq(c, n + 1, len)
        /\ buf' \in [1..size -> Byte \cup {NUL}]
        /\ \A k \in 1..len' : buf'[k] \in Byte
    BY <2>1, RestOfData
  <2>3. BInv' /\ size' = size
    BY <1>1, <1>2, <1>3, <2>1, <2>2, ArrayKeeps
  <2> QED BY <1>2, <1>4, <2>2, <2>3 DEF Fifo!bRemove
<1> QED BY <1>1, <1>5, <1>6

LEMMA AppendKeeps ==
    ASSUME BInv, "careless" \notin Callers, NEW data \in Seq(Byte), bAppend(data)
    PROVE  BInv' /\ Fifo!bAppend(data)
<1> DEFINE c == SubSeq(buf, 1, len)
           n == Len(data)
           s == c \o data
<1>1. size \in Nat /\ len \in 0..size /\ buf \in [1..size -> Byte \cup {NUL}] /\ n \in Nat
  BY Array, LenProperties
<1>2. UNCHANGED <<out, outLen, ret, caller, held, crashed>> /\ held = FALSE
  BY DEF bAppend, Usable, BInv, BTypeOK
<1>3. out' \in Seq(Byte) /\ outLen' \in Nat /\ ret' \in {-1, 0} /\ held' \in BOOLEAN
      /\ (held' => caller = "frames")
  BY <1>2 DEF BInv, BTypeOK, DataInv
<1>4. c \in Seq(Byte) /\ Len(c) = len /\ \A k \in 1..len : c[k] = buf[k]
  BY Content
<1> HIDE DEF c
<1>5. /\ s \in Seq(Byte) /\ Len(s) = len + n
      /\ \A k \in 1..(len + n) : s[k] = IF k <= len THEN c[k] ELSE data[k - len]
  BY <1>4, ConcatProperties
<1> HIDE DEF s
<1>6. PICK drop \in 0..(len + n) :
          /\ drop = IF len + n > size THEN len + n - size ELSE 0
          /\ len + n - drop \in 0..size
  <2> DEFINE d == IF len + n > size THEN len + n - size ELSE 0
  <2>1. d \in 0..(len + n) /\ len + n - d \in 0..size
    BY <1>1
  <2> HIDE DEF n
  <2> QED BY <2>1
<1> DEFINE t == SubSeq(s, drop + 1, len + n)
<1>7. drop \in Nat /\ len + n \in Nat /\ drop <= len + n /\ len + n <= Len(s)
  BY <1>1, <1>5, <1>6
<1>8. /\ t \in Seq(Byte)
      /\ Len(t) = len + n - drop
      /\ \A k \in 1..(len + n - drop) : t[k] = s[k + drop]
  <2> DEFINE hi == len + n
  <2>1. s \in Seq(Byte) /\ drop \in Nat /\ hi \in Nat /\ drop <= hi /\ hi <= Len(s)
    BY <1>1, <1>5, <1>7
  <2>3. hi = len + n
    OBVIOUS
  <2> HIDE DEF hi, n
  <2>2. /\ SubSeq(s, drop + 1, hi) \in Seq(Byte)
        /\ Len(SubSeq(s, drop + 1, hi)) = hi - drop
        /\ \A k \in 1..(hi - drop) : SubSeq(s, drop + 1, hi)[k] = s[k + drop]
    BY <2>1, PartIs
  <2>4. t = SubSeq(s, drop + 1, hi)
    BY <2>3
  <2>5. len + n - drop = hi - drop
    BY <1>1, <2>3
  <2> HIDE DEF t
  <2> QED BY <2>2, <2>4, <2>5
<1>9. \A k \in 1..(len + n - drop) :
         t[k] = IF k + drop <= len THEN buf[k + drop] ELSE data[k + drop - len]
  <2> TAKE k \in 1..(len + n - drop)
  <2>1. k + drop \in 1..(len + n)
    BY <1>1, <1>6
  <2>2. s[k + drop] = IF k + drop <= len THEN c[k + drop] ELSE data[k + drop - len]
    BY <1>1, <1>5, <2>1
  <2>3. k + drop <= len => c[k + drop] = buf[k + drop]
    BY <1>1, <1>4, <2>1
  <2>4. t[k] = s[k + drop]
    BY <1>8
  <2> HIDE DEF t
  <2> QED BY <2>2, <2>3, <2>4
\* The array after the step holds t, and is clean if it was.
<1>10. /\ buf' \in [1..size -> Byte \cup {NUL}]
       /\ len' = len + n - drop
       /\ \A k \in 1..len' :
             buf'[k] = IF k + drop <= len THEN buf[k + drop] ELSE data[k + drop - len]
       /\ drop = 0 => \A k \in (len' + 1)..size : buf'[k] = buf[k]
  <2>0. \A k \in 1..n : data[k] \in Byte
    BY ElementOfSeq
  <2>1. CASE n > size
    <3>1. buf' = [k \in 1..size |-> data[n - size + k]] /\ len' = size
      BY <2>1 DEF bAppend
    <3>2. drop = len + n - size /\ len + n - drop = size
      BY <1>1, <1>6, <2>1
    <3>3. \A k \in 1..size : n - size + k \in 1..n /\ k + drop > len
                             /\ k + drop - len = n - size + k
      BY <1>1, <2>1, <3>2
    <3>4. buf' \in [1..size -> Byte \cup {NUL}]
      BY <2>0, <3>1, <3>3
    <3>5. \A k \in 1..size :
             buf'[k] = IF k + drop <= len THEN buf[k + drop] ELSE data[k + drop - len]
      <4> TAKE k \in 1..size
      <4>1. buf'[k] = data[n - size + k]
        BY <3>1
      <4>2. ~(k + drop <= len) /\ k + drop - len = n - size + k
        BY <1>1, <3>2, <3>3
      <4> QED BY <4>1, <4>2
    <3>6. (len' + 1)..size = {}
      BY <1>1, <3>1
    <3> QED BY <3>1, <3>2, <3>4, <3>5, <3>6
  <2>2. CASE ~(n > size)
    <3> DEFINE need == IF n > size - len THEN n - (size - len) ELSE 0
    <3>1. need = drop /\ need \in 0..len /\ len - need + n <= size
      BY <1>1, <1>6, <2>2
    <3>2. /\ buf' = [k \in 1..size |->
                       IF k \in (len - need + 1)..(len - need + n)
                       THEN data[k - (len - need)]
                       ELSE Moved(need, len - need)[k]]
          /\ len' = len - need + n
      BY <2>2 DEF bAppend
    <3> HIDE DEF need
    <3>3. /\ Moved(need, len - need) \in [1..size -> Byte \cup {NUL}]
          /\ \A k \in 1..(len - need) : Moved(need, len - need)[k] = buf[k + need]
      <4>1. need \in Nat /\ len - need \in Nat /\ need + (len - need) <= len
        BY <1>1, <3>1
      <4> QED BY <4>1, MovedIs
    <3>4. \A k \in 1..size : k \in (len - need + 1)..(len - need + n) => k - (len - need) \in 1..n
      BY <1>1, <3>1
    <3>5. buf' \in [1..size -> Byte \cup {NUL}]
      BY <2>0, <3>2, <3>3, <3>4
    <3>6. len' = len + n - drop
      BY <1>1, <3>1, <3>2
    <3>7. \A k \in 1..len' :
             buf'[k] = IF k + drop <= len THEN buf[k + drop] ELSE data[k + drop - len]
      <4> TAKE k \in 1..len'
      <4>1. k \in 1..size
        BY <1>1, <3>1, <3>2
      <4>2. CASE k + drop <= len
        <5>1. k \in 1..(len - need) /\ k \notin (len - need + 1)..(len - need + n)
          BY <1>1, <3>1, <4>1, <4>2
        <5>2. buf'[k] = Moved(need, len - need)[k]
          BY <3>2, <4>1, <5>1
        <5> QED BY <3>1, <3>3, <4>2, <5>1, <5>2
      <4>3. CASE ~(k + drop <= len)
        <5>1. k \in (len - need + 1)..(len - need + n) /\ k - (len - need) = k + drop - len
          BY <1>1, <3>1, <3>2, <4>1, <4>3
        <5>2. buf'[k] = data[k - (len - need)]
          BY <3>2, <4>1, <5>1
        <5> QED BY <4>3, <5>1, <5>2
      <4> QED BY <4>2, <4>3
    <3>8. ASSUME drop = 0, NEW k \in (len' + 1)..size
          PROVE  buf'[k] = buf[k]
      <4>1. k \in 1..size /\ k \notin (len - need + 1)..(len - need + n) /\ ~(k <= len - need)
        BY <1>1, <3>1, <3>2, <3>8
      <4>2. buf'[k] = Moved(need, len - need)[k]
        BY <3>2, <4>1
      <4> QED BY <4>1, <4>2 DEF Moved
    <3> QED BY <3>5, <3>6, <3>7, <3>8
  <2> QED BY <2>1, <2>2
<1>11. \A k \in 1..len' : buf'[k] = t[k]
  BY <1>9, <1>10
<1>12. len' \in 0..size /\ Len(t) = len'
  BY <1>6, <1>8, <1>10
<1>13. \A k \in 1..len' : buf'[k] \in Byte
  BY <1>8, <1>11, <1>12, ElementOfSeq
<1>14. caller # "bytes" /\ ~held' => \A k \in (len' + 1)..size : buf'[k] = NUL
  <2>1. CASE drop = 0
    <3>1. len' >= len
      BY <1>1, <1>10, <2>1, <1>6
    <3>2. caller # "bytes" => \A k \in (len + 1)..size : buf[k] = NUL
      BY <1>2 DEF BInv, DataInv
    <3>3. \A k \in (len' + 1)..size : k \in (len + 1)..size
      <4>1. len \in Int /\ len' \in Int /\ size \in Int
        BY <1>1, <1>12
      <4> DEFINE l == len'
      <4>2. l \in Int /\ l >= len
        BY <3>1, <4>1
      <4> HIDE DEF l
      <4>3. \A k \in (l + 1)..size : k \in (len + 1)..size
        BY <4>1, <4>2
      <4> QED BY <4>3 DEF l
    <3> QED BY <1>10, <2>1, <3>2, <3>3
  <2>2. CASE drop # 0
    <3>1. len' = size
      BY <1>1, <1>10, <2>2, <1>6
    <3> QED BY <1>1, <3>1
  <2> QED BY <2>1, <2>2
<1>15. BInv' /\ size' = size
  BY <1>2, <1>3, <1>10, <1>12, <1>13, <1>14, ArrayKeeps
<1>16. SubSeq(buf', 1, len') = t
  <2> HIDE DEF t
  <2> QED BY <1>8, <1>11, <1>12, PrefixIs
<1>17. Fifo!Newest(s) = t
  <2>1. (IF Len(s) > size THEN Len(s) - size + 1 ELSE 1) = drop + 1
    BY <1>1, <1>5, <1>6
  <2> QED BY <1>5, <2>1 DEF Fifo!Newest
<1>18. SubSeq(buf, 1, len) \o data = s
  BY DEF c, s
<1> QED
  <2> HIDE DEF t
  <2> QED BY <1>2, <1>15, <1>16, <1>17, <1>18 DEF Fifo!bAppend

-----------------------------------------------------------------------------
(* Searches.                                                                 *)

LEMMA MinIs ==
    ASSUME NEW S, S \subseteq Nat, S # {}
    PROVE  Min(S) \in S /\ \A y \in S : Min(S) <= y
<1>1. \E x \in S : \A y \in S : x <= y
  BY LeastNatural
<1> QED BY <1>1, Zenon DEF Min

\* Where strstr finds pat in the array.
Hits(pat, from) ==
    {p \in from..(size - Len(pat) + 1) :
        /\ SubSeq(buf, p, p + Len(pat) - 1) = pat
        /\ \A k \in from..(p - 1) : buf[k] # NUL}

LEMMA StrstrIs ==
    ASSUME BInv, NEW pat \in Seq(Byte) \ {<<>>}, NEW from \in Nat \ {0}
    PROVE  /\ Hits(pat, from) = {} => Strstr(pat, from) = 0
           /\ Hits(pat, from) # {} => /\ Strstr(pat, from) \in Hits(pat, from)
                                     /\ \A q \in Hits(pat, from) : Strstr(pat, from) <= q
           /\ Strstr(pat, from) \in Nat
           /\ Strstr(pat, from) # 0 => Strstr(pat, from) \in Hits(pat, from)
           /\ Len(pat) \in Nat \ {0}
<1> DEFINE h == Hits(pat, from)
<1>1. Strstr(pat, from) = IF h = {} THEN 0 ELSE Min(h)
  BY DEF Strstr, Hits
<1>2. Len(pat) \in Nat \ {0}
  BY EmptySeq
<1>3. h \subseteq Nat
  BY <1>2, Array DEF Hits
<1>4. h # {} => Min(h) \in h /\ \A q \in h : Min(h) <= q
  BY <1>3, MinIs
<1>5. 0 \notin h
  BY DEF Hits
<1> HIDE DEF h
<1>6. h # {} => Strstr(pat, from) \in h /\ \A q \in h : Strstr(pat, from) <= q
  BY <1>1, <1>4
<1>7. h = {} => Strstr(pat, from) = 0
  BY <1>1
<1>8. Strstr(pat, from) \in Nat
  <2>1. CASE h = {}
    BY <1>7, <2>1
  <2>2. CASE h # {}
    <3>1. Strstr(pat, from) \in h
      BY <1>6, <2>2
    <3> QED BY <1>3, <3>1
  <2> QED BY <2>1, <2>2
<1> QED BY <1>2, <1>6, <1>7, <1>8 DEF h

\* Inside the data, strstr finds what there is: no NUL stops it.
LEMMA HitsInside ==
    ASSUME BInv, NEW pat \in Seq(Byte) \ {<<>>}, NEW from \in Nat \ {0}, NEW q \in Nat
    PROVE  q \in Hits(pat, from) /\ q + Len(pat) - 1 <= len
             <=> q \in from..(len - Len(pat) + 1) /\ Fifo!At(pat, q)
<1>1. size \in Nat /\ len \in Nat /\ len <= size
  BY Array
<1>2. Len(pat) \in Nat \ {0}
  BY EmptySeq
<1>3. ASSUME q \in Nat \ {0}, q + Len(pat) - 1 <= len
      PROVE  Fifo!At(pat, q) <=> SubSeq(buf, q, q + Len(pat) - 1) = pat
  <2> DEFINE e == q + Len(pat) - 1
  <2>1. e \in Nat /\ e <= len
    BY <1>2, <1>3
  <2> HIDE DEF e
  <2>2. SubSeq(SubSeq(buf, 1, len), q, e) = SubSeq(buf, q, e)
    BY <1>3, <2>1, PartOfData
  <2> QED BY <2>2 DEF Fifo!At, e
<1>4. ASSUME q \in Hits(pat, from), q + Len(pat) - 1 <= len
      PROVE  q \in from..(len - Len(pat) + 1) /\ Fifo!At(pat, q)
  <2>1. q \in from..(size - Len(pat) + 1) /\ SubSeq(buf, q, q + Len(pat) - 1) = pat
    BY <1>4 DEF Hits
  <2>2. q \in Nat \ {0} /\ q \in from..(len - Len(pat) + 1)
    BY <1>1, <1>2, <1>4, <2>1
  <2> QED BY <1>3, <1>4, <2>1, <2>2
<1>5. ASSUME q \in from..(len - Len(pat) + 1), Fifo!At(pat, q)
      PROVE  q \in Hits(pat, from) /\ q + Len(pat) - 1 <= len
  <2>1. q \in Nat \ {0} /\ q + Len(pat) - 1 <= len /\ q <= len
        /\ q \in from..(size - Len(pat) + 1)
    BY <1>1, <1>2, <1>5
  <2>2. SubSeq(buf, q, q + Len(pat) - 1) = pat
    BY <1>3, <1>5, <2>1
  <2>3. \A k \in from..(q - 1) : buf[k] # NUL
    <3> TAKE k \in from..(q - 1)
    <3>1. k \in 1..len
      BY <1>1, <2>1
    <3> QED BY <3>1, ByteAssumption DEF BInv, DataInv
  <2> QED BY <2>1, <2>2, <2>3 DEF Hits
<1> QED BY <1>4, <1>5

\* The first occurrence of the queue is what strstr finds, if that lies inside
\* the data.
LEMMA FirstIs ==
    ASSUME BInv, NEW pat \in Seq(Byte) \ {<<>>}, NEW from \in Nat \ {0}
    PROVE  Fifo!First(pat, from) =
             IF Strstr(pat, from) # 0 /\ Strstr(pat, from) + Len(pat) - 1 <= len
             THEN {Strstr(pat, from)} ELSE {}
<1> DEFINE s == Strstr(pat, from)
           f == Fifo!First(pat, from)
<1>1. /\ s \in Nat /\ Len(pat) \in Nat \ {0}
      /\ s # 0 => s \in Hits(pat, from)
      /\ Hits(pat, from) # {} =>
           s \in Hits(pat, from) /\ \A q \in Hits(pat, from) : s <= q
  BY StrstrIs
<1>2. len \in Nat /\ Len(SubSeq(buf, 1, len)) = len
  BY Array, Content
<1>3. f = {q \in from..(len - Len(pat) + 1) :
             Fifo!At(pat, q) /\ \A r \in from..(q - 1) : ~Fifo!At(pat, r)}
  BY <1>2 DEF Fifo!First
<1>4. \A q \in Nat : q \in Hits(pat, from) /\ q + Len(pat) - 1 <= len
                       <=> q \in from..(len - Len(pat) + 1) /\ Fifo!At(pat, q)
  BY HitsInside
<1>5. 0 \notin Hits(pat, from)
  BY DEF Hits
<1> HIDE DEF s, f
\* What is first for the queue is a hit, so strstr finds it or an earlier one.
<1>6. ASSUME NEW q \in f
      PROVE  q = s /\ s # 0 /\ s + Len(pat) - 1 <= len
  <2>1. q \in from..(len - Len(pat) + 1) /\ Fifo!At(pat, q) /\ q \in Nat
        /\ \A r \in from..(q - 1) : ~Fifo!At(pat, r)
    BY <1>1, <1>2, <1>3
  <2>2. q \in Hits(pat, from) /\ q + Len(pat) - 1 <= len
    BY <1>4, <2>1
  <2>3. s \in Hits(pat, from) /\ s <= q
    BY <1>1, <2>2
  <2>4. s # 0 /\ s + Len(pat) - 1 <= len
    BY <1>1, <1>2, <1>5, <2>1, <2>2, <2>3
  <2>5. s \in from..(len - Len(pat) + 1) /\ Fifo!At(pat, s)
    BY <1>1, <1>4, <2>3, <2>4
  <2>6. ~(s < q)
    <3> SUFFICES ASSUME s < q PROVE FALSE
      OBVIOUS
    <3>1. s \in from..(q - 1)
      BY <1>1, <2>1, <2>5
    <3> QED BY <2>1, <2>5, <3>1
  <2> QED BY <1>1, <2>1, <2>3, <2>4, <2>6
<1>7. ASSUME s # 0, s + Len(pat) - 1 <= len
      PROVE  s \in f
  <2>1. s \in from..(len - Len(pat) + 1) /\ Fifo!At(pat, s)
    BY <1>1, <1>4, <1>7
  <2>2. ASSUME NEW r \in from..(s - 1), Fifo!At(pat, r)
        PROVE  FALSE
    <3>1. r \in Nat /\ r \in from..(len - Len(pat) + 1) /\ r < s
      BY <1>1, <1>2, <2>1
    <3>2. r \in Hits(pat, from)
      BY <1>4, <2>2, <3>1
    <3>3. s <= r
      BY <1>1, <3>2
    <3> QED BY <1>1, <3>1, <3>3
  <2> QED BY <1>3, <2>1, <2>2
<1>8. f = IF s # 0 /\ s + Len(pat) - 1 <= len THEN {s} ELSE {}
  <2>1. CASE s # 0 /\ s + Len(pat) - 1 <= len
    BY <1>6, <1>7, <2>1
  <2>2. CASE ~(s # 0 /\ s + Len(pat) - 1 <= len)
    BY <1>6, <2>2
  <2> QED BY <2>1, <2>2
<1> QED BY <1>8 DEF s, f

\* Behind clean data nothing is found: a pattern has no NUL.
LEMMA CleanHit ==
    ASSUME BInv, \A k \in (len + 1)..size : buf[k] = NUL,
           NEW pat \in Seq(Byte) \ {<<>>}, NEW from \in Nat \ {0}, Strstr(pat, from) # 0
    PROVE  Strstr(pat, from) + Len(pat) - 1 <= len
<1> DEFINE s == Strstr(pat, from)
           l == Len(pat)
           e == s + l - 1
<1>1. s \in Nat /\ l \in Nat \ {0} /\ s \in Hits(pat, from)
  BY StrstrIs
<1>2. s \in from..(size - l + 1) /\ SubSeq(buf, s, e) = pat
  BY <1>1 DEF Hits
<1>3. size \in Nat /\ len \in Nat /\ buf \in [1..size -> Byte \cup {NUL}]
  BY Array
<1>4. pat[l] \in Byte
  BY <1>1, ElementOfSeq
<1> HIDE DEF s, l
<1>5. s \in Nat \ {0} /\ e \in s..size /\ e - s + 1 = l
  BY <1>1, <1>2, <1>3
<1>6. SubSeq(buf, s, e)[l] = buf[e]
  <2>1. \A k \in s..e : buf[k] \in Byte \cup {NUL}
    BY <1>3, <1>5
  <2> HIDE DEF e
  <2>2. \A k \in 1..(e - s + 1) : SubSeq(buf, s, e)[k] = buf[s + k - 1]
    BY <1>5, <2>1, SubSeqProperties
  <2>3. SubSeq(buf, s, e)[l] = buf[s + l - 1]
    BY <1>1, <1>5, <2>2
  <2> QED BY <2>3 DEF e
<1>7. buf[e] # NUL
  BY <1>2, <1>4, <1>6, ByteAssumption
<1>8. e <= len
  <2> HIDE DEF e
  <2> SUFFICES ASSUME ~(e <= len) PROVE FALSE
    OBVIOUS
  <2>1. e \in (len + 1)..size
    BY <1>1, <1>3, <1>5
  <2> QED BY <1>7, <2>1
<1> QED BY <1>8 DEF s, l

\* What Match promises: no match, and no frame of the queue; or the frame of
\* the queue, which lies inside the data.
Fits(m, rule) ==
    \/ m.last = 0 /\ Fifo!Frame(rule) = {}
    \/ /\ m.first \in 1..len /\ m.last \in m.first..len
       /\ Fifo!Frame(rule) = {<<m.first, m.last>>}

LEMMA MatchFits ==
    ASSUME BInv, Usable, "careless" \notin Callers,
           NEW rule \in Rule, rule.type # "R_NO_RULE"
    PROVE  Fits(Match(rule), rule)
<1> DEFINE headAt == Strstr(HeadMark, 1)
           tailAt == Strstr(TailMark, 1)
           none == [first |-> 1, last |-> 0]
           HeadTail(start, end) ==
               IF start = 0 \/ end = 0 THEN none
               ELSE [first |-> start, last |-> end + Len(TailMark) - 1]
           Lh == Len(HeadMark)
           Lt == Len(TailMark)
           nextAt == Strstr(TailMark, headAt + Lh)
<1>1. HeadMark \in Seq(Byte) \ {<<>>} /\ TailMark \in Seq(Byte) \ {<<>>}
  BY MarkAssumption
<1>2. Lh \in Nat \ {0} /\ Lt \in Nat \ {0} /\ headAt \in Nat /\ tailAt \in Nat
  BY <1>1, StrstrIs, 1 \in Nat \ {0}
<1>3. headAt + Lh \in Nat \ {0}
  BY <1>2
<1>4. nextAt \in Nat
  BY <1>1, <1>3, StrstrIs
<1>5. size \in Nat /\ len \in Nat
  BY Array
<1>6. Len(SubSeq(buf, 1, len)) = len
  BY Content
<1>7. rule.len \in Lh..MaxN /\ rule.len \in Nat \ {0}
  <2>1. rule.len \in Lh..MaxN
    BY DEF Rule
  <2> QED BY <1>2, <2>1, SizeAssumption
<1>8. rule.type \in Types \ {"R_NO_RULE"} /\ (caller = "bytes" => rule.type \in LocalTypes)
  BY DEF Rule, Types, LocalTypes
<1>9. /\ Fifo!First(HeadMark, 1) = IF headAt # 0 /\ headAt + Lh - 1 <= len THEN {headAt} ELSE {}
      /\ Fifo!First(TailMark, 1) = IF tailAt # 0 /\ tailAt + Lt - 1 <= len THEN {tailAt} ELSE {}
      /\ Fifo!First(TailMark, headAt + Lh) =
           IF nextAt # 0 /\ nextAt + Lt - 1 <= len THEN {nextAt} ELSE {}
  BY <1>1, <1>3, FirstIs, 1 \in Nat \ {0}
<1>10. /\ headAt # 0 => headAt >= 1
       /\ tailAt # 0 => tailAt >= 1
       /\ nextAt # 0 => nextAt >= headAt + Lh
  <2>1. headAt # 0 => headAt \in Hits(HeadMark, 1)
    BY <1>1, StrstrIs, 1 \in Nat \ {0}
  <2>2. tailAt # 0 => tailAt \in Hits(TailMark, 1)
    BY <1>1, StrstrIs, 1 \in Nat \ {0}
  <2>3. nextAt # 0 => nextAt \in Hits(TailMark, headAt + Lh)
    BY <1>1, <1>3, StrstrIs
  <2>4. nextAt # 0 => nextAt \in (headAt + Lh)..(size - Lt + 1)
    BY <2>3 DEF Hits
  <2> HIDE DEF headAt, tailAt, nextAt, Lh, Lt
  <2> QED BY <1>2, <1>4, <2>4
<1>11. Match(rule) =
         CASE rule.type = "R_HEAD_TAIL" -> HeadTail(headAt, nextAt)
           [] rule.type = "R_CUSTOM_RULE" ->
                HeadTail(StrstrData(HeadMark, 1), StrstrData(TailMark, headAt + Lh))
           [] rule.type = "R_HEAD_LEN" ->
                IF headAt # 0 /\ len - (headAt - 1) >= rule.len
                THEN [first |-> headAt, last |-> headAt + rule.len - 1] ELSE none
           [] rule.type = "R_TAIL_ONLY" -> HeadTail(1, tailAt)
           [] rule.type = "R_LEN_ONLY" ->
                IF len >= rule.len THEN [first |-> 1, last |-> rule.len] ELSE none
  BY DEF Match
\* Who searches behind the data finds nothing there.
<1>12. ASSUME caller # "bytes"
       PROVE  /\ headAt # 0 => headAt + Lh - 1 <= len
              /\ tailAt # 0 => tailAt + Lt - 1 <= len
              /\ nextAt # 0 => nextAt + Lt - 1 <= len
  <2>1. \A k \in (len + 1)..size : buf[k] = NUL
    BY <1>12 DEF BInv, DataInv, Usable
  <2> QED BY <1>1, <1>3, <2>1, CleanHit, 1 \in Nat \ {0}
<1>13. /\ StrstrData(HeadMark, 1) = IF headAt + Lh - 1 > len THEN 0 ELSE headAt
       /\ StrstrData(TailMark, headAt + Lh) = IF nextAt + Lt - 1 > len THEN 0 ELSE nextAt
  BY DEF StrstrData
<1> HIDE DEF headAt, tailAt, nextAt, Lh, Lt
<1>14. none.first = 1 /\ none.last = 0
  OBVIOUS
\* Head and tailAt, with the positions s and e that the rule found.
<1>15. ASSUME NEW s, NEW e, Match(rule) = HeadTail(s, e),
              s = IF headAt # 0 /\ headAt + Lh - 1 <= len THEN headAt ELSE 0,
              e = IF nextAt # 0 /\ nextAt + Lt - 1 <= len THEN nextAt ELSE 0,
              rule.type \in {"R_HEAD_TAIL", "R_CUSTOM_RULE"}
       PROVE  Fits(Match(rule), rule)
  <2>1. Fifo!Frame(rule) =
          UNION {{<<p, q + Lt - 1>> : q \in Fifo!First(TailMark, p + Lh)} :
                    p \in Fifo!First(HeadMark, 1)}
    BY <1>15 DEF Fifo!Frame, Lh, Lt
  <2>2. CASE s = 0 \/ e = 0
    <3>1. Match(rule).last = 0
      BY <1>14, <1>15, <2>2
    <3>2. Fifo!First(HeadMark, 1) = {} \/ Fifo!First(HeadMark, 1) = {headAt}
      BY <1>9
    <3>3. CASE Fifo!First(HeadMark, 1) = {}
      BY <2>1, <3>1, <3>3 DEF Fits
    <3>4. CASE Fifo!First(HeadMark, 1) = {headAt}
      <4>1. headAt # 0 /\ headAt + Lh - 1 <= len
        BY <1>9, <3>4
      <4>2. s # 0
        BY <1>15, <4>1
      <4>3. Fifo!First(TailMark, headAt + Lh) = {}
        BY <1>9, <1>15, <2>2, <4>2
      <4>4. Fifo!Frame(rule) = UNION {{<<headAt, q + Lt - 1>> : q \in {}}}
        BY <2>1, <3>4, <4>3
      <4> QED BY <3>1, <4>4 DEF Fits
    <3> QED BY <3>2, <3>3, <3>4
  <2>3. CASE s # 0 /\ e # 0
    <3>1. s = headAt /\ headAt # 0 /\ headAt + Lh - 1 <= len /\ e = nextAt /\ nextAt # 0 /\ nextAt + Lt - 1 <= len
      BY <1>15, <2>3
    <3>2. Match(rule) = [first |-> headAt, last |-> nextAt + Lt - 1]
      BY <1>15, <2>3, <3>1 DEF Lt
    <3>3. Fifo!First(HeadMark, 1) = {headAt} /\ Fifo!First(TailMark, headAt + Lh) = {nextAt}
      BY <1>9, <3>1
    <3>4. Fifo!Frame(rule) = UNION {{<<headAt, q + Lt - 1>> : q \in {nextAt}}}
      BY <2>1, <3>3
    <3>5. Fifo!Frame(rule) = {<<headAt, nextAt + Lt - 1>>}
      BY <3>4
    <3>6. headAt \in 1..len /\ nextAt + Lt - 1 \in headAt..len
      BY <1>2, <1>4, <1>5, <1>10, <3>1
    <3> QED BY <3>2, <3>5, <3>6 DEF Fits
  <2> QED BY <2>2, <2>3
<1>16. CASE rule.type = "R_HEAD_TAIL"
  <2>1. caller # "bytes"
    BY <1>8, <1>16 DEF LocalTypes
  <2>2. Match(rule) = HeadTail(headAt, nextAt)
    BY <1>11, <1>16
  <2>3. /\ headAt = IF headAt # 0 /\ headAt + Lh - 1 <= len THEN headAt ELSE 0
        /\ nextAt = IF nextAt # 0 /\ nextAt + Lt - 1 <= len THEN nextAt ELSE 0
    BY <1>12, <2>1
  <2> HIDE DEF HeadTail
  <2> QED BY <1>15, <1>16, <2>2, <2>3
<1>17. CASE rule.type = "R_CUSTOM_RULE"
  <2> DEFINE s == StrstrData(HeadMark, 1)
             e == StrstrData(TailMark, headAt + Lh)
  <2>1. Match(rule) = HeadTail(s, e)
    BY <1>11, <1>17
  <2>2. /\ s = IF headAt # 0 /\ headAt + Lh - 1 <= len THEN headAt ELSE 0
        /\ e = IF nextAt # 0 /\ nextAt + Lt - 1 <= len THEN nextAt ELSE 0
    BY <1>2, <1>4, <1>5, <1>13
  <2> HIDE DEF HeadTail, s, e
  <2> QED BY <1>15, <1>17, <2>1, <2>2
<1>18. CASE rule.type = "R_HEAD_LEN"
  <2>1. Fifo!Frame(rule) =
          {<<p, p + rule.len - 1>> :
              p \in {q \in Fifo!First(HeadMark, 1) : q + rule.len - 1 <= len}}
    BY <1>6, <1>18 DEF Fifo!Frame
  <2>2. CASE headAt # 0 /\ len - (headAt - 1) >= rule.len
    <3>1. headAt + Lh - 1 <= len /\ headAt + rule.len - 1 <= len
      BY <1>2, <1>5, <1>7, <2>2
    <3>2. Fifo!First(HeadMark, 1) = {headAt}
      BY <1>9, <2>2, <3>1
    <3>3. {q \in {headAt} : q + rule.len - 1 <= len} = {headAt}
      BY <3>1
    <3>4. Fifo!Frame(rule) = {<<headAt, headAt + rule.len - 1>>}
      BY <2>1, <3>2, <3>3
    <3>5. Match(rule) = [first |-> headAt, last |-> headAt + rule.len - 1]
      BY <1>11, <1>18, <2>2
    <3>6. headAt \in 1..len /\ headAt + rule.len - 1 \in headAt..len
      BY <1>2, <1>5, <1>7, <1>10, <2>2, <3>1
    <3> QED BY <3>4, <3>5, <3>6 DEF Fits
  <2>3. CASE ~(headAt # 0 /\ len - (headAt - 1) >= rule.len)
    <3>1. Match(rule).last = 0
      BY <1>11, <1>14, <1>18, <2>3
    <3>2. {q \in Fifo!First(HeadMark, 1) : q + rule.len - 1 <= len} = {}
      <4> SUFFICES ASSUME NEW q \in Fifo!First(HeadMark, 1), q + rule.len - 1 <= len
                   PROVE  FALSE
        OBVIOUS
      <4>1. q = headAt /\ headAt # 0
        BY <1>9
      <4> QED BY <1>2, <1>5, <1>7, <2>3, <4>1
    <3>3. Fifo!Frame(rule) = {}
      BY <2>1, <3>2
    <3> QED BY <3>1, <3>3 DEF Fits
  <2> QED BY <2>2, <2>3
<1>19. CASE rule.type = "R_TAIL_ONLY"
  <2>1. caller # "bytes"
    BY <1>8, <1>19 DEF LocalTypes
  <2>2. Fifo!Frame(rule) = {<<1, q + Lt - 1>> : q \in Fifo!First(TailMark, 1)}
    BY <1>19 DEF Fifo!Frame, Lt
  <2>3. CASE tailAt = 0
    <3>1. Match(rule).last = 0
      BY <1>11, <1>14, <1>19, <2>3
    <3>2. Fifo!First(TailMark, 1) = {}
      BY <1>9, <2>3
    <3> QED BY <2>2, <3>1, <3>2 DEF Fits
  <2>4. CASE tailAt # 0
    <3>1. Match(rule) = [first |-> 1, last |-> tailAt + Lt - 1]
      BY <1>11, <1>19, <2>4 DEF Lt
    <3>2. tailAt + Lt - 1 <= len
      BY <1>12, <2>1, <2>4
    <3>3. Fifo!First(TailMark, 1) = {tailAt}
      BY <1>9, <2>4, <3>2
    <3>4. Fifo!Frame(rule) = {<<1, tailAt + Lt - 1>>}
      BY <2>2, <3>3
    <3>5. 1 \in 1..len /\ tailAt + Lt - 1 \in 1..len
      BY <1>2, <1>5, <1>10, <2>4, <3>2
    <3> QED BY <3>1, <3>4, <3>5 DEF Fits
  <2> QED BY <2>3, <2>4
<1>20. CASE rule.type = "R_LEN_ONLY"
  <2>1. Fifo!Frame(rule) = {<<1, n>> : n \in {rule.len} \cap 1..len}
    BY <1>6, <1>20 DEF Fifo!Frame
  <2>2. CASE len >= rule.len
    <3>1. Match(rule) = [first |-> 1, last |-> rule.len]
      BY <1>11, <1>20, <2>2
    <3>2. {rule.len} \cap 1..len = {rule.len}
      BY <1>5, <1>7, <2>2
    <3>3. Fifo!Frame(rule) = {<<1, rule.len>>}
      BY <2>1, <3>2
    <3>4. 1 \in 1..len /\ rule.len \in 1..len
      BY <1>5, <1>7, <2>2
    <3> QED BY <3>1, <3>3, <3>4 DEF Fits
  <2>3. CASE ~(len >= rule.len)
    <3>1. Match(rule).last = 0
      BY <1>11, <1>14, <1>20, <2>3
    <3>2. {rule.len} \cap 1..len = {}
      BY <1>5, <1>7, <2>3
    <3> QED BY <2>1, <3>1, <3>2 DEF Fits
  <2> QED BY <2>2, <2>3
<1> QED BY <1>8, <1>16, <1>17, <1>18, <1>19, <1>20 DEF Types, LocalTypes

LEMMA TakeKeepsBuffer ==
    ASSUME BInv, "careless" \notin Callers, NEW rule \in Rule, bGetDataByRule(rule)
    PROVE  BInv' /\ Fifo!bGetDataByRule(rule)
<1> DEFINE c == SubSeq(buf, 1, len)
           m == Match(rule)
<1>1. size \in Nat /\ len \in 0..size /\ buf \in [1..size -> Byte \cup {NUL}]
  BY Array
<1>2. Usable /\ caller' = caller /\ held' = (caller = "frames" /\ ret' = 0) /\ ~held
  BY DEF bGetDataByRule, Usable
<1>3. out \in Seq(Byte) /\ outLen \in Nat /\ ret \in {-1, 0} /\ caller \in {"frames", "bytes"}
      /\ ~crashed
  BY CallerAssumption DEF BInv, BTypeOK
<1>4. held' \in BOOLEAN /\ (held' => caller = "frames")
  BY <1>2, Zenon
<1>5. c \in Seq(Byte) /\ Len(c) = len
  BY Content
\* Once something has been delivered, nobody cares what is behind the data:
\* "frames" has to clear first.
<1>6. ret' = 0 => (caller # "bytes" /\ ~held' => \A k \in (len' + 1)..size : buf'[k] = NUL)
  BY <1>2, <1>3
<1>7. CASE rule.type = "R_NO_RULE"
  <2>1. TakeAll
    BY <1>7 DEF bGetDataByRule
  <2>2. /\ out' = c /\ outLen' = len /\ ret' = 0 /\ buf' = Zeros(size) /\ len' = 0
        /\ crashed' = crashed
    BY <2>1 DEF TakeAll
  <2>3. buf' \in [1..size -> Byte \cup {NUL}]
    BY <2>2 DEF Zeros
  <2>4. len' \in 0..size /\ outLen' \in Nat /\ ret' \in {-1, 0}
        /\ \A k \in 1..len' : buf'[k] \in Byte
    BY <1>1, <2>2
  <2>5. BInv' /\ size' = size
    BY <1>2, <1>4, <1>5, <1>6, <2>2, <2>3, <2>4, ArrayKeeps
  <2>6. Fifo!Frame(rule) = {<<1, len>>}
    BY <1>5, <1>7 DEF Fifo!Frame
  <2>7. SubSeq(buf', 1, len') = <<>>
    BY <2>2, SubSeqEmpty
  <2>8. SubSeq(c, 1, len) = c
    BY <1>5, SubSeqFull
  <2>9. SubSeq(c, len + 1, len) = <<>>
    BY <1>1, SubSeqEmpty
  <2>10. \E f \in Fifo!Frame(rule) :
            /\ ret' = 0
            /\ out' = SubSeq(c, f[1], f[2])
            /\ SubSeq(buf', 1, len') = SubSeq(c, f[2] + 1, Len(c))
    <3>1. <<1, len>>[1] = 1 /\ <<1, len>>[2] = len
      OBVIOUS
    <3> HIDE DEF c
    <3> QED BY <1>5, <2>2, <2>6, <2>7, <2>8, <2>9, <3>1
  <2> QED BY <2>5, <2>6, <2>10 DEF Fifo!bGetDataByRule
<1>8. CASE rule.type # "R_NO_RULE"
  <2>1. TakeFrame(rule)
    BY <1>8 DEF bGetDataByRule
  <2>2. Fits(m, rule)
    BY <1>2, <1>8, MatchFits
  <2>3. CASE m.last = 0 /\ Fifo!Frame(rule) = {}
    <3>1. ret' = -1 /\ UNCHANGED <<buf, len, out, outLen, crashed>>
      BY <2>1, <2>3 DEF TakeFrame
    <3>2. held' = FALSE
      <4>1. ret' # 0
        BY <3>1
      <4> QED BY <1>2, <4>1, Zenon
    <3>3. caller # "bytes" => \A k \in (len' + 1)..size : buf'[k] = NUL
      BY <1>2, <3>1 DEF BInv, DataInv
    <3>4. len' \in 0..size /\ outLen' \in Nat /\ ret' \in {-1, 0} /\ out' \in Seq(Byte)
          /\ (\A k \in 1..len' : buf'[k] \in Byte) /\ buf' \in [1..size -> Byte \cup {NUL}]
      BY <1>1, <1>3, <3>1 DEF BInv, DataInv
    <3>5. BInv' /\ size' = size
      BY <1>2, <1>4, <3>1, <3>2, <3>3, <3>4, ArrayKeeps
    <3> QED BY <2>3, <3>1, <3>5 DEF Fifo!bGetDataByRule
  <2>4. CASE /\ m.first \in 1..len /\ m.last \in m.first..len
             /\ Fifo!Frame(rule) = {<<m.first, m.last>>}
    <3> DEFINE a == m.first
               z == m.last
    <3>1. /\ a \in Nat \ {0} /\ z \in Nat /\ z <= len /\ z \in 0..len
          /\ z >= a /\ z # 0 /\ len - z >= 0
      BY <1>1, <2>4
    <3>2. /\ ret' = 0
          /\ out' = SubSeq(buf, a, z)
          /\ outLen' = IF rule.type = "R_TAIL_ONLY" THEN outLen ELSE z - a + 1
          /\ len' = len - z
          /\ buf' = Moved(z, len - z) /\ crashed' = crashed
      <4>1. ~(len - z < 0)
        BY <1>1, <3>1
      <4> QED BY <2>1, <3>1, <4>1 DEF TakeFrame
    <3> HIDE DEF m, a, z
    <3>3. SubSeq(c, a, z) = SubSeq(buf, a, z) /\ SubSeq(buf, a, z) \in Seq(Byte)
      BY <1>1, <3>1, PartOfData
    <3>4. /\ SubSeq(buf', 1, len') = SubSeq(c, z + 1, len)
          /\ buf' \in [1..size -> Byte \cup {NUL}]
          /\ \A k \in 1..len' : buf'[k] \in Byte
      BY <1>1, <3>1, <3>2, RestOfData
    <3>5. len' \in 0..size /\ outLen' \in Nat /\ ret' \in {-1, 0} /\ out' \in Seq(Byte)
      BY <1>1, <1>3, <3>1, <3>2, <3>3
    <3>6. BInv' /\ size' = size
      BY <1>2, <1>4, <1>6, <3>2, <3>4, <3>5, ArrayKeeps
    <3>7. \E f \in Fifo!Frame(rule) :
             /\ ret' = 0
             /\ out' = SubSeq(c, f[1], f[2])
             /\ SubSeq(buf', 1, len') = SubSeq(c, f[2] + 1, Len(c))
      <4>1. <<a, z>>[1] = a /\ <<a, z>>[2] = z
        OBVIOUS
      <4>2. <<a, z>> \in Fifo!Frame(rule)
        BY <2>4 DEF a, z
      <4>3. out' = SubSeq(c, a, z) /\ SubSeq(buf', 1, len') = SubSeq(c, z + 1, Len(c))
        BY <1>5, <3>2, <3>3, <3>4
      <4> HIDE DEF c
      <4> QED BY <3>2, <4>1, <4>2, <4>3
    <3>8. Fifo!Frame(rule) # {}
      BY <2>4
    <3> QED BY <3>6, <3>7, <3>8 DEF Fifo!bGetDataByRule
  <2> QED BY <2>2, <2>3, <2>4 DEF Fits
<1> QED BY <1>7, <1>8

\* A chunk is a sequence of bytes.
LEMMA ChunkIsSeq == Chunk \subseteq Seq(Byte)
<1> SUFFICES ASSUME NEW data \in Chunk PROVE data \in Seq(Byte)
  OBVIOUS
<1>1. PICK n \in 0..MaxChunk : data \in [1..n -> Byte]
  BY DEF Chunk, BoundedSeq, SeqOf
<1> QED BY <1>1, ArrayIsSeq, SizeAssumption

\* Every step of the buffer keeps the invariant, and is the same call of the
\* queue.
LEMMA BufferStep ==
    ASSUME BInv, "careless" \notin Callers, [BNext]_bVars
    PROVE  /\ BInv'
           /\ [Fifo!Next]_(Fifo!vars)
           /\ \A n \in 1..(size + 1) : bRemove(n) => Fifo!bRemove(n)
           /\ \A rule \in Rule : bGetDataByRule(rule) => Fifo!bGetDataByRule(rule)
<1>1. ASSUME NEW data \in Chunk, bAppend(data)
      PROVE  BInv' /\ Fifo!Next
  <2>1. data \in Seq(Byte)
    BY ChunkIsSeq
  <2>2. BInv' /\ Fifo!bAppend(data)
    BY <1>1, <2>1, AppendKeeps
  <2>3. data \in Fifo!Chunk
    BY DEF Fifo!Chunk, Chunk, Fifo!BoundedSeq, Fifo!SeqOf, BoundedSeq, SeqOf
  <2> QED BY <2>2, <2>3 DEF Fifo!Next
<1>2. ASSUME NEW n \in 1..(size + 1), bRemove(n)
      PROVE  BInv' /\ Fifo!bRemove(n) /\ Fifo!Next
  BY <1>2, RemoveKeeps DEF Fifo!Next
<1>3. ASSUME bClear
      PROVE  BInv' /\ Fifo!Next
  BY <1>3, ClearKeepsBuffer DEF Fifo!Next
<1>4. ASSUME NEW rule \in Rule, bGetDataByRule(rule)
      PROVE  BInv' /\ Fifo!bGetDataByRule(rule) /\ Fifo!Next
  <2>1. rule \in Fifo!Rule
    BY DEF Rule, Fifo!Rule, Types, LocalTypes, Fifo!Types
  <2> QED BY <1>4, <2>1, TakeKeepsBuffer DEF Fifo!Next
<1>5. ASSUME UNCHANGED bVars
      PROVE  BInv' /\ UNCHANGED Fifo!vars
  BY <1>5 DEF bVars, BInv, BTypeOK, DataInv, size, Fifo!vars
<1>6. BInv' /\ [Fifo!Next]_(Fifo!vars)
  <2>1. CASE BNext
    BY <1>1, <1>2, <1>3, <1>4, <2>1 DEF BNext
  <2>2. CASE UNCHANGED bVars
    BY <1>5, <2>2
  <2> QED BY <2>1, <2>2
<1> QED BY <1>2, <1>4, <1>6

-----------------------------------------------------------------------------
\* BInv holds always, for a buffer of any size, marks of any length and calls
\* in any order, unless a caller searches behind the data without clearing.
THEOREM BufferInvariant ==
    ASSUME "careless" \notin Callers
    PROVE  BSpec => []BInv
<1>1. BInit => BInv
  BY BufferInit
<1>2. BInv /\ [BNext]_bVars => BInv'
  BY BufferStep
<1> QED BY <1>1, <1>2, PTL DEF BSpec

\* The length never leaves the array: no call computes a negative one.
THEOREM BufferTypeCorrect ==
    ASSUME "careless" \notin Callers
    PROVE  BSpec => []BTypeOK
<1>1. BInv => BTypeOK
  BY DEF BInv
<1> QED BY <1>1, BufferInvariant, PTL

\* Every behaviour of the buffer is one of the queue of its newest bytes.
THEOREM ImplementsTheQueue ==
    ASSUME "careless" \notin Callers
    PROVE  BSpec => ImplementsFifo
<1>1. BInit => Fifo!Init
  BY BufferInit
<1>2. BInv /\ [BNext]_bVars => [Fifo!Next]_(Fifo!vars)
  BY BufferStep
<1> QED BY <1>1, <1>2, BufferInvariant, PTL DEF BSpec, ImplementsFifo, Fifo!Spec

\* A removal, or the delivery of a frame, is the same call on the queue.
THEOREM SameCalls ==
    ASSUME "careless" \notin Callers
    PROVE  BSpec => CallsMatch
<1> DEFINE Same == /\ \A n \in 1..(size + 1) : bRemove(n) => Fifo!bRemove(n)
                   /\ \A rule \in Rule : bGetDataByRule(rule) => Fifo!bGetDataByRule(rule)
<1>1. BInv /\ [BNext]_bVars => Same
  BY BufferStep
<1> HIDE DEF Same
<1>2. BSpec => [][Same]_bVars
  BY <1>1, BufferInvariant, PTL DEF BSpec
<1> QED BY <1>2 DEF CallsMatch, Same
=============================================================================
