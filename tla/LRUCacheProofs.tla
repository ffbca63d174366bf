--------------------------- MODULE LRUCacheProofs ---------------------------
(***************************************************************************)
(* Proofs about LRUCache, for any keys and any capacity: the pointers from *)
(* Head to Tail thread the keys of the map, and the list and the map are   *)
(* the cache that LRUPolicy describes.                                     *)
(***************************************************************************)
EXTENDS LRUCache, FiniteSetTheorems, WellFoundedInduction, TLAPS

USE CapacityAssumption, KeysAssumption, BoundsAssumption

-----------------------------------------------------------------------------
(* A list l threads the keys S: f numbers its nodes from Head, which is    *)
(* 0, to Tail, which is n + 1.                                             *)

Numbering(f, n, S) ==
  /\ f \in [0 .. n + 1 -> Nodes]
  /\ f[0] = Head /\ f[n + 1] = Tail
  /\ \A i, j \in 0 .. n + 1 : f[i] = f[j] => i = j
  /\ S = {f[i] : i \in 1 .. n}

Linked(f, n, l) ==
  \A i \in 0 .. n : l.next[f[i]] = f[i + 1] /\ l.prev[f[i + 1]] = f[i]

Lists == [next : [Nodes -> Nodes \cup {Null}], prev : [Nodes -> Nodes \cup {Null}]]

Threads(f, n, S, l) == Numbering(f, n, S) /\ Linked(f, n, l)

\* The numbering without the j-th node, and with a first node more.
Dropped(f, n, j) == [i \in 0 .. n |-> IF i < j THEN f[i] ELSE f[i + 1]]

Pushed(f, n, k) ==
  [i \in 0 .. n + 2 |-> IF i = 0 THEN Head ELSE IF i = 1 THEN k ELSE f[i - 1]]

LEMMA NumberingKeys ==
  ASSUME NEW n \in Nat, NEW f, NEW S, Numbering(f, n, S)
  PROVE  /\ S \subseteq Keys
         /\ \A i \in 1 .. n : f[i] \in S
         /\ \A k \in S : \E i \in 1 .. n : k = f[i]
<1>1. ASSUME NEW i \in 1 .. n PROVE f[i] \in Keys
  <2>1. i \in 0 .. n + 1 /\ 0 \in 0 .. n + 1 /\ n + 1 \in 0 .. n + 1
    OBVIOUS
  <2>2. f[i] # Head /\ f[i] # Tail /\ f[i] \in Nodes
    BY <2>1 DEF Numbering
  <2> QED
    BY <2>2 DEF Nodes
<1> QED
  BY <1>1 DEF Numbering

LEMMA DroppedNumbering ==
  ASSUME NEW n \in Nat, NEW f, NEW S, Numbering(f, n, S), NEW j \in 1 .. n
  PROVE  Numbering(Dropped(f, n, j), n - 1, S \ {f[j]})
<1> PICK g : g = Dropped(f, n, j)
  OBVIOUS
<1>1. \A i \in 0 .. n : g[i] = IF i < j THEN f[i] ELSE f[i + 1]
  BY DEF Dropped
<1>2. (n - 1) + 1 = n /\ n - 1 \in Nat
  OBVIOUS
<1>3. g \in [0 .. n -> Nodes]
  BY DEF Dropped, Numbering
<1>4. g[0] = Head /\ g[n] = Tail
  BY <1>1 DEF Numbering
<1>5. ASSUME NEW a \in 0 .. n, NEW b \in 0 .. n, g[a] = g[b]
      PROVE  a = b
  BY <1>1, <1>5 DEF Numbering
<1>6. S \ {f[j]} = {g[i] : i \in 1 .. n - 1}
  <2>1. ASSUME NEW k \in S, k # f[j]
        PROVE  \E i \in 1 .. n - 1 : k = g[i]
    <3>1. PICK i \in 1 .. n : k = f[i]
      BY NumberingKeys
    <3>2. CASE i < j
      BY <1>1, <3>1, <3>2
    <3>3. CASE i > j
      <4>1. i - 1 \in 1 .. n - 1 /\ g[i - 1] = f[i]
        BY <1>1, <3>3
      <4> QED
        BY <3>1, <4>1
    <3> QED
      BY <2>1, <3>1, <3>2, <3>3
  <2>2. ASSUME NEW i \in 1 .. n - 1
        PROVE  g[i] \in S /\ g[i] # f[j]
    <3>1. CASE i < j
      BY <1>1, <3>1 DEF Numbering
    <3>2. CASE ~(i < j)
      <4>1. g[i] = f[i + 1] /\ i + 1 \in 1 .. n /\ i + 1 # j
        BY <1>1, <3>2
      <4> QED
        BY <4>1 DEF Numbering
    <3> QED
      BY <3>1, <3>2
  <2> QED
    BY <2>1, <2>2
<1>7. PICK m : m = n - 1
  OBVIOUS
<1>8. m + 1 = n
  BY <1>7
<1>9. /\ g \in [0 .. m + 1 -> Nodes] /\ g[0] = Head /\ g[m + 1] = Tail
      /\ \A a, b \in 0 .. m + 1 : g[a] = g[b] => a = b
  BY <1>3, <1>4, <1>5, <1>8
<1>10. S \ {f[j]} = {g[i] : i \in 1 .. m}
  BY <1>6, <1>7
<1>11. Numbering(g, m, S \ {f[j]})
  BY <1>9, <1>10 DEF Numbering
<1> QED
  BY <1>7, <1>11

LEMMA PushedNumbering ==
  ASSUME NEW n \in Nat, NEW f, NEW S, Numbering(f, n, S), NEW k \in Keys \ S
  PROVE  Numbering(Pushed(f, n, k), n + 1, S \cup {k})
<1> PICK g : g = Pushed(f, n, k)
  OBVIOUS
<1>1. /\ \A i \in 0 .. n + 2 : g[i] = IF i = 0 THEN Head ELSE IF i = 1 THEN k ELSE f[i - 1]
      /\ (n + 1) + 1 = n + 2
  BY DEF Pushed
<1>2. g \in [0 .. n + 2 -> Nodes]
  BY DEF Pushed, Numbering, Nodes
<1>3. g[0] = Head /\ g[n + 2] = Tail
  BY <1>1 DEF Numbering
<1>4. \A i \in 1 .. n + 1 : f[i] # k /\ f[i] # Head
  <2> SUFFICES ASSUME NEW i \in 1 .. n + 1 PROVE f[i] # k /\ f[i] # Head
    OBVIOUS
  <2>1. f[i] # Head
    BY DEF Numbering
  <2>2. CASE i \in 1 .. n
    BY <2>1, <2>2 DEF Numbering
  <2>3. CASE i = n + 1
    BY <2>1, <2>3 DEF Numbering
  <2> QED
    BY <2>2, <2>3
<1>5. ASSUME NEW a \in 0 .. n + 2, NEW b \in 0 .. n + 2, g[a] = g[b]
      PROVE  a = b
  <2>1. CASE a \in {0, 1} /\ b \in {0, 1}
    BY <1>1, <1>5, <2>1
  <2>2. CASE a \in {0, 1} /\ b \notin {0, 1}
    <3>1. b - 1 \in 1 .. n + 1 /\ g[b] = f[b - 1]
      BY <1>1, <2>2
    <3> QED
      BY <1>1, <1>4, <1>5, <2>2, <3>1
  <2>3. CASE a \notin {0, 1} /\ b \in {0, 1}
    <3>1. a - 1 \in 1 .. n + 1 /\ g[a] = f[a - 1]
      BY <1>1, <2>3
    <3> QED
      BY <1>1, <1>4, <1>5, <2>3, <3>1
  <2>4. CASE a \notin {0, 1} /\ b \notin {0, 1}
    <3>1. /\ a - 1 \in 0 .. n + 1 /\ g[a] = f[a - 1]
          /\ b - 1 \in 0 .. n + 1 /\ g[b] = f[b - 1]
      BY <1>1, <2>4
    <3>2. a - 1 = b - 1
      BY <1>5, <3>1 DEF Numbering
    <3> QED
      BY <3>2
  <2> QED
    BY <2>1, <2>2, <2>3, <2>4
<1>6. S \cup {k} = {g[i] : i \in 1 .. n + 1}
  <2>1. ASSUME NEW x \in S PROVE \E i \in 1 .. n + 1 : x = g[i]
    <3>1. PICK i \in 1 .. n : x = f[i]
      BY NumberingKeys
    <3>2. i + 1 \in 1 .. n + 1 /\ g[i + 1] = f[i]
      BY <1>1
    <3> QED
      BY <3>1, <3>2
  <2>2. g[1] = k /\ 1 \in 1 .. n + 1
    BY <1>1
  <2>3. ASSUME NEW i \in 1 .. n + 1 PROVE g[i] \in S \cup {k}
    <3>1. CASE i = 1
      BY <2>2, <3>1
    <3>2. CASE i # 1
      <4>1. i - 1 \in 1 .. n /\ g[i] = f[i - 1]
        BY <1>1, <3>2
      <4> QED
        BY <4>1 DEF Numbering
    <3> QED
      BY <3>1, <3>2
  <2> QED
    BY <2>1, <2>2, <2>3
<1>7. PICK m : m = n + 1
  OBVIOUS
<1>8. m + 1 = n + 2
  BY <1>7
<1>9. /\ g \in [0 .. m + 1 -> Nodes] /\ g[0] = Head /\ g[m + 1] = Tail
      /\ \A a, b \in 0 .. m + 1 : g[a] = g[b] => a = b
  BY <1>2, <1>3, <1>5, <1>8
<1>10. S \cup {k} = {g[i] : i \in 1 .. m}
  BY <1>6, <1>7
<1>11. Numbering(g, m, S \cup {k})
  BY <1>9, <1>10 DEF Numbering
<1> QED
  BY <1>7, <1>11

-----------------------------------------------------------------------------
(* The surgery on the pointers.                                            *)

\* Detach and Discard take the j-th node out.
LEMMA DetachThreads ==
  ASSUME NEW n \in Nat, NEW f, NEW S, NEW l \in Lists, Threads(f, n, S, l), NEW j \in 1 .. n
  PROVE  /\ Threads(Dropped(f, n, j), n - 1, S \ {f[j]}, Detach(l, f[j]))
         /\ Threads(Dropped(f, n, j), n - 1, S \ {f[j]}, Discard(l, f[j]))
         /\ Detach(l, f[j]) \in Lists /\ Discard(l, f[j]) \in Lists
<1> PICK g, d, e : g = Dropped(f, n, j) /\ d = Detach(l, f[j]) /\ e = Discard(l, f[j])
  OBVIOUS
<1>1. /\ \A i \in 0 .. n : g[i] = IF i < j THEN f[i] ELSE f[i + 1]
      /\ (n - 1) + 1 = n /\ n - 1 \in Nat
  BY DEF Dropped
<1>2. /\ f \in [0 .. n + 1 -> Nodes]
      /\ \A a, b \in 0 .. n + 1 : f[a] = f[b] => a = b
      /\ \A i \in 0 .. n : l.next[f[i]] = f[i + 1] /\ l.prev[f[i + 1]] = f[i]
  BY DEF Threads, Numbering, Linked
<1>3. /\ l.prev[f[j]] = f[j - 1] /\ l.next[f[j]] = f[j + 1]
      /\ j - 1 \in 0 .. n + 1 /\ j \in 0 .. n + 1 /\ j + 1 \in 0 .. n + 1
  <2>1. j - 1 \in 0 .. n /\ (j - 1) + 1 = j /\ j \in 0 .. n
    OBVIOUS
  <2> QED
    BY <1>2, <2>1
<1>4. /\ d.next = [l.next EXCEPT ![f[j - 1]] = f[j + 1]]
      /\ d.prev = [l.prev EXCEPT ![f[j + 1]] = f[j - 1]]
  BY <1>3 DEF Detach
<1>5. /\ e.next = [d.next EXCEPT ![f[j]] = Null]
      /\ e.prev = [d.prev EXCEPT ![f[j]] = Null]
  BY DEF Discard
<1>6. d \in Lists /\ e \in Lists
  <2>1. /\ d.next \in [Nodes -> Nodes \cup {Null}] /\ d.prev \in [Nodes -> Nodes \cup {Null}]
    BY <1>2, <1>3, <1>4 DEF Lists
  <2>2. /\ e.next \in [Nodes -> Nodes \cup {Null}] /\ e.prev \in [Nodes -> Nodes \cup {Null}]
    BY <1>5, <2>1
  <2> QED
    BY <2>1, <2>2 DEF Lists, Detach, Discard
<1>7. ASSUME NEW i \in 0 .. n - 1
      PROVE  /\ d.next[g[i]] = g[i + 1] /\ d.prev[g[i + 1]] = g[i]
             /\ e.next[g[i]] = g[i + 1] /\ e.prev[g[i + 1]] = g[i]
  <2>0. l.next \in [Nodes -> Nodes \cup {Null}] /\ l.prev \in [Nodes -> Nodes \cup {Null}]
    BY DEF Lists
  <2>1. CASE i < j - 1
    <3>1. /\ g[i] = f[i] /\ g[i + 1] = f[i + 1] /\ i \in 0 .. n /\ i + 1 \in 0 .. n + 1
          /\ i # j - 1 /\ i # j /\ i + 1 # j + 1 /\ i + 1 # j
      BY <1>1, <2>1
    <3>2. /\ f[i] # f[j - 1] /\ f[i] # f[j] /\ f[i + 1] # f[j + 1] /\ f[i + 1] # f[j]
          /\ f[i] \in Nodes /\ f[i + 1] \in Nodes
      BY <1>2, <1>3, <3>1
    <3> QED
      BY <1>2, <1>4, <1>5, <2>0, <3>1, <3>2
  <2>2. CASE i = j - 1
    <3>1. g[i] = f[j - 1] /\ g[i + 1] = f[j + 1]
      BY <1>1, <2>2
    <3>2. f[j - 1] # f[j] /\ f[j + 1] # f[j] /\ f[j - 1] \in Nodes /\ f[j + 1] \in Nodes
      BY <1>2, <1>3
    <3> QED
      BY <1>4, <1>5, <2>0, <3>1, <3>2
  <2>3. CASE i > j - 1
    <3>1. /\ g[i] = f[i + 1] /\ g[i + 1] = f[i + 2] /\ i + 1 \in 0 .. n /\ i + 2 \in 0 .. n + 1
          /\ (i + 1) + 1 = i + 2 /\ i + 1 \in 0 .. n + 1
          /\ i + 1 # j - 1 /\ i + 1 # j /\ i + 2 # j + 1 /\ i + 2 # j
      BY <1>1, <2>3
    <3>2. /\ f[i + 1] # f[j - 1] /\ f[i + 1] # f[j] /\ f[i + 2] # f[j + 1] /\ f[i + 2] # f[j]
          /\ f[i + 1] \in Nodes /\ f[i + 2] \in Nodes
      BY <1>2, <1>3, <3>1
    <3>3. l.next[f[i + 1]] = f[i + 2] /\ l.prev[f[i + 2]] = f[i + 1]
      BY <1>2, <3>1
    <3> QED
      BY <1>4, <1>5, <2>0, <3>1, <3>2, <3>3
  <2> QED
    BY <2>1, <2>2, <2>3
<1>8. Linked(g, n - 1, d) /\ Linked(g, n - 1, e)
  BY <1>7 DEF Linked
<1> QED
  BY <1>6, <1>8, DroppedNumbering DEF Threads

LEMMA InsertThreads ==
  ASSUME NEW n \in Nat, NEW f, NEW S, NEW l \in Lists, Threads(f, n, S, l),
         NEW k \in Keys \ S
  PROVE  /\ Threads(Pushed(f, n, k), n + 1, S \cup {k}, InsertAtHead(l, k))
         /\ InsertAtHead(l, k) \in Lists
<1> PICK g, d : g = Pushed(f, n, k) /\ d = InsertAtHead(l, k)
  OBVIOUS
<1>1. /\ \A i \in 0 .. n + 2 : g[i] = IF i = 0 THEN Head ELSE IF i = 1 THEN k ELSE f[i - 1]
      /\ (n + 1) + 1 = n + 2
  BY DEF Pushed
<1>2. /\ f \in [0 .. n + 1 -> Nodes]
      /\ \A a, b \in 0 .. n + 1 : f[a] = f[b] => a = b
      /\ \A i \in 0 .. n : l.next[f[i]] = f[i + 1] /\ l.prev[f[i + 1]] = f[i]
      /\ f[0] = Head /\ f[n + 1] = Tail
  BY DEF Threads, Numbering, Linked
<1>3. l.next[Head] = f[1] /\ f[1] \in Nodes
  BY <1>2
<1>4. /\ d.next = [l.next EXCEPT ![k] = f[1], ![Head] = k]
      /\ d.prev = [l.prev EXCEPT ![k] = Head, ![f[1]] = k]
  BY <1>3 DEF InsertAtHead
<1>5. /\ l.next \in [Nodes -> Nodes \cup {Null}] /\ l.prev \in [Nodes -> Nodes \cup {Null}]
      /\ k \in Nodes /\ Head \in Nodes /\ k # Head
  BY DEF Lists, Nodes
<1>6. d \in Lists
  <2>1. d.next \in [Nodes -> Nodes \cup {Null}] /\ d.prev \in [Nodes -> Nodes \cup {Null}]
    BY <1>3, <1>4, <1>5
  <2> QED
    BY <2>1 DEF Lists, InsertAtHead
<1>7. ASSUME NEW i \in 1 .. n + 1
      PROVE  f[i] # k /\ f[i] # Head /\ f[i] \in Nodes
  <2>1. f[i] # Head /\ f[i] \in Nodes
    BY <1>2
  <2>2. CASE i \in 1 .. n
    BY <2>1, <2>2 DEF Threads, Numbering
  <2>3. CASE i = n + 1
    BY <1>2, <2>1, <2>3
  <2> QED
    BY <2>2, <2>3
<1>8. ASSUME NEW i \in 0 .. n + 1
      PROVE  d.next[g[i]] = g[i + 1] /\ d.prev[g[i + 1]] = g[i]
  <2>1. CASE i = 0
    <3>1. g[i] = Head /\ g[i + 1] = k /\ f[1] # k
      BY <1>1, <1>7, <2>1
    <3> QED
      BY <1>4, <1>5, <3>1
  <2>2. CASE i = 1
    <3>1. g[i] = k /\ g[i + 1] = f[1] /\ f[1] # k /\ f[1] \in Nodes
      BY <1>1, <1>7, <2>2
    <3> QED
      BY <1>4, <1>5, <3>1
  <2>3. CASE i > 1
    <3>1. /\ g[i] = f[i - 1] /\ g[i + 1] = f[i] /\ i - 1 \in 1 .. n + 1 /\ i \in 1 .. n + 1
          /\ i - 1 \in 0 .. n /\ (i - 1) + 1 = i /\ i # 1
      BY <1>1, <2>3
    <3>2. /\ f[i - 1] # k /\ f[i - 1] # Head /\ f[i - 1] \in Nodes
          /\ f[i] # k /\ f[i] \in Nodes /\ f[i] # f[1]
      BY <1>2, <1>7, <3>1
    <3>3. l.next[f[i - 1]] = f[i] /\ l.prev[f[i]] = f[i - 1]
      BY <1>2, <3>1
    <3> QED
      BY <1>4, <1>5, <3>1, <3>2, <3>3
  <2> QED
    BY <2>1, <2>2, <2>3
<1>9. Linked(g, n + 1, d)
  BY <1>8 DEF Linked
<1> QED
  BY <1>6, <1>9, PushedNumbering DEF Threads

-----------------------------------------------------------------------------
(* The order of use a numbering stands for.                                *)

Newer(f, n) ==
  {<<f[p[1]], f[p[2]]>> : p \in {q \in (1 .. n) \X (1 .. n) : q[1] < q[2]}}

\* The pairs of an order that do not speak of k.
Without(N, k) == {p \in N : p[1] # k /\ p[2] # k}

LEMMA NewerPairs ==
  ASSUME NEW n \in Nat, NEW f, NEW p
  PROVE  p \in Newer(f, n) <=> \E i, j \in 1 .. n : i < j /\ p = <<f[i], f[j]>>
<1>1. ASSUME NEW i \in 1 .. n, NEW j \in 1 .. n, i < j, p = <<f[i], f[j]>>
      PROVE  p \in Newer(f, n)
  <2>1. /\ <<i, j>> \in {q \in (1 .. n) \X (1 .. n) : q[1] < q[2]}
        /\ p = <<f[<<i, j>>[1]], f[<<i, j>>[2]]>>
    BY <1>1
  <2> QED
    BY <2>1 DEF Newer
<1>2. ASSUME p \in Newer(f, n)
      PROVE  \E i, j \in 1 .. n : i < j /\ p = <<f[i], f[j]>>
  BY <1>2 DEF Newer
<1> QED
  BY <1>1, <1>2

LEMMA DroppedNewer ==
  ASSUME NEW n \in Nat, NEW f, NEW S, Numbering(f, n, S), NEW j \in 1 .. n
  PROVE  Newer(Dropped(f, n, j), n - 1) = Without(Newer(f, n), f[j])
<1> PICK g : g = Dropped(f, n, j)
  OBVIOUS
<1>1. /\ \A i \in 0 .. n : g[i] = IF i < j THEN f[i] ELSE f[i + 1]
      /\ n - 1 \in Nat
  BY DEF Dropped
<1>2. \A a, b \in 0 .. n + 1 : f[a] = f[b] => a = b
  BY DEF Numbering
<1>3. ASSUME NEW p \in Newer(g, n - 1)
      PROVE  p \in Without(Newer(f, n), f[j])
  <2>1. PICK a, b \in 1 .. n - 1 : a < b /\ p = <<g[a], g[b]>>
    BY <1>1, NewerPairs
  <2>2. PICK c, d \in 1 .. n : /\ c < d /\ c # j /\ d # j
                               /\ g[a] = f[c] /\ g[b] = f[d]
    <3>1. CASE b < j
      BY <1>1, <2>1, <3>1
    <3>2. CASE a < j /\ ~(b < j)
      <4>1. /\ b + 1 \in 1 .. n /\ a \in 1 .. n /\ a < b + 1 /\ a # j /\ b + 1 # j
            /\ g[a] = f[a] /\ g[b] = f[b + 1]
        BY <1>1, <2>1, <3>2
      <4> QED
        BY <4>1
    <3>3. CASE ~(a < j)
      <4>1. /\ b + 1 \in 1 .. n /\ a + 1 \in 1 .. n /\ a + 1 < b + 1 /\ a + 1 # j /\ b + 1 # j
            /\ g[a] = f[a + 1] /\ g[b] = f[b + 1]
        BY <1>1, <2>1, <3>3
      <4> QED
        BY <4>1
    <3> QED
      BY <3>1, <3>2, <3>3
  <2>3. p \in Newer(f, n)
    BY <2>1, <2>2, NewerPairs
  <2>4. f[c] # f[j] /\ f[d] # f[j]
    BY <1>2, <2>2
  <2> QED
    BY <2>1, <2>2, <2>3, <2>4 DEF Without
<1>4. ASSUME NEW p \in Without(Newer(f, n), f[j])
      PROVE  p \in Newer(g, n - 1)
  <2>1. p \in Newer(f, n) /\ p[1] # f[j] /\ p[2] # f[j]
    BY DEF Without
  <2>2. PICK a, b \in 1 .. n : a < b /\ p = <<f[a], f[b]>>
    BY <2>1, NewerPairs
  <2>3. a # j /\ b # j
    BY <2>1, <2>2
  <2>4. PICK c, d \in 1 .. n - 1 : c < d /\ g[c] = f[a] /\ g[d] = f[b]
    <3>1. CASE b < j
      <4>1. a \in 1 .. n - 1 /\ b \in 1 .. n - 1 /\ g[a] = f[a] /\ g[b] = f[b]
        BY <1>1, <2>2, <3>1
      <4> QED
        BY <2>2, <4>1
    <3>2. CASE a < j /\ ~(b < j)
      <4>1. /\ b - 1 \in 1 .. n - 1 /\ a \in 1 .. n - 1 /\ a < b - 1
            /\ g[a] = f[a] /\ g[b - 1] = f[b]
        BY <1>1, <2>2, <2>3, <3>2
      <4> QED
        BY <4>1
    <3>3. CASE ~(a < j)
      <4>1. /\ b - 1 \in 1 .. n - 1 /\ a - 1 \in 1 .. n - 1 /\ a - 1 < b - 1
            /\ g[a - 1] = f[a] /\ g[b - 1] = f[b]
        BY <1>1, <2>2, <2>3, <3>3
      <4> QED
        BY <4>1
    <3> QED
      BY <3>1, <3>2, <3>3
  <2> QED
    BY <1>1, <2>2, <2>4, NewerPairs
<1> QED
  BY <1>3, <1>4

LEMMA PushedNewer ==
  ASSUME NEW n \in Nat, NEW f, NEW S, Numbering(f, n, S), NEW k \in Keys \ S
  PROVE  Newer(Pushed(f, n, k), n + 1) = Newer(f, n) \cup {<<k, x>> : x \in S}
<1> PICK g : g = Pushed(f, n, k)
  OBVIOUS
<1>1. \A i \in 0 .. n + 2 : g[i] = IF i = 0 THEN Head ELSE IF i = 1 THEN k ELSE f[i - 1]
  BY DEF Pushed
<1>2. n + 1 \in Nat /\ g[1] = k /\ 1 \in 1 .. n + 1
  BY <1>1
<1>3. \A i \in 1 .. n : i + 1 \in 1 .. n + 1 /\ g[i + 1] = f[i]
  BY <1>1
<1>4. ASSUME NEW p \in Newer(g, n + 1)
      PROVE  p \in Newer(f, n) \cup {<<k, x>> : x \in S}
  <2>1. PICK a, b \in 1 .. n + 1 : a < b /\ p = <<g[a], g[b]>>
    BY <1>2, NewerPairs
  <2>2. b - 1 \in 1 .. n /\ g[b] = f[b - 1] /\ f[b - 1] \in S
    <3>1. b - 1 \in 1 .. n /\ g[b] = f[b - 1]
      BY <1>1, <2>1
    <3> QED
      BY <3>1, NumberingKeys
  <2>3. CASE a = 1
    BY <1>2, <2>1, <2>2, <2>3
  <2>4. CASE a # 1
    <3>1. a - 1 \in 1 .. n /\ g[a] = f[a - 1] /\ a - 1 < b - 1
      BY <1>1, <2>1, <2>4
    <3> QED
      BY <2>1, <2>2, <3>1, NewerPairs
  <2> QED
    BY <2>3, <2>4
<1>5. ASSUME NEW p \in Newer(f, n)
      PROVE  p \in Newer(g, n + 1)
  <2>1. PICK a, b \in 1 .. n : a < b /\ p = <<f[a], f[b]>>
    BY NewerPairs
  <2>2. a + 1 \in 1 .. n + 1 /\ b + 1 \in 1 .. n + 1 /\ a + 1 < b + 1
    BY <2>1
  <2> QED
    BY <1>2, <1>3, <2>1, <2>2, NewerPairs
<1>6. ASSUME NEW x \in S
      PROVE  <<k, x>> \in Newer(g, n + 1)
  <2>1. PICK i \in 1 .. n : x = f[i]
    BY NumberingKeys
  <2>2. i + 1 \in 1 .. n + 1 /\ 1 < i + 1
    OBVIOUS
  <2> QED
    BY <1>2, <1>3, <2>1, <2>2, NewerPairs
<1> QED
  BY <1>4, <1>5, <1>6

-----------------------------------------------------------------------------
(* The walk from Head meets the nodes in the order of their numbers.       *)

LEMMA LeastExists ==
  ASSUME NEW T \in SUBSET Nat, T # {}
  PROVE  \E x \in T : \A y \in T : x <= y
<1> DEFINE Below == {p \in Nat \X Nat : p[1] < p[2]}
<1>1. IsWellFoundedOn(Below, Nat)
  BY NatLessThanWellFounded DEF OpToRel
<1>2. PICK x \in T : \A y \in T : ~(<<y, x>> \in Below)
  BY <1>1, WFMin, Zenon
<1>3. ASSUME NEW y \in T, y < x
      PROVE  FALSE
  <2>1. <<y, x>> \in Nat \X Nat /\ <<y, x>>[1] < <<y, x>>[2]
    BY <1>3
  <2>2. <<y, x>> \in Below
    BY <2>1
  <2> QED
    BY <1>2, <2>2
<1> QED
  BY <1>3

LEMMA SizeOfKeys ==
  ASSUME NEW S, S \subseteq Keys
  PROVE  /\ IsFiniteSet(S) /\ Cardinality(S) \in Nat /\ Cardinality(Keys) \in Nat
         /\ Cardinality(S) <= Cardinality(Keys)
<1>1. S \in SUBSET Keys
  OBVIOUS
<1> QED
  BY <1>1, FS_Subset, FS_CardinalityType

LEMMA WalkFollows ==
  ASSUME DOMAIN map \subseteq Keys, NEW f, Threads(f, Size, DOMAIN map, List)
  PROVE  \A i \in 0 .. Size + 1 : Walk[i] = f[i]
<1> PICK n, c : n = Size /\ c = Cardinality(Keys)
  OBVIOUS
<1> DEFINE E(at) == [i \in 0 .. Cardinality(Keys) + 1 |->
                       IF i = 0 THEN Head
                       ELSE LET before == at[i - 1]
                            IN  IF before \in Keys \cup {Head} THEN next[before] ELSE before]
<1>1. n \in Nat /\ c \in Nat /\ n <= c
  BY SizeOfKeys DEF Size
<1>2. /\ f[0] = Head /\ f[n + 1] = Tail
      /\ \A i \in 0 .. n : next[f[i]] = f[i + 1]
      /\ \A i \in 0 .. n : f[i] \in Keys \cup {Head}
      /\ Tail \notin Keys \cup {Head}
  <2>1. Numbering(f, n, DOMAIN map) /\ Linked(f, n, List)
    BY DEF Threads
  <2>2. \A i \in 1 .. n : f[i] \in Keys
    BY <1>1, <2>1, NumberingKeys
  <2> QED
    BY <1>1, <2>1, <2>2 DEF Numbering, Linked, List
<1>3. \E at : at = E(at)
  <2> DEFINE w == [i \in 0 .. c + 1 |-> IF i <= n THEN f[i] ELSE Tail]
  <2>1. \A i \in 0 .. c + 1 : w[i] = IF i <= n THEN f[i] ELSE Tail
    OBVIOUS
  <2> HIDE DEF w
  <2>2. ASSUME NEW i \in 0 .. c + 1
        PROVE  w[i] = IF i = 0 THEN Head
                      ELSE IF w[i - 1] \in Keys \cup {Head} THEN next[w[i - 1]] ELSE w[i - 1]
    <3>1. CASE i = 0
      BY <1>1, <1>2, <2>1, <3>1
    <3>2. CASE i \in 1 .. n
      <4>1. i - 1 \in 0 .. n /\ (i - 1) + 1 = i /\ i - 1 \in 0 .. c + 1 /\ i - 1 <= n /\ i # 0
        BY <1>1, <3>2
      <4>2. w[i] = f[i] /\ w[i - 1] = f[i - 1]
        BY <2>1, <3>2, <4>1
      <4> QED
        BY <1>2, <4>1, <4>2
    <3>3. CASE i = n + 1
      <4>1. n \in 0 .. c + 1 /\ i - 1 = n /\ n \in 0 .. n /\ ~(i <= n) /\ i # 0
        BY <1>1, <3>3
      <4>2. w[i] = Tail /\ w[i - 1] = f[n]
        BY <2>1, <4>1
      <4> QED
        BY <1>2, <4>1, <4>2, <3>3
    <3>4. CASE i > n + 1
      <4>1. w[i] = Tail /\ w[i - 1] = Tail /\ i # 0
        BY <1>1, <2>1, <3>4
      <4> QED
        BY <1>2, <4>1
    <3> QED
      BY <1>1, <3>1, <3>2, <3>3, <3>4
  <2>3. w = [i \in 0 .. c + 1 |-> w[i]]
    BY DEF w
  <2>4. w = E(w)
    BY <2>2, <2>3
  <2> QED
    BY <2>4
<1>4. Walk = CHOOSE at : at = E(at)
  BY DEF Walk
<1>5. Walk = E(Walk)
  BY <1>3, <1>4, Zenon
<1>6. \A i \in 0 .. c + 1 :
        Walk[i] = IF i = 0 THEN Head
                  ELSE IF Walk[i - 1] \in Keys \cup {Head} THEN next[Walk[i - 1]] ELSE Walk[i - 1]
  BY <1>5
<1> PICK T : T = {i \in 0 .. n + 1 : Walk[i] # f[i]}
  OBVIOUS
<1>7. ASSUME T # {}
      PROVE  FALSE
  <2>1. PICK i \in T : \A j \in T : i <= j
    BY <1>1, <1>7, LeastExists
  <2>2. i \in 0 .. n + 1 /\ i \in 0 .. c + 1 /\ Walk[i] # f[i]
    BY <1>1, <1>7, <2>1
  <2>3. i # 0
    BY <1>1, <1>2, <1>6, <2>2
  <2>4. /\ i - 1 \in 0 .. n /\ i - 1 \in 0 .. n + 1 /\ (i - 1) + 1 = i /\ ~(i <= i - 1)
    BY <1>1, <2>2, <2>3
  <2>5. Walk[i - 1] = f[i - 1]
    BY <2>1, <2>4
  <2> QED
    BY <1>2, <1>6, <2>2, <2>3, <2>4, <2>5
<1> QED
  BY <1>7

-----------------------------------------------------------------------------
(* The invariant: the pointers thread the keys of the map, and what is     *)
(* counted are natural numbers.                                            *)

Counters ==
  /\ ops \in 0 .. MaxOps /\ removals \in Nat
  /\ stats \in [hits : Nat, misses : Nat, evictions : Nat, expirations : Nat]

Listed ==
  /\ DOMAIN map \subseteq Keys /\ Size <= Capacity
  /\ List \in Lists
  /\ \E f \in [0 .. Size + 1 -> Nodes] : Threads(f, Size, DOMAIN map, List)

LRUInv == Counters /\ Listed

\* The list threads the keys S in the order of use N.
Holds(S, N) ==
  /\ DOMAIN map = S /\ List \in Lists
  /\ \E f : Threads(f, Cardinality(S), S, List) /\ Newer(f, Cardinality(S)) = N

Order ==
  {<<Walk[p[1]], Walk[p[2]]>> : p \in {q \in (1 .. Size) \X (1 .. Size) : q[1] < q[2]}}

\* What a list that threads its keys tells.
HeldIsShown ==
  \A S, N : S \subseteq Keys /\ Holds(S, N) =>
    Order = N /\ (Cardinality(S) <= Capacity => Listed)

LEMMA Shown == HeldIsShown
<1> SUFFICES ASSUME NEW S, NEW N, S \subseteq Keys, Holds(S, N)
             PROVE  Order = N /\ (Cardinality(S) <= Capacity => Listed)
  BY DEF HeldIsShown
<1>1. S = DOMAIN map /\ Size = Cardinality(S) /\ Size \in Nat
  BY SizeOfKeys DEF Holds, Size
<1>2. PICK f : Threads(f, Size, DOMAIN map, List) /\ Newer(f, Size) = N
  BY <1>1 DEF Holds
<1>3. \A i \in 1 .. Size : Walk[i] = f[i]
  BY <1>1, <1>2, WalkFollows
<1>4. Order = Newer(Walk, Size)
  BY DEF Order, Newer
<1>5. \A p : p \in Newer(Walk, Size) <=> p \in Newer(f, Size)
  BY <1>1, <1>3, NewerPairs
<1>6. Order = N
  BY <1>2, <1>4, <1>5
<1>7. f \in [0 .. Size + 1 -> Nodes] /\ List \in Lists
  BY <1>2 DEF Threads, Numbering, Holds
<1> QED
  BY <1>1, <1>2, <1>6, <1>7 DEF Listed

LEMMA ListedHolds ==
  ASSUME Listed
  PROVE  \E f : /\ Threads(f, Size, DOMAIN map, List)
                /\ Order = Newer(f, Size)
<1>1. PICK f : Threads(f, Size, DOMAIN map, List)
  BY DEF Listed
<1>2. Holds(DOMAIN map, Newer(f, Size))
  BY <1>1 DEF Holds, Size, Listed
<1>3. Order = Newer(f, Size)
  BY <1>2, Shown DEF HeldIsShown, Listed
<1> QED
  BY <1>1, <1>3

-----------------------------------------------------------------------------
(* What the operations do to the list.                                     *)

\* Once the surgery has made a list that threads S, the next state shows it.
LEMMA Relinked ==
  ASSUME NEW S, NEW N, NEW f, NEW n \in Nat, NEW l \in Lists, S \subseteq Keys,
         Threads(f, n, S, l), n = Cardinality(S), Newer(f, n) = N,
         List' = l, DOMAIN map' = S, n <= Capacity
  PROVE  Listed' /\ Order' = N /\ Size' = n
<1>1. Holds(S, N)'
  BY DEF Holds
<1>2. HeldIsShown'
  BY Shown, PTL
<1> QED
  BY <1>1, <1>2 DEF HeldIsShown, Size

LEMMA ListIsRelinked ==
  /\ \A k : Relink(Discard(List, k)) => List' = Discard(List, k)
  /\ \A k : Relink(MoveToHead(List, k)) => List' = MoveToHead(List, k)
  /\ \A k : Relink(InsertAtHead(List, k)) => List' = InsertAtHead(List, k)
  /\ \A k, v : Relink(InsertAtHead(Discard(List, v), k)) =>
                 List' = InsertAtHead(Discard(List, v), k)
BY DEF Relink, List, Discard, MoveToHead, InsertAtHead

LEMMA Removing ==
  ASSUME Listed, NEW k \in DOMAIN map, Relink(Discard(List, k)),
         DOMAIN map' = DOMAIN map \ {k}
  PROVE  Listed' /\ Order' = Without(Order, k) /\ Size' = Size - 1
<1>1. PICK f : Threads(f, Size, DOMAIN map, List) /\ Order = Newer(f, Size)
  BY ListedHolds
<1> PICK n, S : n = Size /\ S = DOMAIN map
  OBVIOUS
<1>2. n \in Nat /\ n = Cardinality(S) /\ IsFiniteSet(S) /\ n <= Capacity /\ S \subseteq Keys
  BY SizeOfKeys DEF Size, Listed
<1>3. Numbering(f, n, S) /\ Threads(f, n, S, List) /\ List \in Lists
  BY <1>1 DEF Threads, Listed
<1>4. PICK j \in 1 .. n : k = f[j]
  BY <1>2, <1>3, NumberingKeys
<1>5. /\ Threads(Dropped(f, n, j), n - 1, S \ {k}, Discard(List, k))
      /\ Discard(List, k) \in Lists
  BY <1>2, <1>3, <1>4, DetachThreads
<1>6. Newer(Dropped(f, n, j), n - 1) = Without(Order, k)
  BY <1>1, <1>2, <1>3, <1>4, DroppedNewer
<1>7. n - 1 = Cardinality(S \ {k}) /\ n - 1 \in Nat /\ n - 1 <= Capacity
  BY <1>2, <1>4, FS_RemoveElement
<1> QED
  BY <1>2, <1>5, <1>6, <1>7, Relinked, ListIsRelinked

LEMMA Promoting ==
  ASSUME Listed, NEW k \in DOMAIN map, Relink(MoveToHead(List, k)),
         DOMAIN map' = DOMAIN map
  PROVE  /\ Listed' /\ Size' = Size
         /\ Order' = Without(Order, k) \cup {<<k, x>> : x \in DOMAIN map \ {k}}
<1>1. PICK f : Threads(f, Size, DOMAIN map, List) /\ Order = Newer(f, Size)
  BY ListedHolds
<1> PICK n, S : n = Size /\ S = DOMAIN map
  OBVIOUS
<1>2. n \in Nat /\ n = Cardinality(S) /\ IsFiniteSet(S) /\ n <= Capacity /\ S \subseteq Keys
  BY SizeOfKeys DEF Size, Listed
<1>3. Numbering(f, n, S) /\ Threads(f, n, S, List) /\ List \in Lists
  BY <1>1 DEF Threads, Listed
<1>4. PICK j \in 1 .. n : k = f[j]
  BY <1>2, <1>3, NumberingKeys
<1> PICK g, l : g = Dropped(f, n, j) /\ l = Detach(List, k)
  OBVIOUS
<1>5. Threads(g, n - 1, S \ {k}, l) /\ l \in Lists /\ Numbering(g, n - 1, S \ {k})
  BY <1>2, <1>3, <1>4, DetachThreads DEF Threads
<1>6. Newer(g, n - 1) = Without(Order, k)
  BY <1>1, <1>2, <1>3, <1>4, DroppedNewer
<1>7. /\ (n - 1) + 1 = n /\ n - 1 \in Nat
      /\ (S \ {k}) \cup {k} = S /\ k \in Keys \ (S \ {k})
  <2>1. n >= 1
    BY <1>2, <1>4
  <2>2. k \in S /\ k \in Keys
    BY <1>2
  <2>3. (n - 1) + 1 = n /\ n - 1 \in Nat
    BY <1>2, <2>1
  <2>4. (S \ {k}) \cup {k} = S
    BY <2>2, Zenon
  <2>5. k \in Keys \ (S \ {k})
    BY <2>2, Zenon
  <2> QED
    BY <2>3, <2>4, <2>5
<1>8. Threads(Pushed(g, n - 1, k), n, S, InsertAtHead(l, k)) /\ InsertAtHead(l, k) \in Lists
  BY <1>5, <1>7, InsertThreads
<1>9. Newer(Pushed(g, n - 1, k), n) = Without(Order, k) \cup {<<k, x>> : x \in S \ {k}}
  BY <1>5, <1>6, <1>7, PushedNewer
<1>10. List' = InsertAtHead(l, k)
  BY ListIsRelinked DEF MoveToHead
<1> QED
  BY <1>2, <1>8, <1>9, <1>10, Relinked

LEMMA Inserting ==
  ASSUME Listed, NEW k \in Keys \ DOMAIN map, Size < Capacity,
         Relink(InsertAtHead(List, k)), DOMAIN map' = DOMAIN map \cup {k}
  PROVE  /\ Listed' /\ Size' = Size + 1
         /\ Order' = Order \cup {<<k, x>> : x \in DOMAIN map}
<1>1. PICK f : Threads(f, Size, DOMAIN map, List) /\ Order = Newer(f, Size)
  BY ListedHolds
<1> PICK n, S : n = Size /\ S = DOMAIN map
  OBVIOUS
<1>2. n \in Nat /\ n = Cardinality(S) /\ IsFiniteSet(S) /\ n < Capacity /\ S \subseteq Keys
  BY SizeOfKeys DEF Size, Listed
<1>3. Numbering(f, n, S) /\ Threads(f, n, S, List) /\ List \in Lists
  BY <1>1 DEF Threads, Listed
<1>4. /\ Threads(Pushed(f, n, k), n + 1, S \cup {k}, InsertAtHead(List, k))
      /\ InsertAtHead(List, k) \in Lists
  BY <1>2, <1>3, InsertThreads
<1>5. Newer(Pushed(f, n, k), n + 1) = Order \cup {<<k, x>> : x \in S}
  BY <1>1, <1>2, <1>3, PushedNewer
<1>6. /\ n + 1 = Cardinality(S \cup {k}) /\ n + 1 \in Nat /\ n + 1 <= Capacity
      /\ S \cup {k} \subseteq Keys
  BY <1>2, FS_AddElement
<1>7. List' = InsertAtHead(List, k)
  BY ListIsRelinked
<1> QED
  BY <1>4, <1>5, <1>6, <1>7, Relinked

\* The node before Tail is the one every other key was used after.
LEMMA VictimIsOldest ==
  ASSUME Listed, DOMAIN map # {}
  PROVE  /\ prev[Tail] \in DOMAIN map
         /\ \A x \in DOMAIN map \ {prev[Tail]} :
              <<x, prev[Tail]>> \in Order /\ <<prev[Tail], x>> \notin Order
<1>1. PICK f : Threads(f, Size, DOMAIN map, List) /\ Order = Newer(f, Size)
  BY ListedHolds
<1> PICK n, S, v : n = Size /\ S = DOMAIN map /\ v = prev[Tail]
  OBVIOUS
<1>2. n \in Nat /\ n = Cardinality(S) /\ IsFiniteSet(S) /\ n # 0
  BY SizeOfKeys, FS_EmptySet DEF Size, Listed
<1>3. Numbering(f, n, S) /\ Linked(f, n, List)
  BY <1>1 DEF Threads
<1>4. v = f[n] /\ n \in 1 .. n /\ n \in 0 .. n + 1
  <2>1. n \in 0 .. n /\ n \in 1 .. n /\ n \in 0 .. n + 1
    BY <1>2
  <2>2. f[n + 1] = Tail /\ List.prev[f[n + 1]] = f[n]
    BY <1>3, <2>1 DEF Numbering, Linked
  <2> QED
    BY <2>1, <2>2 DEF List
<1>5. v \in S
  BY <1>2, <1>3, <1>4, NumberingKeys
<1>6. ASSUME NEW x \in S \ {v}
      PROVE  <<x, v>> \in Order /\ <<v, x>> \notin Order
  <2>1. PICK i \in 1 .. n : x = f[i]
    BY <1>2, <1>3, NumberingKeys
  <2>2. i < n
    BY <1>4, <2>1
  <2>3. <<x, v>> \in Order
    BY <1>1, <1>2, <1>4, <2>1, <2>2, NewerPairs
  <2>4. ASSUME NEW a \in 1 .. n, NEW b \in 1 .. n, a < b, <<v, x>> = <<f[a], f[b]>>
        PROVE  FALSE
    <3>1. f[a] = f[n] /\ a \in 0 .. n + 1
      BY <1>4, <2>4
    <3>2. a = n
      BY <1>3, <1>4, <3>1 DEF Numbering
    <3> QED
      BY <2>4, <3>2
  <2>5. <<v, x>> \notin Order
    BY <1>1, <1>2, <2>4, NewerPairs
  <2> QED
    BY <2>3, <2>5
<1> QED
  BY <1>5, <1>6

LEMMA Evicting ==
  ASSUME Listed, NEW k \in Keys \ DOMAIN map, Size >= Capacity, NEW v, v = prev[Tail],
         Relink(InsertAtHead(Discard(List, v), k)), DOMAIN map' = (DOMAIN map \ {v}) \cup {k}
  PROVE  /\ Listed' /\ Size' = Size
         /\ Order' = Without(Order, v) \cup {<<k, x>> : x \in DOMAIN map \ {v}}
<1>1. PICK f : Threads(f, Size, DOMAIN map, List) /\ Order = Newer(f, Size)
  BY ListedHolds
<1> PICK n, S : n = Size /\ S = DOMAIN map
  OBVIOUS
<1>2. n \in Nat /\ n = Cardinality(S) /\ IsFiniteSet(S) /\ n = Capacity /\ S \subseteq Keys
  BY SizeOfKeys DEF Size, Listed
<1>3. Numbering(f, n, S) /\ Threads(f, n, S, List) /\ List \in Lists
  BY <1>1 DEF Threads, Listed
<1>4. v \in S
  BY <1>2, VictimIsOldest, FS_EmptySet
<1>5. PICK j \in 1 .. n : v = f[j]
  BY <1>2, <1>3, <1>4, NumberingKeys
<1> PICK g, l : g = Dropped(f, n, j) /\ l = Discard(List, v)
  OBVIOUS
<1>6. Threads(g, n - 1, S \ {v}, l) /\ l \in Lists /\ Numbering(g, n - 1, S \ {v})
  BY <1>2, <1>3, <1>5, DetachThreads DEF Threads
<1>7. Newer(g, n - 1) = Without(Order, v)
  BY <1>1, <1>2, <1>3, <1>5, DroppedNewer
<1> PICK T : T = S \ {v}
  OBVIOUS
<1>8. (n - 1) + 1 = n /\ n - 1 \in Nat /\ k \in Keys \ T /\ k \notin T
  <2>1. n >= 1
    BY <1>2, <1>5
  <2>2. k \notin T /\ k \in Keys
    OBVIOUS
  <2> QED
    BY <1>2, <2>1, <2>2
<1>9. /\ Threads(Pushed(g, n - 1, k), n, T \cup {k}, InsertAtHead(l, k))
      /\ InsertAtHead(l, k) \in Lists
  <2>1. Threads(g, n - 1, T, l) /\ l \in Lists
    BY <1>6
  <2> QED
    BY <1>8, <2>1, InsertThreads
<1>10. Newer(Pushed(g, n - 1, k), n) = Without(Order, v) \cup {<<k, x>> : x \in T}
  BY <1>6, <1>7, <1>8, PushedNewer
<1>11. n = Cardinality(T \cup {k}) /\ T \cup {k} \subseteq Keys
  <2>1. IsFiniteSet(S \ {v}) /\ Cardinality(S \ {v}) = n - 1
    <3>1. IsFiniteSet(S) /\ Cardinality(S) = n
      BY <1>2
    <3> QED
      BY <1>4, <3>1, FS_RemoveElement
  <2>2. Cardinality(T \cup {k}) = (n - 1) + 1
    <3>1. IsFiniteSet(T) /\ Cardinality(T) = n - 1
      BY <2>1
    <3>2. Cardinality(T \cup {k}) = IF k \in T THEN Cardinality(T) ELSE Cardinality(T) + 1
      BY <3>1, FS_AddElement, Zenon
    <3> QED
      BY <1>8, <3>1, <3>2
  <2>3. T \cup {k} \subseteq Keys
    BY <1>2
  <2> QED
    BY <1>8, <2>2, <2>3
<1>12. List' = InsertAtHead(l, k)
  BY ListIsRelinked
<1>13. DOMAIN map' = T \cup {k}
  OBVIOUS
<1>14. Listed' /\ Size' = n /\ Order' = Without(Order, v) \cup {<<k, x>> : x \in T}
  <2> PICK h, q, U : h = Pushed(g, n - 1, k) /\ q = InsertAtHead(l, k) /\ U = T \cup {k}
    OBVIOUS
  <2>1. /\ Threads(h, n, U, q) /\ q \in Lists /\ U \subseteq Keys /\ n = Cardinality(U)
        /\ List' = q /\ DOMAIN map' = U /\ n <= Capacity /\ n \in Nat
        /\ Newer(h, n) = Without(Order, v) \cup {<<k, x>> : x \in T}
    BY <1>2, <1>9, <1>10, <1>11, <1>12, <1>13
  <2> QED
    BY <2>1, Relinked
<1> QED
  BY <1>14

Emptied ==
  /\ DOMAIN map = {}
  /\ next = [[n \in Nodes |-> Null] EXCEPT ![Head] = Tail]
  /\ prev = [[n \in Nodes |-> Null] EXCEPT ![Tail] = Head]

EmptiedIsShown == Emptied => Listed /\ Size = 0 /\ Order = {}

LEMMA Emptying == EmptiedIsShown
<1> SUFFICES ASSUME Emptied PROVE Listed /\ Size = 0 /\ Order = {}
  BY DEF EmptiedIsShown
<1>1. Head \in Nodes /\ Tail \in Nodes
  BY DEF Nodes
<1>2. List \in Lists /\ next[Head] = Tail /\ prev[Tail] = Head
  BY <1>1 DEF Emptied, List, Lists
<1>3. PICK f : f = [i \in 0 .. 1 |-> IF i = 0 THEN Head ELSE Tail]
  OBVIOUS
<1>4. /\ f \in [0 .. 0 + 1 -> Nodes] /\ f[0] = Head /\ f[1] = Tail /\ 0 + 1 = 1
      /\ \A i, j \in 0 .. 1 : f[i] = f[j] => i = j
  BY <1>1, <1>3
<1>5. {} = {f[i] : i \in 1 .. 0}
  OBVIOUS
<1>6. Threads(f, 0, {}, List)
  <2>1. Numbering(f, 0, {})
    BY <1>4, <1>5 DEF Numbering
  <2>2. ASSUME NEW i \in 0 .. 0
        PROVE  next[f[i]] = f[i + 1] /\ prev[f[i + 1]] = f[i]
    BY <1>2, <1>4
  <2> QED
    BY <2>1, <2>2 DEF Threads, Linked, List
<1>7. Cardinality({}) = 0
  BY FS_EmptySet
<1>8. Newer(f, 0) = {}
  BY NewerPairs
<1>9. Holds({}, {})
  BY <1>2, <1>6, <1>7, <1>8 DEF Holds, Emptied
<1>10. Order = {} /\ Listed
  BY <1>7, <1>9, Shown DEF HeldIsShown
<1> QED
  BY <1>7, <1>10 DEF Size, Emptied

-----------------------------------------------------------------------------
(* The invariant is kept.                                                  *)

LEMMA MapKeys ==
  /\ \A k : DOMAIN MapWithout(k) = DOMAIN map \ {k}
  /\ \A m, k, e : DOMAIN MapWith(m, k, e) = DOMAIN m \cup {k}
BY DEF MapWithout, MapWith

\* What a step does to the keys: how many more there are, and which are new.
Keeps == Listed' /\ Size' = Size /\ DOMAIN map' \ DOMAIN map = {}
Loses == Listed' /\ Size' = Size - 1 /\ DOMAIN map' \ DOMAIN map = {}
Gains(k) == Listed' /\ Size' = Size + 1 /\ DOMAIN map' \ DOMAIN map = {k}
Swaps(k) == Listed' /\ Size' = Size /\ DOMAIN map' \ DOMAIN map = {k}

LEMMA Unmoved ==
  ASSUME Listed, map' = map, next' = next, prev' = prev
  PROVE  Keeps /\ Order' = Order
<1>1. Size' = Size /\ Order' = Order
  BY DEF Size, Order, Walk
<1>2. Listed'
  BY DEF Listed, Size, List
<1> QED
  BY <1>1, <1>2 DEF Keeps

\* The order after k has been used.
After(N, k) == N \cup {<<k, x>> : x \in DOMAIN map \ {k}}

GetMisses(k) ==
  /\ k \notin DOMAIN map
  /\ Keeps /\ map' = map /\ Order' = Order
  /\ stats' = [stats EXCEPT !.misses = @ + 1] /\ answer' = Null

GetExpires(k) ==
  /\ k \in DOMAIN map /\ Expired(k)
  /\ Loses /\ map' = MapWithout(k) /\ Order' = Without(Order, k)
  /\ stats' = [stats EXCEPT !.expirations = @ + 1, !.misses = @ + 1] /\ answer' = Null

GetHits(k) ==
  /\ k \in DOMAIN map /\ ~Expired(k)
  /\ Keeps /\ map' = map /\ Order' = After(Without(Order, k), k)
  /\ stats' = [stats EXCEPT !.hits = @ + 1] /\ answer' = map[k].value

LEMMA GetOutcomes ==
  ASSUME Listed, NEW k \in Keys, Get(k)
  PROVE  GetMisses(k) \/ GetExpires(k) \/ GetHits(k)
<1>1. CASE /\ k \notin DOMAIN map
           /\ stats' = [stats EXCEPT !.misses = @ + 1] /\ answer' = Null
           /\ UNCHANGED <<map, next, prev>>
  <2>1. map' = map /\ next' = next /\ prev' = prev
    BY <1>1
  <2>2. Keeps /\ Order' = Order
    BY <2>1, Unmoved
  <2> QED
    BY <1>1, <2>1, <2>2 DEF GetMisses
<1>2. CASE /\ k \in DOMAIN map /\ Expired(k)
           /\ Relink(Discard(List, k))
           /\ map' = MapWithout(k)
           /\ stats' = [stats EXCEPT !.expirations = @ + 1, !.misses = @ + 1]
           /\ answer' = Null
  <2>1. DOMAIN map' = DOMAIN map \ {k}
    BY <1>2, MapKeys
  <2>2. Listed' /\ Order' = Without(Order, k) /\ Size' = Size - 1
    BY <1>2, <2>1, Removing
  <2>3. Loses
    BY <2>1, <2>2 DEF Loses
  <2> QED
    BY <1>2, <2>2, <2>3 DEF GetExpires
<1>3. CASE /\ k \in DOMAIN map /\ ~Expired(k)
           /\ Relink(MoveToHead(List, k))
           /\ stats' = [stats EXCEPT !.hits = @ + 1]
           /\ answer' = map[k].value
           /\ map' = map
  <2>1. DOMAIN map' = DOMAIN map
    BY <1>3
  <2>2. Listed' /\ Size' = Size /\ Order' = After(Without(Order, k), k)
    BY <1>3, <2>1, Promoting DEF After
  <2>3. Keeps
    BY <2>1, <2>2 DEF Keeps
  <2> QED
    BY <1>3, <2>2, <2>3 DEF GetHits
<1> QED
  BY <1>1, <1>2, <1>3 DEF Get

PutUpdates(k, e) ==
  /\ k \in DOMAIN map
  /\ Keeps /\ map' = MapWith(map, k, e) /\ Order' = After(Without(Order, k), k)
  /\ stats' = stats

PutInserts(k, e) ==
  /\ k \notin DOMAIN map /\ Size < Capacity
  /\ Gains(k) /\ map' = MapWith(map, k, e) /\ Order' = After(Order, k)
  /\ stats' = stats

PutEvicts(k, e) ==
  /\ k \notin DOMAIN map /\ Size >= Capacity
  /\ Swaps(k) /\ map' = MapWith(MapWithout(prev[Tail]), k, e)
  /\ Order' = Without(Order, prev[Tail])
                \cup {<<k, x>> : x \in DOMAIN map \ {prev[Tail]}}
  /\ stats' = [stats EXCEPT !.evictions = @ + 1]

LEMMA OverwriteOutcome ==
  ASSUME Listed, NEW k \in Keys, NEW e, Overwrite(k, e)
  PROVE  PutUpdates(k, e)
<1>1. /\ k \in DOMAIN map /\ map' = MapWith(map, k, e) /\ Relink(MoveToHead(List, k))
      /\ stats' = stats
  BY DEF Overwrite
<1>2. DOMAIN map' = DOMAIN map \cup {k}
  BY <1>1, MapKeys
<1>3. DOMAIN map' = DOMAIN map
  BY <1>1, <1>2
<1>4. Listed' /\ Size' = Size /\ Order' = After(Without(Order, k), k)
  BY <1>1, <1>3, Promoting DEF After
<1>5. Keeps
  BY <1>3, <1>4 DEF Keeps
<1> QED
  BY <1>1, <1>4, <1>5 DEF PutUpdates

LEMMA InsertOutcome ==
  ASSUME Listed, NEW k \in Keys, NEW e, Insert(k, e)
  PROVE  PutInserts(k, e)
<1>1. /\ k \notin DOMAIN map /\ Size < Capacity /\ map' = MapWith(map, k, e)
      /\ Relink(InsertAtHead(List, k)) /\ stats' = stats
  BY DEF Insert, Size
<1>2. DOMAIN map' = DOMAIN map \cup {k}
  BY <1>1, MapKeys
<1>3. k \in Keys \ DOMAIN map
  BY <1>1
<1>4. /\ Listed' /\ Size' = Size + 1
      /\ Order' = Order \cup {<<k, x>> : x \in DOMAIN map}
  BY <1>1, <1>2, <1>3, Inserting
<1>5. DOMAIN map \ {k} = DOMAIN map
  BY <1>1
<1>6. DOMAIN map' \ DOMAIN map = {k}
  BY <1>2, <1>3
<1> QED
  BY <1>1, <1>4, <1>5, <1>6 DEF PutInserts, Gains, After

LEMMA EvictOutcome ==
  ASSUME Listed, NEW k \in Keys, NEW e, EvictAndInsert(k, e)
  PROVE  PutEvicts(k, e)
<1>1. PICK v : v = prev[Tail]
  OBVIOUS
<1>2. /\ k \notin DOMAIN map /\ Size >= Capacity /\ map' = MapWith(MapWithout(v), k, e)
      /\ Relink(InsertAtHead(Discard(List, v), k))
      /\ stats' = [stats EXCEPT !.evictions = @ + 1]
  BY <1>1 DEF EvictAndInsert, Size
<1>3. DOMAIN map' = (DOMAIN map \ {v}) \cup {k}
  BY <1>2, MapKeys
<1>4. k \in Keys \ DOMAIN map
  BY <1>2
<1>5. /\ Listed' /\ Size' = Size
      /\ Order' = Without(Order, v) \cup {<<k, x>> : x \in DOMAIN map \ {v}}
  BY <1>1, <1>2, <1>3, <1>4, Evicting
<1>6. DOMAIN map' \ DOMAIN map = {k}
  BY <1>3, <1>4
<1> QED
  BY <1>1, <1>2, <1>5, <1>6 DEF PutEvicts, Swaps

PutEntry(ttl) ==
  [value |-> ops', expiresAt |-> IF ttl > 0 THEN now + ttl ELSE R!Infinity]

LEMMA PutOutcomes ==
  ASSUME Listed, NEW k \in Keys, NEW ttl \in Ttls, Put(k, ttl)
  PROVE  \E e : /\ e = PutEntry(ttl)
                /\ PutUpdates(k, e) \/ PutInserts(k, e) \/ PutEvicts(k, e)
<1>1. PICK e : e = PutEntry(ttl)
  OBVIOUS
<1>2. Overwrite(k, e) \/ Insert(k, e) \/ EvictAndInsert(k, e)
  BY <1>1 DEF Put, PutEntry
<1> QED
  BY <1>1, <1>2, OverwriteOutcome, InsertOutcome, EvictOutcome

LEMMA DeleteOutcome ==
  ASSUME Listed, NEW k \in Keys, Delete(k)
  PROVE  Loses /\ Order' = Without(Order, k)
<1>1. k \in DOMAIN map /\ Relink(Discard(List, k)) /\ map' = MapWithout(k)
  BY DEF Delete
<1>2. DOMAIN map' = DOMAIN map \ {k}
  BY <1>1, MapKeys
<1>3. Listed' /\ Order' = Without(Order, k) /\ Size' = Size - 1
  BY <1>1, <1>2, Removing
<1> QED
  BY <1>2, <1>3 DEF Loses

LEMMA ClearOutcome ==
  ASSUME Clear
  PROVE  Listed' /\ Size' = 0 /\ Order' = {} /\ DOMAIN map' = {}
<1>1. Emptied'
  BY DEF Clear, Emptied
<1>2. EmptiedIsShown'
  BY Emptying, PTL
<1> QED
  BY <1>1, <1>2 DEF EmptiedIsShown, Emptied

-----------------------------------------------------------------------------
(* The invariant holds of every state.                                     *)

LEMMA InitInv == Init => LRUInv
<1> SUFFICES ASSUME Init PROVE LRUInv
  OBVIOUS
<1>1. Emptied
  BY DEF Init, Emptied
<1>2. Listed
  BY <1>1, Emptying DEF EmptiedIsShown
<1>3. Counters
  BY DEF Init, Counters
<1> QED
  BY <1>2, <1>3 DEF LRUInv

LEMMA NextListed ==
  ASSUME Listed, [Next]_vars
  PROVE  Listed'
<1>1. ASSUME NEW k \in Keys, Get(k) PROVE Listed'
  BY <1>1, GetOutcomes DEF GetMisses, GetExpires, GetHits, Keeps, Loses
<1>2. ASSUME NEW k \in Keys, NEW ttl \in Ttls, Put(k, ttl) PROVE Listed'
  BY <1>2, PutOutcomes DEF PutUpdates, PutInserts, PutEvicts, Keeps, Gains, Swaps
<1>3. ASSUME NEW k \in Keys, Delete(k) PROVE Listed'
  BY <1>3, DeleteOutcome DEF Loses
<1>4. ASSUME Clear PROVE Listed'
  BY <1>4, ClearOutcome
<1>5. ASSUME Tick \/ UNCHANGED vars PROVE Listed'
  <2>1. map' = map /\ next' = next /\ prev' = prev
    BY <1>5 DEF Tick, vars
  <2> QED
    BY <2>1, Unmoved DEF Keeps
<1> QED
  BY <1>1, <1>2, <1>3, <1>4, <1>5 DEF Next

LEMMA NextCounters ==
  ASSUME LRUInv, [Next]_vars
  PROVE  Counters'
<1>1. /\ ops \in 0 .. MaxOps /\ removals \in Nat /\ Size \in Nat /\ MaxOps \in Nat
      /\ stats \in [hits : Nat, misses : Nat, evictions : Nat, expirations : Nat]
  BY SizeOfKeys DEF LRUInv, Counters, Listed, Size
<1>2. ASSUME NEW k \in Keys, Get(k) PROVE Counters'
  <2>1. ops' \in 0 .. MaxOps /\ removals' \in Nat
    BY <1>1, <1>2 DEF Get
  <2>2. \/ stats' = [stats EXCEPT !.misses = @ + 1]
        \/ stats' = [stats EXCEPT !.expirations = @ + 1, !.misses = @ + 1]
        \/ stats' = [stats EXCEPT !.hits = @ + 1]
    BY <1>2 DEF Get
  <2>3. stats' \in [hits : Nat, misses : Nat, evictions : Nat, expirations : Nat]
    <3>1. CASE stats' = [stats EXCEPT !.misses = @ + 1]
      BY <1>1, <3>1
    <3>2. CASE stats' = [stats EXCEPT !.expirations = @ + 1, !.misses = @ + 1]
      <4>1. [stats EXCEPT !.expirations = @ + 1]
              \in [hits : Nat, misses : Nat, evictions : Nat, expirations : Nat]
        BY <1>1
      <4>2. \A s \in [hits : Nat, misses : Nat, evictions : Nat, expirations : Nat] :
              [s EXCEPT !.misses = @ + 1]
                \in [hits : Nat, misses : Nat, evictions : Nat, expirations : Nat]
        OBVIOUS
      <4>3. stats' = [[stats EXCEPT !.expirations = @ + 1] EXCEPT !.misses = @ + 1]
        BY <3>2
      <4> QED
        BY <4>1, <4>2, <4>3
    <3>3. CASE stats' = [stats EXCEPT !.hits = @ + 1]
      BY <1>1, <3>3
    <3> QED
      BY <2>2, <3>1, <3>2, <3>3
  <2> QED
    BY <2>1, <2>3 DEF Counters
<1>3. ASSUME NEW k \in Keys, NEW ttl \in Ttls, Put(k, ttl) PROVE Counters'
  BY <1>1, <1>3 DEF Put, Overwrite, Insert, EvictAndInsert, Counters
<1>4. ASSUME NEW k \in Keys, Delete(k) PROVE Counters'
  BY <1>1, <1>4 DEF Delete, Counters
<1>5. ASSUME Clear PROVE Counters'
  BY <1>1, <1>5 DEF Clear, Size, Counters
<1>6. ASSUME Tick \/ UNCHANGED vars PROVE Counters'
  BY <1>1, <1>6 DEF Tick, vars, history, Counters
<1> QED
  BY <1>2, <1>3, <1>4, <1>5, <1>6 DEF Next

LEMMA Inductive == Spec => []LRUInv
<1>1. LRUInv /\ [Next]_vars => LRUInv'
  BY NextListed, NextCounters DEF LRUInv
<1> QED
  BY InitInv, <1>1, PTL DEF Spec

\* After any gets, puts, deletes, clears and expiries the list from head to
\* tail of cache/LRUCache.js holds the keys of its map once each, prev undoes
\* next, and there are never more than the capacity.
THEOREM PointersThreadTheMap == Spec => []ListIsMap
<1>1. LRUInv => ListIsMap
  <2> SUFFICES ASSUME Listed PROVE ListIsMap
    BY DEF LRUInv
  <2>1. PICK f : Threads(f, Size, DOMAIN map, List)
    BY DEF Listed
  <2>2. Size \in Nat /\ Size <= Capacity
    BY SizeOfKeys DEF Listed, Size
  <2>3. \A i \in 0 .. Size + 1 : Walk[i] = f[i]
    BY <2>1, WalkFollows DEF Listed
  <2>4. Numbering(f, Size, DOMAIN map) /\ Linked(f, Size, List)
    BY <2>1 DEF Threads
  <2>5. Walk[Size + 1] = Tail
    BY <2>2, <2>3, <2>4 DEF Numbering
  <2>6. {Walk[i] : i \in 1 .. Size} = DOMAIN map
    BY <2>2, <2>3, <2>4 DEF Numbering
  <2>7. ASSUME NEW i \in 1 .. Size + 1
        PROVE  prev[Walk[i]] = Walk[i - 1]
    <3>1. i - 1 \in 0 .. Size /\ (i - 1) + 1 = i /\ i \in 0 .. Size + 1 /\ i - 1 \in 0 .. Size + 1
      BY <2>2
    <3>2. List.prev[f[(i - 1) + 1]] = f[i - 1]
      BY <2>4, <3>1 DEF Linked
    <3> QED
      BY <2>3, <3>1, <3>2 DEF List
  <2> QED
    BY <2>2, <2>5, <2>6, <2>7 DEF ListIsMap
<1> QED
  BY <1>1, Inductive, PTL

-----------------------------------------------------------------------------
(* The counters account for every key that came in.                        *)

Gone == stats.evictions + stats.expirations + removals

New == Cardinality(DOMAIN map' \ DOMAIN map)

LEMMA NewKeys ==
  /\ Keeps => New = 0 /\ Size' = Size
  /\ Loses => New = 0 /\ Size' = Size - 1
  /\ \A k : Gains(k) => New = 1 /\ Size' = Size + 1
  /\ \A k : Swaps(k) => New = 1 /\ Size' = Size
<1>1. ASSUME DOMAIN map' \ DOMAIN map = {} PROVE New = 0
  BY <1>1, FS_EmptySet, Zenon DEF New
<1>2. ASSUME NEW k, DOMAIN map' \ DOMAIN map = {k} PROVE New = 1
  BY <1>2, FS_Singleton, Zenon DEF New
<1> QED
  BY <1>1, <1>2 DEF Keeps, Loses, Gains, Swaps

LEMMA StepBalanced ==
  ASSUME LRUInv, Next
  PROVE  Gone' + Size' - (Gone + Size) = New
<1>1. /\ removals \in Nat /\ Size \in Nat /\ Listed /\ Gone \in Nat
      /\ stats \in [hits : Nat, misses : Nat, evictions : Nat, expirations : Nat]
  BY SizeOfKeys DEF LRUInv, Counters, Listed, Size, Gone
<1>2. ASSUME NEW k \in Keys, Get(k)
      PROVE  Gone' + Size' - (Gone + Size) = New
  <2>1. removals' = removals
    BY <1>2 DEF Get
  <2>2. CASE GetMisses(k) \/ GetHits(k)
    <3>1. Gone' = Gone
      BY <1>1, <2>1, <2>2 DEF GetMisses, GetHits, Gone
    <3>2. New = 0 /\ Size' = Size
      BY <2>2, NewKeys DEF GetMisses, GetHits
    <3> QED
      BY <1>1, <3>1, <3>2
  <2>3. CASE GetExpires(k)
    <3>1. Gone' = Gone + 1
      BY <1>1, <2>1, <2>3 DEF GetExpires, Gone
    <3>2. New = 0 /\ Size' = Size - 1
      BY <2>3, NewKeys DEF GetExpires
    <3> QED
      BY <1>1, <3>1, <3>2
  <2> QED
    BY <1>1, <1>2, <2>2, <2>3, GetOutcomes
<1>3. ASSUME NEW k \in Keys, NEW ttl \in Ttls, Put(k, ttl)
      PROVE  Gone' + Size' - (Gone + Size) = New
  <2>1. removals' = removals
    BY <1>3 DEF Put
  <2>2. PICK e : PutUpdates(k, e) \/ PutInserts(k, e) \/ PutEvicts(k, e)
    BY <1>1, <1>3, PutOutcomes
  <2>3. CASE PutUpdates(k, e)
    <3>1. Gone' = Gone
      BY <2>1, <2>3 DEF PutUpdates, Gone
    <3>2. New = 0 /\ Size' = Size
      BY <2>3, NewKeys DEF PutUpdates
    <3> QED
      BY <1>1, <3>1, <3>2
  <2>4. CASE PutInserts(k, e)
    <3>1. Gone' = Gone
      BY <2>1, <2>4 DEF PutInserts, Gone
    <3>2. New = 1 /\ Size' = Size + 1
      BY <2>4, NewKeys DEF PutInserts
    <3> QED
      BY <1>1, <3>1, <3>2
  <2>5. CASE PutEvicts(k, e)
    <3>1. Gone' = Gone + 1
      BY <1>1, <2>1, <2>5 DEF PutEvicts, Gone
    <3>2. New = 1 /\ Size' = Size
      BY <2>5, NewKeys DEF PutEvicts
    <3> QED
      BY <1>1, <3>1, <3>2
  <2> QED
    BY <2>2, <2>3, <2>4, <2>5
<1>4. ASSUME NEW k \in Keys, Delete(k)
      PROVE  Gone' + Size' - (Gone + Size) = New
  <2>1. removals' = removals + 1 /\ stats' = stats
    BY <1>4 DEF Delete
  <2>2. Gone' = Gone + 1
    BY <1>1, <2>1 DEF Gone
  <2>3. New = 0 /\ Size' = Size - 1
    BY <1>1, <1>4, DeleteOutcome, NewKeys
  <2> QED
    BY <1>1, <2>2, <2>3
<1>5. ASSUME Clear
      PROVE  Gone' + Size' - (Gone + Size) = New
  <2>1. removals' = removals + Size /\ stats' = stats
    BY <1>5 DEF Clear, Size
  <2>2. Gone' = Gone + Size
    BY <1>1, <2>1 DEF Gone
  <2>3. Size' = 0 /\ DOMAIN map' = {}
    BY <1>5, ClearOutcome
  <2>4. DOMAIN map' \ DOMAIN map = {}
    BY <2>3
  <2>5. New = 0
    BY <2>4, FS_EmptySet, Zenon DEF New
  <2> QED
    BY <1>1, <2>2, <2>3, <2>5
<1>6. ASSUME Tick
      PROVE  Gone' + Size' - (Gone + Size) = New
  <2>1. /\ map' = map /\ next' = next /\ prev' = prev
        /\ stats' = stats /\ removals' = removals
    BY <1>6 DEF Tick, history
  <2>2. Gone' = Gone
    BY <2>1 DEF Gone
  <2>3. New = 0 /\ Size' = Size
    BY <1>1, <2>1, Unmoved, NewKeys
  <2> QED
    BY <1>1, <2>2, <2>3
<1> QED
  BY <1>2, <1>3, <1>4, <1>5, <1>6 DEF Next

\* Whatever was ever put under a new key is still held, or was counted as
\* evicted or expired by cache/LRUCache.js, or was deleted or cleared.
THEOREM EveryEntryIsAccountedFor == Spec => Accounting
<1>1. LRUInv /\ [Next]_vars =>
        [stats'.evictions + stats'.expirations + removals' + Size'
         - (stats.evictions + stats.expirations + removals + Size)
           = Cardinality(DOMAIN map' \ DOMAIN map)]_vars
  BY StepBalanced DEF Gone, New
<1> QED
  BY <1>1, Inductive, PTL DEF Spec, Accounting

-----------------------------------------------------------------------------
(* The list and the map are the cache of LRUPolicy.                        *)

Cached == [entries |-> map, newer |-> Order]

LEMMA OrderIsOnKeys ==
  ASSUME Listed, NEW p \in Order
  PROVE  p[1] \in DOMAIN map /\ p[2] \in DOMAIN map
<1>1. PICK f : Threads(f, Size, DOMAIN map, List) /\ Order = Newer(f, Size)
  BY ListedHolds
<1>2. Size \in Nat /\ Numbering(f, Size, DOMAIN map)
  BY <1>1, SizeOfKeys DEF Listed, Size, Threads
<1>3. PICK i, j \in 1 .. Size : p = <<f[i], f[j]>>
  BY <1>1, <1>2, NewerPairs
<1> QED
  BY <1>2, <1>3, NumberingKeys

LEMMA CachedTouched ==
  ASSUME NEW m, NEW N, NEW k
  PROVE  Policy!Touched([entries |-> m, newer |-> N], k)
           = [entries |-> m, newer |-> Without(N, k) \cup {<<k, x>> : x \in DOMAIN m \ {k}}]
BY DEF Policy!Touched, Policy!Unordered, Policy!Held, Without

LEMMA CachedRemoved ==
  ASSUME NEW m, NEW N, NEW k
  PROVE  Policy!Removed([entries |-> m, newer |-> N], k)
           = [entries |-> [j \in DOMAIN m \ {k} |-> m[j]], newer |-> Without(N, k)]
BY DEF Policy!Removed, Policy!Unordered, Policy!Held, Without

LEMMA CachedStored ==
  ASSUME NEW m, NEW N, NEW k, NEW e
  PROVE  Policy!Stored([entries |-> m, newer |-> N], k, e)
           = [entries |-> MapWith(m, k, e),
              newer |-> Without(N, k) \cup {<<k, x>> : x \in (DOMAIN m \cup {k}) \ {k}}]
<1>1. PICK w : w = MapWith(m, k, e)
  OBVIOUS
<1>2. DOMAIN w = DOMAIN m \cup {k}
  BY <1>1, MapKeys
<1>3. Policy!Stored([entries |-> m, newer |-> N], k, e)
        = Policy!Touched([entries |-> w, newer |-> N], k)
  BY <1>1 DEF Policy!Stored, Policy!Held, MapWith
<1> QED
  BY <1>1, <1>2, <1>3, CachedTouched

LEMMA CachedLooks ==
  ASSUME NEW k
  PROVE  /\ Policy!Hits(Cached, k, now) <=> k \in DOMAIN map /\ ~Expired(k)
         /\ Policy!Expires(Cached, k, now) <=> k \in DOMAIN map /\ Expired(k)
         /\ Policy!Evicts(Cached, k, Capacity) <=> k \notin DOMAIN map /\ Size >= Capacity
         /\ Cached.entries = map
<1>1. Cached.entries = map
  BY DEF Cached
<1>2. Policy!IsExpired(map[k], now) <=> Expired(k)
  BY DEF Policy!IsExpired, Policy!Infinity, R!Infinity, Expired
<1>3. Policy!Hits(Cached, k, now) <=> k \in DOMAIN map /\ ~Expired(k)
  BY <1>1, <1>2 DEF Policy!Hits, Policy!Held
<1>4. Policy!Expires(Cached, k, now) <=> k \in DOMAIN map /\ Expired(k)
  BY <1>1, <1>2 DEF Policy!Expires, Policy!Held
<1>5. Policy!Evicts(Cached, k, Capacity) <=> k \notin DOMAIN map /\ Size >= Capacity
  <2>1. Policy!Held(Cached) = DOMAIN map
    BY <1>1 DEF Policy!Held
  <2>2. Policy!IsFull(Cached, Capacity) <=> Size >= Capacity
    BY <2>1 DEF Policy!IsFull, Size, Policy!Cardinality, Cardinality
  <2> QED
    BY <2>1, <2>2 DEF Policy!Evicts
<1> QED
  BY <1>1, <1>3, <1>4, <1>5

LEMMA CachedOldest ==
  ASSUME Listed, DOMAIN map # {}
  PROVE  Policy!Oldest(Cached) = prev[Tail]
<1> PICK v, S, N : v = prev[Tail] /\ S = DOMAIN map /\ N = Order
  OBVIOUS
<1>1. v \in S /\ \A x \in S \ {v} : <<x, v>> \in N /\ <<v, x>> \notin N
  BY VictimIsOldest
<1>2. Policy!Oldest(Cached) = CHOOSE k \in S : k \in S /\ \A j \in S \ {k} : <<j, k>> \in N
  BY DEF Policy!Oldest, Policy!IsOldest, Policy!Held, Cached
<1>3. \A k \in S : (k \in S /\ \A j \in S \ {k} : <<j, k>> \in N) <=> k = v
  BY <1>1
<1> QED
  BY <1>1, <1>2, <1>3

LEMMA StatsRecord ==
  ASSUME LRUInv
  PROVE  \E h, m, v, x \in Nat :
           stats = [hits |-> h, misses |-> m, evictions |-> v, expirations |-> x]
BY DEF LRUInv, Counters

LEMMA StatsCounted ==
  ASSUME NEW h \in Nat, NEW m \in Nat, NEW v \in Nat, NEW x \in Nat,
         NEW a \in Nat, NEW b \in Nat, NEW c \in Nat, NEW s, NEW t,
         s = [hits |-> h, misses |-> m, evictions |-> v, expirations |-> x],
         t = [s EXCEPT !.hits = @ + a, !.misses = @ + b, !.expirations = @ + c]
  PROVE  t = [hits |-> h + a, misses |-> m + b, evictions |-> v, expirations |-> x + c]
<1>1. t.hits = h + a /\ t.misses = m + b /\ t.evictions = v /\ t.expirations = x + c
  OBVIOUS
<1>2. t = [hits |-> t.hits, misses |-> t.misses, evictions |-> t.evictions,
           expirations |-> t.expirations]
  OBVIOUS
<1> QED
  BY <1>1, <1>2

LEMMA GetIsGet ==
  ASSUME LRUInv, NEW k \in Keys, Get(k)
  PROVE  /\ Cached' = Policy!AfterGet(Cached, k, now)
         /\ answer' = IF Policy!Hits(Cached, k, now) THEN Cached.entries[k].value ELSE Null
         /\ stats' = [stats EXCEPT
                        !.hits = @ + Policy!Counting(Policy!Hits(Cached, k, now)),
                        !.misses = @ + Policy!Counting(~Policy!Hits(Cached, k, now)),
                        !.expirations = @ + Policy!Counting(Policy!Expires(Cached, k, now))]
<1>1. PICK h, m, v, x \in Nat :
        stats = [hits |-> h, misses |-> m, evictions |-> v, expirations |-> x]
  BY StatsRecord
<1>2. CASE GetMisses(k)
  <2>1. ~Policy!Hits(Cached, k, now) /\ ~Policy!Expires(Cached, k, now)
    BY <1>2, CachedLooks DEF GetMisses
  <2>2. Cached' = Cached /\ answer' = Null
    BY <1>2 DEF GetMisses, Cached
  <2>3. stats' = [hits |-> h, misses |-> m + 1, evictions |-> v, expirations |-> x]
    BY <1>1, <1>2 DEF GetMisses
  <2>4. Cached' = Policy!AfterGet(Cached, k, now)
    BY <2>1, <2>2 DEF Policy!AfterGet
  <2>5. stats' = [stats EXCEPT
                    !.hits = @ + Policy!Counting(Policy!Hits(Cached, k, now)),
                    !.misses = @ + Policy!Counting(~Policy!Hits(Cached, k, now)),
                    !.expirations = @ + Policy!Counting(Policy!Expires(Cached, k, now))]
    <3>1. /\ Policy!Counting(Policy!Hits(Cached, k, now)) = 0
          /\ Policy!Counting(~Policy!Hits(Cached, k, now)) = 1
          /\ Policy!Counting(Policy!Expires(Cached, k, now)) = 0
      BY <2>1 DEF Policy!Counting
    <3>2. PICK t : t = [stats EXCEPT !.hits = @ + 0, !.misses = @ + 1, !.expirations = @ + 0]
      OBVIOUS
    <3>3. t = [hits |-> h + 0, misses |-> m + 1, evictions |-> v, expirations |-> x + 0]
      BY <1>1, <3>2, StatsCounted
    <3>4. t = stats'
      BY <2>3, <3>3
    <3> QED
      BY <3>1, <3>2, <3>4
  <2> QED
    BY <2>1, <2>2, <2>4, <2>5
<1>3. CASE GetExpires(k)
  <2>1. ~Policy!Hits(Cached, k, now) /\ Policy!Expires(Cached, k, now)
    BY <1>3, CachedLooks DEF GetExpires
  <2>2. Cached' = Policy!Removed(Cached, k) /\ answer' = Null
    BY <1>3, CachedRemoved DEF GetExpires, Cached, MapWithout
  <2>3. stats' = [hits |-> h, misses |-> m + 1, evictions |-> v, expirations |-> x + 1]
    BY <1>1, <1>3 DEF GetExpires
  <2>4. Cached' = Policy!AfterGet(Cached, k, now)
    BY <2>1, <2>2 DEF Policy!AfterGet
  <2>5. stats' = [stats EXCEPT
                    !.hits = @ + Policy!Counting(Policy!Hits(Cached, k, now)),
                    !.misses = @ + Policy!Counting(~Policy!Hits(Cached, k, now)),
                    !.expirations = @ + Policy!Counting(Policy!Expires(Cached, k, now))]
    <3>1. /\ Policy!Counting(Policy!Hits(Cached, k, now)) = 0
          /\ Policy!Counting(~Policy!Hits(Cached, k, now)) = 1
          /\ Policy!Counting(Policy!Expires(Cached, k, now)) = 1
      BY <2>1 DEF Policy!Counting
    <3>2. PICK t : t = [stats EXCEPT !.hits = @ + 0, !.misses = @ + 1, !.expirations = @ + 1]
      OBVIOUS
    <3>3. t = [hits |-> h + 0, misses |-> m + 1, evictions |-> v, expirations |-> x + 1]
      BY <1>1, <3>2, StatsCounted
    <3>4. t = stats'
      BY <2>3, <3>3
    <3> QED
      BY <3>1, <3>2, <3>4
  <2> QED
    BY <2>1, <2>2, <2>4, <2>5
<1>4. CASE GetHits(k)
  <2>1. Policy!Hits(Cached, k, now) /\ ~Policy!Expires(Cached, k, now)
    BY <1>4, CachedLooks DEF GetHits
  <2>2. Cached' = Policy!Touched(Cached, k) /\ answer' = Cached.entries[k].value
    BY <1>4, CachedTouched DEF GetHits, Cached, After
  <2>3. stats' = [hits |-> h + 1, misses |-> m, evictions |-> v, expirations |-> x]
    BY <1>1, <1>4 DEF GetHits
  <2>4. Cached' = Policy!AfterGet(Cached, k, now)
    BY <2>1, <2>2 DEF Policy!AfterGet
  <2>5. stats' = [stats EXCEPT
                    !.hits = @ + Policy!Counting(Policy!Hits(Cached, k, now)),
                    !.misses = @ + Policy!Counting(~Policy!Hits(Cached, k, now)),
                    !.expirations = @ + Policy!Counting(Policy!Expires(Cached, k, now))]
    <3>1. /\ Policy!Counting(Policy!Hits(Cached, k, now)) = 1
          /\ Policy!Counting(~Policy!Hits(Cached, k, now)) = 0
          /\ Policy!Counting(Policy!Expires(Cached, k, now)) = 0
      BY <2>1 DEF Policy!Counting
    <3>2. PICK t : t = [stats EXCEPT !.hits = @ + 1, !.misses = @ + 0, !.expirations = @ + 0]
      OBVIOUS
    <3>3. t = [hits |-> h + 1, misses |-> m + 0, evictions |-> v, expirations |-> x + 0]
      BY <1>1, <3>2, StatsCounted
    <3>4. t = stats'
      BY <2>3, <3>3
    <3> QED
      BY <3>1, <3>2, <3>4
  <2> QED
    BY <2>1, <2>2, <2>4, <2>5
<1> QED
  BY <1>2, <1>3, <1>4, GetOutcomes DEF LRUInv

LEMMA PutIsPut ==
  ASSUME LRUInv, NEW k \in Keys, NEW ttl \in Ttls, Put(k, ttl), NEW e, e = PutEntry(ttl)
  PROVE  /\ Cached' = Policy!AfterPut(Cached, k, e, Capacity)
         /\ stats' = [stats EXCEPT
                        !.evictions = @ + Policy!Counting(Policy!Evicts(Cached, k, Capacity))]
<1>1. PICK h, m, v, x \in Nat :
        stats = [hits |-> h, misses |-> m, evictions |-> v, expirations |-> x]
  BY StatsRecord
<1>2. PutUpdates(k, e) \/ PutInserts(k, e) \/ PutEvicts(k, e)
  BY PutOutcomes DEF LRUInv
<1>3. CASE PutUpdates(k, e)
  <2>1. ~Policy!Evicts(Cached, k, Capacity)
    BY <1>3, CachedLooks DEF PutUpdates
  <2>2. (DOMAIN map \cup {k}) \ {k} = DOMAIN map \ {k}
    OBVIOUS
  <2>3. Cached' = Policy!Stored(Cached, k, e)
    BY <1>3, <2>2, CachedStored DEF PutUpdates, Cached, After
  <2>4. stats' = [hits |-> h, misses |-> m, evictions |-> v, expirations |-> x]
    BY <1>1, <1>3 DEF PutUpdates
  <2> QED
    BY <1>1, <2>1, <2>3, <2>4 DEF Policy!AfterPut, Policy!Counting
<1>4. CASE PutInserts(k, e)
  <2>1. ~Policy!Evicts(Cached, k, Capacity)
    BY <1>4, CachedLooks, SizeOfKeys DEF PutInserts, LRUInv, Listed, Size
  <2>2. (DOMAIN map \cup {k}) \ {k} = DOMAIN map \ {k} /\ Without(Order, k) = Order
    BY <1>4, OrderIsOnKeys DEF PutInserts, Without, LRUInv
  <2>3. Cached' = Policy!Stored(Cached, k, e)
    BY <1>4, <2>2, CachedStored DEF PutInserts, Cached, After
  <2>4. stats' = [hits |-> h, misses |-> m, evictions |-> v, expirations |-> x]
    BY <1>1, <1>4 DEF PutInserts
  <2> QED
    BY <1>1, <2>1, <2>3, <2>4 DEF Policy!AfterPut, Policy!Counting
<1>5. CASE PutEvicts(k, e)
  <2> PICK o, w : o = prev[Tail] /\ w = MapWithout(o)
    OBVIOUS
  <2>1. Policy!Evicts(Cached, k, Capacity)
    BY <1>5, CachedLooks DEF PutEvicts
  <2>2. Policy!Oldest(Cached) = o
    <3>1. DOMAIN map # {}
      BY <1>5, FS_EmptySet DEF PutEvicts, Size
    <3> QED
      BY <3>1, CachedOldest DEF LRUInv
  <2>3. Policy!Removed(Cached, o) = [entries |-> w, newer |-> Without(Order, o)]
    BY CachedRemoved DEF Cached, MapWithout
  <2>4. DOMAIN w = DOMAIN map \ {o}
    BY MapKeys
  <2>5. /\ ((DOMAIN map \ {o}) \cup {k}) \ {k} = DOMAIN map \ {o}
        /\ Without(Without(Order, o), k) = Without(Order, o)
    BY <1>5, OrderIsOnKeys DEF PutEvicts, Without, LRUInv
  <2>6. Cached' = Policy!Stored(Policy!Removed(Cached, o), k, e)
    BY <1>5, <2>3, <2>4, <2>5, CachedStored DEF PutEvicts, Cached
  <2>7. stats' = [hits |-> h, misses |-> m, evictions |-> v + 1, expirations |-> x]
    BY <1>1, <1>5 DEF PutEvicts
  <2> QED
    BY <1>1, <2>1, <2>2, <2>6, <2>7 DEF Policy!AfterPut, Policy!Counting
<1> QED
  BY <1>2, <1>3, <1>4, <1>5

LEMMA DeleteIsDelete ==
  ASSUME LRUInv, NEW k \in Keys, Delete(k)
  PROVE  Cached' = Policy!Removed(Cached, k)
<1>1. map' = MapWithout(k) /\ Order' = Without(Order, k)
  BY DeleteOutcome DEF Delete, LRUInv
<1> QED
  BY <1>1, CachedRemoved DEF Cached, MapWithout

LEMMA EmptyIsEmpty ==
  ASSUME NEW m, NEW N, m = [k \in {} |-> Null], N = {}
  PROVE  [entries |-> m, newer |-> N] = Policy!EmptyCache
BY DEF Policy!EmptyCache

LEMMA StepIsPolicyStep ==
  ASSUME LRUInv, [Next]_vars
  PROVE  [Policy!Next]_(Policy!vars)
<1>1. ASSUME NEW k \in Keys, Get(k)
      PROVE  Policy!Next
  <2>1. now' = now
    BY <1>1 DEF Get
  <2>2. Policy!Get(k)
    BY <1>1, <2>1, GetIsGet DEF Policy!Get, Cached, Order
  <2> QED
    BY <2>2 DEF Policy!Next
<1>2. ASSUME NEW k \in Keys, NEW ttl \in Ttls, Put(k, ttl)
      PROVE  Policy!Next
  <2>1. now' = now /\ answer' = answer /\ ops' \in Values
    BY <1>2 DEF Put, LRUInv, Counters, Values
  <2>2. PICK v \in Values : v = ops'
    BY <2>1
  <2>3. PICK e : e = [value |-> v, expiresAt |-> Policy!Deadline(ttl, now)]
    OBVIOUS
  <2>4. e = PutEntry(ttl)
    BY <2>2, <2>3 DEF PutEntry, Policy!Deadline, Policy!Infinity, R!Infinity
  <2>5. Policy!Put(k, v, ttl)
    BY <1>2, <2>1, <2>3, <2>4, PutIsPut DEF Policy!Put, Cached, Order
  <2> QED
    BY <2>5 DEF Policy!Next
<1>3. ASSUME NEW k \in Keys, Delete(k)
      PROVE  Policy!Next
  <2>1. now' = now /\ answer' = answer /\ stats' = stats
    BY <1>3 DEF Delete
  <2>2. Policy!Delete(k)
    BY <1>3, <2>1, DeleteIsDelete DEF Policy!Delete, Cached, Order
  <2> QED
    BY <2>2 DEF Policy!Next
<1>4. ASSUME Clear
      PROVE  Policy!Next
  <2>1. now' = now /\ answer' = answer /\ stats' = stats /\ map' = [k \in {} |-> Null]
    BY <1>4 DEF Clear
  <2>2. Order' = {}
    BY <1>4, ClearOutcome
  <2>3. Cached' = Policy!EmptyCache
    BY <2>1, <2>2, EmptyIsEmpty DEF Cached
  <2>4. Policy!Clear
    BY <2>1, <2>3 DEF Policy!Clear, Cached, Order
  <2> QED
    BY <2>4 DEF Policy!Next
<1>5. ASSUME Tick
      PROVE  Policy!Next
  <2>1. /\ map' = map /\ next' = next /\ prev' = prev
        /\ stats' = stats /\ answer' = answer /\ now' = now + 1
    BY <1>5 DEF Tick
  <2>2. Cached' = Cached
    BY <2>1, Unmoved DEF Cached, LRUInv
  <2>3. Policy!Tick
    BY <2>1, <2>2 DEF Policy!Tick, Cached, Order
  <2> QED
    BY <2>3 DEF Policy!Next
<1>6. ASSUME UNCHANGED vars
      PROVE  UNCHANGED Policy!vars
  <2>1. /\ map' = map /\ next' = next /\ prev' = prev
        /\ stats' = stats /\ answer' = answer /\ now' = now
    BY <1>6 DEF vars
  <2>2. Cached' = Cached
    BY <2>1, Unmoved DEF Cached, LRUInv
  <2> QED
    BY <2>1, <2>2 DEF Policy!vars, Cached, Order
<1> QED
  BY <1>1, <1>2, <1>3, <1>4, <1>5, <1>6 DEF Next

\* cache/LRUCache.js is a cache that keeps its entries in the order of their
\* last use: every step of the list and the map is a step of LRUPolicy, with
\* the answer and the counters it asks for.
THEOREM ListIsPolicy == Spec => ImplementsPolicy
<1>1. Init => Policy!Init
  <2> SUFFICES ASSUME Init PROVE Policy!Init
    OBVIOUS
  <2>1. map = [k \in {} |-> Null] /\ Order = {}
    <3>1. Emptied
      BY DEF Init, Emptied
    <3> QED
      BY <3>1, Emptying DEF Init, EmptiedIsShown
  <2>2. Cached = Policy!EmptyCache
    BY <2>1, EmptyIsEmpty DEF Cached
  <2> QED
    BY <2>2 DEF Init, Policy!Init, Cached, Order
<1>2. LRUInv /\ [Next]_vars => [Policy!Next]_(Policy!vars)
  BY StepIsPolicyStep
<1> QED
  BY <1>1, <1>2, Inductive, PTL DEF Spec, ImplementsPolicy, Policy!Spec

=============================================================================
