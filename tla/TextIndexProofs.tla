-------------------------- MODULE TextIndexProofs --------------------------
(***************************************************************************)
(* What a table of ProbeTable does, for every capacity, every set of keys  *)
(* and every hash function.  In a sound table a lookup that starts at a    *)
(* key's home slot passes only slots in use until it stops, at the key's   *)
(* entry or, when the table does not hold the key, at an empty slot; that  *)
(* stays so when the slot it stopped at is written, and when the entries   *)
(* are moved, one after the other, into a larger table.  Read as a map, a  *)
(* sound table answers lookups as the map does, and a write is a store.    *)
(***************************************************************************)
EXTENDS TextIndex, FiniteSetTheorems, TLAPS

-----------------------------------------------------------------------------
(* Numbers *)

\* Every set of numbers that is not empty has a least one.
LEMMA LeastNumber ==
    ASSUME NEW S \in SUBSET Nat, S # {}
    PROVE  \E n \in S : \A m \in S : n <= m
<1> DEFINE R == {ss \in Nat \X Nat : ss[1] < ss[2]}
<1>1. IsWellFoundedOn(R, Nat)
    BY NatLessThanWellFounded DEF OpToRel
<1>2. PICK n \in S : \A m \in S : ~(<<m, n>> \in R)
  <2> HIDE DEF R
  <2>1. QED
      BY <1>1, WFMin, Zenon
<1>3. ASSUME NEW m \in S PROVE n <= m
  <2>1. n \in Nat /\ m \in Nat /\ ~(<<m, n>> \in R)
      BY <1>2
  <2>2. <<m, n>> \in Nat \X Nat /\ <<m, n>>[1] = m /\ <<m, n>>[2] = n
      BY <2>1
  <2>3. ~(m < n)
      BY <2>1, <2>2
  <2>4. QED
      BY <2>1, <2>3
<1>4. QED
    BY <1>3

\* The number that has this property and no smaller one has.
LEMMA LeastChosen ==
    ASSUME NEW S \in SUBSET Nat, NEW n \in S, \A m \in S : n <= m
    PROVE  (CHOOSE k \in S : \A m \in S : k <= m) = n
<1> DEFINE Least(k) == k \in S /\ \A m \in S : k <= m
<1>1. Least(n)
    OBVIOUS
<1>2. Least(CHOOSE k : Least(k))
    BY <1>1, Zenon
<1>3. \A k : Least(k) => k = n
    OBVIOUS
<1>4. (CHOOSE k : Least(k)) = n
    BY <1>2, <1>3, Zenon
<1>5. QED
    BY <1>4

\* What is true of 0 and of i + 1 whenever it is true of i, up to n: the set form of
\* induction.
LEMMA UpTo ==
    ASSUME NEW n \in Nat, NEW S, 0 \in S, \A i \in 0 .. n - 1 : i \in S => i + 1 \in S
    PROVE  \A i \in 0 .. n : i \in S
<1> DEFINE Bad == {i \in 0 .. n : i \notin S}
<1> SUFFICES ASSUME Bad # {} PROVE FALSE
    OBVIOUS
<1>1. PICK i \in Bad : \A j \in Bad : i <= j
    BY LeastNumber, Bad \in SUBSET Nat, Zenon
<1>2. i # 0 /\ i \in 0 .. n /\ i \notin S
    OBVIOUS
<1>3. i - 1 \in 0 .. n - 1 /\ i - 1 \notin Bad /\ (i - 1) + 1 = i
    BY <1>1, <1>2
<1>4. i - 1 \in S
    BY <1>3
<1>5. QED
    BY <1>2, <1>3, <1>4

\* The slot n steps behind the home slot of a hash.
Slot(hash, n, cap) == (hash + n) % cap

\* Euclid: a remainder is the only one.
LEMMA Remainder ==
    ASSUME NEW c \in Nat \ {0}, NEW q \in Nat, NEW r \in 0 .. c - 1
    PROVE  (c * q + r) % c = r
OBVIOUS

\* The slots of a probe run from the home slot to the end of the table and on from its start.
LEMMA SlotWraps ==
    ASSUME NEW cap \in Nat \ {0}, NEW hash \in Nat
    PROVE  \E r \in 0 .. cap - 1 : \A n \in 0 .. cap - 1 :
              Slot(hash, n, cap) = IF r + n < cap THEN r + n ELSE r + n - cap
<1> DEFINE r == hash % cap
           q == hash \div cap
<1>1. r \in 0 .. cap - 1 /\ q \in Nat /\ hash = cap * q + r
    OBVIOUS
<1> HIDE DEF r, q
<1>2. ASSUME NEW n \in 0 .. cap - 1
      PROVE  Slot(hash, n, cap) = IF r + n < cap THEN r + n ELSE r + n - cap
  <2>1. CASE r + n < cap
    <3>1. hash + n = cap * q + (r + n)
        BY <1>1
    <3>2. r + n \in 0 .. cap - 1
        BY <1>1, <2>1
    <3>3. QED
        BY <1>1, <2>1, <3>1, <3>2, Remainder DEF Slot
  <2>2. CASE ~(r + n < cap)
    <3>1. hash + n = cap * (q + 1) + (r + n - cap)
        BY <1>1
    <3>2. r + n - cap \in 0 .. cap - 1 /\ q + 1 \in Nat
        BY <1>1, <2>2
    <3>3. (cap * (q + 1) + (r + n - cap)) % cap = r + n - cap
        BY <3>2, Remainder
    <3>4. QED
        BY <2>2, <3>1, <3>3 DEF Slot
  <2>3. QED
      BY <2>1, <2>2
<1>3. QED
    BY <1>1, <1>2, Zenon

\* A probe of cap steps visits every slot once.
LEMMA SlotFacts ==
    ASSUME NEW cap \in Nat \ {0}, NEW hash \in Nat
    PROVE  /\ \A n \in 0 .. cap - 1 : Slot(hash, n, cap) \in 0 .. cap - 1
           /\ \A m, n \in 0 .. cap - 1 : Slot(hash, m, cap) = Slot(hash, n, cap) => m = n
           /\ \A i \in 0 .. cap - 1 : \E n \in 0 .. cap - 1 : Slot(hash, n, cap) = i
<1>1. PICK r \in 0 .. cap - 1 : \A n \in 0 .. cap - 1 :
              Slot(hash, n, cap) = IF r + n < cap THEN r + n ELSE r + n - cap
    BY SlotWraps, Zenon
<1>2. \A n \in 0 .. cap - 1 : Slot(hash, n, cap) \in 0 .. cap - 1
    BY <1>1
<1>3. \A m, n \in 0 .. cap - 1 : Slot(hash, m, cap) = Slot(hash, n, cap) => m = n
    BY <1>1
<1>4. ASSUME NEW i \in 0 .. cap - 1 PROVE \E n \in 0 .. cap - 1 : Slot(hash, n, cap) = i
  <2>1. CASE i >= r
    <3>1. i - r \in 0 .. cap - 1 /\ r + (i - r) < cap /\ r + (i - r) = i
        BY <2>1
    <3>2. QED
        BY <1>1, <3>1
  <2>2. CASE i < r
    <3>1. i + cap - r \in 0 .. cap - 1 /\ ~(r + (i + cap - r) < cap) /\ r + (i + cap - r) - cap = i
        BY <2>2
    <3>2. QED
        BY <1>1, <3>1, SMTT(30)
  <2>3. QED
      BY <2>1, <2>2
<1>5. QED
    BY <1>2, <1>3, <1>4

-----------------------------------------------------------------------------
(* Tables.  K gives the key a handle stands for and F the hash of a key:   *)
(* texts in the native and the Wasm runtime, the handles themselves under  *)
(* the JIT.                                                                *)

EntriesOf(H, V) == [occupied : {TRUE}, key : H, value : V, hash : Nat]

\* Slot i is where a probe from the hash finds it: every slot before is in use.
Reached(t, cap, hash, i) ==
    \E n \in 0 .. cap - 1 :
        i = Slot(hash, n, cap) /\ \A m \in 0 .. n - 1 : Slot(hash, m, cap) \in Used(t)

Sound(t, cap, K, F, V) ==
    /\ cap \in Nat \ {0}
    /\ t \in [0 .. cap - 1 -> {Empty} \cup EntriesOf(DOMAIN K, V)]
    /\ \A i \in Used(t) : t[i].hash = F[K[t[i].key]]
    /\ \A i, j \in Used(t) : K[t[i].key] = K[t[j].key] => i = j
    /\ \A i \in Used(t) : Reached(t, cap, t[i].hash, i)

\* Whether a key is in the table.
Holds(t, K, k) == \E i \in Used(t) : K[t[i].key] = k

\* The numbers and the types behind a table.
LEMMA TableFacts ==
    ASSUME NEW cap \in Nat \ {0}, NEW H, NEW V,
           NEW t \in [0 .. cap - 1 -> {Empty} \cup EntriesOf(H, V)]
    PROVE  /\ DOMAIN t = 0 .. cap - 1 /\ Cap(t) = cap
           /\ IsFiniteSet(Used(t)) /\ Cardinality(Used(t)) \in Nat
           /\ Used(t) \subseteq 0 .. cap - 1
           /\ Cardinality(Used(t)) < cap => Used(t) # DOMAIN t
           /\ \A i \in Used(t) : t[i] \in EntriesOf(H, V)
           /\ \A i \in 0 .. cap - 1 : i \notin Used(t) => t[i] = Empty
<1>1. DOMAIN t = 0 .. cap - 1
    OBVIOUS
<1>2. IsFiniteSet(0 .. cap - 1) /\ Cardinality(0 .. cap - 1) = cap
    BY FS_Interval
<1>3. Used(t) \subseteq 0 .. cap - 1
    BY <1>1 DEF Used
<1>4. IsFiniteSet(Used(t)) /\ Cardinality(Used(t)) \in Nat
    BY <1>2, <1>3, FS_Subset, FS_CardinalityType
<1>5. \A i \in Used(t) : t[i] \in EntriesOf(H, V)
    BY DEF Used, Empty
<1>6. \A i \in 0 .. cap - 1 : i \notin Used(t) => t[i] = Empty
    BY Zenon DEF Used, EntriesOf
<1>7. QED
    BY <1>1, <1>2, <1>3, <1>4, <1>5, <1>6 DEF Cap

\* Which slots an entry in use leaves in use, and which are empty.
LEMMA OccupiedIsUsed ==
    ASSUME NEW cap \in Nat \ {0}, NEW H, NEW V,
           NEW t \in [0 .. cap - 1 -> {Empty} \cup EntriesOf(H, V)],
           NEW i \in 0 .. cap - 1
    PROVE  t[i].occupied <=> i \in Used(t)
BY DEF Used

\* The first slot of a probe among those with a step in hits.
LEMMA FirstHit ==
    ASSUME NEW hits \in SUBSET Nat, hits # {}
    PROVE  \E n \in hits : /\ (CHOOSE k \in hits : \A m \in hits : k <= m) = n
                           /\ \A m \in hits : n <= m
<1>1. PICK n \in hits : \A m \in hits : n <= m
    BY LeastNumber
<1>2. QED
    BY <1>1, LeastChosen

\* The probe of a rehash ends at an empty slot with only slots in use before it.
LEMMA FreeSlot ==
    ASSUME NEW cap \in Nat \ {0}, NEW H, NEW V,
           NEW t \in [0 .. cap - 1 -> {Empty} \cup EntriesOf(H, V)],
           NEW hash \in Nat, Used(t) # DOMAIN t
    PROVE  \E n \in 0 .. cap - 1 :
              /\ FirstSlot(t, hash, LAMBDA e : ~e.occupied) = {Slot(hash, n, cap)}
              /\ Slot(hash, n, cap) \in (0 .. cap - 1) \ Used(t)
              /\ \A m \in 0 .. n - 1 : Slot(hash, m, cap) \in Used(t)
<1> DEFINE hits == {n \in 0 .. cap - 1 : ~t[Slot(hash, n, cap)].occupied}
<1>1. DOMAIN t = 0 .. cap - 1 /\ Cap(t) = cap /\ Used(t) \subseteq 0 .. cap - 1
    BY TableFacts
<1>2. \A n \in 0 .. cap - 1 : Slot(hash, n, cap) \in 0 .. cap - 1
    BY SlotFacts
<1>3. hits = {n \in 0 .. cap - 1 : Slot(hash, n, cap) \notin Used(t)}
    BY <1>2, OccupiedIsUsed, Zenon
<1>4. hits # {} /\ hits \in SUBSET Nat
  <2>1. PICK i \in 0 .. cap - 1 : i \notin Used(t)
      BY <1>1, Zenon
  <2>2. PICK n \in 0 .. cap - 1 : Slot(hash, n, cap) = i
      BY SlotFacts
  <2>3. QED
      BY <1>3, <2>1, <2>2
<1>5. PICK n \in hits : /\ (CHOOSE k \in hits : \A m \in hits : k <= m) = n
                        /\ \A m \in hits : n <= m
  <2> HIDE DEF hits
  <2>1. QED
      BY <1>4, FirstHit
<1>6. FirstSlot(t, hash, LAMBDA e : ~e.occupied) = {Slot(hash, n, cap)}
    BY <1>1, <1>4, <1>5, Zenon DEF FirstSlot, Slot
<1>7. n \in 0 .. cap - 1 /\ Slot(hash, n, cap) \in (0 .. cap - 1) \ Used(t)
    BY <1>2, <1>3, Zenon
<1>8. ASSUME NEW m \in 0 .. n - 1 PROVE Slot(hash, m, cap) \in Used(t)
    BY <1>3, <1>5, <1>7
<1>9. QED
    BY <1>6, <1>7, <1>8, Zenon

-----------------------------------------------------------------------------
(* Lookups *)

\* The slot at which a lookup of the key k stops.
ProbeSlot(t, k, K, F) ==
    FirstSlot(t, F[k], LAMBDA e : ~e.occupied \/ (e.hash = F[k] /\ K[e.key] = k))

\* A lookup of a key in the table stops at its entry.
LEMMA ProbeFinds ==
    ASSUME NEW t, NEW cap, NEW K, NEW F, NEW V, Sound(t, cap, K, F, V), NEW i \in Used(t)
    PROVE  ProbeSlot(t, K[t[i].key], K, F) = {i}
<1> DEFINE k == K[t[i].key]
           P(e) == ~e.occupied \/ (e.hash = F[k] /\ K[e.key] = k)
           hits == {n \in 0 .. cap - 1 : P(t[Slot(F[k], n, cap)])}
<1>1. cap \in Nat \ {0} /\ t \in [0 .. cap - 1 -> {Empty} \cup EntriesOf(DOMAIN K, V)]
    BY DEF Sound
<1>2. /\ Cap(t) = cap /\ Used(t) \subseteq 0 .. cap - 1
      /\ t[i] \in EntriesOf(DOMAIN K, V)
    BY <1>1, TableFacts
<1>3. t[i].hash = F[k] /\ F[k] \in Nat /\ t[i].occupied
    BY <1>2, Zenon DEF Sound, EntriesOf
<1>4. PICK n \in 0 .. cap - 1 :
         i = Slot(F[k], n, cap) /\ \A m \in 0 .. n - 1 : Slot(F[k], m, cap) \in Used(t)
    BY <1>3 DEF Sound, Reached
<1>5. n \in hits
    BY <1>3, <1>4
<1>6. ASSUME NEW m \in hits PROVE n <= m
  <2>0. m \in 0 .. cap - 1
      BY Zenon
  <2>1. SUFFICES ASSUME m < n PROVE FALSE
    <3> HIDE DEF hits
    <3>1. QED
        BY <1>4, <2>0
  <2>2. m \in 0 .. n - 1 /\ Slot(F[k], m, cap) \in Used(t)
    <3> HIDE DEF hits
    <3>1. QED
        BY <1>4, <2>0, <2>1
  <2>3. t[Slot(F[k], m, cap)].occupied
      BY <2>2 DEF Used
  <2>4. K[t[Slot(F[k], m, cap)].key] = k
    <3>1. P(t[Slot(F[k], m, cap)])
        BY Zenon
    <3>2. QED
        BY <2>3, <3>1, Zenon
  <2>5. Slot(F[k], m, cap) = Slot(F[k], n, cap)
      BY <1>4, <2>2, <2>4, Zenon DEF Sound
  <2>6. m = n
      BY <1>1, <1>3, <2>0, <2>5, SlotFacts, Zenon
  <2>7. QED
      BY <2>1, <2>6
<1>7. hits \in SUBSET Nat
    OBVIOUS
<1>8. (CHOOSE j \in hits : \A m \in hits : j <= m) = n
  <2> HIDE DEF hits
  <2>1. QED
      BY <1>5, <1>6, <1>7, LeastChosen
<1>9. FirstSlot(t, F[k], P) = {i}
  <2> DEFINE c == Cap(t)
             found == {x \in 0 .. c - 1 : P(t[Slot(F[k], x, c)])}
  <2>1. FirstSlot(t, F[k], P) =
          IF found = {} THEN {}
          ELSE {Slot(F[k], CHOOSE x \in found : \A m \in found : x <= m, c)}
      BY Zenon DEF FirstSlot, Slot
  <2>2. found = hits
      BY <1>2
  <2> HIDE DEF found, hits
  <2>3. QED
      BY <1>2, <1>4, <1>5, <1>8, <2>1, <2>2, Zenon
<1>10. QED
    BY <1>9, Zenon DEF ProbeSlot

\* A lookup of a key that is not there stops at an empty slot, the one where the
\* key would be found.
LEMMA ProbeMisses ==
    ASSUME NEW t, NEW cap, NEW K, NEW F, NEW V, Sound(t, cap, K, F, V), NEW k,
           F[k] \in Nat, ~Holds(t, K, k), Used(t) # DOMAIN t
    PROVE  \E s \in (0 .. cap - 1) \ Used(t) :
              ProbeSlot(t, k, K, F) = {s} /\ Reached(t, cap, F[k], s)
<1>1. cap \in Nat \ {0} /\ t \in [0 .. cap - 1 -> {Empty} \cup EntriesOf(DOMAIN K, V)]
    BY DEF Sound
<1>2. Cap(t) = cap
    BY <1>1, TableFacts
<1>3. PICK n \in 0 .. cap - 1 :
              /\ FirstSlot(t, F[k], LAMBDA e : ~e.occupied) = {Slot(F[k], n, cap)}
              /\ Slot(F[k], n, cap) \in (0 .. cap - 1) \ Used(t)
              /\ \A m \in 0 .. n - 1 : Slot(F[k], m, cap) \in Used(t)
    BY <1>1, FreeSlot, Zenon
<1>4. ASSUME NEW m \in 0 .. cap - 1
      PROVE  (~t[Slot(F[k], m, cap)].occupied
                \/ (t[Slot(F[k], m, cap)].hash = F[k] /\ K[t[Slot(F[k], m, cap)].key] = k))
             <=> ~t[Slot(F[k], m, cap)].occupied
  <2>1. Slot(F[k], m, cap) \in 0 .. cap - 1
      BY <1>1, SlotFacts, Zenon
  <2>2. CASE Slot(F[k], m, cap) \in Used(t)
      BY <2>2 DEF Holds
  <2>3. CASE Slot(F[k], m, cap) \notin Used(t)
      BY <1>1, <2>1, <2>3, OccupiedIsUsed
  <2>4. QED
      BY <2>2, <2>3
<1>5. ProbeSlot(t, k, K, F) = FirstSlot(t, F[k], LAMBDA e : ~e.occupied)
  <2> DEFINE c == Cap(t)
             found == {x \in 0 .. c - 1 :
                          ~t[Slot(F[k], x, c)].occupied
                            \/ (t[Slot(F[k], x, c)].hash = F[k] /\ K[t[Slot(F[k], x, c)].key] = k)}
             free == {x \in 0 .. c - 1 : ~t[Slot(F[k], x, c)].occupied}
             Of(hits) == IF hits = {} THEN {}
                         ELSE {Slot(F[k], CHOOSE x \in hits : \A m \in hits : x <= m, c)}
  <2>1. ProbeSlot(t, k, K, F) = Of(found)
      BY Zenon DEF ProbeSlot, FirstSlot, Slot
  <2>2. FirstSlot(t, F[k], LAMBDA e : ~e.occupied) = Of(free)
      BY Zenon DEF FirstSlot, Slot
  <2>3. found = free
      BY <1>2, <1>4, Zenon
  <2> HIDE DEF Of, found, free
  <2>4. QED
      BY <2>1, <2>2, <2>3
<1>6. QED
    BY <1>3, <1>5, Zenon DEF Reached

-----------------------------------------------------------------------------
(* Changes of a table *)

\* What is in a table.
EntrySet(t) == {t[i] : i \in Used(t)}

\* The entry e is written into slot s.
Writes(t, s, e, u) == u = [t EXCEPT ![s] = e]

\* A new table is sound and has nothing in it.
LEMMA BlankSound ==
    ASSUME NEW cap \in Nat \ {0}, NEW K, NEW F, NEW V
    PROVE  Sound(Blank(cap), cap, K, F, V) /\ Used(Blank(cap)) = {}
<1>1. Used(Blank(cap)) = {}
    BY DEF Used, Blank, Empty
<1>2. Blank(cap) \in [0 .. cap - 1 -> {Empty} \cup EntriesOf(DOMAIN K, V)]
    BY DEF Blank
<1>3. QED
    BY <1>1, <1>2 DEF Sound

\* An entry put into the empty slot its lookup stops at, when its key is not there.
LEMMA PlaceSound ==
    ASSUME NEW t, NEW cap, NEW K, NEW F, NEW V, Sound(t, cap, K, F, V),
           NEW e \in EntriesOf(DOMAIN K, V), e.hash = F[K[e.key]], ~Holds(t, K, K[e.key]),
           NEW s \in (0 .. cap - 1) \ Used(t), Reached(t, cap, e.hash, s),
           NEW u, Writes(t, s, e, u)
    PROVE  /\ Sound(u, cap, K, F, V)
           /\ Used(u) = Used(t) \cup {s}
           /\ EntrySet(u) = EntrySet(t) \cup {e}
           /\ Cardinality(Used(u)) = Cardinality(Used(t)) + 1
<1>1. cap \in Nat \ {0} /\ t \in [0 .. cap - 1 -> {Empty} \cup EntriesOf(DOMAIN K, V)]
    BY DEF Sound
<1>2. /\ DOMAIN t = 0 .. cap - 1 /\ IsFiniteSet(Used(t)) /\ Used(t) \subseteq 0 .. cap - 1
      /\ \A i \in Used(t) : t[i] \in EntriesOf(DOMAIN K, V)
    BY <1>1, TableFacts
<1>3. u \in [0 .. cap - 1 -> {Empty} \cup EntriesOf(DOMAIN K, V)]
    BY <1>1 DEF Writes
<1>4. u[s] = e /\ \A i \in Used(t) : i # s /\ u[i] = t[i]
    BY <1>1, <1>2 DEF Writes
<1>5. Used(u) = Used(t) \cup {s}
    BY <1>1, Zenon DEF Used, EntriesOf, Writes
<1>6. \A i \in Used(u) : u[i].hash = F[K[u[i].key]]
    BY <1>4, <1>5 DEF Sound
<1>7. \A i, j \in Used(u) : K[u[i].key] = K[u[j].key] => i = j
    BY <1>4, <1>5 DEF Sound, Holds
<1>8. ASSUME NEW i \in Used(u) PROVE Reached(u, cap, u[i].hash, i)
  <2>1. Reached(t, cap, u[i].hash, i)
      BY <1>4, <1>5 DEF Sound
  <2>2. QED
      BY <1>5, <2>1 DEF Reached
<1>9. EntrySet(u) = EntrySet(t) \cup {e}
    BY <1>4, <1>5 DEF EntrySet
<1>10. Cardinality(Used(u)) = Cardinality(Used(t)) + 1
    BY <1>2, <1>5, FS_AddElement, Zenon
<1>11. Sound(u, cap, K, F, V)
    BY <1>1, <1>3, <1>6, <1>7, <1>8 DEF Sound
<1>12. QED
    BY <1>5, <1>9, <1>10, <1>11

\* An entry overwritten by one of the same key.
LEMMA UpdateSound ==
    ASSUME NEW t, NEW cap, NEW K, NEW F, NEW V, Sound(t, cap, K, F, V),
           NEW e \in EntriesOf(DOMAIN K, V), e.hash = F[K[e.key]],
           NEW s \in Used(t), K[t[s].key] = K[e.key], NEW u, Writes(t, s, e, u)
    PROVE  /\ Sound(u, cap, K, F, V)
           /\ Used(u) = Used(t)
           /\ u[s] = e
           /\ \A i \in Used(t) \ {s} : u[i] = t[i]
<1>1. cap \in Nat \ {0} /\ t \in [0 .. cap - 1 -> {Empty} \cup EntriesOf(DOMAIN K, V)]
    BY DEF Sound
<1>2. /\ DOMAIN t = 0 .. cap - 1 /\ Used(t) \subseteq 0 .. cap - 1
      /\ \A i \in Used(t) : t[i] \in EntriesOf(DOMAIN K, V)
    BY <1>1, TableFacts
<1>3. u \in [0 .. cap - 1 -> {Empty} \cup EntriesOf(DOMAIN K, V)]
    BY <1>1, <1>2 DEF Writes
<1>4. u[s] = e /\ \A i \in Used(t) : i # s => u[i] = t[i]
    BY <1>1, <1>2 DEF Writes
<1>5. Used(u) = Used(t)
    BY <1>1, Zenon DEF Used, EntriesOf, Writes
<1>6. \A i \in Used(u) : u[i].hash = F[K[u[i].key]]
    BY <1>4, <1>5 DEF Sound
<1>7. \A i \in Used(t) : K[u[i].key] = K[t[i].key] /\ u[i].hash = t[i].hash
    BY <1>4 DEF Sound
<1>8. \A i, j \in Used(u) : K[u[i].key] = K[u[j].key] => i = j
    BY <1>5, <1>7 DEF Sound
<1>9. ASSUME NEW i \in Used(u) PROVE Reached(u, cap, u[i].hash, i)
  <2>1. Reached(t, cap, u[i].hash, i)
      BY <1>5, <1>7 DEF Sound
  <2>2. QED
      BY <1>5, <2>1 DEF Reached
<1>10. Sound(u, cap, K, F, V)
    BY <1>1, <1>3, <1>6, <1>8, <1>9 DEF Sound
<1>11. QED
    BY <1>4, <1>5, <1>10

\* Moving is placing one slot's entry after the other.
LEMMA MovedSteps ==
    ASSUME NEW t, NEW fresh, Cap(t) \in Nat
    PROVE  \E M : /\ Moved(t, fresh) = M[Cap(t)]
                  /\ M[0] = fresh
                  /\ \A i \in 0 .. Cap(t) - 1 : M[i + 1] = Placed(M[i], t[i])
<1> DEFINE Step(g, i) == IF i = 0 THEN fresh ELSE Placed(g[i - 1], t[i - 1])
           Rec(g, n) == g = [i \in 0 .. n |-> Step(g, i)]
           S == {n \in 0 .. Cap(t) : \E g : Rec(g, n)}
           M == CHOOSE g : Rec(g, Cap(t))
<1>1. 0 \in S
  <2>1. Rec([i \in 0 .. 0 |-> fresh], 0)
      OBVIOUS
  <2> HIDE DEF Rec
  <2>2. QED
      BY <2>1
<1>2. ASSUME NEW n \in 0 .. Cap(t) - 1, n \in S PROVE n + 1 \in S
  <2>1. PICK g : Rec(g, n)
      BY <1>2
  <2> DEFINE h == [i \in 0 .. n + 1 |-> IF i <= n THEN g[i] ELSE Placed(g[n], t[n])]
  <2>2. ASSUME NEW i \in 0 .. n + 1 PROVE h[i] = Step(h, i)
    <3>1. CASE i = 0
        BY <2>1, <3>1
    <3>2. CASE i \in 1 .. n
      <4>1. g[i] = Placed(g[i - 1], t[i - 1])
          BY <2>1, <3>2
      <4>2. h[i] = g[i] /\ h[i - 1] = g[i - 1]
          BY <3>2
      <4>3. QED
          BY <3>2, <4>1, <4>2
    <3>3. CASE i = n + 1
      <4>1. h[i] = Placed(g[n], t[n]) /\ h[n] = g[n] /\ i - 1 = n
          BY <3>3
      <4>2. QED
          BY <3>3, <4>1
    <3>4. QED
        BY <3>1, <3>2, <3>3
  <2>3. Rec(h, n + 1)
    <3>1. h = [i \in 0 .. n + 1 |-> h[i]]
        OBVIOUS
    <3> HIDE DEF h
    <3>2. QED
        BY <2>2, <3>1, Zenon
  <2> HIDE DEF Rec, h
  <2>4. QED
      BY <2>3
<1>3. Cap(t) \in S
  <2> HIDE DEF S
  <2>1. QED
      BY <1>1, <1>2, UpTo
<1>4. Rec(M, Cap(t))
  <2>1. \E g : Rec(g, Cap(t))
      BY <1>3
  <2> HIDE DEF Rec
  <2>2. QED
      BY <2>1, Zenon
<1>5. Moved(t, fresh) = M[Cap(t)]
    BY Zenon DEF Moved
<1>6. M[0] = fresh /\ \A i \in 0 .. Cap(t) - 1 : M[i + 1] = Placed(M[i], t[i])
  <2>1. \A i \in 0 .. Cap(t) : M[i] = Step(M, i)
    <3> HIDE DEF M, Step
    <3>1. QED
        BY <1>4
  <2> HIDE DEF M
  <2>2. QED
      BY <2>1
<1> HIDE DEF M
<1>7. QED
    BY <1>5, <1>6

\* Placing an entry whose key is not there in a table with an empty slot.
LEMMA PlacedSound ==
    ASSUME NEW t, NEW cap, NEW K, NEW F, NEW V, Sound(t, cap, K, F, V), Used(t) # DOMAIN t,
           NEW e \in EntriesOf(DOMAIN K, V), e.hash = F[K[e.key]], ~Holds(t, K, K[e.key])
    PROVE  /\ Sound(Placed(t, e), cap, K, F, V)
           /\ EntrySet(Placed(t, e)) = EntrySet(t) \cup {e}
           /\ Cardinality(Used(Placed(t, e))) = Cardinality(Used(t)) + 1
<1>1. e.occupied /\ e.hash \in Nat
    BY Zenon DEF EntriesOf
<1>2. cap \in Nat \ {0} /\ t \in [0 .. cap - 1 -> {Empty} \cup EntriesOf(DOMAIN K, V)]
    BY DEF Sound
<1>3. PICK n \in 0 .. cap - 1 :
         /\ FirstSlot(t, e.hash, LAMBDA f : ~f.occupied) = {Slot(e.hash, n, cap)}
         /\ Slot(e.hash, n, cap) \in (0 .. cap - 1) \ Used(t)
         /\ \A m \in 0 .. n - 1 : Slot(e.hash, m, cap) \in Used(t)
    BY <1>1, <1>2, FreeSlot, Zenon
<1> DEFINE s == Slot(e.hash, n, cap)
           u == [t EXCEPT ![s] = e]
<1>4. Reached(t, cap, e.hash, s)
    BY <1>3 DEF Reached
<1>5. Placed(t, e) = u
  <2> HIDE DEF s
  <2>1. (CHOOSE x \in {s} : TRUE) = s
      OBVIOUS
  <2>2. (CHOOSE x \in FirstSlot(t, e.hash, LAMBDA f : ~f.occupied) : TRUE) = s
      BY <1>3, <2>1, Zenon DEF s
  <2>3. QED
      BY <1>1, <2>2, Zenon DEF Placed
<1> HIDE DEF s
<1>6. s \in (0 .. cap - 1) \ Used(t)
    BY <1>3 DEF s
<1> HIDE DEF u
<1>7. Writes(t, s, e, u)
    BY DEF u, Writes
<1>8. QED
    BY <1>4, <1>5, <1>6, <1>7, PlaceSound

\* A table twice as large, into which the entries are moved, is sound and holds the same.
LEMMA MovedSound ==
    ASSUME NEW t, NEW cap, NEW K, NEW F, NEW V, Sound(t, cap, K, F, V),
           NEW u, u = Moved(t, Blank(2 * Cap(t)))
    PROVE  /\ Sound(u, 2 * cap, K, F, V)
           /\ EntrySet(u) = EntrySet(t)
           /\ Cardinality(Used(u)) = Cardinality(Used(t))
<1> DEFINE Before(i) == {j \in Used(t) : j < i}
           Within(i) == {t[j] : j \in Before(i)}
<1>1. cap \in Nat \ {0} /\ t \in [0 .. cap - 1 -> {Empty} \cup EntriesOf(DOMAIN K, V)]
    BY DEF Sound
<1>2. /\ DOMAIN t = 0 .. cap - 1 /\ Cap(t) = cap
      /\ IsFiniteSet(Used(t)) /\ Used(t) \subseteq 0 .. cap - 1
      /\ \A i \in Used(t) : t[i] \in EntriesOf(DOMAIN K, V)
      /\ \A i \in 0 .. cap - 1 : i \notin Used(t) => t[i] = Empty
    BY <1>1, TableFacts
<1>3. PICK M : /\ u = M[cap] /\ M[0] = Blank(2 * cap)
               /\ \A i \in 0 .. cap - 1 : M[i + 1] = Placed(M[i], t[i])
    BY <1>1, <1>2, MovedSteps
<1> DEFINE Good(i) == /\ Sound(M[i], 2 * cap, K, F, V)
                      /\ EntrySet(M[i]) = Within(i)
                      /\ Cardinality(Used(M[i])) = Cardinality(Before(i))
           S == {i \in 0 .. cap : Good(i)}
<1>4. \A i : IsFiniteSet(Before(i)) /\ Cardinality(Before(i)) \in Nat /\ Cardinality(Before(i)) <= cap
  <2>1. IsFiniteSet(0 .. cap - 1) /\ Cardinality(0 .. cap - 1) = cap
      BY <1>1, FS_Interval
  <2>2. \A i : Before(i) \subseteq 0 .. cap - 1
      BY <1>2
  <2> HIDE DEF Before
  <2>3. QED
      BY <2>1, <2>2, FS_Subset, FS_CardinalityType
<1>5. 0 \in S
  <2>1. 2 * cap \in Nat \ {0}
      BY <1>1
  <2>2. Sound(M[0], 2 * cap, K, F, V) /\ Used(M[0]) = {}
      BY <1>3, <2>1, BlankSound
  <2>3. Before(0) = {}
      BY <1>1, <1>2
  <2>4. EntrySet(M[0]) = Within(0)
      BY <2>2, <2>3 DEF EntrySet
  <2> HIDE DEF Before, Within
  <2>5. QED
      BY <1>1, <2>2, <2>3, <2>4, SMTT(30)
<1>6. ASSUME NEW i \in 0 .. cap - 1, i \in S PROVE i + 1 \in S
  <2>1. Good(i) /\ i + 1 \in 0 .. cap /\ M[i + 1] = Placed(M[i], t[i])
      BY <1>1, <1>3, <1>6
  <2>2. CASE i \in Used(t)
    <3> DEFINE m == M[i]
               e == t[i]
    <3>1. e \in EntriesOf(DOMAIN K, V) /\ e.hash = F[K[e.key]]
        BY <1>2, <2>2 DEF Sound
    <3>2. ~Holds(m, K, K[e.key])
      <4> SUFFICES ASSUME NEW j \in Used(m), K[m[j].key] = K[e.key] PROVE FALSE
          BY DEF Holds
      <4>1. m[j] \in Within(i)
          BY <2>1, Zenon DEF EntrySet
      <4>2. PICK x \in Used(t) : x < i /\ m[j] = t[x]
          BY <4>1
      <4>3. x = i
          BY <2>2, <4>2 DEF Sound
      <4>4. QED
          BY <1>2, <2>2, <4>2, <4>3
    <3>3. Used(m) # DOMAIN m
      <4>1. /\ 2 * cap \in Nat \ {0}
            /\ m \in [0 .. 2 * cap - 1 -> {Empty} \cup EntriesOf(DOMAIN K, V)]
          BY <2>1 DEF Sound
      <4>2. Cardinality(Used(m)) < 2 * cap
        <5> HIDE DEF Before
        <5>1. QED
            BY <1>1, <1>4, <2>1
      <4> HIDE DEF m
      <4>3. QED
          BY <4>1, <4>2, TableFacts, Zenon
    <3>4. /\ Sound(M[i + 1], 2 * cap, K, F, V)
          /\ EntrySet(M[i + 1]) = EntrySet(m) \cup {e}
          /\ Cardinality(Used(M[i + 1])) = Cardinality(Used(m)) + 1
        BY <2>1, <3>1, <3>2, <3>3, PlacedSound
    <3>5. Before(i + 1) = Before(i) \cup {i} /\ i \notin Before(i)
        BY <1>2, <2>2
    <3>6. Within(i + 1) = Within(i) \cup {e}
      <4> HIDE DEF Before
      <4>1. QED
          BY <3>5
    <3>7. Cardinality(Before(i + 1)) = Cardinality(Before(i)) + 1
      <4> HIDE DEF Before
      <4>1. QED
          BY <1>4, <3>5, FS_AddElement
    <3>8. Good(i + 1)
      <4> HIDE DEF Before, Within
      <4>1. QED
          BY <2>1, <3>4, <3>6, <3>7
    <3>9. QED
        BY <2>1, <3>8
  <2>3. CASE i \notin Used(t)
    <3>1. t[i] = Empty
        BY <1>2, <2>3
    <3>2. M[i + 1] = M[i]
        BY <2>1, <3>1 DEF Placed, Empty
    <3>3. Before(i + 1) = Before(i)
        BY <1>2, <2>3
    <3>4. Good(i + 1)
      <4> HIDE DEF Before
      <4>1. QED
          BY <2>1, <3>2, <3>3
    <3>5. QED
        BY <2>1, <3>4
  <2>4. QED
      BY <2>2, <2>3
<1>7. cap \in S
  <2> HIDE DEF S
  <2>1. QED
      BY <1>1, <1>5, <1>6, UpTo, SMTT(30)
<1>8. Before(cap) = Used(t)
    BY <1>1, <1>2
<1>9. QED
  <2>1. Within(cap) = EntrySet(t)
    <3> HIDE DEF Before
    <3>1. QED
        BY <1>8 DEF EntrySet
  <2> HIDE DEF Before, Within
  <2>2. QED
      BY <1>3, <1>7, <1>8, <2>1

\* Where a lookup stops: at the entry of the key, or at the empty slot for it.
LEMMA ProbeResult ==
    ASSUME NEW t, NEW cap, NEW K, NEW F, NEW V, Sound(t, cap, K, F, V), NEW k,
           F[k] \in Nat, Used(t) # DOMAIN t
    PROVE  \E s \in 0 .. cap - 1 :
              /\ ProbeSlot(t, k, K, F) = {s}
              /\ s \in Used(t) <=> Holds(t, K, k)
              /\ s \in Used(t) => K[t[s].key] = k
              /\ s \notin Used(t) => Reached(t, cap, F[k], s)
<1>1. CASE Holds(t, K, k)
  <2>1. PICK i \in Used(t) : K[t[i].key] = k
      BY <1>1 DEF Holds
  <2>2. ProbeSlot(t, k, K, F) = {i}
      BY <2>1, ProbeFinds
  <2>3. i \in 0 .. cap - 1
      BY DEF Sound, Used
  <2>4. QED
      BY <1>1, <2>1, <2>2, <2>3
<1>2. CASE ~Holds(t, K, k)
    BY <1>2, ProbeMisses
<1>3. QED
    BY <1>1, <1>2

\* A lookup of the key at handle h has stopped at s.
Probing(t, c, K, F, V, h, s) ==
    /\ Sound(t, c, K, F, V) /\ Used(t) # DOMAIN t
    /\ h \in DOMAIN K /\ F[K[h]] \in Nat /\ s \in ProbeSlot(t, K[h], K, F)

\* The entry e is written, in u, to the slot s a lookup of its key stopped at in t.
Storing(t, c, K, F, V, e, s, u) ==
    /\ Sound(t, c, K, F, V) /\ Used(t) # DOMAIN t
    /\ e \in EntriesOf(DOMAIN K, V) /\ e.hash = F[K[e.key]]
    /\ s \in ProbeSlot(t, K[e.key], K, F) /\ Writes(t, s, e, u)

\* u is t with the entry e at s.
Changed(t, s, e, u) ==
    /\ Used(u) = Used(t) \cup {s} /\ u[s] = e
    /\ \A i \in Used(t) : i # s => u[i] = t[i]

\* Storing at the slot a lookup of the key stopped at.
LEMMA StoreSound ==
    ASSUME NEW t, NEW cap, NEW K, NEW F, NEW V, NEW e, NEW s, NEW u,
           Storing(t, cap, K, F, V, e, s, u)
    PROVE  /\ Sound(u, cap, K, F, V)
           /\ Changed(t, s, e, u)
           /\ s \in Used(t) => Cardinality(Used(u)) = Cardinality(Used(t))
           /\ s \notin Used(t) => Cardinality(Used(u)) = Cardinality(Used(t)) + 1
           /\ s \in Used(t) => K[t[s].key] = K[e.key]
<1>0. /\ Sound(t, cap, K, F, V) /\ Used(t) # DOMAIN t
      /\ e \in EntriesOf(DOMAIN K, V) /\ e.hash = F[K[e.key]]
      /\ s \in ProbeSlot(t, K[e.key], K, F) /\ Writes(t, s, e, u)
    BY DEF Storing
<1>1. e.hash \in Nat
    BY <1>0 DEF EntriesOf
<1>2. /\ s \in 0 .. cap - 1 /\ ProbeSlot(t, K[e.key], K, F) = {s}
      /\ s \in Used(t) <=> Holds(t, K, K[e.key])
      /\ s \in Used(t) => K[t[s].key] = K[e.key]
      /\ s \notin Used(t) => Reached(t, cap, e.hash, s)
    BY <1>0, <1>1, ProbeResult
<1>3. CASE s \in Used(t)
  <2>1. /\ Sound(u, cap, K, F, V) /\ Used(u) = Used(t) /\ u[s] = e
        /\ \A i \in Used(t) \ {s} : u[i] = t[i]
      BY <1>0, <1>2, <1>3, UpdateSound
  <2>2. Changed(t, s, e, u)
      BY <1>3, <2>1 DEF Changed
  <2>3. QED
      BY <1>2, <1>3, <2>1, <2>2
<1>4. CASE s \notin Used(t)
  <2>1. /\ Sound(u, cap, K, F, V) /\ Used(u) = Used(t) \cup {s}
        /\ Cardinality(Used(u)) = Cardinality(Used(t)) + 1
      BY <1>0, <1>2, <1>4, PlaceSound
  <2>2. u[s] = e /\ \A i \in Used(t) : i # s => u[i] = t[i]
    <3>1. t \in [0 .. cap - 1 -> {Empty} \cup EntriesOf(DOMAIN K, V)] /\ Used(t) \subseteq DOMAIN t
        BY <1>0 DEF Sound, Used
    <3>2. QED
        BY <1>0, <1>2, <3>1 DEF Writes
  <2>3. Changed(t, s, e, u)
      BY <2>1, <2>2 DEF Changed
  <2>4. QED
      BY <1>4, <2>1, <2>3
<1>5. QED
    BY <1>3, <1>4

\* A sound table has a capacity, and an empty slot if it has fewer entries than that.
LEMMA SoundCap ==
    ASSUME NEW t, NEW cap, NEW K, NEW F, NEW V, Sound(t, cap, K, F, V)
    PROVE  /\ Cap(t) = cap /\ cap \in Nat \ {0}
           /\ Cardinality(Used(t)) \in Nat
           /\ Cardinality(Used(t)) < cap => Used(t) # DOMAIN t
           /\ \A i \in Used(t) : /\ t[i] \in EntriesOf(DOMAIN K, V)
                                 /\ t[i].occupied /\ t[i].key \in DOMAIN K /\ t[i].value \in V
<1>1. cap \in Nat \ {0} /\ t \in [0 .. cap - 1 -> {Empty} \cup EntriesOf(DOMAIN K, V)]
    BY DEF Sound
<1>2. \A i \in Used(t) : t[i] \in EntriesOf(DOMAIN K, V)
    BY <1>1, TableFacts
<1>3. QED
  <2>1. /\ Cap(t) = cap /\ Cardinality(Used(t)) \in Nat
        /\ Cardinality(Used(t)) < cap => Used(t) # DOMAIN t
      BY <1>1, TableFacts
  <2>2. \A i \in Used(t) : t[i].occupied /\ t[i].key \in DOMAIN K /\ t[i].value \in V
      BY <1>2, Zenon DEF EntriesOf
  <2>3. QED
      BY <1>1, <1>2, <2>1, <2>2

\* Overwriting the value of an entry.
LEMMA ValueOverwritten ==
    ASSUME NEW H, NEW V, NEW e \in EntriesOf(H, V), NEW v \in V
    PROVE  /\ [e EXCEPT !.value = v] \in EntriesOf(H, V)
           /\ [e EXCEPT !.value = v].key = e.key /\ [e EXCEPT !.value = v].hash = e.hash
           /\ [e EXCEPT !.value = v].value = v
BY Zenon DEF EntriesOf

-----------------------------------------------------------------------------
(* The map of a table.  L gives the text at each handle. *)

Separate(t, L) == \A i, j \in Used(t) : L[t[i].key] = L[t[j].key] => i = j

\* A map with v at k.
With(m, k, v) == [x \in DOMAIN m \cup {k} |-> IF x = k THEN v ELSE m[x]]

KeysOf(t, L) == {L[t[i].key] : i \in Used(t)}
ValueOf(t, L, k) == t[CHOOSE i \in Used(t) : L[t[i].key] = k].value

\* The map of a table, in terms of its keys and their values.
LEMMA MapForm ==
    ASSUME NEW t, NEW L
    PROVE  MapOf(t, L) = [k \in KeysOf(t, L) |-> ValueOf(t, L, k)]
BY Zenon DEF MapOf, KeysOf, ValueOf

\* Each text has the value of its entry.
LEMMA MapValue ==
    ASSUME NEW t, NEW L, Separate(t, L), NEW i \in Used(t)
    PROVE  ValueOf(t, L, L[t[i].key]) = t[i].value
<1> DEFINE At(j) == j \in Used(t) /\ L[t[j].key] = L[t[i].key]
<1>1. At(i)
    OBVIOUS
<1>2. At(CHOOSE j : At(j))
    BY <1>1, Zenon
<1>3. \A j : At(j) => j = i
    BY DEF Separate
<1>4. (CHOOSE j : At(j)) = i
    BY <1>2, <1>3, Zenon
<1>5. (CHOOSE j \in Used(t) : L[t[j].key] = L[t[i].key]) = i
    BY <1>4
<1>6. QED
    BY <1>5, Zenon DEF ValueOf

\* Each key has an entry.
LEMMA KeyEntry ==
    ASSUME NEW t, NEW L
    PROVE  \A k : k \in KeysOf(t, L) <=> \E i \in Used(t) : L[t[i].key] = k
BY Zenon DEF KeysOf

\* Where the entries are makes no difference.
LEMMA SameMap ==
    ASSUME NEW t, NEW u, NEW L, Separate(t, L), Separate(u, L), EntrySet(t) = EntrySet(u)
    PROVE  MapOf(t, L) = MapOf(u, L)
<1>1. \A i \in Used(t) : \E j \in Used(u) : t[i] = u[j]
    BY DEF EntrySet
<1>2. \A j \in Used(u) : \E i \in Used(t) : t[i] = u[j]
    BY DEF EntrySet
<1>3. KeysOf(t, L) = KeysOf(u, L)
  <2>1. ASSUME NEW k \in KeysOf(t, L) PROVE k \in KeysOf(u, L)
    <3>1. PICK i \in Used(t) : L[t[i].key] = k
        BY KeyEntry
    <3>2. PICK j \in Used(u) : t[i] = u[j]
        BY <1>1
    <3>3. QED
        BY <3>1, <3>2, KeyEntry
  <2>2. ASSUME NEW k \in KeysOf(u, L) PROVE k \in KeysOf(t, L)
    <3>1. PICK j \in Used(u) : L[u[j].key] = k
        BY KeyEntry
    <3>2. PICK i \in Used(t) : t[i] = u[j]
        BY <1>2
    <3>3. QED
        BY <3>1, <3>2, KeyEntry
  <2>3. QED
      BY <2>1, <2>2
<1>4. ASSUME NEW k \in KeysOf(t, L) PROVE ValueOf(t, L, k) = ValueOf(u, L, k)
  <2>1. PICK i \in Used(t) : L[t[i].key] = k
      BY KeyEntry
  <2>2. PICK j \in Used(u) : t[i] = u[j]
      BY <1>1
  <2>3. QED
      BY <2>1, <2>2, MapValue
<1>5. QED
    BY <1>3, <1>4, MapForm

\* Writing an entry is storing its value at its text.
LEMMA MapWritten ==
    ASSUME NEW t, NEW u, NEW L, Separate(t, L), Separate(u, L), NEW s, NEW e,
           Changed(t, s, e, u), s \in Used(t) => L[t[s].key] = L[e.key]
    PROVE  MapOf(u, L) = With(MapOf(t, L), L[e.key], e.value)
<1>0. /\ Used(u) = Used(t) \cup {s} /\ u[s] = e
      /\ \A i \in Used(t) : i # s => u[i] = t[i]
    BY DEF Changed
<1> DEFINE D == KeysOf(t, L) \cup {L[e.key]}
<1>1. With(MapOf(t, L), L[e.key], e.value) =
        [k \in D |-> IF k = L[e.key] THEN e.value ELSE ValueOf(t, L, k)]
    BY MapForm DEF With
<1>2. KeysOf(u, L) = D
  <2>1. \A k : k \in KeysOf(u, L) => k \in D
      BY <1>0, KeyEntry
  <2>2. \A k : k \in KeysOf(t, L) => k \in KeysOf(u, L)
    <3> SUFFICES ASSUME NEW k \in KeysOf(t, L) PROVE \E i \in Used(u) : L[u[i].key] = k
        BY KeyEntry
    <3>1. PICK i \in Used(t) : L[t[i].key] = k
        BY KeyEntry
    <3>2. QED
        BY <1>0, <3>1
  <2>3. L[e.key] \in KeysOf(u, L)
      BY <1>0, KeyEntry
  <2>4. QED
      BY <2>1, <2>2, <2>3
<1>3. ASSUME NEW k \in D
      PROVE  ValueOf(u, L, k) = IF k = L[e.key] THEN e.value ELSE ValueOf(t, L, k)
  <2>1. PICK i \in Used(u) : L[u[i].key] = k
      BY <1>2, KeyEntry
  <2>2. ValueOf(u, L, k) = u[i].value
      BY <2>1, MapValue
  <2>3. CASE i = s
      BY <1>0, <2>1, <2>2, <2>3
  <2>4. CASE i # s
    <3>1. i \in Used(t) /\ u[i] = t[i] /\ s \in Used(u)
        BY <1>0, <2>4
    <3>2. k # L[e.key]
        BY <1>0, <2>1, <2>4, <3>1 DEF Separate
    <3>3. ValueOf(t, L, k) = u[i].value
        BY <2>1, <3>1, MapValue
    <3>4. QED
        BY <2>2, <3>2, <3>3
  <2>5. QED
      BY <2>3, <2>4
<1> HIDE DEF D
<1>4. QED
    BY <1>1, <1>2, <1>3, MapForm

-----------------------------------------------------------------------------
(* Operations.  K and L tell the same handles apart. *)

Agree(K, L) == \A g, h \in DOMAIN K : K[g] = K[h] <=> L[g] = L[h]

\* In a sound table the entries have keys of their own.
LEMMA SoundSeparate ==
    ASSUME NEW t, NEW c, NEW K, NEW F, NEW V, NEW L, Sound(t, c, K, F, V), Agree(K, L)
    PROVE  Separate(t, L)
<1>1. \A i \in Used(t) : t[i].key \in DOMAIN K
    BY SoundCap
<1>2. QED
    BY <1>1 DEF Sound, Separate, Agree

\* A lookup gives what the map gives.
\* A lookup gives what the map gives.
LEMMA LookupStep ==
    ASSUME NEW t, NEW c, NEW K, NEW F, NEW V, NEW L, Agree(K, L), NEW h, NEW s,
           Probing(t, c, K, F, V, h, s)
    PROVE  /\ t[s].occupied <=> s \in Used(t)
           /\ s \in Used(t) => /\ K[t[s].key] = K[h]
                               /\ L[h] \in DOMAIN MapOf(t, L) /\ MapOf(t, L)[L[h]] = t[s].value
           /\ s \notin Used(t) => L[h] \notin DOMAIN MapOf(t, L)
<1>0. /\ Sound(t, c, K, F, V) /\ Used(t) # DOMAIN t
      /\ h \in DOMAIN K /\ F[K[h]] \in Nat /\ s \in ProbeSlot(t, K[h], K, F)
    BY DEF Probing
<1>1. /\ s \in 0 .. c - 1
      /\ s \in Used(t) <=> Holds(t, K, K[h])
      /\ s \in Used(t) => K[t[s].key] = K[h]
    BY <1>0, ProbeResult
<1>2. t[s].occupied <=> s \in Used(t)
    BY <1>0, <1>1, OccupiedIsUsed DEF Sound
<1>3. \A i \in Used(t) : t[i].key \in DOMAIN K
    BY <1>0, SoundCap
<1>4. DOMAIN MapOf(t, L) = KeysOf(t, L)
    BY MapForm
<1>5. CASE s \in Used(t)
  <2>1. L[t[s].key] = L[h]
      BY <1>0, <1>1, <1>3, <1>5 DEF Agree
  <2>2. L[h] \in KeysOf(t, L)
      BY <1>5, <2>1, KeyEntry
  <2>3. ValueOf(t, L, L[h]) = t[s].value
      BY <1>0, <1>5, <2>1, SoundSeparate, MapValue
  <2>4. QED
      BY <1>1, <1>2, <1>4, <1>5, <2>2, <2>3, MapForm
<1>6. CASE s \notin Used(t)
  <2>1. \A i \in Used(t) : K[t[i].key] # K[h]
      BY <1>1, <1>6 DEF Holds
  <2>2. L[h] \notin KeysOf(t, L)
      BY <1>0, <1>3, <2>1, KeyEntry DEF Agree
  <2>3. QED
      BY <1>2, <1>4, <1>6, <2>2
<1>7. QED
    BY <1>5, <1>6

\* A store in a table whose keys the map reads by L.
StoringAs(t, c, K, F, V, e, s, u, L) == Storing(t, c, K, F, V, e, s, u) /\ Agree(K, L)

\* What it gives: a sound table of one entry more or as many, with the value in the map.
StoredAs(t, c, K, F, V, e, s, u, L) ==
    /\ Sound(u, c, K, F, V) /\ Cap(u) = c
    /\ s \in Used(t) => Cardinality(Used(u)) = Cardinality(Used(t))
    /\ s \notin Used(t) => Cardinality(Used(u)) = Cardinality(Used(t)) + 1
    /\ MapOf(u, L) = With(MapOf(t, L), L[e.key], e.value)

\* A store keeps the table sound, counts, and stores in the map.
LEMMA StoreStep ==
    ASSUME NEW t, NEW c, NEW K, NEW F, NEW V, NEW L, NEW e, NEW s, NEW u,
           StoringAs(t, c, K, F, V, e, s, u, L)
    PROVE  StoredAs(t, c, K, F, V, e, s, u, L)
<1> USE DEF StoringAs
<1>1. /\ Sound(u, c, K, F, V) /\ Changed(t, s, e, u)
      /\ s \in Used(t) => Cardinality(Used(u)) = Cardinality(Used(t))
      /\ s \notin Used(t) => Cardinality(Used(u)) = Cardinality(Used(t)) + 1
      /\ s \in Used(t) => K[t[s].key] = K[e.key]
    BY StoreSound
<1>2. Cap(u) = c
    BY <1>1, SoundCap
<1>3. Sound(t, c, K, F, V) /\ e.key \in DOMAIN K
    BY DEF Storing, EntriesOf
<1>4. Separate(t, L) /\ Separate(u, L)
    BY <1>1, <1>3, SoundSeparate
<1>5. s \in Used(t) => L[t[s].key] = L[e.key]
  <2>1. \A i \in Used(t) : t[i].key \in DOMAIN K
      BY <1>3, SoundCap
  <2>2. QED
      BY <1>1, <1>3, <2>1 DEF Agree
<1>6. MapOf(u, L) = With(MapOf(t, L), L[e.key], e.value)
    BY <1>1, <1>4, <1>5, MapWritten
<1>7. QED
    BY <1>1, <1>2, <1>6 DEF StoredAs

\* The map gives only values that were stored.
LEMMA MapValuesStored ==
    ASSUME NEW t, NEW c, NEW K, NEW F, NEW V, NEW L, Agree(K, L), Sound(t, c, K, F, V),
           NEW k \in DOMAIN MapOf(t, L)
    PROVE  MapOf(t, L)[k] \in V
<1>1. k \in KeysOf(t, L) /\ MapOf(t, L)[k] = ValueOf(t, L, k)
    BY MapForm
<1>2. PICK i \in Used(t) : L[t[i].key] = k
    BY <1>1, KeyEntry
<1>3. ValueOf(t, L, k) = t[i].value
    BY <1>2, SoundSeparate, MapValue
<1>4. QED
    BY <1>1, <1>3, SoundCap

-----------------------------------------------------------------------------
(* The order of the keys *)

\* Each element of a finite set of numbers has its place in the ascending order.
LEMMA AscendingRange ==
    ASSUME NEW S \in SUBSET Nat, IsFiniteSet(S)
    PROVE  /\ Cardinality(S) \in Nat
           /\ \A i \in 1 .. Cardinality(S) : Ascending(S)[i] \in S
           /\ \A n \in S : \E i \in 1 .. Cardinality(S) : Ascending(S)[i] = n
<1> DEFINE N == Cardinality(S)
           Upto(n) == {m \in S : m <= n}
           rank == [n \in S |-> Cardinality(Upto(n))]
<1>1. N \in Nat
    BY FS_CardinalityType
<1>2. \A n \in S : /\ IsFiniteSet(Upto(n)) /\ Cardinality(Upto(n)) \in 1 .. N
  <2> SUFFICES ASSUME NEW n \in S
               PROVE  IsFiniteSet(Upto(n)) /\ Cardinality(Upto(n)) \in 1 .. N
      OBVIOUS
  <2>1. Upto(n) \subseteq S /\ n \in Upto(n)
      OBVIOUS
  <2> HIDE DEF Upto
  <2>2. IsFiniteSet(Upto(n)) /\ Cardinality(Upto(n)) <= N
      BY <2>1, FS_Subset
  <2>3. Cardinality(Upto(n)) \in Nat /\ Cardinality(Upto(n)) # 0
      BY <2>1, <2>2, FS_CardinalityType, FS_EmptySet
  <2>4. QED
      BY <1>1, <2>2, <2>3
<1>3. \A n, p \in S : rank[n] = rank[p] => n = p
  <2>1. ASSUME NEW n \in S, NEW p \in S, n < p PROVE rank[n] # rank[p]
    <3>1. Upto(n) \subseteq Upto(p) /\ p \in Upto(p) /\ p \notin Upto(n)
      <4>1. n \in Nat /\ p \in Nat /\ n < p /\ ~(p <= n)
          BY <2>1
      <4>2. \A m \in S : m <= n => m <= p
          BY <4>1
      <4>3. \A m : m \in Upto(n) => m \in Upto(p)
          BY <4>2
      <4>4. p <= p
          BY <4>1
      <4>5. p \in Upto(p) /\ p \notin Upto(n)
          BY <2>1, <4>1, <4>4
      <4>6. QED
          BY <4>3, <4>5
    <3> HIDE DEF Upto
    <3>2. Upto(n) # Upto(p)
        BY <3>1
    <3>3. Cardinality(Upto(n)) < Cardinality(Upto(p))
        BY <1>2, <3>1, <3>2, FS_Subset
    <3>4. QED
        BY <1>2, <3>3
  <2> HIDE DEF rank
  <2>2. QED
      BY <2>1
<1>4. rank \in [S -> 1 .. N]
    BY <1>2
<1>5. \A i \in 1 .. N : \E n \in S : rank[n] = i
  <2>1. IsFiniteSet(1 .. N) /\ Cardinality(1 .. N) = N
      BY <1>1, FS_Interval
  <2> HIDE DEF rank, N
  <2>2. rank \in Injection(S, 1 .. N)
      BY <1>3, <1>4 DEF Injection, IsInjective
  <2>3. rank \in Surjection(S, 1 .. N)
      BY <2>1, <2>2, FS_Injection DEF N
  <2>4. QED
      BY <2>3 DEF Surjection
<1>6. \A i \in 1 .. N : Ascending(S)[i] \in S /\ rank[Ascending(S)[i]] = i
  <2> SUFFICES ASSUME NEW i \in 1 .. N
               PROVE  Ascending(S)[i] \in S /\ rank[Ascending(S)[i]] = i
      OBVIOUS
  <2> DEFINE Is(n) == n \in S /\ Cardinality({m \in S : m <= n}) = i
  <2>1. \E n : Is(n)
      BY <1>5
  <2>2. Is(CHOOSE n : Is(n))
      BY <2>1, Zenon
  <2>3. Ascending(S)[i] = CHOOSE n : Is(n)
      BY Zenon DEF Ascending
  <2>4. QED
      BY <2>2, <2>3
<1>7. ASSUME NEW n \in S PROVE \E i \in 1 .. N : Ascending(S)[i] = n
  <2>1. rank[n] \in 1 .. N
      BY <1>4
  <2> HIDE DEF rank, N
  <2>2. QED
      BY <1>3, <1>6, <2>1, Zenon
<1>8. QED
    BY <1>1, <1>6, <1>7, Zenon

\* The list of keys has the texts of the map.
LEMMA SlotOrderKeys ==
    ASSUME NEW t, NEW c, NEW K, NEW F, NEW V, NEW L, Sound(t, c, K, F, V)
    PROVE  {L[SlotOrder(t)[i]] : i \in DOMAIN SlotOrder(t)} = DOMAIN MapOf(t, L)
<1>1. c \in Nat \ {0} /\ t \in [0 .. c - 1 -> {Empty} \cup EntriesOf(DOMAIN K, V)]
    BY DEF Sound
<1>2. Used(t) \in SUBSET Nat /\ IsFiniteSet(Used(t))
    BY <1>1, TableFacts
<1> DEFINE N == Cardinality(Used(t))
           order == Ascending(Used(t))
<1>3. /\ \A i \in 1 .. N : order[i] \in Used(t)
      /\ \A j \in Used(t) : \E i \in 1 .. N : order[i] = j
    BY <1>2, AscendingRange
<1>4. DOMAIN SlotOrder(t) = 1 .. N /\ \A i \in 1 .. N : SlotOrder(t)[i] = t[order[i]].key
    BY DEF SlotOrder
<1> HIDE DEF N, order
<1>5. ASSUME NEW k \in {L[SlotOrder(t)[i]] : i \in DOMAIN SlotOrder(t)} PROVE k \in KeysOf(t, L)
  <2>1. PICK i \in 1 .. N : k = L[t[order[i]].key]
      BY <1>4
  <2>2. QED
      BY <1>3, <2>1, KeyEntry
<1>6. ASSUME NEW k \in KeysOf(t, L) PROVE k \in {L[SlotOrder(t)[i]] : i \in DOMAIN SlotOrder(t)}
  <2>1. PICK j \in Used(t) : L[t[j].key] = k
      BY KeyEntry
  <2>2. PICK i \in 1 .. N : order[i] = j
      BY <1>3
  <2>3. i \in DOMAIN SlotOrder(t) /\ L[SlotOrder(t)[i]] = k
      BY <1>4, <2>1, <2>2
  <2>4. QED
      BY <2>3
<1>7. QED
    BY <1>5, <1>6, MapForm

-----------------------------------------------------------------------------
(* The index, next to a table with its entries *)

\* A sound table with n entries, and at least one slot that is empty.
Counted(t, n, least, K, F, V) ==
    /\ Sound(t, Cap(t), K, F, V) /\ Cap(t) >= least
    /\ n = Cardinality(Used(t)) /\ n < Cap(t)

\* A table with the entries of the index.
Ready(t, c, K, F, V) ==
    /\ Sound(t, c, K, F, V)
    /\ len = Cardinality(Used(t)) /\ len < c
    /\ EntrySet(t) = EntrySet(entries)

\* Growing leaves room.
LEMMA GrownReady ==
    ASSUME NEW cap, NEW K, NEW F, NEW V, Sound(entries, cap, K, F, V),
           len = Cardinality(Used(entries)), len < cap,
           NEW u, u = Moved(entries, Blank(2 * Cap(entries)))
    PROVE  Ready(u, 2 * cap, K, F, V) /\ len + 1 < 2 * cap
<1>1. cap \in Nat \ {0} /\ len \in Nat
    BY SoundCap
<1>2. /\ Sound(u, 2 * cap, K, F, V) /\ EntrySet(u) = EntrySet(entries)
      /\ Cardinality(Used(u)) = Cardinality(Used(entries))
    BY MovedSound
<1>3. QED
    BY <1>1, <1>2 DEF Ready

\* Below the load limit there is room for one more entry and an empty slot.
LEMMA Threshold ==
    ASSUME NEW c \in Nat, c >= 4, NEW n \in Nat, n < LoadThreshold(c)
    PROVE  n + 1 < c
<1>1. PICK q \in Nat, r \in 0 .. 3 : q = c \div 4 /\ r = c % 4 /\ c = 4 * q + r
    OBVIOUS
<1>2. q >= 1 /\ (r * 3) \div 4 <= r
    BY <1>1
<1>3. QED
    BY <1>1, <1>2 DEF LoadThreshold

\* sarif_text_index_ensure_capacity gives a table with the same entries and room for one
\* more.
LEMMA NativeRoom ==
    ASSUME Counted(entries, len, 4, TextOf, Hash, Value), NEW t \in ensure_capacity
    PROVE  \E c \in Nat : c >= 4 /\ len + 1 < c /\ Ready(t, c, TextOf, Hash, Value)
<1> DEFINE cap == Cap(entries)
<1>1. /\ Sound(entries, cap, TextOf, Hash, Value) /\ cap >= 4
      /\ len = Cardinality(Used(entries)) /\ len < cap
    BY DEF Counted
<1>2. cap \in Nat \ {0} /\ len \in Nat
    BY <1>1, SoundCap
<1>3. CASE len < LoadThreshold(cap)
  <2>1. t = entries
      BY <1>3 DEF ensure_capacity
  <2>2. len + 1 < cap
      BY <1>1, <1>2, <1>3, Threshold
  <2>3. QED
      BY <1>1, <1>2, <2>1, <2>2 DEF Ready
<1>4. CASE ~(len < LoadThreshold(cap))
  <2>1. t = Moved(entries, Blank(2 * Cap(entries)))
      BY <1>4 DEF ensure_capacity, Rehashed
  <2>2. Ready(t, 2 * cap, TextOf, Hash, Value) /\ len + 1 < 2 * cap
      BY <1>1, <2>1, GrownReady
  <2>3. QED
      BY <1>1, <1>2, <2>2
<1>5. QED
    BY <1>3, <1>4

\* The lookup of the C runtime is the one described by ProbeSlot.
LEMMA NativeFind ==
    ASSUME NEW t, NEW h
    PROVE  find_entry(t, h) = ProbeSlot(t, TextOf[h], TextOf, Hash)
BY Zenon DEF find_entry, ProbeSlot, text_handle_eq

\* A lookup of the key at h in a table with the index's entries has stopped at s.
LEMMA ReadyProbing ==
    ASSUME NEW t, NEW c, NEW K, NEW F, NEW V, Ready(t, c, K, F, V),
           NEW h \in DOMAIN K, F[K[h]] \in Nat, NEW s \in ProbeSlot(t, K[h], K, F)
    PROVE  Probing(t, c, K, F, V, h, s)
<1>1. Sound(t, c, K, F, V) /\ Cardinality(Used(t)) < c
    BY DEF Ready
<1>2. Used(t) # DOMAIN t
    BY <1>1, SoundCap
<1>3. QED
    BY <1>1, <1>2 DEF Probing

\* A table made ready for a write stands for the same map.
LEMMA ReadyMap ==
    ASSUME NEW t, NEW c, NEW K, NEW F, NEW V, NEW L, Agree(K, L),
           Sound(entries, Cap(entries), K, F, V), Ready(t, c, K, F, V)
    PROVE  MapOf(t, L) = MapOf(entries, L)
<1>1. Sound(t, c, K, F, V) /\ EntrySet(t) = EntrySet(entries)
    BY DEF Ready
<1>2. Separate(t, L) /\ Separate(entries, L)
    BY <1>1, SoundSeparate
<1>3. QED
    BY <1>1, <1>2, SameMap

\* Its answer is that of the index's map.
LEMMA ReadyLookup ==
    ASSUME NEW t, NEW c, NEW K, NEW F, NEW V, NEW L, Agree(K, L),
           Sound(entries, Cap(entries), K, F, V), Ready(t, c, K, F, V), NEW h, NEW s,
           Probing(t, c, K, F, V, h, s)
    PROVE  /\ t[s].occupied <=> s \in Used(t)
           /\ s \in Used(t) => /\ L[h] \in DOMAIN MapOf(entries, L)
                               /\ MapOf(entries, L)[L[h]] = t[s].value
           /\ s \notin Used(t) => L[h] \notin DOMAIN MapOf(entries, L)
<1>1. MapOf(t, L) = MapOf(entries, L)
    BY ReadyMap
<1>2. /\ t[s].occupied <=> s \in Used(t)
      /\ s \in Used(t) => /\ K[t[s].key] = K[h]
                          /\ L[h] \in DOMAIN MapOf(t, L) /\ MapOf(t, L)[L[h]] = t[s].value
      /\ s \notin Used(t) => L[h] \notin DOMAIN MapOf(t, L)
    BY LookupStep, Zenon
<1>3. QED
    BY <1>1, <1>2

\* A store in a table with the index's entries, as the index's next table.
LEMMA ReadyStore ==
    ASSUME NEW t, NEW c, NEW K, NEW F, NEW V, NEW L, Agree(K, L),
           Sound(entries, Cap(entries), K, F, V), Ready(t, c, K, F, V), NEW e, NEW s,
           Storing(t, c, K, F, V, e, s, entries'), s \notin Used(t) => len + 1 < c,
           len' = IF s \in Used(t) THEN len ELSE len + 1
    PROVE  /\ Sound(entries', c, K, F, V) /\ Cap(entries') = c
           /\ len' = Cardinality(Used(entries')) /\ len' < c
           /\ MapOf(entries', L) = With(MapOf(entries, L), L[e.key], e.value)
<1>1. len = Cardinality(Used(t)) /\ len < c
    BY DEF Ready
<1>2. MapOf(t, L) = MapOf(entries, L)
    BY ReadyMap
<1>3. /\ Sound(entries', c, K, F, V) /\ Cap(entries') = c
      /\ s \in Used(t) => Cardinality(Used(entries')) = Cardinality(Used(t))
      /\ s \notin Used(t) => Cardinality(Used(entries')) = Cardinality(Used(t)) + 1
      /\ MapOf(entries', L) = With(MapOf(t, L), L[e.key], e.value)
  <2>1. StoringAs(t, c, K, F, V, e, s, entries', L)
      BY DEF StoringAs
  <2>2. StoredAs(t, c, K, F, V, e, s, entries', L)
      BY <2>1, StoreStep, Zenon
  <2>3. QED
      BY <2>2, Zenon DEF StoredAs
<1>4. len' = Cardinality(Used(entries')) /\ len' < c
    BY <1>1, <1>3
<1>5. QED
    BY <1>2, <1>3, <1>4

-----------------------------------------------------------------------------
(* The native and the Wasm runtime *)

\* What is known of an entry for a text.
LEMMA TextFacts ==
    ASSUME NEW h \in Handle, NEW v \in Value
    PROVE  LET e == Entry(h, v, Hash[TextOf[h]])
           IN  /\ h \in DOMAIN TextOf /\ TextOf[h] \in Text /\ Hash[TextOf[h]] \in Nat
               /\ Agree(TextOf, TextOf)
               /\ e \in EntriesOf(DOMAIN TextOf, Value)
               /\ e.key = h /\ e.value = v /\ e.hash = Hash[TextOf[h]]
<1>1. h \in DOMAIN TextOf /\ TextOf[h] \in Text /\ Hash[TextOf[h]] \in Nat
    BY IndexAssumption DEF Text
<1>2. QED
    BY <1>1 DEF Entry, EntriesOf, Agree

HashFacts ==
    \A h \in Handle : h \in DOMAIN TextOf /\ TextOf[h] \in Text /\ Hash[TextOf[h]] \in Nat

\* Texts have hashes, and equal texts are one key.
LEMMA HashesAreNumbers == HashFacts /\ Agree(TextOf, TextOf)
BY IndexAssumption DEF Text, HashFacts, Agree

\* What an operation that stores v at the text k does to the table and the map.
Stores(k, v) ==
    /\ Counted(entries', len', 4, TextOf, Hash, Value)
    /\ MapOf(entries', TextOf) = With(MapOf(entries, TextOf), k, v)

\* What an operation that changes nothing, or only the capacity, does.
Keeps ==
    /\ Counted(entries', len', 4, TextOf, Hash, Value)
    /\ MapOf(entries', TextOf) = MapOf(entries, TextOf)

\* A lookup on a table made ready for a write.
LEMMA TextProbing ==
    ASSUME NEW t, NEW c, Ready(t, c, TextOf, Hash, Value), NEW h \in Handle,
           NEW s \in ProbeSlot(t, TextOf[h], TextOf, Hash)
    PROVE  Probing(t, c, TextOf, Hash, Value, h, s)
<1>1. h \in DOMAIN TextOf /\ Hash[TextOf[h]] \in Nat
    BY HashesAreNumbers DEF HashFacts
<1>2. QED
    BY <1>1, ReadyProbing

\* A lookup in a table with the index's entries.
LEMMA TextLookup ==
    ASSUME Counted(entries, len, 4, TextOf, Hash, Value),
           NEW t, NEW c, Ready(t, c, TextOf, Hash, Value), NEW h \in Handle,
           NEW s \in ProbeSlot(t, TextOf[h], TextOf, Hash)
    PROVE  /\ t[s].occupied <=> s \in Used(t)
           /\ s \in Used(t) => /\ TextOf[h] \in DOMAIN MapOf(entries, TextOf)
                               /\ MapOf(entries, TextOf)[TextOf[h]] = t[s].value
           /\ s \notin Used(t) => TextOf[h] \notin DOMAIN MapOf(entries, TextOf)
<1>1. Probing(t, c, TextOf, Hash, Value, h, s)
    BY TextProbing
<1>2. Sound(entries, Cap(entries), TextOf, Hash, Value)
    BY DEF Counted
<1>3. QED
    BY <1>1, <1>2, HashesAreNumbers, ReadyLookup, Zenon

\* A store in one with room.
LEMMA TextStore ==
    ASSUME Counted(entries, len, 4, TextOf, Hash, Value),
           NEW t, NEW c \in Nat, c >= 4, len + 1 < c, Ready(t, c, TextOf, Hash, Value),
           NEW e, NEW s, Storing(t, c, TextOf, Hash, Value, e, s, entries'),
           len' = IF s \in Used(t) THEN len ELSE len + 1
    PROVE  Stores(TextOf[e.key], e.value)
<1>1. Sound(entries, Cap(entries), TextOf, Hash, Value)
    BY DEF Counted
<1>2. /\ Sound(entries', c, TextOf, Hash, Value) /\ Cap(entries') = c
      /\ len' = Cardinality(Used(entries')) /\ len' < c
      /\ MapOf(entries', TextOf) = With(MapOf(entries, TextOf), TextOf[e.key], e.value)
    BY <1>1, HashesAreNumbers, ReadyStore
<1>3. QED
    BY <1>2 DEF Stores, Counted

\* Writing at the slot found stores the key in the map.
LEMMA NativeStore ==
    ASSUME Counted(entries, len, 4, TextOf, Hash, Value),
           NEW t, NEW c \in Nat, c >= 4, len + 1 < c, Ready(t, c, TextOf, Hash, Value),
           NEW h \in Handle, NEW v \in Value, NEW s \in ProbeSlot(t, TextOf[h], TextOf, Hash),
           Store(t, s, h, v)
    PROVE  Stores(TextOf[h], v)
<1> DEFINE e == Entry(h, v, Hash[TextOf[h]])
<1>1. /\ e \in EntriesOf(DOMAIN TextOf, Value)
      /\ e.key = h /\ e.value = v /\ e.hash = Hash[TextOf[h]]
    BY TextFacts
<1>2. t[s].occupied <=> s \in Used(t)
    BY TextLookup
<1>3. Writes(t, s, e, entries') /\ len' = IF s \in Used(t) THEN len ELSE len + 1
    BY <1>2 DEF Store, Writes
<1> HIDE DEF e
<1>4. Sound(t, c, TextOf, Hash, Value) /\ Used(t) # DOMAIN t
    BY TextProbing DEF Probing
<1>5. Storing(t, c, TextOf, Hash, Value, e, s, entries')
    BY <1>1, <1>3, <1>4 DEF Storing
<1>6. Stores(TextOf[e.key], e.value)
    BY <1>3, <1>5, TextStore
<1>7. QED
    BY <1>1, <1>6

\* A table that only grew stands for the same map.
LEMMA ReadyKeeps ==
    ASSUME Counted(entries, len, 4, TextOf, Hash, Value),
           NEW t, NEW c \in Nat, c >= 4, Ready(t, c, TextOf, Hash, Value),
           entries' = t, len' = len
    PROVE  Keeps
<1>1. /\ Sound(t, c, TextOf, Hash, Value) /\ Sound(entries, Cap(entries), TextOf, Hash, Value)
      /\ EntrySet(t) = EntrySet(entries) /\ len = Cardinality(Used(t)) /\ len < c
    BY DEF Counted, Ready
<1>2. Cap(t) = c
    BY <1>1, SoundCap
<1>3. MapOf(t, TextOf) = MapOf(entries, TextOf)
    BY <1>1, HashesAreNumbers, ReadyMap
<1>4. QED
    BY <1>1, <1>2, <1>3 DEF Keeps, Counted

\* The table as it is, is ready for a lookup.
LEMMA EntriesReady ==
    ASSUME NEW least, NEW K, NEW F, NEW V, Counted(entries, len, least, K, F, V)
    PROVE  Ready(entries, Cap(entries), K, F, V)
BY DEF Counted, Ready

\* sarif_text_index_set stores the value in the map.
LEMMA NativeSet ==
    ASSUME Counted(entries, len, 4, TextOf, Hash, Value),
           NEW h \in Handle, NEW v \in Value, text_index_set(h, v)
    PROVE  Stores(TextOf[h], v)
<1>1. PICK t \in ensure_capacity : \E s \in find_entry(t, h) : Store(t, s, h, v)
    BY DEF text_index_set
<1>2. PICK s \in find_entry(t, h) : Store(t, s, h, v)
    BY <1>1
<1>3. PICK c \in Nat : c >= 4 /\ len + 1 < c /\ Ready(t, c, TextOf, Hash, Value)
    BY NativeRoom
<1>4. s \in ProbeSlot(t, TextOf[h], TextOf, Hash)
    BY <1>2, NativeFind
<1>5. QED
    BY <1>2, <1>3, <1>4, NativeStore

\* sarif_text_index_get_or_insert answers with the value in the map, or stores the one given.
LEMMA NativeGetOrInsert ==
    ASSUME Counted(entries, len, 4, TextOf, Hash, Value),
           NEW h \in Handle, NEW v \in Value, text_index_get_or_insert(h, v)
    PROVE  \/ /\ TextOf[h] \in DOMAIN MapOf(entries, TextOf) /\ Keeps
              /\ answer' = Result("text_index_get_or_insert", TextOf[h],
                                  MapOf(entries, TextOf)[TextOf[h]])
           \/ /\ TextOf[h] \notin DOMAIN MapOf(entries, TextOf) /\ Stores(TextOf[h], v)
              /\ answer' = Result("text_index_get_or_insert", TextOf[h], v)
<1> DEFINE M == MapOf(entries, TextOf)
<1>1. PICK t \in ensure_capacity : \E s \in find_entry(t, h) :
         \/ /\ t[s].occupied /\ entries' = t /\ len' = len
            /\ answer' = Result("text_index_get_or_insert", TextOf[h], t[s].value)
         \/ /\ ~t[s].occupied /\ Store(t, s, h, v)
            /\ answer' = Result("text_index_get_or_insert", TextOf[h], v)
    BY DEF text_index_get_or_insert
<1>2. PICK s \in find_entry(t, h) :
         \/ /\ t[s].occupied /\ entries' = t /\ len' = len
            /\ answer' = Result("text_index_get_or_insert", TextOf[h], t[s].value)
         \/ /\ ~t[s].occupied /\ Store(t, s, h, v)
            /\ answer' = Result("text_index_get_or_insert", TextOf[h], v)
    BY <1>1
<1>3. PICK c \in Nat : c >= 4 /\ len + 1 < c /\ Ready(t, c, TextOf, Hash, Value)
    BY NativeRoom
<1>4. s \in ProbeSlot(t, TextOf[h], TextOf, Hash)
    BY <1>2, NativeFind
<1>5. /\ t[s].occupied <=> s \in Used(t)
      /\ s \in Used(t) => TextOf[h] \in DOMAIN M /\ M[TextOf[h]] = t[s].value
      /\ s \notin Used(t) => TextOf[h] \notin DOMAIN M
    BY <1>3, <1>4, TextLookup
<1>6. CASE s \in Used(t)
  <2>1. Keeps
      BY <1>2, <1>3, <1>5, <1>6, ReadyKeeps
  <2>2. QED
      BY <1>2, <1>5, <1>6, <2>1
<1>7. CASE s \notin Used(t)
  <2>1. Stores(TextOf[h], v)
      BY <1>2, <1>3, <1>4, <1>5, <1>7, NativeStore
  <2>2. QED
      BY <1>2, <1>5, <1>7, <2>1
<1>8. QED
    BY <1>6, <1>7, Zenon
=============================================================================
