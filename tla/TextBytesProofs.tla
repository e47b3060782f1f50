-------------------------- MODULE TextBytesProofs ---------------------------
(***************************************************************************)
(* Facts about the operators of TextBytes, for every text and every        *)
(* number: least and greatest numbers, cuts of a byte sequence, the first  *)
(* place of a byte, the boundaries of characters and the characters        *)
(* between two offsets, the pieces between separators, the bytes of a      *)
(* number's decimal notation and of a code point, and capacities that grow *)
(* by half or by doubling until they suffice.                              *)
(*                                                                         *)
(* Induction over numbers takes the form of a set that holds every number  *)
(* up to, or down from, a bound (UpTo, DownTo); a recursive function is    *)
(* shown to exist by extending it one argument at a time.                  *)
(***************************************************************************)
EXTENDS TextBytes, WellFoundedInduction, TLAPS

-----------------------------------------------------------------------------
(* Numbers *)

\* Every set of numbers that is not empty has a least one.
LEMMA LeastNumber ==
    ASSUME NEW S \in SUBSET Nat, S # {}
    PROVE  \E n \in S : \A m \in S : n <= m
<1> DEFINE Less == {ss \in Nat \X Nat : ss[1] < ss[2]}
<1>1. IsWellFoundedOn(Less, Nat)
    BY NatLessThanWellFounded DEF OpToRel
<1>2. PICK n \in S : \A m \in S : ~(<<m, n>> \in Less)
  <2> HIDE DEF Less
  <2>1. QED
      BY <1>1, WFMin, Zenon
<1>3. ASSUME NEW m \in S PROVE n <= m
  <2>1. n \in Nat /\ m \in Nat /\ ~(<<m, n>> \in Less)
      BY <1>2
  <2>2. <<m, n>> \in Nat \X Nat /\ <<m, n>>[1] = m /\ <<m, n>>[2] = n
      BY <2>1
  <2>3. ~(m < n)
      BY <2>1, <2>2
  <2>4. QED
      BY <2>1, <2>3
<1>4. QED
    BY <1>3

\* The number Min chooses.
LEMMA MinIs ==
    ASSUME NEW S \in SUBSET Int, NEW n \in S, \A m \in S : n <= m
    PROVE  Min(S) = n
<1> DEFINE Least(k) == k \in S /\ \A m \in S : k <= m
<1>1. Least(n)
    OBVIOUS
<1>2. Least(CHOOSE k : Least(k))
    BY <1>1, Zenon
<1>3. \A k : Least(k) => k = n
    OBVIOUS
<1>4. (CHOOSE k : Least(k)) = n
    BY <1>2, <1>3, Zenon
<1>5. QED
    BY <1>4 DEF Min

\* The greatest element of a set, given one that is greatest.
LEMMA MaxIs ==
    ASSUME NEW S \in SUBSET Int, NEW n \in S, \A m \in S : n >= m
    PROVE  Max(S) = n
<1> DEFINE Largest(k) == k \in S /\ \A m \in S : k >= m
<1>1. Largest(n)
    OBVIOUS
<1>2. Largest(CHOOSE k : Largest(k))
    BY <1>1, Zenon
<1>3. \A k : Largest(k) => k = n
    OBVIOUS
<1>4. (CHOOSE k : Largest(k)) = n
    BY <1>2, <1>3, Zenon
<1>5. QED
    BY <1>4 DEF Max

\* The least and the greatest of two numbers.
LEMMA OfTwo ==
    ASSUME NEW a \in Int, NEW b \in Int
    PROVE  /\ Min({a, b}) = IF a <= b THEN a ELSE b
           /\ Max({a, b}) = IF a >= b THEN a ELSE b
<1>1. Min({a, b}) = IF a <= b THEN a ELSE b
    BY MinIs
<1>2. Max({a, b}) = IF a >= b THEN a ELSE b
    BY MaxIs
<1>3. QED
    BY <1>1, <1>2

\* The greater of two numbers in order is the second.
LEMMA MaxSecond ==
    ASSUME NEW n \in Int, NEW i \in Int, i <= n
    PROVE  Max({i, n}) = n
<1> DEFINE S == {i, n}
<1>1. S \in SUBSET Int /\ n \in S /\ \A m \in S : n >= m
    OBVIOUS
<1> HIDE DEF S
<1>2. Max(S) = n
    BY <1>1, MaxIs
<1>3. QED
    BY <1>2 DEF S

\* An ASCII byte is unchanged by the JIT's reduction to a byte.
LEMMA SameByte ==
    ASSUME NEW x \in 0 .. 127
    PROVE  x % 256 = x
OBVIOUS

\* What is true of 0 and of i + 1 whenever it is true of i, up to n: the set form of
\* induction.
LEMMA UpTo ==
    ASSUME NEW n \in Nat, NEW S, 0 \in S, \A i \in 0 .. n - 1 : i \in S => i + 1 \in S
    PROVE  \A i \in 0 .. n : i \in S
<1> DEFINE Bad == {i \in 0 .. n : i \notin S}
<1> SUFFICES ASSUME Bad # {} PROVE FALSE
    OBVIOUS
<1>1. PICK i \in Bad : \A j \in Bad : i <= j
    BY LeastNumber, Bad \in SUBSET Nat, Zenon
<1>2. i # 0 /\ i \in 0 .. n /\ i \notin S
    OBVIOUS
<1>3. i - 1 \in 0 .. n - 1 /\ i - 1 \notin Bad /\ (i - 1) + 1 = i
    BY <1>1, <1>2
<1>4. i - 1 \in S
    BY <1>3
<1>5. QED
    BY <1>2, <1>3, <1>4

\* The same from n down to low.
LEMMA DownTo ==
    ASSUME NEW low \in Int, NEW n \in Int, low <= n, NEW S,
           \A i \in low .. n : (\A j \in i + 1 .. n : j \in S) => i \in S
    PROVE  \A i \in low .. n : i \in S
<1> DEFINE Bad == {d \in 0 .. n - low : n - d \notin S}
<1> SUFFICES ASSUME NEW i \in low .. n, i \notin S PROVE FALSE
    OBVIOUS
<1>1. n - i \in Bad
    BY n - (n - i) = i
<1>2. PICK d \in Bad : \A k \in Bad : d <= k
    BY <1>1, LeastNumber, Bad \in SUBSET Nat, Zenon
<1>3. ASSUME NEW j \in n - d + 1 .. n PROVE j \in S
  <2>1. n - j \in 0 .. n - low /\ ~(d <= n - j) /\ n - (n - j) = j
      BY <1>2
  <2>2. QED
      BY <1>2, <2>1
<1>4. QED
    BY <1>2, <1>3

-----------------------------------------------------------------------------
(* Sequences *)

\* Two sequences, one behind the other.
LEMMA JoinIs ==
    ASSUME NEW S, NEW p \in Seq(S), NEW q \in Seq(S)
    PROVE  /\ p \o q \in Seq(S) /\ Len(p \o q) = Len(p) + Len(q)
           /\ \A i \in 1 .. Len(p) : (p \o q)[i] = p[i]
           /\ \A i \in 1 .. Len(q) : (p \o q)[Len(p) + i] = q[i]
OBVIOUS

\* One of them may be empty,
LEMMA JoinNothing ==
    ASSUME NEW S, NEW p \in Seq(S)
    PROVE  <<>> \o p = p /\ p \o <<>> = p
OBVIOUS

\* or hold one element;
LEMMA JoinOne ==
    ASSUME NEW S, NEW p \in Seq(S), NEW x \in S
    PROVE  /\ Append(p, x) \in Seq(S) /\ Len(Append(p, x)) = Len(p) + 1
           /\ Append(p, x) = p \o <<x>>
OBVIOUS

\* and a third may follow.
LEMMA JoinTwice ==
    ASSUME NEW S, NEW p \in Seq(S), NEW q \in Seq(S), NEW r \in Seq(S)
    PROVE  (p \o q) \o r = p \o (q \o r)
BY SMTT(30)

\* Sequences with the same elements are the same.
LEMMA SameElements ==
    ASSUME NEW S, NEW p \in Seq(S), NEW q \in Seq(S), Len(p) = Len(q),
           \A i \in 1 .. Len(p) : p[i] = q[i]
    PROVE  p = q
OBVIOUS

\* A sequence over a set is one over a larger set.
LEMMA Wider ==
    ASSUME NEW S, NEW T, S \subseteq T, NEW p \in Seq(S)
    PROVE  p \in Seq(T)
OBVIOUS

\* A cut inside a sequence has the bytes of its range.
LEMMA CutIs ==
    ASSUME NEW t \in Seq(Int), NEW s \in 0 .. Len(t), NEW e \in s .. Len(t)
    PROVE  /\ Cut(t, s, e) \in Seq(Int) /\ Len(Cut(t, s, e)) = e - s
           /\ \A i \in 0 .. e - s - 1 : At(Cut(t, s, e), i) = At(t, s + i)
<1>1. Len(t) \in Nat /\ s \in Nat /\ e \in Nat /\ s <= e
    OBVIOUS
<1>2. Cut(t, s, e) \in Seq(Int) /\ Len(Cut(t, s, e)) = e - s
    BY <1>1 DEF Cut
<1>3. ASSUME NEW i \in 0 .. e - s - 1 PROVE At(Cut(t, s, e), i) = At(t, s + i)
  <2>1. i + 1 \in 1 .. e - s /\ (s + 1) + (i + 1) - 1 = (s + i) + 1
      BY <1>1
  <2>2. SubSeq(t, s + 1, e)[i + 1] = t[(s + 1) + (i + 1) - 1]
      BY <1>1, <2>1
  <2>3. QED
      BY <2>1, <2>2 DEF Cut, At
<1>4. QED
    BY <1>2, <1>3

\* The cut from end to end is the sequence.
LEMMA CutWhole ==
    ASSUME NEW t \in Seq(Int)
    PROVE  Cut(t, 0, Len(t)) = t
BY DEF Cut

\* A cut that ends where it starts, or before, is empty.
LEMMA CutEmpty ==
    ASSUME NEW t \in Seq(Int), NEW s \in Int, NEW e \in Int, e <= s
    PROVE  Cut(t, s, e) = <<>>
BY DEF Cut

\* A cut of a cut is a cut.
LEMMA CutCut ==
    ASSUME NEW t \in Seq(Int), NEW s \in 0 .. Len(t), NEW e \in s .. Len(t),
           NEW a \in 0 .. e - s, NEW b \in a .. e - s
    PROVE  Cut(Cut(t, s, e), a, b) = Cut(t, s + a, s + b)
BY DEF Cut

\* Two cuts that meet are the whole.
LEMMA CutsMeet ==
    ASSUME NEW t \in Seq(Int), NEW i \in 0 .. Len(t)
    PROVE  t = Cut(t, 0, i) \o Cut(t, i, Len(t))
<1> DEFINE l == Cut(t, 0, i)
           r == Cut(t, i, Len(t))
<1>1. Len(t) \in Nat /\ i \in Nat /\ i <= Len(t)
    OBVIOUS
<1>2. l \in Seq(Int) /\ Len(l) = i /\ \A j \in 1 .. i : l[j] = t[j]
    BY <1>1 DEF Cut
<1>3. r \in Seq(Int) /\ Len(r) = Len(t) - i /\ \A j \in 1 .. (Len(t) - i) : r[j] = t[i + j]
    BY <1>1 DEF Cut
<1> HIDE DEF l, r
<1>4. PICK n \in Nat : n = Len(t)
    BY <1>1
<1>5. PICK w : w = l \o r
    BY Zenon
<1>6. /\ w \in Seq(Int) /\ Len(w) = Len(l) + Len(r)
      /\ \A j \in 1 .. Len(l) : w[j] = l[j]
      /\ \A j \in 1 .. Len(r) : w[Len(l) + j] = r[j]
  <2>1. l \in Seq(Int) /\ r \in Seq(Int)
      BY <1>2, <1>3
  <2>2. /\ l \o r \in Seq(Int) /\ Len(l \o r) = Len(l) + Len(r)
        /\ \A j \in 1 .. Len(l) : (l \o r)[j] = l[j]
        /\ \A j \in 1 .. Len(r) : (l \o r)[Len(l) + j] = r[j]
      BY <2>1
  <2>3. QED
      BY <1>5, <2>2, Zenon
<1>7. Len(w) = n
    BY <1>1, <1>2, <1>3, <1>4, <1>6
<1>8. ASSUME NEW j \in 1 .. n PROVE w[j] = t[j]
  <2>1. CASE j <= i
    <3>1. j \in 1 .. i
        BY <1>1, <2>1
    <3>2. QED
        BY <1>2, <1>6, <3>1, SMTT(30)
  <2>2. CASE j > i
    <3>1. j - i \in 1 .. (n - i) /\ i + (j - i) = j
        BY <1>1, <1>4, <2>2
    <3>2. r[j - i] = t[i + (j - i)] /\ w[i + (j - i)] = r[j - i]
        BY <1>2, <1>3, <1>4, <1>6, <3>1, SMTT(30)
    <3>3. QED
        BY <3>1, <3>2
  <2>3. QED
      BY <1>1, <2>1, <2>2
<1>9. w = t
  <2>1. Len(w) = Len(t) /\ \A j \in 1 .. Len(w) : w[j] = t[j]
      BY <1>4, <1>7, <1>8, Zenon
  <2>2. QED
      BY <1>6, <2>1, SameElements, Zenon
<1>10. QED
    BY <1>5, <1>9, Zenon DEF l, r

\* One more element at the start of a sequence.
LEMMA OneBefore ==
    ASSUME NEW S, NEW x \in S, NEW r \in Seq(S)
    PROVE  <<x>> \o r \in Seq(S)
<1>1. <<x>> \in Seq(S)
    OBVIOUS
<1>2. QED
    BY <1>1, JoinIs

\* One more element, at the end of one sequence or at the start of the next.
MoreOf(S, p, x, r) == p \in Seq(S) /\ x \in S /\ r \in Seq(S)

Added(S, p, x, r) == /\ Append(p, x) \in Seq(S) /\ Len(Append(p, x)) = Len(p) + 1
                     /\ Append(p, x) \o r = p \o (<<x>> \o r)

\* Appending an element, and then the rest, is the same as the rest with the
\* element before it.
LEMMA OneMore ==
    ASSUME NEW S, NEW p, NEW x, NEW r, MoreOf(S, p, x, r)
    PROVE  Added(S, p, x, r)
<1> USE DEF MoreOf
<1>1. <<x>> \in Seq(S)
    OBVIOUS
<1>2. Append(p, x) \in Seq(S) /\ Len(Append(p, x)) = Len(p) + 1
    BY JoinOne
<1>3. Append(p, x) = p \o <<x>>
    BY JoinOne
<1>4. (p \o <<x>>) \o r = p \o (<<x>> \o r)
    BY <1>1, JoinTwice
<1>5. QED
    BY <1>2, <1>3, <1>4 DEF Added

\* The first place of a byte in a range.
LEMMA FirstAtIs ==
    ASSUME NEW t, NEW b, NEW s \in Nat, NEW e \in Nat, s <= e
    PROVE  LET f == FirstAt(t, b, s, e)
           IN  /\ f \in s .. e
               /\ f < e => At(t, f) = b
               /\ \A i \in s .. f - 1 : At(t, i) # b
<1> DEFINE hits == {i \in s .. (e - 1) : At(t, i) = b} \cup {e}
<1>1. PICK n \in hits : \A m \in hits : n <= m
    BY LeastNumber, hits \in SUBSET Nat, Zenon
<1>2. Min(hits) = n
    BY <1>1, MinIs, hits \in SUBSET Int
<1>3. FirstAt(t, b, s, e) = n
    BY <1>2 DEF FirstAt
<1>4. QED
    BY <1>1, <1>3

\* It is the only place like that.
LEMMA FirstAtUnique ==
    ASSUME NEW t, NEW b, NEW s \in Nat, NEW e \in Nat, NEW f \in s .. e,
           f < e => At(t, f) = b, \A i \in s .. f - 1 : At(t, i) # b
    PROVE  FirstAt(t, b, s, e) = f
<1> DEFINE hits == {i \in s .. (e - 1) : At(t, i) = b} \cup {e}
<1>1. f \in hits /\ hits \in SUBSET Int /\ \A m \in hits : f <= m
    OBVIOUS
<1>2. QED
    BY <1>1, MinIs, Zenon DEF FirstAt

-----------------------------------------------------------------------------
(* Boundaries.  The offsets a range helper moves to, forwards and backwards. *)

ForwardTo(t, i) == Min({j \in i .. Len(t) : Boundary(t, j)})
BackTo(t, i) == Max({j \in 0 .. i : Boundary(t, j)})

\* Forwards there is a boundary, the end of the text at the latest.
LEMMA ForwardIs ==
    ASSUME NEW t, Len(t) \in Nat, NEW i \in 0 .. Len(t)
    PROVE  LET f == ForwardTo(t, i)
           IN  /\ f \in i .. Len(t) /\ Boundary(t, f)
               /\ \A j \in i .. f - 1 : At(t, j) \in Continuation
               /\ Boundary(t, i) => f = i
<1> DEFINE S == {j \in i .. Len(t) : Boundary(t, j)}
<1>1. Len(t) \in S /\ S \in SUBSET Nat
    BY DEF Boundary
<1>2. PICK n \in S : \A m \in S : n <= m
    BY <1>1, LeastNumber, Zenon
<1>3. ForwardTo(t, i) = n
    BY <1>1, <1>2, MinIs DEF ForwardTo
<1>4. \A j \in i .. n - 1 : j \notin S /\ j \in i .. Len(t)
    BY <1>2
<1>5. \A j \in i .. n - 1 : At(t, j) \in Continuation
    BY <1>4 DEF Boundary
<1>6. Boundary(t, i) => n = i
    BY <1>2
<1>7. QED
    BY <1>2, <1>3, <1>5, <1>6

\* Backwards too, when the text starts at one.
LEMMA BackIs ==
    ASSUME NEW t, Len(t) \in Nat, NEW i \in 0 .. Len(t), Boundary(t, i)
    PROVE  BackTo(t, i) = i /\ Max({0} \cup {j \in 0 .. i : Boundary(t, j)}) = i
<1> DEFINE S == {j \in 0 .. i : Boundary(t, j)}
<1>1. /\ S \in SUBSET Int /\ i \in S /\ \A m \in S : i >= m
      /\ {0} \cup S \in SUBSET Int /\ i \in {0} \cup S /\ \A m \in {0} \cup S : i >= m
    OBVIOUS
<1> HIDE DEF S
<1>2. Max(S) = i /\ Max({0} \cup S) = i
    BY <1>1, MaxIs, Zenon
<1>3. QED
    BY <1>2 DEF S, BackTo

\* A text starts and ends at a boundary.
LEMMA TextEnds ==
    ASSUME NEW t, IsText(t)
    PROVE  /\ t \in Seq(Int) /\ Len(t) \in Nat
           /\ Boundary(t, 0) /\ Boundary(t, Len(t))
<1>1. t \in Seq(0 .. 255) /\ WellFormed(t)
    BY DEF IsText
<1>2. t \in Seq(Int) /\ Len(t) \in Nat
  <2>1. 0 .. 255 \subseteq Int
      OBVIOUS
  <2>2. t \in Seq(Int)
      BY <1>1, <2>1, Wider, Zenon
  <2>3. QED
      BY <2>2
<1>3. Boundary(t, 0)
  <2>1. CASE Len(t) = 0
      BY <2>1 DEF Boundary
  <2>2. CASE Len(t) # 0
    <3>1. 0 \in Offsets(t)
        BY <1>2, <2>2 DEF Offsets
    <3>2. At(t, 0) \notin Continuation
        BY <1>1, <3>1 DEF WellFormed
    <3>3. QED
        BY <3>2 DEF Boundary
  <2>3. QED
      BY <2>1, <2>2
<1>4. QED
    BY <1>2, <1>3 DEF Boundary

\* A search may start behind bytes that are not looked for.
LEMMA FirstAtBehind ==
    ASSUME NEW t, NEW b, NEW s \in Nat, NEW e \in Nat, NEW r \in s .. e,
           \A i \in s .. r - 1 : At(t, i) # b
    PROVE  FirstAt(t, b, r, e) = FirstAt(t, b, s, e)
<1> DEFINE f == FirstAt(t, b, r, e)
<1>1. f \in r .. e /\ (f < e => At(t, f) = b) /\ \A i \in r .. f - 1 : At(t, i) # b
    BY FirstAtIs
<1> HIDE DEF f
<1>2. f \in s .. e /\ \A i \in s .. f - 1 : At(t, i) # b
    BY <1>1
<1>3. FirstAt(t, b, s, e) = f
    BY <1>1, <1>2, FirstAtUnique
<1>4. QED
    BY <1>3 DEF f

\* A search in a cut is a search in the range it was cut from.
LEMMA FirstAtCut ==
    ASSUME NEW t \in Seq(Int), NEW s \in 0 .. Len(t), NEW e \in s .. Len(t), NEW b
    PROVE  FirstAt(Cut(t, s, e), b, 0, e - s) = FirstAt(t, b, s, e) - s
<1> DEFINE f == FirstAt(t, b, s, e)
           c == Cut(t, s, e)
<1>1. f \in s .. e /\ (f < e => At(t, f) = b) /\ \A i \in s .. f - 1 : At(t, i) # b
    BY FirstAtIs
<1>2. \A i \in 0 .. e - s - 1 : At(c, i) = At(t, s + i)
    BY CutIs
<1> HIDE DEF f, c
<1>3. f - s \in 0 .. e - s
    BY <1>1
<1>4. f - s < e - s => At(c, f - s) = b
  <2>1. SUFFICES ASSUME f - s < e - s PROVE At(c, f - s) = b
      OBVIOUS
  <2>2. f - s \in 0 .. e - s - 1 /\ s + (f - s) = f /\ f < e
      BY <1>1, <2>1
  <2>3. QED
      BY <1>1, <1>2, <2>2
<1>5. ASSUME NEW i \in 0 .. f - s - 1 PROVE At(c, i) # b
  <2>1. i \in 0 .. e - s - 1 /\ s + i \in s .. f - 1
      BY <1>1
  <2>2. QED
      BY <1>1, <1>2, <2>1
<1>6. FirstAt(c, b, 0, e - s) = f - s
  <2>1. e - s \in Nat /\ 0 \in Nat
      OBVIOUS
  <2>2. QED
      BY <1>3, <1>4, <1>5, <2>1, FirstAtUnique, SMTT(30)
<1>7. QED
    BY <1>6 DEF f, c

\* Backwards from any offset there is a boundary, the start of the text at the latest.
LEMMA BackFrom ==
    ASSUME NEW t, IsText(t), NEW i \in 0 .. Len(t)
    PROVE  LET z == BackTo(t, i)
           IN  /\ z \in 0 .. i /\ Boundary(t, z)
               /\ \A b \in 0 .. i : Boundary(t, b) => b <= z
               /\ Max({0} \cup {j \in 0 .. i : Boundary(t, j)}) = z
<1> DEFINE S == {j \in 0 .. i : Boundary(t, j)}
           D == {i - j : j \in S}
<1>1. Len(t) \in Nat /\ 0 \in S /\ S \in SUBSET Int
    BY TextEnds
<1>2. D \in SUBSET Nat /\ D # {}
    BY <1>1
<1>3. PICK d \in D : \A m \in D : d <= m
    BY <1>2, LeastNumber, Zenon
<1>4. PICK z \in S : d = i - z
    BY <1>3
<1>5. \A b \in S : z >= b
  <2>1. SUFFICES ASSUME NEW b \in S PROVE z >= b
      OBVIOUS
  <2>2. d <= i - b
      BY <1>3
  <2>3. QED
      BY <1>1, <1>4, <2>2
<1>6. Max(S) = z
  <2> HIDE DEF S
  <2>1. QED
      BY <1>1, <1>5, MaxIs
<1>7. {0} \cup S = S
    BY <1>1
<1>8. BackTo(t, i) = z /\ Max({0} \cup S) = z
    BY <1>6, <1>7, Zenon DEF BackTo
<1>9. z \in 0 .. i /\ Boundary(t, z) /\ \A b \in 0 .. i : Boundary(t, b) => b <= z
    BY <1>5
<1>10. QED
    BY <1>8, <1>9, Zenon

-----------------------------------------------------------------------------
(* Characters *)

\* A character of a text starts at i and ends at z.
Character(t, i, z) ==
    /\ i \in Offsets(t) /\ At(t, i) \notin Continuation
    /\ z = i + Width(At(t, i)) /\ z \in i + 1 .. Len(t)
    /\ \A j \in i + 1 .. z - 1 : At(t, j) \in Continuation

\* A byte that does not continue a character starts one.
LEMMA StartsCharacter ==
    ASSUME NEW t, IsText(t), NEW i \in Offsets(t), At(t, i) \notin Continuation
    PROVE  Character(t, i, i + Width(At(t, i)))
<1> DEFINE w == Width(At(t, i))
<1>1. Len(t) \in Nat /\ WellFormed(t)
    BY TextEnds DEF IsText
<1>2. i \in 0 .. Len(t) - 1 /\ w \in 1 .. 4
    BY DEF Offsets, Width
<1>3. i + w <= Len(t) /\ \A k \in 1 .. (w - 1) : At(t, i + k) \in Continuation
    BY <1>1 DEF WellFormed
<1> HIDE DEF w
<1>4. \A j \in i + 1 .. (i + w) - 1 : j - i \in 1 .. (w - 1) /\ i + (j - i) = j
    BY <1>2
<1>5. \A j \in i + 1 .. (i + w) - 1 : At(t, j) \in Continuation
    BY <1>3, <1>4
<1>6. i + w \in i + 1 .. Len(t)
    BY <1>1, <1>2, <1>3
<1>7. QED
    BY <1>5, <1>6, Zenon DEF Character, w

\* A byte that continues a character lies inside one.
LEMMA InsideCharacter ==
    ASSUME NEW t, IsText(t), NEW i \in Offsets(t)
    PROVE  \E j \in 0 .. i : \E z \in i + 1 .. Len(t) : Character(t, j, z)
<1>1. Len(t) \in Nat /\ WellFormed(t) /\ i \in 0 .. Len(t) - 1
    BY TextEnds DEF IsText, Offsets
<1>2. PICK j \in 0 .. i : At(t, j) \notin Continuation /\ j + Width(At(t, j)) > i
  <2>1. CASE At(t, i) \in Continuation
    <3>1. \E j \in 0 .. (i - 1) : At(t, j) \notin Continuation /\ j + Width(At(t, j)) > i
        BY <1>1, <2>1 DEF WellFormed
    <3>2. QED
        BY <1>1, <3>1
  <2>2. CASE At(t, i) \notin Continuation
    <3>1. Width(At(t, i)) \in 1 .. 4
        BY DEF Width
    <3>2. QED
        BY <1>1, <2>2, <3>1
  <2>3. QED
      BY <2>1, <2>2
<1>3. j \in Offsets(t)
    BY <1>1 DEF Offsets
<1>4. Character(t, j, j + Width(At(t, j)))
    BY <1>2, <1>3, StartsCharacter
<1>5. j + Width(At(t, j)) \in i + 1 .. Len(t)
    BY <1>1, <1>2, <1>4 DEF Character
<1>6. QED
    BY <1>4, <1>5

\* No character starts or ends inside another.
LEMMA Apart ==
    ASSUME NEW t, IsText(t), NEW i, NEW z, Character(t, i, z), NEW b \in 0 .. Len(t), Boundary(t, b)
    PROVE  b <= i \/ z <= b
<1>1. SUFFICES ASSUME b \in i + 1 .. z - 1 PROVE FALSE
    BY DEF Character, Offsets
<1>2. At(t, b) \in Continuation /\ b # Len(t)
    BY <1>1, TextEnds DEF Character, Offsets
<1>3. QED
    BY <1>2 DEF Boundary

\* Behind a character there is a boundary.
LEMMA CharacterEnds ==
    ASSUME NEW t, IsText(t), NEW i, NEW z, Character(t, i, z)
    PROVE  Boundary(t, z)
<1>1. Len(t) \in Nat /\ i \in 0 .. Len(t) - 1 /\ z \in i + 1 .. Len(t) /\ Boundary(t, i)
    BY TextEnds DEF Character, Offsets, Boundary
<1>2. CASE z = Len(t)
    BY <1>2 DEF Boundary
<1>3. CASE z # Len(t)
  <2>1. z \in Offsets(t)
      BY <1>1, <1>3 DEF Offsets
  <2>2. PICK j \in 0 .. z : \E y \in z + 1 .. Len(t) : Character(t, j, y)
      BY <2>1, InsideCharacter
  <2>3. PICK y \in z + 1 .. Len(t) : Character(t, j, y)
      BY <2>2
  <2>4. i <= j
      BY <1>1, <2>3, Apart
  <2>5. Boundary(t, j) /\ j \in 0 .. Len(t)
      BY <1>1, <2>3 DEF Character, Boundary, Offsets
  <2>6. j <= i \/ z <= j
      BY <2>5, Apart
  <2>7. j # i
      BY <1>1, <2>3 DEF Character
  <2>8. j = z
      BY <1>1, <2>4, <2>6, <2>7
  <2>9. QED
      BY <2>5, <2>8
<1>4. QED
    BY <1>2, <1>3

\* Before a boundary a character ends.
LEMMA CharacterBefore ==
    ASSUME NEW t, IsText(t), NEW z \in 1 .. Len(t), Boundary(t, z)
    PROVE  \E i \in 0 .. z - 1 : Character(t, i, z)
<1>1. Len(t) \in Nat /\ z - 1 \in Offsets(t) /\ z \in 0 .. Len(t)
    BY TextEnds DEF Offsets
<1>2. PICK i \in 0 .. z - 1 : \E y \in (z - 1) + 1 .. Len(t) : Character(t, i, y)
    BY <1>1, InsideCharacter
<1>3. PICK y \in (z - 1) + 1 .. Len(t) : Character(t, i, y)
    BY <1>2
<1>4. z <= i \/ y <= z
    BY <1>1, <1>3, Apart
<1>5. y = z
    BY <1>1, <1>4
<1>6. QED
    BY <1>3, <1>5

\* The range from the boundary at or behind i to the one at or before j holds
\* exactly the characters that lie entirely in [s, e), where i and j are s and e
\* clipped to the text.
LEMMA SpanIsCharacters ==
    ASSUME NEW t, IsText(t), NEW s \in Nat, NEW e \in Nat,
           NEW i \in 0 .. Len(t), NEW j \in 0 .. Len(t),
           i = s \/ (i = Len(t) /\ s > Len(t)), j = e \/ (j = Len(t) /\ e > Len(t)),
           NEW a \in i .. Len(t), Boundary(t, a), \A b \in i .. Len(t) : Boundary(t, b) => a <= b,
           NEW z \in 0 .. j, Boundary(t, z), \A b \in 0 .. j : Boundary(t, b) => b <= z
    PROVE  CharactersIn(t, s, e) = IF a < z THEN Cut(t, a, z) ELSE <<>>
<1> DEFINE starts == {k \in Offsets(t) : At(t, k) \notin Continuation}
           inside == {k \in starts : s <= k /\ k + Width(At(t, k)) <= e}
           End(k) == k + Width(At(t, k))
<1>1. Len(t) \in Nat /\ a \in 0 .. Len(t) /\ z \in 0 .. Len(t)
    BY TextEnds
<1>2. ASSUME NEW k \in inside
      PROVE  /\ Character(t, k, End(k)) /\ k \in 0 .. Len(t) /\ End(k) \in k + 1 .. Len(t)
             /\ a <= k /\ End(k) <= z
  <2>1. k \in Offsets(t) /\ At(t, k) \notin Continuation /\ s <= k /\ End(k) <= e
      OBVIOUS
  <2>2. Character(t, k, End(k))
      BY <2>1, StartsCharacter
  <2> HIDE DEF End
  <2>3. k \in 0 .. Len(t) /\ k < Len(t) /\ End(k) \in k + 1 .. Len(t) /\ Boundary(t, k)
      BY <1>1, <2>1, <2>2 DEF Character, Offsets, Boundary
  <2>4. Boundary(t, End(k))
      BY <2>2, CharacterEnds
  <2>5. k \in i .. Len(t) /\ End(k) \in 0 .. j
      BY <1>1, <2>1, <2>3
  <2>6. a <= k /\ End(k) <= z
      BY <2>3, <2>4, <2>5
  <2>7. QED
      BY <2>2, <2>3, <2>6
<1>3. CASE ~(a < z)
  <2>1. inside = {}
    <3>1. SUFFICES ASSUME NEW k \in inside PROVE FALSE
        OBVIOUS
    <3>2. k \in 0 .. Len(t) /\ End(k) \in k + 1 .. Len(t) /\ a <= k /\ End(k) <= z
        BY <1>2
    <3> HIDE DEF End, inside
    <3>3. QED
        BY <1>1, <1>3, <3>2
  <2>2. QED
      BY <1>3, <2>1, Zenon DEF CharactersIn
<1>4. CASE a < z
  <2>1. a \in Offsets(t) /\ At(t, a) \notin Continuation
      BY <1>1, <1>4 DEF Offsets, Boundary
  <2>2. Character(t, a, End(a))
      BY <2>1, StartsCharacter
  <2>3. z \in 1 .. Len(t)
      BY <1>1, <1>4
  <2>4. PICK m \in 0 .. z - 1 : Character(t, m, z)
      BY <2>3, CharacterBefore
  <2>5. End(a) <= z
    <3>1. z <= a \/ End(a) <= z
        BY <1>1, <2>2, Apart
    <3> HIDE DEF End
    <3>2. QED
        BY <1>1, <1>4, <3>1
  <2>6. a <= m
    <3>1. a <= m \/ z <= a
        BY <1>1, <2>4, Apart
    <3>2. QED
        BY <1>1, <1>4, <3>1
  <2>7. z = End(m) /\ m \in Offsets(t) /\ At(t, m) \notin Continuation
      BY <2>4 DEF Character
  <2>8. s <= a /\ z <= e
      BY <1>1, <1>4
  <2>9. a \in inside
    <3>1. End(a) <= e
      <4>1. End(a) \in Int
          BY <2>2 DEF Character, Offsets
      <4> HIDE DEF End
      <4>2. QED
          BY <1>1, <2>5, <2>8, <4>1
    <3>2. QED
        BY <2>1, <2>8, <3>1
  <2>10. m \in inside
    <3>1. s <= m
        BY <1>1, <2>6, <2>8
    <3>2. End(m) <= e
        BY <2>7, <2>8, Zenon
    <3>3. QED
        BY <2>7, <3>1, <3>2
  <2>11. \A k \in inside : m >= k
    <3>1. SUFFICES ASSUME NEW k \in inside PROVE m >= k
        OBVIOUS
    <3>2. k \in 0 .. Len(t) /\ End(k) \in k + 1 .. Len(t) /\ End(k) <= z /\ Boundary(t, k)
      <4>1. At(t, k) \notin Continuation
          OBVIOUS
      <4>2. QED
          BY <1>2, <4>1 DEF Boundary
    <3>3. k <= m \/ z <= k
        BY <2>4, <3>2, Apart
    <3> HIDE DEF End, inside
    <3>4. QED
        BY <1>1, <3>2, <3>3
  <2>12. inside \in SUBSET Int /\ inside # {}
      BY <2>9 DEF Offsets
  <2>13. \A k \in inside : a <= k
      BY <1>2
  <2>14. Min(inside) = a /\ Max(inside) = m
    <3> HIDE DEF inside
    <3>1. QED
        BY <2>9, <2>10, <2>11, <2>12, <2>13, MinIs, MaxIs
  <2>15. CharactersIn(t, s, e) = Cut(t, Min(inside), Max(inside) + Width(At(t, Max(inside))))
      BY <2>12, Zenon DEF CharactersIn
  <2>16. QED
      BY <1>4, <2>7, <2>14, <2>15, Zenon
<1>5. QED
    BY <1>3, <1>4

\* The bytes between the boundaries around the clipped offsets s and e.
SpanFrom(t, s) == ForwardTo(t, Clip(s, Len(t)))
SpanTo(t, e) == BackTo(t, Clip(e, Len(t)))
Span(t, s, e) == IF SpanFrom(t, s) < SpanTo(t, e) THEN Cut(t, SpanFrom(t, s), SpanTo(t, e)) ELSE <<>>

\* They are the characters that lie entirely in [s, e).
LEMMA SpanHolds ==
    ASSUME NEW t, IsText(t), NEW s \in Nat, NEW e \in Nat
    PROVE  /\ SpanFrom(t, s) \in 0 .. Len(t) /\ SpanTo(t, e) \in 0 .. Len(t)
           /\ Span(t, s, e) = CharactersIn(t, s, e)
<1> DEFINE i == Clip(s, Len(t))
           j == Clip(e, Len(t))
           a == SpanFrom(t, s)
           z == SpanTo(t, e)
<1>1. Len(t) \in Nat
    BY TextEnds
<1>2. /\ i \in 0 .. Len(t) /\ (i = s \/ (i = Len(t) /\ s > Len(t)))
      /\ j \in 0 .. Len(t) /\ (j = e \/ (j = Len(t) /\ e > Len(t)))
    BY <1>1 DEF Clip
<1> HIDE DEF i, j
<1>3. a \in i .. Len(t) /\ Boundary(t, a) /\ \A b \in i .. a - 1 : At(t, b) \in Continuation
  <2>1. a = ForwardTo(t, i)
      BY Zenon DEF SpanFrom, i
  <2>2. QED
      BY <1>1, <1>2, <2>1, ForwardIs
<1>4. z \in 0 .. j /\ Boundary(t, z) /\ \A b \in 0 .. j : Boundary(t, b) => b <= z
  <2>1. z = BackTo(t, j)
      BY Zenon DEF SpanTo, j
  <2>2. QED
      BY <1>2, <2>1, BackFrom, Zenon
<1>5. \A b \in i .. Len(t) : Boundary(t, b) => a <= b
  <2>1. SUFFICES ASSUME NEW b \in i .. Len(t), Boundary(t, b), b < a PROVE FALSE
      BY <1>1, <1>2, <1>3
  <2>2. At(t, b) \in Continuation /\ b # Len(t)
      BY <1>1, <1>2, <1>3, <2>1
  <2>3. QED
      BY <2>1, <2>2 DEF Boundary
<1> HIDE DEF a, z
<1>6. CharactersIn(t, s, e) = IF a < z THEN Cut(t, a, z) ELSE <<>>
    BY <1>2, <1>3, <1>4, <1>5, SpanIsCharacters
<1>7. a \in 0 .. Len(t) /\ z \in 0 .. Len(t)
    BY <1>1, <1>2, <1>3, <1>4
<1>8. QED
    BY <1>6, <1>7, Zenon DEF Span, a, z

\* A range whose end is raised to its start is the span.
LEMMA RaisedIsSpan ==
    ASSUME NEW t, IsText(t), NEW s \in Nat, NEW e \in Nat
    PROVE  Cut(t, SpanFrom(t, s), Max({SpanFrom(t, s), SpanTo(t, e)})) = Span(t, s, e)
<1> DEFINE a == SpanFrom(t, s)
           z == SpanTo(t, e)
<1>0. t \in Seq(Int) /\ Len(t) \in Nat /\ a \in 0 .. Len(t) /\ z \in 0 .. Len(t)
    BY TextEnds, SpanHolds, Zenon
<1>1. a \in Int /\ z \in Int
    BY <1>0
<1> HIDE DEF a, z
<1>2. CASE a < z
  <2>1. a <= z
      BY <1>1, <1>2
  <2>2. Max({a, z}) = z
      BY <1>1, <2>1, MaxSecond
  <2>3. QED
      BY <1>2, <2>2, Zenon DEF Span, a, z
<1>3. CASE ~(a < z)
  <2>1. Max({a, z}) = a
      BY <1>1, <1>3, OfTwo
  <2>2. Cut(t, a, a) = <<>>
      BY <1>0, <1>1, CutEmpty
  <2>3. QED
      BY <1>3, <2>1, <2>2, Zenon DEF Span, a, z
<1>4. QED
    BY <1>2, <1>3

-----------------------------------------------------------------------------
(* The pieces between separators *)

\* The piece that starts at i and ends before the separator at e, and the offset
\* behind the separator.
PieceAt(t, strip, i, e) ==
    IF strip /\ e > i /\ At(t, e - 1) = CR THEN Cut(t, i, e - 1) ELSE Cut(t, i, e)

Behind(t, e) == IF e < Len(t) THEN e + 1 ELSE e

\* The pieces from each offset on.
Rest(t, b, strip) ==
    LET from[i \in 0..Len(t)] ==
          IF i = Len(t) THEN <<>>
          ELSE <<PieceAt(t, strip, i, NextOf(t, b, i))>> \o from[Behind(t, NextOf(t, b, i))]
    IN  from

\* The next separator lies at or after the offset, and the offset behind it is
\* further on.
LEMMA NextOfIs ==
    ASSUME NEW t, Len(t) \in Nat, NEW b, NEW i \in 0 .. Len(t) - 1
    PROVE  /\ NextOf(t, b, i) \in i .. Len(t)
           /\ NextOf(t, b, i) < Len(t) => At(t, NextOf(t, b, i)) = b
           /\ Behind(t, NextOf(t, b, i)) \in i + 1 .. Len(t)
<1>1. /\ NextOf(t, b, i) \in i .. Len(t)
      /\ NextOf(t, b, i) < Len(t) => At(t, NextOf(t, b, i)) = b
    BY FirstAtIs DEF NextOf
<1>2. QED
    BY <1>1 DEF Behind

\* The recursion is well founded: each piece ends behind its start.
LEMMA RestSteps ==
    ASSUME NEW t, Len(t) \in Nat, NEW b, NEW strip, NEW g, g = Rest(t, b, strip)
    PROVE  /\ g[Len(t)] = <<>>
           /\ \A i \in 0 .. Len(t) - 1 :
                g[i] = <<PieceAt(t, strip, i, NextOf(t, b, i))>> \o g[Behind(t, NextOf(t, b, i))]
<1> DEFINE n == Len(t)
           Step(f, i) == IF i = n THEN <<>>
                         ELSE <<PieceAt(t, strip, i, NextOf(t, b, i))>>
                                \o f[Behind(t, NextOf(t, b, i))]
           Rec(f, low) == f = [i \in low .. n |-> Step(f, i)]
           S == {low \in 0 .. n : \E f : Rec(f, low)}
<1>1. ASSUME NEW low \in 0 .. n, \A j \in low + 1 .. n : j \in S PROVE low \in S
  <2>1. CASE low = n
    <3>1. Rec([i \in n .. n |-> <<>>], n)
        OBVIOUS
    <3> HIDE DEF Rec
    <3>2. QED
        BY <2>1, <3>1
  <2>2. CASE low # n
    <3>1. low + 1 \in S
        BY <1>1, <2>2
    <3>2. PICK f : Rec(f, low + 1)
        BY <3>1
    <3> DEFINE h == [i \in low .. n |-> IF i = low THEN Step(f, low) ELSE f[i]]
    <3>3. ASSUME NEW i \in low .. n PROVE h[i] = Step(h, i)
      <4>1. CASE i = n
          BY <2>2, <3>2, <4>1
      <4>2. CASE i # n
        <5>1. Behind(t, NextOf(t, b, i)) \in i + 1 .. n
            BY <4>2, NextOfIs
        <5> DEFINE k == Behind(t, NextOf(t, b, i))
        <5>2. h[k] = f[k]
          <6> HIDE DEF k
          <6>1. k \in low .. n /\ k # low
              BY <5>1 DEF k
          <6>2. QED
              BY <6>1, Zenon
        <5>3. h[i] = Step(f, i)
          <6>1. CASE i = low
              BY <6>1
          <6>2. CASE i # low
            <7>1. i \in low + 1 .. n /\ h[i] = f[i]
                BY <6>2
            <7> HIDE DEF Step
            <7>2. f[i] = Step(f, i)
                BY <3>2, <7>1
            <7>3. QED
                BY <7>1, <7>2
          <6>3. QED
              BY <6>1, <6>2
        <5>4. Step(h, i) = Step(f, i)
            BY <4>2, <5>2
        <5>5. QED
            BY <5>3, <5>4
      <4>3. QED
          BY <4>1, <4>2
    <3>4. Rec(h, low)
      <4>1. h = [i \in low .. n |-> h[i]]
          OBVIOUS
      <4> HIDE DEF h
      <4>2. QED
          BY <3>3, <4>1, Zenon
    <3> HIDE DEF Rec, h
    <3>5. QED
        BY <3>4
  <2>3. QED
      BY <2>1, <2>2, SMTT(30)
<1>2. 0 \in S
  <2> HIDE DEF S
  <2>1. n \in Int /\ 0 \in Int /\ 0 <= n
      OBVIOUS
  <2>2. \A i \in 0 .. n : (\A j \in i + 1 .. n : j \in S) => i \in S
      BY <1>1
  <2>3. \A i \in 0 .. n : i \in S
      BY <2>1, <2>2, DownTo, Zenon
  <2>4. QED
      BY <2>3
<1>3. g = CHOOSE f : Rec(f, 0)
    BY Zenon DEF Rest
<1>4. Rec(g, 0)
  <2>1. \E f : Rec(f, 0)
      BY <1>2, SMTT(30)
  <2> HIDE DEF Rec
  <2>2. QED
      BY <1>3, <2>1, Zenon
<1>5. \A i \in 0 .. n : g[i] = Step(g, i)
  <2> HIDE DEF Step
  <2>1. QED
      BY <1>4
<1>6. g[n] = Step(g, n) /\ \A i \in 0 .. n - 1 : g[i] = Step(g, i) /\ i # n
  <2>1. n \in 0 .. n /\ \A i \in 0 .. n - 1 : i \in 0 .. n /\ i # n
      OBVIOUS
  <2> HIDE DEF Step, n
  <2>2. QED
      BY <1>5, <2>1, Zenon
<1>7. QED
    BY <1>6, Zenon

\* Behind an ASCII byte a character starts.
LEMMA AsciiBoundaries ==
    ASSUME NEW t, IsText(t), NEW e \in 0 .. Len(t) - 1, At(t, e) \in 0 .. 127
    PROVE  Boundary(t, e) /\ Boundary(t, e + 1)
<1>1. /\ WellFormed(t) /\ Len(t) \in Nat
    BY TextEnds DEF IsText
<1>2. At(t, e) \notin Continuation /\ Width(At(t, e)) = 1
  <2>1. \A x \in 0 .. 127 : x \notin Continuation /\ Width(x) = 1
      BY DEF Continuation, Width
  <2>2. QED
      BY <2>1, Zenon
<1>3. Boundary(t, e)
    BY <1>2 DEF Boundary
<1>4. SUFFICES ASSUME e + 1 # Len(t), At(t, e + 1) \in Continuation PROVE FALSE
    BY <1>3 DEF Boundary
<1>5. e + 1 \in Offsets(t) /\ e \in Offsets(t)
    BY <1>1, <1>4 DEF Offsets
<1>6. PICK j \in 0 .. ((e + 1) - 1) : At(t, j) \notin Continuation /\ j + Width(At(t, j)) > e + 1
    BY <1>1, <1>4, <1>5 DEF WellFormed
<1>7. j # e
    BY <1>2, <1>6
<1>8. j \in Offsets(t) /\ j \in 0 .. e - 1
    BY <1>1, <1>6, <1>7 DEF Offsets
<1>9. \A k \in 1 .. (Width(At(t, j)) - 1) : At(t, j + k) \in Continuation
    BY <1>1, <1>6, <1>8 DEF WellFormed
<1>10. Width(At(t, j)) \in Nat
    BY DEF Width
<1>11. e - j \in 1 .. (Width(At(t, j)) - 1) /\ j + (e - j) = e
    BY <1>6, <1>8, <1>10
<1>12. QED
    BY <1>2, <1>9, <1>11

\* A piece of a text that is cut at boundaries, and the boundary behind it.
LEMMA PieceBounds ==
    ASSUME NEW t, IsText(t), NEW i \in 0 .. Len(t) - 1, Boundary(t, i), NEW b \in 0 .. 127,
           NEW e, e = NextOf(t, b, i)
    PROVE  /\ e \in i .. Len(t) /\ Boundary(t, e)
           /\ Behind(t, e) \in i + 1 .. Len(t) /\ Boundary(t, Behind(t, e))
           /\ e > i /\ At(t, e - 1) = CR => e - 1 \in i .. Len(t) /\ Boundary(t, e - 1)
<1>1. Len(t) \in Nat /\ Boundary(t, Len(t))
    BY TextEnds
<1>2. e \in i .. Len(t) /\ (e < Len(t) => At(t, e) = b) /\ Behind(t, e) \in i + 1 .. Len(t)
    BY <1>1, NextOfIs
<1>3. Boundary(t, e) /\ Boundary(t, Behind(t, e))
  <2>1. CASE e < Len(t)
    <3>1. e \in 0 .. Len(t) - 1 /\ At(t, e) \in 0 .. 127
        BY <1>1, <1>2, <2>1
    <3>2. Boundary(t, e) /\ Boundary(t, e + 1)
        BY <3>1, AsciiBoundaries
    <3>3. QED
        BY <2>1, <3>2 DEF Behind
  <2>2. CASE ~(e < Len(t))
    <3>1. e = Len(t) /\ Behind(t, e) = e
        BY <1>1, <1>2, <2>2 DEF Behind
    <3>2. QED
        BY <1>1, <3>1
  <2>3. QED
      BY <2>1, <2>2
<1>4. ASSUME e > i, At(t, e - 1) = CR PROVE e - 1 \in i .. Len(t) /\ Boundary(t, e - 1)
  <2>1. e - 1 \in 0 .. Len(t) - 1 /\ e - 1 \in i .. Len(t)
      BY <1>1, <1>2, <1>4
  <2>2. At(t, e - 1) \in 0 .. 127
      BY <1>4 DEF CR
  <2>3. QED
      BY <2>1, <2>2, AsciiBoundaries
<1>5. QED
    BY <1>2, <1>3, <1>4

\* What a round keeps: the pieces so far, and those still to come.
Scanned(p, rest, i, all) == p \in Seq(Seq(Int)) /\ Len(p) <= i /\ p \o rest[i] = all

\* What is still to come is a sequence of pieces, from every offset.
LEMMA RestPieces ==
    ASSUME NEW t \in Seq(Int), NEW b, NEW strip, NEW g, g = Rest(t, b, strip)
    PROVE  \A i \in 0 .. Len(t) : g[i] \in Seq(Seq(Int))
<1> DEFINE n == Len(t)
           S == {i \in 0 .. n : g[i] \in Seq(Seq(Int))}
<1>0. /\ g[Len(t)] = <<>>
      /\ \A i \in 0 .. Len(t) - 1 :
           g[i] = <<PieceAt(t, strip, i, NextOf(t, b, i))>> \o g[Behind(t, NextOf(t, b, i))]
  <2>1. Len(t) \in Nat
      OBVIOUS
  <2>2. QED
      BY <2>1, RestSteps, ZenonT(40)
<1>1. ASSUME NEW i \in 0 .. n, \A j \in i + 1 .. n : j \in S PROVE i \in S
  <2>1. CASE i = n
    <3>1. <<>> \in Seq(Seq(Int))
        OBVIOUS
    <3>2. QED
        BY <1>0, <2>1, <3>1, Zenon
  <2>2. CASE i # n
    <3> DEFINE e == NextOf(t, b, i)
    <3>1. e \in i .. n /\ Behind(t, e) \in i + 1 .. n /\ i \in 0 .. n - 1
        BY <2>2, NextOfIs
    <3>2. g[i] = <<PieceAt(t, strip, i, e)>> \o g[Behind(t, e)]
        BY <1>0, <3>1, Zenon
    <3> HIDE DEF e
    <3>3. PieceAt(t, strip, i, e) \in Seq(Int)
      <4>1. Cut(t, i, e) \in Seq(Int)
          BY <3>1, CutIs
      <4>2. e > i => Cut(t, i, e - 1) \in Seq(Int)
          BY <3>1, CutIs
      <4>3. QED
          BY <4>1, <4>2, Zenon DEF PieceAt
    <3>4. g[Behind(t, e)] \in Seq(Seq(Int))
        BY <1>1, <3>1
    <3>5. g[i] \in Seq(Seq(Int))
        BY <3>2, <3>3, <3>4, OneBefore, Zenon
    <3>6. QED
        BY <3>5
  <2>3. QED
      BY <2>1, <2>2
<1>2. n \in Int /\ 0 \in Int /\ 0 <= n
    OBVIOUS
<1> HIDE DEF S
<1>3. \A i \in 0 .. n : (\A j \in i + 1 .. n : j \in S) => i \in S
    BY <1>1
<1>4. \A i \in 0 .. n : i \in S
    BY <1>2, <1>3, DownTo, Zenon
<1>5. QED
    BY <1>4 DEF S

\* A round moves the next piece from those to come to those cut.
LEMMA RoundKeeps ==
    ASSUME NEW t \in Seq(Int), NEW b, NEW strip, NEW g, g = Rest(t, b, strip), NEW all,
           NEW i \in 0 .. Len(t) - 1, NEW p, Scanned(p, g, i, all),
           NEW e, e = NextOf(t, b, i), NEW piece, piece = PieceAt(t, strip, i, e),
           NEW q, q = IF Len(p) < Len(t) + 1 THEN Append(p, piece) ELSE p
    PROVE  Scanned(q, g, Behind(t, e), all)
<1>1. Len(t) \in Nat /\ p \in Seq(Seq(Int)) /\ Len(p) <= i /\ p \o g[i] = all
    BY DEF Scanned
<1>2. e \in i .. Len(t) /\ Behind(t, e) \in i + 1 .. Len(t) /\ i \in 0 .. Len(t)
    BY <1>1, NextOfIs
<1>3. g[i] = <<piece>> \o g[Behind(t, e)]
  <2>1. \A j \in 0 .. Len(t) - 1 :
           g[j] = <<PieceAt(t, strip, j, NextOf(t, b, j))>> \o g[Behind(t, NextOf(t, b, j))]
      BY <1>1, RestSteps, ZenonT(40)
  <2>2. QED
      BY <2>1, Zenon
<1>4. g[Behind(t, e)] \in Seq(Seq(Int))
    BY <1>2, RestPieces
<1>5. piece \in Seq(Int)
  <2>1. Cut(t, i, e) \in Seq(Int)
      BY <1>1, <1>2, CutIs
  <2>2. ASSUME e > i PROVE Cut(t, i, e - 1) \in Seq(Int)
    <3>1. e - 1 \in i .. Len(t)
        BY <1>1, <1>2, <2>2, SMTT(30)
    <3>2. QED
        BY <1>2, <3>1, CutIs
  <2>3. QED
      BY <2>1, <2>2, Zenon DEF PieceAt
<1>6. q = Append(p, piece)
    BY <1>1
<1> DEFINE rest == g[Behind(t, e)]
<1> HIDE DEF rest
<1>7. /\ q \in Seq(Seq(Int)) /\ Len(q) = Len(p) + 1
      /\ q \o rest = p \o (<<piece>> \o rest)
  <2>1. p \in Seq(Seq(Int)) /\ piece \in Seq(Int) /\ rest \in Seq(Seq(Int))
      BY <1>1, <1>4, <1>5 DEF rest
  <2>2. MoreOf(Seq(Int), p, piece, rest)
      BY <2>1, Zenon DEF MoreOf
  <2>3. Added(Seq(Int), p, piece, rest)
      BY <2>2, OneMore, Zenon
  <2>4. QED
      BY <1>6, <2>3, Zenon DEF Added
<1>8. q \o g[Behind(t, e)] = all
    BY <1>1, <1>3, <1>7, Zenon DEF rest
<1>9. Len(q) <= Behind(t, e)
    BY <1>1, <1>2, <1>7
<1>10. QED
    BY <1>7, <1>8, <1>9, Zenon DEF Scanned

\* Before the first round everything is still to come.
LEMMA ScanBegins ==
    ASSUME NEW t, IsText(t), NEW b, NEW strip
    PROVE  Scanned(<<>>, Rest(t, b, strip), 0, Rest(t, b, strip)[0])
<1>1. t \in Seq(Int) /\ Len(t) \in Nat
    BY TextEnds
<1> DEFINE g == Rest(t, b, strip)
<1>2. \A i \in 0 .. Len(t) : g[i] \in Seq(Seq(Int))
    BY <1>1, RestPieces, Zenon
<1> HIDE DEF g
<1>3. g[0] \in Seq(Seq(Int))
    BY <1>1, <1>2
<1>4. <<>> \o g[0] = g[0] /\ <<>> \in Seq(Seq(Int)) /\ Len(<<>>) <= 0
    BY <1>3, JoinNothing
<1>5. QED
    BY <1>4, Zenon DEF Scanned, g

Stop(t, strip, i, e) == IF strip /\ e > i /\ At(t, e - 1) = CR THEN e - 1 ELSE e

-----------------------------------------------------------------------------
(* Notations of numbers and characters *)

DigitStep(f, n) == IF n < 10 THEN <<48 + n>> ELSE Append(f[n \div 10], 48 + (n % 10))

\* A function that gives the digits of the numbers up to m.
DigitsUpTo(f, m) == f = [n \in 0 .. m |-> DigitStep(f, n)]

\* Dividing a number of several digits by ten makes it smaller.
LEMMA TenthIsLess ==
    ASSUME NEW n \in Nat, ~(n < 10)
    PROVE  n \div 10 \in Nat /\ n \div 10 < n
OBVIOUS

\* The digits of a number depend on those of smaller numbers only.
LEMMA DigitStepSame ==
    ASSUME NEW f, NEW g, NEW n \in Nat, \A i \in 0 .. n - 1 : f[i] = g[i]
    PROVE  DigitStep(f, n) = DigitStep(g, n)
<1>1. CASE n < 10
    BY <1>1, Zenon DEF DigitStep
<1>2. CASE ~(n < 10)
  <2>1. n \div 10 \in 0 .. n - 1
      BY <1>2, TenthIsLess
  <2>2. f[n \div 10] = g[n \div 10]
      BY <2>1, Zenon
  <2>3. QED
      BY <1>2, <2>2, Zenon DEF DigitStep
<1>3. QED
    BY <1>1, <1>2

\* Two functions that give the digits agree where both are defined.
LEMMA DigitsAgree ==
    ASSUME NEW m \in Nat, NEW k \in Nat, m <= k,
           NEW f, DigitsUpTo(f, m), NEW g, DigitsUpTo(g, k)
    PROVE  \A n \in 0 .. m : f[n] = g[n]
<1> DEFINE Bad == {n \in 0 .. m : f[n] # g[n]}
<1> SUFFICES ASSUME Bad # {} PROVE FALSE
    OBVIOUS
<1>1. PICK n \in Bad : \A j \in Bad : n <= j
    BY LeastNumber, Bad \in SUBSET Nat, Zenon
<1>2. n \in Nat /\ n \in 0 .. m /\ n \in 0 .. k /\ f[n] # g[n]
    OBVIOUS
<1>3. \A i \in 0 .. n - 1 : f[i] = g[i]
    BY <1>1, <1>2
<1>4. f[n] = DigitStep(f, n) /\ g[n] = DigitStep(g, n)
    BY <1>2, Zenon DEF DigitsUpTo
<1>5. DigitStep(f, n) = DigitStep(g, n)
    BY <1>2, <1>3, DigitStepSame
<1>6. QED
    BY <1>2, <1>4, <1>5

\* Up to every number there is a function that gives the digits.
LEMMA DigitsExist == \A m \in Nat : \E f : DigitsUpTo(f, m)
<1> DEFINE S == {m \in Nat : \E f : DigitsUpTo(f, m)}
<1>1. 0 \in S
  <2> DEFINE f == [n \in 0 .. 0 |-> <<48 + n>>]
  <2>1. DigitsUpTo(f, 0)
      BY DEF DigitsUpTo, DigitStep
  <2> HIDE DEF f
  <2>2. QED
      BY <2>1
<1>2. ASSUME NEW m \in Nat, m \in S PROVE m + 1 \in S
  <2>1. PICK f : DigitsUpTo(f, m)
      BY <1>2
  <2> DEFINE h == [n \in 0 .. m + 1 |-> IF n = m + 1 THEN DigitStep(f, n) ELSE f[n]]
  <2>2. \A i \in 0 .. m : h[i] = f[i]
      OBVIOUS
  <2>3. ASSUME NEW n \in 0 .. m + 1 PROVE h[n] = DigitStep(h, n)
    <3>1. h[n] = DigitStep(f, n)
      <4>1. CASE n = m + 1
          BY <4>1
      <4>2. CASE n # m + 1
          BY <2>1, <2>2, <4>2 DEF DigitsUpTo
      <4>3. QED
          BY <4>1, <4>2
    <3>2. n \in Nat /\ \A i \in 0 .. n - 1 : h[i] = f[i]
        BY <2>2
    <3> HIDE DEF h
    <3>3. DigitStep(h, n) = DigitStep(f, n)
        BY <3>2, DigitStepSame
    <3>4. QED
        BY <3>1, <3>3
  <2>4. h = [n \in 0 .. m + 1 |-> h[n]]
      OBVIOUS
  <2> HIDE DEF h
  <2>5. DigitsUpTo(h, m + 1)
      BY <2>3, <2>4, Zenon DEF DigitsUpTo
  <2>6. QED
      BY <2>5
<1> HIDE DEF S
<1>3. \A m \in Nat : m \in S
  <2>1. ASSUME NEW m \in Nat PROVE m \in S
    <3>1. \A i \in 0 .. m - 1 : i \in S => i + 1 \in S
        BY <1>2
    <3>2. \A i \in 0 .. m : i \in S
        BY <1>1, <3>1, UpTo
    <3>3. QED
        BY <3>2
  <2>2. QED
      BY <2>1
<1>4. QED
    BY <1>3 DEF S

\* Digits satisfies the equation it is defined by: those functions, read along their
\* diagonal, are a solution of it.
LEMMA DigitsSteps == \A n \in Nat : Digits[n] = DigitStep(Digits, n)
<1> DEFINE Upto(m) == CHOOSE f : DigitsUpTo(f, m)
           d == [n \in Nat |-> Upto(n)[n]]
           Rec(f) == f = [n \in Nat |-> DigitStep(f, n)]
<1>1. \A m \in Nat : DigitsUpTo(Upto(m), m)
    BY DigitsExist, Zenon
<1> HIDE DEF Upto
<1>2. ASSUME NEW n \in Nat PROVE d[n] = DigitStep(d, n)
  <2>1. ASSUME NEW i \in 0 .. n PROVE Upto(n)[i] = d[i]
    <3>1. i \in Nat /\ i <= n /\ i \in 0 .. i
        OBVIOUS
    <3>2. \A j \in 0 .. i : Upto(i)[j] = Upto(n)[j]
        BY <1>1, <3>1, DigitsAgree
    <3>3. QED
        BY <3>1, <3>2
  <2>2. n \in 0 .. n
      OBVIOUS
  <2>3. Upto(n)[n] = DigitStep(Upto(n), n)
      BY <1>1, <2>2 DEF DigitsUpTo
  <2> HIDE DEF d
  <2>4. \A i \in 0 .. n - 1 : Upto(n)[i] = d[i]
      BY <2>1
  <2>5. DigitStep(Upto(n), n) = DigitStep(d, n)
      BY <2>4, DigitStepSame
  <2>6. QED
      BY <2>1, <2>2, <2>3, <2>5
<1>3. d = [n \in Nat |-> d[n]]
    OBVIOUS
<1> HIDE DEF d
<1>4. Rec(d)
    BY <1>2, <1>3, Zenon
<1>5. Digits = CHOOSE f : Rec(f)
    BY Zenon DEF Digits, DigitStep
<1> DEFINE g == CHOOSE f : Rec(f)
<1>6. Rec(g)
  <2> HIDE DEF Rec
  <2>1. QED
      BY <1>4, Zenon
<1> HIDE DEF g
<1>7. \A n \in Nat : g[n] = DigitStep(g, n)
    BY <1>6
<1>8. QED
    BY <1>5, <1>7, Zenon DEF g

\* The decimal notation of an integer is a byte sequence.
LEMMA DecimalIsBytes ==
    ASSUME NEW n \in Int
    PROVE  Decimal(n) \in Seq(Int)
<1> DEFINE Bad == {m \in Nat : Digits[m] \notin Seq(Int)}
<1>1. Bad = {}
  <2> SUFFICES ASSUME Bad # {} PROVE FALSE
      OBVIOUS
  <2>1. PICK m \in Bad : \A j \in Bad : m <= j
      BY LeastNumber, Bad \in SUBSET Nat, Zenon
  <2>2. Digits[m] = DigitStep(Digits, m)
      BY DigitsSteps
  <2>3. CASE m < 10
    <3>1. <<48 + m>> \in Seq(Int)
        OBVIOUS
    <3>2. QED
        BY <2>2, <2>3, <3>1, Zenon DEF DigitStep
  <2>4. CASE ~(m < 10)
    <3>1. m \div 10 \in Nat /\ m \div 10 < m
        BY <2>4, TenthIsLess
    <3>2. Digits[m \div 10] \in Seq(Int)
        BY <2>1, <3>1
    <3>3. 48 + (m % 10) \in Int
        OBVIOUS
    <3>4. Append(Digits[m \div 10], 48 + (m % 10)) \in Seq(Int)
        BY <3>2, <3>3, JoinOne
    <3>5. QED
        BY <2>2, <2>4, <3>4, Zenon DEF DigitStep
  <2>5. QED
      BY <2>3, <2>4
<1>2. \A m \in Nat : Digits[m] \in Seq(Int)
    BY <1>1
<1>3. CASE n < 0
  <2>1. -n \in Nat /\ <<MINUS>> \in Seq(Int)
      BY <1>3 DEF MINUS
  <2>2. <<MINUS>> \o Digits[-n] \in Seq(Int)
      BY <1>2, <2>1, JoinIs
  <2>3. QED
      BY <1>3, <2>2, Zenon DEF Decimal
<1>4. CASE ~(n < 0)
  <2>1. n \in Nat
      BY <1>4
  <2>2. QED
      BY <1>2, <1>4, <2>1, Zenon DEF Decimal
<1>5. QED
    BY <1>3, <1>4

\* Up to four bytes are a byte sequence.
LEMMA OneToFourBytes ==
    ASSUME NEW i \in Int, NEW j \in Int, NEW k \in Int, NEW l \in Int
    PROVE  /\ <<i>> \in Seq(Int) /\ <<i, j>> \in Seq(Int)
           /\ <<i, j, k>> \in Seq(Int) /\ <<i, j, k, l>> \in Seq(Int)
<1>1. <<i>> \in Seq(Int)
    OBVIOUS
<1>2. <<i, j>> \in Seq(Int)
    OBVIOUS
<1>3. <<i, j, k>> \in Seq(Int)
    OBVIOUS
<1>4. <<i, j, k, l>> \in Seq(Int)
    OBVIOUS
<1>5. QED
    BY <1>1, <1>2, <1>3, <1>4, Zenon

\* The encoding of a code point is a byte sequence.
LEMMA Utf8IsBytes ==
    ASSUME NEW c \in Int
    PROVE  Utf8(c) \in Seq(Int)
<1>1. PICK low \in Int, mid \in Int, high \in Int, two \in Int, three \in Int, four \in Int :
        Utf8(c) \in {<<c>>, <<two, low>>, <<three, mid, low>>, <<four, high, mid, low>>}
    BY SMT DEF Utf8
<1>2. <<c>> \in Seq(Int) /\ <<two, low>> \in Seq(Int)
    BY OneToFourBytes, Zenon
<1>3. <<three, mid, low>> \in Seq(Int)
    BY OneToFourBytes, Zenon
<1>4. <<four, high, mid, low>> \in Seq(Int)
    BY OneToFourBytes, Zenon
<1>5. QED
    BY <1>1, <1>2, <1>3, <1>4, Zenon
-----------------------------------------------------------------------------
(* Capacities that grow until a number fits *)

\* A capacity grown by half until what is required fits.
GrownByHalf(cap, required) ==
    LET grown[c \in 0 .. required] ==
          IF c = required \/ required - c <= c \div 2 + 1 THEN required
          ELSE grown[c + c \div 2 + 1]
    IN  IF cap = 0 THEN required ELSE grown[cap]

\* Growing by half reaches what is required before the last round, and the last round
\* gives it exactly.
LEMMA HalfGrows ==
    ASSUME NEW cap \in Nat, NEW required \in Nat, cap < required
    PROVE  GrownByHalf(cap, required) = required
<1> DEFINE Next1(c) == c + c \div 2 + 1
           Last(c) == c = required \/ required - c <= c \div 2 + 1
           Rec(f) == f = [c \in 0 .. required |-> IF Last(c) THEN required ELSE f[Next1(c)]]
           same == [c \in 0 .. required |-> required]
           g == CHOOSE f : Rec(f)
<1>1. ASSUME NEW c \in 0 .. required, ~Last(c) PROVE Next1(c) \in c + 1 .. required
    BY <1>1
<1> HIDE DEF Next1, Last
<1>2. \A c \in 0 .. required : same[c] = IF Last(c) THEN required ELSE same[Next1(c)]
    BY <1>1
<1>3. Rec(same)
    BY <1>2
<1>4. Rec(g)
  <2> HIDE DEF Rec
  <2>1. QED
      BY <1>3, Zenon
<1> HIDE DEF g
<1>5. \A c \in 0 .. required : g[c] = IF Last(c) THEN required ELSE g[Next1(c)]
    BY <1>4
<1> DEFINE S == {c \in 0 .. required : g[c] = required}
<1>6. \A c \in 0 .. required : (\A j \in c + 1 .. required : j \in S) => c \in S
    BY <1>1, <1>5
<1> HIDE DEF S
<1>7. \A c \in 0 .. required : c \in S
  <2>1. 0 \in Int /\ required \in Int /\ 0 <= required
      OBVIOUS
  <2>2. QED
      BY <1>6, <2>1, DownTo, Zenon
<1>8. g[cap] = required
    BY <1>7 DEF S
<1>9. GrownByHalf(cap, required) = IF cap = 0 THEN required ELSE g[cap]
    BY Zenon DEF GrownByHalf, g, Next1, Last
<1>10. QED
    BY <1>8, <1>9, Zenon

\* A capacity doubled until what is needed fits.
Doubled(cap, needed, n) ==
    LET grown[c \in 1 .. n] == IF c >= needed THEN c ELSE grown[2 * c]
    IN  grown[cap]

\* Doubling reaches what is needed.
LEMMA DoublingGrows ==
    ASSUME NEW needed \in Nat, NEW n \in Nat, n > 2 * needed, NEW cap \in 1 .. n
    PROVE  Doubled(cap, needed, n) \in Nat /\ Doubled(cap, needed, n) >= needed
<1> DEFINE Step(f, c) == IF c >= needed THEN c ELSE f[2 * c]
           Rec(f, low) == f = [c \in low .. n |-> Step(f, c)]
           S == {low \in 1 .. n : \E f : Rec(f, low)}
<1>0. n \in Nat /\ n >= 1 /\ n > 2 * needed
    OBVIOUS
<1>1. ASSUME NEW low \in 1 .. n, \A j \in low + 1 .. n : j \in S PROVE low \in S
  <2>1. CASE low = n
    <3>1. Rec([c \in n .. n |-> c], n)
        BY <1>0
    <3> HIDE DEF Rec
    <3>2. QED
        BY <2>1, <3>1
  <2>2. CASE low # n
    <3>1. low + 1 \in S
      <4>1. low + 1 \in low + 1 .. n
          BY <1>0, <2>2
      <4> HIDE DEF S
      <4>2. QED
          BY <1>1, <4>1, Zenon
    <3>2. PICK f : Rec(f, low + 1)
        BY <3>1
    <3> DEFINE h == [c \in low .. n |-> IF c = low THEN Step(f, low) ELSE f[c]]
    <3>3. ASSUME NEW c \in low .. n PROVE h[c] = Step(h, c)
      <4>1. h[c] = Step(f, c)
        <5>1. CASE c = low
            BY <5>1
        <5>2. CASE c # low
          <6>1. c \in low + 1 .. n /\ h[c] = f[c]
              BY <1>0, <5>2
          <6> HIDE DEF Step
          <6>2. f[c] = Step(f, c)
              BY <3>2, <6>1
          <6>3. QED
              BY <6>1, <6>2
        <5>3. QED
            BY <5>1, <5>2
      <4>2. c < needed => 2 * c \in c + 1 .. n /\ 2 * c # low
          BY <1>0
      <4>3. c < needed => h[2 * c] = f[2 * c]
          BY <1>0, <4>2
      <4>4. Step(h, c) = Step(f, c)
          BY <1>0, <4>3
      <4>5. QED
          BY <4>1, <4>4
    <3>4. Rec(h, low)
      <4>1. h = [c \in low .. n |-> h[c]]
          OBVIOUS
      <4> HIDE DEF h
      <4>2. QED
          BY <3>3, <4>1, Zenon
    <3> HIDE DEF Rec, h
    <3>5. QED
        BY <3>4
  <2>3. QED
      BY <2>1, <2>2
<1> HIDE DEF S
<1>2. \A c \in 1 .. n : c \in S
  <2>1. 1 \in Int /\ n \in Int /\ 1 <= n
      BY <1>0
  <2>2. \A low \in 1 .. n : (\A j \in low + 1 .. n : j \in S) => low \in S
      BY <1>1, Zenon
  <2>3. QED
      BY <2>1, <2>2, DownTo, Zenon
<1>3. \E f : Rec(f, 1)
  <2>1. 1 \in S
      BY <1>0, <1>2
  <2> HIDE DEF Rec
  <2>2. QED
      BY <2>1 DEF S
<1> DEFINE g == CHOOSE f : Rec(f, 1)
<1>4. Rec(g, 1)
  <2> HIDE DEF Rec
  <2>1. QED
      BY <1>3, Zenon
<1> HIDE DEF g
<1>5. \A c \in 1 .. n : g[c] = IF c >= needed THEN c ELSE g[2 * c]
    BY <1>4
<1> DEFINE T == {c \in 1 .. n : g[c] \in Nat /\ g[c] >= needed}
<1>6. ASSUME NEW c \in 1 .. n, \A j \in c + 1 .. n : j \in T PROVE c \in T
  <2>1. CASE c >= needed
      BY <1>0, <1>5, <2>1
  <2>2. CASE ~(c >= needed)
    <3>1. 2 * c \in c + 1 .. n
        BY <1>0, <2>2
    <3>2. g[c] = g[2 * c] /\ 2 * c \in T
        BY <1>5, <1>6, <2>2, <3>1
    <3>3. QED
        BY <3>2
  <2>3. QED
      BY <2>1, <2>2
<1> HIDE DEF T
<1>7. \A c \in 1 .. n : c \in T
  <2>1. 1 \in Int /\ n \in Int /\ 1 <= n
      BY <1>0
  <2>2. \A c \in 1 .. n : (\A j \in c + 1 .. n : j \in T) => c \in T
      BY <1>6, Zenon
  <2>3. QED
      BY <2>1, <2>2, DownTo, Zenon
<1>8. Doubled(cap, needed, n) = g[cap]
    BY Zenon DEF Doubled, g
<1>9. QED
    BY <1>7, <1>8 DEF T
=============================================================================
