---------------------- MODULE TextIndexBackendsProofs ----------------------
(***************************************************************************)
(* Theorems about the three runtimes' tables (TextIndexBackends), for all  *)
(* texts, hashes, values and starting capacities.                          *)
(*                                                                         *)
(* The inductive invariant IndexInv says that the table is sound (what     *)
(* that gives is proved in TextIndexProofs), that len counts its entries  *)
(* and that len is less than the capacity.  The last one is what the load  *)
(* limits are for, and is why capacities must not get small: below three   *)
(* quarters of at least four, or of at least eight under the JIT, there is *)
(* room for one more entry and an empty slot after it.                     *)
(***************************************************************************)
EXTENDS TextIndexBackends, TextIndexProofs

-----------------------------------------------------------------------------
(* The three tables *)

\* Under the JIT a handle is its own key.
JitKey == [h \in JitHandle |-> h]

\* The inductive invariant: tables are sound, len counts the entries and is less than
\* the capacity, which never gets smaller than that of a new index; a Wasm program that
\* closes no scope is handed only cleared memory.
IndexInv ==
    /\ backend = "wasm" => null = FALSE
    /\ backend = "jit" => Counted(entries, len, 8, JitKey, JitHash, JitValue)
    /\ backend # "jit" => Counted(entries, len, 4, TextOf, Hash, Value)

\* The operators of ProbeTable mean the same in the Wasm and the JIT instances.
LEMMA SameOperators ==
    /\ \A S : Wasm!Cardinality(S) = Cardinality(S) /\ Jit!Cardinality(S) = Cardinality(S)
    /\ \A t : Wasm!Cap(t) = Cap(t) /\ Jit!Cap(t) = Cap(t)
    /\ \A c : Wasm!Blank(c) = Blank(c) /\ Jit!Blank(c) = Blank(c)
    /\ \A t, u : Wasm!Moved(t, u) = Moved(t, u) /\ Jit!Moved(t, u) = Moved(t, u)
<1>1. \A S : Wasm!Cardinality(S) = Cardinality(S) /\ Jit!Cardinality(S) = Cardinality(S)
    BY Zenon DEF Wasm!Cardinality, Jit!Cardinality, Cardinality
<1>2. \A t : Wasm!Cap(t) = Cap(t) /\ Jit!Cap(t) = Cap(t)
    BY <1>1, Zenon DEF Wasm!Cap, Jit!Cap, Cap
<1>3. \A c : Wasm!Blank(c) = Blank(c) /\ Jit!Blank(c) = Blank(c)
    BY Zenon DEF Wasm!Blank, Jit!Blank, Blank, Wasm!Empty, Jit!Empty, Empty
<1>4. \A t, u : Wasm!Moved(t, u) = Moved(t, u) /\ Jit!Moved(t, u) = Moved(t, u)
    BY Zenon DEF Wasm!Moved, Jit!Moved, Moved, Wasm!Placed, Jit!Placed, Placed,
        Wasm!FirstSlot, Jit!FirstSlot, FirstSlot, Wasm!Cap, Jit!Cap, Cap,
        Wasm!Cardinality, Jit!Cardinality, Cardinality
<1>5. QED
    BY <1>1, <1>2, <1>3, <1>4

\* text_index_ensure_capacity of Wasm gives a table with the same entries and room for one
\* more.
LEMMA WasmRoom ==
    ASSUME IndexInv, backend = "wasm", NEW t \in Wasm!ensure_capacity
    PROVE  \E c \in Nat : c >= 4 /\ len + 1 < c /\ Ready(t, c, TextOf, Hash, Value)
<1> DEFINE cap == Cap(entries)
<1>1. /\ Sound(entries, cap, TextOf, Hash, Value) /\ cap >= 4 /\ null = FALSE
      /\ len = Cardinality(Used(entries)) /\ len < cap
    BY DEF IndexInv, Counted
<1>2. cap \in Nat \ {0} /\ len \in Nat
    BY <1>1, SoundCap
<1>3. CASE Wasm!Roomy(cap)
  <2>1. t = entries
      BY <1>3, SameOperators DEF Wasm!ensure_capacity
  <2>2. len + 1 < cap
      BY <1>1, <1>2, <1>3 DEF Wasm!Roomy
  <2>3. QED
      BY <1>1, <1>2, <2>1, <2>2 DEF Ready
<1>4. CASE ~Wasm!Roomy(cap)
  <2>1. t = Moved(entries, Blank(2 * Cap(entries)))
    <3>1. Wasm!alloc_table(2 * cap) = {Blank(2 * cap)}
        BY <1>1 DEF Wasm!alloc_table, Blank, Wasm!Empty, Empty
    <3>2. t \in {Wasm!Moved(entries, fresh) : fresh \in Wasm!alloc_table(2 * cap)}
        BY <1>4, SameOperators DEF Wasm!ensure_capacity
    <3>3. QED
        BY <3>1, <3>2, SameOperators
  <2>2. Ready(t, 2 * cap, TextOf, Hash, Value) /\ len + 1 < 2 * cap
      BY <1>1, <2>1, GrownReady
  <2>3. QED
      BY <1>1, <1>2, <2>2
<1>5. QED
    BY <1>3, <1>4

\* The Wasm lookup stops at the slot that the common description says.
LEMMA WasmFind ==
    ASSUME NEW t, NEW c, Sound(t, c, TextOf, Hash, Value), Used(t) # DOMAIN t, NEW h \in Handle
    PROVE  Wasm!find_entry(t, h) = ProbeSlot(t, TextOf[h], TextOf, Hash)
<1> DEFINE found == Wasm!FirstSlot(t, Hash[TextOf[h]],
                        LAMBDA e : \/ ~e.occupied
                                   \/ e.hash = Hash[TextOf[h]] /\ TextOf[e.key] = TextOf[h])
<1>1. found = ProbeSlot(t, TextOf[h], TextOf, Hash)
    BY Zenon DEF ProbeSlot, FirstSlot, Cap, Cardinality,
        Wasm!FirstSlot, Wasm!Cap, Wasm!Cardinality
<1>2. Hash[TextOf[h]] \in Nat
    BY IndexAssumption DEF Text
<1>3. ProbeSlot(t, TextOf[h], TextOf, Hash) # {}
    BY <1>2, ProbeResult
<1>4. Wasm!find_entry(t, h) = IF found = {} THEN {Wasm!Home(t, h)} ELSE found
    BY Zenon DEF Wasm!find_entry
<1> HIDE DEF found
<1>5. QED
    BY <1>1, <1>3, <1>4

\* So does the JIT's, which compares addresses.
LEMMA JitFind ==
    ASSUME NEW t, NEW c, Sound(t, c, JitKey, JitHash, JitValue), NEW h \in JitHandle
    PROVE  Jit!Probe(t, h) = ProbeSlot(t, h, JitKey, JitHash)
<1> DEFINE C == Cap(t)
           Of(hits) == IF hits = {} THEN {}
                       ELSE {Slot(JitHash[h], CHOOSE x \in hits : \A m \in hits : x <= m, C)}
           at(x) == t[Slot(JitHash[h], x, C)]
           own == {x \in 0 .. C - 1 : ~at(x).occupied \/ (at(x).hash = JitHash[h] /\ at(x).key = h)}
           found == {x \in 0 .. C - 1 :
                        ~at(x).occupied \/ (at(x).hash = JitHash[h] /\ JitKey[at(x).key] = h)}
<1>1. Jit!Probe(t, h) = Of(own)
    BY Zenon DEF Jit!Probe, Jit!FirstSlot, Jit!Cap, Jit!Cardinality, Cap, Cardinality, Slot
<1>2. ProbeSlot(t, h, JitKey, JitHash) = Of(found)
    BY Zenon DEF ProbeSlot, FirstSlot, Slot
<1>3. ASSUME NEW x \in 0 .. C - 1, at(x).occupied PROVE JitKey[at(x).key] = at(x).key
  <2>1. C = c /\ c \in Nat \ {0} /\ JitHash[h] \in Nat
      BY SoundCap, BackendAssumption
  <2>2. Slot(JitHash[h], x, C) \in 0 .. c - 1
      BY <2>1, SlotFacts, Zenon
  <2>3. Slot(JitHash[h], x, C) \in Used(t)
      BY <1>3, <2>2 DEF Sound, Used
  <2>4. at(x).key \in JitHandle
      BY <2>3, SoundCap DEF JitKey
  <2>5. QED
      BY <2>4 DEF JitKey
<1>4. own = found
    BY <1>3, Zenon
<1> HIDE DEF Of, own, found
<1>5. QED
    BY <1>1, <1>2, <1>4

\* Writing at the slot found stores the key in the map.
LEMMA WasmStore ==
    ASSUME Counted(entries, len, 4, TextOf, Hash, Value),
           NEW t, NEW c \in Nat, c >= 4, len + 1 < c, Ready(t, c, TextOf, Hash, Value),
           NEW h \in Handle, NEW v \in Value, NEW s \in ProbeSlot(t, TextOf[h], TextOf, Hash),
           Wasm!Store(t, s, h, v)
    PROVE  Stores(TextOf[h], v)
<1>1. t[s].occupied <=> s \in Used(t)
    BY TextLookup
<1>2. Sound(t, c, TextOf, Hash, Value) /\ Used(t) # DOMAIN t
    BY TextProbing DEF Probing
<1>3. s \in Used(t) => TextOf[t[s].key] = TextOf[h]
    BY HashesAreNumbers, TextProbing, LookupStep
<1>4. CASE s \in Used(t)
  <2> DEFINE e == [t[s] EXCEPT !.value = v]
  <2>1. t[s] \in EntriesOf(DOMAIN TextOf, Value)
      BY <1>2, <1>4, SoundCap
  <2>2. t[s].hash = Hash[TextOf[h]]
      BY <1>2, <1>3, <1>4 DEF Sound
  <2>3. /\ e \in EntriesOf(DOMAIN TextOf, Value)
        /\ e.key = t[s].key /\ e.hash = t[s].hash /\ e.value = v
      BY <2>1, ValueOverwritten
  <2>4. Writes(t, s, e, entries') /\ len' = IF s \in Used(t) THEN len ELSE len + 1
      BY <1>1, <1>4 DEF Wasm!Store, Writes
  <2> HIDE DEF e
  <2>5. TextOf[e.key] = TextOf[h] /\ e.hash = Hash[TextOf[h]]
      BY <1>3, <1>4, <2>2, <2>3
  <2>6. Storing(t, c, TextOf, Hash, Value, e, s, entries')
      BY <1>2, <2>3, <2>4, <2>5 DEF Storing
  <2>7. Stores(TextOf[e.key], e.value)
      BY <2>4, <2>6, TextStore
  <2>8. QED
      BY <2>3, <2>5, <2>7
<1>5. CASE s \notin Used(t)
  <2> DEFINE e == Entry(h, v, Hash[TextOf[h]])
  <2>1. /\ e \in EntriesOf(DOMAIN TextOf, Value)
        /\ e.key = h /\ e.value = v /\ e.hash = Hash[TextOf[h]]
      BY TextFacts
  <2>2. Writes(t, s, e, entries') /\ len' = IF s \in Used(t) THEN len ELSE len + 1
      BY <1>1, <1>5 DEF Wasm!Store, Wasm!Entry, Entry, Writes
  <2> HIDE DEF e
  <2>3. Storing(t, c, TextOf, Hash, Value, e, s, entries')
      BY <1>2, <2>1, <2>2 DEF Storing
  <2>4. Stores(TextOf[e.key], e.value)
      BY <2>2, <2>3, TextStore
  <2>5. QED
      BY <2>1, <2>4
<1>6. QED
    BY <1>4, <1>5

\* text_index_set of Wasm stores the value in the map.
LEMMA WasmSet ==
    ASSUME IndexInv, backend = "wasm", NEW h \in Handle, NEW v \in Value,
           Wasm!text_index_set(h, v)
    PROVE  Stores(TextOf[h], v)
<1>1. PICK t \in Wasm!ensure_capacity : \E s \in Wasm!find_entry(t, h) : Wasm!Store(t, s, h, v)
    BY DEF Wasm!text_index_set
<1>2. PICK s \in Wasm!find_entry(t, h) : Wasm!Store(t, s, h, v)
    BY <1>1
<1>3. PICK c \in Nat : c >= 4 /\ len + 1 < c /\ Ready(t, c, TextOf, Hash, Value)
    BY WasmRoom
<1>4. s \in ProbeSlot(t, TextOf[h], TextOf, Hash)
  <2>1. Sound(t, c, TextOf, Hash, Value) /\ Used(t) # DOMAIN t
      BY <1>3, SoundCap DEF Ready
  <2>2. QED
      BY <1>2, <2>1, WasmFind
<1>5. QED
    BY <1>2, <1>3, <1>4, WasmStore DEF IndexInv

\* text_index_get_or_insert of Wasm answers with the value in the map, or stores the one
\* given.
LEMMA WasmGetOrInsert ==
    ASSUME IndexInv, backend = "wasm", NEW h \in Handle, NEW v \in Value,
           Wasm!text_index_get_or_insert(h, v)
    PROVE  \/ /\ TextOf[h] \in DOMAIN MapOf(entries, TextOf) /\ Keeps
              /\ answer' = Result("text_index_get_or_insert", TextOf[h],
                                  MapOf(entries, TextOf)[TextOf[h]])
           \/ /\ TextOf[h] \notin DOMAIN MapOf(entries, TextOf) /\ Stores(TextOf[h], v)
              /\ answer' = Result("text_index_get_or_insert", TextOf[h], v)
<1> DEFINE M == MapOf(entries, TextOf)
<1>1. PICK t \in Wasm!ensure_capacity : \E s \in Wasm!find_entry(t, h) :
         \/ /\ t[s].occupied /\ entries' = t /\ len' = len
            /\ answer' = Result("text_index_get_or_insert", TextOf[h], t[s].value)
         \/ /\ ~t[s].occupied /\ Wasm!Store(t, s, h, v)
            /\ answer' = Result("text_index_get_or_insert", TextOf[h], v)
    BY DEF Wasm!text_index_get_or_insert, Wasm!Result, Result
<1>2. PICK s \in Wasm!find_entry(t, h) :
         \/ /\ t[s].occupied /\ entries' = t /\ len' = len
            /\ answer' = Result("text_index_get_or_insert", TextOf[h], t[s].value)
         \/ /\ ~t[s].occupied /\ Wasm!Store(t, s, h, v)
            /\ answer' = Result("text_index_get_or_insert", TextOf[h], v)
    BY <1>1
<1>3. PICK c \in Nat : c >= 4 /\ len + 1 < c /\ Ready(t, c, TextOf, Hash, Value)
    BY WasmRoom
<1>4. s \in ProbeSlot(t, TextOf[h], TextOf, Hash)
  <2>1. Sound(t, c, TextOf, Hash, Value) /\ Used(t) # DOMAIN t
      BY <1>3, SoundCap DEF Ready
  <2>2. QED
      BY <1>2, <2>1, WasmFind
<1>5. Counted(entries, len, 4, TextOf, Hash, Value)
    BY DEF IndexInv
<1>6. /\ t[s].occupied <=> s \in Used(t)
      /\ s \in Used(t) => TextOf[h] \in DOMAIN M /\ M[TextOf[h]] = t[s].value
      /\ s \notin Used(t) => TextOf[h] \notin DOMAIN M
    BY <1>3, <1>4, <1>5, TextLookup
<1>7. CASE s \in Used(t)
  <2>1. Keeps
      BY <1>2, <1>3, <1>5, <1>6, <1>7, ReadyKeeps
  <2>2. QED
      BY <1>2, <1>6, <1>7, <2>1
<1>8. CASE s \notin Used(t)
  <2>1. Stores(TextOf[h], v)
      BY <1>2, <1>3, <1>4, <1>5, <1>6, <1>8, WasmStore
  <2>2. QED
      BY <1>2, <1>6, <1>8, <2>1
<1>9. QED
    BY <1>7, <1>8

-----------------------------------------------------------------------------
(* The JIT's runtime *)

\* Under the JIT a key is its address, and addresses have hashes.
LEMMA JitFacts ==
    /\ DOMAIN JitKey = JitHandle
    /\ \A h \in JitHandle : JitKey[h] = h /\ JitHash[h] \in Nat
    /\ Agree(JitKey, JitKey)
BY BackendAssumption DEF JitKey, Agree

\* Where a lookup in a table of the JIT stops.
LEMMA JitProbe ==
    ASSUME NEW t, NEW c, Ready(t, c, JitKey, JitHash, JitValue), NEW h \in JitHandle
    PROVE  \E s \in 0 .. c - 1 :
              /\ Jit!Probe(t, h) = {s} /\ ProbeSlot(t, h, JitKey, JitHash) = {s}
              /\ s \in Used(t) <=> Holds(t, JitKey, h)
              /\ t[s].occupied <=> s \in Used(t)
<1>1. /\ Sound(t, c, JitKey, JitHash, JitValue) /\ Used(t) # DOMAIN t
      /\ JitHash[h] \in Nat
    BY JitFacts, SoundCap DEF Ready
<1>2. PICK s \in 0 .. c - 1 : /\ ProbeSlot(t, h, JitKey, JitHash) = {s}
                              /\ s \in Used(t) <=> Holds(t, JitKey, h)
    BY <1>1, ProbeResult
<1>3. Jit!Probe(t, h) = {s}
    BY <1>1, <1>2, JitFind
<1>4. t[s].occupied <=> s \in Used(t)
    BY <1>1, OccupiedIsUsed DEF Sound
<1>5. QED
    BY <1>2, <1>3, <1>4

\* The JIT finds a key exactly if the table has an entry for it.
LEMMA JitFoundIsHeld ==
    ASSUME NEW t, NEW c, Ready(t, c, JitKey, JitHash, JitValue), NEW h \in JitHandle
    PROVE  Jit!Found(t, h) <=> Holds(t, JitKey, h)
<1>1. PICK s \in 0 .. c - 1 : /\ Jit!Probe(t, h) = {s}
                              /\ s \in Used(t) <=> Holds(t, JitKey, h)
                              /\ t[s].occupied <=> s \in Used(t)
    BY JitProbe
<1>2. QED
    BY <1>1 DEF Jit!Found

\* sarif_text_index_set of the JIT works on a table that has the key already, or room for it.
LEMMA JitRoom ==
    ASSUME IndexInv, backend = "jit", NEW h \in JitHandle, NEW t, t = Jit!Room(h)
    PROVE  \E c \in Nat : /\ c >= 8 /\ Ready(t, c, JitKey, JitHash, JitValue)
                          /\ Holds(t, JitKey, h) \/ len + 1 < c
<1> DEFINE cap == Cap(entries)
<1>1. /\ Sound(entries, cap, JitKey, JitHash, JitValue) /\ cap >= 8
      /\ len = Cardinality(Used(entries)) /\ len < cap
    BY DEF IndexInv, Counted
<1>2. cap \in Nat \ {0} /\ len \in Nat
    BY <1>1, SoundCap
<1>3. Ready(entries, cap, JitKey, JitHash, JitValue)
    BY <1>1 DEF Ready
<1>4. /\ Jit!Found(entries, h) <=> Holds(entries, JitKey, h)
      /\ Jit!Probe(entries, h) # {}
    BY <1>3, JitProbe, JitFoundIsHeld
<1>5. t = IF ~Jit!Found(entries, h) /\ Jit!Crowded(entries) THEN Jit!index_grow(entries) ELSE entries
    BY <1>4 DEF Jit!Room
<1>6. CASE Jit!Found(entries, h)
    BY <1>1, <1>2, <1>3, <1>4, <1>5, <1>6
<1>7. CASE ~Jit!Found(entries, h) /\ ~Jit!Crowded(entries)
  <2>1. len + 1 < cap
      BY <1>1, <1>2, <1>7, SameOperators DEF Jit!Crowded
  <2>2. QED
      BY <1>1, <1>2, <1>3, <1>5, <1>7, <2>1
<1>8. CASE ~Jit!Found(entries, h) /\ Jit!Crowded(entries)
  <2>1. t = Moved(entries, Blank(2 * Cap(entries)))
      BY <1>5, <1>8, SameOperators DEF Jit!index_grow
  <2>2. Ready(t, 2 * cap, JitKey, JitHash, JitValue) /\ len + 1 < 2 * cap
      BY <1>1, <2>1, GrownReady
  <2>3. QED
      BY <1>1, <1>2, <2>2
<1>9. QED
    BY <1>6, <1>7, <1>8

\* What an operation that stores v at the handle h does to the table and the map.
JitStores(L, h, v) ==
    /\ Counted(entries', len', 8, JitKey, JitHash, JitValue)
    /\ MapOf(entries', L) = With(MapOf(entries, L), L[h], v)

\* Writing there stores the key in the map.
LEMMA JitPut ==
    ASSUME NEW L, Agree(JitKey, L), Counted(entries, len, 8, JitKey, JitHash, JitValue),
           NEW t, NEW c \in Nat, c >= 8, Ready(t, c, JitKey, JitHash, JitValue),
           NEW h \in JitHandle, NEW v \in JitValue, Holds(t, JitKey, h) \/ len + 1 < c,
           Jit!Put(t, h, v)
    PROVE  JitStores(L, h, v)
<1> DEFINE e == Entry(h, v, JitHash[h])
<1>1. PICK s \in Jit!Probe(t, h) : /\ entries' = [t EXCEPT ![s] = e]
                                   /\ len' = IF t[s].occupied THEN len ELSE len + 1
    BY Zenon DEF Jit!Put, Jit!Entry, Entry
<1>2. /\ s \in ProbeSlot(t, h, JitKey, JitHash)
      /\ s \in Used(t) <=> Holds(t, JitKey, h)
      /\ t[s].occupied <=> s \in Used(t)
    BY JitProbe
<1>3. /\ e \in EntriesOf(DOMAIN JitKey, JitValue) /\ e.key = h /\ e.value = v
      /\ e.hash = JitHash[h]
    BY JitFacts DEF Entry, EntriesOf
<1>4. Writes(t, s, e, entries') /\ len' = IF s \in Used(t) THEN len ELSE len + 1
    BY <1>1, <1>2 DEF Writes
<1> HIDE DEF e
<1>5. JitKey[e.key] = h
    BY <1>3, JitFacts
<1>6. Sound(t, c, JitKey, JitHash, JitValue) /\ Used(t) # DOMAIN t
    BY SoundCap DEF Ready
<1>7. Storing(t, c, JitKey, JitHash, JitValue, e, s, entries')
    BY <1>2, <1>3, <1>4, <1>5, <1>6 DEF Storing
<1>8. Sound(entries, Cap(entries), JitKey, JitHash, JitValue) /\ (s \notin Used(t) => len + 1 < c)
    BY <1>2 DEF Counted
<1>9. /\ Sound(entries', c, JitKey, JitHash, JitValue) /\ Cap(entries') = c
      /\ len' = Cardinality(Used(entries')) /\ len' < c
      /\ MapOf(entries', L) = With(MapOf(entries, L), L[e.key], e.value)
    BY <1>4, <1>7, <1>8, ReadyStore
<1>10. QED
    BY <1>3, <1>9 DEF JitStores, Counted

\* What the JIT finds is what the map has.
LEMMA JitLookup ==
    ASSUME NEW L, Agree(JitKey, L), Counted(entries, len, 8, JitKey, JitHash, JitValue),
           NEW h \in JitHandle
    PROVE  /\ Jit!Found(entries, h) <=> L[h] \in DOMAIN MapOf(entries, L)
           /\ Jit!Found(entries, h) => Jit!ValueAt(h) = MapOf(entries, L)[L[h]]
<1>1. Ready(entries, Cap(entries), JitKey, JitHash, JitValue)
    BY EntriesReady
<1>2. PICK s \in 0 .. Cap(entries) - 1 :
         /\ Jit!Probe(entries, h) = {s} /\ ProbeSlot(entries, h, JitKey, JitHash) = {s}
         /\ entries[s].occupied <=> s \in Used(entries)
    BY <1>1, JitProbe
<1>3. Jit!Found(entries, h) <=> s \in Used(entries)
    BY <1>2 DEF Jit!Found
<1>4. Jit!ValueAt(h) = entries[s].value
  <2>1. (CHOOSE x \in {s} : TRUE) = s
      OBVIOUS
  <2>2. QED
      BY <1>2, <2>1 DEF Jit!ValueAt
<1>5. s \in ProbeSlot(entries, JitKey[h], JitKey, JitHash) /\ JitHash[JitKey[h]] \in Nat
      /\ h \in DOMAIN JitKey
    BY <1>2, JitFacts
<1>6. Probing(entries, Cap(entries), JitKey, JitHash, JitValue, h, s)
    BY <1>1, <1>5, ReadyProbing
<1>7. /\ entries[s].occupied <=> s \in Used(entries)
      /\ s \in Used(entries) => /\ JitKey[entries[s].key] = JitKey[h]
                                /\ L[h] \in DOMAIN MapOf(entries, L)
                                /\ MapOf(entries, L)[L[h]] = entries[s].value
      /\ s \notin Used(entries) => L[h] \notin DOMAIN MapOf(entries, L)
    BY <1>6, LookupStep, Zenon
<1>8. QED
    BY <1>3, <1>4, <1>7

-----------------------------------------------------------------------------
(* Soundness *)

\* The table a program starts with satisfies the invariant.
LEMMA IndexInitially == BackendInit => IndexInv
<1> SUFFICES ASSUME BackendInit PROVE IndexInv
    OBVIOUS
<1>1. null = FALSE /\ len = 0
    BY DEF BackendInit, Init, Jit!Init
<1>2. CASE backend = "jit"
  <2>1. entries = Blank(JitCap) /\ JitCap \in Nat \ {0} /\ JitCap >= 8
      BY <1>2, SameOperators, BackendAssumption DEF BackendInit, Jit!Init
  <2>2. Sound(entries, JitCap, JitKey, JitHash, JitValue) /\ Used(entries) = {}
      BY <2>1, BlankSound
  <2>3. Cap(entries) = JitCap /\ Cardinality(Used(entries)) = 0
      BY <2>2, SoundCap, FS_EmptySet
  <2>4. QED
      BY <1>1, <1>2, <2>1, <2>2, <2>3 DEF IndexInv, Counted
<1>3. CASE backend # "jit"
  <2>1. entries = Blank(InitialCap) /\ InitialCap \in Nat \ {0} /\ InitialCap >= 4
      BY <1>3, IndexAssumption DEF BackendInit, Init
  <2>2. Sound(entries, InitialCap, TextOf, Hash, Value) /\ Used(entries) = {}
      BY <2>1, BlankSound
  <2>3. Cap(entries) = InitialCap /\ Cardinality(Used(entries)) = 0
      BY <2>2, SoundCap, FS_EmptySet
  <2>4. QED
      BY <1>1, <1>3, <2>1, <2>2, <2>3 DEF IndexInv, Counted
<1>4. QED
    BY <1>2, <1>3

\* No operation of any backend breaks the invariant.
LEMMA IndexSteps ==
    ASSUME "scopes" \notin Program, IndexInv, [BackendNext]_<<vars, backend>>
    PROVE  IndexInv'
<1>1. CASE UNCHANGED <<vars, backend>>
    BY <1>1 DEF IndexInv, vars
<1>2. CASE backend = "native" /\ Next /\ UNCHANGED backend
  <2>1. Counted(entries, len, 4, TextOf, Hash, Value)
      BY <1>2 DEF IndexInv
  <2>2. Counted(entries', len', 4, TextOf, Hash, Value)
    <3>1. CASE UNCHANGED <<entries, len>>
        BY <2>1, <3>1
    <3>2. ASSUME NEW h \in Handle, NEW v \in Value, text_index_set(h, v)
          PROVE  Counted(entries', len', 4, TextOf, Hash, Value)
        BY <2>1, <3>2, NativeSet DEF Stores
    <3>3. ASSUME NEW h \in Handle, NEW v \in Value, text_index_get_or_insert(h, v)
          PROVE  Counted(entries', len', 4, TextOf, Hash, Value)
        BY <2>1, <3>3, NativeGetOrInsert DEF Stores, Keeps
    <3>4. QED
        BY <1>2, <3>1, <3>2, <3>3
           DEF Next, text_index_get, text_index_contains, text_index_set_fails,
               text_index_get_or_insert_fails, NullIndex, text_index_keys
  <2>3. QED
      BY <1>2, <2>2 DEF IndexInv
<1>3. CASE backend = "wasm" /\ WasmNext /\ UNCHANGED backend
  <2>1. Counted(entries, len, 4, TextOf, Hash, Value) /\ null = FALSE
      BY <1>3 DEF IndexInv
  <2>2. Counted(entries', len', 4, TextOf, Hash, Value)
    <3>1. CASE UNCHANGED <<entries, len>>
        BY <2>1, <3>1
    <3>2. ASSUME NEW h \in Handle, NEW v \in Value, Wasm!text_index_set(h, v)
          PROVE  Counted(entries', len', 4, TextOf, Hash, Value)
        BY <1>3, <3>2, WasmSet DEF Stores
    <3>3. ASSUME NEW h \in Handle, NEW v \in Value, Wasm!text_index_get_or_insert(h, v)
          PROVE  Counted(entries', len', 4, TextOf, Hash, Value)
        BY <1>3, <3>3, WasmGetOrInsert DEF Stores, Keeps
    <3>4. QED
        BY <1>3, <3>1, <3>2, <3>3 DEF WasmNext, Wasm!text_index_get, Wasm!text_index_contains
  <2>3. UNCHANGED null
      BY <1>3 DEF WasmNext, Wasm!text_index_set, Wasm!text_index_get_or_insert,
                  Wasm!text_index_get, Wasm!text_index_contains
  <2>4. QED
      BY <1>3, <2>1, <2>2, <2>3 DEF IndexInv
<1>4. CASE backend = "jit" /\ JitNext /\ UNCHANGED backend
  <2>1. Counted(entries, len, 8, JitKey, JitHash, JitValue)
      BY <1>4 DEF IndexInv
  <2>2. Counted(entries', len', 8, JitKey, JitHash, JitValue)
    <3>1. CASE UNCHANGED <<entries, len>>
        BY <2>1, <3>1
    <3>2. ASSUME NEW h \in JitHandle, NEW v \in JitValue, Jit!Put(Jit!Room(h), h, v)
          PROVE  Counted(entries', len', 8, JitKey, JitHash, JitValue)
      <4>1. PICK c \in Nat : /\ c >= 8 /\ Ready(Jit!Room(h), c, JitKey, JitHash, JitValue)
                             /\ Holds(Jit!Room(h), JitKey, h) \/ len + 1 < c
          BY <1>4, JitRoom
      <4>2. QED
          BY <2>1, <3>2, <4>1, JitFacts, JitPut DEF JitStores
    <3>3. QED
        BY <1>4, <3>1, <3>2
           DEF JitNext, Jit!text_index_set, Jit!text_index_get_or_insert, Jit!text_index_get,
               Jit!text_index_contains, Jit!text_index_keys
  <2>3. QED
      BY <1>4, <2>2 DEF IndexInv
<1>5. QED
    BY <1>1, <1>2, <1>3, <1>4 DEF BackendNext

\* On a table that satisfies the invariant, lookups find what is stored and nothing else.
LEMMA InvIsSound == IndexInv => TableSound
<1> SUFFICES ASSUME IndexInv PROVE TableSound
    OBVIOUS
<1>1. CASE backend = "jit"
  <2>1. Counted(entries, len, 8, JitKey, JitHash, JitValue)
      BY <1>1 DEF IndexInv
  <2>2. /\ Sound(entries, Cap(entries), JitKey, JitHash, JitValue)
        /\ len = Cardinality(Used(entries)) /\ len < Cap(entries)
      BY <2>1 DEF Counted
  <2>3. Used(entries) # DOMAIN entries
      BY <2>2, SoundCap
  <2>4. ASSUME NEW i \in Used(entries) PROVE Jit!Probe(entries, entries[i].key) = {i}
    <3>1. entries[i].key \in JitHandle /\ JitKey[entries[i].key] = entries[i].key
        BY <2>2, SoundCap, JitFacts
    <3>2. ProbeSlot(entries, JitKey[entries[i].key], JitKey, JitHash) = {i}
        BY <2>2, ProbeFinds
    <3>3. QED
        BY <2>2, <3>1, <3>2, JitFind
  <2>5. QED
      BY <1>1, <2>2, <2>3, <2>4 DEF TableSound
<1>2. CASE backend # "jit"
  <2>1. Counted(entries, len, 4, TextOf, Hash, Value)
      BY <1>2 DEF IndexInv
  <2>2. /\ Sound(entries, Cap(entries), TextOf, Hash, Value)
        /\ len = Cardinality(Used(entries)) /\ len < Cap(entries)
      BY <2>1 DEF Counted
  <2>3. Used(entries) # DOMAIN entries
      BY <2>2, SoundCap
  <2>4. ASSUME NEW i \in Used(entries)
        PROVE  /\ find_entry(entries, entries[i].key) = {i}
               /\ Wasm!find_entry(entries, entries[i].key) = {i}
    <3>1. entries[i].key \in Handle
        BY <2>2, SoundCap, IndexAssumption
    <3>2. ProbeSlot(entries, TextOf[entries[i].key], TextOf, Hash) = {i}
        BY <2>2, ProbeFinds
    <3>3. find_entry(entries, entries[i].key) = {i}
        BY <3>2, NativeFind
    <3>4. Wasm!find_entry(entries, entries[i].key) = {i}
        BY <2>2, <2>3, <3>1, <3>2, WasmFind
    <3>5. QED
        BY <3>3, <3>4
  <2>5. QED
      BY <1>2, <2>2, <2>3, <2>4 DEF TableSound
<1>3. QED
    BY <1>1, <1>2

\* On every backend the table stays sound (TableSound), whatever the texts, their hashes
\* and the operations: a stored key is found at its entry and stored once, len is the
\* number of entries, and an empty slot ends every probe.  Under Wasm this needs a
\* program that closes no allocation scope: the memory a table grows into is then clear.
THEOREM TablesStaySound ==
    ASSUME "scopes" \notin Program
    PROVE  BackendSpec => []TableSound
<1>1. BackendInit => IndexInv
    BY IndexInitially
<1>2. IndexInv /\ [BackendNext]_<<vars, backend>> => IndexInv'
    BY IndexSteps
<1>3. IndexInv => TableSound
    BY InvIsSound
<1>4. QED
    BY <1>1, <1>2, <1>3, PTL DEF BackendSpec

-----------------------------------------------------------------------------
(* Refinement *)

TheMap == MapOf(entries, KeyText)

\* The steps of TextMap, in terms of the table.
LEMMA MapReadSteps ==
    ASSUME NEW k \in Texts \cup {NoKey}, TheMap' = TheMap,
           \/ AbsAnswer' = Result("text_index_get", k,
                                  IF k \in DOMAIN TheMap THEN TheMap[k] ELSE Miss)
           \/ AbsAnswer' = Result("text_index_contains", k, IF k \in DOMAIN TheMap THEN 1 ELSE 0)
    PROVE  Map!Next
<1>1. CASE AbsAnswer' = Result("text_index_get", k,
                               IF k \in DOMAIN TheMap THEN TheMap[k] ELSE Miss)
  <2>1. Map!text_index_get(k)
      BY <1>1 DEF Map!text_index_get, Map!Lookup, Map!Result, Map!Miss, Result, Miss, TheMap
  <2>2. QED
      BY <2>1 DEF Map!Next
<1>2. CASE AbsAnswer' = Result("text_index_contains", k, IF k \in DOMAIN TheMap THEN 1 ELSE 0)
  <2>1. Map!text_index_contains(k)
      BY <1>2 DEF Map!text_index_contains, Map!Result, Result, TheMap
  <2>2. QED
      BY <2>1 DEF Map!Next
<1>3. QED
    BY <1>1, <1>2

\* An operation that stores, or answers with what is stored, is one of the map.
LEMMA MapStoreSteps ==
    ASSUME NEW k \in Texts \cup {NoKey}, NEW v \in Value \cup JitValue,
           \/ /\ k \in DOMAIN TheMap /\ TheMap' = TheMap
              /\ AbsAnswer' = Result("text_index_get_or_insert", k, TheMap[k])
           \/ /\ k \notin DOMAIN TheMap /\ TheMap' = With(TheMap, k, v)
              /\ AbsAnswer' = Result("text_index_get_or_insert", k, v)
           \/ /\ TheMap' = With(TheMap, k, v)
              /\ AbsAnswer' = Result("text_index_set", k, 0)
    PROVE  Map!Next
<1>1. CASE /\ k \in DOMAIN TheMap /\ TheMap' = TheMap
           /\ AbsAnswer' = Result("text_index_get_or_insert", k, TheMap[k])
  <2>1. Map!text_index_get_or_insert(k, v)
      BY <1>1 DEF Map!text_index_get_or_insert, Map!Result, Result, TheMap
  <2>2. QED
      BY <2>1 DEF Map!Next
<1>2. CASE /\ k \notin DOMAIN TheMap /\ TheMap' = With(TheMap, k, v)
           /\ AbsAnswer' = Result("text_index_get_or_insert", k, v)
  <2>1. Map!text_index_get_or_insert(k, v)
      BY <1>2 DEF Map!text_index_get_or_insert, Map!Put, With, Map!Result, Result, TheMap
  <2>2. QED
      BY <2>1 DEF Map!Next
<1>3. CASE TheMap' = With(TheMap, k, v) /\ AbsAnswer' = Result("text_index_set", k, 0)
  <2>1. Map!text_index_set(k, v)
      BY <1>3 DEF Map!text_index_set, Map!Put, With, Map!Result, Result, TheMap
  <2>2. QED
      BY <2>1 DEF Map!Next
<1>4. QED
    BY <1>1, <1>2, <1>3

\* An operation that answers with the keys in order is one of the map.
LEMMA MapKeysStep ==
    ASSUME TheMap' = TheMap,
           AbsAnswer' = Result("text_index_keys", NoKey,
                               [keys |-> Ascending(DOMAIN TheMap), terminated |-> FALSE])
    PROVE  Map!Next
<1>1. Map!InOrder(DOMAIN TheMap) = Ascending(DOMAIN TheMap)
    BY Zenon DEF Map!InOrder, Ascending, Map!Cardinality, Cardinality
<1>2. Map!text_index_keys
    BY <1>1, Zenon DEF Map!text_index_keys, Map!Result, Result, Map!NoKey, NoKey, TheMap
<1>3. QED
    BY <1>2 DEF Map!Next

\* An operation that is refused and changes nothing is one of the map.
LEMMA MapRefuseStep ==
    ASSUME NEW k \in Texts \cup {NoKey}, TheMap' = TheMap, AbsAnswer' = Result("refused", k, 0)
    PROVE  Map!Next
<1>1. Map!Refuse(k)
    BY DEF Map!Refuse, Map!Result, Result, TheMap
<1>2. QED
    BY <1>1 DEF Map!Next

\* An answer that is not a list of keys and not a refusal is the map's answer.
LEMMA PlainAnswer ==
    ASSUME NEW op, NEW k, NEW r, answer' = Result(op, k, r), op # "text_index_keys",
           \/ backend' # "native"
           \/ ~null' /\ ~(op = "text_index_get_or_insert" /\ r = Miss)
    PROVE  AbsAnswer' = Result(op, k, r)
BY DEF AbsAnswer, Refused, Result

\* Every operation of the C runtime is one of the map,
LEMMA NativeMaps ==
    ASSUME IndexInv, backend = "native", Next, UNCHANGED backend
    PROVE  Map!Next
<1>1. /\ Counted(entries, len, 4, TextOf, Hash, Value)
      /\ Sound(entries, Cap(entries), TextOf, Hash, Value)
    BY DEF IndexInv, Counted
<1>2. TheMap = MapOf(entries, TextOf) /\ TheMap' = MapOf(entries', TextOf)
    BY DEF TheMap, KeyText
<1>3. \A h \in Handle : TextOf[h] \in Texts \cup {NoKey} /\ TextOf[h] \in Texts
    BY DEF Texts, Text
<1>4. \A k \in DOMAIN TheMap : TheMap[k] \in Value /\ TheMap[k] # Miss
    BY <1>1, <1>2, HashesAreNumbers, MapValuesStored, IndexAssumption DEF Miss
<1>5. UNCHANGED entries => TheMap' = TheMap
    BY <1>2
<1>6. ASSUME NEW h \in Handle, NEW s \in find_entry(entries, h)
      PROVE  /\ entries[s].occupied <=> TextOf[h] \in DOMAIN TheMap
             /\ entries[s].occupied => entries[s].value = TheMap[TextOf[h]]
  <2>1. s \in ProbeSlot(entries, TextOf[h], TextOf, Hash)
      BY NativeFind
  <2>2. Ready(entries, Cap(entries), TextOf, Hash, Value)
      BY <1>1, EntriesReady
  <2>3. /\ entries[s].occupied <=> s \in Used(entries)
        /\ s \in Used(entries) => TextOf[h] \in DOMAIN TheMap /\ TheMap[TextOf[h]] = entries[s].value
        /\ s \notin Used(entries) => TextOf[h] \notin DOMAIN TheMap
      BY <1>1, <1>2, <2>1, <2>2, TextLookup, ZenonT(40)
  <2>4. QED
      BY <2>3
<1>7. ASSUME NEW h \in Handle, NEW v \in Value, text_index_set(h, v) PROVE Map!Next
  <2>1. TheMap' = With(TheMap, TextOf[h], v)
      BY <1>1, <1>2, <1>7, NativeSet DEF Stores
  <2>2. answer' = Result("text_index_set", TextOf[h], 0) /\ ~null'
      BY <1>7 DEF text_index_set
  <2>3. AbsAnswer' = Result("text_index_set", TextOf[h], 0)
      BY <2>2, PlainAnswer
  <2>4. QED
      BY <1>3, <2>1, <2>3, MapStoreSteps
<1>8. ASSUME NEW h \in Handle, NEW v \in Value, text_index_get_or_insert(h, v) PROVE Map!Next
  <2>1. ~null'
      BY <1>8 DEF text_index_get_or_insert
  <2>2. CASE /\ TextOf[h] \in DOMAIN TheMap /\ Keeps
             /\ answer' = Result("text_index_get_or_insert", TextOf[h], TheMap[TextOf[h]])
    <3>1. AbsAnswer' = Result("text_index_get_or_insert", TextOf[h], TheMap[TextOf[h]])
        BY <1>4, <2>1, <2>2, PlainAnswer
    <3>2. TheMap' = TheMap
        BY <1>2, <2>2 DEF Keeps
    <3>3. QED
        BY <1>3, <2>2, <3>1, <3>2, MapStoreSteps
  <2>3. CASE /\ TextOf[h] \notin DOMAIN TheMap /\ Stores(TextOf[h], v)
             /\ answer' = Result("text_index_get_or_insert", TextOf[h], v)
    <3>1. v # Miss
        BY IndexAssumption DEF Miss
    <3>2. AbsAnswer' = Result("text_index_get_or_insert", TextOf[h], v)
        BY <2>1, <2>3, <3>1, PlainAnswer
    <3>3. TheMap' = With(TheMap, TextOf[h], v)
        BY <1>2, <2>3 DEF Stores
    <3>4. QED
        BY <1>3, <2>3, <3>2, <3>3, MapStoreSteps
  <2>4. QED
      BY <1>1, <1>2, <1>8, <2>2, <2>3, NativeGetOrInsert
<1>9. ASSUME NEW h \in Handle, text_index_get(h) PROVE Map!Next
  <2>1. PICK s \in find_entry(entries, h) :
          answer' = Result("text_index_get", TextOf[h],
                           IF entries[s].occupied THEN entries[s].value ELSE Miss)
      BY <1>9 DEF text_index_get
  <2>2. answer' = Result("text_index_get", TextOf[h],
                         IF TextOf[h] \in DOMAIN TheMap THEN TheMap[TextOf[h]] ELSE Miss)
      BY <1>6, <2>1
  <2>3. AbsAnswer' = Result("text_index_get", TextOf[h],
                            IF TextOf[h] \in DOMAIN TheMap THEN TheMap[TextOf[h]] ELSE Miss)
      BY <1>9, <2>2, PlainAnswer DEF text_index_get
  <2>4. QED
      BY <1>3, <1>5, <1>9, <2>3, MapReadSteps DEF text_index_get
<1>10. ASSUME NEW h \in Handle, text_index_contains(h) PROVE Map!Next
  <2>1. PICK s \in find_entry(entries, h) :
          answer' = Result("text_index_contains", TextOf[h], IF entries[s].occupied THEN 1 ELSE 0)
      BY <1>10 DEF text_index_contains
  <2>2. answer' = Result("text_index_contains", TextOf[h],
                         IF TextOf[h] \in DOMAIN TheMap THEN 1 ELSE 0)
      BY <1>6, <2>1
  <2>3. AbsAnswer' = Result("text_index_contains", TextOf[h],
                            IF TextOf[h] \in DOMAIN TheMap THEN 1 ELSE 0)
      BY <1>10, <2>2, PlainAnswer DEF text_index_contains
  <2>4. QED
      BY <1>3, <1>5, <1>10, <2>3, MapReadSteps DEF text_index_contains
<1>11. ASSUME NEW h \in Handle, text_index_set_fails(h) PROVE Map!Next
  <2>1. AbsAnswer' = Result("refused", TextOf[h], 0)
      BY <1>11 DEF text_index_set_fails, AbsAnswer, Refused, Result
  <2>2. QED
      BY <1>3, <1>5, <1>11, <2>1, MapRefuseStep DEF text_index_set_fails
<1>12. ASSUME NEW h \in Handle, text_index_get_or_insert_fails(h) PROVE Map!Next
  <2>1. AbsAnswer' = Result("refused", TextOf[h], 0)
      BY <1>12 DEF text_index_get_or_insert_fails, AbsAnswer, Refused, Result
  <2>2. QED
      BY <1>3, <1>5, <1>12, <2>1, MapRefuseStep DEF text_index_get_or_insert_fails
<1>13. ASSUME NEW h \in Handle, NullIndex(h) PROVE Map!Next
  <2>1. UNCHANGED entries /\ null'
      BY <1>13 DEF NullIndex
  <2>2. AbsAnswer' = Result("refused", answer'.key, 0)
      BY <2>1 DEF AbsAnswer, Refused
  <2>3. answer'.key \in Texts \cup {NoKey}
      BY <1>3, <1>13 DEF NullIndex, Result
  <2>4. QED
      BY <1>5, <2>1, <2>2, <2>3, MapRefuseStep
<1>14. ASSUME text_index_keys PROVE Map!Next
  <2> DEFINE keys == [i \in DOMAIN SlotOrder(entries) |-> TextOf[SlotOrder(entries)[i]]]
  <2>1. /\ answer' = Result("text_index_keys", NoKey,
                            [keys |-> keys, terminated |-> Used(entries) # {}])
        /\ UNCHANGED entries /\ ~null'
      BY <1>14 DEF text_index_keys
  <2>2. {keys[i] : i \in DOMAIN keys} = DOMAIN TheMap
    <3>1. {keys[i] : i \in DOMAIN keys} =
             {TextOf[SlotOrder(entries)[i]] : i \in DOMAIN SlotOrder(entries)}
        OBVIOUS
    <3>2. {TextOf[SlotOrder(entries)[i]] : i \in DOMAIN SlotOrder(entries)} =
             DOMAIN MapOf(entries, TextOf)
        BY <1>1, SlotOrderKeys, Zenon
    <3> HIDE DEF keys
    <3>3. QED
        BY <1>2, <3>1, <3>2, Zenon
  <2> HIDE DEF keys
  <2>3. AbsAnswer' = [answer' EXCEPT !.result = Listed(answer.result)']
      BY <2>1 DEF AbsAnswer, Refused, Result
  <2>4. Listed(answer.result)' = [keys |-> Ascending(DOMAIN TheMap), terminated |-> FALSE]
      BY <2>1, <2>2, Zenon DEF Listed, Result
  <2>5. AbsAnswer' = Result("text_index_keys", NoKey,
                            [keys |-> Ascending(DOMAIN TheMap), terminated |-> FALSE])
      BY <2>1, <2>3, <2>4, Zenon DEF Result
  <2>6. QED
      BY <1>5, <2>1, <2>5, MapKeysStep
<1>15. QED
    BY <1>7, <1>8, <1>9, <1>10, <1>11, <1>12, <1>13, <1>14 DEF Next

\* every operation of Wasm,
LEMMA WasmMaps ==
    ASSUME IndexInv, backend = "wasm", WasmNext, UNCHANGED backend, "scopes" \notin Program
    PROVE  Map!Next
<1>1. /\ Counted(entries, len, 4, TextOf, Hash, Value)
      /\ Sound(entries, Cap(entries), TextOf, Hash, Value)
    BY DEF IndexInv, Counted
<1>2. TheMap = MapOf(entries, TextOf) /\ TheMap' = MapOf(entries', TextOf)
    BY DEF TheMap, KeyText
<1>3. \A h \in Handle : TextOf[h] \in Texts \cup {NoKey}
    BY DEF Texts, Text
<1>4. backend' # "native"
    OBVIOUS
<1>5. UNCHANGED entries => TheMap' = TheMap
    BY <1>2
<1>6. ASSUME NEW h \in Handle, NEW s \in Wasm!find_entry(entries, h)
      PROVE  /\ entries[s].occupied <=> TextOf[h] \in DOMAIN TheMap
             /\ entries[s].occupied => entries[s].value = TheMap[TextOf[h]]
  <2>1. Ready(entries, Cap(entries), TextOf, Hash, Value)
      BY <1>1, EntriesReady
  <2>2. Used(entries) # DOMAIN entries
      BY <1>1, SoundCap DEF Counted
  <2>3. s \in ProbeSlot(entries, TextOf[h], TextOf, Hash)
      BY <1>1, <2>2, WasmFind
  <2>4. /\ entries[s].occupied <=> s \in Used(entries)
        /\ s \in Used(entries) => TextOf[h] \in DOMAIN TheMap /\ TheMap[TextOf[h]] = entries[s].value
        /\ s \notin Used(entries) => TextOf[h] \notin DOMAIN TheMap
      BY <1>1, <1>2, <2>1, <2>3, TextLookup, ZenonT(40)
  <2>5. QED
      BY <2>4
<1>7. ASSUME NEW h \in Handle, NEW v \in Value, Wasm!text_index_set(h, v) PROVE Map!Next
  <2>1. TheMap' = With(TheMap, TextOf[h], v)
      BY <1>2, <1>7, WasmSet DEF Stores
  <2>2. answer' = Result("text_index_set", TextOf[h], 0)
      BY <1>7 DEF Wasm!text_index_set, Wasm!Result, Result
  <2>3. AbsAnswer' = Result("text_index_set", TextOf[h], 0)
      BY <1>4, <2>2, PlainAnswer
  <2>4. QED
      BY <1>3, <2>1, <2>3, MapStoreSteps
<1>8. ASSUME NEW h \in Handle, NEW v \in Value, Wasm!text_index_get_or_insert(h, v)
      PROVE  Map!Next
  <2>1. CASE /\ TextOf[h] \in DOMAIN TheMap /\ Keeps
             /\ answer' = Result("text_index_get_or_insert", TextOf[h], TheMap[TextOf[h]])
    <3>1. AbsAnswer' = Result("text_index_get_or_insert", TextOf[h], TheMap[TextOf[h]])
        BY <1>4, <2>1, PlainAnswer
    <3>2. TheMap' = TheMap
        BY <1>2, <2>1 DEF Keeps
    <3>3. QED
        BY <1>3, <2>1, <3>1, <3>2, MapStoreSteps
  <2>2. CASE /\ TextOf[h] \notin DOMAIN TheMap /\ Stores(TextOf[h], v)
             /\ answer' = Result("text_index_get_or_insert", TextOf[h], v)
    <3>1. AbsAnswer' = Result("text_index_get_or_insert", TextOf[h], v)
        BY <1>4, <2>2, PlainAnswer
    <3>2. TheMap' = With(TheMap, TextOf[h], v)
        BY <1>2, <2>2 DEF Stores
    <3>3. QED
        BY <1>3, <2>2, <3>1, <3>2, MapStoreSteps
  <2>3. QED
      BY <1>2, <1>8, <2>1, <2>2, WasmGetOrInsert
<1>9. ASSUME NEW h \in Handle, Wasm!text_index_get(h) PROVE Map!Next
  <2>1. PICK s \in Wasm!find_entry(entries, h) :
          answer' = Result("text_index_get", TextOf[h],
                           IF entries[s].occupied THEN entries[s].value ELSE Miss)
      BY <1>9 DEF Wasm!text_index_get, Wasm!Result, Result, Wasm!Miss, Miss
  <2>2. answer' = Result("text_index_get", TextOf[h],
                         IF TextOf[h] \in DOMAIN TheMap THEN TheMap[TextOf[h]] ELSE Miss)
      BY <1>6, <2>1
  <2>3. AbsAnswer' = Result("text_index_get", TextOf[h],
                            IF TextOf[h] \in DOMAIN TheMap THEN TheMap[TextOf[h]] ELSE Miss)
      BY <1>4, <2>2, PlainAnswer
  <2>4. QED
      BY <1>3, <1>5, <1>9, <2>3, MapReadSteps DEF Wasm!text_index_get
<1>10. ASSUME NEW h \in Handle, Wasm!text_index_contains(h) PROVE Map!Next
  <2>1. PICK s \in Wasm!find_entry(entries, h) :
          answer' = Result("text_index_contains", TextOf[h], IF entries[s].occupied THEN 1 ELSE 0)
      BY <1>10 DEF Wasm!text_index_contains, Wasm!Result, Result
  <2>2. answer' = Result("text_index_contains", TextOf[h],
                         IF TextOf[h] \in DOMAIN TheMap THEN 1 ELSE 0)
      BY <1>6, <2>1
  <2>3. AbsAnswer' = Result("text_index_contains", TextOf[h],
                            IF TextOf[h] \in DOMAIN TheMap THEN 1 ELSE 0)
      BY <1>4, <2>2, PlainAnswer
  <2>4. QED
      BY <1>3, <1>5, <1>10, <2>3, MapReadSteps DEF Wasm!text_index_contains
<1>11. QED
    BY <1>7, <1>8, <1>9, <1>10 DEF WasmNext

\* No two addresses hold equal text: the JIT compares addresses.
OneAddressPerText == \A g, h \in JitHandle : JitTextOf[g] = JitTextOf[h] => g = h

\* and every operation of the JIT.
LEMMA JitMaps ==
    ASSUME IndexInv, backend = "jit", JitNext, UNCHANGED backend, "misses" \notin Program,
           OneAddressPerText
    PROVE  Map!Next
<1>1. /\ Counted(entries, len, 8, JitKey, JitHash, JitValue)
      /\ Sound(entries, Cap(entries), JitKey, JitHash, JitValue)
    BY DEF IndexInv, Counted
<1>2. TheMap = MapOf(entries, JitTextOf) /\ TheMap' = MapOf(entries', JitTextOf)
    BY DEF TheMap, KeyText
<1>3. \A h \in JitHandle : JitTextOf[h] \in Texts \cup {NoKey}
    BY DEF Texts
<1>4. backend' # "native"
    OBVIOUS
<1>5. UNCHANGED entries => TheMap' = TheMap
    BY <1>2
<1>6. Agree(JitKey, JitTextOf)
    BY JitFacts DEF Agree, OneAddressPerText
<1>7. ASSUME NEW h \in JitHandle
      PROVE  /\ Jit!Found(entries, h) <=> JitTextOf[h] \in DOMAIN TheMap
             /\ Jit!Found(entries, h) => Jit!ValueAt(h) = TheMap[JitTextOf[h]]
    BY <1>1, <1>2, <1>6, JitLookup
<1>8. ASSUME NEW h \in JitHandle, NEW v \in JitValue, Jit!Put(Jit!Room(h), h, v)
      PROVE  TheMap' = With(TheMap, JitTextOf[h], v)
  <2>1. PICK c \in Nat : /\ c >= 8 /\ Ready(Jit!Room(h), c, JitKey, JitHash, JitValue)
                         /\ Holds(Jit!Room(h), JitKey, h) \/ len + 1 < c
      BY JitRoom
  <2>2. QED
      BY <1>1, <1>2, <1>6, <1>8, <2>1, JitPut DEF JitStores
<1>9. ASSUME NEW h \in JitHandle, NEW v \in JitValue, Jit!text_index_set(h, v) PROVE Map!Next
  <2>1. TheMap' = With(TheMap, JitTextOf[h], v)
      BY <1>8, <1>9 DEF Jit!text_index_set
  <2>2. answer' = Result("text_index_set", JitTextOf[h], 0)
      BY <1>9 DEF Jit!text_index_set, Jit!Result, Result
  <2>3. AbsAnswer' = Result("text_index_set", JitTextOf[h], 0)
      BY <1>4, <2>2, PlainAnswer
  <2>4. QED
      BY <1>3, <2>1, <2>3, MapStoreSteps
<1>10. ASSUME NEW h \in JitHandle, NEW v \in JitValue, Jit!text_index_get_or_insert(h, v)
       PROVE  Map!Next
  <2>1. CASE Jit!Found(entries, h)
    <3>1. /\ answer' = Result("text_index_get_or_insert", JitTextOf[h], TheMap[JitTextOf[h]])
          /\ UNCHANGED entries
        BY <1>7, <1>10, <2>1 DEF Jit!text_index_get_or_insert, Jit!Result, Result
    <3>2. AbsAnswer' = Result("text_index_get_or_insert", JitTextOf[h], TheMap[JitTextOf[h]])
        BY <1>4, <3>1, PlainAnswer
    <3>3. QED
        BY <1>3, <1>5, <1>7, <2>1, <3>1, <3>2, MapStoreSteps
  <2>2. CASE ~Jit!Found(entries, h)
    <3>1. /\ answer' = Result("text_index_get_or_insert", JitTextOf[h], v)
          /\ Jit!Put(Jit!Room(h), h, v)
        BY <1>10, <2>2 DEF Jit!text_index_get_or_insert, Jit!Result, Result
    <3>2. AbsAnswer' = Result("text_index_get_or_insert", JitTextOf[h], v)
        BY <1>4, <3>1, PlainAnswer
    <3>3. TheMap' = With(TheMap, JitTextOf[h], v)
        BY <1>8, <3>1
    <3>4. QED
        BY <1>3, <1>7, <2>2, <3>2, <3>3, MapStoreSteps
  <2>3. QED
      BY <2>1, <2>2
<1>11. ASSUME NEW h \in JitHandle, Jit!Found(entries, h), Jit!text_index_get(h) PROVE Map!Next
  <2>1. answer' = Result("text_index_get", JitTextOf[h],
                         IF JitTextOf[h] \in DOMAIN TheMap THEN TheMap[JitTextOf[h]] ELSE Miss)
      BY <1>7, <1>11 DEF Jit!text_index_get, Jit!Result, Result
  <2>2. AbsAnswer' = Result("text_index_get", JitTextOf[h],
                            IF JitTextOf[h] \in DOMAIN TheMap THEN TheMap[JitTextOf[h]] ELSE Miss)
      BY <1>4, <2>1, PlainAnswer
  <2>3. QED
      BY <1>3, <1>5, <1>11, <2>2, MapReadSteps DEF Jit!text_index_get
<1>12. ASSUME NEW h \in JitHandle, Jit!text_index_contains(h) PROVE Map!Next
  <2>1. answer' = Result("text_index_contains", JitTextOf[h],
                         IF JitTextOf[h] \in DOMAIN TheMap THEN 1 ELSE 0)
      BY <1>7, <1>12 DEF Jit!text_index_contains, Jit!Result, Result
  <2>2. AbsAnswer' = Result("text_index_contains", JitTextOf[h],
                            IF JitTextOf[h] \in DOMAIN TheMap THEN 1 ELSE 0)
      BY <1>4, <2>1, PlainAnswer
  <2>3. QED
      BY <1>3, <1>5, <1>12, <2>2, MapReadSteps DEF Jit!text_index_contains
<1>13. ASSUME Jit!text_index_keys PROVE Map!Next
  <2> DEFINE list == SlotOrder(entries)
  <2>1. answer' = Result("text_index_keys", NoKey, [list |-> Jit!SlotOrder(entries)])
        /\ UNCHANGED entries
      BY <1>13 DEF Jit!text_index_keys, Jit!Result, Result, Jit!NoKey, NoKey
  <2>2. Jit!SlotOrder(entries) = list
      BY Zenon DEF Jit!SlotOrder, SlotOrder, Jit!Ascending, Ascending, Jit!Used, Used,
                   Jit!Cardinality, Cardinality
  <2>3. {JitTextOf[list[i]] : i \in DOMAIN list} = DOMAIN TheMap
      BY <1>1, <1>2, SlotOrderKeys, Zenon
  <2> HIDE DEF list
  <2>4. AbsAnswer' = [answer' EXCEPT !.result = Listed(answer.result)']
      BY <1>4, <2>1 DEF AbsAnswer, Refused, Result
  <2>5. Listed(answer.result)' = [keys |-> Ascending(DOMAIN TheMap), terminated |-> FALSE]
      BY <2>1, <2>2, <2>3, Zenon DEF Listed, Result
  <2>6. AbsAnswer' = Result("text_index_keys", NoKey,
                            [keys |-> Ascending(DOMAIN TheMap), terminated |-> FALSE])
      BY <2>1, <2>4, <2>5, Zenon DEF Result
  <2>7. QED
      BY <1>5, <2>1, <2>6, MapKeysStep
<1>14. QED
    BY <1>9, <1>10, <1>11, <1>12, <1>13 DEF JitNext

\* On every backend the table, read as the map it stands for, takes only the steps of the
\* interpreter's map and gives its answers (MapSpec), for every set of texts, hashes,
\* values and starting capacity: in Wasm for programs that close no scope, under the JIT
\* for programs that get only keys they stored and have one address per text.
THEOREM TablesAreMaps ==
    ASSUME "scopes" \notin Program, "misses" \notin Program, OneAddressPerText
    PROVE  BackendSpec => MapSpec
<1>1. BackendInit => IndexInv
    BY IndexInitially
<1>2. IndexInv /\ [BackendNext]_<<vars, backend>> => IndexInv'
    BY IndexSteps
<1>3. BackendInit => Map!Init
  <2> SUFFICES ASSUME BackendInit PROVE Map!Init
      OBVIOUS
  <2>1. Used(entries) = {}
    <3>1. entries = Blank(InitialCap) \/ entries = Blank(JitCap)
        BY SameOperators DEF BackendInit, Init, Jit!Init
    <3>2. InitialCap \in Nat \ {0} /\ JitCap \in Nat \ {0}
        BY IndexAssumption, BackendAssumption
    <3>3. QED
        BY <3>1, <3>2, BlankSound
  <2>2. MapOf(entries, KeyText) = [t \in {} |-> Miss]
      BY <2>1 DEF MapOf
  <2>3. AbsAnswer = Result("text_index_new", NoKey, 0)
    <3>1. answer = Result("text_index_new", NoKey, 0) /\ ~null
        BY DEF BackendInit, Init, Jit!Init, Jit!Result, Result, Jit!NoKey, NoKey
    <3>2. QED
        BY <3>1 DEF AbsAnswer, Refused, Result
  <2>4. QED
      BY <2>2, <2>3 DEF Map!Init, Map!Miss, Miss, Map!Result, Result, Map!NoKey, NoKey
<1>4. IndexInv /\ [BackendNext]_<<vars, backend>> => [Map!Next]_<<MapOf(entries, KeyText), AbsAnswer>>
  <2> SUFFICES ASSUME IndexInv, [BackendNext]_<<vars, backend>>
               PROVE  [Map!Next]_<<MapOf(entries, KeyText), AbsAnswer>>
      OBVIOUS
  <2>1. CASE UNCHANGED <<vars, backend>>
    <3>1. entries' = entries /\ null' = null /\ answer' = answer /\ backend' = backend
        BY <2>1 DEF vars
    <3>2. KeyText' = KeyText
        BY <3>1 DEF KeyText
    <3>3. AbsAnswer' = AbsAnswer
        BY <3>1 DEF AbsAnswer, Refused, Listed
    <3>4. QED
        BY <3>1, <3>2, <3>3
  <2>2. CASE BackendNext
      BY <2>2, NativeMaps, WasmMaps, JitMaps DEF BackendNext
  <2>3. QED
      BY <2>1, <2>2
<1>5. QED
    BY <1>1, <1>2, <1>3, <1>4, PTL DEF BackendSpec, MapSpec, Map!Spec
=============================================================================
