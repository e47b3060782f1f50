---------------------------- MODULE ScopedArenas ----------------------------
(***************************************************************************)
(* A program with allocation scopes, run as a native executable that nests *)
(* its scopes past the fixed scope array (NativeArena, whose own runs stay *)
(* within it), in process (JitArena), or as a Wasm module (WasmArena).     *)
(* Each arena comes with its proofs, from which those of the composition   *)
(* at the end follow.                                                      *)
(***************************************************************************)
EXTENDS NativeArena, TLAPS

(* The native arena, for every set of addresses, objects and sizes: a      *)
(* program that nests at most SARIF_SCOPE_STACK_CAP scopes finds in it the *)
(* nested scopes of AllocScopes.  The inductive invariant adds to the      *)
(* checked ones that the saved positions are valid and come in the order   *)
(* the scopes were opened.                                                 *)

\* The overflow list is never used.
InArray == overflow = <<>> /\ Len(stack) <= MaxNesting

\* Objects have names of their own and are not empty.
Named ==
    /\ \A p, q \in objs : p.id = q.id => p = q
    /\ \A p \in objs : p.size > 0

\* A saved position lies in a listed chunk, inside the part in use.
Valid(m) == m.chunk = NULL \/ (InList(m.chunk) /\ m.used <= used[m.chunk])

\* Position m comes before position n.
Leq(m, n) ==
    \/ m.chunk = NULL
    \/ \E i, j \in DOMAIN chunks :
          /\ m.chunk = chunks[i] /\ n.chunk = chunks[j]
          /\ i < j \/ (i = j /\ m.used <= n.used)

Marks ==
    /\ \A k \in DOMAIN stack : Valid(stack[k])
    /\ \A k, l \in DOMAIN stack : k <= l => Leq(stack[k], stack[l])

IInv ==
    /\ TypeOK
    /\ ListShape
    /\ Disjoint
    /\ MemorySafe
    /\ InArray
    /\ Named
    /\ Marks

\* The first n elements of a sequence.
LEMMA FirstElements ==
    ASSUME NEW S, NEW s \in Seq(S), NEW n \in 0 .. Len(s)
    PROVE  /\ SubSeq(s, 1, n) \in Seq(S) /\ Len(SubSeq(s, 1, n)) = n
           /\ \A i \in 1 .. n : SubSeq(s, 1, n)[i] = s[i]
OBVIOUS

\* All of its elements are the sequence.
LEMMA AllElements ==
    ASSUME NEW S, NEW s \in Seq(S)
    PROVE  SubSeq(s, 1, Len(s)) = s
OBVIOUS

\* Nothing appended leaves it as it is.
LEMMA NothingAppended ==
    ASSUME NEW S, NEW s \in Seq(S)
    PROVE  s \o <<>> = s
OBVIOUS

\* Rounding up to SARIF_RECORD_ALIGN leaves no allocation empty.
LEMMA AlignGrows ==
    ASSUME NEW size \in Nat, size # 0
    PROVE  Align(size) \in Nat /\ Align(size) > 0
BY DEF Align, SARIF_RECORD_ALIGN

\* sarif_record_next_chunk_cap gives a chunk that holds the request.
LEMMA CapInNat ==
    ASSUME TypeOK, NEW n \in Nat
    PROVE  NextChunkCap(n) \in Nat /\ n <= NextChunkCap(n)
BY SizeAssumption DEF TypeOK, NextChunkCap

\* The zeroed globals satisfy the invariant.
LEMMA InitIInv == Init => IInv
<1> SUFFICES ASSUME Init PROVE IInv
    OBVIOUS
<1>1. DOMAIN chunks = {} /\ DOMAIN stack = {}
    BY DEF Init
<1>2. TypeOK
  <2>1. chunks \in Seq(Addr) /\ stack \in Seq(Scope) /\ overflow \in Seq(Scope)
      BY DEF Init
  <2>2. used \in [Addr -> Nat] /\ cap \in [Addr -> Nat]
      BY DEF Init
  <2>3. objs \subseteq Placed /\ fault \in BOOLEAN /\ current \in Addr \cup {NULL}
      BY Zenon DEF Init
  <2>4. QED
      BY <2>1, <2>2, <2>3 DEF TypeOK
<1>3. InArray
    BY NestingAssumption DEF Init, InArray
<1>4. ListShape /\ Disjoint /\ Named /\ Marks
    BY <1>1 DEF Init, ListShape, Disjoint, Named, Marks
<1>5. QED
    BY <1>2, <1>3, <1>4 DEF IInv, Init, MemorySafe

\* Bumping the current chunk.
LEMMA BumpIInv ==
    ASSUME IInv, NEW o \in Object, NEW n \in Nat, n > 0,
           \A p \in objs : p.id # o, AllocBump(o, n)
    PROVE  IInv'
<1> USE DEF IInv
<1>1. current \in Addr /\ current = chunks[Len(chunks)] /\ Len(chunks) \in DOMAIN chunks
    BY NullAssumption DEF AllocBump, Fits, ListShape, TypeOK
<1>2. used[current] + n <= cap[current]
    BY <1>1 DEF AllocBump, Fits, Overfull, TypeOK
<1>3. TypeOK'
    BY <1>1 DEF TypeOK, AllocBump, Give, Placed
<1>4. ListShape'
    BY DEF ListShape, AllocBump
<1>5. Disjoint'
  <2>1. \A i \in DOMAIN chunks : (used[chunks[i]] <= cap[chunks[i]])'
      BY <1>1, <1>2 DEF Disjoint, AllocBump, TypeOK
  <2>2. \A p \in objs' : (InList(p.chunk) /\ p.off + p.size <= used[p.chunk])'
      BY <1>1, <1>2, SMTT(30) DEF Disjoint, AllocBump, TypeOK, Give, InList, Placed
  <2>3. \A p, q \in objs' :
          p = q \/ p.chunk # q.chunk \/ p.off + p.size <= q.off \/ q.off + q.size <= p.off
      BY <1>1, <1>2 DEF Disjoint, AllocBump, TypeOK, Give, InList, Placed
  <2>4. QED
      BY <2>1, <2>2, <2>3 DEF Disjoint, AllocBump
<1>6. MemorySafe' /\ InArray'
    BY DEF MemorySafe, InArray, AllocBump
<1>7. Named'
    BY DEF Named, AllocBump, Give
<1>8. Marks'
  <2>1. \A k \in DOMAIN stack : Valid(stack[k])'
    <3> SUFFICES ASSUME NEW k \in DOMAIN stack PROVE Valid(stack[k])'
        OBVIOUS
    <3>1. stack[k] \in Scope /\ Valid(stack[k])
        BY DEF Marks, TypeOK
    <3>2. QED
        BY <1>1, <3>1 DEF Valid, InList, AllocBump, TypeOK, Scope
  <2>2. QED
      BY <2>1 DEF Marks, Leq, AllocBump
<1>9. QED
    BY <1>3, <1>4, <1>5, <1>6, <1>7, <1>8

\* A new chunk always goes to the end of the list.
LEMMA ChunkAppended ==
    ASSUME IInv, NEW o \in Object, NEW n \in Nat, AllocChunk(o, n)
    PROVE  \E a \in Addr :
              /\ ~InList(a)
              /\ chunks' = Append(chunks, a)
              /\ current' = a
              /\ used' = [used EXCEPT ![a] = n]
              /\ cap' = [cap EXCEPT ![a] = NextChunkCap(n)]
              /\ Give(o, a, 0, n)
<1>1. PICK a \in Addr :
         /\ ~InList(a)
         /\ \/ current = NULL /\ chunks' = <<a>>
            \/ \E i \in DOMAIN chunks :
                  chunks[i] = current /\ chunks' = Append(SubSeq(chunks, 1, i), a)
         /\ current' = a
         /\ used' = [used EXCEPT ![a] = n]
         /\ cap' = [cap EXCEPT ![a] = NextChunkCap(n)]
         /\ Give(o, a, 0, n)
    BY Zenon DEF AllocChunk
<1>2. CASE current = NULL /\ chunks' = <<a>>
  <2>1. chunks = <<>>
      BY <1>2, NullAssumption DEF IInv, ListShape, TypeOK
  <2>2. chunks' = Append(chunks, a)
      BY <1>2, <2>1
  <2>3. QED
      BY <1>1, <2>2, Zenon
<1>3. CASE \E i \in DOMAIN chunks :
              chunks[i] = current /\ chunks' = Append(SubSeq(chunks, 1, i), a)
  <2>1. PICK i \in DOMAIN chunks :
            chunks[i] = current /\ chunks' = Append(SubSeq(chunks, 1, i), a)
      BY <1>3, Zenon
  <2>2. chunks \in Seq(Addr) /\ chunks # <<>> /\ Len(chunks) \in DOMAIN chunks
      BY <2>1, SMTT(30) DEF IInv, TypeOK
  <2>3. i = Len(chunks)
      BY <2>1, <2>2 DEF IInv, ListShape
  <2>4. SubSeq(chunks, 1, Len(chunks)) = chunks
      BY <2>2, AllElements
  <2>5. QED
      BY <1>1, <2>1, <2>3, <2>4, Zenon
<1>4. QED
    BY <1>1, <1>2, <1>3, Zenon

\* A new chunk behind the current one.
LEMMA ChunkIInv ==
    ASSUME IInv, NEW o \in Object, NEW n \in Nat, n > 0,
           \A p \in objs : p.id # o, AllocChunk(o, n)
    PROVE  IInv'
<1>0. PICK a \in Addr :
              /\ ~InList(a)
              /\ chunks' = Append(chunks, a)
              /\ current' = a
              /\ used' = [used EXCEPT ![a] = n]
              /\ cap' = [cap EXCEPT ![a] = NextChunkCap(n)]
              /\ Give(o, a, 0, n)
    BY ChunkAppended
<1>1. NextChunkCap(n) \in Nat /\ n <= NextChunkCap(n)
    BY CapInNat DEF IInv
<1>2. chunks \in Seq(Addr) /\ Len(chunks) \in Nat /\ DOMAIN chunks = 1 .. Len(chunks)
    BY DEF IInv, TypeOK
<1>3. /\ Len(chunks') = Len(chunks) + 1
      /\ DOMAIN chunks' = 1 .. Len(chunks) + 1
      /\ chunks'[Len(chunks) + 1] = a
      /\ \A i \in DOMAIN chunks : i \in DOMAIN chunks' /\ chunks'[i] = chunks[i]
    BY <1>0, <1>2
<1>4. \A i \in DOMAIN chunks : chunks[i] \in Addr /\ chunks[i] # a
    BY <1>0, <1>2 DEF InList
<1>5. UNCHANGED <<stack, overflow, fault>>
    BY DEF AllocChunk
<1>6. TypeOK'
    BY <1>0, <1>1, <1>5 DEF IInv, TypeOK, Give, Placed
<1>7. ListShape'
    BY <1>0, <1>2, <1>3, <1>4 DEF IInv, ListShape
<1>8. \A p \in objs : p.chunk # a /\ InList(p.chunk)
    BY <1>0 DEF IInv, Disjoint
<1>9. \A b : InList(b) => InList(b)'
    BY <1>3 DEF InList
<1>10. InList(a)'
    BY <1>2, <1>3 DEF InList
<1>11. Disjoint'
  <2>1. \A i \in DOMAIN chunks' : used'[chunks'[i]] <= cap'[chunks'[i]]
    <3>1. TAKE i \in DOMAIN chunks'
    <3>2. CASE i = Len(chunks) + 1
        BY <3>2, <1>0, <1>1, <1>3 DEF IInv, TypeOK
    <3>3. CASE i \in DOMAIN chunks
        BY <3>3, <1>0, <1>3, <1>4 DEF IInv, TypeOK, Disjoint
    <3>4. QED
        BY <3>1, <3>2, <3>3, <1>2, <1>3
  <2>2. \A p \in objs' : (InList(p.chunk) /\ p.off + p.size <= used[p.chunk])'
      BY <1>0, <1>8, <1>9, <1>10 DEF IInv, Disjoint, TypeOK, Give, Placed
  <2>3. \A p, q \in objs' :
          p = q \/ p.chunk # q.chunk \/ p.off + p.size <= q.off \/ q.off + q.size <= p.off
      BY <1>0, <1>8 DEF IInv, Disjoint, TypeOK, Give, Placed
  <2>4. QED
      BY <2>1, <2>2, <2>3 DEF Disjoint
<1>12. Named'
    BY <1>0 DEF IInv, Named, Give
<1>13. Marks'
  <2>1. \A k \in DOMAIN stack : Valid(stack[k])'
    <3> SUFFICES ASSUME NEW k \in DOMAIN stack PROVE Valid(stack[k])'
        OBVIOUS
    <3>1. stack[k] \in Scope /\ Valid(stack[k])
        BY DEF IInv, Marks, TypeOK
    <3>2. QED
        BY <1>0, <1>5, <1>9, <3>1 DEF Valid, IInv, TypeOK, Scope
  <2>2. \A k, l \in DOMAIN stack : k <= l => Leq(stack[k], stack[l])'
      BY <1>3, <1>5 DEF IInv, Marks, Leq
  <2>3. QED
      BY <2>1, <2>2, <1>5 DEF Marks
<1>14. QED
    BY <1>5, <1>6, <1>7, <1>11, <1>12, <1>13 DEF IInv, MemorySafe, InArray

\* The bump position comes behind every saved position.
LEMMA HereIsLast ==
    ASSUME IInv
    PROVE  /\ Here \in Scope
           /\ Valid(Here)
           /\ \A k \in DOMAIN stack : Leq(stack[k], Here)
<1>1. Here \in Scope
    BY NullAssumption DEF IInv, TypeOK, Here, Scope
<1>2. CASE chunks = <<>>
  <2>1. current = NULL /\ DOMAIN chunks = {}
      BY <1>2 DEF IInv, ListShape
  <2>2. \A k \in DOMAIN stack : stack[k].chunk = NULL
      BY <2>1 DEF IInv, Marks, Valid, InList
  <2>3. QED
      BY <1>1, <2>1, <2>2 DEF Here, Valid, Leq
<1>3. CASE chunks # <<>>
  <2>1. /\ chunks \in Seq(Addr) /\ Len(chunks) \in DOMAIN chunks
        /\ current = chunks[Len(chunks)] /\ current # NULL
      BY <1>3, NullAssumption DEF IInv, TypeOK, ListShape
  <2>2. Here.chunk = current /\ Here.used = used[current]
      BY <2>1 DEF Here
  <2>3. Valid(Here)
      BY <2>1, <2>2 DEF Valid, InList, IInv, TypeOK
  <2>4. \A k \in DOMAIN stack : Leq(stack[k], Here)
    <3> SUFFICES ASSUME NEW k \in DOMAIN stack, stack[k].chunk # NULL
                 PROVE  Leq(stack[k], Here)
        BY DEF Leq
    <3>1. PICK i \in DOMAIN chunks : chunks[i] = stack[k].chunk
        BY DEF IInv, Marks, Valid, InList
    <3>2. stack[k].used <= used[stack[k].chunk]
        BY DEF IInv, Marks, Valid
    <3>3. i < Len(chunks) \/ i = Len(chunks)
        BY <2>1
    <3>4. QED
        BY <2>1, <2>2, <3>1, <3>2, <3>3 DEF Leq
  <2>5. QED
      BY <1>1, <2>3, <2>4
<1>4. QED
    BY <1>2, <1>3

\* A push within the array.
LEMMA PushStep ==
    ASSUME IInv, MaxNesting <= SARIF_SCOPE_STACK_CAP, sarif_alloc_push
    PROVE  /\ stack' = Append(stack, Here)
           /\ UNCHANGED <<chunks, current, used, cap, overflow, objs, fault>>
BY NestingAssumption DEF IInv, TypeOK, InArray, sarif_alloc_push

\* A saved position is valid and comes last.
LEMMA PushIInv ==
    ASSUME IInv, MaxNesting <= SARIF_SCOPE_STACK_CAP, sarif_alloc_push
    PROVE  IInv'
<1>1. /\ stack' = Append(stack, Here)
      /\ UNCHANGED <<chunks, current, used, cap, overflow, objs, fault>>
    BY PushStep
<1>2. Here \in Scope /\ Valid(Here) /\ \A k \in DOMAIN stack : Leq(stack[k], Here)
    BY HereIsLast
<1>3. /\ stack \in Seq(Scope) /\ Len(stack) \in Nat /\ DOMAIN stack = 1 .. Len(stack)
      /\ DOMAIN stack' = 1 .. Len(stack) + 1
      /\ Len(stack') = Len(stack) + 1
      /\ stack'[Len(stack) + 1] = Here
      /\ \A k \in DOMAIN stack : stack'[k] = stack[k]
    BY <1>1, <1>2 DEF IInv, TypeOK
<1>4. TypeOK'
    BY <1>1, <1>2 DEF IInv, TypeOK
<1>5. ListShape' /\ Named' /\ MemorySafe'
    BY <1>1 DEF IInv, ListShape, Named, MemorySafe
<1>6. Disjoint'
    BY <1>1 DEF IInv, Disjoint, InList
<1>7. InArray'
    BY <1>1, <1>3, NestingAssumption DEF IInv, InArray, sarif_alloc_push
<1>8. \A m, n : (Leq(m, n) => Leq(m, n)') /\ (Valid(m) => Valid(m)')
    BY <1>1 DEF Leq, Valid, InList
<1>9. Leq(Here, Here)
    BY <1>2 DEF Leq, Valid, InList, Scope, Here, IInv, TypeOK
<1>10. Marks'
  <2>1. \A k \in DOMAIN stack' : Valid(stack'[k])
      BY <1>2, <1>3 DEF IInv, Marks
  <2>2. \A k, l \in DOMAIN stack' : k <= l => Leq(stack'[k], stack'[l])
    <3> SUFFICES ASSUME NEW k \in DOMAIN stack', NEW l \in DOMAIN stack', k <= l
                 PROVE  Leq(stack'[k], stack'[l])
        OBVIOUS
    <3>1. CASE l = Len(stack) + 1
        BY <1>2, <1>3, <1>9, <3>1
    <3>2. CASE l \in DOMAIN stack
        BY <1>3, <3>2 DEF IInv, Marks
    <3>3. QED
        BY <1>3, <3>1, <3>2
  <2>3. QED
      BY <1>8, <2>1, <2>2 DEF Marks
<1>11. QED
    BY <1>4, <1>5, <1>6, <1>7, <1>10 DEF IInv

\* A pop that finds a scope takes the last one, and its chunk is not freed yet.
LEMMA PopStep ==
    ASSUME IInv, sarif_alloc_pop, stack # <<>>
    PROVE  /\ stack' = SubSeq(stack, 1, Len(stack) - 1)
           /\ UNCHANGED overflow
           /\ \/ stack[Len(stack)].chunk = NULL /\ PopAll
              \/ \E i \in DOMAIN chunks :
                    stack[Len(stack)].chunk = chunks[i] /\ PopTo(i, stack[Len(stack)].used)
<1>1. Len(stack) \in DOMAIN stack
    BY DEF IInv, TypeOK
<1>2. Valid(stack[Len(stack)])
    BY <1>1 DEF IInv, Marks
<1>3. QED
    BY <1>2 DEF sarif_alloc_pop, Release, Valid

\* What is left of the stack after a pop.
LEMMA PoppedStack ==
    ASSUME IInv, stack # <<>>, stack' = SubSeq(stack, 1, Len(stack) - 1)
    PROVE  /\ stack \in Seq(Scope) /\ Len(stack) \in Nat \ {0}
           /\ DOMAIN stack = 1 .. Len(stack)
           /\ stack' \in Seq(Scope)
           /\ Len(stack') = Len(stack) - 1
           /\ DOMAIN stack' = 1 .. Len(stack) - 1
           /\ \A k \in DOMAIN stack' : k \in DOMAIN stack /\ stack'[k] = stack[k]
           /\ \A k \in DOMAIN stack : stack[k] \in Scope
<1>1. /\ stack \in Seq(Scope) /\ Len(stack) \in Nat \ {0} /\ DOMAIN stack = 1 .. Len(stack)
      /\ \A k \in DOMAIN stack : stack[k] \in Scope
    BY DEF IInv, TypeOK
<1>2. /\ stack' \in Seq(Scope) /\ Len(stack') = Len(stack) - 1
      /\ \A k \in 1 .. Len(stack) - 1 : stack'[k] = stack[k]
    BY <1>1, FirstElements
<1>3. DOMAIN stack' = 1 .. Len(stack) - 1
    BY <1>2
<1>4. QED
    BY <1>1, <1>2, <1>3

\* Closing a scope that was opened on the empty arena frees the whole list.
LEMMA PopAllIInv ==
    ASSUME IInv, stack # <<>>, stack' = SubSeq(stack, 1, Len(stack) - 1),
           UNCHANGED overflow, stack[Len(stack)].chunk = NULL, PopAll
    PROVE  IInv'
<1>1. /\ Len(stack) \in Nat \ {0} /\ stack' \in Seq(Scope) /\ Len(stack') = Len(stack) - 1
      /\ DOMAIN stack = 1 .. Len(stack)
      /\ \A k \in DOMAIN stack' : k \in DOMAIN stack /\ stack'[k] = stack[k]
    BY PoppedStack
<1>2. \A k \in DOMAIN stack : stack[k].chunk = NULL
  <2> SUFFICES ASSUME NEW k \in DOMAIN stack PROVE stack[k].chunk = NULL
      OBVIOUS
  <2>1. Leq(stack[k], stack[Len(stack)])
      BY <1>1 DEF IInv, Marks
  <2>2. \A j \in DOMAIN chunks : chunks[j] # NULL
      BY NullAssumption DEF IInv, TypeOK
  <2>3. QED
      BY <2>1, <2>2 DEF Leq
<1>3. DOMAIN chunks' = {} /\ chunks' \in Seq(Addr)
    BY DEF PopAll
<1>4. TypeOK'
    BY <1>1, <1>3 DEF IInv, TypeOK, PopAll
<1>5. ListShape' /\ Disjoint' /\ Named' /\ MemorySafe'
    BY <1>3 DEF IInv, ListShape, Disjoint, Named, MemorySafe, PopAll
<1>6. InArray'
    BY <1>1, NestingAssumption DEF IInv, InArray
<1>7. Marks'
    BY <1>1, <1>2 DEF Marks, Valid, Leq
<1>8. QED
    BY <1>4, <1>5, <1>6, <1>7 DEF IInv

\* Closing any other scope cuts the list behind the chunk of its position.
LEMMA PopToIInv ==
    ASSUME IInv, stack # <<>>, stack' = SubSeq(stack, 1, Len(stack) - 1),
           UNCHANGED overflow, NEW i \in DOMAIN chunks,
           stack[Len(stack)].chunk = chunks[i], PopTo(i, stack[Len(stack)].used)
    PROVE  IInv'
<1> DEFINE top == stack[Len(stack)]
<1>1. /\ Len(stack) \in Nat \ {0} /\ stack' \in Seq(Scope) /\ Len(stack') = Len(stack) - 1
      /\ DOMAIN stack = 1 .. Len(stack)
      /\ \A k \in DOMAIN stack' : k \in DOMAIN stack /\ stack'[k] = stack[k]
      /\ \A k \in DOMAIN stack : stack[k] \in Scope
    BY PoppedStack
<1>2. /\ chunks \in Seq(Addr) /\ DOMAIN chunks = 1 .. Len(chunks) /\ chunks[i] \in Addr
      /\ i \in Nat /\ i > 0 /\ i <= Len(chunks)
      /\ chunks' \in Seq(Addr) /\ Len(chunks') = i /\ DOMAIN chunks' = 1 .. i
      /\ \A j \in 1 .. i : j \in DOMAIN chunks /\ chunks'[j] = chunks[j]
      /\ \A j \in DOMAIN chunks : chunks[j] \in Addr
  <2>1. /\ chunks \in Seq(Addr) /\ DOMAIN chunks = 1 .. Len(chunks) /\ Len(chunks) \in Nat
        /\ \A j \in DOMAIN chunks : chunks[j] \in Addr
      BY SMTT(30) DEF IInv, TypeOK
  <2>2. chunks' = SubSeq(chunks, 1, i) /\ i \in 1 .. Len(chunks)
      BY <2>1 DEF PopTo
  <2>3. /\ chunks' \in Seq(Addr) /\ Len(chunks') = i
        /\ \A j \in 1 .. i : chunks'[j] = chunks[j]
      BY <2>1, <2>2, FirstElements
  <2>4. QED
      BY <2>1, <2>2, <2>3
<1>3. top.used \in Nat /\ top.used <= used[chunks[i]]
    BY <1>1, <1>2, NullAssumption, SMTT(30) DEF IInv, Marks, Valid, Scope
<1>4. /\ current' = chunks[i] /\ used' = [used EXCEPT ![chunks[i]] = top.used]
      /\ objs' \subseteq objs /\ UNCHANGED <<cap, fault>>
      /\ \A p \in objs' : \/ \E j \in 1 .. i - 1 : p.chunk = chunks[j]
                          \/ p.chunk = chunks[i] /\ p.off + p.size <= top.used
    BY DEF PopTo, Surviving
<1>5. TypeOK'
    BY <1>1, <1>2, <1>3, <1>4, SMTT(30) DEF IInv, TypeOK
<1>6. ListShape'
    BY <1>2, <1>4 DEF IInv, ListShape
<1>7. Disjoint'
  <2>1. \A j \in DOMAIN chunks' : used'[chunks'[j]] <= cap'[chunks'[j]]
      BY <1>2, <1>3, <1>4, SMTT(30) DEF IInv, Disjoint, TypeOK
  <2>2. \A p \in objs' : InList(p.chunk)' /\ p.off + p.size <= used'[p.chunk]
    <3> SUFFICES ASSUME NEW p \in objs'
                 PROVE  InList(p.chunk)' /\ p.off + p.size <= used'[p.chunk]
        OBVIOUS
    <3>1. CASE \E j \in 1 .. i - 1 : p.chunk = chunks[j]
      <4>1. PICK j \in 1 .. i - 1 : p.chunk = chunks[j]
          BY <3>1
      <4>2. j \in DOMAIN chunks /\ j \in DOMAIN chunks' /\ chunks'[j] = chunks[j] /\ j # i
          BY <1>2, <4>1
      <4>3. chunks[j] # chunks[i] /\ chunks[j] \in Addr
          BY <1>2, <4>2 DEF IInv, ListShape
      <4>4. p.off + p.size <= used[p.chunk]
          BY <1>4 DEF IInv, Disjoint
      <4>5. used'[p.chunk] = used[p.chunk]
          BY <1>4, <4>1, <4>3 DEF IInv, TypeOK
      <4>6. QED
          BY <4>1, <4>2, <4>4, <4>5 DEF InList
    <3>2. CASE p.chunk = chunks[i] /\ p.off + p.size <= top.used
      <4>1. i \in DOMAIN chunks' /\ chunks'[i] = chunks[i]
          BY <1>2
      <4>2. used'[p.chunk] = top.used
          BY <1>2, <1>4, <3>2 DEF IInv, TypeOK
      <4>3. QED
          BY <3>2, <4>1, <4>2 DEF InList
    <3>3. QED
        BY <1>4, <3>1, <3>2
  <2>3. \A p, q \in objs' :
          p = q \/ p.chunk # q.chunk \/ p.off + p.size <= q.off \/ q.off + q.size <= p.off
      BY <1>4 DEF IInv, Disjoint
  <2>4. QED
      BY <2>1, <2>2, <2>3 DEF Disjoint
<1>8. Named' /\ MemorySafe'
    BY <1>4 DEF IInv, Named, MemorySafe
<1>9. InArray'
    BY <1>1, NestingAssumption DEF IInv, InArray
<1>10. ASSUME NEW k \in DOMAIN stack', stack'[k].chunk # NULL
       PROVE  \E j \in 1 .. i : /\ stack'[k].chunk = chunks[j]
                                /\ j = i => stack'[k].used <= top.used
  <2>1. /\ stack'[k] = stack[k] /\ Leq(stack[k], top)
      BY <1>1 DEF IInv, Marks
  <2>2. PICK j, b \in DOMAIN chunks :
            /\ stack[k].chunk = chunks[j] /\ top.chunk = chunks[b]
            /\ j < b \/ (j = b /\ stack[k].used <= top.used)
      BY <1>10, <2>1 DEF Leq
  <2>3. b = i
      BY <2>2, Zenon DEF IInv, ListShape
  <2>4. j \in 1 .. i /\ (j = i => stack[k].used <= top.used)
      BY <1>2, <2>2, <2>3
  <2>5. QED
      BY <2>1, <2>2, <2>4
<1>11. \A k \in DOMAIN stack' : Valid(stack[k])'
  <2> SUFFICES ASSUME NEW k \in DOMAIN stack', stack'[k].chunk # NULL
               PROVE  Valid(stack[k])'
      BY DEF Valid
  <2>1. PICK j \in 1 .. i : /\ stack'[k].chunk = chunks[j]
                            /\ j = i => stack'[k].used <= top.used
      BY <1>10
  <2>2. stack'[k].used <= used[chunks[j]]
      BY <1>1, <2>1 DEF IInv, Marks, Valid
  <2>3. j # i => chunks[j] # chunks[i]
      BY <1>2, <2>1, Zenon DEF IInv, ListShape
  <2>4. QED
      BY <1>2, <1>4, <2>1, <2>2, <2>3, Zenon DEF Valid, InList, IInv, TypeOK
<1>12. \A k, l \in DOMAIN stack' : k <= l => Leq(stack[k], stack[l])'
  <2> SUFFICES ASSUME NEW k \in DOMAIN stack', NEW l \in DOMAIN stack', k <= l,
                      stack'[k].chunk # NULL
               PROVE  Leq(stack[k], stack[l])'
      BY Zenon DEF Leq
  <2>1. PICK a, b \in DOMAIN chunks :
            /\ stack[k].chunk = chunks[a] /\ stack[l].chunk = chunks[b]
            /\ a < b \/ (a = b /\ stack[k].used <= stack[l].used)
      BY <1>1 DEF IInv, Marks, Leq
  <2>2. stack'[l].chunk # NULL
      BY <1>1, <1>2, <2>1, NullAssumption, Zenon DEF IInv, TypeOK
  <2>3. PICK j \in 1 .. i : stack'[l].chunk = chunks[j]
      BY <1>10, <2>2
  <2>4. b = j
      BY <1>1, <1>2, <2>1, <2>3 DEF IInv, ListShape
  <2>5. a \in DOMAIN chunks' /\ b \in DOMAIN chunks' /\ chunks'[a] = chunks[a] /\ chunks'[b] = chunks[b]
      BY <1>2, <2>1, <2>3, <2>4, SMTT(30)
  <2>6. QED
      BY <1>1, <2>1, <2>5 DEF Leq
<1>13. QED
    BY <1>5, <1>6, <1>7, <1>8, <1>9, <1>11, <1>12 DEF IInv, Marks

\* No operation of the arena leaves the invariant.
LEMMA NextIInv ==
    ASSUME IInv, MaxNesting <= SARIF_SCOPE_STACK_CAP, [Next]_vars
    PROVE  IInv'
<1>1. CASE UNCHANGED vars
    BY <1>1, SMTT(60) DEF vars, IInv, TypeOK, ListShape, Disjoint, MemorySafe, InArray, Named,
                Marks, Valid, Leq, InList
<1>2. ASSUME NEW o \in Object, NEW size \in Size, sarif_record_alloc(o, size)
      PROVE  IInv'
  <2>1. CASE UNCHANGED vars
      BY <1>1, <2>1
  <2>2. CASE size # 0 /\ AllocBump(o, Align(size))
      BY <1>2, <2>2, AlignGrows, BumpIInv, SizeAssumption DEF sarif_record_alloc
  <2>3. CASE size # 0 /\ AllocChunk(o, Align(size))
      BY <1>2, <2>3, AlignGrows, ChunkIInv, SizeAssumption DEF sarif_record_alloc
  <2>4. ~AllocOverrun
    <3>1. CASE chunks = <<>>
        BY <3>1 DEF AllocOverrun, Overfull, IInv, ListShape
    <3>2. CASE chunks # <<>>
      <4>1. Len(chunks) \in DOMAIN chunks /\ current = chunks[Len(chunks)] /\ current \in Addr
          BY <3>2 DEF IInv, TypeOK, ListShape
      <4>2. used[current] <= cap[current]
          BY <4>1 DEF IInv, Disjoint
      <4>3. QED
          BY <4>1, <4>2 DEF AllocOverrun, Overfull, IInv, TypeOK
    <3>3. QED
        BY <3>1, <3>2
  <2>5. QED
      BY <1>2, <2>1, <2>2, <2>3, <2>4 DEF sarif_record_alloc, AllocRefused, AllocFail
<1>3. CASE sarif_alloc_push
    BY <1>3, PushIInv
<1>4. CASE sarif_alloc_pop
  <2>1. CASE stack # <<>>
      BY <1>4, <2>1, PopStep, PopAllIInv, PopToIInv
  <2>2. CASE stack = <<>>
      BY <1>1, <1>4, <2>2 DEF sarif_alloc_pop, IInv, InArray
  <2>3. QED
      BY <2>1, <2>2
<1>5. QED
    BY <1>1, <1>2, <1>3, <1>4 DEF Next

\* A program that stays within the scope array: the bookkeeping of chunks, objects
\* and saved positions holds in every state.
THEOREM IInvHolds ==
    ASSUME MaxNesting <= SARIF_SCOPE_STACK_CAP
    PROVE  Spec => []IInv
<1>1. Init => IInv
    BY InitIInv
<1>2. IInv /\ [Next]_vars => IInv'
    BY NextIInv
<1>3. QED
    BY <1>1, <1>2, PTL DEF Spec

\* sarif_alloc_pop never writes to a chunk it freed before, and no allocation lies
\* behind the end of its chunk.
THEOREM MemorySafety ==
    ASSUME MaxNesting <= SARIF_SCOPE_STACK_CAP
    PROVE  Spec => []MemorySafe
<1>1. IInv => MemorySafe
    BY DEF IInv
<1>2. QED
    BY <1>1, IInvHolds, PTL

\* sarif_record_alloc never hands out memory the program already holds.
THEOREM NativeObjectsDisjoint ==
    ASSUME MaxNesting <= SARIF_SCOPE_STACK_CAP
    PROVE  Spec => []Disjoint
<1>1. IInv => Disjoint
    BY DEF IInv
<1>2. QED
    BY <1>1, IInvHolds, PTL

-----------------------------------------------------------------------------
(***************************************************************************)
(* The refinement.  Below, a scope protects what lies before its position. *)
(***************************************************************************)
\* Within the array, the open scopes are the saved positions.
LEMMA OpenIsStack == IInv => OpenScopes = stack
<1> SUFFICES ASSUME IInv PROVE OpenScopes = stack
    OBVIOUS
<1>1. stack \in Seq(Scope) /\ Len(overflow) = 0
    BY DEF IInv, TypeOK, InArray
<1>2. [i \in 1 .. Len(overflow) |-> overflow[Len(overflow) + 1 - i]] = <<>>
    BY <1>1
<1>3. QED
    BY <1>1, <1>2, NothingAppended DEF OpenScopes

\* A new object in the current chunk lies before no open scope.
LEMMA BumpBefore ==
    ASSUME IInv, NEW o \in Object, NEW n \in Nat, n > 0, AllocBump(o, n),
           NEW k \in DOMAIN stack
    PROVE  Before(stack[k])' = Before(stack[k])
<1> DEFINE new == [id |-> o, chunk |-> current, off |-> used[current], size |-> n]
<1>1. objs' = objs \cup {new} /\ UNCHANGED <<chunks, stack>>
    BY DEF AllocBump, Give
<1>2. current \in Addr /\ current = chunks[Len(chunks)] /\ Len(chunks) \in Nat
    BY NullAssumption DEF AllocBump, Fits, IInv, ListShape, TypeOK
<1>3. stack[k] \in Scope /\ DOMAIN chunks = 1 .. Len(chunks) /\ Len(chunks) \in DOMAIN chunks
    BY <1>2, NullAssumption, SMTT(30) DEF IInv, TypeOK, ListShape, AllocBump, Fits
<1>4. ASSUME NEW i \in DOMAIN chunks, NEW j \in DOMAIN chunks,
             new.chunk = chunks[i], stack[k].chunk = chunks[j]
      PROVE  ~(i < j \/ (i = j /\ new.off + new.size <= stack[k].used))
  <2>1. i = Len(chunks)
      BY <1>2, <1>3, <1>4 DEF IInv, ListShape
  <2>2. stack[k].chunk = current => stack[k].used <= used[current]
      BY <1>2, NullAssumption DEF IInv, Marks, Valid
  <2>3. used[current] \in Nat /\ stack[k].used \in Nat
      BY <1>2, <1>3, SMTT(30) DEF IInv, TypeOK, Scope
  <2>4. QED
      BY <1>2, <1>3, <1>4, <2>1, <2>2, <2>3, SMTT(60)
<1>5. QED
    BY <1>1, <1>4 DEF Before

\* Nor does a new object in a new chunk.
LEMMA ChunkBefore ==
    ASSUME IInv, NEW o \in Object, NEW n \in Nat, n > 0, AllocChunk(o, n),
           NEW k \in DOMAIN stack
    PROVE  Before(stack[k])' = Before(stack[k])
<1>1. PICK a \in Addr :
              /\ ~InList(a)
              /\ chunks' = Append(chunks, a)
              /\ Give(o, a, 0, n)
    BY ChunkAppended
<1> DEFINE new == [id |-> o, chunk |-> a, off |-> 0, size |-> n]
<1>2. objs' = objs \cup {new} /\ UNCHANGED stack
    BY <1>1 DEF AllocChunk, Give
<1>3. /\ chunks \in Seq(Addr) /\ Len(chunks) \in Nat /\ DOMAIN chunks = 1 .. Len(chunks)
      /\ DOMAIN chunks' = 1 .. Len(chunks) + 1
      /\ chunks'[Len(chunks) + 1] = a
      /\ \A i \in DOMAIN chunks : chunks'[i] = chunks[i] /\ chunks[i] # a
  <2>1. chunks \in Seq(Addr)
      BY DEF IInv, TypeOK
  <2>2. QED
      BY <1>1, <2>1 DEF InList
<1>4. \A i \in DOMAIN chunks' : chunks'[i] # a => i \in DOMAIN chunks
    BY <1>3
<1>5. \A p \in objs : p.chunk # a
    BY <1>1 DEF IInv, Disjoint
<1>6. stack[k].chunk # a
    BY <1>1, NullAssumption, SMTT(30) DEF IInv, Marks, Valid
<1>7. new \notin Before(stack[k])'
    BY <1>2, <1>3, <1>4, <1>6, SMTT(60) DEF Before
<1>8. \A p \in objs : p \in Before(stack[k])' <=> p \in Before(stack[k])
    BY <1>2, <1>3, <1>4, <1>5, <1>6, SMTT(30) DEF Before
<1>9. QED
    BY <1>2, <1>7, <1>8 DEF Before

\* Everything the program holds lies before the bump position.
LEMMA AllBeforeHere ==
    ASSUME IInv
    PROVE  Before(Here) = objs
<1> SUFFICES ASSUME NEW p \in objs PROVE p \in Before(Here)
    BY DEF Before
<1>1. PICK i \in DOMAIN chunks : chunks[i] = p.chunk
    BY DEF IInv, Disjoint, InList
<1>2. chunks \in Seq(Addr) /\ DOMAIN chunks = 1 .. Len(chunks) /\ Len(chunks) \in DOMAIN chunks
    BY <1>1 DEF IInv, TypeOK
<1>3. current = chunks[Len(chunks)] /\ current # NULL
    BY <1>1, <1>2, NullAssumption DEF IInv, ListShape, TypeOK
<1>4. p.off + p.size <= used[p.chunk]
    BY DEF IInv, Disjoint
<1>5. QED
    BY <1>1, <1>2, <1>3, <1>4, SMTT(60) DEF Before, Here

\* After a pop the program holds what lay before the closed scope, and the scopes
\* left protect what they did.
LEMMA PopBefore ==
    ASSUME IInv, sarif_alloc_pop, stack # <<>>
    PROVE  /\ objs' = Before(stack[Len(stack)])
           /\ \A k \in 1 .. Len(stack) - 1 : Before(stack[k])' = Before(stack[k])
<1>0. /\ stack' = SubSeq(stack, 1, Len(stack) - 1)
      /\ \/ stack[Len(stack)].chunk = NULL /\ PopAll
         \/ \E i \in DOMAIN chunks :
               stack[Len(stack)].chunk = chunks[i] /\ PopTo(i, stack[Len(stack)].used)
    BY PopStep
<1>1. /\ Len(stack) \in Nat \ {0} /\ DOMAIN stack = 1 .. Len(stack)
      /\ \A k \in 1 .. Len(stack) - 1 : k \in DOMAIN stack /\ stack'[k] = stack[k]
    BY <1>0, PoppedStack
<1>2. \A j \in DOMAIN chunks : chunks[j] \in Addr /\ chunks[j] # NULL
    BY NullAssumption DEF IInv, TypeOK
<1>3. \A k \in 1 .. Len(stack) - 1 : Leq(stack[k], stack[Len(stack)])
    BY <1>1, SMTT(30) DEF IInv, Marks
<1>4. CASE stack[Len(stack)].chunk = NULL /\ PopAll
  <2>1. \A k \in 1 .. Len(stack) - 1 : stack[k].chunk = NULL
      BY <1>2, <1>3, <1>4 DEF Leq
  <2>2. objs' = {} /\ Before(stack[Len(stack)]) = {}
      BY <1>2, <1>4 DEF PopAll, Before
  <2>3. QED
      BY <1>1, <1>2, <2>1, <2>2 DEF Before
<1>5. CASE \E i \in DOMAIN chunks :
               stack[Len(stack)].chunk = chunks[i] /\ PopTo(i, stack[Len(stack)].used)
  <2> DEFINE top == stack[Len(stack)]
  <2>1. PICK i \in DOMAIN chunks : top.chunk = chunks[i] /\ PopTo(i, top.used)
      BY <1>5
  <2>2. chunks \in Seq(Addr) /\ DOMAIN chunks = 1 .. Len(chunks) /\ i \in 1 .. Len(chunks)
      BY SMTT(30) DEF IInv, TypeOK
  <2>3. /\ DOMAIN chunks' = 1 .. i
        /\ \A j \in 1 .. i : j \in DOMAIN chunks /\ chunks'[j] = chunks[j]
      BY <1>2, <2>1, <2>2, FirstElements DEF PopTo
  <2>4. \A b \in DOMAIN chunks : chunks[b] = chunks[i] => b = i
      BY DEF IInv, ListShape
  <2>5. objs' = Before(top)
    <3>1. \A p \in objs : p \in Before(top) <=>
             (\/ \E j \in 1 .. i - 1 : p.chunk = chunks[j]
              \/ p.chunk = chunks[i] /\ p.off + p.size <= top.used)
        BY <2>1, <2>2, <2>4, SMTT(30) DEF Before
    <3>2. QED
        BY <2>1, <3>1 DEF PopTo, Surviving, Before
  <2>6. ASSUME NEW k \in 1 .. Len(stack) - 1
        PROVE  Before(stack[k])' = Before(stack[k])
    <3>1. stack'[k] = stack[k] /\ Leq(stack[k], top)
        BY <1>1, <1>3
    <3>2. CASE stack[k].chunk = NULL
        BY <1>2, <2>3, <3>1, <3>2 DEF Before
    <3>3. CASE stack[k].chunk # NULL
      <4>1. PICK j \in DOMAIN chunks :
               /\ stack[k].chunk = chunks[j]
               /\ j < i \/ (j = i /\ stack[k].used <= top.used)
          BY <2>1, <2>4, <3>1, <3>3 DEF Leq
      <4>2. \A b \in DOMAIN chunks : chunks[b] = chunks[j] => b = j
          BY DEF IInv, ListShape
      <4>3. j \in DOMAIN chunks'
          BY <2>2, <2>3, <4>1
      <4>4. \A p \in objs' : p \in Before(stack[k])' <=> p \in Before(stack[k])
          BY <2>2, <2>3, <2>5, <3>1, <4>1, <4>2, <4>3, SMTT(30) DEF Before
      <4>5. Before(stack[k]) \subseteq objs'
        <5> SUFFICES ASSUME NEW p \in Before(stack[k]) PROVE p \in Before(top)
            BY <2>5
        <5>1. PICK c \in DOMAIN chunks :
                 p.chunk = chunks[c] /\ (c < j \/ (c = j /\ p.off + p.size <= stack[k].used))
            BY <4>1, <4>2 DEF Before
        <5>2. p \in objs
            BY DEF Before
        <5>3. p.off + p.size \in Nat /\ stack[k].used \in Nat /\ top.used \in Nat
          <6>1. p \in Placed /\ stack[k] \in Scope /\ top \in Scope
              BY <1>1, <5>2 DEF IInv, TypeOK
          <6>2. QED
              BY <6>1 DEF Placed, Scope
        <5>4. i \in Int /\ j \in Int /\ c \in Int
            BY <2>2, <4>1, <5>1
        <5>5. c < i \/ (c = i /\ p.off + p.size <= top.used)
            BY <4>1, <5>1, <5>3, <5>4
        <5>6. /\ p.chunk = chunks[c] /\ top.chunk = chunks[i]
              /\ c \in DOMAIN chunks /\ i \in DOMAIN chunks
            BY <2>1, <5>1
        <5>7. QED
            BY <5>2, <5>5, <5>6, Zenon DEF Before
      <4>6. QED
          BY <4>4, <4>5 DEF Before
    <3>4. QED
        BY <3>2, <3>3
  <2>7. QED
      BY <2>5, <2>6
<1>6. QED
    BY <1>0, <1>4, <1>5

\* The empty arena holds no object and has no open scope.
LEMMA RefineInit == Init => Scopes!Init
<1> SUFFICES ASSUME Init PROVE Scopes!Init
    OBVIOUS
<1>1. Ids(objs) = {}
    BY DEF Init, Ids
<1>2. OpenScopes = <<>>
    BY InitIInv, OpenIsStack DEF Init
<1>3. [i \in DOMAIN OpenScopes |-> Ids(Before(OpenScopes[i]))] = <<>>
    BY <1>2
<1>4. QED
    BY <1>1, <1>3 DEF Scopes!Init

\* An allocation that hands out an object is the abstract one.
LEMMA RefineAlloc ==
    ASSUME IInv, IInv', NEW o \in Object, NEW n \in Nat, n > 0,
           \A p \in objs : p.id # o, AllocBump(o, n) \/ AllocChunk(o, n)
    PROVE  Scopes!Alloc(o)
<1>1. UNCHANGED stack /\ \A k \in DOMAIN stack : Before(stack[k])' = Before(stack[k])
    BY BumpBefore, ChunkBefore, Zenon DEF AllocBump, AllocChunk
<1>2. \E a, off : Give(o, a, off, n)
    BY DEF AllocBump, AllocChunk
<1>3. Ids(objs') = Ids(objs) \cup {o} /\ o \notin Ids(objs)
  <2>1. PICK a, off : Give(o, a, off, n)
      BY <1>2
  <2>2. PICK p : p.id = o /\ objs' = objs \cup {p}
      BY <2>1, Zenon DEF Give
  <2>3. QED
      BY <2>2 DEF Ids
<1>4. OpenScopes = stack /\ (OpenScopes = stack)'
    BY OpenIsStack, PTL
<1>5. \A k \in DOMAIN stack : Ids(Before(OpenScopes[k]))' = Ids(Before(OpenScopes[k]))
    BY <1>1, <1>4 DEF Ids
<1>6. [i \in DOMAIN OpenScopes |-> Ids(Before(OpenScopes[i]))]'
        = [i \in DOMAIN OpenScopes |-> Ids(Before(OpenScopes[i]))]
    BY <1>1, <1>4, <1>5
<1>7. QED
    BY <1>3, <1>6, Zenon DEF Scopes!Alloc, Ids

\* Opening a scope is the abstract Push: its position has all objects before it.
LEMMA RefinePush ==
    ASSUME IInv, IInv', MaxNesting <= SARIF_SCOPE_STACK_CAP, sarif_alloc_push
    PROVE  Scopes!Push
<1> DEFINE abs == [i \in DOMAIN OpenScopes |-> Ids(Before(OpenScopes[i]))]
<1>1. stack' = Append(stack, Here) /\ UNCHANGED <<chunks, objs>>
    BY PushStep
<1>2. OpenScopes = stack /\ (OpenScopes = stack)'
    BY OpenIsStack, PTL
<1>3. stack \in Seq(Scope) /\ Here \in Scope
    BY HereIsLast DEF IInv, TypeOK
<1>4. /\ Len(stack) \in Nat /\ DOMAIN stack = 1 .. Len(stack)
      /\ DOMAIN stack' = 1 .. Len(stack) + 1
      /\ stack'[Len(stack) + 1] = Here
      /\ \A k \in DOMAIN stack : stack'[k] = stack[k]
    BY <1>1, <1>3
<1>5. \A m : Before(m)' = Before(m)
    BY <1>1, SMTT(30) DEF Before
<1>6. abs' = [i \in 1 .. Len(stack) + 1 |-> Ids(Before(stack'[i]))]
  <2>1. abs' = [i \in DOMAIN stack' |-> Ids(Before(stack[i])')]
      BY <1>2 DEF Ids
  <2>2. QED
      BY <1>4, <1>5, <2>1 DEF Before
<1>7. abs = [i \in 1 .. Len(stack) |-> Ids(Before(stack[i]))]
    BY <1>2, <1>4
<1>8. Ids(Before(Here)) = Ids(objs)
    BY AllBeforeHere
<1>9. abs' = Append(abs, Ids(objs))
    BY <1>4, <1>6, <1>7, <1>8
<1>10. QED
    BY <1>1, <1>9, Zenon DEF Scopes!Push, Ids

\* Closing a scope is the abstract Pop.
LEMMA RefinePop ==
    ASSUME IInv, IInv', sarif_alloc_pop, stack # <<>>
    PROVE  Scopes!Pop
<1> DEFINE abs == [i \in DOMAIN OpenScopes |-> Ids(Before(OpenScopes[i]))]
<1>1. stack' = SubSeq(stack, 1, Len(stack) - 1)
    BY PopStep
<1>2. OpenScopes = stack /\ (OpenScopes = stack)'
    BY OpenIsStack, PTL
<1>3. /\ objs' = Before(stack[Len(stack)])
      /\ \A k \in 1 .. Len(stack) - 1 : Before(stack[k])' = Before(stack[k])
    BY PopBefore
<1>4. /\ Len(stack) \in Nat \ {0} /\ DOMAIN stack = 1 .. Len(stack)
      /\ DOMAIN stack' = 1 .. Len(stack) - 1
    BY <1>1, PoppedStack, SMTT(30)
<1>5. abs' = [i \in 1 .. Len(stack) - 1 |-> Ids(Before(stack[i]))]
  <2>1. abs' = [i \in DOMAIN stack' |-> Ids(Before(stack[i])')]
      BY <1>2 DEF Ids
  <2>2. QED
      BY <1>3, <1>4, <2>1
<1>6. abs = [i \in 1 .. Len(stack) |-> Ids(Before(stack[i]))]
    BY <1>2, <1>4
<1>7. abs' = SubSeq(abs, 1, Len(abs) - 1) /\ abs # <<>> /\ Len(abs) = Len(stack)
  <2>1. abs \in Seq(SUBSET {p.id : p \in objs}) /\ Len(abs) = Len(stack) /\ abs # <<>>
      BY <1>4, <1>6 DEF Ids, Before
  <2>2. QED
      BY <1>4, <1>5, <1>6, <2>1
<1>8. Ids(objs') = abs[Len(abs)]
    BY <1>3, <1>4, <1>6, <1>7
<1>9. QED
    BY <1>7, <1>8, Zenon DEF Scopes!Pop, Ids

\* Within the fixed scope array the native runtime implements nested allocation
\* scopes: with_arena gives back what was allocated inside it and nothing else.
THEOREM NativeScopes ==
    ASSUME MaxNesting <= SARIF_SCOPE_STACK_CAP
    PROVE  Spec => ScopesSpec
<1>1. Init => Scopes!Init
    BY RefineInit
<1>2. IInv /\ IInv' /\ [Next]_vars => [Scopes!Next]_Scopes!vars
  <2> SUFFICES ASSUME IInv, IInv', [Next]_vars PROVE [Scopes!Next]_Scopes!vars
      OBVIOUS
  <2>1. CASE UNCHANGED vars
      BY <2>1 DEF vars, Scopes!vars, OpenScopes, Before, Ids
  <2>2. ASSUME NEW o \in Object, NEW size \in Size, sarif_record_alloc(o, size)
        PROVE  [Scopes!Next]_Scopes!vars
    <3>1. CASE AllocRefused(size) \/ AllocFail(Align(size))
        BY <2>1, <3>1 DEF AllocRefused, AllocFail
    <3>2. CASE size # 0 /\ (AllocBump(o, Align(size)) \/ AllocChunk(o, Align(size)))
      <4>1. Align(size) \in Nat /\ Align(size) > 0
          BY <3>2, AlignGrows, SizeAssumption
      <4>2. Scopes!Alloc(o)
          BY <2>2, <3>2, <4>1, RefineAlloc DEF sarif_record_alloc
      <4>3. QED
          BY <4>2 DEF Scopes!Next
    <3>3. ~AllocOverrun
        BY DEF AllocOverrun, IInv, MemorySafe
    <3>4. QED
        BY <2>2, <3>1, <3>2, <3>3 DEF sarif_record_alloc
  <2>3. CASE sarif_alloc_push
      BY <2>3, RefinePush DEF Scopes!Next
  <2>4. CASE sarif_alloc_pop
    <3>1. CASE stack # <<>>
        BY <2>4, <3>1, RefinePop DEF Scopes!Next
    <3>2. CASE stack = <<>>
        BY <2>1, <2>4, <3>2 DEF sarif_alloc_pop, IInv, InArray
    <3>3. QED
        BY <3>1, <3>2
  <2>5. QED
      BY <2>1, <2>2, <2>3, <2>4 DEF Next
<1>3. QED
    BY <1>1, <1>2, IInvHolds, PTL DEF Spec, ScopesSpec, Scopes!Spec

\* No step takes from the program an object that lies before an open scope: older
\* objects survive every allocation, and every pop down to their scope.
THEOREM OlderObjectsSurvive ==
    ASSUME MaxNesting <= SARIF_SCOPE_STACK_CAP
    PROVE  Spec => ScopesProtect
<1> DEFINE Kept == \A i \in DOMAIN OpenScopes : Before(OpenScopes[i]) \subseteq objs'
<1>1. IInv /\ [Next]_vars => [Kept]_vars
  <2> SUFFICES ASSUME IInv, Next PROVE Kept
      OBVIOUS
  <2>0. OpenScopes = stack
      BY OpenIsStack
  <2>1. CASE objs \subseteq objs'
      BY <2>1, SMTT(30) DEF Before
  <2>2. ASSUME NEW o \in Object, NEW size \in Size, sarif_record_alloc(o, size)
        PROVE  objs \subseteq objs'
      BY <2>2 DEF sarif_record_alloc, AllocRefused, AllocBump, AllocOverrun, AllocChunk,
                  AllocFail, Give, vars
  <2>3. CASE sarif_alloc_push
      BY <2>1, <2>3 DEF sarif_alloc_push
  <2>4. CASE sarif_alloc_pop
    <3>1. CASE stack = <<>>
        BY <2>1, <2>4, <3>1 DEF sarif_alloc_pop, IInv, InArray, vars
    <3>2. CASE stack # <<>>
      <4>1. /\ objs' = Before(stack[Len(stack)])
            /\ \A k \in 1 .. Len(stack) - 1 : Before(stack[k])' = Before(stack[k])
          BY <2>4, <3>2, PopBefore
      <4>2. \A k \in 1 .. Len(stack) - 1 : Before(stack[k]) \subseteq objs'
        <5> SUFFICES ASSUME NEW k \in 1 .. Len(stack) - 1 PROVE Before(stack[k]) \subseteq objs'
            OBVIOUS
        <5>1. Before(stack[k])' \subseteq objs'
            BY DEF Before
        <5>2. QED
            BY <4>1, <5>1
      <4>3. DOMAIN stack = 1 .. Len(stack) /\ Len(stack) \in Nat
          BY DEF IInv, TypeOK
      <4>4. ASSUME NEW k \in DOMAIN stack PROVE Before(stack[k]) \subseteq objs'
        <5>1. CASE k = Len(stack)
            BY <4>1, <5>1
        <5>2. CASE k # Len(stack)
            BY <4>2, <4>3, <5>2
        <5>3. QED
            BY <5>1, <5>2
      <4>5. QED
          BY <2>0, <4>4
    <3>3. QED
        BY <3>1, <3>2
  <2>5. QED
      BY <2>1, <2>2, <2>3, <2>4 DEF Next
<1>2. QED
    BY <1>1, IInvHolds, PTL DEF Spec, ScopesProtect

-----------------------------------------------------------------------------
(***************************************************************************)
(* The shape of the chunk list does not depend on the scopes: it also      *)
(* holds for a program that nests them past the array.                     *)
(***************************************************************************)
Chain == chunks \in Seq(Addr) /\ ListShape

\* A chunk goes behind the last one, so the list only gets longer.
LEMMA ChainAppend ==
    ASSUME Chain, NEW o \in Object, NEW n \in Nat, AllocChunk(o, n)
    PROVE  Chain'
<1>1. PICK a \in Addr :
         /\ ~InList(a) /\ current' = a
         /\ \/ current = NULL /\ chunks' = <<a>>
            \/ \E i \in DOMAIN chunks :
                  chunks[i] = current /\ chunks' = Append(SubSeq(chunks, 1, i), a)
    BY Zenon DEF AllocChunk
<1>2. chunks \in Seq(Addr) /\ Len(chunks) \in Nat /\ DOMAIN chunks = 1 .. Len(chunks)
    BY DEF Chain
<1>3. chunks' = Append(chunks, a)
  <2>1. CASE current = NULL /\ chunks' = <<a>>
    <3>1. chunks = <<>>
        BY <1>2, <2>1, NullAssumption DEF Chain, ListShape
    <3>2. QED
        BY <2>1, <3>1
  <2>2. CASE \E i \in DOMAIN chunks :
                chunks[i] = current /\ chunks' = Append(SubSeq(chunks, 1, i), a)
    <3>1. PICK i \in DOMAIN chunks :
              chunks[i] = current /\ chunks' = Append(SubSeq(chunks, 1, i), a)
        BY <2>2, Zenon
    <3>2. i = Len(chunks)
        BY <1>2, <3>1 DEF Chain, ListShape
    <3>3. QED
        BY <1>2, <3>1, <3>2, AllElements
  <2>3. QED
      BY <1>1, <2>1, <2>2
<1>4. /\ chunks' \in Seq(Addr) /\ chunks' # <<>> /\ Len(chunks') = Len(chunks) + 1
      /\ DOMAIN chunks' = 1 .. Len(chunks) + 1 /\ chunks'[Len(chunks) + 1] = a
      /\ \A i \in 1 .. Len(chunks) : chunks'[i] = chunks[i]
    BY <1>2, <1>3
<1>5. \A i, j \in DOMAIN chunks' : chunks'[i] = chunks'[j] => i = j
    BY <1>1, <1>2, <1>4, SMTT(30) DEF Chain, ListShape, InList
<1>6. QED
    BY <1>1, <1>4, <1>5 DEF Chain, ListShape

\* A pop leaves a prefix of the list, whose last chunk becomes the current one.
LEMMA ChainRelease ==
    ASSUME Chain, NEW scope, Release(scope)
    PROVE  Chain'
<1>1. chunks \in Seq(Addr) /\ Len(chunks) \in Nat /\ DOMAIN chunks = 1 .. Len(chunks)
    BY DEF Chain
<1>2. CASE PopAll
    BY <1>2 DEF PopAll, Chain, ListShape
<1>3. ASSUME NEW i \in DOMAIN chunks, PopTo(i, scope.used) PROVE Chain'
  <2>1. chunks' = SubSeq(chunks, 1, i) /\ current' = chunks[i]
      BY <1>3 DEF PopTo
  <2>2. /\ chunks' \in Seq(Addr) /\ Len(chunks') = i /\ chunks' # <<>> /\ DOMAIN chunks' = 1 .. i
        /\ \A j \in 1 .. i : chunks'[j] = chunks[j]
      BY <1>1, <2>1
  <2>3. QED
      BY <1>1, <2>1, <2>2, SMTT(30) DEF Chain, ListShape
<1>4. CASE PopDangling
    BY <1>4 DEF PopDangling, Chain, ListShape
<1>5. QED
    BY <1>2, <1>3, <1>4 DEF Release

\* sarif_record_chunks is a list without repetitions that ends in
\* sarif_record_current, at every depth of nesting.
THEOREM ListKeepsItsShape == Spec => []ListShape
<1>1. Init => Chain
    BY DEF Init, Chain, ListShape
<1>2. Chain /\ [Next]_vars => Chain'
  <2> SUFFICES ASSUME Chain, [Next]_vars PROVE Chain'
      OBVIOUS
  <2>1. CASE UNCHANGED <<chunks, current>>
      BY <2>1, SMTT(30) DEF Chain, ListShape
  <2>2. ASSUME NEW o \in Object, NEW size \in Size, sarif_record_alloc(o, size) PROVE Chain'
    <3>1. CASE UNCHANGED <<chunks, current>>
        BY <2>1, <3>1
    <3>2. CASE size # 0 /\ AllocChunk(o, Align(size))
        BY <3>2, AlignGrows, SizeAssumption, ChainAppend
    <3>3. QED
        BY <2>2, <3>1, <3>2
        DEF sarif_record_alloc, AllocRefused, AllocBump, AllocOverrun, AllocFail, vars
  <2>3. CASE sarif_alloc_pop
      BY <2>1, <2>3, ChainRelease DEF sarif_alloc_pop, vars
  <2>4. QED
      BY <2>1, <2>2, <2>3 DEF Next, sarif_alloc_push, vars
<1>3. Chain => ListShape
    BY DEF Chain
<1>4. QED
    BY <1>1, <1>2, <1>3, PTL DEF Spec

-----------------------------------------------------------------------------
(* The JIT's arena, for every set of objects and sizes, every chunk size   *)
(* and every depth: it implements the nested scopes of AllocScopes,        *)
(* although a pop leaves dead boxes behind that only a later allocation    *)
(* drops.                                                                  *)

CONSTANTS JitSize, ChunkSize
ASSUME JitAssumption == JitSize \subseteq Int /\ ChunkSize \in Nat

VARIABLES boxes, idx, offset, positions, jitObjs

Jit == INSTANCE JitArena WITH
    Size <- JitSize, chunks <- boxes, stack <- positions, objs <- jitObjs

JitHere == [chunk_index |-> idx, offset |-> offset]

JitTypeOK ==
    /\ boxes \in Seq(Nat)
    /\ JitHere \in Jit!ArenaState
    /\ positions \in Seq(Jit!ArenaState)
    /\ jitObjs \subseteq Jit!Placed

\* Position m comes before position n.
JitLeq(m, n) ==
    \/ m.chunk_index < n.chunk_index
    \/ m.chunk_index = n.chunk_index /\ m.offset <= n.offset

\* A position lies in a box that exists, or is the one before the first box.
JitInside(m) ==
    \/ boxes = <<>> /\ m.chunk_index = 0 /\ m.offset = 0
    \/ m.chunk_index < Len(boxes) /\ m.offset <= boxes[m.chunk_index + 1]

\* Objects have names of their own and are not empty.
JitNamed ==
    /\ \A p, q \in jitObjs : p.id = q.id => p = q
    /\ \A p \in jitObjs : p.size > 0

\* The saved positions come in the order the scopes were opened.
JitMarks ==
    /\ JitInside(JitHere)
    /\ \A k \in DOMAIN positions : JitInside(positions[k]) /\ JitLeq(positions[k], JitHere)
    /\ \A k, l \in DOMAIN positions : k <= l => JitLeq(positions[k], positions[l])

\* The inductive invariant.
JitIInv == JitTypeOK /\ Jit!Disjoint /\ JitNamed /\ JitMarks

\* Rounding up to the alignment leaves no allocation empty.
LEMMA JitAlignGrows ==
    ASSUME NEW size \in Int
    PROVE  Jit!arena_align_up(Jit!Max(size, 8)) \in Nat /\ Jit!arena_align_up(Jit!Max(size, 8)) > 0
BY DEF Jit!arena_align_up, Jit!ARENA_ALIGN, Jit!Max

\* The empty arena.
LEMMA JitInitIInv == Jit!Init => JitIInv
<1> SUFFICES ASSUME Jit!Init PROVE JitIInv
    OBVIOUS
<1>1. JitTypeOK /\ DOMAIN positions = {}
    BY DEF Jit!Init, JitTypeOK, JitHere, Jit!ArenaState
<1>2. Jit!Disjoint /\ JitNamed
    BY DEF Jit!Init, Jit!Disjoint, JitNamed, Jit!Before
<1>3. JitMarks
    BY <1>1 DEF Jit!Init, JitMarks, JitInside, JitHere
<1>4. QED
    BY <1>1, <1>2, <1>3 DEF JitIInv

\* The numbers behind the types.
LEMMA JitNumbers ==
    ASSUME JitTypeOK
    PROVE  /\ idx \in Nat /\ offset \in Nat
           /\ Len(boxes) \in Nat /\ DOMAIN boxes = 1 .. Len(boxes)
           /\ \A i \in 1 .. Len(boxes) : boxes[i] \in Nat
           /\ Len(positions) \in Nat /\ DOMAIN positions = 1 .. Len(positions)
           /\ \A k \in DOMAIN positions : positions[k].chunk_index \in Nat /\ positions[k].offset \in Nat
           /\ \A p \in jitObjs : p.chunk \in Nat /\ p.off \in Nat /\ p.size \in Nat
<1>1. idx \in Nat /\ offset \in Nat
  <2>1. JitHere.chunk_index \in Nat /\ JitHere.offset \in Nat
      BY DEF JitTypeOK, Jit!ArenaState
  <2>2. QED
      BY <2>1 DEF JitHere
<1>2. /\ Len(boxes) \in Nat /\ DOMAIN boxes = 1 .. Len(boxes)
      /\ \A i \in 1 .. Len(boxes) : boxes[i] \in Nat
    BY DEF JitTypeOK
<1>3. /\ Len(positions) \in Nat /\ DOMAIN positions = 1 .. Len(positions)
      /\ \A k \in DOMAIN positions : positions[k] \in Jit!ArenaState
    BY DEF JitTypeOK
<1>4. \A p \in jitObjs : p.chunk \in Nat /\ p.off \in Nat /\ p.size \in Nat
    BY DEF JitTypeOK, Jit!Placed
<1>5. QED
    BY <1>1, <1>2, <1>3, <1>4 DEF Jit!ArenaState

\* Objects are before the bump position.
LEMMA JitObjectsBehind ==
    ASSUME JitIInv, NEW p \in jitObjs
    PROVE  /\ p.chunk < Len(boxes) /\ p.off + p.size <= boxes[p.chunk + 1]
           /\ p.chunk < idx \/ (p.chunk = idx /\ p.off + p.size <= offset)
BY DEF JitIInv, Jit!Disjoint, Jit!Before

\* Bumping the position in the current box.
LEMMA JitBumpIInv ==
    ASSUME JitIInv, NEW o \in Object, NEW n \in Nat, n > 0,
           \A p \in jitObjs : p.id # o, Jit!AllocBump(o, n)
    PROVE  JitIInv'
<1> DEFINE new == [id |-> o, chunk |-> idx, off |-> offset, size |-> n]
<1>0. JitTypeOK
    BY DEF JitIInv
<1>1. /\ jitObjs' = jitObjs \cup {new} /\ offset' = offset + n /\ UNCHANGED <<boxes, idx, positions>>
      /\ idx < Len(boxes) /\ offset + n <= boxes[idx + 1]
    BY SMTT(30) DEF Jit!AllocBump, Jit!Fits
<1>2. new \in Jit!Placed
    BY <1>0, JitNumbers, SMTT(30) DEF Jit!Placed
<1>3. JitTypeOK'
    BY <1>0, <1>1, <1>2, JitNumbers, SMTT(30) DEF JitTypeOK, JitHere, Jit!ArenaState
<1>4. Jit!Disjoint'
  <2>1. \A p \in jitObjs' : p.chunk < Len(boxes') /\ p.off + p.size <= boxes'[p.chunk + 1]
      BY <1>1, JitObjectsBehind
  <2>2. \A p \in jitObjs' : p.chunk < idx \/ (p.chunk = idx /\ p.off + p.size <= offset')
      BY <1>0, <1>1, JitObjectsBehind, JitNumbers, SMTT(30)
  <2>3. \A p, q \in jitObjs' :
           p = q \/ p.chunk # q.chunk \/ p.off + p.size <= q.off \/ q.off + q.size <= p.off
    <3>1. \A p \in jitObjs : p.chunk # new.chunk \/ p.off + p.size <= new.off
        BY <1>0, JitObjectsBehind, JitNumbers, SMTT(30)
    <3>2. \A p, q \in jitObjs :
             p = q \/ p.chunk # q.chunk \/ p.off + p.size <= q.off \/ q.off + q.size <= p.off
        BY DEF JitIInv, Jit!Disjoint
    <3>3. QED
        BY <1>1, <3>1, <3>2
  <2>4. QED
      BY <1>1, <2>1, <2>2, <2>3 DEF Jit!Disjoint, Jit!Before
<1>5. JitNamed'
    BY <1>1, SMTT(30) DEF JitIInv, JitNamed
<1>6. JitMarks'
    BY <1>0, <1>1, JitNumbers, SMTT(30) DEF JitIInv, JitMarks, JitInside, JitLeq, JitHere
<1>7. QED
    BY <1>3, <1>4, <1>5, <1>6 DEF JitIInv

\* What a new box leaves of the old ones: all those that hold objects.
LEMMA JitChunkStep ==
    ASSUME JitIInv, NEW o \in Object, NEW n \in Nat, n > 0, Jit!AllocChunk(o, n)
    PROVE  \E last \in Nat :
              /\ boxes' \in Seq(Nat) /\ Len(boxes') = last + 1 /\ idx' = last /\ offset' = n
              /\ boxes = <<>> => last = 0
              /\ boxes # <<>> => last = idx + 1
              /\ \A i \in 1 .. last : boxes'[i] = boxes[i]
              /\ n <= boxes'[last + 1]
              /\ jitObjs' = jitObjs \cup {[id |-> o, chunk |-> last, off |-> 0, size |-> n]}
              /\ \A p \in jitObjs : p.chunk < last
              /\ UNCHANGED positions
<1> DEFINE kept == IF boxes = <<>> THEN <<>> ELSE SubSeq(boxes, 1, idx + 1)
<1>0. JitTypeOK
    BY DEF JitIInv
<1>1. /\ kept \in Seq(Nat) /\ Len(kept) \in Nat
      /\ boxes = <<>> => Len(kept) = 0
      /\ boxes # <<>> => Len(kept) = idx + 1
      /\ \A i \in 1 .. Len(kept) : kept[i] = boxes[i]
  <2>1. CASE boxes = <<>>
      BY <2>1
  <2>2. CASE boxes # <<>>
    <3>1. boxes \in Seq(Nat) /\ idx \in Nat /\ idx + 1 <= Len(boxes)
        BY <1>0, <2>2, JitNumbers, SMTT(30) DEF JitIInv, JitMarks, JitInside, JitHere, JitTypeOK
    <3>2. QED
        BY <2>2, <3>1, FirstElements, SMTT(30)
  <2>3. QED
      BY <2>1, <2>2
<1>2. \A p \in jitObjs : p.chunk < Len(kept)
    BY <1>0, <1>1, JitObjectsBehind, JitNumbers
<1>3. Jit!Max(ChunkSize, n) \in Nat /\ n <= Jit!Max(ChunkSize, n)
    BY JitAssumption, NestingAssumption DEF Jit!Max
<1>4. /\ boxes' = Append(kept, Jit!Max(ChunkSize, n)) /\ idx' = Len(kept) /\ offset' = n
      /\ jitObjs' = jitObjs \cup {[id |-> o, chunk |-> Len(kept), off |-> 0, size |-> n]}
      /\ UNCHANGED positions
    BY <1>2, Zenon DEF Jit!AllocChunk
<1>5. /\ boxes' \in Seq(Nat) /\ Len(boxes') = Len(kept) + 1
      /\ \A i \in 1 .. Len(kept) : boxes'[i] = boxes[i]
      /\ boxes'[Len(kept) + 1] = Jit!Max(ChunkSize, n)
    BY <1>1, <1>3, <1>4
<1>6. QED
    BY <1>1, <1>2, <1>3, <1>4, <1>5, Zenon

\* A new box.
LEMMA JitChunkIInv ==
    ASSUME JitIInv, NEW o \in Object, NEW n \in Nat, n > 0,
           \A p \in jitObjs : p.id # o, Jit!AllocChunk(o, n)
    PROVE  JitIInv'
<1>0. JitTypeOK
    BY DEF JitIInv
<1>1. PICK last \in Nat :
         /\ boxes' \in Seq(Nat) /\ Len(boxes') = last + 1 /\ idx' = last /\ offset' = n
         /\ boxes = <<>> => last = 0
         /\ boxes # <<>> => last = idx + 1
         /\ \A i \in 1 .. last : boxes'[i] = boxes[i]
         /\ n <= boxes'[last + 1]
         /\ jitObjs' = jitObjs \cup {[id |-> o, chunk |-> last, off |-> 0, size |-> n]}
         /\ \A p \in jitObjs : p.chunk < last
         /\ UNCHANGED positions
    BY JitChunkStep, Zenon
<1> DEFINE new == [id |-> o, chunk |-> last, off |-> 0, size |-> n]
<1>2. new \in Jit!Placed
    BY SMTT(30) DEF Jit!Placed
<1>3. JitTypeOK'
    BY <1>0, <1>1, <1>2, SMTT(30) DEF JitTypeOK, JitHere, Jit!ArenaState
<1>4. Jit!Disjoint'
  <2>1. \A p \in jitObjs' : p.chunk < Len(boxes') /\ p.off + p.size <= boxes'[p.chunk + 1]
    <3>1. ASSUME NEW p \in jitObjs
          PROVE  p.chunk < Len(boxes') /\ p.off + p.size <= boxes'[p.chunk + 1]
      <4>1. p.chunk \in Nat /\ p.chunk < last /\ p.off + p.size <= boxes[p.chunk + 1]
          BY <1>0, <1>1, JitObjectsBehind, JitNumbers, SMTT(30)
      <4>2. p.chunk + 1 \in 1 .. last
          BY <4>1, SMTT(30)
      <4>3. QED
          BY <1>1, <4>1, <4>2, SMTT(30)
    <3>2. QED
        BY <1>1, <3>1, SMTT(30)
  <2>2. \A p \in jitObjs' : p.chunk < idx' \/ (p.chunk = idx' /\ p.off + p.size <= offset')
      BY <1>1, SMTT(30)
  <2>3. \A p, q \in jitObjs' :
           p = q \/ p.chunk # q.chunk \/ p.off + p.size <= q.off \/ q.off + q.size <= p.off
    <3>1. \A p \in jitObjs : p.chunk # new.chunk
        BY <1>0, <1>1, JitNumbers, SMTT(30)
    <3>2. \A p, q \in jitObjs :
             p = q \/ p.chunk # q.chunk \/ p.off + p.size <= q.off \/ q.off + q.size <= p.off
        BY DEF JitIInv, Jit!Disjoint
    <3>3. QED
        BY <1>1, <3>1, <3>2, SMTT(30)
  <2>4. QED
      BY <2>1, <2>2, <2>3, SMTT(30) DEF Jit!Disjoint, Jit!Before
<1>5. JitNamed'
    BY <1>1, SMTT(30) DEF JitIInv, JitNamed
<1>6. JitMarks'
  <2>1. JitInside(JitHere)'
      BY <1>1, SMTT(30) DEF JitInside, JitHere
  <2>2. ASSUME NEW k \in DOMAIN positions
        PROVE  JitInside(positions[k])' /\ JitLeq(positions[k], JitHere)'
    <3>1. positions'[k] = positions[k] /\ positions[k].chunk_index \in Nat /\ positions[k].offset \in Nat
        BY <1>0, <1>1, JitNumbers
    <3>2. JitInside(positions[k]) /\ JitLeq(positions[k], JitHere)
        BY Zenon DEF JitIInv, JitMarks
    <3>3. CASE boxes = <<>>
      <4>1. positions[k].chunk_index = 0 /\ positions[k].offset = 0
          BY <3>1, <3>2, <3>3 DEF JitInside
      <4>2. last = 0 /\ n <= boxes'[1] /\ boxes'[1] \in Nat
        <5>1. last = 0 /\ boxes' \in Seq(Nat) /\ Len(boxes') = 1
            BY <1>1, <3>3
        <5>2. boxes'[1] \in Nat
          <6>1. 1 \in 1 .. Len(boxes')
              BY <5>1
          <6>2. QED
              BY <5>1, <6>1, SMTT(30)
        <5>3. n <= boxes'[last + 1] /\ last + 1 = 1
            BY <1>1, <5>1
        <5>4. QED
            BY <5>1, <5>2, <5>3, SMTT(30)
      <4>3. JitInside(positions[k])'
          BY <1>1, <3>1, <4>1, <4>2, SMTT(30) DEF JitInside
      <4>4. JitLeq(positions[k], JitHere)'
          BY <1>1, <3>1, <4>1, <4>2, SMTT(30) DEF JitLeq, JitHere
      <4>5. QED
          BY <4>3, <4>4, Zenon
    <3>4. CASE boxes # <<>>
      <4>1. positions[k].chunk_index < last /\ positions[k].offset <= boxes[positions[k].chunk_index + 1]
        <5>1. positions[k].offset <= boxes[positions[k].chunk_index + 1]
            BY <3>2, <3>4, SMTT(30) DEF JitInside
        <5>2. positions[k].chunk_index <= idx /\ idx \in Nat
            BY <1>0, <3>1, <3>2, JitNumbers, SMTT(30) DEF JitLeq, JitHere
        <5>3. last = idx + 1
            BY <1>1, <3>4
        <5>4. QED
            BY <3>1, <5>1, <5>2, <5>3, SMTT(30)
      <4>2. positions[k].chunk_index + 1 \in 1 .. last
          BY <3>1, <4>1, SMTT(30)
      <4>3. /\ positions[k].chunk_index < Len(boxes')
            /\ positions[k].offset <= boxes'[positions[k].chunk_index + 1]
          BY <1>1, <3>1, <4>1, <4>2, SMTT(30)
      <4>4. JitInside(positions[k])'
          BY <3>1, <4>3, SMTT(30) DEF JitInside
      <4>5. JitLeq(positions[k], JitHere)'
          BY <1>1, <3>1, <4>1, Zenon DEF JitLeq, JitHere
      <4>6. QED
          BY <4>4, <4>5
    <3>5. QED
        BY <3>3, <3>4, SMTT(30)
  <2>3. \A k, l \in DOMAIN positions : k <= l => JitLeq(positions[k], positions[l])
      BY DEF JitIInv, JitMarks
  <2>4. QED
      BY <1>1, <2>1, <2>2, <2>3, SMTT(30) DEF JitMarks, JitLeq
<1>7. QED
    BY <1>3, <1>4, <1>5, <1>6 DEF JitIInv

\* Opening a scope saves the bump position.
LEMMA JitPushIInv ==
    ASSUME JitIInv, Jit!sarif_alloc_push
    PROVE  JitIInv'
<1>0. JitTypeOK /\ positions' = Append(positions, JitHere) /\ UNCHANGED <<boxes, idx, offset, jitObjs>>
    BY DEF JitIInv, Jit!sarif_alloc_push, JitHere
<1>1. JitTypeOK'
    BY <1>0, SMTT(30) DEF JitTypeOK, JitHere
<1>2. Jit!Disjoint' /\ JitNamed'
    BY <1>0 DEF JitIInv, Jit!Disjoint, JitNamed, Jit!Before
<1>3. /\ DOMAIN positions' = 1 .. Len(positions) + 1 /\ positions'[Len(positions) + 1] = JitHere
      /\ \A k \in 1 .. Len(positions) : positions'[k] = positions[k]
      /\ Len(positions) \in Nat /\ DOMAIN positions = 1 .. Len(positions)
    BY <1>0, SMTT(30) DEF JitTypeOK
<1>4. JitHere' = JitHere /\ \A m : JitInside(m)' <=> JitInside(m)
    BY <1>0, SMTT(30) DEF JitHere, JitInside
<1>5. JitLeq(JitHere, JitHere)
    BY <1>0, JitNumbers DEF JitLeq, JitHere
<1>6. JitMarks'
  <2>1. ASSUME NEW k \in DOMAIN positions'
        PROVE  JitInside(positions'[k]) /\ JitLeq(positions'[k], JitHere)
    <3>1. k \in DOMAIN positions \/ k = Len(positions) + 1
        BY <1>3
    <3>2. JitInside(JitHere) /\ \A i \in DOMAIN positions : JitInside(positions[i]) /\ JitLeq(positions[i], JitHere)
        BY Zenon DEF JitIInv, JitMarks
    <3>3. QED
        BY <1>3, <1>5, <3>1, <3>2, Zenon
  <2>2. \A k, l \in DOMAIN positions' : k <= l => JitLeq(positions'[k], positions'[l])
      BY <1>3, <1>5, <2>1, SMTT(30) DEF JitIInv, JitMarks
  <2>3. QED
      BY <1>0, <1>4, <2>1, <2>2, Zenon DEF JitMarks, JitInside, JitLeq, JitIInv
<1>7. QED
    BY <1>1, <1>2, <1>6 DEF JitIInv

\* What is left of the scope stack after a pop.
LEMMA JitPopStep ==
    ASSUME JitIInv, Jit!sarif_alloc_pop, positions # <<>>
    PROVE  LET top == positions[Len(positions)]
           IN  /\ Len(positions) \in Nat \ {0} /\ Len(positions) \in DOMAIN positions
               /\ positions' = SubSeq(positions, 1, Len(positions) - 1) /\ positions' \in Seq(Jit!ArenaState)
               /\ DOMAIN positions' = 1 .. Len(positions) - 1
               /\ \A k \in 1 .. Len(positions) - 1 : k \in DOMAIN positions /\ positions'[k] = positions[k]
               /\ JitHere' = top /\ jitObjs' = Jit!Before(top) /\ UNCHANGED boxes
<1>1. positions \in Seq(Jit!ArenaState)
    BY DEF JitIInv, JitTypeOK
<1>2. Len(positions) \in Nat \ {0} /\ Len(positions) \in DOMAIN positions /\ DOMAIN positions = 1 .. Len(positions)
    BY <1>1
<1>3. /\ positions' = SubSeq(positions, 1, Len(positions) - 1) /\ UNCHANGED boxes
      /\ jitObjs' = Jit!Before(positions[Len(positions)])
      /\ idx' = positions[Len(positions)].chunk_index /\ offset' = positions[Len(positions)].offset
    BY DEF Jit!sarif_alloc_pop, Jit!pop
<1>4. JitHere' = positions[Len(positions)]
  <2>1. positions[Len(positions)] \in Jit!ArenaState
      BY <1>1, <1>2, SMTT(30)
  <2>2. QED
      BY <1>3, <2>1 DEF JitHere, Jit!ArenaState
<1>5. /\ positions' \in Seq(Jit!ArenaState) /\ DOMAIN positions' = 1 .. Len(positions) - 1
      /\ \A k \in 1 .. Len(positions) - 1 : k \in DOMAIN positions /\ positions'[k] = positions[k]
    BY <1>1, <1>2, <1>3, FirstElements
<1>6. QED
    BY <1>2, <1>3, <1>4, <1>5

\* Closing a scope moves the position back to where it was opened.
LEMMA JitPopIInv ==
    ASSUME JitIInv, Jit!sarif_alloc_pop, positions # <<>>
    PROVE  JitIInv'
<1> DEFINE top == positions[Len(positions)]
<1>0. JitTypeOK
    BY DEF JitIInv
<1>1. /\ Len(positions) \in Nat \ {0} /\ Len(positions) \in DOMAIN positions
      /\ positions' \in Seq(Jit!ArenaState) /\ DOMAIN positions' = 1 .. Len(positions) - 1
      /\ \A k \in 1 .. Len(positions) - 1 : k \in DOMAIN positions /\ positions'[k] = positions[k]
      /\ JitHere' = top /\ jitObjs' = Jit!Before(top) /\ UNCHANGED boxes
    BY JitPopStep, SMTT(30)
<1>2. jitObjs' \subseteq jitObjs
    BY <1>1 DEF Jit!Before
<1>3. JitTypeOK'
    BY <1>0, <1>1, <1>2, SMTT(30) DEF JitTypeOK
<1>4. Jit!Disjoint'
  <2>1. idx' = top.chunk_index /\ offset' = top.offset
      BY <1>1, SMTT(30) DEF JitHere
  <2>2. jitObjs' = Jit!Before([chunk_index |-> idx, offset |-> offset])'
      BY <1>1, <2>1 DEF Jit!Before
  <2>3. QED
      BY <1>1, <1>2, <2>2, SMTT(30) DEF JitIInv, Jit!Disjoint
<1>5. JitNamed'
    BY <1>2, SMTT(30) DEF JitIInv, JitNamed
<1>6. JitMarks'
  <2>1. \A m : JitInside(m)' <=> JitInside(m)
      BY <1>1, SMTT(30) DEF JitInside
  <2>2. \A k \in DOMAIN positions' : JitInside(positions'[k]) /\ JitLeq(positions'[k], top)
      BY <1>1, SMTT(30) DEF JitIInv, JitMarks
  <2>3. \A k, l \in DOMAIN positions' : k <= l => JitLeq(positions'[k], positions'[l])
      BY <1>1, SMTT(30) DEF JitIInv, JitMarks
  <2>4. JitInside(top)
      BY <1>1 DEF JitIInv, JitMarks
  <2>5. QED
      BY <1>1, <2>1, <2>2, <2>3, <2>4, SMTT(30) DEF JitMarks, JitLeq, JitInside
<1>7. QED
    BY <1>3, <1>4, <1>5, <1>6 DEF JitIInv

\* Every step keeps the inductive invariant.
LEMMA JitNextIInv == JitIInv /\ [Jit!Next]_Jit!vars => JitIInv'
<1> SUFFICES ASSUME JitIInv, [Jit!Next]_Jit!vars PROVE JitIInv'
    OBVIOUS
<1>1. CASE UNCHANGED Jit!vars
    BY <1>1, Zenon DEF Jit!vars, JitIInv, JitTypeOK, Jit!Disjoint, JitNamed, JitMarks, JitInside, JitLeq, JitHere, Jit!Before
<1>2. ASSUME NEW o \in Object, NEW size \in JitSize, Jit!sarif_record_alloc(o, size) PROVE JitIInv'
    BY <1>2, JitAlignGrows, JitAssumption, NestingAssumption, JitBumpIInv, JitChunkIInv DEF Jit!sarif_record_alloc
<1>3. CASE Jit!sarif_alloc_pop
    BY <1>1, <1>3, JitPopIInv DEF Jit!sarif_alloc_pop
<1>4. QED
    BY <1>1, <1>2, <1>3, JitPushIInv DEF Jit!Next

\* Hence it always holds.
LEMMA JitInvariance == Jit!Spec => []JitIInv
BY JitInitIInv, JitNextIInv, PTL DEF Jit!Spec

\* The next allocation of the JIT's arena overwrites nothing the program holds.
THEOREM JitMemorySafety == Jit!Spec => []Jit!Disjoint
<1>1. JitIInv => Jit!Disjoint
    BY DEF JitIInv
<1>2. QED
    BY <1>1, JitInvariance, PTL

\* What starts at or behind a position does not end before it.
LEMMA JitBehind ==
    ASSUME NEW i \in Nat, NEW u \in Nat, NEW c \in Nat, NEW off \in Nat, NEW n \in Nat, n > 0,
           i < c \/ (i = c /\ u <= off)
    PROVE  ~(c < i) /\ ~(c = i /\ off + n <= u)
OBVIOUS

\* The start of the next box is behind every position up to the current one.
LEMMA JitNextBox ==
    ASSUME NEW m, m.chunk_index \in Nat, m.offset \in Nat, idx \in Nat, JitLeq(m, JitHere)
    PROVE  JitLeq(m, [chunk_index |-> idx + 1, offset |-> 0])
BY DEF JitLeq, JitHere

\* A new object lies behind every open scope, so it adds to none of them.
LEMMA JitAllocBefore ==
    ASSUME JitIInv, NEW o \in Object, NEW n \in Nat, n > 0,
           Jit!AllocBump(o, n) \/ Jit!AllocChunk(o, n)
    PROVE  /\ UNCHANGED positions
           /\ \E p : p.id = o /\ jitObjs' = jitObjs \cup {p}
           /\ \A k \in DOMAIN positions : Jit!Before(positions[k])' = Jit!Before(positions[k])
<1>0. JitTypeOK
    BY DEF JitIInv
<1>1. ASSUME NEW c \in Nat, NEW off \in Nat, UNCHANGED positions,
             jitObjs' = jitObjs \cup {[id |-> o, chunk |-> c, off |-> off, size |-> n]},
             \A k \in DOMAIN positions : JitLeq(positions[k], [chunk_index |-> c, offset |-> off])
      PROVE  /\ UNCHANGED positions
             /\ \E p : p.id = o /\ jitObjs' = jitObjs \cup {p}
             /\ \A k \in DOMAIN positions : Jit!Before(positions[k])' = Jit!Before(positions[k])
  <2>1. PICK p : p = [id |-> o, chunk |-> c, off |-> off, size |-> n]
      BY Zenon
  <2>2. p.id = o /\ p.chunk = c /\ p.off = off /\ p.size = n
      BY <2>1
  <2>3. jitObjs' = jitObjs \cup {p}
      BY <1>1, <2>1, Zenon
  <2>4. ASSUME NEW k \in DOMAIN positions PROVE Jit!Before(positions[k])' = Jit!Before(positions[k])
    <3>1. positions[k].chunk_index \in Nat /\ positions[k].offset \in Nat
        BY <1>0, JitNumbers, Zenon
    <3>2. positions[k].chunk_index < c \/ (positions[k].chunk_index = c /\ positions[k].offset <= off)
        BY <1>1, Zenon DEF JitLeq
    <3>3. ~(p.chunk < positions[k].chunk_index)
          /\ ~(p.chunk = positions[k].chunk_index /\ p.off + p.size <= positions[k].offset)
        BY <2>2, <3>1, <3>2, JitBehind, Zenon
    <3>4. QED
        BY <1>1, <2>3, <3>3, Zenon DEF Jit!Before
  <2>5. QED
      BY <1>1, <2>2, <2>3, <2>4, Zenon
<1>2. CASE Jit!AllocBump(o, n)
  <2>1. /\ UNCHANGED positions
        /\ jitObjs' = jitObjs \cup {[id |-> o, chunk |-> idx, off |-> offset, size |-> n]}
      BY <1>2 DEF Jit!AllocBump
  <2>2. \A k \in DOMAIN positions : JitLeq(positions[k], [chunk_index |-> idx, offset |-> offset])
      BY Zenon DEF JitIInv, JitMarks, JitHere
  <2>3. QED
      BY <1>0, <1>1, <2>1, <2>2, JitNumbers, Zenon
<1>3. CASE Jit!AllocChunk(o, n)
  <2>1. PICK last \in Nat :
           /\ boxes = <<>> => last = 0
           /\ boxes # <<>> => last = idx + 1
           /\ jitObjs' = jitObjs \cup {[id |-> o, chunk |-> last, off |-> 0, size |-> n]}
           /\ UNCHANGED positions
      BY <1>3, JitChunkStep, SMTT(30)
  <2>2. ASSUME NEW k \in DOMAIN positions
        PROVE  JitLeq(positions[k], [chunk_index |-> last, offset |-> 0])
    <3>1. /\ positions[k].chunk_index \in Nat /\ positions[k].offset \in Nat
          /\ idx \in Nat /\ Len(boxes) \in Nat
        BY <1>0, JitNumbers, SMTT(30)
    <3>2. JitInside(positions[k]) /\ JitLeq(positions[k], JitHere)
        BY SMTT(30) DEF JitIInv, JitMarks
    <3>3. CASE boxes = <<>>
      <4>1. positions[k].chunk_index = 0 /\ positions[k].offset = 0
          BY <3>1, <3>2, <3>3 DEF JitInside
      <4>2. QED
          BY <2>1, <3>3, <4>1, SMTT(30) DEF JitLeq
    <3>4. CASE boxes # <<>>
        BY <2>1, <3>1, <3>2, <3>4, JitNextBox, ZenonT(40)
    <3>5. QED
        BY <3>3, <3>4
  <2>3. QED
      BY <1>1, <2>1, <2>2, SMTT(30)
<1>4. QED
    BY <1>2, <1>3

\* What an enclosing scope protects survives the pop of the scope inside it.
LEMMA JitPopBefore ==
    ASSUME JitIInv, Jit!sarif_alloc_pop, positions # <<>>
    PROVE  \A k \in 1 .. Len(positions) - 1 : Jit!Before(positions[k])' = Jit!Before(positions[k])
<1> DEFINE top == positions[Len(positions)]
<1>0. JitTypeOK
    BY DEF JitIInv
<1>1. /\ Len(positions) \in Nat \ {0} /\ Len(positions) \in DOMAIN positions
      /\ \A k \in 1 .. Len(positions) - 1 : k \in DOMAIN positions /\ positions'[k] = positions[k]
      /\ jitObjs' = Jit!Before(top)
    BY JitPopStep
<1> SUFFICES ASSUME NEW k \in 1 .. Len(positions) - 1
             PROVE  Jit!Before(positions[k])' = Jit!Before(positions[k])
    OBVIOUS
<1>2. k \in DOMAIN positions /\ positions'[k] = positions[k] /\ k <= Len(positions)
    BY <1>1, SMTT(30)
<1>3. JitLeq(positions[k], top)
    BY <1>1, <1>2, SMTT(30) DEF JitIInv, JitMarks
<1>4. Jit!Before(positions[k]) \subseteq Jit!Before(top)
  <2> SUFFICES ASSUME NEW p \in jitObjs,
                      \/ p.chunk < positions[k].chunk_index
                      \/ p.chunk = positions[k].chunk_index /\ p.off + p.size <= positions[k].offset
               PROVE  \/ p.chunk < top.chunk_index
                      \/ p.chunk = top.chunk_index /\ p.off + p.size <= top.offset
      BY DEF Jit!Before
  <2>1. /\ positions[k].chunk_index \in Nat /\ positions[k].offset \in Nat
        /\ top.chunk_index \in Nat /\ top.offset \in Nat
        /\ p.chunk \in Nat /\ p.off \in Nat /\ p.size \in Nat
      BY <1>0, <1>1, <1>2, JitNumbers, SMTT(30)
  <2>2. QED
      BY <1>3, <2>1, SMTT(30) DEF JitLeq
<1>5. QED
    BY <1>1, <1>2, <1>4, SMTT(30) DEF Jit!Before

\* What the scopes of the stack protect, as AllocScopes sees it.
JitProtected == [i \in DOMAIN positions |-> Jit!Ids(Jit!Before(positions[i]))]

\* The empty arena holds no object and has no open scope.
LEMMA JitRefineInit == Jit!Init => Jit!Scopes!Init
<1> SUFFICES ASSUME Jit!Init PROVE Jit!Scopes!Init
    OBVIOUS
<1>1. Jit!Ids(jitObjs) = {}
    BY DEF Jit!Init, Jit!Ids
<1>2. JitProtected = <<>>
    BY SMTT(30) DEF Jit!Init, JitProtected
<1>3. QED
    BY <1>1, <1>2, SMTT(30) DEF Jit!Scopes!Init, JitProtected

\* An allocation is the abstract one, in the current box or in a new one.
LEMMA JitRefineAlloc ==
    ASSUME JitIInv, NEW o \in Object, NEW n \in Nat, n > 0,
           \A p \in jitObjs : p.id # o, Jit!AllocBump(o, n) \/ Jit!AllocChunk(o, n)
    PROVE  Jit!Scopes!Alloc(o)
<1>1. /\ UNCHANGED positions
      /\ \E p : p.id = o /\ jitObjs' = jitObjs \cup {p}
      /\ \A k \in DOMAIN positions : Jit!Before(positions[k])' = Jit!Before(positions[k])
    BY JitAllocBefore
<1>2. Jit!Ids(jitObjs') = Jit!Ids(jitObjs) \cup {o} /\ o \notin Jit!Ids(jitObjs)
  <2>1. PICK p : p.id = o /\ jitObjs' = jitObjs \cup {p}
      BY <1>1
  <2>2. QED
      BY <2>1 DEF Jit!Ids
<1>3. JitProtected' = JitProtected
  <2>1. \A k \in DOMAIN positions : Jit!Ids(Jit!Before(positions[k]))' = Jit!Ids(Jit!Before(positions[k]))
      BY <1>1 DEF Jit!Ids
  <2>2. QED
      BY <1>1, <2>1, SMTT(30) DEF JitProtected
<1>4. QED
    BY <1>2, <1>3, SMTT(30) DEF Jit!Scopes!Alloc, Jit!Ids, JitProtected

\* Opening a scope is the abstract Push: every object lies before its position.
LEMMA JitRefinePush ==
    ASSUME JitIInv, Jit!sarif_alloc_push
    PROVE  Jit!Scopes!Push
<1>1. positions' = Append(positions, JitHere) /\ UNCHANGED <<boxes, idx, offset, jitObjs>>
    BY DEF Jit!sarif_alloc_push, JitHere
<1>2. positions \in Seq(Jit!ArenaState) /\ JitHere \in Jit!ArenaState
    BY SMTT(30) DEF JitIInv, JitTypeOK
<1>3. /\ Len(positions) \in Nat /\ DOMAIN positions = 1 .. Len(positions)
      /\ DOMAIN positions' = 1 .. Len(positions) + 1
      /\ positions'[Len(positions) + 1] = JitHere
      /\ \A k \in DOMAIN positions : positions'[k] = positions[k]
    BY <1>1, <1>2
<1>4. \A m : Jit!Before(m)' = Jit!Before(m)
    BY <1>1 DEF Jit!Before
<1>5. JitProtected' = [i \in 1 .. Len(positions) + 1 |-> Jit!Ids(Jit!Before(positions'[i]))]
  <2>1. JitProtected' = [i \in DOMAIN positions' |-> Jit!Ids(Jit!Before(positions[i])')]
      BY DEF JitProtected, Jit!Ids
  <2>2. QED
      BY <1>3, <1>4, <2>1, Zenon DEF Jit!Before
<1>6. JitProtected = [i \in 1 .. Len(positions) |-> Jit!Ids(Jit!Before(positions[i]))]
    BY <1>3, SMTT(30) DEF JitProtected
<1>7. Jit!Ids(Jit!Before(JitHere)) = Jit!Ids(jitObjs)
    BY SMTT(30) DEF JitIInv, Jit!Disjoint, JitHere
<1>8. JitProtected' = Append(JitProtected, Jit!Ids(jitObjs))
    BY <1>3, <1>5, <1>6, <1>7
<1>9. QED
    BY <1>1, <1>8, Zenon DEF Jit!Scopes!Push, Jit!Ids, JitProtected

\* Closing a scope is the abstract Pop.
LEMMA JitRefinePop ==
    ASSUME JitIInv, Jit!sarif_alloc_pop, positions # <<>>
    PROVE  Jit!Scopes!Pop
<1>1. /\ Len(positions) \in Nat \ {0}
      /\ DOMAIN positions' = 1 .. Len(positions) - 1
      /\ jitObjs' = Jit!Before(positions[Len(positions)])
    BY JitPopStep
<1>2. DOMAIN positions = 1 .. Len(positions)
    BY JitNumbers DEF JitIInv
<1>3. \A k \in 1 .. Len(positions) - 1 : Jit!Before(positions[k])' = Jit!Before(positions[k])
    BY JitPopBefore
<1>4. JitProtected' = [i \in 1 .. Len(positions) - 1 |-> Jit!Ids(Jit!Before(positions[i]))]
  <2>1. JitProtected' = [i \in DOMAIN positions' |-> Jit!Ids(Jit!Before(positions[i])')]
      BY DEF JitProtected, Jit!Ids
  <2>2. QED
      BY <1>1, <1>3, <2>1, SMTT(30)
<1>5. JitProtected = [i \in 1 .. Len(positions) |-> Jit!Ids(Jit!Before(positions[i]))]
    BY <1>2 DEF JitProtected
<1>6. /\ JitProtected' = SubSeq(JitProtected, 1, Len(JitProtected) - 1)
      /\ JitProtected # <<>> /\ Len(JitProtected) = Len(positions)
  <2>1. /\ JitProtected \in Seq(SUBSET {p.id : p \in jitObjs})
        /\ Len(JitProtected) = Len(positions) /\ JitProtected # <<>>
      BY <1>1, <1>5 DEF Jit!Ids, Jit!Before
  <2>2. QED
      BY <1>1, <1>4, <1>5, <2>1, SMTT(30)
<1>7. Jit!Ids(jitObjs') = JitProtected[Len(JitProtected)]
    BY <1>1, <1>5, <1>6
<1>8. QED
    BY <1>6, <1>7, Zenon DEF Jit!Scopes!Pop, Jit!Ids, JitProtected

\* The JIT's arena implements nested allocation scopes, for any sizes, any chunk
\* size and any depth: closing a scope gives back what was allocated in it and
\* nothing older, although its boxes stay in the vector until a later allocation.
THEOREM JitScopesRefined == Jit!Spec => Jit!ScopesSpec
<1>1. Jit!Init => Jit!Scopes!Init
    BY JitRefineInit
<1>2. JitIInv /\ [Jit!Next]_Jit!vars => [Jit!Scopes!Next]_Jit!Scopes!vars
  <2> SUFFICES ASSUME JitIInv, [Jit!Next]_Jit!vars PROVE [Jit!Scopes!Next]_Jit!Scopes!vars
      BY SMTT(30)
  <2>1. CASE UNCHANGED Jit!vars
      BY <2>1 DEF Jit!vars, Jit!Scopes!vars, Jit!Before, Jit!Ids
  <2>2. ASSUME NEW o \in Object, NEW size \in JitSize, Jit!sarif_record_alloc(o, size)
        PROVE  Jit!Scopes!Next
    <3>1. Jit!Scopes!Alloc(o)
        BY <2>2, JitAlignGrows, JitAssumption, NestingAssumption, JitRefineAlloc DEF Jit!sarif_record_alloc
    <3>2. QED
        BY <3>1 DEF Jit!Scopes!Next
  <2>3. CASE Jit!sarif_alloc_push
      BY <2>3, JitRefinePush DEF Jit!Scopes!Next
  <2>4. CASE Jit!sarif_alloc_pop
    <3>1. CASE positions # <<>>
        BY <2>4, <3>1, JitRefinePop DEF Jit!Scopes!Next
    <3>2. CASE positions = <<>>
        BY <2>1, <2>4, <3>2 DEF Jit!sarif_alloc_pop
    <3>3. QED
        BY <3>1, <3>2
  <2>5. QED
      BY <2>1, <2>2, <2>3, <2>4 DEF Jit!Next
<1>3. QED
    BY <1>1, <1>2, JitInvariance, PTL DEF Jit!Spec, Jit!ScopesSpec, Jit!Scopes!Spec

-----------------------------------------------------------------------------
(* What the Wasm arena needs in order to implement the nested scopes of    *)
(* AllocScopes, for every set of objects and sizes and every stack depth:  *)
(* the heap starts behind the words of the scope stack, and no address the *)
(* arena computes leaves the 32-bit range.                                 *)

CONSTANTS WasmSize, HeapBase, StackDepth, Word, Page, MaxPages, Junk
ASSUME WasmAssumption ==
    /\ WasmSize \subseteq Nat /\ Junk \subseteq Nat
    /\ HeapBase \in Nat /\ StackDepth \in Nat /\ MaxPages \in Nat
    /\ Word \in Nat \ {0} /\ Page \in Nat \ {0}

VARIABLES heap_ptr, depth, saved, pages, wasmObjs, lost, trapped

Wasm == INSTANCE WasmArena WITH Size <- WasmSize, objs <- wasmObjs

\* The heap starts behind the scope stack, and memory ends before addresses wrap.
Roomy ==
    /\ HeapBase \in Nat /\ StackDepth \in Nat /\ MaxPages \in Nat \ {0}
    /\ Word \in Nat \ {0} /\ Page \in Nat \ {0}
    /\ WasmSize \subseteq Nat /\ Junk \subseteq Nat
    /\ 4 * StackDepth <= HeapBase
    /\ \A size \in WasmSize : HeapBase + 7 + size < Word /\ MaxPages * Page + 7 + size < Word

WasmMem == pages * Page

WasmTypeOK ==
    /\ heap_ptr \in Nat
    /\ depth \in 0 .. StackDepth
    /\ saved \in [0 .. StackDepth - 1 -> Nat]
    /\ pages \in 1 .. MaxPages
    /\ wasmObjs \subseteq [id : Object, at : Nat, size : Nat \ {0}]

\* The bump pointer is in memory, or where it started.
WasmBumped == HeapBase <= heap_ptr /\ (heap_ptr = HeapBase \/ heap_ptr <= MaxPages * Page)

\* No object lies on the scope stack, and objects have names of their own.
WasmClear ==
    /\ lost = {}
    /\ \A p \in wasmObjs : HeapBase <= p.at
    /\ \A p, q \in wasmObjs : p.id = q.id => p = q

\* The saved pointers come in the order the scopes were opened.
WasmMarks ==
    /\ \A k \in 0 .. depth - 1 : HeapBase <= saved[k] /\ saved[k] <= heap_ptr
    /\ \A k \in 0 .. depth - 1 : saved[k] = HeapBase \/ saved[k] <= MaxPages * Page
    /\ \A k, l \in 0 .. depth - 1 : k <= l => saved[k] <= saved[l]

\* The inductive invariant.
WasmIInv == WasmTypeOK /\ WasmBumped /\ WasmClear /\ WasmMarks /\ Wasm!Disjoint

\* Products of natural numbers grow with their factors.
LEMMA MulMono ==
    ASSUME NEW a \in Nat, NEW b \in Nat, NEW c \in Nat, a <= b
    PROVE  a * c <= b * c /\ a * c \in Nat /\ (a + b) * c = a * c + b * c
OBVIOUS

\* An i32 operation that does not wrap.
LEMMA ModSmall ==
    ASSUME NEW w \in Nat, NEW x \in Nat, x < w
    PROVE  x % w = x
OBVIOUS

\* The pages the arena asks for hold the bytes it lacks.
LEMMA CeilDiv ==
    ASSUME NEW p \in Nat \ {0}, NEW d \in Nat
    PROVE  (d + (p - 1)) \div p \in Nat /\ d <= ((d + (p - 1)) \div p) * p
OBVIOUS

\* Rounding the bump pointer up to a multiple of eight.
LEMMA AlignUp ==
    ASSUME NEW h \in Nat
    PROVE  Wasm!Align(h + 7) \in Nat /\ h <= Wasm!Align(h + 7) /\ Wasm!Align(h + 7) <= h + 7
BY DEF Wasm!Align

\* The numbers behind the types.
LEMMA WasmNumbers ==
    ASSUME Roomy, WasmTypeOK
    PROVE  /\ heap_ptr \in Nat /\ depth \in Nat /\ depth <= StackDepth /\ StackDepth \in Nat
           /\ HeapBase \in Nat /\ 4 * StackDepth <= HeapBase
           /\ \A k \in 0 .. depth - 1 : k \in DOMAIN saved /\ saved[k] \in Nat
           /\ \A p \in wasmObjs : p.at \in Nat /\ p.size \in Nat /\ p.size > 0
           /\ pages \in Nat /\ 1 <= pages /\ pages <= MaxPages
<1>1. /\ heap_ptr \in Nat /\ depth \in Nat /\ depth <= StackDepth /\ StackDepth \in Nat
      /\ HeapBase \in Nat /\ 4 * StackDepth <= HeapBase
      /\ pages \in Nat /\ 1 <= pages /\ pages <= MaxPages
    BY DEF Roomy, WasmTypeOK
<1>2. \A k \in 0 .. depth - 1 : k \in DOMAIN saved /\ saved[k] \in Nat
    BY <1>1 DEF WasmTypeOK
<1>3. \A p \in wasmObjs : p.at \in Nat /\ p.size \in Nat /\ p.size > 0
    BY DEF WasmTypeOK
<1>4. QED
    BY <1>1, <1>2, <1>3, SMTT(30)

\* No object shares a byte with a word of the scope stack.
LEMMA OffTheStack ==
    ASSUME Roomy, WasmTypeOK, WasmClear, NEW p \in wasmObjs, NEW k \in 0 .. StackDepth - 1
    PROVE  ~Wasm!Shares(p, k)
<1>1. k \in Nat /\ k + 1 <= StackDepth /\ p.at \in Nat /\ HeapBase <= p.at
    BY WasmNumbers DEF WasmClear
<1>2. QED
    BY <1>1, WasmNumbers, SMTT(30) DEF Wasm!Shares

\* The empty arena.
LEMMA WasmInitIInv == Roomy /\ Wasm!Init => WasmIInv
<1> SUFFICES ASSUME Roomy, Wasm!Init PROVE WasmIInv
    OBVIOUS
<1>1. WasmTypeOK
    BY SMTT(30) DEF Roomy, Wasm!Init, WasmTypeOK
<1>2. WasmBumped /\ WasmClear /\ WasmMarks /\ Wasm!Disjoint
    BY SMTT(30) DEF Roomy, Wasm!Init, WasmBumped, WasmClear, WasmMarks, Wasm!Disjoint
<1>3. QED
    BY <1>1, <1>2 DEF WasmIInv

\* What an allocation that does not trap does, free of i32 arithmetic.
LEMMA WasmAllocStep ==
    ASSUME Roomy, WasmIInv, NEW o \in Object, NEW size \in WasmSize, Wasm!alloc(o, size), ~Wasm!Trap
    PROVE  \E ptr \in Nat :
              /\ heap_ptr <= ptr /\ heap_ptr' = ptr + size
              /\ wasmObjs' = wasmObjs \cup Wasm!Placed(o, ptr, size)
              /\ pages' \in Nat /\ pages <= pages' /\ pages' <= MaxPages
              /\ ptr + size <= pages' * Page
              /\ lost' = {} /\ UNCHANGED <<depth, saved, trapped>>
<1> DEFINE ptr == Wasm!Align((heap_ptr + 7) % Word)
           end == (ptr + size) % Word
<1>0. WasmTypeOK
    BY DEF WasmIInv
<1>1. /\ size \in Nat /\ Word \in Nat \ {0} /\ Page \in Nat \ {0} /\ MaxPages \in Nat
      /\ HeapBase + 7 + size < Word /\ MaxPages * Page + 7 + size < Word
    BY DEF Roomy
<1>2. MaxPages * Page \in Nat /\ WasmMem \in Nat /\ Page <= WasmMem /\ WasmMem <= MaxPages * Page
  <2>1. pages * Page <= MaxPages * Page /\ pages * Page \in Nat
      BY <1>0, <1>1, WasmNumbers, MulMono, SMTT(30)
  <2>2. 1 * Page <= pages * Page
      BY <1>0, <1>1, WasmNumbers, MulMono, SMTT(30)
  <2>3. MaxPages * Page \in Nat
      BY <1>1, SMTT(30)
  <2>4. QED
      BY <1>1, <2>1, <2>2, <2>3, SMTT(30) DEF WasmMem
<1>3. heap_ptr \in Nat /\ heap_ptr + 7 + size < Word
    BY <1>0, <1>1, <1>2, WasmNumbers, SMTT(30) DEF WasmIInv, WasmBumped
<1>4. ptr \in Nat /\ heap_ptr <= ptr /\ ptr <= heap_ptr + 7
  <2>1. (heap_ptr + 7) % Word = heap_ptr + 7
      BY <1>1, <1>3, ModSmall, SMTT(30)
  <2>2. QED
      BY <1>3, <2>1, AlignUp, Zenon
<1>5. end = ptr + size /\ end \in Nat /\ end < Word
  <2>1. ptr + size \in Nat /\ ptr + size < Word
      BY <1>1, <1>3, <1>4, SMTT(30)
  <2>2. QED
      BY <1>1, <2>1, ModSmall, SMTT(30)
<1>6. Wasm!MemoryEnd = WasmMem
    BY <1>1, <1>2, ModSmall, SMTT(30) DEF Wasm!MemoryEnd, WasmMem
<1>7. Wasm!Grow(end) \in Nat /\ pages <= Wasm!Grow(end) /\ end <= Wasm!Grow(end) * Page
  <2>1. CASE end > WasmMem
    <3> DEFINE d == end - WasmMem
               k == (d + (Page - 1)) \div Page
    <3>1. d \in Nat /\ d < Word /\ d + (Page - 1) \in Nat /\ d + (Page - 1) < Word
        BY <1>1, <1>2, <1>5, <2>1, SMTT(30)
    <3>2. d % Word = d /\ (d + (Page - 1)) % Word = d + (Page - 1)
        BY <1>1, <3>1, ModSmall, SMTT(30)
    <3>3. Wasm!PagesFor(end) = k
        BY <1>6, <3>2, SMTT(30) DEF Wasm!PagesFor
    <3>4. k \in Nat /\ d <= k * Page
        BY <1>1, <3>1, CeilDiv, SMTT(30)
    <3>5. Wasm!Grow(end) = pages + k
        BY <1>6, <2>1, <3>3, SMTT(30) DEF Wasm!Grow
    <3>6. pages \in Nat
        BY <1>0, WasmNumbers, SMTT(30)
    <3> HIDE DEF d, k
    <3>7. (pages + k) * Page = WasmMem + k * Page /\ k * Page \in Nat
        BY <1>1, <3>4, <3>6, SMTT(30) DEF WasmMem
    <3>8. d = end - WasmMem
        BY SMTT(30) DEF d
    <3>9. end <= WasmMem + k * Page
        BY <1>2, <1>5, <3>4, <3>7, <3>8, SMTT(30)
    <3>10. QED
        BY <3>4, <3>5, <3>6, <3>7, <3>9, SMTT(30)
  <2>2. CASE ~(end > WasmMem)
    <3>1. Wasm!Grow(end) = pages
        BY <1>6, <2>2, SMTT(30) DEF Wasm!Grow
    <3>2. QED
        BY <1>0, <1>2, <1>5, <2>2, <3>1, WasmNumbers, SMTT(30) DEF WasmMem
  <2>3. QED
      BY <2>1, <2>2, SMTT(30)
<1>8. /\ Wasm!Grow(end) <= MaxPages /\ pages' = Wasm!Grow(end) /\ heap_ptr' = end
      /\ wasmObjs' = wasmObjs \cup Wasm!Placed(o, ptr, size)
      /\ lost' = lost \ {o} /\ UNCHANGED <<depth, saved, trapped>>
  <2>1. ~(Wasm!Grow(end) > MaxPages)
      BY SMTT(30) DEF Wasm!alloc
  <2>2. QED
      BY <1>1, <1>7, <2>1, SMTT(30) DEF Wasm!alloc
<1>9. lost' = {}
    BY <1>8, SMTT(30) DEF WasmIInv, WasmClear
<1> HIDE DEF ptr, end
<1>10. QED
    BY <1>4, <1>5, <1>7, <1>8, <1>9, SMTT(30)

\* A step that leaves the arena alone.
LEMMA WasmQuietIInv ==
    ASSUME WasmIInv, UNCHANGED <<heap_ptr, depth, saved, pages, wasmObjs, lost>>
    PROVE  WasmIInv'
BY DEF WasmIInv, WasmTypeOK, WasmBumped, WasmClear, WasmMarks, Wasm!Disjoint

\* A new object lies at the bump pointer or behind it.
LEMMA WasmAllocIInv ==
    ASSUME Roomy, WasmIInv, NEW o \in Object, NEW size \in WasmSize, Wasm!alloc(o, size)
    PROVE  WasmIInv'
<1>1. CASE Wasm!Trap
    BY <1>1, WasmQuietIInv, SMTT(30) DEF Wasm!Trap
<1>2. CASE ~Wasm!Trap
  <2>0. WasmTypeOK /\ \A p \in wasmObjs : p.id # o
      BY SMTT(30) DEF WasmIInv, Wasm!alloc
  <2>1. PICK ptr \in Nat :
           /\ heap_ptr <= ptr /\ heap_ptr' = ptr + size
           /\ wasmObjs' = wasmObjs \cup Wasm!Placed(o, ptr, size)
           /\ pages' \in Nat /\ pages <= pages' /\ pages' <= MaxPages
           /\ ptr + size <= pages' * Page
           /\ lost' = {} /\ UNCHANGED <<depth, saved, trapped>>
      BY <1>2, WasmAllocStep, SMTT(30)
  <2>2. /\ size \in Nat /\ Page \in Nat /\ MaxPages \in Nat /\ HeapBase \in Nat
        /\ heap_ptr \in Nat /\ pages \in Nat /\ 1 <= pages
      BY <2>0, WasmNumbers, SMTT(30) DEF Roomy
  <2>3. \A p \in wasmObjs' \ wasmObjs : p = [id |-> o, at |-> ptr, size |-> size] /\ size > 0
      BY <2>1, <2>2, SMTT(30) DEF Wasm!Placed
  <2>4. WasmTypeOK'
    <3>1. wasmObjs' \subseteq [id : Object, at : Nat, size : Nat \ {0}]
        BY <2>0, <2>2, <2>3, SMTT(30) DEF WasmTypeOK
    <3>2. QED
        BY <2>0, <2>1, <2>2, <3>1, SMTT(30) DEF WasmTypeOK
  <2> DEFINE old == pages * Page
             new == pages' * Page
             all == MaxPages * Page
  <2>5. /\ old \in Nat /\ new \in Nat /\ all \in Nat /\ old <= new /\ new <= all
        /\ heap_ptr' <= new
    <3>1. old <= new /\ old \in Nat
        BY <2>1, <2>2, MulMono, Zenon
    <3>2. new <= all /\ new \in Nat
        BY <2>1, <2>2, MulMono, Zenon
    <3>3. all \in Nat
        BY <2>2
    <3>4. QED
        BY <2>1, <3>1, <3>2, <3>3, SMTT(30)
  <2>6. WasmBumped'
    <3>1. HeapBase <= heap_ptr'
        BY <2>1, <2>2, SMTT(30) DEF WasmIInv, WasmBumped
    <3>2. heap_ptr' \in Nat
        BY <2>4 DEF WasmTypeOK
    <3> HIDE DEF old, new, all
    <3>3. heap_ptr' <= all
        BY <2>5, <3>2, SMTT(30)
    <3>4. QED
        BY <3>1, <3>3, SMTT(30) DEF WasmBumped, all
  <2>7. WasmClear'
    <3>1. \A p \in wasmObjs' : HeapBase <= p.at
        BY <2>1, <2>2, <2>3, SMTT(30) DEF WasmIInv, WasmBumped, WasmClear
    <3>2. \A p, q \in wasmObjs' : p.id = q.id => p = q
        BY <2>0, <2>3, SMTT(30) DEF WasmIInv, WasmClear
    <3>3. QED
        BY <2>1, <3>1, <3>2, SMTT(30) DEF WasmClear
  <2>8. WasmMarks'
    <3>1. \A k \in 0 .. depth - 1 : saved[k] <= heap_ptr'
        BY <2>0, <2>1, <2>2, WasmNumbers, SMTT(30) DEF WasmIInv, WasmMarks
    <3>2. QED
        BY <2>1, <3>1, SMTT(30) DEF WasmIInv, WasmMarks
  <2>9. Wasm!Disjoint'
    <3>1. \A p \in wasmObjs : /\ p.at \in Nat /\ p.size \in Nat
                          /\ p.at + p.size <= pages * Page /\ p.at + p.size <= heap_ptr
        BY <2>0, WasmNumbers, SMTT(30) DEF WasmIInv, Wasm!Disjoint
    <3>2. \A p \in wasmObjs' : p.at + p.size <= pages' * Page /\ p.at + p.size <= heap_ptr'
      <4>1. ASSUME NEW p \in wasmObjs
            PROVE  p.at + p.size <= new /\ p.at + p.size <= heap_ptr'
        <5>1. p.at + p.size \in Nat /\ p.at + p.size <= old /\ p.at + p.size <= heap_ptr
            BY <3>1, SMTT(30)
        <5> HIDE DEF old, new, all
        <5>2. QED
            BY <2>1, <2>2, <2>5, <5>1, SMTT(30)
      <4>2. QED
          BY <2>1, <2>3, <4>1, SMTT(30)
    <3>3. \A p, q \in wasmObjs' : p = q \/ p.at + p.size <= q.at \/ q.at + q.size <= p.at
      <4>1. \A p \in wasmObjs : p.at + p.size <= ptr
          BY <2>1, <2>2, <3>1, SMTT(30)
      <4>2. \A p, q \in wasmObjs : p = q \/ p.at + p.size <= q.at \/ q.at + q.size <= p.at
          BY SMTT(30) DEF WasmIInv, Wasm!Disjoint
      <4>3. QED
          BY <2>3, <4>1, <4>2, SMTT(30)
    <3>4. QED
        BY <3>2, <3>3, SMTT(30) DEF Wasm!Disjoint
  <2>10. QED
      BY <2>4, <2>6, <2>7, <2>8, <2>9, SMTT(30) DEF WasmIInv
<1>3. QED
    BY <1>1, <1>2, SMTT(30)

\* Opening a scope saves the bump pointer under no object.
LEMMA WasmPushStep ==
    ASSUME Roomy, WasmIInv, Wasm!sarif_alloc_push, ~Wasm!Trap
    PROVE  /\ depth < StackDepth /\ depth' = depth + 1
           /\ saved' = [saved EXCEPT ![depth] = heap_ptr]
           /\ lost' = {} /\ UNCHANGED <<heap_ptr, pages, wasmObjs, trapped>>
<1>0. WasmTypeOK /\ WasmClear
    BY SMTT(30) DEF WasmIInv
<1>1. /\ ~(depth >= StackDepth) /\ depth' = depth + 1
      /\ saved' = [saved EXCEPT ![depth] = heap_ptr]
      /\ lost' = lost \cup {p.id : p \in {q \in wasmObjs : Wasm!Shares(q, depth)}}
      /\ UNCHANGED <<heap_ptr, pages, wasmObjs, trapped>>
    BY SMTT(30) DEF Wasm!sarif_alloc_push
<1>2. depth < StackDepth /\ depth \in 0 .. StackDepth - 1
    BY <1>0, <1>1, WasmNumbers, SMTT(30)
<1>3. {q \in wasmObjs : Wasm!Shares(q, depth)} = {}
    BY <1>0, <1>2, OffTheStack, SMTT(30)
<1>4. QED
    BY <1>0, <1>1, <1>2, <1>3, Zenon DEF WasmClear

\* Opening a scope keeps the saved pointers in order.
LEMMA WasmPushIInv ==
    ASSUME Roomy, WasmIInv, Wasm!sarif_alloc_push
    PROVE  WasmIInv'
<1>1. CASE Wasm!Trap
    BY <1>1, WasmQuietIInv, SMTT(30) DEF Wasm!Trap
<1>2. CASE ~Wasm!Trap
  <2>0. WasmTypeOK
      BY DEF WasmIInv
  <2>1. /\ depth < StackDepth /\ depth' = depth + 1
        /\ saved' = [saved EXCEPT ![depth] = heap_ptr]
        /\ lost' = {} /\ UNCHANGED <<heap_ptr, pages, wasmObjs, trapped>>
      BY <1>2, WasmPushStep, SMTT(30)
  <2>2. WasmTypeOK'
      BY <2>0, <2>1, WasmNumbers, SMTT(30) DEF WasmTypeOK
  <2>3. WasmBumped' /\ WasmClear' /\ Wasm!Disjoint'
      BY <2>1, SMTT(30) DEF WasmIInv, WasmBumped, WasmClear, Wasm!Disjoint
  <2>4. /\ depth \in Nat /\ saved'[depth] = heap_ptr
        /\ \A k \in 0 .. depth - 1 : saved'[k] = saved[k]
      BY <2>0, <2>1, WasmNumbers, SMTT(30) DEF WasmTypeOK
  <2>5. WasmMarks'
    <3>1. \A k \in 0 .. depth' - 1 : k = depth \/ k \in 0 .. depth - 1
        BY <2>1, <2>4, SMTT(30)
    <3>2. \A k \in 0 .. depth' - 1 : HeapBase <= saved'[k] /\ saved'[k] <= heap_ptr
        BY <2>0, <2>4, <3>1, WasmNumbers, SMTT(30) DEF WasmIInv, WasmMarks, WasmBumped
    <3>3. \A k \in 0 .. depth' - 1 : saved'[k] = HeapBase \/ saved'[k] <= MaxPages * Page
        BY <2>4, <3>1, SMTT(30) DEF WasmIInv, WasmMarks, WasmBumped
    <3>4. \A k, l \in 0 .. depth' - 1 : k <= l => saved'[k] <= saved'[l]
        BY <2>4, <3>1, <3>2, SMTT(30) DEF WasmIInv, WasmMarks
    <3>5. QED
        BY <2>1, <3>2, <3>3, <3>4, SMTT(30) DEF WasmMarks
  <2>6. QED
      BY <2>2, <2>3, <2>5, SMTT(30) DEF WasmIInv
<1>3. QED
    BY <1>1, <1>2, SMTT(30)

\* Closing a scope moves the bump pointer back to where it was opened.
LEMMA WasmPopIInv ==
    ASSUME Roomy, WasmIInv, Wasm!sarif_alloc_pop, depth # 0
    PROVE  WasmIInv'
<1>0. WasmTypeOK
    BY DEF WasmIInv
<1>1. /\ depth' = depth - 1 /\ heap_ptr' = saved[depth - 1] /\ wasmObjs' = Wasm!Below(saved[depth - 1])
      /\ UNCHANGED <<saved, pages, lost, trapped>>
    BY SMTT(30) DEF Wasm!sarif_alloc_pop, Wasm!Rewind
<1>2. depth - 1 \in 0 .. depth - 1 /\ depth' \in Nat
    BY <1>0, <1>1, WasmNumbers, SMTT(30)
<1>3. wasmObjs' \subseteq wasmObjs /\ \A p \in wasmObjs' : p.at + p.size <= heap_ptr'
    BY <1>1, SMTT(30) DEF Wasm!Below
<1>4. WasmTypeOK'
    BY <1>0, <1>1, <1>2, <1>3, WasmNumbers, SMTT(30) DEF WasmTypeOK
<1>5. WasmBumped'
    BY <1>1, <1>2, SMTT(30) DEF WasmIInv, WasmBumped, WasmMarks
<1>6. WasmClear' /\ Wasm!Disjoint'
    BY <1>1, <1>3, SMTT(30) DEF WasmIInv, WasmClear, Wasm!Disjoint
<1>7. WasmMarks'
  <2>1. \A k \in 0 .. depth' - 1 : k \in 0 .. depth - 1 /\ k <= depth - 1
      BY <1>0, <1>1, WasmNumbers, SMTT(30)
  <2>2. QED
      BY <1>1, <1>2, <2>1, SMTT(30) DEF WasmIInv, WasmMarks
<1>8. QED
    BY <1>4, <1>5, <1>6, <1>7, SMTT(30) DEF WasmIInv

\* No write to an object reaches a saved pointer.
LEMMA WasmStoreStep ==
    ASSUME Roomy, WasmIInv, NEW p \in wasmObjs, NEW v \in Junk, Wasm!Store(p, v)
    PROVE  UNCHANGED <<heap_ptr, depth, saved, pages, wasmObjs, lost>>
<1>0. WasmTypeOK /\ WasmClear
    BY SMTT(30) DEF WasmIInv
<1>1. /\ saved' = [k \in DOMAIN saved |-> IF Wasm!Shares(p, k) THEN v ELSE saved[k]]
      /\ UNCHANGED <<heap_ptr, depth, pages, wasmObjs, lost>>
    BY SMTT(30) DEF Wasm!Store
<1>2. \A k \in DOMAIN saved : ~Wasm!Shares(p, k)
    BY <1>0, OffTheStack, SMTT(30) DEF WasmTypeOK
<1>3. saved' = saved
    BY <1>0, <1>1, <1>2, SMTT(30) DEF WasmTypeOK
<1>4. QED
    BY <1>1, <1>3

\* Every step keeps the inductive invariant.
LEMMA WasmNextIInv == Roomy /\ WasmIInv /\ [Wasm!Next]_Wasm!vars => WasmIInv'
<1> SUFFICES ASSUME Roomy, WasmIInv, [Wasm!Next]_Wasm!vars PROVE WasmIInv'
    OBVIOUS
<1>1. CASE UNCHANGED Wasm!vars
    BY <1>1, WasmQuietIInv, SMTT(30) DEF Wasm!vars
<1>2. CASE Wasm!sarif_alloc_pop
    BY <1>1, <1>2, WasmPopIInv, SMTT(30) DEF Wasm!sarif_alloc_pop
<1>3. ASSUME NEW p \in wasmObjs, NEW v \in Junk, Wasm!Store(p, v) PROVE WasmIInv'
    BY <1>3, WasmStoreStep, WasmQuietIInv, SMTT(30)
<1>4. QED
    BY <1>1, <1>2, <1>3, WasmAllocIInv, WasmPushIInv, SMTT(30) DEF Wasm!Next

\* Hence it always holds.
LEMMA WasmInvariance == ASSUME Roomy PROVE Wasm!Spec => []WasmIInv
<1>1. Wasm!Init => WasmIInv
    BY WasmInitIInv
<1>2. WasmIInv /\ [Wasm!Next]_Wasm!vars => WasmIInv'
    BY WasmNextIInv
<1>3. QED
    BY <1>1, <1>2, PTL DEF Wasm!Spec

\* With the heap behind the scope stack, the objects of a Wasm module lie in its
\* linear memory and share no byte.
THEOREM WasmMemorySafety == ASSUME Roomy PROVE Wasm!Spec => []Wasm!Disjoint
<1>1. WasmIInv => Wasm!Disjoint
    BY DEF WasmIInv
<1>2. QED
    BY <1>1, WasmInvariance, PTL

\* What the scopes of the stack protect, as AllocScopes sees it.
WasmProtected == [i \in 1 .. depth |-> Wasm!Ids(Wasm!Below(saved[i - 1])) \ lost]

\* The empty arena holds no object and has no open scope.
LEMMA WasmRefineInit == Wasm!Init => Wasm!Scopes!Init
<1> SUFFICES ASSUME Wasm!Init PROVE Wasm!Scopes!Init
    OBVIOUS
<1>1. Wasm!Ids(wasmObjs) \ lost = {}
    BY SMTT(30) DEF Wasm!Init, Wasm!Ids
<1>2. WasmProtected = <<>>
    BY SMTT(30) DEF Wasm!Init, WasmProtected
<1>3. QED
    BY <1>1, <1>2, SMTT(30) DEF Wasm!Scopes!Init, WasmProtected

\* A step that leaves objects and saved pointers alone is a stutter.
LEMMA WasmRefineQuiet ==
    ASSUME UNCHANGED <<depth, saved, wasmObjs, lost>>
    PROVE  UNCHANGED Wasm!Scopes!vars
BY DEF Wasm!Scopes!vars, Wasm!Ids, Wasm!Below

\* An allocation is the abstract one; one of no bytes is a stutter.
LEMMA WasmRefineAlloc ==
    ASSUME Roomy, WasmIInv, NEW o \in Object, NEW size \in WasmSize, Wasm!alloc(o, size), ~Wasm!Trap
    PROVE  [Wasm!Scopes!Alloc(o)]_Wasm!Scopes!vars
<1>0. WasmTypeOK /\ lost = {} /\ \A p \in wasmObjs : p.id # o
    BY SMTT(30) DEF WasmIInv, WasmClear, Wasm!alloc
<1>1. PICK ptr \in Nat :
         /\ heap_ptr <= ptr /\ wasmObjs' = wasmObjs \cup Wasm!Placed(o, ptr, size)
         /\ lost' = {} /\ UNCHANGED <<depth, saved, trapped>>
    BY WasmAllocStep, SMTT(30)
<1>2. CASE size = 0
  <2>1. wasmObjs' = wasmObjs /\ lost' = lost
      BY <1>0, <1>1, <1>2, SMTT(30) DEF Wasm!Placed
  <2>2. QED
      BY <1>1, <2>1, WasmRefineQuiet, SMTT(30)
<1>3. CASE size # 0
  <2> DEFINE new == [id |-> o, at |-> ptr, size |-> size]
  <2>1. wasmObjs' = wasmObjs \cup {new} /\ size \in Nat /\ size > 0 /\ heap_ptr \in Nat
      BY <1>0, <1>1, <1>3, WasmNumbers, SMTT(30) DEF Wasm!Placed, Roomy
  <2>2. Wasm!Ids(wasmObjs') = Wasm!Ids(wasmObjs) \cup {o} /\ o \notin Wasm!Ids(wasmObjs)
    <3>1. new.id = o
        BY SMTT(30)
    <3> HIDE DEF new
    <3>2. QED
        BY <1>0, <2>1, <3>1, SMTT(30) DEF Wasm!Ids
  <2>3. ASSUME NEW k \in 0 .. depth - 1
        PROVE  Wasm!Below(saved[k])' = Wasm!Below(saved[k])
    <3>1. saved[k] \in Nat /\ saved[k] <= heap_ptr
        BY <1>0, WasmNumbers, SMTT(30) DEF WasmIInv, WasmMarks
    <3>2. ~(new.at + new.size <= saved[k])
        BY <1>1, <2>1, <3>1, SMTT(30)
    <3>3. QED
        BY <1>1, <2>1, <3>2, SMTT(30) DEF Wasm!Below
  <2>4. WasmProtected' = WasmProtected
    <3>1. depth \in Nat /\ \A i \in 1 .. depth : i - 1 \in 0 .. depth - 1
        BY <1>0, WasmNumbers, SMTT(30)
    <3>2. \A i \in 1 .. depth : Wasm!Ids(Wasm!Below(saved[i - 1]))' = Wasm!Ids(Wasm!Below(saved[i - 1]))
        BY <2>3, <3>1 DEF Wasm!Ids
    <3>3. QED
        BY <1>0, <1>1, <3>2, SMTT(30) DEF WasmProtected
  <2>5. Wasm!Scopes!Alloc(o)
      BY <1>0, <1>1, <2>2, <2>4, Zenon DEF Wasm!Scopes!Alloc, Wasm!Ids, WasmProtected
  <2>6. QED
      BY <2>5, SMTT(30)
<1>4. QED
    BY <1>2, <1>3, SMTT(30)

\* Opening a scope is the abstract Push: every object lies below the bump pointer.
LEMMA WasmRefinePush ==
    ASSUME Roomy, WasmIInv, Wasm!sarif_alloc_push, ~Wasm!Trap
    PROVE  Wasm!Scopes!Push
<1>0. WasmTypeOK /\ lost = {}
    BY DEF WasmIInv, WasmClear
<1>1. /\ depth < StackDepth /\ depth' = depth + 1
      /\ saved' = [saved EXCEPT ![depth] = heap_ptr]
      /\ lost' = {} /\ UNCHANGED <<heap_ptr, pages, wasmObjs, trapped>>
    BY WasmPushStep, SMTT(30)
<1>2. /\ depth \in Nat /\ saved'[depth] = heap_ptr
      /\ \A k \in 0 .. depth - 1 : saved'[k] = saved[k]
    BY <1>0, <1>1, WasmNumbers, SMTT(30) DEF WasmTypeOK
<1>3. \A m : Wasm!Ids(Wasm!Below(m))' = Wasm!Ids(Wasm!Below(m))
    BY <1>1, SMTT(30) DEF Wasm!Below, Wasm!Ids
<1>4. WasmProtected' = [i \in 1 .. depth + 1 |-> Wasm!Ids(Wasm!Below(saved'[i - 1]))]
  <2>1. WasmProtected' = [i \in 1 .. depth' |-> Wasm!Ids(Wasm!Below(saved[i - 1]))' \ lost']
      BY DEF WasmProtected
  <2>2. QED
      BY <1>1, <2>1, SMTT(30) DEF Wasm!Below, Wasm!Ids
<1>5. WasmProtected = [i \in 1 .. depth |-> Wasm!Ids(Wasm!Below(saved[i - 1]))]
    BY <1>0, SMTT(30) DEF WasmProtected
<1>6. Wasm!Ids(Wasm!Below(heap_ptr)) = Wasm!Ids(wasmObjs)
    BY SMTT(30) DEF WasmIInv, Wasm!Disjoint, Wasm!Below, Wasm!Ids
<1>7. WasmProtected' = Append(WasmProtected, Wasm!Ids(wasmObjs))
  <2>1. \A i \in 1 .. depth : saved'[i - 1] = saved[i - 1]
      BY <1>2, SMTT(30)
  <2>2. saved'[(depth + 1) - 1] = heap_ptr
      BY <1>2
  <2>3. QED
      BY <1>2, <1>4, <1>5, <1>6, <2>1, <2>2, SMTT(30)
<1>8. QED
    BY <1>0, <1>1, <1>7, Zenon DEF Wasm!Scopes!Push, Wasm!Ids, WasmProtected

\* Closing a scope is the abstract Pop.
LEMMA WasmRefinePop ==
    ASSUME Roomy, WasmIInv, Wasm!sarif_alloc_pop, depth # 0
    PROVE  Wasm!Scopes!Pop
<1>0. WasmTypeOK /\ lost = {}
    BY SMTT(30) DEF WasmIInv, WasmClear
<1>1. /\ depth' = depth - 1 /\ wasmObjs' = Wasm!Below(saved[depth - 1])
      /\ UNCHANGED <<saved, pages, lost, trapped>>
    BY DEF Wasm!sarif_alloc_pop, Wasm!Rewind
<1>2. depth \in Nat \ {0}
    BY <1>0, WasmNumbers, SMTT(30)
<1>3. ASSUME NEW i \in 1 .. depth - 1
      PROVE  Wasm!Below(saved[i - 1])' = Wasm!Below(saved[i - 1])
  <2>1. i - 1 \in 0 .. depth - 1 /\ depth - 1 \in 0 .. depth - 1 /\ i - 1 <= depth - 1
      BY <1>2, SMTT(30)
  <2>2. saved[i - 1] \in Nat /\ saved[depth - 1] \in Nat /\ saved[i - 1] <= saved[depth - 1]
      BY <1>0, <2>1, WasmNumbers, SMTT(30) DEF WasmIInv, WasmMarks
  <2>3. \A p \in wasmObjs : p.at + p.size \in Nat
      BY <1>0, WasmNumbers, SMTT(30)
  <2>4. Wasm!Below(saved[i - 1]) \subseteq Wasm!Below(saved[depth - 1])
      BY <2>2, <2>3, SMTT(30) DEF Wasm!Below
  <2>5. QED
      BY <1>1, <2>4, SMTT(30) DEF Wasm!Below
<1>4. WasmProtected' = [i \in 1 .. depth - 1 |-> Wasm!Ids(Wasm!Below(saved[i - 1]))]
  <2>1. WasmProtected' = [i \in 1 .. depth' |-> Wasm!Ids(Wasm!Below(saved[i - 1])') \ lost']
      BY DEF WasmProtected, Wasm!Ids
  <2>2. QED
      BY <1>0, <1>1, <1>3, <2>1, SMTT(30)
<1>5. WasmProtected = [i \in 1 .. depth |-> Wasm!Ids(Wasm!Below(saved[i - 1]))]
    BY <1>0, SMTT(30) DEF WasmProtected
<1>6. /\ WasmProtected' = SubSeq(WasmProtected, 1, Len(WasmProtected) - 1)
      /\ WasmProtected # <<>> /\ Len(WasmProtected) = depth
  <2>1. /\ WasmProtected \in Seq(SUBSET {p.id : p \in wasmObjs})
        /\ Len(WasmProtected) = depth /\ WasmProtected # <<>>
      BY <1>2, <1>5, SMTT(30) DEF Wasm!Ids, Wasm!Below
  <2>2. QED
      BY <1>2, <1>4, <1>5, <2>1, SMTT(30)
<1>7. Wasm!Ids(wasmObjs') = WasmProtected[Len(WasmProtected)]
    BY <1>1, <1>2, <1>5, <1>6, SMTT(30)
<1>8. QED
    BY <1>0, <1>1, <1>6, <1>7, Zenon DEF Wasm!Scopes!Pop, Wasm!Ids, WasmProtected

\* With the heap behind the scope stack and memory below the 32-bit limit, the Wasm
\* arena implements nested allocation scopes: closing one gives back what was
\* allocated in it, and no write of the program reaches the saved pointers.
THEOREM WasmScopesRefined == ASSUME Roomy PROVE Wasm!Spec => Wasm!ScopesSpec
<1>1. Wasm!Init => Wasm!Scopes!Init
    BY WasmRefineInit, SMTT(30)
<1>2. WasmIInv /\ [Wasm!Next]_Wasm!vars => [Wasm!Scopes!Next]_Wasm!Scopes!vars
  <2> SUFFICES ASSUME WasmIInv, [Wasm!Next]_Wasm!vars PROVE [Wasm!Scopes!Next]_Wasm!Scopes!vars
      BY SMTT(30)
  <2>1. CASE UNCHANGED Wasm!vars
      BY <2>1, WasmRefineQuiet, SMTT(30) DEF Wasm!vars
  <2>2. CASE Wasm!Trap
      BY <2>2, WasmRefineQuiet, SMTT(30) DEF Wasm!Trap
  <2>3. ASSUME NEW o \in Object, NEW size \in WasmSize, Wasm!alloc(o, size), ~Wasm!Trap
        PROVE  [Wasm!Scopes!Next]_Wasm!Scopes!vars
      BY <2>3, WasmRefineAlloc, SMTT(30) DEF Wasm!Scopes!Next
  <2>4. CASE Wasm!sarif_alloc_push /\ ~Wasm!Trap
      BY <2>4, WasmRefinePush, SMTT(30) DEF Wasm!Scopes!Next
  <2>5. CASE Wasm!sarif_alloc_pop
    <3>1. CASE depth # 0
        BY <2>5, <3>1, WasmRefinePop, SMTT(30) DEF Wasm!Scopes!Next
    <3>2. CASE depth = 0
        BY <2>1, <2>5, <3>2, SMTT(30) DEF Wasm!sarif_alloc_pop
    <3>3. QED
        BY <3>1, <3>2, SMTT(30)
  <2>6. ASSUME NEW p \in wasmObjs, NEW v \in Junk, Wasm!Store(p, v)
        PROVE  [Wasm!Scopes!Next]_Wasm!Scopes!vars
      BY <2>6, WasmStoreStep, WasmRefineQuiet, SMTT(30)
  <2>7. QED
      BY <2>1, <2>2, <2>3, <2>4, <2>5, <2>6, SMTT(30) DEF Wasm!Next
<1>3. QED
    BY <1>1, <1>2, WasmInvariance, PTL DEF Wasm!Spec, Wasm!ScopesSpec, Wasm!Scopes!Spec

-----------------------------------------------------------------------------
(* The composition *)

CONSTANT Backend        \* the backends programs are run on
VARIABLE backend

jitVars == <<boxes, idx, offset, positions, jitObjs>>
wasmVars == <<heap_ptr, depth, saved, pages, wasmObjs, lost, trapped>>
nativeVars == vars

ArenasInit == backend \in Backend /\ Init /\ Jit!Init /\ Wasm!Init

ArenasNext ==
    \/ backend = "jit" /\ Jit!Next /\ UNCHANGED <<backend, wasmVars, nativeVars>>
    \/ backend = "wasm" /\ Wasm!Next /\ UNCHANGED <<backend, jitVars, nativeVars>>
    \/ backend = "native" /\ Next /\ UNCHANGED <<backend, jitVars, wasmVars>>
    \/ fault /\ UNCHANGED <<backend, jitVars, wasmVars, nativeVars>>

ArenasSpec == ArenasInit /\ [][ArenasNext]_<<backend, jitVars, wasmVars, nativeVars>>

-----------------------------------------------------------------------------

\* In process and as a Wasm module, objects share no byte and lie inside the memory
\* the arena owns, before its bump position.
ObjectsDisjoint == Jit!Disjoint /\ Wasm!Disjoint

\* However deep the program nests its scopes, the chunk list of the native arena stays
\* a list without repetitions that ends in the current chunk.
NativeListShape == ListShape

\* In process, scopes nest at any depth: closing one gives back what it allocated.
JitScopes == Jit!ScopesSpec

\* The Wasm arena gives back what a scope allocated and nothing else.
WasmScopes == Wasm!ScopesSpec

-----------------------------------------------------------------------------
(* A program runs on one backend: for each arena the composition is a      *)
(* behaviour of that arena alone.                                          *)

allVars == <<backend, jitVars, wasmVars, nativeVars>>

\* The arena of the JIT moves only by its own operations.
LEMMA JitAlone == ArenasSpec => Jit!Spec
<1>1. ArenasInit => Jit!Init
    BY SMTT(30) DEF ArenasInit
<1>2. [ArenasNext]_allVars => [Jit!Next]_Jit!vars
    BY SMTT(30) DEF ArenasNext, allVars, jitVars, Jit!vars
<1>3. QED
    BY <1>1, <1>2, PTL DEF ArenasSpec, Jit!Spec, allVars

\* So does that of the Wasm module.
LEMMA WasmAlone == ArenasSpec => Wasm!Spec
<1>1. ArenasInit => Wasm!Init
    BY SMTT(30) DEF ArenasInit
<1>2. [ArenasNext]_allVars => [Wasm!Next]_Wasm!vars
    BY DEF ArenasNext, allVars, wasmVars, Wasm!vars
<1>3. QED
    BY <1>1, <1>2, PTL DEF ArenasSpec, Wasm!Spec, allVars

\* And that of the native executable.
LEMMA NativeAlone == ArenasSpec => Spec
<1>1. ArenasInit => Init
    BY DEF ArenasInit
<1>2. [ArenasNext]_allVars => [Next]_vars
    BY DEF ArenasNext, allVars, nativeVars
<1>3. QED
    BY <1>1, <1>2, PTL DEF ArenasSpec, Spec, allVars

\* sarif_record_alloc of the JIT and $alloc of the Wasm runtime never hand out memory
\* the program holds, for every set of objects and sizes, as long as the Wasm heap
\* starts behind its scope stack and its addresses do not wrap.
THEOREM ObjectsStayDisjoint == ASSUME Roomy PROVE ArenasSpec => []ObjectsDisjoint
<1>1. Wasm!Spec => []Wasm!Disjoint
    BY WasmMemorySafety
<1>2. Jit!Disjoint /\ Wasm!Disjoint => ObjectsDisjoint
    BY DEF ObjectsDisjoint
<1>3. QED
    BY <1>1, <1>2, JitAlone, WasmAlone, JitMemorySafety, PTL

\* Pushing and popping past the fixed array never breaks the chunk list of
\* sarif_runtime.c, whatever the size of the array and the depth of nesting.
THEOREM NativeListStays == ArenasSpec => []NativeListShape
<1>1. ListShape => NativeListShape
    BY DEF NativeListShape
<1>2. QED
    BY <1>1, ListKeepsItsShape, NativeAlone, PTL

\* sarif_alloc_push and sarif_alloc_pop of the JIT implement nested scopes at any depth.
THEOREM JitScopesNest == ArenasSpec => JitScopes
BY JitAlone, JitScopesRefined, PTL DEF JitScopes

\* $__sarif_alloc_push and $__sarif_alloc_pop implement nested scopes up to the depth
\* at which they trap.
THEOREM WasmScopesNest == ASSUME Roomy PROVE ArenasSpec => WasmScopes
<1>1. Wasm!Spec => Wasm!ScopesSpec
    BY WasmScopesRefined
<1>2. QED
    BY <1>1, WasmAlone, PTL DEF WasmScopes
=============================================================================
