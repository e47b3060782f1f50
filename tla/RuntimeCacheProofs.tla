------------------------- MODULE RuntimeCacheProofs -------------------------
(***************************************************************************)
(* For any number of invocations and build modes: the published name never *)
(* shows a half-written object, a sound cache stays sound, a settled cache *)
(* is only read, and an invocation loses the race for the temporary name   *)
(* only to one whose compiler rejected its source.                         *)
(***************************************************************************)
EXTENDS RuntimeCache, TLAPS

Places == {"none", "temp", "object"}

TypeOK ==
    /\ keyOf \in [Proc -> Key]
    /\ atomic \in BOOLEAN
    /\ pc \in [Proc -> {"start"} \cup Running \cup Ended]
    /\ source \in [Key -> Content]
    /\ temp \in [Key -> Content]
    /\ object \in [Key -> Content]
    /\ output \in [Proc -> Places]
    /\ seen \in [Proc -> Content]

\* A compiler that replaces its output in one step has no open output file, and leaves no
\* half-written file behind.
Replaced ==
    atomic => /\ \A p \in Proc : output[p] = "none"
              /\ \A k \in Key : temp[k] # "partial" /\ object[k] # "partial"

\* A compiler of the build mode of p has removed the temporary object.
Rejected(p) == \E q \in Users(keyOf[p]) : pc[q] = "compile failed"

\* The object of a build mode is published, or nobody has reason to expect one.
Served(p) == object[keyOf[p]] # "absent" \/ Rejected(p)

\* Where the output of a compiler is, once nobody has moved or removed it.
Expected ==
    \A p \in Proc :
        /\ (~atomic /\ pc[p] \in {"read", "compiling"} /\ output[p] = "none") => Served(p)
        /\ pc[p] = "publish" => (temp[keyOf[p]] # "absent" \/ Served(p))
        /\ pc[p] = "recover" => Served(p)
        /\ pc[p] = "publish failed" => Rejected(p)

\* The inductive invariant.
IInv == TypeOK /\ Replaced /\ Expected

\* At the start nobody has compiled anything.
LEMMA InitIInv == Init => IInv
<1> SUFFICES ASSUME Init PROVE IInv
    OBVIOUS
<1>1. TypeOK
    BY CacheAssumption DEF Init, TypeOK, Content, Places
<1>2. Replaced /\ Expected
    BY <1>1 DEF Init, Replaced, Expected, TypeOK
<1>3. QED
    BY <1>1, <1>2 DEF IInv

-----------------------------------------------------------------------------
\* A step of one invocation that has not ended takes back neither a rejection nor a
\* published object.
LEMMA Stable ==
    ASSUME TypeOK, NEW p \in Proc, NEW l, Goto(p, l), pc[p] \notin Ended,
           \A k \in Key : object[k] # "absent" => object'[k] # "absent"
    PROVE  \A q \in Proc : /\ Rejected(q) => Rejected(q)'
                           /\ Served(q) => Served(q)'
<1>1. keyOf' = keyOf /\ \A q \in Proc : pc[q] = "compile failed" => pc'[q] = "compile failed"
    BY Zenon DEF TypeOK, Goto, setup, Ended, Failed
<1>2. \A q \in Proc : Rejected(q) => Rejected(q)'
    BY <1>1, Zenon DEF Rejected, Users
<1>3. QED
    BY <1>1, <1>2, Zenon DEF Served, TypeOK

\* A step that leaves the objects alone.
LEMMA QuietIInv ==
    ASSUME IInv, NEW p \in Proc, NEW l \in Running \cup Ended, Goto(p, l), pc[p] \notin Ended,
           UNCHANGED <<temp, object>>, source' \in [Key -> Content], seen' \in [Proc -> Content],
           output' = output \/ (output' = [output EXCEPT ![p] = "none"] /\ l \notin {"read", "compiling"}),
           l # "publish",
           l \in {"read", "compiling"} => pc[p] = "read" \/ atomic,
           l = "recover" => Served(p),
           l = "publish failed" => Rejected(p)
    PROVE  IInv'
<1>1. TypeOK'
    BY Zenon DEF IInv, TypeOK, Goto, setup, Places
<1>2. Replaced'
    BY Zenon DEF IInv, Replaced, TypeOK, Goto, setup
<1>3. \A q \in Proc : (Rejected(q) => Rejected(q)') /\ (Served(q) => Served(q)')
    BY Stable, Zenon DEF IInv, TypeOK
<1>4. ASSUME NEW q \in Proc
      PROVE  /\ (~atomic /\ pc[q] \in {"read", "compiling"} /\ output[q] = "none")' => Served(q)'
             /\ (pc[q] = "publish")' => (temp[keyOf[q]] # "absent")' \/ Served(q)'
             /\ (pc[q] = "recover")' => Served(q)'
             /\ (pc[q] = "publish failed")' => Rejected(q)'
  <2>1. CASE q = p
      BY <1>3, <2>1, Zenon DEF IInv, TypeOK, Goto, setup, Expected
  <2>2. CASE q # p
      BY <1>3, <2>2, Zenon DEF IInv, TypeOK, Goto, setup, Expected
  <2>3. QED
      BY <2>1, <2>2, Zenon
<1>5. QED
    BY <1>1, <1>2, <1>4, Zenon DEF IInv, Expected

\* A compiler that writes in place empties the temporary object.
LEMMA OpenOutputIInv ==
    ASSUME IInv, NEW p \in Proc, StartCompiler(p), ~atomic
    PROVE  IInv'
<1>1. TypeOK'
    BY Zenon DEF IInv, TypeOK, Goto, setup, Places, Content, Running, Building, Ended, Failed, StartCompiler
<1>2. Replaced'
    BY DEF IInv, Replaced, TypeOK, Goto, setup, Content, StartCompiler
<1>3. \A q \in Proc : (Rejected(q) => Rejected(q)') /\ (Served(q) => Served(q)')
    BY Stable, Zenon DEF IInv, TypeOK, Ended, Failed, StartCompiler
<1>4. ASSUME NEW q \in Proc
      PROVE  /\ (~atomic /\ pc[q] \in {"read", "compiling"} /\ output[q] = "none")' => Served(q)'
             /\ (pc[q] = "publish")' => (temp[keyOf[q]] # "absent")' \/ Served(q)'
             /\ (pc[q] = "recover")' => Served(q)'
             /\ (pc[q] = "publish failed")' => Rejected(q)'
  <2>1. CASE q = p
      BY <1>3, <2>1, Zenon DEF IInv, TypeOK, Goto, setup, Expected, StartCompiler
  <2>2. CASE q # p
      BY <1>3, <2>2, Zenon DEF IInv, TypeOK, Goto, setup, Expected, StartCompiler
  <2>3. QED
      BY <2>1, <2>2, Zenon
<1>5. QED
    BY <1>1, <1>2, <1>4, Zenon DEF IInv, Expected

\* A compiler ends: its output is under one of the two names, or somebody has moved it.
LEMMA FinishIInv ==
    ASSUME IInv, NEW p \in Proc, FinishCompiler(p)
    PROVE  IInv'
<1>1. TypeOK'
    BY Zenon DEF IInv, TypeOK, Goto, setup, Places, Content, Running, Building, Ended, Failed, FinishCompiler, Compiled
<1>2. Replaced'
    BY DEF IInv, Replaced, TypeOK, Goto, setup, Content, FinishCompiler, Compiled
<1>3. \A q \in Proc : (Rejected(q) => Rejected(q)') /\ (Served(q) => Served(q)')
    BY Stable, Zenon DEF IInv, TypeOK, Ended, Failed, FinishCompiler, Compiled
<1>f. temp'[keyOf[p]] # "absent" \/ Served(p)'
  <2>1. CASE atomic \/ output[p] = "temp"
      BY <2>1 DEF IInv, TypeOK, FinishCompiler, Compiled
  <2>2. CASE output[p] = "object"
      BY <2>2 DEF IInv, TypeOK, FinishCompiler, Compiled, Goto, setup, Served
  <2>3. CASE ~atomic /\ output[p] = "none"
      BY <1>3, <2>3, Zenon DEF IInv, TypeOK, FinishCompiler, Expected
  <2>4. QED
      BY <2>1, <2>2, <2>3 DEF IInv, TypeOK, Places
<1>4. ASSUME NEW q \in Proc
      PROVE  /\ (~atomic /\ pc[q] \in {"read", "compiling"} /\ output[q] = "none")' => Served(q)'
             /\ (pc[q] = "publish")' => (temp[keyOf[q]] # "absent")' \/ Served(q)'
             /\ (pc[q] = "recover")' => Served(q)'
             /\ (pc[q] = "publish failed")' => Rejected(q)'
  <2>1. CASE q = p
      BY <1>f, <2>1 DEF IInv, TypeOK, Goto, setup, FinishCompiler
  <2>2. CASE q # p
      BY <1>3, <2>2, Zenon DEF IInv, TypeOK, Goto, setup, Expected, FinishCompiler, Compiled
  <2>3. QED
      BY <2>1, <2>2, Zenon
<1>5. QED
    BY <1>1, <1>2, <1>4, Zenon DEF IInv, Expected

\* A compiler that rejects its source removes what others wait for, and is to blame.
LEMMA RejectIInv ==
    ASSUME IInv, NEW p \in Proc, RejectSource(p)
    PROVE  IInv'
<1>1. TypeOK'
    BY Zenon DEF IInv, TypeOK, Goto, setup, Places, Content, Running, Building, Ended, Failed, RejectSource, Return
<1>2. Replaced'
    BY Zenon DEF IInv, Replaced, TypeOK, Goto, setup, Content, RejectSource, Return
<1>3. \A q \in Proc : (Rejected(q) => Rejected(q)') /\ (Served(q) => Served(q)')
    BY Stable, Zenon DEF IInv, TypeOK, Ended, Failed, RejectSource, Return
<1>r. \A q \in Proc : keyOf[q] = keyOf[p] => Rejected(q)' /\ Served(q)'
    BY Zenon DEF IInv, TypeOK, Rejected, Served, Users, RejectSource, Return, Goto, setup
<1>4. ASSUME NEW q \in Proc
      PROVE  /\ (~atomic /\ pc[q] \in {"read", "compiling"} /\ output[q] = "none")' => Served(q)'
             /\ (pc[q] = "publish")' => (temp[keyOf[q]] # "absent")' \/ Served(q)'
             /\ (pc[q] = "recover")' => Served(q)'
             /\ (pc[q] = "publish failed")' => Rejected(q)'
  <2>1. CASE q = p
      BY <1>3, <2>1, <1>r, Zenon DEF IInv, TypeOK, Goto, setup, Expected, RejectSource, Return
  <2>2. CASE q # p
      BY <1>3, <2>2, <1>r, Zenon DEF IInv, TypeOK, Goto, setup, Expected, RejectSource, Return
  <2>3. QED
      BY <2>1, <2>2, Zenon
<1>5. QED
    BY <1>1, <1>2, <1>4, Zenon DEF IInv, Expected

\* The temporary object is removed, renamed or not, and the object is there.
Serves(p) ==
    /\ Goto(p, "object") /\ pc[p] \notin Ended
    /\ UNCHANGED <<source, seen>>
    /\ temp' = [temp EXCEPT ![keyOf[p]] = "absent"]
    /\ object' \in [Key -> Content] /\ object'[keyOf[p]] # "absent"
    /\ \A k \in Key : /\ object[k] # "absent" => object'[k] # "absent"
                      /\ object'[k] \in {object[k], temp[k]}
    /\ output' \in [Proc -> Places]
    /\ \A q \in Proc : /\ keyOf[q] # keyOf[p] => output'[q] = output[q]
                       /\ output[q] = "none" => output'[q] = "none"

\* A step of an invocation that finds its object served.
LEMMA ServedIInv ==
    ASSUME IInv, NEW p \in Proc, Serves(p)
    PROVE  IInv'
<1>1. TypeOK'
    BY DEF IInv, TypeOK, Goto, setup, Content, Running, Serves
<1>2. Replaced'
  <2> SUFFICES ASSUME atomic
               PROVE  /\ \A q \in Proc : output'[q] = "none"
                      /\ \A k \in Key : temp'[k] # "partial" /\ object'[k] # "partial"
      BY DEF Replaced, Goto, setup, Serves
  <2>1. \A q \in Proc : output'[q] = "none"
      BY DEF IInv, Replaced, Serves
  <2>2. \A k \in Key : temp'[k] # "partial" /\ object'[k] # "partial"
      BY DEF IInv, Replaced, TypeOK, Serves
  <2>3. QED
      BY <2>1, <2>2
<1>3. \A q \in Proc : (Rejected(q) => Rejected(q)') /\ (Served(q) => Served(q)')
    BY Stable DEF IInv, TypeOK, Serves
<1>r. \A q \in Proc : keyOf[q] = keyOf[p] => Served(q)'
    BY DEF IInv, TypeOK, Served, Goto, setup, Serves
<1>4. ASSUME NEW q \in Proc
      PROVE  /\ (~atomic /\ pc[q] \in {"read", "compiling"} /\ output[q] = "none")' => Served(q)'
             /\ (pc[q] = "publish")' => (temp[keyOf[q]] # "absent")' \/ Served(q)'
             /\ (pc[q] = "recover")' => Served(q)'
             /\ (pc[q] = "publish failed")' => Rejected(q)'
  <2>1. CASE keyOf[q] = keyOf[p]
      BY <1>3, <1>r, <2>1, Zenon DEF IInv, TypeOK, Goto, setup, Expected, Serves
  <2>2. CASE keyOf[q] # keyOf[p]
      BY <1>3, <2>2, Zenon DEF IInv, TypeOK, Goto, setup, Expected, Serves
  <2>3. QED
      BY <2>1, <2>2, Zenon
<1>5. QED
    BY <1>1, <1>2, <1>4, Zenon DEF IInv, Expected

\* A rename publishes the temporary object for everyone of the build mode, or fails.
LEMMA PublishIInv ==
    ASSUME IInv, NEW p \in Proc, Publish(p)
    PROVE  IInv'
<1>1. CASE temp[keyOf[p]] = "absent"
  <2>1. Served(p) /\ Goto(p, "recover") /\ UNCHANGED <<temp, object, output, source, seen>>
      BY <1>1, Zenon DEF IInv, Expected, Publish
  <2>2. pc[p] \notin Ended /\ "recover" \in Running
      BY DEF Publish, Ended, Failed, Running, Building
  <2>3. source' \in [Key -> Content] /\ seen' \in [Proc -> Content]
      BY <2>1 DEF IInv, TypeOK
  <2>4. QED
      BY <2>1, <2>2, <2>3, QuietIInv, Zenon
<1>2. CASE temp[keyOf[p]] # "absent"
  <2>1. Goto(p, "object") /\ pc[p] \notin Ended /\ UNCHANGED <<source, seen>>
      BY <1>2 DEF Publish, Ended, Failed
  <2>2. /\ output' \in [Proc -> Places]
        /\ \A q \in Proc : /\ keyOf[q] # keyOf[p] => output'[q] = output[q]
                           /\ output[q] = "none" => output'[q] = "none"
      BY <1>2 DEF IInv, TypeOK, Publish, Places
  <2>3. temp' = [temp EXCEPT ![keyOf[p]] = "absent"]
      BY <1>2 DEF Publish
  <2>4. /\ object' \in [Key -> Content] /\ object'[keyOf[p]] # "absent"
        /\ \A k \in Key : /\ object[k] # "absent" => object'[k] # "absent"
                          /\ object'[k] \in {object[k], temp[k]}
      BY <1>2 DEF Publish, IInv, TypeOK
  <2>5. QED
      BY <2>1, <2>2, <2>3, <2>4, ServedIInv, Zenon DEF Serves
<1>3. QED
    BY <1>1, <1>2

\* After a failed rename the temporary object is only removed when there is an object.
LEMMA RecoverIInv ==
    ASSUME IInv, NEW p \in Proc, Recover(p)
    PROVE  IInv'
<1>1. CASE object[keyOf[p]] = "absent"
  <2>1. /\ Rejected(p) /\ Goto(p, "publish failed")
        /\ UNCHANGED <<temp, object, output, source, seen>>
      BY <1>1, Zenon DEF IInv, Expected, Recover, Return, Served
  <2>2. pc[p] \notin Ended /\ "publish failed" \in Ended
      BY Zenon DEF Recover, Ended, Failed
  <2>3. source' \in [Key -> Content] /\ seen' \in [Proc -> Content]
      BY <2>1, Zenon DEF IInv, TypeOK
  <2>4. QED
      BY <2>1, <2>2, <2>3, QuietIInv, Zenon
<1>2. CASE object[keyOf[p]] # "absent"
  <2>1. Goto(p, "object") /\ pc[p] \notin Ended /\ UNCHANGED <<source, object, seen>>
      BY <1>2 DEF Recover, Ended, Failed
  <2>2. /\ output' \in [Proc -> Places]
        /\ \A q \in Proc : /\ keyOf[q] # keyOf[p] => output'[q] = output[q]
                           /\ output[q] = "none" => output'[q] = "none"
      BY <1>2 DEF IInv, TypeOK, Recover, Places
  <2>3. temp' = [temp EXCEPT ![keyOf[p]] = "absent"]
      BY <1>2 DEF Recover
  <2>4. /\ object' \in [Key -> Content] /\ object'[keyOf[p]] # "absent"
        /\ \A k \in Key : /\ object[k] # "absent" => object'[k] # "absent"
                          /\ object'[k] \in {object[k], temp[k]}
      BY <1>2, <2>1 DEF IInv, TypeOK
  <2>5. QED
      BY <2>1, <2>2, <2>3, <2>4, ServedIInv, Zenon DEF Serves
<1>3. QED
    BY <1>1, <1>2

\* Every step keeps the inductive invariant.
LEMMA NextIInv == IInv /\ [Next]_vars => IInv'
<1> SUFFICES ASSUME IInv, [Next]_vars PROVE IInv'
    OBVIOUS
<1>u. CASE UNCHANGED vars
    BY <1>u, Zenon DEF vars, setup, IInv, TypeOK, Replaced, Expected, Served, Rejected, Users
<1>f. CASE Finished
    BY <1>f, <1>u DEF Finished
<1> SUFFICES ASSUME NEW p \in Proc, Step(p) \/ IoError(p) \/ Crash(p) PROVE IInv'
    BY <1>u, <1>f DEF Next
<1> USE DEF Running, Building, Ended, Failed
<1>1. CASE link_executable(p) \/ cached_runtime_object(p) \/ CheckSource(p)
  <2>1. /\ \E l \in {"lookup", "object", "source", "compile", "open"} : Goto(p, l)
        /\ pc[p] \notin Ended
        /\ UNCHANGED <<source, temp, object, seen, output>>
      BY <1>1, Zenon DEF link_executable, cached_runtime_object, CheckSource, cache
  <2>2. QED
      BY <2>1, QuietIInv, Zenon DEF IInv, TypeOK
<1>2. CASE OpenSource(p) \/ FillSource(p)
  <2>1. /\ \E l \in {"write", "compile"} : Goto(p, l)
        /\ pc[p] \notin Ended
        /\ UNCHANGED <<temp, object, seen, output>>
      BY <1>2, Zenon DEF OpenSource, FillSource
  <2>2. source' \in [Key -> Content]
      BY <1>2, Zenon DEF OpenSource, FillSource, Content, IInv, TypeOK
  <2>3. QED
      BY <2>1, <2>2, QuietIInv, Zenon DEF IInv, TypeOK
<1>3. CASE StartCompiler(p)
  <2>1. CASE atomic
      BY <1>3, <2>1, QuietIInv, Zenon DEF StartCompiler, Goto, IInv, TypeOK
  <2>2. QED
      BY <1>3, <2>1, OpenOutputIInv
<1>4. CASE ReadSource(p)
    BY <1>4, QuietIInv, Zenon DEF ReadSource, Goto, cache, IInv, TypeOK
<1>5. CASE Link(p) \/ IoError(p) \/ Crash(p)
  <2>1. /\ \E l \in {"done", "io error", "crashed"} : Goto(p, l)
        /\ pc[p] \notin Ended
        /\ UNCHANGED <<source, temp, object, seen>>
        /\ output' = output \/ output' = [output EXCEPT ![p] = "none"]
      BY <1>5, Zenon DEF Link, IoError, Crash, Return, cache
  <2>2. QED
      BY <2>1, QuietIInv, Zenon DEF IInv, TypeOK
<1>6. QED
    BY <1>1, <1>2, <1>3, <1>4, <1>5, FinishIInv, RejectIInv, PublishIInv, RecoverIInv DEF Step

\* Hence it always holds.
LEMMA Invariance == Spec => []IInv
BY InitIInv, NextIInv, PTL DEF Spec

\* No invocation finds a half-written object under the published name.
THEOREM ObjectsAppearWhole == Spec => []PublishedAtOnce
<1>1. IInv => PublishedAtOnce
    BY DEF IInv, Replaced, PublishedAtOnce
<1>2. QED
    BY <1>1, Invariance, PTL

\* An invocation fails to publish only when a compiler of its build mode rejected the source.
THEOREM RaceIsHarmless == Spec => []PublishLosesOnlyToReject
<1>1. IInv => PublishLosesOnlyToReject
    BY Zenon DEF IInv, Expected, Rejected, PublishLosesOnlyToReject
<1>2. QED
    BY <1>1, Invariance, PTL

-----------------------------------------------------------------------------
\* Anything that an invocation does or that happens to it.
Move(p) == Step(p) \/ IoError(p) \/ Crash(p)

\* An invocation touches the files of its own build mode only.
LEMMA OwnMode ==
    ASSUME TypeOK, NEW p \in Proc, Move(p)
    PROVE  /\ keyOf' = keyOf /\ atomic' = atomic
           /\ \A q \in Proc : q # p => pc'[q] = pc[q] /\ seen'[q] = seen[q]
           /\ \A k \in Key : k # keyOf[p] =>
                 source'[k] = source[k] /\ temp'[k] = temp[k] /\ object'[k] = object[k]
<1> USE DEF Goto, Return, setup, cache, TypeOK
<1>1. CASE link_executable(p) \/ cached_runtime_object(p) \/ CheckSource(p)
    BY <1>1 DEF link_executable, cached_runtime_object, CheckSource
<1>2. CASE OpenSource(p) \/ FillSource(p) \/ StartCompiler(p) \/ ReadSource(p)
    BY <1>2 DEF OpenSource, FillSource, StartCompiler, ReadSource
<1>3. CASE FinishCompiler(p)
    BY <1>3 DEF FinishCompiler
<1>4. CASE RejectSource(p)
    BY <1>4, Zenon DEF RejectSource
<1>5. CASE Publish(p)
    BY <1>5 DEF Publish
<1>6. CASE Recover(p)
    BY <1>6, Zenon DEF Recover
<1>7. CASE Link(p) \/ IoError(p) \/ Crash(p)
    BY <1>7, Zenon DEF Link, IoError, Crash
<1>8. QED
    BY <1>1, <1>2, <1>3, <1>4, <1>5, <1>6, <1>7 DEF Move, Step

\* What a move of p makes of the files and of p, when the cache of its build mode is sound.
LEMMA SoundMove ==
    ASSUME IInv, atomic, NEW p \in Proc, Move(p), Sound(keyOf[p])
    PROVE  LET k == keyOf[p]
           IN  /\ source'[k] = "whole"
               /\ temp'[k] \in {"absent", "whole"}
               /\ object'[k] \in {"absent", "whole"}
               /\ pc'[p] \notin {"open", "write"}
               /\ pc'[p] = "compiling" => seen'[p] = "whole"
<1>1. /\ source[keyOf[p]] = "whole"
      /\ temp[keyOf[p]] \in {"absent", "whole"}
      /\ object[keyOf[p]] \in {"absent", "whole"}
      /\ pc[p] \notin {"open", "write"}
      /\ pc[p] = "compiling" => seen[p] = "whole"
      /\ output[p] = "none"
    BY DEF Sound, Users, IInv, Replaced
<1>2. TypeOK
    BY DEF IInv
<1> USE <1>1, <1>2 DEF Goto, Return, setup, cache, TypeOK
<1>3. CASE link_executable(p) \/ cached_runtime_object(p) \/ CheckSource(p)
    BY <1>3, Zenon DEF link_executable, cached_runtime_object, CheckSource
<1>4. CASE OpenSource(p) \/ FillSource(p) \/ StartCompiler(p) \/ ReadSource(p)
    BY <1>4, Zenon DEF OpenSource, FillSource, StartCompiler, ReadSource
<1>5. CASE FinishCompiler(p)
    BY <1>5 DEF FinishCompiler, Compiled
<1>6. CASE RejectSource(p)
    BY <1>6, Zenon DEF RejectSource
<1>7. CASE Publish(p)
    BY <1>7, Zenon DEF Publish
<1>8. CASE Recover(p)
    BY <1>8, ZenonT(40) DEF Recover
<1>9. CASE Link(p) \/ IoError(p) \/ Crash(p)
    BY <1>9, Zenon DEF Link, IoError, Crash
<1>10. QED
    BY <1>3, <1>4, <1>5, <1>6, <1>7, <1>8, <1>9 DEF Move, Step

\* Hence no step spoils a sound cache.
LEMMA SoundStep ==
    ASSUME IInv, [Next]_vars, atomic, NEW k \in Key, Sound(k)
    PROVE  Sound(k)'
<1>1. CASE UNCHANGED vars
    BY <1>1 DEF vars, setup, Sound, Users
<1>2. ASSUME NEW p \in Proc, Move(p) PROVE Sound(k)'
  <2>1. TypeOK
      BY DEF IInv
  <2>2. CASE k = keyOf[p]
      BY <1>2, <2>1, <2>2, SoundMove, OwnMode, ZenonT(40) DEF Sound, Users
  <2>3. CASE k # keyOf[p]
      BY <1>2, <2>1, <2>3, OwnMode, Zenon DEF Sound, Users
  <2>4. QED
      BY <2>2, <2>3
<1>3. QED
    BY <1>1, <1>2 DEF Next, Finished, Move

\* Once a cache is sound nothing that races or dies spoils it.
THEOREM CacheStaysSound == Spec => SoundStaysSound
<1>1. IInv /\ [Next]_vars => [atomic => \A k \in Key : Sound(k) => Sound(k)']_vars
    BY SoundStep
<1>2. QED
    BY <1>1, Invariance, PTL DEF Spec, SoundStaysSound

-----------------------------------------------------------------------------
\* A move of p when the cache of its build mode is settled.
LEMMA SettledMove ==
    ASSUME IInv, NEW p \in Proc, Move(p), Settled(keyOf[p])
    PROVE  pc'[p] \notin Building /\ UNCHANGED <<source, temp, object>>
<1>1. object[keyOf[p]] # "absent" /\ pc[p] \notin Building /\ TypeOK
    BY DEF Settled, Users, IInv
<1>2. CASE link_executable(p) \/ cached_runtime_object(p) \/ Link(p)
    BY <1>1, <1>2 DEF link_executable, cached_runtime_object, Link, Goto, Return, cache, TypeOK, Building
<1>3. CASE IoError(p) \/ Crash(p)
    BY <1>1, <1>3, Zenon DEF IoError, Crash, Goto, Return, cache, TypeOK, Building
<1>4. QED
    BY <1>1, <1>2, <1>3, Zenon DEF Move, Step, Building, CheckSource, OpenSource, FillSource, StartCompiler,
                            ReadSource, FinishCompiler, RejectSource, Publish, Recover

\* Hence no step changes a settled cache.
LEMMA SettledStep ==
    ASSUME IInv, [Next]_vars, NEW k \in Key, Settled(k)
    PROVE  /\ Settled(k)'
           /\ <<source[k], temp[k], object[k]>>' = <<source[k], temp[k], object[k]>>
<1>1. CASE UNCHANGED vars
    BY <1>1 DEF vars, setup, Settled, Users
<1>2. ASSUME NEW p \in Proc, Move(p)
      PROVE  /\ Settled(k)'
             /\ <<source[k], temp[k], object[k]>>' = <<source[k], temp[k], object[k]>>
  <2>1. TypeOK
      BY DEF IInv
  <2>2. CASE k = keyOf[p]
      BY <1>2, <2>1, <2>2, SettledMove, OwnMode DEF Settled, Users
  <2>3. CASE k # keyOf[p]
      BY <1>2, <2>1, <2>3, OwnMode DEF Settled, Users
  <2>4. QED
      BY <2>2, <2>3
<1>3. QED
    BY <1>1, <1>2 DEF Next, Finished, Move

\* A settled cache is only read.
THEOREM ObjectsReused == Spec => ObjectsAreReused
<1>1. IInv /\ [Next]_vars => [\A k \in Key : Settled(k) =>
          /\ Settled(k)'
          /\ <<source[k], temp[k], object[k]>>' = <<source[k], temp[k], object[k]>>]_vars
    BY SettledStep
<1>2. QED
    BY <1>1, Invariance, PTL DEF Spec, ObjectsAreReused
=============================================================================
