---------------------------- MODULE RuntimeCache ----------------------------
(***************************************************************************)
(* Native linking in apps/sarifc/src/artifact.rs.  Any number of sarifc    *)
(* processes share the runtime-cache directory: each looks for the         *)
(* compiled C runtime of its build mode, and compiles and publishes it     *)
(* when it is missing.  Nothing locks the directory; every file operation  *)
(* is a step of its own, a process may fail at any of them or be killed    *)
(* between two.                                                            *)
(***************************************************************************)
EXTENDS Naturals, FiniteSets

CONSTANTS
    Proc,               \* sarifc invocations
    Key,                \* runtime_cache_key: one per build mode
    Builds,             \* the build modes invocations may have: functions to Key
    Compilers           \* kinds of C compiler: TRUE if one replaces its output in one step

ASSUME CacheAssumption ==
    /\ Builds \subseteq [Proc -> Key]
    /\ Compilers \subseteq BOOLEAN

\* A file is absent, cut short, whole, or (an object) compiled from a source
\* that was cut short.
Content == {"absent", "partial", "whole", "broken"}

Failed == {"compile failed", "publish failed", "io error"}
Ended == Failed \cup {"done", "crashed"}
Building == {"source", "open", "write", "compile", "read", "compiling", "publish", "recover"}
Running == Building \cup {"lookup", "object"}

VARIABLES
    keyOf,      \* the build mode of each invocation
    atomic,     \* the C compiler replaces its output file in one step
    pc,         \* where each invocation is in link_executable
    source,     \* sarif_runtime_<key>.c
    temp,       \* sarif_runtime_<key>.tmp.o
    object,     \* sarif_runtime_<key>.o
    output,     \* the name behind which each compiler's open output file is
    seen,       \* the source each compiler has read
    tempDir,    \* invocations whose private build directory exists
    linked      \* the runtime object each invocation was linked with

cache == <<source, temp, object>>
setup == <<keyOf, atomic>>
vars == <<setup, pc, source, temp, object, output, seen, tempDir, linked>>

Init ==
    /\ keyOf \in Builds
    /\ atomic \in Compilers
    /\ pc = [p \in Proc |-> "start"]
    /\ source = [k \in Key |-> "absent"]
    /\ temp = [k \in Key |-> "absent"]
    /\ object = [k \in Key |-> "absent"]
    /\ output = [p \in Proc |-> "none"]
    /\ seen = [p \in Proc |-> "absent"]
    /\ tempDir = {}
    /\ linked = [p \in Proc |-> "absent"]

-----------------------------------------------------------------------------
Goto(p, l) == pc' = [pc EXCEPT ![p] = l] /\ UNCHANGED setup

\* Every return from link_executable, with or without an error, drops TempDir.
Return(p, l) == Goto(p, l) /\ tempDir' = tempDir \ {p}

\* TempDir::new; the build plan, the defines and the linker follow from the
\* program and the environment.
link_executable(p) ==
    /\ pc[p] = "start"
    /\ tempDir' = tempDir \cup {p}
    /\ Goto(p, "lookup")
    /\ UNCHANGED <<cache, output, seen, linked>>

\* Mutant: the published object is not looked for.
cached_runtime_object_NoLookup(p) ==
    /\ pc[p] = "lookup"
    /\ Goto(p, "source")
    /\ UNCHANGED <<cache, output, seen, tempDir, linked>>

\* A published object is used as it is.
cached_runtime_object(p) ==
    /\ pc[p] = "lookup"
    /\ Goto(p, IF object[keyOf[p]] # "absent" THEN "object" ELSE "source")
    /\ UNCHANGED <<cache, output, seen, tempDir, linked>>

\* Mutant: the source is written by every invocation that compiles.
CheckSource_Always(p) ==
    /\ pc[p] = "source"
    /\ Goto(p, "open")
    /\ UNCHANGED <<cache, output, seen, tempDir, linked>>

\* The source is written unless a file of that name exists, whole or not.
CheckSource(p) ==
    /\ pc[p] = "source"
    /\ Goto(p, IF source[keyOf[p]] # "absent" THEN "compile" ELSE "open")
    /\ UNCHANGED <<cache, output, seen, tempDir, linked>>

\* fs::write creates or truncates the file, then fills it.
OpenSource(p) ==
    /\ pc[p] = "open"
    /\ source' = [source EXCEPT ![keyOf[p]] = "partial"]
    /\ Goto(p, "write")
    /\ UNCHANGED <<temp, object, output, seen, tempDir, linked>>

FillSource(p) ==
    /\ pc[p] = "write"
    /\ source' = [source EXCEPT ![keyOf[p]] = "whole"]
    /\ Goto(p, "compile")
    /\ UNCHANGED <<temp, object, output, seen, tempDir, linked>>

-----------------------------------------------------------------------------
\* Mutant: the compiler is given object_path itself as its output.
StartCompiler_IntoObject(p) ==
    /\ pc[p] = "compile"
    /\ object' = [object EXCEPT ![keyOf[p]] = "partial"]
    /\ output' = [output EXCEPT ![p] = "object"]
    /\ Goto(p, "read")
    /\ UNCHANGED <<source, temp, seen, tempDir, linked>>

\* The compiler.  One that does not replace its output in one step empties
\* temp_object first, and whoever had that file open shares it from then on.
StartCompiler(p) ==
    LET k == keyOf[p]
    IN  /\ pc[p] = "compile"
        /\ IF atomic THEN UNCHANGED <<temp, output>>
           ELSE /\ temp' = [temp EXCEPT ![k] = "partial"]
                /\ output' = [output EXCEPT ![p] = "temp"]
        /\ Goto(p, "read")
        /\ UNCHANGED <<source, object, seen, tempDir, linked>>

ReadSource(p) ==
    /\ pc[p] = "read"
    /\ seen' = [seen EXCEPT ![p] = source[keyOf[p]]]
    /\ Goto(p, "compiling")
    /\ UNCHANGED <<cache, output, tempDir, linked>>

\* A source cut short, the empty one included, may compile.
Compiled(p) == IF seen[p] = "whole" THEN "whole" ELSE "broken"

FinishCompiler(p) ==
    LET k == keyOf[p]
    IN  /\ pc[p] = "compiling"
        /\ temp' = IF atomic \/ output[p] = "temp"
                   THEN [temp EXCEPT ![k] = Compiled(p)] ELSE temp
        /\ object' = IF output[p] = "object"
                     THEN [object EXCEPT ![k] = Compiled(p)] ELSE object
        /\ output' = [output EXCEPT ![p] = "none"]
        /\ Goto(p, "publish")
        /\ UNCHANGED <<source, seen, tempDir, linked>>

\* Or it is rejected; the compiler then removes temp_object by its name.
RejectSource(p) ==
    LET k == keyOf[p]
    IN  /\ pc[p] = "compiling"
        /\ seen[p] # "whole"
        /\ temp' = [temp EXCEPT ![k] = "absent"]
        /\ output' = [q \in Proc |->
                         IF q = p \/ (keyOf[q] = k /\ output[q] = "temp")
                         THEN "none" ELSE output[q]]
        /\ Return(p, "compile failed")
        /\ UNCHANGED <<source, object, seen, linked>>

-----------------------------------------------------------------------------
\* rename replaces the object in one step, with whatever file has the name
\* temp_object by then, and fails when another invocation moved that file.
Publish(p) ==
    LET k == keyOf[p]
    IN  /\ pc[p] = "publish"
        /\ IF temp[k] = "absent"
           THEN Goto(p, "recover") /\ UNCHANGED <<temp, object, output>>
           ELSE /\ object' = [object EXCEPT ![k] = temp[k]]
                /\ temp' = [temp EXCEPT ![k] = "absent"]
                /\ output' = [q \in Proc |->
                       IF keyOf[q] # k THEN output[q]
                       ELSE IF output[q] = "temp" THEN "object" ELSE "none"]
                /\ Goto(p, "object")
        /\ UNCHANGED <<source, seen, tempDir, linked>>

\* Mutant: a failed rename is an error even when an object is there.
Recover_GiveUp(p) ==
    /\ pc[p] = "recover"
    /\ Return(p, "publish failed")
    /\ UNCHANGED <<cache, output, seen, linked>>

\* Mutant: a failed rename is tried again.
Recover_Retry(p) ==
    /\ pc[p] = "recover"
    /\ Goto(p, "publish")
    /\ UNCHANGED <<cache, output, seen, tempDir, linked>>

\* After a failed rename the object another invocation published will do.
Recover(p) ==
    LET k == keyOf[p]
    IN  /\ pc[p] = "recover"
        /\ IF object[k] = "absent"
           THEN Return(p, "publish failed") /\ UNCHANGED <<temp, output>>
           ELSE /\ temp' = [temp EXCEPT ![k] = "absent"]
                /\ output' = [q \in Proc |->
                       IF keyOf[q] = k /\ output[q] = "temp" THEN "none" ELSE output[q]]
                /\ Goto(p, "object")
                /\ UNCHANGED tempDir
        /\ UNCHANGED <<source, object, seen, linked>>

\* module.o and the metadata go to the private directory; the linker reads
\* the published object.
Link(p) ==
    /\ pc[p] = "object"
    /\ linked' = [linked EXCEPT ![p] = object[keyOf[p]]]
    /\ Return(p, "done")
    /\ UNCHANGED <<cache, output, seen>>

\* A directory, a file or a tool that is missing is reported to the caller.
IoError(p) ==
    /\ pc[p] \in {"lookup", "open", "compile", "object"}
    /\ Return(p, "io error")
    /\ UNCHANGED <<cache, output, seen, linked>>

\* The process and its compiler are killed; what they wrote stays.
Crash(p) ==
    /\ pc[p] \in Running
    /\ Goto(p, "crashed")
    /\ output' = [output EXCEPT ![p] = "none"]
    /\ UNCHANGED <<cache, seen, tempDir, linked>>

Step(p) ==
    \/ link_executable(p) \/ cached_runtime_object(p)
    \/ CheckSource(p) \/ OpenSource(p) \/ FillSource(p)
    \/ StartCompiler(p) \/ ReadSource(p) \/ FinishCompiler(p) \/ RejectSource(p)
    \/ Publish(p) \/ Recover(p) \/ Link(p)

Finished == (\A p \in Proc : pc[p] \in Ended) /\ UNCHANGED vars

Next == (\E p \in Proc : Step(p) \/ IoError(p) \/ Crash(p)) \/ Finished

\* The operating system schedules every invocation that can run.
Fairness == \A p \in Proc : WF_vars(Step(p))

Spec == Init /\ [][Next]_vars /\ Fairness
-----------------------------------------------------------------------------

Users(k) == {p \in Proc : keyOf[p] = k}

\* With a compiler that replaces its output in one step, no invocation ever
\* finds a half-written object under the published name, whichever
\* invocations race for the shared temporary name and whichever are killed.
PublishedAtOnce == atomic => \A k \in Key : object[k] # "partial"

\* The race for the shared temporary name is harmless: an invocation fails to
\* publish only when another one's compiler rejected its source and removed
\* the temporary object.
PublishLosesOnlyToReject ==
    \A p \in Proc : pc[p] = "publish failed" =>
        \E q \in Users(keyOf[p]) : pc[q] = "compile failed"

\* Unchanged runtime code is not compiled again: once an object is published
\* and the invocations that missed it are through, no later invocation of that
\* build mode starts to build it or touches its cache files.
Settled(k) == object[k] # "absent" /\ \A p \in Users(k) : pc[p] \notin Building

ObjectsAreReused ==
    [][\A k \in Key : Settled(k) =>
          /\ Settled(k)'
          /\ <<source[k], temp[k], object[k]>>' = <<source[k], temp[k], object[k]>>]_vars

\* Compiling and publishing are crash-safe: once the source is whole, with
\* nobody left to rewrite it and no truncated copy of it on the way, the
\* build mode only ever sees whole objects, whatever races or dies later (with a
\* compiler that replaces its output in one step).
Sound(k) ==
    /\ source[k] = "whole"
    /\ temp[k] \in {"absent", "whole"}
    /\ object[k] \in {"absent", "whole"}
    /\ \A p \in Users(k) :
          /\ pc[p] \notin {"open", "write"}
          /\ pc[p] = "compiling" => seen[p] = "whole"

SoundStaysSound == [][atomic => \A k \in Key : Sound(k) => Sound(k)']_vars

\* No invocation waits for another: each one ends, with a result, an error or
\* by being killed.
EveryBuildEnds == \A p \in Proc : <>(pc[p] \in Ended)

\* The runtime object a build is linked with is the runtime, compiled.
LinkedWithTheRuntime == \A p \in Proc : linked[p] \in {"absent", "whole"}
-----------------------------------------------------------------------------
(* The instance: all invocations of one build mode, or one of another.     *)
MC_Builds ==
    LET k0 == CHOOSE k \in Key : TRUE
        k1 == CHOOSE k \in Key : k # k0
        p0 == CHOOSE p \in Proc : TRUE
    IN  {[p \in Proc |-> k0], [p \in Proc |-> IF p = p0 THEN k1 ELSE k0]}
=============================================================================
