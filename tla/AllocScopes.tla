---------------------------- MODULE AllocScopes ----------------------------
(***************************************************************************)
(* What `with_arena { ... }` promises, whatever the backend: allocation    *)
(* scopes nest.  Closing a scope gives back exactly the objects that were  *)
(* allocated since it was opened; every older object survives.  The native *)
(* runtime (NativeArena), the JIT (JitArena) and the Wasm runtime          *)
(* (WasmArena) each implement this specification.                          *)
(***************************************************************************)
EXTENDS Sequences, FiniteSets, Naturals

CONSTANT Object       \* names for allocated objects

VARIABLES live,       \* the objects the program may still use
          scopes      \* the open scopes, outermost first: what each protects

vars == <<live, scopes>>

Init ==
    /\ live = {}
    /\ scopes = <<>>

Alloc(o) ==
    /\ o \notin live
    /\ live' = live \cup {o}
    /\ UNCHANGED scopes

Push ==
    /\ scopes' = Append(scopes, live)
    /\ UNCHANGED live

Pop ==
    /\ scopes # <<>>
    /\ live' = scopes[Len(scopes)]
    /\ scopes' = SubSeq(scopes, 1, Len(scopes) - 1)

Next == (\E o \in Object : Alloc(o)) \/ Push \/ Pop

Spec == Init /\ [][Next]_vars
=============================================================================
