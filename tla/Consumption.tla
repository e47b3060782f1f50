----------------------------- MODULE Consumption -----------------------------
(***************************************************************************)
(* What the runs of a program consume and which effects they perform: the  *)
(* reference for the ownership and effect checks.  Nothing is summarised   *)
(* here: a call runs the body of the function called, a branch goes either *)
(* way, a loop runs up to Iterations times, and calls nest up to Depth.    *)
(*                                                                         *)
(* Every affine value that is bound has a number; a place is that number   *)
(* and the fields below it.  A handle is what an expression denotes while  *)
(* it is not consumed: a place, a record of handles, or nothing affine.    *)
(* A state holds the places consumed, whether some part of one was         *)
(* consumed twice, the effects performed, whether a loop without a literal *)
(* count was entered, and the next number.                                 *)
(***************************************************************************)
EXTENDS TypeCheck

CONSTANTS Iterations, Depth

NoHandle == [k |-> "none"]
At(p) == [k |-> "at", p |-> p]

Overlapping(p, q) == IsPrefix(p, q) \/ IsPrefix(q, p)

(* The part f of what h denotes, of type ty.                               *)
Part(G, h, f, ty) ==
  IF ~ContainsAffine(G, ty, {}) THEN NoHandle
  ELSE CASE h.k = "at" -> At(Append(h.p, f))
         [] h.k = "rec" -> h.fs[f]
         [] OTHER -> NoHandle

(* All that a handle denotes is consumed.                                  *)
RECURSIVE Take(_, _), TakeFields(_, _, _)
Take(s, h) ==
  CASE h.k = "at" -> [s EXCEPT !.gone = @ \cup {h.p},
                               !.twice = @ \/ \E p \in s.gone : Overlapping(p, h.p)]
    [] h.k = "rec" -> TakeFields(s, h.fs, DOMAIN h.fs)
    [] OTHER -> s
TakeFields(s, fs, names) ==
  IF names = {} THEN s
  ELSE LET f == CHOOSE n \in names : TRUE IN TakeFields(Take(s, fs[f]), fs, names \ {f})

Performs(s, effect) == [s EXCEPT !.effects = @ \cup {effect}]

(* A new binding of type ty: env maps names to their type and handle.      *)
Fresh(G, env, s, x, ty, followed) ==
  LET h == IF followed /\ ContainsAffine(G, ty, {}) THEN At(<<s.next>>) ELSE NoHandle
  IN  [s |-> [s EXCEPT !.next = @ + 1], env |-> (x :> [ty |-> ty, h |-> h]) @@ env]

TypeIn(G, env, e) == Infer(G, Scope([x \in DOMAIN env |-> env[x].ty]), "body", e).ty

(* Builtins and operations that leave their arguments with the caller.     *)
Reads == {"text_len", "text_byte", "text_cmp", "text_slice", "list_len", "list_get"}

RECURSIVE Eval(_, _, _, _, _, _, _), EvalAll(_, _, _, _, _, _, _), Again(_, _, _, _, _, _, _), RunStmts(_, _, _, _, _, _)

States(os) == {o.s : o \in os}
Done(ss) == {[s |-> t, h |-> NoHandle] : t \in ss}
Given(s, h, taken) == IF taken THEN [s |-> Take(s, h), h |-> NoHandle] ELSE [s |-> s, h |-> h]

(* A call: the parameters stand for the caller's handles.  The effects a   *)
(* function declares count as performed.  Its contracts are evaluated      *)
(* around its body, and then the result is the caller's.                   *)
CallOf(P, G, d, s, f, hs) ==
  LET F == P.functions[f]
      inner == [x \in ToSet(F.params) |->
                  LET i == CHOOSE n \in DOMAIN F.params : F.params[n] = x
                  IN  [ty |-> F.types[i],
                       h |-> IF ContainsAffine(G, F.types[i], {}) THEN hs[i] ELSE NoHandle]]
      use(env, t, e) == IF e = NoExpr THEN {t} ELSE States(Eval(P, G, d - 1, env, t, e, TRUE))
      after(t) == UNION {{Take(u, r.env["result"].h) : u \in use(r.env, r.s, F.ensures)} :
                           r \in {Fresh(G, inner, t, "result", F.returns, F.ensures # NoExpr)}}
  IN  IF d = 0 THEN {s}
      ELSE UNION {UNION {after(u) : u \in use(inner, t, F.body)} :
                    t \in use(inner, [s EXCEPT !.effects = @ \cup F.effects], F.requires)}

(* A body: its statements, then its tail, whose value is taken.            *)
RunBody(P, G, d, env, s, b) ==
  UNION {IF b.tail = NoExpr THEN {o.s} ELSE States(Eval(P, G, d, o.env, o.s, b.tail, TRUE)) :
           o \in RunStmts(P, G, d, env, s, b.ss)}

(* The arms of a match on what h denotes.                                  *)
RunArms(P, G, d, env, s, e, h) ==
  UNION {LET p == e.arms[i].p
         IN  UNION {States(Eval(P, G, d, [x \in DOMAIN T |-> [ty |-> T[x], h |-> Part(G, h, "$payload", T[x])]] @@ env,
                                s, e.arms[i].b, TRUE)) : T \in {ArmScope(G, NoLocals, TypeIn(G, env, e.e), p).locals}} :
           i \in DOMAIN e.arms}

(* The states after e, an expression or a body, was evaluated, and its     *)
(* value taken or not, each with the handle of what was not.  P has the    *)
(* functions, d is the depth left.                                         *)
Eval(P, G, d, env, s, e, taken) ==
  LET sub(x) == Eval(P, G, d, env, s, x, FALSE)
      all(es, take) == EvalAll(P, G, d, env, s, es, take)
      values(fs) == [i \in DOMAIN fs |-> fs[i].e]
      loop(inner, t) == Again(P, G, d, inner, t, e.b, Iterations)
  IN  IF "ss" \in DOMAIN e THEN Done(RunBody(P, G, d, env, s, e))
      ELSE CASE e.k \in {"name", "result"} ->
             LET x == IF e.k = "name" THEN e.x ELSE "result"
             IN  {Given(s, IF x \in DOMAIN env THEN env[x].h ELSE NoHandle, taken)}
        [] e.k = "field" -> {Given(o.s, Part(G, o.h, e.f, ty), taken) : o \in sub(e.e), ty \in {TypeIn(G, env, e)}}
        [] e.k = "record" ->
             LET whole(hs) == [k |-> "rec", fs |-> [f \in {e.fs[i].f : i \in DOMAIN e.fs} |->
                                 hs[CHOOSE i \in DOMAIN e.fs : e.fs[i].f = f]]]
             IN  {[s |-> o.s, h |-> IF taken THEN NoHandle ELSE whole(o.hs)] : o \in all(values(e.fs), taken)}
        [] e.k = "update" -> Done(States(all(<<e.e>> \o values(e.fs), TRUE)))
        [] e.k = "ctor" -> Done(States(all(e.es, TRUE)))
        [] e.k = "bin" -> Done(States(all(<<e.l, e.r>>, taken /\ e.op \notin {"Eq", "Ne"})))
        [] e.k = "array" -> Done(States(all(e.es, FALSE)))
        [] e.k = "index" -> Done(States(all(<<e.e, e.i>>, FALSE)))
        [] e.k \in {"not", "len"} -> Done(States(sub(e.e)))
        [] e.k = "call" ->
             IF e.f \in DOMAIN P.functions
             THEN Done(UNION {CallOf(P, G, d, o.s, e.f, o.hs) : o \in all(e.es, FALSE)})
             ELSE Done({IF e.f \in Allocating THEN Performs(t, "alloc")
                        ELSE IF e.f = "tcp_send" THEN Performs(t, "io") ELSE t :
                          t \in States(all(e.es, e.f \notin Reads))})
        [] e.k = "perform" -> Done({Performs(t, e.op[1]) : t \in States(all(e.es, TRUE))})
        [] e.k = "if" ->
             Done(UNION {States(Eval(P, G, d, env, t, b, TRUE)) : t \in States(sub(e.c)), b \in {e.t, e.f}})
        [] e.k = "match" -> Done(UNION {RunArms(P, G, d, env, o.s, e, o.h) : o \in sub(e.e)})
        [] e.k = "repeat" ->
             LET inner == IF e.x = NoName THEN env ELSE (e.x :> [ty |-> TI32, h |-> NoHandle]) @@ env
             IN  Done(UNION {loop(inner, [t EXCEPT !.looped = @ \/ e.n.k # "int"]) : t \in States(sub(e.n))})
        [] e.k = "while" -> Done(UNION {loop(env, [t EXCEPT !.looped = TRUE]) : t \in States(sub(e.c))})
        [] e.k \in {"comptime", "handle"} -> Eval(P, G, d, env, s, e.b, TRUE)
        [] OTHER -> {[s |-> s, h |-> NoHandle]}

(* Several expressions in order, with their handles.                       *)
EvalAll(P, G, d, env, s, es, taken) ==
  IF es = <<>> THEN {[s |-> s, hs |-> <<>>]}
  ELSE UNION {{[s |-> o.s, hs |-> <<h.h>> \o o.hs] : o \in EvalAll(P, G, d, env, h.s, Tail(es), taken)} :
                h \in Eval(P, G, d, env, s, Head(es), taken)}

(* Up to n runs of a loop's body.                                          *)
Again(P, G, d, env, s, b, n) ==
  {s} \cup IF n = 0 THEN {}
           ELSE UNION {Again(P, G, d, env, t, b, n - 1) : t \in States(Eval(P, G, d, env, s, b, TRUE))}

RunStmts(P, G, d, env, s, ss) ==
  IF ss = <<>> THEN {[s |-> s, env |-> env]}
  ELSE LET st == Head(ss)
           es == IF st.k = "assignAt" THEN <<st.i, st.e>> ELSE <<st.e>>
           evaluated == States(EvalAll(P, G, d, env, s, es, TRUE))
           after == CASE st.k = "arena" -> RunStmts(P, G, d, env, s, st.b.ss)
                      [] st.k = "let" -> {Fresh(G, env, t, st.x, ty, ~st.mut) :
                                            t \in evaluated, ty \in {TypeIn(G, env, st.e)}}
                      [] OTHER -> {[s |-> t, env |-> env] : t \in evaluated}
       IN  UNION {RunStmts(P, G, d, o.env, o.s, Tail(ss)) : o \in after}

(* The runs of function f, from values of its own for its parameters.      *)
Started(n) == [gone |-> {}, twice |-> FALSE, effects |-> {}, looped |-> FALSE, next |-> n]
Runs(P, G, f) ==
  LET F == P.functions[f]
      env == [x \in ToSet(F.params) |-> [h |-> At(<<CHOOSE i \in DOMAIN F.params : F.params[i] = x>>)]]
  IN  States(Eval(P, G, Depth, env, Started(Len(F.params) + 1),
                  Call(f, [i \in DOMAIN F.params |-> Name(F.params[i])]), FALSE))
=============================================================================
