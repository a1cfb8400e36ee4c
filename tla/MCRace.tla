------------------------------- MODULE MCRace -------------------------------
(****************************************************************************)
(* Inputs for RaceDetector: programs put together from pieces of code, with *)
(* the sessions that analyse them.                                          *)
(****************************************************************************)
EXTENDS RaceDetector

\* an access to a variable, and one through a pointer
S(v)       == <<[op |-> "stmt", var |-> v, loc |-> v]>>
P(v, l)    == <<[op |-> "stmt", var |-> v, loc |-> l]>>
R          == <<[op |-> "ret"]>>
F(f, h)    == <<[op |-> "fork", fun |-> f, h |-> h, idx |-> Plain]>>
J(h)       == <<[op |-> "join", h |-> h, idx |-> Plain]>>
C(f)       == <<[op |-> "call", fun |-> f]>>
A(l)       == <<[op |-> "lock", l |-> l]>>
U(l)       == <<[op |-> "unlock", l |-> l]>>
If(p)      == <<[op |-> "br", by |-> Len(p) + 1]>> \o p
Loop(t, p) == <<[op |-> "goto", by |-> 1], [op |-> "head", by |-> Len(p) + 2, trip |-> t]>>
              \o p \o <<[op |-> "goto", by |-> -1 - Len(p)]>>

\* into the element of array h that the counter of the loop selects; into h through a
\* pointer that may point to any of H
Fi(f, h)    == <<[op |-> "fork", fun |-> f, h |-> h, idx |-> Counter]>>
Fp(f, h, H) == <<[op |-> "fork", fun |-> f, h |-> h, idx |-> Plain, pts |-> H]>>

\* x and y are variables of the files f and g, p a pointer in f, q one without debug
\* information; the location of z names no file
fileOf == ("x" :> "f") @@ ("p" :> "f") @@ ("y" :> "g") @@ ("z" :> "")

config(shared, fs, ms, vs) == [shared |-> shared, files |-> fs, methods |-> ms, vars |-> vs]
empty == <<{}, {}>>

named(c) == {i.fun : i \in {j \in ToSet(c) : j.op \in {"call", "fork"}}}

\* the functions that main reaches, each with its return; k leaves a lock to its caller
input(main, a, b, g, opts, old, n) ==
  LET code == ("main" :> main \o R) @@ ("a" :> a \o R) @@ ("b" :> b \o R) @@ ("g" :> g \o R)
                @@ ("h" :> P("x", "p") \o R) @@ ("k" :> A("n") \o R)
      grow(T) == T \cup UNION {named(code[f]) : f \in T}
      fs == grow(grow(grow({"main"})))
  IN [body |-> [f \in fs |-> code[f]], file |-> fileOf,
      order |-> SelectSeq(<<"k", "h", "g", "b", "a", "main">>, LAMBDA f : f \in fs),
      options |-> opts, logs |-> old, sessions |-> n]

-----------------------------------------------------------------------------
(* Every routine has its own handle, every function but one call site, and main does *)
(* not run two instances of a thread.                                                *)

mains == {S("x") \o F("a", "s") \o F("b", "t") \o S("x") \o J("s") \o S("x"),
          F("a", "s") \o If(J("s")) \o S("x") \o F("b", "t") \o J("t") \o S("x"),
          Loop(2, S("x") \o Fi("a", "s")) \o F("b", "t") \o S("x"),
          Fp("a", "s", {"s", "t"}) \o F("b", "t") \o J("t") \o S("x") \o J("s"),
          F("a", "s") \o J("s") \o C("k") \o S("x") \o C("b") \o U("n")}

routinesA == {S("x"), C("g") \o S("y"), A("l") \o C("g") \o U("l"), Loop(0, A("l") \o S("x") \o U("l"))}
routinesB == {P("x", "p"), If(A("l") \o S("x")) \o S("y") \o U("l"), F("h", "u") \o S("x") \o J("u")}
helpers   == {S("x") \o If(S("y")), A("m") \o P("x", "p") \o U("m")}

DetectPrograms ==
  {input(x, a, b, g, {config(FALSE, TRUE, TRUE, TRUE)}, {empty}, 1) :
     x \in mains, a \in routinesA, b \in routinesB, g \in helpers}

-----------------------------------------------------------------------------
(* Small programs under every configuration, twice, and logs older sessions left *)

configs == {config(FALSE, TRUE, FALSE, FALSE), config(FALSE, TRUE, TRUE, TRUE), config(FALSE, FALSE, TRUE, TRUE),
            config(FALSE, FALSE, FALSE, TRUE), config(TRUE, TRUE, TRUE, TRUE), config(TRUE, FALSE, FALSE, TRUE)}

oldLogs == {empty, <<{}, {src("f"), src("g")}>>, <<{src("g")}, {method}>>, <<{varOf("x")}, {varOf("x")}>>}

LogPrograms ==
  {input(F("a", "s") \o F("b", "t") \o S("y"), a, P("x", "p"), S("y"), configs, oldLogs, 2) :
     a \in {S("x") \o S("z"), C("g")}}

\* one routine in two threads
SameRoutinePrograms ==
  {input(F("a", "s") \o F("a", "t"), S("x"), S("x"), S("x"), {config(FALSE, TRUE, TRUE, TRUE)}, {empty}, 1)}

AllPrograms == DetectPrograms \cup LogPrograms
=============================================================================
