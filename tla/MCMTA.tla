-------------------------------- MODULE MCMTA --------------------------------
(****************************************************************************)
(* Inputs for MTA: programs put together from pieces of code.  A piece is a *)
(* sequence of instructions that ends at the instruction after it; jumps    *)
(* are relative.                                                            *)
(****************************************************************************)
EXTENDS MTA

S          == <<[op |-> "stmt"]>>
R          == <<[op |-> "ret"]>>
F(f, h)    == <<[op |-> "fork", fun |-> f, h |-> h, idx |-> Plain]>>
J(h)       == <<[op |-> "join", h |-> h, idx |-> Plain]>>
C(f)       == <<[op |-> "call", fun |-> f]>>
If(p)      == <<[op |-> "br", by |-> Len(p) + 1]>> \o p
Loop(t, p) == <<[op |-> "head", by |-> Len(p) + 2, trip |-> t]>> \o p \o <<[op |-> "goto", by |-> -1 - Len(p)]>>

\* into, or from, the element of array h the counter of the loop selects
Fi(f, h)   == <<[op |-> "fork", fun |-> f, h |-> h, idx |-> Counter]>>
Ji(h)      == <<[op |-> "join", h |-> h, idx |-> Counter]>>

A(l)       == <<[op |-> "lock", l |-> l]>>
U(l)       == <<[op |-> "unlock", l |-> l]>>

named(c) == {i.fun : i \in {j \in ToSet(c) : j.op \in {"call", "fork"}}}

\* the functions that main reaches, each with its return
program5(main, a, b, g, h) ==
  LET code == ("main" :> main \o S \o R) @@ ("a" :> a \o R) @@ ("b" :> b \o R)
                @@ ("g" :> g \o R) @@ ("h" :> h \o R)
      grow(T) == T \cup UNION {named(code[f]) : f \in T}
  IN [body |-> [f \in grow(grow(grow({"main"}))) |-> code[f]]]

program(main, a, b, g) == program5(main, a, b, g, S)

-----------------------------------------------------------------------------
(* Main forks, then joins or calls, then forks again; a, b and g also call, *)
(* fork and join.                                                           *)

openings == {F("a", "s"), Loop(2, Fi("a", "s")), Loop(0, F("a", "s") \o If(J("s"))), F("a", "s") \o F("b", "t")}
closings == {J("s"), If(J("s")), Loop(2, Ji("s") \o If(S)), S}
sequels  == {F("b", "t") \o J("t"), F("b", "t"), C("g") \o J("t"), Loop(2, C("g"))}
routines == {S, F("b", "u") \o S \o J("u"), C("b") \o S}
helpers  == {F("b", "t"), C("b") \o S, F("b", "t") \o If(J("t"))}

\* recursions of forks, a recursion of calls that forks, a thread with two children, a
\* join in a function of its own, a loop that joins fewer than were forked; a program of
\* one thread
special ==
  {program(F("a", "s"), If(F("a", "u") \o If(J("u"))) \o S, S, S),
   program(F("a", "s"), If(F("b", "u")), If(F("a", "v")), S),
   program(F("a", "s") \o J("s"), S \o If(C("a")) \o C("g"), S, F("b", "t") \o J("t")),
   program(F("a", "s") \o S \o J("s"), F("b", "u") \o J("u") \o F("b", "v") \o J("v"), S, S),
   program(F("a", "s") \o F("b", "t") \o C("g"), F("b", "u") \o J("u"), S, J("s")),
   program(F("a", "s"), Loop(2, Fi("b", "u")) \o Loop(1, Ji("u")), S, S),
   program(A("l") \o S \o U("l"), S, S, S)}

ThreadPrograms == special \cup
  {program(x \o y \o z, a, S, g) : x \in openings, y \in closings, z \in sequels, a \in routines, g \in helpers}

\* every order of two forks, their joins and accesses, in main alone
items == {F("a", "s"), F("b", "t"), J("s"), J("t"), S}

once(p, x) == Cardinality({i \in DOMAIN p : p[i] = x}) <= 1

StraightLinePrograms ==
  {program(p[1] \o p[2] \o p[3] \o p[4] \o p[5], S, S, S) :
     p \in {q \in [1..5 -> items] : /\ once(q, F("a", "s")) /\ once(q, F("b", "t"))
                                    /\ ToSet(q) \cap {F("a", "s"), F("b", "t")} # {}}}

-----------------------------------------------------------------------------
(* Two threads that lock around accesses: under a condition, in a loop, nested, in   *)
(* calls, acquiring and releasing in functions of their own.  None releases on some  *)
(* ways only, forks while it holds a lock, or calls a function again after a release. *)

sections(l, m) ==
  {S \o A(l) \o S \o U(l) \o S, A(l) \o If(S) \o S \o U(l), If(A(l)) \o S \o If(U(l)), If(A(l)) \o S \o U(l),
   S \o If(A(l) \o If(S) \o U(l)), A(l) \o If(U(l) \o S \o A(l)) \o S \o U(l),
   A(l) \o A(m) \o S \o U(m) \o S \o U(l), A(m) \o S \o U(m) \o A(l) \o S \o U(l), A(l) \o S \o U(m) \o S \o U(l),
   Loop(0, A(l) \o S \o U(l)), A(l) \o Loop(0, S) \o U(l), Loop(2, S \o A(l) \o If(S) \o U(l))}

\* g acquires l and h releases it
acrossCalls ==
  {C("g") \o S \o C("h") \o S, If(C("g")) \o S \o C("h"), Loop(0, C("g") \o S) \o C("h"),
   A("m") \o C("g") \o S \o U("m") \o S \o C("h"), If(C("g") \o S) \o If(A("l") \o S) \o S}

sharing == {F("a", "s") \o F("b", "t"), Loop(2, Fi("a", "s")) \o A("l") \o S \o U("l"),
            F("a", "s") \o A("l") \o S \o J("s") \o U("l")}

LockPrograms ==
  {program5(x, a, b, A("l"), U("l")) : x \in sharing, a \in sections("l", "m") \cup acrossCalls, b \in sections("l", "m")}
  \cup {program5(x, A("l") \o S \o C("g") \o S \o U("l"), b, g, S) :
          x \in sharing, b \in sections("l", "m"), g \in {S, If(C("h")) \o S, S \o If(C("g"))}}

AllPrograms == ThreadPrograms \cup StraightLinePrograms \cup LockPrograms

-----------------------------------------------------------------------------
(* The programs of the findings *)

\* releases on one of two ways
PartialReleasePrograms == {program(F("a", "s") \o F("b", "t"), A("l") \o S \o If(U("l")) \o S, A("l") \o S \o U("l"), S)}

\* forks twice into one handle, joins it once
ReforkPrograms == {program(Loop(2, F("a", "s")) \o J("s"), S, S, S)}
=============================================================================
