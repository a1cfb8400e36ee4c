-------------------------------- MODULE MCSaber --------------------------------
(****************************************************************************)
(* The programs SABER is checked on: shapes of a function of up to seven    *)
(* blocks, each with its ways to allocate, test, pass on and free a value,  *)
(* and programs of several functions.                                       *)
(****************************************************************************)
EXTENDS Saber

Shapes == [
  line     |-> << <<2>>, <<>> >>,
  ifThen   |-> << <<2, 3>>, <<3>>, <<>> >>,
  diamond  |-> << <<2, 3>>, <<4>>, <<4>>, <<>> >>,
  twoIfs   |-> << <<2, 3>>, <<3>>, <<4, 5>>, <<5>>, <<>> >>,
  nested   |-> << <<2, 5>>, <<3, 4>>, <<5>>, <<5>>, <<>> >>,
  switch   |-> << <<2, 3, 4>>, <<5>>, <<5>>, <<5>>, <<>> >>,
  while    |-> << <<2>>, <<3, 4>>, <<2>>, <<>> >>,
  doWhile  |-> << <<2>>, <<3>>, <<2, 4>>, <<>> >>,
  break    |-> << <<2>>, <<3, 5>>, <<4, 5>>, <<2>>, <<>> >>,
  breakOut |-> << <<2>>, <<3, 5>>, <<4, 6>>, <<2>>, <<7>>, <<7>>, <<>> >>,
  longWay  |-> << <<2, 4>>, <<3, 7>>, <<4>>, <<5, 6>>, <<4>>, <<7>>, <<>> >>,
  exit     |-> << <<2, 3>>, <<>>, <<>> >>,
  exitLoop |-> << <<2>>, <<3, 5>>, <<4, 6>>, <<2>>, <<>>, <<>> >> ]

ShapeNames == DOMAIN Shapes

\* block where the program exits
quitsAt == [s \in ShapeNames |-> CASE s = "exit" -> 2 [] s = "exitLoop" -> 6 [] OTHER -> 0]

ins(op, def, arg) == [op |-> op, def |-> def, arg |-> arg]
mallocOf(def)     == [op |-> "malloc", def |-> def]
phiOf(def, from)  == [op |-> "phi", def |-> def, from |-> from]
callOf(def, f, arg) == [op |-> "call", def |-> def, fun |-> f, arg |-> arg]
QuitInst          == [op |-> "exit"]

\* one function of a shape
oneFunction(s, code, test) ==
  [code |-> [b \in DOMAIN code |-> IF b = quitsAt[s] THEN Append(code[b], QuitInst) ELSE code[b]],
   succ |-> Shapes[s], fun |-> [b \in DOMAIN code |-> Main],
   entry |-> Main :> 1, last |-> Main :> Len(code), param |-> Main :> Nil, ret |-> Main :> Nil,
   test |-> test]

below == [s \in ShapeNames |-> [m \in DOMAIN Shapes[s] |->
            {b \in DOMAIN Shapes[s] : dominates(oneFunction(s, Shapes[s], <<>>), m, b)}]]

FreeName == <<"f1", "f2", "f3", "f4", "f5", "f6", "f7">>
LoadName == <<"l1", "l2", "l3", "l4", "l5", "l6", "l7">>

SmallSubsets(S) == {{}} \cup {{x, y} : x, y \in S}

\* tests of the value p at one branch below m, or none
tests(s, m) ==
  {<<>>} \cup {b :> [val |-> "p", op |-> o] : b \in {x \in below[s][m] : Len(Shapes[s][x]) = 2}, o \in {"eq", "ne"}}

\* p is allocated in block m and freed in the blocks F, directly, by a copy or from memory
allocFree(s, m, F, how, test) ==
  LET start == <<mallocOf("p")>> \o CASE how = "direct" -> <<>>
                                      [] how = "copy"   -> <<ins("copy", "q", "p")>>
                                      [] how = "memory" -> <<ins("store", "v", "p")>>
      end(b) == CASE how = "direct" -> <<ins("free", FreeName[b], "p")>>
                  [] how = "copy"   -> <<ins("free", FreeName[b], "q")>>
                  [] how = "memory" -> <<ins("load", LoadName[b], "v"), ins("free", FreeName[b], LoadName[b])>>
  IN oneFunction(s, [b \in DOMAIN Shapes[s] |->
                       (IF b = m THEN start ELSE <<>>) \o (IF b \in F THEN end(b) ELSE <<>>)], test)

MallocBlocks == {x \in ShapeNames \X (1..3) : x[2] \in DOMAIN Shapes[x[1]]}

DirectPrograms ==
  UNION {{allocFree(s, m, F, "direct", t) : F \in SmallSubsets(below[s][m]), t \in tests(s, m)} :
           <<s, m>> \in MallocBlocks}

PassedPrograms ==
  UNION {{allocFree(s, m, F, how, t) : F \in {{b, Len(Shapes[s])} : b \in below[s][m]} \ {{m}},
                                       how \in {"copy", "memory"}, t \in tests(s, m)} :
           <<s, m>> \in {x \in MallocBlocks : Len(Shapes[x[1]]) \in below[x[1]][x[2]]}}

\* x is p or, from other, another value; it is freed in the blocks F
phiProgram(s, join, from, mallocs, F) ==
  oneFunction(s, [b \in DOMAIN Shapes[s] |->
                    (IF b \in DOMAIN mallocs THEN <<mallocOf(mallocs[b])>> ELSE <<>>)
                    \o (IF b = join THEN <<phiOf("x", from)>> ELSE <<>>)
                    \o (IF b \in F THEN <<ins("free", FreeName[b], "x")>> ELSE <<>>)], <<>>)

PhiPrograms ==
  {phiProgram(s, 2, 1 :> "p" @@ n :> y, 1 :> "p", F) :
     <<s, n>> \in {<<"while", 3>>, <<"doWhile", 3>>, <<"break", 4>>}, y \in {"x", Nil}, F \in {{2}, {3}, {4}, {3, 4}}}
  \cup {phiProgram("diamond", 4, 2 :> y @@ 3 :> z, 2 :> "p" @@ 3 :> "r", {4}) : y \in {"p", Nil}, z \in {"r", Nil}}
  \cup {phiProgram("ifThen", 3, 1 :> y @@ 2 :> z, 1 :> "p", {3}) : y, z \in {"p", Nil}}

-----------------------------------------------------------------------------
(* Several functions.  parts: functions to [code, succ, param, ret], their  *)
(* blocks numbered from the first on.                                       *)

function(code, succ, param, ret) == [code |-> code, succ |-> succ, param |-> param, ret |-> ret]

\* functions of the names Main, "g1", "g2", ... one after the other
Names == <<Main, "g1", "g2", "g3", "g4">>

linked(parts, test) ==
  LET n    == Len(parts)
      code == FoldLeft(LAMBDA a, f : a \o f.code, <<>>, parts)
      before[k \in 1..n] == IF k = 1 THEN 0 ELSE before[k - 1] + Len(parts[k - 1].code)
      owner(b) == Max({k \in 1..n : before[k] < b})
      of(k, f) == Names[k] :> f
      number(f) == CHOOSE k \in 1..n : Names[k] = f
      funs == {Names[k] : k \in 1..n}
  IN [code |-> code,
      succ |-> [b \in DOMAIN code |-> LET k == owner(b) IN [j \in DOMAIN parts[k].succ[b - before[k]] |->
                                                             before[k] + parts[k].succ[b - before[k]][j]]],
      fun   |-> [b \in DOMAIN code |-> Names[owner(b)]],
      entry |-> [f \in funs |-> before[number(f)] + 1],
      last  |-> [f \in funs |-> before[number(f)] + Len(parts[number(f)].code)],
      param |-> [f \in funs |-> parts[number(f)].param],
      ret   |-> [f \in funs |-> parts[number(f)].ret],
      test  |-> test]

Line    == << <<>> >>
IfThen  == Shapes.ifThen
Diamond == Shapes.diamond
main(code, succ) == function(code, succ, Nil, Nil)
P0 == mallocOf("p")
A0 == mallocOf("a")
freeOf(f, x) == ins("free", f, x)

\* wrappers of free
release  == function(<< <<freeOf("f", "x")>> >>, Line, "x", Nil)
someRelease == function(<< <<>>, <<freeOf("f", "x")>>, <<>> >>, IfThen, "x", Nil)
callRel(x) == callOf(Nil, "g1", x)

FreeWrappers ==
  {linked(<<main(c, Diamond), r>>, t) :
     c \in { << <<P0>>, <<callRel("p")>>, <<>>, <<>> >>, << <<P0>>, <<callRel("p")>>, <<callRel("p")>>, <<>> >>,
             << <<P0>>, <<>>, <<>>, <<callRel("p")>> >>, << <<P0, A0>>, <<callRel("p")>>, <<callRel("a")>>, <<>> >>,
             << <<P0, A0>>, <<callRel("a")>>, <<>>, <<callRel("p")>> >> },
     r \in {release, someRelease}, t \in {<<>>, 1 :> [val |-> "p", op |-> "ne"]}}

\* wrappers of malloc: plain, of a wrapper, ending the program when there is no memory
mk   == function(<< <<mallocOf("m")>> >>, Line, Nil, "m")
mk2  == function(<< <<callOf("k", "g2", Nil)>> >>, Line, Nil, "k")
xmk  == function(<< <<mallocOf("m")>>, <<QuitInst>>, <<>> >>, Shapes.exit, Nil, "m")
kept == function(<< <<mallocOf("m"), ins("store", "v", "m")>> >>, Line, Nil, "m")
\* a new object, or the argument
reuse == function(<< <<>>, <<mallocOf("m")>>, <<phiOf("x", 2 :> "x0" @@ 3 :> "m")>> >>, IfThen, "x0", "x")
users == {main(<< <<callOf("q", "g1", Nil)>>, <<freeOf("f", "q")>>, <<>> >>, IfThen),
          main(<< <<callOf("q", "g1", Nil), callOf("s", "g1", Nil)>>, <<freeOf("f", "q")>>, <<freeOf("h", "s")>> >>, IfThen)}

AllocWrappers ==
  {linked(<<u, mk>>, <<>>) : u \in users} \cup {linked(<<u, kept>>, <<>>) : u \in users}
  \cup {linked(<<u, xmk>>, 4 :> [val |-> "m", op |-> "eq"]) : u \in users}
  \cup {linked(<<u, mk2, mk>>, <<>>) : u \in users}
  \cup {linked(<<main(<< <<P0, callOf("q", "g1", "p")>> \o f >>, Line), reuse>>, <<>>) :
          f \in {<<>>, <<freeOf("f", "p")>>, <<freeOf("f", "q")>>}}

\* functions that pass their argument through, at the end of a chain of calls
pass1(x, y, g) == function(<< <<callOf(y, g, x)>> >>, Line, x, y)
ident(x)       == function(<< <<>> >>, Line, x, x)
chain == <<pass1("x1", "y1", "g2"), pass1("x2", "y2", "g3"), pass1("x3", "y3", "g4"), ident("x4")>>
twice == {main(<< <<P0, A0, callOf("q", "g1", "p"), callOf("r", "g1", "a"), freeOf("f", n)>> >>, Line) :
            n \in {"q", "r", "p"}}
branched == main(<< <<P0>>, <<callOf("q", "g1", "p"), freeOf("f", "q")>>, <<callOf("r", "g1", "p")>>, <<>> >>, Diamond)

Identities ==
  {linked(<<u, ident("x4")>>, <<>>) : u \in twice \cup {branched}}
  \cup {linked(<<u>> \o chain, <<>>) : u \in twice}

\* a recursion, a function nobody calls, and values that globals keep
recursive(d) == function(<< <<>>, <<callOf(d, "g1", "x")>>, <<freeOf("f", "x")>>, <<>> >>, Diamond, "x",
                         IF d = Nil THEN Nil ELSE "x")
dead         == function(<< <<mallocOf("m"), freeOf("f", "m")>> >>, Line, Nil, Nil)

Others ==
  {linked(<<main(<< <<P0, callOf(d, "g1", "p")>> >>, Line), recursive(e)>>, <<>>) : d, e \in {Nil}}
  \cup {linked(<<main(<< <<P0>>, <<freeOf("h", "p")>>, <<>> >>, IfThen), dead>>, <<>>)}
  \cup {linked(<<main(<< <<P0>>, a, b, <<>> >>, Diamond)>>, <<>>) :
          a \in {<<ins("global", "g", "p")>>}, b \in {<<>>, <<freeOf("f", "p")>>}}
  \cup {linked(<<main(<< <<P0, callRel("p")>> >>, Line),
                 function(<< <<ins("copy", "c", "x")>>, <<ins("global", "g", "c")>>, <<freeOf("f", "c")>> >>, IfThen, "x", Nil)>>, <<>>)}

MCPrograms == DirectPrograms \cup PassedPrograms \cup PhiPrograms \cup FreeWrappers
              \cup AllocWrappers \cup Identities \cup Others
=============================================================================
