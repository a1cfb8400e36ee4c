----------------------------- MODULE SaberProgram -----------------------------
(****************************************************************************)
(* The programs SABER's checkers read, and the graphs they read them        *)
(* through: the control-flow graph of basic blocks, with the dominators and *)
(* loops LLVM finds in it, and the sparse value-flow graph of pointers.     *)
(*                                                                          *)
(* A program is in SSA form.  Its instructions are records; def names the   *)
(* value defined, or the version of memory a store makes, or the argument   *)
(* of a call of free, and is also the name of the SVFG node:                *)
(*   [op |-> "malloc", def]            [op |-> "copy", def, arg]            *)
(*   [op |-> "phi", def, from]         from: predecessors to values or Nil  *)
(*   [op |-> "store", def, arg]        [op |-> "load", def, arg]            *)
(*   [op |-> "global", def, arg]       a store to memory a global reaches   *)
(*   [op |-> "free", def, arg]         [op |-> "exit"]                      *)
(*   [op |-> "call", def, fun, arg]                                         *)
(* A program is [code, succ, fun, entry, last, param, ret, test]: code and  *)
(* successors of every block, its function; first and last block, parameter *)
(* and result of every function; and the blocks that end in a comparison    *)
(* of a value with null, [val, op].                                         *)
(****************************************************************************)
EXTENDS Naturals, FiniteSets, SequencesExt

CONSTANTS Main, \* the function the program starts with
          Nil   \* no value

-----------------------------------------------------------------------------
(* The control-flow graph.                                                  *)

blocks(P)   == DOMAIN P.code
succs(P, b) == ToSet(P.succ[b])

insts(P)     == UNION {{<<b, k>> : k \in DOMAIN P.code[b]} : b \in blocks(P)}
at(P, i)     == P.code[i[1]][i[2]]
named(P, op) == {i \in insts(P) : at(P, i).op = op}

\* the blocks that B leads to on ways that avoid block a
ways(P, a, B) ==
  LET grow[n \in 0..Cardinality(blocks(P))] ==
        IF n = 0 THEN B \ {a}
        ELSE LET A == grow[n - 1] IN A \cup (UNION {succs(P, b) : b \in A} \ {a})
  IN grow[Cardinality(blocks(P))]

dominates(P, a, b) == b \notin ways(P, a, {P.entry[P.fun[b]]})

\* every way from b to an end of its function goes through a
postDominates(P, a, b) == a = b \/ \A r \in ways(P, a, {b}) : P.succ[r] # <<>>

latches(P, h)     == {b \in blocks(P) : h \in succs(P, b) /\ dominates(P, h, b)}
loopBlocks(P, h)  == {h} \cup {b \in blocks(P) : ways(P, h, {b}) \cap latches(P, h) # {}}
loopHeaders(P)    == {h \in blocks(P) : latches(P, h) # {}}
getExitBlocks(P, h) == UNION {succs(P, b) : b \in loopBlocks(P, h)} \ loopBlocks(P, h)

-----------------------------------------------------------------------------
(* The value-flow graph: one node for each value, store and argument of     *)
(* free.  Parameters and results of calls are phis of what is passed to     *)
(* them.  The addresses loads and stores dereference do not flow.           *)

defAt(P, n)  == CHOOSE i \in insts(P) : at(P, i).op # "exit" /\ at(P, i).def = n
isParam(P, n) == \E f \in DOMAIN P.param : P.param[f] = n /\ n # Nil
nodeOp(P, n) == IF isParam(P, n) THEN "phi" ELSE at(P, defAt(P, n)).op

getBB(P, n) ==
  IF isParam(P, n) THEN P.entry[CHOOSE f \in DOMAIN P.param : P.param[f] = n] ELSE defAt(P, n)[1]

\* ProgSlice::getLLVMValue
getLLVMValue(P, n) ==
  CASE nodeOp(P, n) \in {"store", "global"} -> Nil
    [] nodeOp(P, n) = "free"                -> at(P, defAt(P, n)).arg
    [] OTHER                                -> n

vfEdge(kind, src, dst, cs) == [kind |-> kind, src |-> src, dst |-> dst, cs |-> cs]

intraEdges(P) ==
  {vfEdge("intra", at(P, i).arg, at(P, i).def, <<>>) :
     i \in UNION {named(P, op) : op \in {"copy", "store", "load", "global", "free"}}}
  \cup UNION {{vfEdge("intra", n, at(P, i).def, <<>>) : n \in Range(at(P, i).from) \ {Nil}} : i \in named(P, "phi")}

callEdges(P) ==
  {vfEdge("call", at(P, i).arg, P.param[at(P, i).fun], i) : i \in {j \in named(P, "call") : at(P, j).arg # Nil}}

retEdges(P) ==
  {vfEdge("ret", P.ret[at(P, i).fun], at(P, i).def, i) : i \in {j \in named(P, "call") : P.ret[at(P, j).fun] # Nil}}

\* SVFG::connectDirectSVFGEdges and SVFGOPT::replaceFParamARetWithPHI, with the edges
\* of memory SSA between a store and the loads of the version it makes
buildSVFG(P) == intraEdges(P) \cup callEdges(P) \cup retEdges(P)

isDeadFunction(P, f) == f # Main /\ \A i \in named(P, "call") : at(P, i).fun # f
=============================================================================
