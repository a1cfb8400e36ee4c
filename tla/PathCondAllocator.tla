-------------------------- MODULE PathCondAllocator --------------------------
(****************************************************************************)
(* PathCondAllocator: under which outcomes of the branches control gets     *)
(* from one block to another.                                               *)
(*                                                                          *)
(* A condition is a BDD in the code; here it is the set of valuations that  *)
(* satisfy it.  A valuation gives a number to every block with more than    *)
(* one successor: the bits its decision variables take.                     *)
(****************************************************************************)
EXTENDS SaberProgram

branching(P) == {b \in blocks(P) : Len(P.succ[b]) > 1}

\* bit_num decision variables, the least number that tells the successors apart
bitNum(n) == CHOOSE k \in 0..n : 2^k >= n /\ \A j \in 0..(k - 1) : 2^j < n

Valuations(P) ==
  {v \in [branching(P) -> 0..Max({2^bitNum(Len(P.succ[b])) - 1 : b \in branching(P)} \cup {0})] :
     \A b \in branching(P) : v[b] < 2^bitNum(Len(P.succ[b]))}

\* allocateForBB and getBranchCond.  A successor listed twice has one condition, that
\* of its last place.
getBranchCond(P, b, s) ==
  IF Len(P.succ[b]) = 1 THEN Valuations(P)
  ELSE {v \in Valuations(P) : v[b] = Max({k \in DOMAIN P.succ[b] : P.succ[b][k] = s}) - 1}

-----------------------------------------------------------------------------

\* blocks that only lead to a call of exit (collectBBCallingProgExit, isBBCallsProgExit)
callsProgExit(P) ==
  {b \in blocks(P) : \E i \in named(P, "exit") : P.fun[i[1]] = P.fun[b] /\ postDominates(P, i[1], b)}

\* What is known of a program: these blocks, the exits of every loop that are not among
\* them, the post-dominators, and all valuations.
allocate(P) ==
  LET quits == callsProgExit(P)
  IN [quits |-> quits,
      exits |-> [h \in loopHeaders(P) |-> getExitBlocks(P, h) \ quits],
      pdom  |-> {p \in blocks(P) \X blocks(P) : P.fun[p[1]] = P.fun[p[2]] /\ postDominates(P, p[1], p[2])},
      all   |-> Valuations(P)]

\* b is the header of a loop and dst is certain to be reached from all its exits
evaluateLoopExitBranch(info, b, dst) ==
  b \in DOMAIN info.exits /\ \A e \in info.exits[b] : <<dst, e>> \in info.pdom

\* mutated: the comparison is not looked at
takenIfNullFirst(P, b, s) == P.succ[b][1] = s

\* the comparison at the end of b sends a null value to s
takenIfNull(P, b, s) == (P.test[b].op = "eq") = (P.succ[b][1] = s)

\* a successor that only leads to exit is never taken, one beside it always
evaluateProgExit(info, s) == IF s \in info.quits THEN {} ELSE info.all

\* what a branch to s is worth when the value val is known not to be null
evaluateBranchCond(P, info, b, s, val) ==
  LET two == Len(P.succ[b]) = 2
  IN IF two /\ evaluateLoopExitBranch(info, b, s) THEN info.all
     ELSE IF two /\ succs(P, b) \cap info.quits # {} THEN evaluateProgExit(info, s)
     ELSE IF two /\ b \in DOMAIN P.test /\ P.test[b].val = val
          THEN IF takenIfNull(P, b, s) THEN {} ELSE info.all
     ELSE getBranchCond(P, b, s)

getEvalBrCond(P, info, b, s, val) ==
  IF val = Nil THEN getBranchCond(P, b, s) ELSE evaluateBranchCond(P, info, b, s, val)

-----------------------------------------------------------------------------
(* The guards.  m is bbToCondMap, the conditions found for blocks so far;   *)
(* a computation yields its guard and the map it leaves behind.             *)

getCFCond(m, b) == IF b \in DOMAIN m THEN m[b] ELSE {}
guard(c, m)     == [cond |-> c, map |-> m]
pushed(q, b)    == IF b \in ToSet(q) THEN q ELSE Append(q, b)

withCond(m, b, c) == [x \in DOMAIN m \cup {b} |-> IF x = b THEN c ELSE m[x]]

\* the worklist loop is left: nothing to do, or at a loop whose exits all lead to dst
solvedCF(info, st, dst) == st.q = <<>> \/ evaluateLoopExitBranch(info, Head(st.q), dst)

\* block s gets condition c and is queued if that is new
setCFCond(st, s, c) ==
  IF s \in DOMAIN st.map /\ st.map[s] = c THEN st
  ELSE [map |-> withCond(st.map, s, c), q |-> pushed(st.q, s)]

\* one turn of it
visitBB(P, info, st, val) ==
  LET b == Head(st.q)
      visit(r, s) ==
        LET br == IF <<s, b>> \in info.pdom THEN info.all ELSE getEvalBrCond(P, info, b, s, val)
        IN setCFCond(r, s, getCFCond(r.map, s) \cup (getCFCond(st.map, b) \cap br))
  IN FoldLeft(visit, [map |-> st.map, q |-> Tail(st.q)], P.succ[b])

turnCF(P, info, st, dst, val) == IF solvedCF(info, st, dst) THEN st ELSE visitBB(P, info, st, val)

\* what was found for dst, or for the loop that leads to it
foundCF(st, dst) == guard(getCFCond(st.map, IF st.q = <<>> THEN dst ELSE Head(st.q)), st.map)

\* A block is queued when its condition becomes weaker, so not more often than there are valuations.
mostTurns(P, info) == 1 + Cardinality(blocks(P)) * (1 + Cardinality(info.all))

solveCF(P, info, m, q, dst, val) ==
  LET turn[k \in 0..mostTurns(P, info)] ==
        IF k = 0 THEN [map |-> m, q |-> q] ELSE turnCF(P, info, turn[k - 1], dst, val)
  IN foundCF(turn[mostTurns(P, info)], dst)

ComputeIntraVFGGuard(P, info, m, src, dst, val) ==
  IF <<dst, src>> \in info.pdom THEN guard(info.all, m)
  ELSE solveCF(P, info, withCond(m, src, info.all), <<src>>, dst, val)

\* from src over bb1 of its function, then from bb2 of the other function, to dst;
\* the map is not emptied in between
twoHalves(P, info, src, bb1, bb2, dst, val) ==
  LET g1 == ComputeIntraVFGGuard(P, info, <<>>, src, bb1, val)
      m  == withCond(g1.map, bb2, getCFCond(g1.map, bb2) \cup getCFCond(g1.map, bb1))
  IN g1.cond \cap ComputeIntraVFGGuard(P, info, m, bb2, dst, val).cond

ComputeInterCallVFGGuard(P, info, src, dst, callBB, val) ==
  twoHalves(P, info, src, callBB, P.entry[P.fun[dst]], dst, val)

ComputeInterRetVFGGuard(P, info, src, dst, retBB, val) ==
  twoHalves(P, info, src, P.last[P.fun[src]], retBB, dst, val)
=============================================================================
