------------------------------ MODULE Optimize ------------------------------
(***************************************************************************)
(* The optimizer of the filter compiler (optimize.c), as operators on a    *)
(* graph of blocks: value numbering, constant folding, the peephole and    *)
(* dead store passes, the moving of branches, the merging of equal blocks, *)
(* and the conversion of the graph to a program.                           *)
(*                                                                         *)
(* A graph is a sequence of blocks; block 1 is the root while the passes   *)
(* run.  A value number is the term it stands for: F()'s hash table gives  *)
(* equal terms the same number and different ones different numbers.       *)
(***************************************************************************)
EXTENDS Gencode, FiniteSets, SequencesExt

CONSTANT MaxMoves    \* rounds that only move branches; 100 in the code

NOP == Stmt("NOP", "NONE", "NONE", 0)

A_ATOM == BPF_MEMWORDS
X_ATOM == BPF_MEMWORDS + 1
Atoms == 0..X_ATOM

Ids(g) == DOMAIN g

(* f itself, as a table: TLC computes its values once *)
Table(f) == f @@ <<>>

(* The left fold of a sequence; TLC computes each step once *)
Fold(op(_, _), base, seq) ==
    LET f[i \in 0..Len(seq)] ==
            IF i = 0 THEN base
            ELSE CHOOSE r \in {op(p, seq[i]) : p \in {f[i - 1]}} : TRUE
    IN  f[Len(seq)]

-----------------------------------------------------------------------------
(* opt_init(): the blocks are numbered from the root, the true branch      *)
(* first                                                                   *)
RECURSIVE NumberBlksR(_, _, _)
NumberBlksR(g, p, seen) ==
    IF p = NoBlock \/ p \in ToSet(seen) THEN seen
    ELSE NumberBlksR(g, g[p].jf, NumberBlksR(g, g[p].jt, Append(seen, p)))

Slength(stmts) == Len(SelectSeq(stmts, LAMBDA s : s.class # "NOP"))

(* A mutant: room for one value a statement *)
OneValueEach(g) ==
    Fold(LAMBDA n, b : n + Slength(b.stmts), 0, g)

(* The size of the tables of values *)
MaxVal(g) == 3 * Fold(LAMBDA n, b : n + Slength(b.stmts) + 1, 0, g)

OptInit(g, root) ==
    LET order == NumberBlksR(g, root, <<>>)
        id == Table([p \in ToSet(order) \cup {NoBlock} |->
                  IF p = NoBlock THEN NoBlock
                  ELSE CHOOSE i \in DOMAIN order : order[i] = p])
    IN  Table([i \in DOMAIN order |->
            LET b == g[order[i]]
            IN  [stmts |-> b.stmts, s |-> b.s, jt |-> id[b.jt],
                 jf |-> id[b.jf]]])

-----------------------------------------------------------------------------
(* find_levels(): a block's level is the longest way to a return; a level  *)
(* lists its blocks, the one found last first                              *)
RECURSIVE FindLevelsR(_, _, _)
FindLevelsR(g, b, lv) ==
    IF lv.level[b] >= 0 THEN lv
    ELSE IF g[b].jt = NoBlock
    THEN [level |-> [lv.level EXCEPT ![b] = 0],
          list |-> [lv.list EXCEPT ![0] = <<b>> \o @]]
    ELSE LET sub == FindLevelsR(g, g[b].jf, FindLevelsR(g, g[b].jt, lv))
             t == sub.level[g[b].jt]
             f == sub.level[g[b].jf]
             n == 1 + (IF t > f THEN t ELSE f)
         IN  [level |-> [sub.level EXCEPT ![b] = n],
              list |-> [sub.list EXCEPT ![n] = <<b>> \o @]]

FindLevels(g) ==
    FindLevelsR(g, 1, [level |-> [b \in Ids(g) |-> -1],
                       list |-> [n \in 0..(Len(g) - 1) |-> <<>>]])

(* The blocks of the levels from high to low, and from low to high *)
Down(lv, high, low) ==
    FlattenSeq([i \in 1..(high - low + 1) |-> lv.list[high - i + 1]])

Up(lv, low, high) ==
    FlattenSeq([i \in 1..(high - low + 1) |-> lv.list[low + i - 1]])

Top(lv) == lv.level[1]

(* The blocks every way to a block goes through *)
FindDom(g, lv) ==
    LET Step1(dom, b) ==
            LET own == [dom EXCEPT ![b] = @ \cup {b}]
            IN  IF g[b].jt = NoBlock THEN own
                ELSE LET t == [own EXCEPT ![g[b].jt] = @ \cap own[b]]
                     IN  [t EXCEPT ![g[b].jf] = @ \cap own[b]]
    IN  Fold(Step1, [b \in Ids(g) |-> IF b = 1 THEN {} ELSE Ids(g)],
                 Down(lv, Top(lv), 0))

(* Edge b is the true branch of block b, edge Len(g) + b its false branch *)
Edges(g) == 1..(2 * Len(g))
Pred(g, e) == IF e > Len(g) THEN e - Len(g) ELSE e
Side(g, e) == IF e > Len(g) THEN "jf" ELSE "jt"
Succ(g, e) == g[Pred(g, e)][Side(g, e)]

Propedom(g, edom, e) ==
    LET own == [edom EXCEPT ![e] = @ \cup {e}]
        s == Succ(g, e)
    IN  IF s = NoBlock THEN own
        ELSE [own EXCEPT ![s] = @ \cap own[e], ![Len(g) + s] = @ \cap own[e]]

(* The edges every way along an edge goes through *)
FindEdom(g, lv) ==
    Fold(LAMBDA edom, b : Propedom(g, Propedom(g, edom, b), Len(g) + b),
             [e \in Edges(g) |-> IF Pred(g, e) = 1 THEN {} ELSE Edges(g)],
             Down(lv, Top(lv), 0))

-----------------------------------------------------------------------------
(* What a statement uses and what it sets *)

Atomuse(s) ==
    CASE s.class = "RET" -> IF s.src = "A" THEN {A_ATOM} ELSE {}
      [] s.class \in {"LD", "LDX"} ->
            IF s.op = "IND" THEN {X_ATOM}
            ELSE IF s.op = "MEM" THEN {s.k} ELSE {}
      [] s.class = "ST" -> {A_ATOM}
      [] s.class = "STX" -> {X_ATOM}
      [] s.class \in {"JMP", "ALU"} ->
            IF s.src = "X" THEN {A_ATOM, X_ATOM} ELSE {A_ATOM}
      [] s.class = "MISC" -> IF s.op = "TXA" THEN {X_ATOM} ELSE {A_ATOM}
      [] OTHER -> {}

Atomdef(s) ==
    CASE s.class \in {"LD", "ALU"} -> {A_ATOM}
      [] s.class = "LDX" -> {X_ATOM}
      [] s.class \in {"ST", "STX"} -> {s.k}
      [] s.class = "MISC" -> IF s.op = "TAX" THEN {X_ATOM} ELSE {A_ATOM}
      [] OTHER -> {}

ComputeLocalUd(b) ==
    LET Use(ud, s) == [ud EXCEPT !.use = @ \cup (Atomuse(s) \ ud.def)]
        Def(ud, s) == [ud EXCEPT !.kill = @ \cup (Atomdef(s) \ ud.use),
                                 !.def = @ \cup Atomdef(s)]
        body == Fold(LAMBDA ud, s : Def(Use(ud, s), s),
                         [def |-> {}, use |-> {}, kill |-> {}], b.stmts)
    IN  IF b.s.class = "JMP" THEN Use(body, b.s) ELSE body

(* in_use and out_use: what is used from the start of a block on, and      *)
(* after its end                                                           *)
FindUd(g, lv) ==
    LET local == [b \in Ids(g) |-> ComputeLocalUd(g[b])]
        Step1(ud, b) ==
            LET out == ud.in[g[b].jt] \cup ud.in[g[b].jf]
            IN  [out |-> [ud.out EXCEPT ![b] = out],
                 in |-> [ud.in EXCEPT ![b] = @ \cup (out \ local[b].kill)]]
    IN  Fold(Step1, [out |-> [b \in Ids(g) |-> {}],
                         in |-> [b \in Ids(g) |-> local[b].use]],
                 Up(lv, 1, Top(lv))).out

-----------------------------------------------------------------------------
(* Value numbers.  A block's values are those of its registers at its end  *)

VAL_UNKNOWN == <<>>

F(s, k, v0, v1) == <<s.class, s.op, s.src, k, v0, v1>>
K(k) == F(Stmt("LD", "IMM", "W", k), k, VAL_UNKNOWN, VAL_UNKNOWN)

IsConst(v) == v # VAL_UNKNOWN /\ v[1] = "LD" /\ v[2] = "IMM"
ConstVal(v) == v[4]

(* What a pass works with: the values of the registers (val), the values   *)
(* numbered so far (table), whether a statement was changed, opt_error()   *)
Numbered(w, new) == [w EXCEPT !.table = @ \cup new]

Vstore(s, w, atom, newval, alter) ==
    IF alter /\ newval # VAL_UNKNOWN /\ w.val[atom] = newval
    THEN [s |-> NOP, w |-> w]
    ELSE [s |-> s, w |-> [w EXCEPT !.val[atom] = newval]]

(* The operations of the interpreter on words; a division by zero and a    *)
(* shift of the whole word are up to the caller                            *)
AluValue(op, a, b) ==
    CASE op = "ADD" -> (a + b) % M
      [] op = "SUB" -> (a - b) % M
      [] op = "MUL" -> (a * b) % M
      [] op = "DIV" -> a \div b
      [] op = "MOD" -> a % b
      [] op = "AND" -> a & b
      [] op = "OR" -> a | b
      [] op = "XOR" -> a ^^ b
      [] op = "LSH" -> IF b < WordBits THEN (a * 2 ^ b) % M ELSE 0
      [] op = "RSH" -> IF b < WordBits THEN a \div 2 ^ b ELSE 0

(* Both operands are known: the result is loaded as a constant *)
FoldOp(s, w, v0, v1) ==
    LET b == ConstVal(v1)
        zero == s.op \in {"DIV", "MOD"} /\ b = 0
        k == IF zero THEN 0 ELSE AluValue(s.op, ConstVal(v0), b)
    IN  [s |-> Stmt("LD", "IMM", "W", k),
         w |-> [w EXCEPT !.val[A_ATOM] = K(k), !.table = @ \cup {v1, K(k)},
                         !.changed = TRUE, !.err = @ \/ zero]]

(* Loads, from the packet and of constants *)
OptLoad(s, w, alter) ==
    LET atom == IF s.class = "LD" THEN A_ATOM ELSE X_ATOM
        x == w.val[X_ATOM]
        known == s.op = "IND" /\ alter /\ IsConst(x)
        t == IF known THEN Stmt("LD", "ABS", s.src, (s.k + ConstVal(x)) % M)
             ELSE s
        v == CASE t.op = "IMM" -> K(t.k)
               [] t.op = "IND" -> F(t, t.k, x, VAL_UNKNOWN)
               [] OTHER -> F(t, t.k, VAL_UNKNOWN, VAL_UNKNOWN)
    IN  Vstore(t, Numbered([w EXCEPT !.changed = @ \/ known], {v}), atom, v,
               alter)

(* A load from the scratch memory *)
OptLoadMem(s, w, alter) ==
    LET v == w.val[s.k]
        known == alter /\ IsConst(v)
        t == IF known THEN Stmt(s.class, "IMM", "W", ConstVal(v)) ELSE s
    IN  Vstore(t, [w EXCEPT !.changed = @ \/ known],
               IF s.class = "LD" THEN A_ATOM ELSE X_ATOM, v, alter)

OptNeg(s, w, alter) ==
    LET a == w.val[A_ATOM]
        known == alter /\ IsConst(a)
        k == (-ConstVal(a)) % M
        v == IF known THEN K(k) ELSE F(s, 0, a, VAL_UNKNOWN)
    IN  [s |-> IF known THEN Stmt("LD", "IMM", "W", k) ELSE s,
         w |-> Numbered([w EXCEPT !.val[A_ATOM] = v], {v})]

(* An operation with a constant *)
OptAluK(s, w, alter) ==
    LET a == w.val[A_ATOM]
        v == F(s, 0, a, K(s.k))
        zero == alter /\ s.k = 0
    IN  CASE zero /\ s.op \in {"ADD", "LSH", "RSH", "OR", "XOR"} ->
                [s |-> NOP, w |-> w]
          [] zero /\ s.op \in {"MUL", "AND"} ->
                [s |-> Stmt("LD", "IMM", "W", 0),
                 w |-> Numbered([w EXCEPT !.val[A_ATOM] = K(0)], {K(0)})]
          [] zero /\ s.op \in {"DIV", "MOD"} ->
                [s |-> s, w |-> [w EXCEPT !.err = TRUE]]
          [] ~(zero /\ s.op # "SUB") /\ alter /\ IsConst(a) ->
                FoldOp(s, w, a, K(s.k))
          [] OTHER ->
                [s |-> s,
                 w |-> Numbered([w EXCEPT !.val[A_ATOM] = v], {K(s.k), v})]

(* An operation with X *)
OptAluX(s, w, alter) ==
    LET a == w.val[A_ATOM]
        x == w.val[X_ATOM]
        t == Stmt("ALU", s.op, "K", ConstVal(x))
        v == F(t, 0, a, K(t.k))
        u == F(s, 0, a, x)
    IN  CASE alter /\ IsConst(x) /\ IsConst(a) -> FoldOp(s, w, a, x)
          [] alter /\ IsConst(x) /\ ~IsConst(a) ->
                [s |-> t,
                 w |-> [Numbered(w, {K(t.k), v}) EXCEPT
                          !.val[A_ATOM] = v, !.changed = TRUE,
                          !.err = @ \/ /\ s.op \in {"LSH", "RSH"}
                                       /\ t.k > WordBits - 1]]
          [] /\ alter /\ ~IsConst(x) /\ IsConst(a) /\ ConstVal(a) = 0
             /\ s.op \in {"ADD", "OR", "XOR"} ->
                Vstore(Stmt("MISC", "TXA", "NONE", s.k), w, A_ATOM, x, alter)
          [] /\ alter /\ ~IsConst(x) /\ IsConst(a) /\ ConstVal(a) = 0
             /\ s.op \notin {"ADD", "OR", "XOR", "SUB"} ->
                Vstore(Stmt("LD", "IMM", "W", 0), Numbered(w, {K(0)}), A_ATOM,
                       K(0), alter)
          [] OTHER ->
                [s |-> s, w |-> Numbered([w EXCEPT !.val[A_ATOM] = u], {u})]

OptStmt(s, w, alter) ==
    CASE s.class \in {"LD", "LDX"} /\ s.op # "MEM" -> OptLoad(s, w, alter)
      [] s.class \in {"LD", "LDX"} /\ s.op = "MEM" -> OptLoadMem(s, w, alter)
      [] s.class = "ALU" /\ s.op = "NEG" -> OptNeg(s, w, alter)
      [] s.class = "ALU" /\ s.op # "NEG" /\ s.src = "K" -> OptAluK(s, w, alter)
      [] s.class = "ALU" /\ s.op # "NEG" /\ s.src = "X" -> OptAluX(s, w, alter)
      [] s.class = "MISC" /\ s.op = "TXA" ->
            Vstore(s, w, A_ATOM, w.val[X_ATOM], alter)
      [] s.class = "MISC" /\ s.op = "TAX" ->
            Vstore(s, w, X_ATOM, w.val[A_ATOM], alter)
      [] s.class = "ST" -> Vstore(s, w, s.k, w.val[A_ATOM], alter)
      [] s.class = "STX" -> Vstore(s, w, s.k, w.val[X_ATOM], alter)
      [] OTHER -> [s |-> s, w |-> w]

(* The statements of a block, one after the other *)
OptStmts(stmts, w, alter) ==
    Fold(LAMBDA acc, s :
                LET one == OptStmt(s, acc.w, alter)
                IN  [stmts |-> Append(acc.stmts, one.s), w |-> one.w],
             [stmts |-> <<>>, w |-> w], stmts)

-----------------------------------------------------------------------------
(* opt_peep() *)

(* The first statement from i on that is not a NOP; 0 when there is none *)
ThisOp(stmts, i) ==
    LET ops == {j \in i..Len(stmts) : stmts[j].class # "NOP"}
    IN  IF ops = {} THEN 0 ELSE CHOOSE j \in ops : \A k \in ops : j <= k

OpAfter(stmts, i) == IF i = 0 THEN 0 ELSE ThisOp(stmts, i + 1)

IsStmt(s, class, op, src) == s.class = class /\ s.op = op /\ s.src = src

At(stmts, i, class, op, src) == i # 0 /\ IsStmt(stmts[i], class, op, src)

(* st M[k]; ldx M[k] becomes st M[k]; tax *)
StoreLoadX(p, i, j) ==
    IF /\ p.stmts[i].class = "ST" /\ At(p.stmts, j, "LDX", "MEM", "W")
       /\ p.stmts[i].k = p.stmts[j].k
    THEN [p EXCEPT !.stmts[j] = Stmt("MISC", "TAX", "NONE", p.stmts[j].k),
                   !.changed = TRUE]
    ELSE p

(* ld #k; tax becomes ldx #k; txa *)
LoadTax(p, i, j) ==
    IF At(p.stmts, i, "LD", "IMM", "W") /\ At(p.stmts, j, "MISC", "TAX", "NONE")
    THEN [p EXCEPT !.stmts[i] = Stmt("LDX", "IMM", "W", p.stmts[i].k),
                   !.stmts[j] = Stmt("MISC", "TXA", "NONE", p.stmts[j].k),
                   !.changed = TRUE]
    ELSE p

(* ld #k; ldxms; add x; tax; ild [x+n] becomes ldxms; ild [x+n+k], if X is *)
(* not used after the block                                                *)
IndexedLoad(p, i, j, out) ==
    LET add == IF At(p.stmts, j, "LDX", "MSH", "B") THEN OpAfter(p.stmts, j)
               ELSE j
        tax == OpAfter(p.stmts, add)
        ild == OpAfter(p.stmts, tax)
    IN  IF /\ At(p.stmts, i, "LD", "IMM", "W") /\ X_ATOM \notin out
           /\ At(p.stmts, add, "ALU", "ADD", "X")
           /\ At(p.stmts, tax, "MISC", "TAX", "NONE")
           /\ At(p.stmts, ild, "LD", "IND", "B")
        THEN [p EXCEPT !.stmts[ild].k = (@ + p.stmts[i].k) % M,
                       !.stmts[i] = NOP, !.stmts[add] = NOP,
                       !.stmts[tax] = NOP, !.changed = TRUE]
        ELSE p

RECURSIVE PeepFrom(_, _, _)
PeepFrom(p, from, out) ==
    LET i == ThisOp(p.stmts, from)
        j == OpAfter(p.stmts, i)
    IN  IF j = 0 THEN p
        ELSE PeepFrom(IndexedLoad(LoadTax(StoreLoadX([p EXCEPT !.last = j],
                                                     i, j), i, j), i, j, out),
                      j, out)

(* The comparison at the end takes over the last statement's work.  b is   *)
(* the block, last its last statement, val the values at its end           *)
PeepSub(b, last, val) ==
    LET s == b.stmts[last]
        x == val[X_ATOM]
        Gone(c) == [c EXCEPT !.stmts[last] = NOP, !.changed = TRUE]
    IN  CASE IsStmt(s, "ALU", "SUB", "X") /\ IsConst(x) ->
                Gone([b EXCEPT !.s.k = (@ + ConstVal(x)) % M])
          [] IsStmt(s, "ALU", "SUB", "X") /\ ~IsConst(x) /\ b.s.k = 0 ->
                Gone([b EXCEPT !.s.src = "X"])
          [] IsStmt(s, "ALU", "SUB", "K") ->
                Gone([b EXCEPT !.s.k = (@ + s.k) % M])
          [] IsStmt(s, "ALU", "AND", "K") /\ b.s.k = 0 ->
                Gone([b EXCEPT !.s = Stmt("JMP", "JSET", "K", s.k),
                               !.jt = b.jf, !.jf = b.jt])
          [] OTHER -> b

(* jset #0 is never true; jset with all bits is taken to be always true *)
PeepJset(b) ==
    IF ~IsStmt(b.s, "JMP", "JSET", "K") THEN b
    ELSE CASE b.s.k = 0 -> [b EXCEPT !.jt = b.jf]
           [] b.s.k = M - 1 -> [b EXCEPT !.jf = b.jt]
           [] OTHER -> b

(* Does the comparison hold? *)
Compare(op, a, k) ==
    CASE op = "JEQ" -> a = k
      [] op = "JGT" -> a > k
      [] op = "JGE" -> a >= k
      [] op = "JSET" -> (a & k) # 0

(* A mutant: a branch that is decided already counts as a change *)
DecidesAgain(b, val) ==
    LET a == val[A_ATOM]
    IN  IF ~(IsConst(a) /\ b.s.src = "K") THEN b
        ELSE LET to == IF Compare(b.s.op, ConstVal(a), b.s.k) THEN b.jt
                       ELSE b.jf
             IN  [b EXCEPT !.jt = to, !.jf = to, !.changed = TRUE]

(* A known X, then a known A, decides the comparison *)
PeepKnown(b, val) ==
    LET x == val[X_ATOM]
        a == val[A_ATOM]
        c == IF b.s.src = "X" /\ IsConst(x)
             THEN [b EXCEPT !.s.src = "K", !.s.k = ConstVal(x)] ELSE b
    IN  IF ~(IsConst(a) /\ c.s.src = "K") THEN c
        ELSE LET holds == Compare(c.s.op, ConstVal(a), c.s.k)
                 to == IF holds THEN c.jt ELSE c.jf
             IN  [c EXCEPT !.jt = to, !.jf = to,
                           !.changed = @ \/ c.jt # c.jf]

OptPeep(b, val, out) ==
    IF b.stmts = <<>> THEN b
    ELSE LET p == PeepFrom([stmts |-> b.stmts, last |-> 1,
                            changed |-> b.changed], 1, out)
             c == [b EXCEPT !.stmts = p.stmts, !.changed = p.changed]
             d == IF IsStmt(c.s, "JMP", "JEQ", "K") /\ A_ATOM \notin out
                  THEN PeepSub(c, p.last, val) ELSE c
         IN  PeepKnown(PeepJset(d), val)

-----------------------------------------------------------------------------
(* opt_deadstores() *)

Without(stmts, gone) ==
    Table([j \in DOMAIN stmts |-> IF j \in gone THEN NOP ELSE stmts[j]])

(* last[atom] is the statement that set the atom and was not used since *)
Deadstmt(d, i, s) ==
    LET used == Table([atom \in Atoms |->
                          IF atom \in Atomuse(s) THEN 0 ELSE d.last[atom]])
        dead == {used[atom] : atom \in Atomdef(s)} \ {0}
    IN  [stmts |-> Without(d.stmts, dead),
         last |-> Table([atom \in Atoms |->
                            IF atom \in Atomdef(s) THEN i ELSE used[atom]]),
         changed |-> d.changed \/ dead # {}]

(* The values of what is not stored any more are unknown *)
OptDeadstores(b, val, out) ==
    LET body == Fold(LAMBDA d, i : Deadstmt(d, i, b.stmts[i]),
                         [stmts |-> b.stmts, last |-> [a \in Atoms |-> 0],
                          changed |-> b.changed],
                         [i \in 1..Len(b.stmts) |-> i])
        all == Deadstmt(body, 0, b.s)
        dead == {atom \in Atoms \ out : all.last[atom] # 0}
        gone == {all.last[atom] : atom \in dead}
    IN  [b |-> [b EXCEPT !.stmts = Without(all.stmts, gone),
                         !.changed = all.changed \/ dead # {}],
         val |-> Table([atom \in Atoms |->
                           IF atom \in dead THEN VAL_UNKNOWN ELSE val[atom]])]

-----------------------------------------------------------------------------
(* A round works on o: the graph, the values at the end of each block, the *)
(* value its comparison has as operand (oval), the table of values, the    *)
(* dominators (of the graph as it was when the round began, or after the   *)
(* last pull), and what happened: done stays TRUE if nothing was changed, moved tells a    *)
(* change that was not the moving of a branch                              *)

NoValues == Table([atom \in Atoms |-> VAL_UNKNOWN])

StartRound(g, dom) ==
    [g |-> g, dom |-> dom, val |-> Table([b \in Ids(g) |-> NoValues]),
     oval |-> Table([b \in Ids(g) |-> VAL_UNKNOWN]), table |-> {}, done |-> TRUE,
     moved |-> FALSE, err |-> FALSE]

(* find_inedges(): the branches that lead to a block, the last found first *)
FindInedges(g, lv) ==
    LET Link(in, e) == [in EXCEPT ![Succ(g, e)] = <<e>> \o @]
    IN  Fold(LAMBDA in, b : Link(Link(in, b), Len(g) + b),
                 [b \in Ids(g) |-> <<>>], Down(lv, Top(lv), 1))

(* What is known at the start of a block: what all its predecessors agree on *)
ValuesIn(o, in) ==
    LET preds == {Pred(o.g, e) : e \in ToSet(in)}
    IN  Table([atom \in Atoms |->
            IF Cardinality({o.val[p][atom] : p \in preds}) # 1 THEN VAL_UNKNOWN
            ELSE o.val[CHOOSE p \in preds : TRUE][atom]])

(* A block that leaves A and X as it found them, and nothing that is used, *)
(* loses its statements; so does one that returns                          *)
IsIdle(start, end, out) ==
    /\ out = {}
    /\ \A atom \in {A_ATOM, X_ATOM} :
          start[atom] # VAL_UNKNOWN /\ end[atom] = start[atom]

ShortenBlk(blk, val, alter, out, idle) ==
    IF alter /\ (idle \/ blk.s.class = "RET")
    THEN [b |-> [blk EXCEPT !.stmts = <<>>, !.changed = @ \/ blk.stmts # <<>>],
          val |-> val]
    ELSE OptDeadstores(OptPeep(blk, val, out), val, out)

StoreBlk(o, b, end, w) ==
    LET oval == IF end.b.s.src = "K" THEN K(end.b.s.k) ELSE end.val[X_ATOM]
    IN  [o EXCEPT !.g[b] = [stmts |-> end.b.stmts, s |-> end.b.s,
                            jt |-> end.b.jt, jf |-> end.b.jf],
                  !.val[b] = end.val, !.oval[b] = oval,
                  !.table = w.table
                     \cup (IF end.b.s.src = "K" THEN {oval} ELSE {}),
                  !.done = @ /\ ~end.b.changed,
                  !.moved = @ \/ end.b.changed,
                  !.err = @ \/ w.err]

FinishBlk(o, b, alter, out, start, r) ==
    StoreBlk(o, b,
             ShortenBlk([stmts |-> r.stmts, s |-> o.g[b].s, jt |-> o.g[b].jt,
                         jf |-> o.g[b].jf, changed |-> r.w.changed],
                        r.w.val, alter, out, IsIdle(start, r.w.val, out)),
             r.w)

EnterBlk(o, b, alter, out, start) ==
    FinishBlk(o, b, alter, out, start,
              OptStmts(o.g[b].stmts,
                       [val |-> start, table |-> o.table, changed |-> FALSE,
                        err |-> FALSE], alter))

OptBlk(o, b, alter, out, in) == EnterBlk(o, b, alter, out, ValuesIn(o, in))

-----------------------------------------------------------------------------
(* The moving of branches *)

UseConflict(o, b, succ, out) ==
    \E atom \in out[succ] : o.val[b][atom] # o.val[succ][atom]

(* A mutant: a value that was not the first constant is not the second     *)
FoldsEitherWay(o, child, e) ==
    LET c == o.g[child]
        p == Pred(o.g, e)
    IN  IF \/ ~IsStmt(c.s, o.g[p].s.class, o.g[p].s.op, o.g[p].s.src)
           \/ o.val[child][A_ATOM] # o.val[p][A_ATOM]
        THEN NoBlock
        ELSE IF o.oval[child] = o.oval[p] /\ Side(o.g, e) = "jt" THEN c.jt ELSE c.jf

(* Where the comparison of child goes when edge e was taken; 0 if unknown *)
FoldEdge(o, child, e) ==
    LET c == o.g[child]
        p == Pred(o.g, e)
        sense == Side(o.g, e) = "jt"
    IN  CASE \/ ~IsStmt(c.s, o.g[p].s.class, o.g[p].s.op, o.g[p].s.src)
             \/ o.val[child][A_ATOM] # o.val[p][A_ATOM] -> NoBlock
          [] /\ IsStmt(c.s, o.g[p].s.class, o.g[p].s.op, o.g[p].s.src)
             /\ o.val[child][A_ATOM] = o.val[p][A_ATOM] ->
                CASE o.oval[child] = o.oval[p] -> IF sense THEN c.jt ELSE c.jf
                  [] /\ o.oval[child] # o.oval[p] /\ sense
                     /\ IsStmt(c.s, "JMP", "JEQ", "K") -> c.jf
                  [] OTHER -> NoBlock

Retarget(o, e, target) == [o EXCEPT !.g[Pred(o.g, e)][Side(o.g, e)] = target]

(* The dominating edges are tried from the lowest; after a success the     *)
(* search starts again at the new target                                   *)
RECURSIVE FoldEdges(_, _, _, _)
FoldEdges(o, e, edom, out) ==
    LET Target(d) == FoldEdge(o, Succ(o.g, e), d)
        able == {d \in edom : /\ Target(d) # NoBlock
                              /\ ~UseConflict(o, Pred(o.g, e), Target(d), out)}
    IN  IF able = {} THEN o
        ELSE LET d == CHOOSE d \in able : \A f \in able : d <= f
                 new == [Retarget(o, e, Target(d)) EXCEPT !.done = FALSE]
             IN  IF o.g[Target(d)].jt = NoBlock THEN new
                 ELSE FoldEdges(new, e, edom, out)

OptJ(o, e, edom, out) ==
    LET s == o.g[Succ(o.g, e)]
        skip == s.jt = s.jf /\ ~UseConflict(o, Pred(o.g, e), s.jt, out)
        next == IF skip
                THEN [Retarget(o, e, s.jt) EXCEPT !.done = FALSE,
                                                  !.moved = TRUE]
                ELSE o
    IN  IF s.jt = NoBlock THEN o ELSE FoldEdges(next, e, edom, out)

(* or_pullup() and and_pullup() are each other's mirror image.  In the     *)
(* first, the blocks of a disjunction share their true branch ("same") and *)
(* are chained by their false branch ("chain").  A place is a block and    *)
(* the side of its branch, as a pointer to the branch                      *)
There(g, place) == g[place[1]][place[2]]

PartOf(o, b, c, same) ==
    /\ c # NoBlock /\ o.g[c][same] = o.g[b][same] /\ b \in o.dom[c]

(* The first place along the chain whose block compares another value, or  *)
(* the same value; <<>> if the chain ends before                           *)
RECURSIVE Along(_, _, _, _, _, _, _)
Along(o, b, place, same, chain, v, equal) ==
    LET c == There(o.g, place)
    IN  IF ~PartOf(o, b, c, same) THEN <<>>
        ELSE IF (o.val[c][A_ATOM] = v) = equal THEN place
        ELSE Along(o, b, <<c, chain>>, same, chain, v, equal)

Place(g, e, b) == <<Pred(g, e), IF g[Pred(g, e)].jt = b THEN "jt" ELSE "jf">>

Pull(o, b, in, lv, top, diffp, samep, chain) ==
    LET g == o.g
        pull == There(g, samep)
        g1 == [g EXCEPT ![samep[1]][samep[2]] = g[pull][chain]]
        g2 == [g1 EXCEPT ![pull][chain] = There(g1, diffp)]
        Replace(h, e) == LET p == Place(h, e, b)
                         IN  [h EXCEPT ![p[1]][p[2]] = pull]
        new == IF diffp = top THEN Fold(Replace, g2, in)
               ELSE [g2 EXCEPT ![diffp[1]][diffp[2]] = pull]
    IN  [o EXCEPT !.done = FALSE, !.g = new, !.dom = FindDom(new, lv)]

Pullup(o, b, in, lv, same, chain) ==
    IF in = <<>> \/ \E e \in ToSet(in) :
          o.val[Pred(o.g, e)][A_ATOM] # o.val[Pred(o.g, in[1])][A_ATOM]
    THEN o
    ELSE LET v == o.val[Pred(o.g, in[1])][A_ATOM]
             top == Place(o.g, in[1], b)
             diffp == Along(o, b, top, same, chain, v, FALSE)
             samep == Along(o, b, <<There(o.g, diffp), chain>>, same, chain, v,
                            TRUE)
         IN  IF diffp = <<>> THEN o
             ELSE IF samep = <<>> THEN o
             ELSE Pull(o, b, in, lv, top, diffp, samep, chain)

OrPullup(o, b, in, lv) == Pullup(o, b, in, lv, "jt", "jf")
AndPullup(o, b, in, lv) == Pullup(o, b, in, lv, "jf", "jt")

-----------------------------------------------------------------------------
(* opt_blks() *)
PullBlks(o, lv, in) ==
    Fold(LAMBDA p, b : AndPullup(OrPullup(p, b, in[b], lv), b, in[b], lv), o,
         Up(lv, 1, Top(lv)))

MoveBlks(o, lv, out, edom) ==
    Fold(LAMBDA p, b : OptJ(OptJ(p, b, edom[b], out), Len(o.g) + b,
                            edom[Len(o.g) + b], out),
         o, Up(lv, 1, Top(lv)))

MoveAndPull(o, lv, out, edom, do_stmts) ==
    IF do_stmts \/ o.err THEN o
    ELSE LET moved == MoveBlks(o, lv, out, edom)
         IN  PullBlks(moved, lv, FindInedges(moved.g, lv))

OptBlks(o, lv, out, edom, do_stmts) ==
    LET in == FindInedges(o.g, lv)
    IN  MoveAndPull(Fold(LAMBDA p, b : OptBlk(p, b, do_stmts, out[b], in[b]), o,
                         Down(lv, Top(lv), 0)),
                    lv, out, edom, do_stmts)

(* One round of opt_loop() *)
Round(g, do_stmts) ==
    LET lv == FindLevels(g)
    IN  OptBlks(StartRound(g, FindDom(g, lv)), lv, FindUd(g, lv),
                FindEdom(g, lv), do_stmts)

-----------------------------------------------------------------------------
(* intern_blocks() *)

RECURSIVE MakeMarks(_, _, _)
MakeMarks(g, p, marked) ==
    IF p \in marked THEN marked
    ELSE IF g[p].s.class = "RET" THEN marked \cup {p}
    ELSE MakeMarks(g, g[p].jf, MakeMarks(g, g[p].jt, marked \cup {p}))

EqSlist(x, y) ==
    LET Real(stmts) == SelectSeq(stmts, LAMBDA s : s.class # "NOP")
    IN  Real(x) = Real(y)

EqBlk(b0, b1) ==
    b0.s = b1.s /\ b0.jt = b1.jt /\ b0.jf = b1.jf /\ EqSlist(b0.stmts, b1.stmts)

(* The last of the blocks equal to block i; i itself if there is no other *)
Twin(g, marked, i) ==
    LET twins == {j \in marked : j >= i /\ EqBlk(g[i], g[j])}
    IN  IF i \notin marked THEN i
        ELSE CHOOSE j \in twins : \A k \in twins : k <= j

RECURSIVE InternBlocks(_, _)
InternBlocks(g, root) ==
    LET marked == MakeMarks(g, root, {})
        twin == Table([i \in Ids(g) \cup {NoBlock} |->
                    IF i = NoBlock THEN NoBlock ELSE Twin(g, marked, i)])
        new == Table([i \in Ids(g) |->
                    [g[i] EXCEPT !.jt = twin[@], !.jf = twin[@]]])
    IN  IF new = g THEN g ELSE InternBlocks(new, root)

(* opt_root(): the first block that does something *)
RECURSIVE SkipJumps(_, _)
SkipJumps(g, b) ==
    IF g[b].s.class = "JMP" /\ g[b].jt = g[b].jf THEN SkipJumps(g, g[b].jt)
    ELSE b

OptRoot(g, root) ==
    LET b == SkipJumps(g, root)
        cleared == [g EXCEPT ![root].stmts = <<>>]
        all == g[root].stmts \o cleared[b].stmts
    IN  [g |-> [cleared EXCEPT ![b].stmts =
                   IF g[b].s.class = "RET" THEN <<>> ELSE all],
         root |-> b]

-----------------------------------------------------------------------------
(* icode_to_fcode(): a block follows its successors in the order in which  *)
(* they are written, from the end of the program.  at[p] is the distance   *)
(* of a block's start from the end, 0 until it is written                  *)

(* A mutant: one instruction too far *)
JumpPast(k) == Stmt("JMP", "JA", "K", k + 1)

JumpTo(k) == Stmt("JMP", "JA", "K", k)

(* The block's branches: to the next but n, or through a jump of its own *)
Emit(c, g, p) ==
    LET body == SelectSeq(g[p].stmts, LAMBDA s : s.class # "NOP")
        b == g[p]
        start == Len(c.prog) + Len(body) + 1
                 + (IF c.long[p].jt THEN 1 ELSE 0)
                 + (IF c.long[p].jf THEN 1 ELSE 0)
        Off(side) == start - c.at[b[side]] - Len(body) - 1
        far == [side \in {"jt", "jf"} |-> Off(side) > JumpMax]
        extra == IF far["jt"] THEN 1 ELSE 0
        jt == IF far["jt"] THEN 0 ELSE Off("jt")
        jf == IF far["jf"] THEN extra ELSE Off("jf")
        tail == (IF c.long[p].jt THEN <<JumpTo(Off("jt") - 1)>> ELSE <<>>)
                \o IF c.long[p].jf THEN <<JumpTo(Off("jf") - extra - 1)>>
                   ELSE <<>>
        missing == {side \in {"jt", "jf"} : far[side] /\ ~c.long[p][side]}
    IN  IF b.jt = NoBlock
        THEN [c EXCEPT !.prog = body \o <<b.s>> \o @, !.at[p] = start]
        ELSE IF missing # {}
        THEN [c EXCEPT !.ok = FALSE,
                       !.long[p] = [@ EXCEPT ![IF "jt" \in missing THEN "jt"
                                               ELSE "jf"] = TRUE]]
        ELSE [c EXCEPT !.prog = body \o <<[b.s EXCEPT !.jt = jt, !.jf = jf]>>
                                \o tail \o @,
                       !.at[p] = start]

RECURSIVE ConvertCodeR(_, _, _)
ConvertCodeR(c, g, p) ==
    IF ~c.ok \/ p = NoBlock \/ c.at[p] # 0 THEN c
    ELSE LET f == ConvertCodeR(c, g, g[p].jf)
             t == ConvertCodeR(f, g, g[p].jt)
         IN  IF ~t.ok THEN t ELSE Emit(t, g, p)

(* Tried again each time a branch turns out to need a jump of its own *)
RECURSIVE IcodeToFcode(_, _, _)
IcodeToFcode(g, root, long) ==
    LET c == ConvertCodeR([prog |-> <<>>, ok |-> TRUE, long |-> long,
                           at |-> [b \in Ids(g) |-> 0]], g, root)
    IN  IF c.ok THEN c.prog ELSE IcodeToFcode(g, root, c.long)

=============================================================================
