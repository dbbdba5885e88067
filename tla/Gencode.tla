------------------------------- MODULE Gencode -------------------------------
(***************************************************************************)
(* The code generator of the filter compiler (gencode.c): the blocks made  *)
(* for comparisons, arithmetic and the connectives of an expression.  A    *)
(* block whose branches are not known yet is a member of two lists, of the *)
(* branches to take when its expression is true and when it is false; the  *)
(* lists run through the very branches that are still open.                *)
(*                                                                         *)
(* An expression is a tree; the generator's functions are applied in the   *)
(* order in which the parser reduces it.  All loads are of single bytes,   *)
(* and a byte is a word.                                                   *)
(***************************************************************************)
EXTENDS Bpf, Bitwise

CONSTANT WordBits    \* bits of a word; 32 in the code

ASSUME WordAssumption == M = 2 ^ WordBits

(* A statement, or the jump or return at the end of a block *)
Stmt(class, op, src, k) ==
    [class |-> class, op |-> op, src |-> src, k |-> k, jt |-> 0, jf |-> 0]

NoBlock == 0

(* A compiler state: the blocks made so far, the scratch registers that    *)
(* hold a value, where the search for a free one starts, and whether       *)
(* bpf_error() was called                                                  *)
InitRegs == [blocks |-> <<>>, used |-> {}, curreg |-> 0, err |-> FALSE]

(* The functions below return the state, and the block or value made *)
NewBlock(cs, stmts, s) ==
    LET b == Len(cs.blocks) + 1
    IN  [cs |-> [cs EXCEPT !.blocks =
                    Append(@, [stmts |-> stmts, s |-> s, jt |-> NoBlock,
                               jf |-> NoBlock, sense |-> FALSE, head |-> b])],
         b |-> b]

GenRetblk(cs, v) == NewBlock(cs, <<>>, Stmt("RET", "NONE", "K", v))

Flip(blocks, b) == [blocks EXCEPT ![b].sense = ~@]

(* The branch of b that its list goes through *)
Open(blocks, b) == IF blocks[b].sense THEN "jf" ELSE "jt"

RECURSIVE Backpatch(_, _, _)
Backpatch(blocks, list, target) ==
    IF list = NoBlock THEN blocks
    ELSE LET side == Open(blocks, list)
         IN  Backpatch([blocks EXCEPT ![list][side] = target],
                       blocks[list][side], target)

RECURSIVE Merge(_, _, _)
Merge(blocks, b0, b1) ==
    LET side == Open(blocks, b0)
    IN  IF blocks[b0][side] = NoBlock
        THEN [blocks EXCEPT ![b0][side] = b1]
        ELSE Merge(blocks, blocks[b0][side], b1)

(* b1 stands for the conjunction *)
GenAnd(cs, b0, b1) ==
    LET patched == Backpatch(cs.blocks, b0, cs.blocks[b1].head)
        flipped == Flip(Flip(patched, b0), b1)
        merged == Flip(Merge(flipped, b1, b0), b1)
    IN  [cs EXCEPT !.blocks = [merged EXCEPT ![b1].head = merged[b0].head]]

GenOr(cs, b0, b1) ==
    LET flipped == Flip(cs.blocks, b0)
        patched == Flip(Backpatch(flipped, b0, flipped[b1].head), b0)
        merged == Merge(patched, b1, b0)
    IN  [cs EXCEPT !.blocks = [merged EXCEPT ![b1].head = merged[b0].head]]

GenNot(cs, b) == [cs EXCEPT !.blocks = Flip(@, b)]

-----------------------------------------------------------------------------
(* Comparisons of a field with a constant *)

GenLoadA(offset) == <<Stmt("LD", "ABS", "B", offset)>>

GenNcmp(cs, offset, mask, jtype, reverse, v) ==
    LET s == GenLoadA(offset)
             \o IF mask = M - 1 THEN <<>>
                ELSE <<Stmt("ALU", "AND", "K", mask)>>
        made == NewBlock(cs, s, Stmt("JMP", jtype, "K", v))
    IN  IF reverse /\ jtype \in {"JGT", "JGE"}
        THEN [made EXCEPT !.cs = GenNot(@, made.b)]
        ELSE made

GenCmp(cs, offset, v) == GenNcmp(cs, offset, M - 1, "JEQ", FALSE, v)

(* Several bytes are compared one after the other, the last ones first; b  *)
(* has compared those that follow v                                        *)
RECURSIVE GenBcmp(_, _, _, _)
GenBcmp(cs, b, offset, v) ==
    IF v = <<>> THEN [cs |-> cs, b |-> b]
    ELSE LET tmp == GenCmp(cs, offset + Len(v) - 1, v[Len(v)])
         IN  GenBcmp(IF b = NoBlock THEN tmp.cs ELSE GenAnd(tmp.cs, b, tmp.b),
                     tmp.b, offset, SubSeq(v, 1, Len(v) - 1))

GenLen(cs, jtype, n) ==
    NewBlock(cs, <<Stmt("LD", "LEN", "W", 0)>>, Stmt("JMP", jtype, "K", n))

GenGreater(cs, n) == GenLen(cs, "JGE", n)

GenLess(cs, n) ==
    LET made == GenLen(cs, "JGT", n)
    IN  [made EXCEPT !.cs = GenNot(@, made.b)]

GenByteop(cs, op, idx, v) ==
    CASE op = "=" -> GenCmp(cs, idx, v)
      [] op = "<" -> GenNcmp(cs, idx, M - 1, "JGE", TRUE, v)
      [] op = ">" -> GenNcmp(cs, idx, M - 1, "JGT", FALSE, v)

GenUncond(cs, rsense) ==
    NewBlock(cs, <<Stmt("LD", "IMM", "W", IF rsense THEN 0 ELSE 1)>>,
             Stmt("JMP", "JEQ", "K", 0))

-----------------------------------------------------------------------------
(* Arithmetic.  A value is the code that computes it, the register it ends *)
(* in and the block of a protocol check that must succeed first, if any    *)

AllocReg(cs) ==
    IF Cells \subseteq cs.used
    THEN [cs |-> [cs EXCEPT !.err = TRUE], n |-> cs.curreg]
    ELSE LET n == CHOOSE i \in Cells :
                     /\ i \notin cs.used
                     /\ \A j \in Cells \ cs.used :
                           (i - cs.curreg) % BPF_MEMWORDS
                              <= (j - cs.curreg) % BPF_MEMWORDS
         IN  [cs |-> [cs EXCEPT !.used = @ \cup {n}, !.curreg = n], n |-> n]

FreeReg(cs, n) == [cs EXCEPT !.used = @ \ {n}]

XferToX(a) == <<Stmt("LDX", "MEM", "W", a.regno)>>
XferToA(a) == <<Stmt("LD", "MEM", "W", a.regno)>>
SaveTo(n) == <<Stmt("ST", "NONE", "NONE", n)>>

Arth(cs, s, regno, b) == [cs |-> cs, a |-> [s |-> s, regno |-> regno, b |-> b]]

GenLoadi(cs, v) ==
    LET reg == AllocReg(cs)
    IN  Arth(reg.cs, <<Stmt("LD", "IMM", "W", v)>> \o SaveTo(reg.n), reg.n,
             NoBlock)

GenLoadlen(cs) ==
    LET reg == AllocReg(cs)
    IN  Arth(reg.cs, <<Stmt("LD", "LEN", "W", 0)>> \o SaveTo(reg.n), reg.n,
             NoBlock)

(* proto [ index ] in the link-layer header *)
GenLoad(cs, inst) ==
    LET reg == AllocReg(cs)
    IN  Arth(FreeReg(reg.cs, inst.regno),
             inst.s \o XferToX(inst) \o <<Stmt("LD", "IND", "B", 0)>>
                \o SaveTo(reg.n), reg.n, inst.b)

(* proto [ index ] in the payload, which starts at offset 1, of a packet   *)
(* whose first byte is the protocol; gen_proto_abbrev_internal() is taken  *)
(* as that one test                                                        *)
GenLoadPayload(cs, inst, proto) ==
    LET reg == AllocReg(cs)
        check == GenCmp(FreeReg(reg.cs, inst.regno), 0, proto)
        both == IF inst.b = NoBlock THEN check.cs
                ELSE GenAnd(check.cs, inst.b, check.b)
    IN  Arth(both,
             inst.s \o XferToX(inst) \o <<Stmt("LD", "IND", "B", 1)>>
                \o SaveTo(reg.n), reg.n, check.b)

GenNeg(cs, a) ==
    Arth(cs, a.s \o XferToA(a) \o <<Stmt("ALU", "NEG", "K", 0)>>
                \o SaveTo(a.regno), a.regno, a.b)

(* A constant that is no divisor, or more than the width of a shift *)
BadConstant(op, a) ==
    /\ a.s[1].class = "LD" /\ a.s[1].op = "IMM"
    /\ \/ op \in {"DIV", "MOD"} /\ a.s[1].k = 0
       \/ op \in {"LSH", "RSH"} /\ a.s[1].k > WordBits - 1

(* The protocol check of the second operand is not kept *)
GenArth(cs, op, a0, a1) ==
    LET freed == FreeReg(FreeReg(cs, a0.regno), a1.regno)
        reg == AllocReg([freed EXCEPT !.err = @ \/ BadConstant(op, a1)])
    IN  Arth(reg.cs,
             a0.s \o a1.s \o XferToX(a1) \o XferToA(a0)
                \o <<Stmt("ALU", op, "X", 0)>> \o SaveTo(reg.n),
             reg.n, a0.b)

(* The checks of both operands come before the comparison *)
GenRelation(cs, code, a0, a1, reversed) ==
    LET s == a0.s \o a1.s \o XferToX(a1) \o XferToA(a0)
        made == IF code = "JEQ"
                THEN NewBlock(cs, s \o <<Stmt("ALU", "SUB", "X", 0)>>,
                              Stmt("JMP", "JEQ", "K", 0))
                ELSE NewBlock(cs, s, Stmt("JMP", code, "X", 0))
        turned == IF reversed THEN GenNot(made.cs, made.b) ELSE made.cs
        freed == FreeReg(FreeReg(turned, a0.regno), a1.regno)
        checked == IF a0.b # NoBlock /\ a1.b # NoBlock
                   THEN GenAnd(freed, a0.b, a1.b) ELSE freed
        check == IF a1.b # NoBlock THEN a1.b ELSE a0.b
    IN  [cs |-> IF check = NoBlock THEN checked
                ELSE GenAnd(checked, check, made.b),
         b |-> made.b]

-----------------------------------------------------------------------------
(* The reductions of the grammar *)

RECURSIVE GenValue(_, _)
GenValue(cs, e) ==
    CASE e.t = "num" -> GenLoadi(cs, e.n)
      [] e.t = "len" -> GenLoadlen(cs)
      [] e.t = "neg" -> LET v == GenValue(cs, e.of) IN GenNeg(v.cs, v.a)
      [] e.t = "load" -> LET v == GenValue(cs, e.of) IN GenLoad(v.cs, v.a)
      [] e.t = "payload" ->
            LET v == GenValue(cs, e.of) IN GenLoadPayload(v.cs, v.a, e.proto)
      [] e.t = "arth" ->
            LET l == GenValue(cs, e.l)
                r == GenValue(l.cs, e.r)
            IN  GenArth(r.cs, e.op, l.a, r.a)

RECURSIVE GenExpr(_, _)
GenExpr(cs, e) ==
    CASE e.t = "ncmp" ->
            GenNcmp(cs, e.offset, e.mask, e.jtype, e.reverse, e.v)
      [] e.t = "bcmp" -> GenBcmp(cs, NoBlock, e.offset, e.v)
      [] e.t = "byteop" -> GenByteop(cs, e.op, e.idx, e.v)
      [] e.t = "greater" -> GenGreater(cs, e.n)
      [] e.t = "less" -> GenLess(cs, e.n)
      [] e.t = "uncond" -> GenUncond(cs, e.rsense)
      [] e.t = "relation" ->
            LET l == GenValue(cs, e.l)
                r == GenValue(l.cs, e.r)
            IN  GenRelation(r.cs, e.code, l.a, r.a, e.reversed)
      [] e.t = "not" ->
            LET b == GenExpr(cs, e.of) IN [b EXCEPT !.cs = GenNot(@, b.b)]
      [] e.t \in {"and", "or"} ->
            LET l == GenExpr(cs, e.l)
                r == GenExpr(l.cs, e.r)
            IN  [r EXCEPT !.cs = IF e.t = "and" THEN GenAnd(@, l.b, r.b)
                                 ELSE GenOr(@, l.b, r.b)]

(* The snapshot length of the handle *)
Snaplen == M - 1

(* The open branches go to the two returns *)
FinishParse(cs, p) ==
    LET yes == GenRetblk(cs, Snaplen)
        no == GenRetblk(yes.cs, 0)
        patched == Flip(Backpatch(no.cs.blocks, p, yes.b), p)
        closed == Backpatch(patched, p, no.b)
    IN  [g |-> closed, root |-> closed[p].head, err |-> cs.err]

(* An expression that is empty accepts everything *)
Generate(e) ==
    IF e.t = "empty"
    THEN LET all == GenRetblk(InitRegs, Snaplen)
         IN  [g |-> all.cs.blocks, root |-> all.b, err |-> FALSE]
    ELSE LET p == GenExpr(InitRegs, e) IN FinishParse(p.cs, p.b)

=============================================================================
