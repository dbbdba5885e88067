------------------------------- MODULE Compile -------------------------------
(***************************************************************************)
(* pcap_compile() (gencode.c): an expression becomes a graph of blocks,    *)
(* the optimizer rewrites the graph round by round, and the graph becomes  *)
(* a program.  The filter machine of Bpf goes on beside it: the            *)
(* application installs programs of its own making as well.                *)
(***************************************************************************)
EXTENDS Optimize

CONSTANTS
    Exprs,     \* the expressions the application compiles
    Packets    \* the packets their programs are judged by

VARIABLES
    expr,      \* the expression being compiled
    phase,     \* what pcap_compile() does next
    ic,        \* the graph of blocks and its root
    moves,     \* rounds in a row that only moved branches (loop_count)
    odd,       \* whether an odd number of rounds was made: a round that
               \* changes nothing is a step too
    values,    \* values numbered in the last round, and the room for them
    program    \* the result

compiler == <<expr, phase, ic, moves, odd, values, program>>

NoExpr == [t |-> "empty"]
NoGraph == [g |-> <<>>, root |-> NoBlock]

CompilerInit ==
    /\ expr = NoExpr /\ phase = "idle" /\ ic = NoGraph /\ moves = 0
    /\ odd = FALSE
    /\ values = [n |-> 0, max |-> 1] /\ program = <<>>

(* The parser runs the code generator; optimize is the caller's argument *)
PcapCompile(e, optimize) ==
    /\ phase = "idle"
    /\ expr' = e
    /\ \E made \in {Generate(e)} : \E g \in {OptInit(made.g, made.root)} :
          /\ phase' = IF made.err THEN "error" ELSE IF optimize THEN "opt0"
                      ELSE "convert"
          /\ ic' = IF made.err THEN NoGraph
                   ELSE IF optimize THEN [g |-> g, root |-> 1]
                   ELSE [g |-> made.g, root |-> made.root]
          /\ values' = [n |-> 0, max |-> MaxVal(g)]
    /\ UNCHANGED <<moves, odd, program>>

(* A round of opt_loop(); the second loop changes statements *)
OptLoop(this, next) ==
    /\ phase = this
    /\ odd' = ~odd
    /\ \E o \in {Round(ic.g, this = "opt1")} :
          LET again == ~o.done /\ (o.moved \/ moves + 1 < MaxMoves)
          IN  /\ ic' = [ic EXCEPT !.g = o.g]
              /\ values' = [values EXCEPT !.n = Cardinality(o.table)]
              /\ moves' = IF again /\ ~o.moved THEN moves + 1 ELSE 0
              /\ phase' = IF o.err THEN "error" ELSE IF again THEN this
                          ELSE next
    /\ UNCHANGED <<expr, program>>

OptLoopBranches == OptLoop("opt0", "opt1")
OptLoopStatements == OptLoop("opt1", "intern")

(* The end of bpf_optimize(), and the test of what it leaves *)
Intern ==
    LET root == OptRoot(InternBlocks(ic.g, ic.root), ic.root)
        s == root.g[root.root].s
    IN  /\ phase = "intern"
        /\ ic' = root
        /\ phase' = IF s.class = "RET" /\ s.k = 0 THEN "rejects" ELSE "convert"
        /\ UNCHANGED <<expr, moves, odd, values, program>>

Convert ==
    /\ phase = "convert"
    /\ program' = IcodeToFcode(ic.g, ic.root,
                      [b \in Ids(ic.g) |-> [jt |-> FALSE, jf |-> FALSE]])
    /\ phase' = "ok"
    /\ UNCHANGED <<expr, ic, moves, odd, values>>

CompilerStep == OptLoopBranches \/ OptLoopStatements \/ Intern \/ Convert

-----------------------------------------------------------------------------
(* What an expression says of a packet: "yes", "no", or "out" when it      *)
(* reads a byte the packet does not have, or divides by zero               *)

Out == -1

RECURSIVE ValueOf(_, _)
ValueOf(e, pkt) ==
    CASE e.t = "num" -> e.n
      [] e.t = "len" -> Len(pkt)
      [] e.t = "neg" -> LET v == ValueOf(e.of, pkt)
                        IN  IF v = Out THEN Out ELSE (-v) % M
      [] e.t \in {"load", "payload"} ->
            LET i == ValueOf(e.of, pkt)
                at == i + (IF e.t = "load" THEN 1 ELSE 2)
            IN  IF i = Out \/ at > Len(pkt) THEN Out ELSE pkt[at]
      [] e.t = "arth" ->
            LET l == ValueOf(e.l, pkt)
                r == ValueOf(e.r, pkt)
            IN  IF l = Out \/ r = Out \/ (e.op \in {"DIV", "MOD"} /\ r = 0)
                THEN Out ELSE AluValue(e.op, l, r)

(* The protocols an arithmetic expression asks for *)
RECURSIVE Protos(_)
Protos(e) ==
    CASE e.t \in {"num", "len"} -> {}
      [] e.t \in {"neg", "load"} -> Protos(e.of)
      [] e.t = "payload" -> {e.proto} \cup Protos(e.of)
      [] e.t = "arth" -> Protos(e.l) \cup Protos(e.r)

Verdict(b) == IF b THEN "yes" ELSE "no"

Field(pkt, offset, P(_)) ==
    IF offset >= Len(pkt) THEN "out" ELSE Verdict(P(pkt[offset + 1]))

RelationSays(e, pkt) ==
    LET protos == Protos(e.l) \cup Protos(e.r)
        l == ValueOf(e.l, pkt)
        r == ValueOf(e.r, pkt)
    IN  IF protos # {} /\ pkt = <<>> THEN "out"
        ELSE IF \E p \in protos : pkt[1] # p THEN "no"
        ELSE IF l = Out \/ r = Out THEN "out"
        ELSE Verdict(Compare(e.code, l, r) # e.reversed)

Opposite(says) ==
    CASE says = "yes" -> "no" [] says = "no" -> "yes" [] says = "out" -> "out"

RECURSIVE Says(_, _)
Says(e, pkt) ==
    CASE e.t = "empty" -> "yes"
      [] e.t = "ncmp" ->
            Field(pkt, e.offset,
                  LAMBDA b : Compare(e.jtype, b & e.mask, e.v) # e.reverse)
      [] e.t = "bcmp" ->
            IF e.offset + Len(e.v) > Len(pkt) THEN "out"
            ELSE Verdict(SubSeq(pkt, e.offset + 1, e.offset + Len(e.v)) = e.v)
      [] e.t = "byteop" ->
            Field(pkt, e.idx, LAMBDA b : CASE e.op = "=" -> b = e.v
                                           [] e.op = "<" -> b < e.v
                                           [] e.op = ">" -> b > e.v)
      [] e.t = "greater" -> Verdict(Len(pkt) >= e.n)
      [] e.t = "less" -> Verdict(Len(pkt) <= e.n)
      [] e.t = "uncond" -> Verdict(e.rsense)
      [] e.t = "relation" -> RelationSays(e, pkt)
      [] e.t = "not" -> Opposite(Says(e.of, pkt))
      [] e.t \in {"and", "or"} ->
            LET says == Says(e.l, pkt)
                open == IF e.t = "and" THEN "yes" ELSE "no"
            IN  IF says = open THEN Says(e.r, pkt) ELSE says

-----------------------------------------------------------------------------
(* What a graph and a program do with a packet, as the filter machine      *)
(* executes them: the registers, and whether the packet was rejected for   *)
(* a byte it does not have or a division by zero                           *)

Start == [a |-> 0, x |-> 0, m |-> [c \in Cells |-> 0], out |-> FALSE]

Loaded(s, r, pkt) ==
    CASE s.op = "IMM" -> s.k
      [] s.op = "LEN" -> Len(pkt)
      [] s.op = "MEM" -> r.m[s.k]
      [] s.op \in {"ABS", "IND"} ->
            LET at == s.k + (IF s.op = "IND" THEN r.x ELSE 0)
            IN  IF at < Len(pkt) THEN pkt[at + 1] ELSE Out

Exec(r, s, pkt) ==
    LET v == Loaded(s, r, pkt)
        b == IF s.src = "X" THEN r.x ELSE s.k
    IN  CASE r.out \/ s.class = "NOP" -> r
          [] ~r.out /\ s.class \in {"LD", "LDX"} ->
                IF v = Out THEN [r EXCEPT !.out = TRUE]
                ELSE IF s.class = "LD" THEN [r EXCEPT !.a = v]
                ELSE [r EXCEPT !.x = v]
          [] ~r.out /\ s.class = "ST" -> [r EXCEPT !.m[s.k] = r.a]
          [] ~r.out /\ s.class = "STX" -> [r EXCEPT !.m[s.k] = r.x]
          [] ~r.out /\ s.class = "ALU" ->
                IF s.op = "NEG" THEN [r EXCEPT !.a = (-@) % M]
                ELSE IF s.op \in {"DIV", "MOD"} /\ b = 0
                THEN [r EXCEPT !.out = TRUE]
                ELSE [r EXCEPT !.a = AluValue(s.op, @, b)]
          [] ~r.out /\ s.class = "MISC" ->
                IF s.op = "TAX" THEN [r EXCEPT !.x = r.a]
                ELSE [r EXCEPT !.a = r.x]

Taken(r, s) ==
    IF Compare(s.op, r.a, IF s.src = "X" THEN r.x ELSE s.k) THEN "jt" ELSE "jf"

RECURSIVE GraphAccepts(_, _, _, _)
GraphAccepts(g, b, r, pkt) ==
    LET end == Fold(LAMBDA q, s : Exec(q, s, pkt), r, g[b].stmts)
    IN  IF end.out THEN FALSE
        ELSE IF g[b].s.class = "RET" THEN g[b].s.k # 0
        ELSE GraphAccepts(g, g[b][Taken(end, g[b].s)], end, pkt)

RECURSIVE ProgramAccepts(_, _, _, _)
ProgramAccepts(prog, i, r, pkt) ==
    LET s == prog[i]
    IN  CASE r.out -> FALSE
          [] ~r.out /\ s.class = "RET" -> s.k # 0
          [] ~r.out /\ s.class = "JMP" /\ s.op = "JA" ->
                ProgramAccepts(prog, i + 1 + s.k, r, pkt)
          [] ~r.out /\ s.class = "JMP" /\ s.op # "JA" ->
                ProgramAccepts(prog, i + 1 + s[Taken(r, s)], r, pkt)
          [] OTHER -> ProgramAccepts(prog, i + 1, Exec(r, s, pkt), pkt)

-----------------------------------------------------------------------------
CompileInit == Init /\ CompilerInit

(* The application compiles an expression, or installs a program *)
CompileNext ==
    \/ /\ fcode = <<>>
       /\ \/ \E e \in Exprs, optimize \in BOOLEAN : PcapCompile(e, optimize)
          \/ CompilerStep
       /\ UNCHANGED vars
    \/ phase = "idle" /\ Next /\ UNCHANGED compiler

(* pcap_compile() has not returned: a step of the compiler is possible *)
Compiling == phase \in {"opt0", "opt1", "intern", "convert"}

(* The thread that compiles or filters does not stop in between; the       *)
(* second formula is the weak fairness of CompilerStep                     *)
CompileSpec ==
    /\ CompileInit /\ [][CompileNext]_<<vars, compiler>>
    /\ WF_vars(Step)
    /\ []<>(~Compiling) \/ []<><<TRUE>>_compiler

-----------------------------------------------------------------------------
Agrees(says, accepts) ==
    (says = "yes" => accepts) /\ (says = "no" => ~accepts)

(* Through code generation, every round of the optimizer, the merging of   *)
(* blocks and the layout of the jumps, the filter accepts the packets the  *)
(* expression says yes to and rejects those it says no to.  Of a packet    *)
(* too short for what the expression reads nothing is said: the optimizer  *)
(* drops loads whose value is not used.                                    *)
FilterMeans ==
    \A pkt \in Packets :
        /\ phase \in {"opt0", "opt1", "intern", "convert", "rejects"} =>
              Agrees(Says(expr, pkt), GraphAccepts(ic.g, ic.root, Start, pkt))
        /\ phase = "ok" =>
              Agrees(Says(expr, pkt), ProgramAccepts(program, 1, Start, pkt))

(* What pcap_compile() returns is a program that pcap_setfilter() takes:   *)
(* jumps that are too long for their field go through a jump of their own  *)
CompiledIsValid == phase = "ok" => Valid(program)

(* A round never numbers more values than opt_init() made room for *)
ValuesFit == values.n < values.max

(* pcap_compile() returns: the rounds of the optimizer come to an end *)
CompileReturns == phase # "idle" ~> phase \in {"ok", "rejects", "error"}

=============================================================================
