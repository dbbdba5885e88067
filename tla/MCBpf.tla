-------------------------------- MODULE MCBpf --------------------------------
(* Small instances of Bpf: words of four bits and programs of up to three   *)
(* instructions.                                                            *)
EXTENDS Compile

In(class, op, src, k) ==
    [class |-> class, op |-> op, src |-> src, k |-> k, jt |-> 0, jf |-> 0]

Br(op, src, k, jt, jf) ==
    [class |-> "JMP", op |-> op, src |-> src, k |-> k, jt |-> jt, jf |-> jf]

Loads ==
    {In("LD", "ABS", "W", k) : k \in {1, M - 1}} \cup {In("LD", "ABS", "B", 4)}
    \cup {In("LD", "IND", size, k) : size \in Sizes, k \in {1, M - 1}}
    \cup {In("LDX", "MSH", "B", 0), In("LD", "LEN", "W", 0)}
    \cup {In("LDX", "IMM", "W", k) : k \in {1, M - 1}}

Moves ==
    {In("LD", "MEM", "W", k) : k \in {1, 2}}
    \cup {In("STX", "NONE", "NONE", k) : k \in {1, 2}}
    \cup {In("ALU", "SUB", "K", 1), In("ALU", "DIV", "X", 0),
          In("ALU", "MOD", "K", 0), In("ALU", "AND", "K", 1)}
    \cup {In("MISC", "TAX", "NONE", 0)}

Forward ==
    {In("JMP", "JA", "K", k) : k \in {0, 1}}
    \cup {Br("JEQ", "K", 0, 0, 1), Br("JGT", "X", 0, 1, 0),
          Br("JSET", "K", 1, 0, 2)}

(* Offsets that wrap: M - 1 is -1 and M - 3 is -3 *)
Backward == {In("JMP", "JA", "K", k) : k \in {M - 3, M - 2, M - 1}}

Returns == {In("RET", "NONE", "K", 1), In("RET", "NONE", "A", 0)}

(* A code with no case in the interpreter *)
Odd == {In("RET", "NONE", "X", 0)}

Straight == Loads \cup Moves \cup Forward \cup Returns \cup Odd

SeqsUpTo(S, n) == UNION {[1..i -> S] : i \in 0..n}

(* Those that longer programs are made of *)
Core ==
    {In("ALU", "SUB", "K", 1), In("LD", "IND", "H", M - 1),
     In("LDX", "IMM", "W", M - 1), In("LD", "MEM", "W", 1),
     In("STX", "NONE", "NONE", 1), In("MISC", "TAX", "NONE", 0),
     Br("JEQ", "K", 0, 0, 1), Br("JGT", "X", 0, 1, 0), In("RET", "NONE", "A", 0),
     In("JMP", "JA", "K", M - 3), In("JMP", "JA", "K", M - 2)}

AllPrograms == SeqsUpTo(Straight \cup Backward, 2) \cup SeqsUpTo(Core, 3)

-----------------------------------------------------------------------------
(* Expressions: comparisons of two bytes, alone, negated and combined *)

Ncmp(offset, mask, jtype, reverse, v) ==
    [t |-> "ncmp", offset |-> offset, mask |-> mask, jtype |-> jtype,
     reverse |-> reverse, v |-> v]

Eq(offset, v) == Ncmp(offset, M - 1, "JEQ", FALSE, v)

Unless(e) == [t |-> "not", of |-> e]

Pair(t, l, r) == [t |-> t, l |-> l, r |-> r]

Fields ==
    {Eq(0, 1), Eq(0, 2), Eq(1, 1), Ncmp(0, 3, "JEQ", FALSE, 0),
     Ncmp(1, M - 1, "JGT", FALSE, 1)}

Atomics ==
    Fields \cup {Unless(e) : e \in Fields}
    \cup {[t |-> "bcmp", offset |-> 0, v |-> <<1, 2>>],
          [t |-> "byteop", op |-> "<", idx |-> 1, v |-> 2],
          [t |-> "greater", n |-> 2], [t |-> "less", n |-> 1],
          [t |-> "uncond", rsense |-> TRUE], [t |-> "uncond", rsense |-> FALSE]}

Num(n) == [t |-> "num", n |-> n]
Load(e) == [t |-> "load", of |-> e]
Payload(e) == [t |-> "payload", of |-> e, proto |-> 1]
Of(op, l, r) == [t |-> "arth", op |-> op, l |-> l, r |-> r]

Rel(l, code, reversed, r) ==
    [t |-> "relation", code |-> code, reversed |-> reversed, l |-> l, r |-> r]

Values ==
    {[t |-> "len"], Load(Num(0)), Load(Load(Num(0))), Payload(Num(0)),
     [t |-> "neg", of |-> Load(Num(0))], Of("ADD", Num(1), Num(2)),
     Of("ADD", Load(Num(0)), [t |-> "len"]),
     Of("SUB", Payload(Num(0)), Load(Num(0))),
     Load(Of("SUB", [t |-> "len"], Num(1)))}
    \cup {Of(op, Load(Num(0)), Num(2)) :
             op \in {"ADD", "SUB", "MUL", "DIV", "MOD", "AND", "OR", "XOR",
                     "LSH", "RSH"}}
    \cup {Of(op, Load(Num(0)), Num(0)) : op \in {"ADD", "MUL", "DIV", "AND"}}
    \cup {Of(op, Load(Num(0)), Num(3)) : op \in {"LSH", "DIV"}}
    \cup {Of(op, Load(Num(0)), Load(Num(1))) : op \in {"SUB", "DIV", "LSH"}}

Relations ==
    {Rel(v, "JEQ", FALSE, Num(2)) : v \in Values}
    \cup {Rel(v, "JGT", FALSE, Load(Num(1))) : v \in Values}
    \cup {Rel(v, "JGE", TRUE, Payload(Num(1))) : v \in Values}
    \cup {Rel(Num(0), "JEQ", FALSE, Of("ADD", Load(Num(0)), Load(Num(1))))}

Pairs == {Pair(t, l, r) : t \in {"and", "or"}, l \in Atomics, r \in Fields}

(* Chains that test the same byte again: branches are moved over blocks *)
Chains ==
    LET Base == {Eq(0, 1), Eq(0, 2), Eq(1, 1)}
        Two(t) == UNION {{Pair(t, l, r) : r \in Base \ {l}} : l \in Base}
        Same == (Two("and") \X Two("and")) \cup (Two("or") \X Two("or"))
    IN  {Pair(t, lr[1], lr[2]) : t \in {"and", "or"}, lr \in Same}
        \cup {Pair("and", Eq(0, 1), Rel(v, "JEQ", FALSE, Num(2))) :
                 v \in Values}

MCExprs ==
    {[t |-> "empty"]} \cup Atomics \cup Pairs \cup Relations \cup Chains

MCPackets ==
    UNION {[1..n -> 0..2] : n \in 0..2}
    \cup {<<1, 2, 3>>, <<1, 1, 0>>, <<2, 0, 1>>}

=============================================================================
