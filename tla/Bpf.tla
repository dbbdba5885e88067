--------------------------------- MODULE Bpf ---------------------------------
(***************************************************************************)
(* Filter programs (bpf_filter.c): the validator that every program passes *)
(* before it is installed in a handle (optimize.c), and the interpreter    *)
(* that runs the installed program on a packet, one instruction a step.    *)
(*                                                                         *)
(* An instruction is a record.  Its "code" is split in the fields that the *)
(* macros of pcap/bpf.h take out of it: the class, the mode of a load or   *)
(* the operation (op), and the size of a load or the source (src).         *)
(***************************************************************************)
EXTENDS Integers, Sequences

CONSTANTS
    M,             \* 2^w for a word of w bits; 2^32 in the code
    JumpMax,       \* the largest jt or jf; 255 in the code
    BPF_MEMWORDS,  \* words of scratch memory; 16 in the code
    Programs,      \* the programs the application hands to pcap_setfilter()
    MaxBuf,        \* bound: bytes of a packet
    MaxInstalls,   \* bound: calls of pcap_setfilter()
    MayFail        \* may malloc() fail?

Word == 0..(M - 1)

Classes == {"LD", "LDX", "ST", "STX", "ALU", "JMP", "RET", "MISC"}

LoadModes == {"IMM", "ABS", "IND", "MSH", "MEM", "LEN"}

AluOps == {"ADD", "SUB", "MUL", "DIV", "MOD", "OR", "AND", "XOR", "LSH",
           "RSH", "NEG"}

CondJumps == {"JEQ", "JGT", "JGE", "JSET"}

MiscOps == {"TAX", "TXA"}

Ops == LoadModes \cup AluOps \cup CondJumps \cup MiscOps \cup {"JA", "NONE"}

Sizes == {"W", "H", "B"}

Insn == [class : Classes, op : Ops, src : Sizes \cup {"K", "X", "A", "NONE"},
         k : Word, jt : 0..JumpMax, jf : 0..JumpMax]

(* A program's length is an int; jumps of JumpMax from it do not overflow *)
ASSUME BpfAssumption ==
    /\ M \in Nat /\ BPF_MEMWORDS \in Nat /\ MaxBuf \in Word
    /\ JumpMax \in Nat /\ 2 * JumpMax < M
    /\ Programs \subseteq Seq(Insn)
    /\ \A prog \in Programs : 2 * Len(prog) < M
    /\ MaxInstalls \in Nat /\ MayFail \in BOOLEAN

VARIABLES
    fcode,    \* the installed program; <<>> when there is none
    st,       \* "idle", "run", or "abort" after abort()
    pc,       \* index of the current instruction, from 0
    A, X,     \* the registers
    mem,      \* scratch memory; -1 for a word that was never written
    buflen,   \* captured bytes of the packet
    wirelen,  \* its original length
    ret,      \* what the last library call returned
    installs, \* calls of pcap_setfilter() so far
    touched   \* the bytes of the packet the last step read

handle == <<fcode, ret, installs>>
packet == <<buflen, wirelen>>
registers == <<A, X>>
vars == <<handle, st, pc, registers, mem, packet, touched>>

Cells == 0..(BPF_MEMWORDS - 1)
Unwritten == -1

Init ==
    /\ fcode = <<>> /\ st = "idle" /\ pc = 0 /\ A = 0 /\ X = 0
    /\ mem = [c \in Cells |-> Unwritten] /\ buflen = 0 /\ wirelen = 0
    /\ ret = 0 /\ installs = 0 /\ touched = {}

-----------------------------------------------------------------------------
(* pcapint_validate_filter(), for the instruction at index i *)

ValidLoad(insn) ==
    /\ insn.op \in LoadModes
    /\ insn.op = "MEM" => insn.k < BPF_MEMWORDS

ValidStore(insn) == insn.k < BPF_MEMWORDS

ValidAlu(insn) ==
    /\ insn.op \in AluOps
    /\ ~(insn.op \in {"DIV", "MOD"} /\ insn.src = "K" /\ insn.k = 0)

(* A mutant: the limit is off by one *)
JumpsPastEnd(insn, i, len) ==
    \/ insn.op = "JA" /\ (i + 1 + insn.k) % M <= len
    \/ insn.op \in CondJumps /\ i + 1 + insn.jt <= len /\ i + 1 + insn.jf <= len

(* "from" and the sum are u_int *)
ValidJump(insn, i, len) ==
    \/ insn.op = "JA" /\ (i + 1 + insn.k) % M < len
    \/ insn.op \in CondJumps /\ i + 1 + insn.jt < len /\ i + 1 + insn.jf < len

ValidInsn(insn, i, len) ==
    /\ insn.class \in {"LD", "LDX"} => ValidLoad(insn)
    /\ insn.class \in {"ST", "STX"} => ValidStore(insn)
    /\ insn.class = "ALU" => ValidAlu(insn)
    /\ insn.class = "JMP" => ValidJump(insn, i, len)

EndsWithRet(prog) == prog[Len(prog)].class = "RET"

Valid(prog) ==
    /\ Len(prog) >= 1
    /\ \A i \in 0..(Len(prog) - 1) : ValidInsn(prog[i + 1], i, Len(prog))
    /\ EndsWithRet(prog)

-----------------------------------------------------------------------------
(* pcapint_install_bpf_program(): an invalid program leaves the old one in *)
(* place; a failure to copy a valid one leaves none.                       *)
Install ==
    /\ st = "idle" /\ installs < MaxInstalls
    /\ installs' = installs + 1
    /\ \E prog \in Programs :
          \/ ~Valid(prog) /\ ret' = -1 /\ UNCHANGED fcode
          \/ Valid(prog) /\ ret' = 0 /\ fcode' = prog
          \/ Valid(prog) /\ MayFail /\ ret' = -1 /\ fcode' = <<>>
    /\ touched' = {}
    /\ UNCHANGED <<st, pc, registers, mem, packet>>

(* pcapint_filter() is called; without a program it accepts the packet *)
Filter(len, wire) ==
    /\ st = "idle"
    /\ IF fcode = <<>>
       THEN ret' = M - 1 /\ UNCHANGED <<st, packet>>
       ELSE st' = "run" /\ buflen' = len /\ wirelen' = wire /\ UNCHANGED ret
    /\ touched' = {}
    /\ UNCHANGED <<fcode, installs, pc, registers, mem>>

-----------------------------------------------------------------------------
(* pcapint_filter_with_aux_data(), with no auxiliary data *)

insn == fcode[pc + 1]

Is(class, op, src) == insn.class = class /\ insn.op = op /\ insn.src = src

(* "continue": go on with the next instruction *)
Continue ==
    /\ pc' = pc + 1
    /\ UNCHANGED <<handle, st, packet>>

(* "return"; the locals are gone *)
Return(v) ==
    /\ ret' = v /\ st' = "idle"
    /\ pc' = 0 /\ A' = 0 /\ X' = 0
    /\ mem' = [c \in Cells |-> Unwritten]
    /\ buflen' = 0 /\ wirelen' = 0
    /\ UNCHANGED <<fcode, installs>>

Bytes(size) == CASE size = "W" -> 4 [] size = "H" -> 2 [] size = "B" -> 1

(* The run-time checks of loads from the packet; unsigned arithmetic *)
AbsOK(size) ==
    IF size = "B"
    THEN insn.k < buflen
    ELSE insn.k <= buflen /\ Bytes(size) <= (buflen - insn.k) % M

IndexK == (X + insn.k) % M

IndOK(size) ==
    CASE size = "W" -> /\ insn.k <= buflen /\ X <= (buflen - insn.k) % M
                       /\ 4 <= (buflen - IndexK) % M
      [] size = "H" -> /\ X <= buflen /\ insn.k <= (buflen - X) % M
                       /\ 2 <= (buflen - IndexK) % M
      [] size = "B" -> insn.k < buflen /\ X < (buflen - insn.k) % M

(* The bytes themselves are any bytes *)
LoadAbs ==
    /\ st = "run"
    /\ \E size \in Sizes :
          /\ Is("LD", "ABS", size)
          /\ IF AbsOK(size)
             THEN /\ touched' = insn.k..(insn.k + Bytes(size) - 1)
                  /\ A' \in Word
                  /\ Continue /\ UNCHANGED <<X, mem>>
             ELSE touched' = {} /\ Return(0)

LoadInd ==
    /\ st = "run"
    /\ \E size \in Sizes :
          /\ Is("LD", "IND", size)
          /\ IF IndOK(size)
             THEN /\ touched' = IndexK..(IndexK + Bytes(size) - 1)
                  /\ A' \in Word
                  /\ Continue /\ UNCHANGED <<X, mem>>
             ELSE touched' = {} /\ Return(0)

(* X = 4 * (low four bits of a byte) *)
LoadMsh ==
    /\ st = "run" /\ Is("LDX", "MSH", "B")
    /\ IF insn.k < buflen
       THEN /\ touched' = {insn.k}
            /\ X' \in {(4 * n) % M : n \in 0..15}
            /\ Continue /\ UNCHANGED <<A, mem>>
       ELSE touched' = {} /\ Return(0)

LoadOther ==
    /\ st = "run"
    /\ \/ Is("LD", "LEN", "W") /\ A' = wirelen /\ UNCHANGED X
       \/ Is("LDX", "LEN", "W") /\ X' = wirelen /\ UNCHANGED A
       \/ Is("LD", "IMM", "W") /\ A' = insn.k /\ UNCHANGED X
       \/ Is("LDX", "IMM", "W") /\ X' = insn.k /\ UNCHANGED A
    /\ touched' = {}
    /\ Continue /\ UNCHANGED mem

(* A word that was never written holds anything *)
MemValues == IF mem[insn.k] = Unwritten THEN Word ELSE {mem[insn.k]}

LoadMem ==
    /\ st = "run"
    /\ \/ Is("LD", "MEM", "W") /\ A' \in MemValues /\ UNCHANGED X
       \/ Is("LDX", "MEM", "W") /\ X' \in MemValues /\ UNCHANGED A
    /\ touched' = {}
    /\ Continue /\ UNCHANGED mem

Store ==
    /\ st = "run"
    /\ \/ Is("ST", "NONE", "NONE") /\ mem' = [mem EXCEPT ![insn.k] = A]
       \/ Is("STX", "NONE", "NONE") /\ mem' = [mem EXCEPT ![insn.k] = X]
    /\ touched' = {}
    /\ Continue /\ UNCHANGED registers

(* The sign of a JA's offset *)
SignExtend(k) == IF 2 * k < M THEN k ELSE k - M

(* A mutant: a jump forward is relative to the instruction itself *)
JumpInPlace(n) ==
    /\ pc' = IF n < 0 THEN pc + 1 + n ELSE pc + n
    /\ touched' = {}
    /\ UNCHANGED <<handle, st, packet, registers, mem>>

Jump(n) ==
    /\ pc' = pc + 1 + n
    /\ touched' = {}
    /\ UNCHANGED <<handle, st, packet, registers, mem>>

Always ==
    /\ st = "run" /\ Is("JMP", "JA", "K")
    /\ Jump(SignExtend(insn.k))

(* JSET's bits are not modelled: it goes either way *)
Holds(op, a, b) ==
    CASE op = "JEQ" -> {a = b}
      [] op = "JGT" -> {a > b}
      [] op = "JGE" -> {a >= b}
      [] op = "JSET" -> BOOLEAN

Operand == IF insn.src = "X" THEN X ELSE insn.k

CondJump ==
    /\ st = "run" /\ insn.class = "JMP"
    /\ insn.op \in CondJumps /\ insn.src \in {"K", "X"}
    /\ \E b \in Holds(insn.op, A, Operand) :
          Jump(IF b THEN insn.jt ELSE insn.jf)

(* Modular arithmetic; what depends on single bits, and a shift of A by a  *)
(* constant beyond its width, may give any word                            *)
AluResult(op, b) ==
    CASE op = "ADD" -> {(A + b) % M}
      [] op = "SUB" -> {(A - b) % M}
      [] op = "MUL" -> {(A * b) % M}
      [] op = "DIV" -> {A \div b}
      [] op = "MOD" -> {A % b}
      [] op = "NEG" -> {(-A) % M}
      [] op \in {"OR", "AND", "XOR", "LSH", "RSH"} -> Word

(* Only a division by X is checked here; NEG has no operand *)
Alu ==
    /\ st = "run" /\ insn.class = "ALU" /\ insn.op \in AluOps
    /\ insn.src \in IF insn.op = "NEG" THEN {"K"} ELSE {"K", "X"}
    /\ touched' = {}
    /\ IF insn.op \in {"DIV", "MOD"} /\ insn.src = "X" /\ X = 0
       THEN Return(0)
       ELSE /\ A' \in AluResult(insn.op, Operand)
            /\ Continue /\ UNCHANGED <<X, mem>>

Misc ==
    /\ st = "run"
    /\ \/ Is("MISC", "TAX", "NONE") /\ X' = A /\ UNCHANGED A
       \/ Is("MISC", "TXA", "NONE") /\ A' = X /\ UNCHANGED X
    /\ touched' = {}
    /\ Continue /\ UNCHANGED mem

Ret ==
    /\ st = "run"
    /\ \/ Is("RET", "NONE", "K") /\ Return(insn.k)
       \/ Is("RET", "NONE", "A") /\ Return(A)
    /\ touched' = {}

(* The codes that have a case in the interpreter's switch *)
Known ==
    \/ insn.class = "LD" /\ insn.op \in {"ABS", "IND"} /\ insn.src \in Sizes
    \/ /\ insn.class \in {"LD", "LDX"} /\ insn.op \in {"LEN", "IMM", "MEM"}
       /\ insn.src = "W"
    \/ Is("LDX", "MSH", "B")
    \/ Is("ST", "NONE", "NONE") \/ Is("STX", "NONE", "NONE")
    \/ Is("JMP", "JA", "K")
    \/ /\ insn.class = "JMP" /\ insn.op \in CondJumps
       /\ insn.src \in {"K", "X"}
    \/ /\ insn.class = "ALU" /\ insn.op \in AluOps
       /\ insn.src \in IF insn.op = "NEG" THEN {"K"} ELSE {"K", "X"}
    \/ insn.class = "MISC" /\ insn.op \in MiscOps /\ insn.src = "NONE"
    \/ Is("RET", "NONE", "K") \/ Is("RET", "NONE", "A")

Abort ==
    /\ st = "run" /\ ~Known
    /\ st' = "abort" /\ touched' = {}
    /\ UNCHANGED <<handle, pc, registers, mem, packet>>

Step == LoadAbs \/ LoadInd \/ LoadMsh \/ LoadOther \/ LoadMem \/ Store
        \/ Always \/ CondJump \/ Alu \/ Misc \/ Ret \/ Abort

Next ==
    \/ Install
    \/ \E len \in 0..MaxBuf, wire \in 0..MaxBuf : Filter(len, wire)
    \/ Step

Spec == Init /\ [][Next]_vars

(* The thread that runs the program does not stop inside it *)
FairSpec == Spec /\ WF_vars(Step)

-----------------------------------------------------------------------------
(* The types of the handle's program, the registers and the memory *)
TypeOK ==
    /\ fcode \in Seq(Insn)
    /\ st \in {"idle", "run", "abort"}
    /\ pc \in Int /\ A \in Word /\ X \in Word
    /\ mem \in [Cells -> Word \cup {Unwritten}]
    /\ buflen \in 0..MaxBuf /\ wirelen \in 0..MaxBuf
    /\ ret \in Word \cup {-1} /\ installs \in 0..MaxInstalls
    /\ touched \subseteq Int

StaysInProgram == st = "run" => pc \in 0..(Len(fcode) - 1)

CellsInRange ==
    st = "run" /\ pc \in 0..(Len(fcode) - 1) =>
        /\ insn.class \in {"ST", "STX"} => insn.k \in Cells
        /\ insn.class \in {"LD", "LDX"} /\ insn.op = "MEM" =>
              insn.k \in Cells

NoConstantZero ==
    st = "run" /\ pc \in 0..(Len(fcode) - 1) =>
        ~(/\ insn.class = "ALU" /\ insn.op \in {"DIV", "MOD"}
          /\ insn.src = "K" /\ insn.k = 0)

(* What the validator promises of each step of the interpreter: it stays   *)
(* inside the program, uses memory inside the scratch array, and divides   *)
(* by no constant zero.                                                    *)
ValidatedSafe == StaysInProgram /\ CellsInRange /\ NoConstantZero

(* The run-time checks keep every load of packet data inside the captured  *)
(* bytes, although X + k is computed modulo the word size                  *)
LoadsInPacket == touched \subseteq 0..(buflen - 1)

(* What a filter does stays within its program, its memory and the packet *)
InterpreterSafe == ValidatedSafe /\ LoadsInPacket

(* No branch of the program has an offset that wraps around *)
JumpsForward ==
    \A i \in DOMAIN fcode :
        fcode[i].class = "JMP" /\ fcode[i].op = "JA" => i + fcode[i].k < M

(* A program whose branches do not wrap comes to an end: every jump the    *)
(* validator accepts then leads forward, to an instruction of the program  *)
Terminates == st = "run" /\ JumpsForward ~> st # "run"

=============================================================================
