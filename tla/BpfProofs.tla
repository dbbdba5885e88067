------------------------------ MODULE BpfProofs ------------------------------
(***************************************************************************)
(* What the validator and the run-time checks of the interpreter promise,  *)
(* for every word size, memory size and set of programs.                   *)
(***************************************************************************)
EXTENDS Bpf, TLAPS

(* An installed program is valid; a running one is at one of its           *)
(* instructions; what a step reads of the packet was captured.             *)
IInv ==
    /\ TypeOK
    /\ fcode # <<>> => Valid(fcode) /\ 2 * Len(fcode) < M
    /\ st = "run" => fcode # <<>> /\ pc \in 0..(Len(fcode) - 1)
    /\ st = "idle" => pc = 0
    /\ touched \subseteq 0..(buflen - 1)

-----------------------------------------------------------------------------
(* A word is its own residue, and up to one word more wraps once. *)
LEMMA ModSmall == ASSUME NEW m \in Nat, NEW x \in 0..(m - 1) PROVE x % m = x
  OBVIOUS

LEMMA ModWrap ==
    ASSUME NEW m \in Nat, NEW x \in m..(2 * m - 1) PROVE x % m = x - m
  OBVIOUS

(* Reduction modulo the word size gives a word. *)
LEMMA ModWord == M > 0 => \A i \in Int : i % M \in Word
  BY BpfAssumption DEF Word

(* The current instruction of a running program is one, and is valid. *)
LEMMA Current ==
    ASSUME IInv, st = "run"
    PROVE  /\ insn \in Insn /\ ValidInsn(insn, pc, Len(fcode))
           /\ pc \in 0..(Len(fcode) - 1) /\ Len(fcode) \in Nat
           /\ 2 * Len(fcode) < M
  <1>1. fcode \in Seq(Insn) /\ pc \in 0..(Len(fcode) - 1) /\ Valid(fcode)
    BY DEF IInv, TypeOK
  <1>2. Len(fcode) \in Nat /\ pc + 1 \in 1..Len(fcode)
    BY <1>1
  <1>3. fcode[pc + 1] \in Insn
    BY <1>1, <1>2
  <1>4. ValidInsn(fcode[pc + 1], pc, Len(fcode))
    BY <1>1 DEF Valid
  <1> QED
    BY <1>1, <1>2, <1>3, <1>4 DEF insn, IInv

(* Only a RET can be last, so the others are followed by an instruction. *)
LEMMA NotLast ==
    ASSUME IInv, st = "run", insn.class # "RET"
    PROVE  pc + 1 \in 0..(Len(fcode) - 1)
  <1>1. pc \in 0..(Len(fcode) - 1) /\ Len(fcode) \in Nat
    BY Current
  <1>2. Len(fcode) # pc + 1
    BY DEF IInv, Valid, EndsWithRet, insn
  <1> QED
    BY <1>1, <1>2

(* A jump the validator accepts lands on an instruction, although the      *)
(* validator adds its offset as unsigned and the interpreter as signed.    *)
LEMMA JumpLands ==
    ASSUME NEW len \in Nat, 2 * len < M, NEW i \in 0..(len - 1),
           NEW in \in Insn, ValidJump(in, i, len)
    PROVE  /\ in.op = "JA" => i + 1 + SignExtend(in.k) \in 0..(len - 1)
           /\ in.op \in CondJumps => /\ i + 1 + in.jt \in 0..(len - 1)
                                     /\ i + 1 + in.jf \in 0..(len - 1)
  <1>1. /\ in.k \in 0..(M - 1) /\ in.jt \in Nat /\ in.jf \in Nat
        /\ M \in Nat
    BY BpfAssumption DEF Insn, Word
  <1>2. ASSUME in.op = "JA" PROVE i + 1 + SignExtend(in.k) \in 0..(len - 1)
    <2>1. (i + 1 + in.k) % M < len
      BY <1>2 DEF ValidJump, CondJumps
    <2>2. CASE i + 1 + in.k < M
      <3>1. i + 1 + in.k \in 0..(M - 1)
        BY <1>1, <2>2
      <3>2. (i + 1 + in.k) % M = i + 1 + in.k
        BY <1>1, <3>1, ModSmall, Zenon
      <3> QED
        BY <1>1, <2>1, <3>2 DEF SignExtend
    <2>3. CASE ~(i + 1 + in.k < M)
      <3>1. i + 1 + in.k \in M..(2 * M - 1)
        BY <1>1, <2>3
      <3>2. (i + 1 + in.k) % M = (i + 1 + in.k) - M
        BY <1>1, <3>1, ModWrap, Zenon
      <3> QED
        BY <1>1, <2>1, <2>3, <3>2 DEF SignExtend
    <2> QED
      BY <2>2, <2>3
  <1>3. ASSUME in.op \in CondJumps
        PROVE  i + 1 + in.jt \in 0..(len - 1) /\ i + 1 + in.jf \in 0..(len - 1)
    BY <1>1, <1>3 DEF ValidJump, CondJumps
  <1> QED
    BY <1>2, <1>3
(* The types the run-time checks compute with. *)
LEMMA CheckTypes ==
    ASSUME IInv, st = "run"
    PROVE  /\ M \in Nat /\ insn.k \in 0..(M - 1) /\ X \in 0..(M - 1)
           /\ buflen \in 0..(M - 1)
  <1>1. insn \in Insn /\ X \in Word /\ buflen \in 0..MaxBuf
    BY Current DEF IInv, TypeOK
  <1>2. M \in Nat /\ MaxBuf \in 0..(M - 1)
    BY BpfAssumption DEF Word
  <1> QED
    BY <1>1, <1>2 DEF Insn, Word

(* A load at a fixed offset that passes its check is inside the packet. *)
LEMMA AbsInPacket ==
    ASSUME IInv, st = "run", NEW size \in Sizes, AbsOK(size)
    PROVE  insn.k..(insn.k + Bytes(size) - 1) \subseteq 0..(buflen - 1)
  <1>1. /\ M \in Nat /\ insn.k \in 0..(M - 1) /\ buflen \in 0..(M - 1)
    BY CheckTypes
  <1>2. CASE size = "B"
    BY <1>1, <1>2 DEF AbsOK, Bytes
  <1>3. CASE size \in {"W", "H"}
    <2>1. insn.k <= buflen /\ Bytes(size) <= (buflen - insn.k) % M
      BY <1>3 DEF AbsOK
    <2>2. buflen - insn.k \in 0..(M - 1)
      BY <1>1, <2>1
    <2>3. (buflen - insn.k) % M = buflen - insn.k
      BY <1>1, <2>2, ModSmall, Zenon
    <2>4. Bytes(size) \in {2, 4}
      BY <1>3 DEF Bytes
    <2> QED
      BY <1>1, <2>1, <2>3, <2>4
  <1> QED
    BY <1>2, <1>3 DEF Sizes

(* So is a load relative to X, although X + k may wrap around. *)
LEMMA IndInPacket ==
    ASSUME IInv, st = "run", NEW size \in Sizes, IndOK(size)
    PROVE  IndexK..(IndexK + Bytes(size) - 1) \subseteq 0..(buflen - 1)
  <1>1. /\ M \in Nat /\ insn.k \in 0..(M - 1) /\ X \in 0..(M - 1)
        /\ buflen \in 0..(M - 1)
    BY CheckTypes
  <1>2. X + insn.k <= buflen
    <2>1. CASE size = "W" \/ size = "B"
      <3>1. insn.k <= buflen /\ X <= (buflen - insn.k) % M
        <4>1. CASE size = "W"
          BY <4>1 DEF IndOK
        <4>2. CASE size = "B"
          <5>1. insn.k < buflen /\ X < (buflen - insn.k) % M
            BY <4>2 DEF IndOK
          <5>2. (buflen - insn.k) % M \in Int
            BY <1>1
          <5> QED
            BY <1>1, <5>1, <5>2
        <4> QED
          BY <2>1, <4>1, <4>2
      <3>2. buflen - insn.k \in 0..(M - 1)
        BY <1>1, <3>1
      <3>3. (buflen - insn.k) % M = buflen - insn.k
        BY <1>1, <3>2, ModSmall, Zenon
      <3> QED
        BY <1>1, <3>1, <3>3
    <2>2. CASE size = "H"
      <3>1. X <= buflen /\ insn.k <= (buflen - X) % M
        BY <2>2 DEF IndOK
      <3>2. buflen - X \in 0..(M - 1)
        BY <1>1, <3>1
      <3>3. (buflen - X) % M = buflen - X
        BY <1>1, <3>2, ModSmall, Zenon
      <3> QED
        BY <1>1, <3>1, <3>3
    <2> QED
      BY <2>1, <2>2 DEF Sizes
  <1>3. X + insn.k \in 0..(M - 1)
    BY <1>1, <1>2
  <1>4. IndexK = X + insn.k
    BY <1>1, <1>3, ModSmall, Zenon DEF IndexK
  <1>5. CASE size = "B"
    <2>1. insn.k < buflen /\ X < (buflen - insn.k) % M
      BY <1>5 DEF IndOK
    <2>2. buflen - insn.k \in 0..(M - 1)
      BY <1>1, <2>1
    <2>3. (buflen - insn.k) % M = buflen - insn.k
      BY <1>1, <2>2, ModSmall, Zenon
    <2> QED
      BY <1>1, <1>4, <1>5, <2>1, <2>3 DEF Bytes
  <1>6. CASE size \in {"W", "H"}
    <2>1. Bytes(size) <= (buflen - IndexK) % M /\ Bytes(size) \in {2, 4}
      BY <1>6 DEF IndOK, Bytes
    <2>2. buflen - IndexK \in 0..(M - 1)
      BY <1>1, <1>2, <1>4
    <2>3. (buflen - IndexK) % M = buflen - IndexK
      BY <1>1, <2>2, ModSmall, Zenon
    <2> QED
      BY <1>1, <1>4, <2>1, <2>3
  <1> QED
    BY <1>5, <1>6 DEF Sizes

-----------------------------------------------------------------------------
(* "continue" preserves the invariant: the instruction was not the last. *)
LEMMA ContinueStep ==
    ASSUME IInv, st = "run", insn.class # "RET", Continue,
           A' \in Word, X' \in Word, mem' \in [Cells -> Word \cup {Unwritten}],
           touched' \subseteq 0..(buflen - 1)
    PROVE  IInv'
  <1>1. pc + 1 \in 0..(Len(fcode) - 1)
    BY NotLast
  <1>2. UNCHANGED <<fcode, ret, installs, st, buflen, wirelen>> /\ pc' = pc + 1
    BY DEF Continue, handle, packet
  <1>3. TypeOK'
    BY <1>1, <1>2 DEF IInv, TypeOK
  <1> QED
    BY <1>1, <1>2, <1>3 DEF IInv

(* "return" preserves it. *)
LEMMA ReturnStep ==
    ASSUME IInv, NEW v \in Word, Return(v), touched' = {}
    PROVE  IInv'
  <1>1. 0 \in Word /\ 0 \in 0..MaxBuf
    BY BpfAssumption DEF Word
  <1>2. TypeOK'
    BY <1>1 DEF IInv, TypeOK, Return
  <1> QED
    BY <1>2 DEF IInv, Return

(* So does a jump that lands on an instruction. *)
LEMMA JumpStep ==
    ASSUME IInv, st = "run", NEW n \in Int,
           pc + 1 + n \in 0..(Len(fcode) - 1), Jump(n)
    PROVE  IInv'
  <1>1. /\ UNCHANGED <<fcode, ret, installs, st, buflen, wirelen, A, X, mem>>
        /\ pc' = pc + 1 + n /\ touched' = {}
    BY DEF Jump, handle, packet, registers
  <1>2. TypeOK'
    BY <1>1 DEF IInv, TypeOK
  <1> QED
    BY <1>1, <1>2 DEF IInv

(* The loads. *)
LEMMA LoadStep ==
    IInv /\ (LoadAbs \/ LoadInd \/ LoadMsh \/ LoadOther \/ LoadMem) => IInv'
  <1> SUFFICES ASSUME IInv,
                      LoadAbs \/ LoadInd \/ LoadMsh \/ LoadOther \/ LoadMem
               PROVE  IInv'
    OBVIOUS
  <1>1. /\ st = "run" /\ 0 \in Word /\ A \in Word /\ X \in Word
        /\ wirelen \in Word /\ insn \in Insn
        /\ mem \in [Cells -> Word \cup {Unwritten}]
    <2>1. st = "run"
      BY DEF LoadAbs, LoadInd, LoadMsh, LoadOther, LoadMem
    <2>2. wirelen \in Word
      BY BpfAssumption DEF IInv, TypeOK, Word
    <2> QED
      BY <2>1, <2>2, Current, BpfAssumption DEF IInv, TypeOK, Word
  <1>2. CASE LoadAbs
    <2>1. PICK size \in Sizes :
             /\ Is("LD", "ABS", size)
             /\ IF AbsOK(size)
                THEN /\ touched' = insn.k..(insn.k + Bytes(size) - 1)
                     /\ A' \in Word
                     /\ Continue /\ UNCHANGED <<X, mem>>
                ELSE touched' = {} /\ Return(0)
      BY <1>2 DEF LoadAbs
    <2>2. CASE AbsOK(size)
      BY <1>1, <2>1, <2>2, AbsInPacket, ContinueStep DEF Is
    <2>3. CASE ~AbsOK(size)
      BY <1>1, <2>1, <2>3, ReturnStep
    <2> QED
      BY <2>2, <2>3
  <1>3. CASE LoadInd
    <2>1. PICK size \in Sizes :
             /\ Is("LD", "IND", size)
             /\ IF IndOK(size)
                THEN /\ touched' = IndexK..(IndexK + Bytes(size) - 1)
                     /\ A' \in Word
                     /\ Continue /\ UNCHANGED <<X, mem>>
                ELSE touched' = {} /\ Return(0)
      BY <1>3 DEF LoadInd
    <2>2. CASE IndOK(size)
      BY <1>1, <2>1, <2>2, IndInPacket, ContinueStep DEF Is
    <2>3. CASE ~IndOK(size)
      BY <1>1, <2>1, <2>3, ReturnStep
    <2> QED
      BY <2>2, <2>3
  <1>4. CASE LoadMsh
    <2>1. CASE insn.k < buflen
      <3>1. {insn.k} \subseteq 0..(buflen - 1)
        BY <1>1, <2>1, CheckTypes
      <3>2. X' \in Word
        <4>1. PICK n \in 0..15 : X' = (4 * n) % M
          BY <1>4, <2>1 DEF LoadMsh
        <4>2. M > 0 /\ 4 * n \in Int
          BY <1>1, BpfAssumption DEF Word
        <4> QED
          BY <4>1, <4>2, ModWord
      <3> QED
        BY <1>1, <1>4, <2>1, <3>1, <3>2, ContinueStep DEF LoadMsh, Is
    <2>2. CASE ~(insn.k < buflen)
      BY <1>1, <1>4, <2>2, ReturnStep DEF LoadMsh
    <2> QED
      BY <2>1, <2>2
  <1>5. CASE LoadOther
    <2>1. /\ A' \in Word /\ X' \in Word /\ touched' = {} /\ mem' = mem
          /\ Continue /\ insn.class # "RET"
      BY <1>1, <1>5 DEF LoadOther, Is, Insn
    <2> QED
      BY <1>1, <2>1, ContinueStep
  <1>6. CASE LoadMem
    <2>1. ASSUME insn.op = "MEM", insn.class \in {"LD", "LDX"}
          PROVE  MemValues \subseteq Word
      <3>1. insn.k \in Cells
        BY <1>1, <2>1, Current, BpfAssumption
           DEF ValidInsn, ValidLoad, Cells, Insn, Word
      <3> QED
        BY <1>1, <3>1 DEF MemValues
    <2>2. /\ A' \in Word /\ X' \in Word /\ touched' = {} /\ mem' = mem
          /\ Continue /\ insn.class # "RET"
      BY <1>1, <1>6, <2>1 DEF LoadMem, Is
    <2> QED
      BY <1>1, <2>2, ContinueStep
  <1> QED
    BY <1>2, <1>3, <1>4, <1>5, <1>6

(* The stores, the jumps, the arithmetic and the returns. *)
LEMMA OtherStep ==
    IInv /\ (Store \/ Always \/ CondJump \/ Misc \/ Ret \/ Abort) => IInv'
  <1> SUFFICES ASSUME IInv,
                      Store \/ Always \/ CondJump \/ Misc \/ Ret \/ Abort
               PROVE  IInv'
    OBVIOUS
  <1>1. /\ st = "run" /\ A \in Word /\ X \in Word /\ insn \in Insn
        /\ mem \in [Cells -> Word \cup {Unwritten}]
    <2>1. st = "run"
      BY DEF Store, Always, CondJump, Misc, Ret, Abort
    <2> QED
      BY <2>1, Current DEF IInv, TypeOK
  <1>2. CASE Store
    <2>1. /\ mem' \in [Cells -> Word \cup {Unwritten}]
          /\ A' \in Word /\ X' \in Word /\ touched' = {}
          /\ Continue /\ insn.class # "RET"
      BY <1>1, <1>2 DEF Store, Is, registers
    <2> QED
      BY <1>1, <2>1, ContinueStep
  <1>3. ASSUME insn.class = "JMP"
        PROVE  /\ insn.op = "JA" =>
                     pc + 1 + SignExtend(insn.k) \in 0..(Len(fcode) - 1)
               /\ insn.op \in CondJumps =>
                     /\ pc + 1 + insn.jt \in 0..(Len(fcode) - 1)
                     /\ pc + 1 + insn.jf \in 0..(Len(fcode) - 1)
    <2>1. ValidJump(insn, pc, Len(fcode))
      BY <1>1, <1>3, Current DEF ValidInsn
    <2> QED
      BY <1>1, <2>1, Current, JumpLands
  <1>4. CASE Always
    <2>1. /\ insn.class = "JMP" /\ insn.op = "JA"
          /\ Jump(SignExtend(insn.k))
      BY <1>4 DEF Always, Is
    <2>2. SignExtend(insn.k) \in Int
      BY <1>1, CheckTypes DEF SignExtend
    <2> QED
      BY <1>1, <1>3, <2>1, <2>2, JumpStep
  <1>5. CASE CondJump
    <2>1. insn.class = "JMP" /\ insn.op \in CondJumps
      BY <1>5 DEF CondJump
    <2>2. Jump(insn.jt) \/ Jump(insn.jf)
      BY <1>5 DEF CondJump
    <2>3. insn.jt \in Int /\ insn.jf \in Int
      BY <1>1, BpfAssumption DEF Insn
    <2> QED
      BY <1>1, <1>3, <2>1, <2>2, <2>3, JumpStep
  <1>6. CASE Misc
    <2>1. /\ A' \in Word /\ X' \in Word /\ mem' = mem /\ touched' = {}
          /\ Continue /\ insn.class # "RET"
      BY <1>1, <1>6 DEF Misc, Is
    <2> QED
      BY <1>1, <2>1, ContinueStep
  <1>7. CASE Ret
    <2>1. insn.k \in Word
      BY <1>1 DEF Insn
    <2> QED
      BY <1>1, <1>7, <2>1, ReturnStep DEF Ret
  <1>8. CASE Abort
    <2>1. TypeOK'
      BY <1>8 DEF Abort, IInv, TypeOK, handle, registers, packet
    <2> QED
      BY <1>8, <2>1 DEF Abort, IInv, handle
  <1> QED
    BY <1>2, <1>4, <1>5, <1>6, <1>7, <1>8

(* Arithmetic gives a word: no division is by zero. *)
LEMMA AluStep == IInv /\ Alu => IInv'
  <1> SUFFICES ASSUME IInv, Alu PROVE IInv'
    OBVIOUS
  <1>1. /\ st = "run" /\ A \in Word /\ X \in Word /\ insn \in Insn
        /\ insn.class = "ALU" /\ insn.op \in AluOps
        /\ insn.src \in {"K", "X"} /\ touched' = {}
        /\ ValidAlu(insn)
        /\ mem \in [Cells -> Word \cup {Unwritten}]
    <2>1. st = "run" /\ insn.class = "ALU"
      BY DEF Alu
    <2> QED
      BY <2>1, Current DEF Alu, IInv, TypeOK, ValidInsn
  <1>2. M \in Nat /\ M > 0 /\ 0 \in Word
    BY <1>1, BpfAssumption DEF Word
  <1>3. CASE insn.op \in {"DIV", "MOD"} /\ insn.src = "X" /\ X = 0
    BY <1>2, <1>3, ReturnStep DEF Alu
  <1>4. CASE ~(insn.op \in {"DIV", "MOD"} /\ insn.src = "X" /\ X = 0)
    <2> DEFINE b == Operand
    <2>1. b \in Word /\ A \in Int /\ b \in Int
      BY <1>1, <1>2 DEF Operand, Insn, Word
    <2>2. insn.op \in {"DIV", "MOD"} => b # 0
      BY <1>1, <1>4 DEF Operand, ValidAlu
    <2>3. A' \in AluResult(insn.op, b) /\ Continue /\ UNCHANGED <<X, mem>>
      BY <1>4 DEF Alu
    <2> HIDE DEF b
    <2>4. A' \in Word
      <3>1. CASE insn.op \in {"ADD", "SUB", "MUL", "NEG"}
        <4>1. PICK i \in Int : A' = i % M
          <5>1. /\ A + b \in Int /\ A - b \in Int /\ A * b \in Int
                /\ -A \in Int
            BY <2>1
          <5> QED
            BY <2>3, <3>1, <5>1 DEF AluResult
        <4> QED
          BY <1>2, <4>1, ModWord
      <3>2. CASE insn.op = "DIV"
        <4>1. A' = A \div b
          BY <2>3, <3>2 DEF AluResult
        <4>2. A \in 0..(M - 1) /\ b \in 1..(M - 1)
          BY <1>1, <1>2, <2>1, <2>2, <3>2 DEF Word
        <4>3. A \div b \in 0..A
          BY <1>2, <4>2
        <4> QED
          BY <1>2, <4>1, <4>2, <4>3 DEF Word
      <3>3. CASE insn.op = "MOD"
        <4>1. A' = A % b
          BY <2>3, <3>3 DEF AluResult
        <4>2. b \in 1..(M - 1)
          BY <1>2, <2>1, <2>2, <3>3 DEF Word
        <4>3. A % b \in 0..(b - 1)
          BY <2>1, <4>2
        <4> QED
          BY <1>2, <4>1, <4>2, <4>3 DEF Word
      <3>4. CASE insn.op \in {"OR", "AND", "XOR", "LSH", "RSH"}
        BY <2>3, <3>4 DEF AluResult
      <3> QED
        BY <1>1, <3>1, <3>2, <3>3, <3>4 DEF AluOps
    <2> QED
      BY <1>1, <2>3, <2>4, ContinueStep
  <1> QED
    BY <1>3, <1>4

(* Only valid programs are installed, and a filter starts at its first     *)
(* instruction.                                                            *)
LEMMA CallStep ==
    ASSUME IInv,
           Install \/ \E len \in 0..MaxBuf, wire \in 0..MaxBuf :
                         Filter(len, wire)
    PROVE  IInv'
  <1>1. CASE Install
    <2>1. installs' \in 0..MaxInstalls
      BY <1>1, BpfAssumption DEF Install, IInv, TypeOK
    <2>2. PICK prog \in Programs :
             \/ ~Valid(prog) /\ ret' = -1 /\ UNCHANGED fcode
             \/ Valid(prog) /\ ret' = 0 /\ fcode' = prog
             \/ Valid(prog) /\ MayFail /\ ret' = -1 /\ fcode' = <<>>
      BY <1>1 DEF Install
    <2>3. prog \in Seq(Insn) /\ 2 * Len(prog) < M
      BY BpfAssumption
    <2>4. /\ fcode' \in Seq(Insn)
          /\ fcode' # <<>> => Valid(fcode') /\ 2 * Len(fcode') < M
      <3>1. CASE UNCHANGED fcode
        BY <3>1, Zenon DEF IInv, TypeOK
      <3>2. CASE Valid(prog) /\ fcode' = prog
        BY <2>3, <3>2, Zenon
      <3>3. CASE fcode' = <<>>
        BY <3>3
      <3> QED
        BY <2>2, <3>1, <3>2, <3>3
    <2>5. 0 \in Word
      BY BpfAssumption DEF Word
    <2>6. TypeOK'
      BY <1>1, <2>1, <2>2, <2>4, <2>5
         DEF Install, IInv, TypeOK, registers, packet
    <2> QED
      BY <1>1, <2>4, <2>6 DEF Install, IInv, registers, packet, Valid,
                              EndsWithRet
  <1>2. ASSUME NEW len \in 0..MaxBuf, NEW wire \in 0..MaxBuf,
               Filter(len, wire)
        PROVE  IInv'
    <2>1. /\ pc = 0 /\ UNCHANGED <<fcode, installs, pc, A, X, mem>>
          /\ touched' = {}
      BY <1>2 DEF Filter, IInv, registers
    <2>2. M - 1 \in Word
      BY BpfAssumption DEF Word
    <2>3. TypeOK'
      BY <1>2, <2>1, <2>2 DEF Filter, IInv, TypeOK, packet
    <2>4. fcode # <<>> => Len(fcode) \in Nat /\ Len(fcode) >= 1
      BY DEF IInv, TypeOK, Valid
    <2> QED
      BY <1>2, <2>1, <2>3, <2>4 DEF Filter, IInv
  <1> QED
    BY <1>1, <1>2

-----------------------------------------------------------------------------
(* The invariant holds in every state. *)
LEMMA Invariant == Spec => []IInv
  <1>1. Init => IInv
    <2> SUFFICES ASSUME Init PROVE IInv
      OBVIOUS
    <2>1. 0 \in Word /\ 0 \in 0..MaxBuf /\ 0 \in 0..MaxInstalls
      BY BpfAssumption DEF Word
    <2>2. TypeOK
      BY <2>1 DEF Init, TypeOK
    <2> QED
      BY <2>2 DEF Init, IInv
  <1>2. IInv /\ UNCHANGED vars => IInv'
    BY DEF IInv, TypeOK, vars, handle, registers, packet
  <1>3. IInv /\ [Next]_vars => IInv'
    BY <1>2, LoadStep, OtherStep, AluStep, CallStep DEF Next, Step
  <1> QED
    BY <1>1, <1>3, PTL DEF Spec

(* A filter the validator accepted never leaves its program, uses no cell  *)
(* outside the scratch memory and divides by no constant zero, for every   *)
(* program and every packet.                                               *)
THEOREM ValidatedIsSafe ==
    Spec => []ValidatedSafe
  <1>1. IInv => StaysInProgram
    BY DEF IInv, StaysInProgram
  <1>2. IInv => CellsInRange
    <2> SUFFICES ASSUME IInv, st = "run" PROVE CellsInRange
      BY DEF CellsInRange
    <2> QED
      BY Current, BpfAssumption DEF CellsInRange, ValidInsn, ValidLoad,
         ValidStore, Cells, Insn, Word
  <1>3. IInv => NoConstantZero
    <2> SUFFICES ASSUME IInv, st = "run" PROVE NoConstantZero
      BY DEF NoConstantZero
    <2> QED
      BY Current DEF NoConstantZero, ValidInsn, ValidAlu
  <1>4. IInv => ValidatedSafe
    BY <1>1, <1>2, <1>3 DEF ValidatedSafe
  <1> QED
    BY <1>4, Invariant, PTL

(* Every load of packet data is inside the captured bytes, for every word  *)
(* size: the checks of the indirect loads are not fooled by X + k wrapping *)
(* around.                                                                 *)
THEOREM LoadsChecked == Spec => []LoadsInPacket
  <1>1. IInv => LoadsInPacket
    BY DEF IInv, LoadsInPacket
  <1> QED
    BY <1>1, Invariant, PTL

(* The two together: whatever pcapint_filter() is given, it stays within   *)
(* the captured bytes, and with a validated program within that as well.   *)
THEOREM InterpreterIsSafe == Spec => []InterpreterSafe
  <1>1. ValidatedSafe /\ LoadsInPacket => InterpreterSafe
    BY DEF InterpreterSafe
  <1> QED
    BY <1>1, ValidatedIsSafe, LoadsChecked, PTL

=============================================================================
