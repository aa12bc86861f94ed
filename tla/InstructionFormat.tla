-------------------------- MODULE InstructionFormat --------------------------
(***************************************************************************)
(* InstructionFormat of src/assembler/assembler.py: the static table of    *)
(* operand counts and allowed addressing modes per mnemonic, and validate. *)
(* A position's constraint is the set of modes allowed there; the code     *)
(* tells a single mode from a list only to word its message.               *)
(***************************************************************************)
EXTENDS Integers, Sequences, Encoding

MemoryModes == {MEM, REGM, IDX, STK, BAS}
JumpModes   == {IMM, REG, REGM, IDX}

\* Format(n, allowed): n operands (-1: "0 or 1"), allowed[i] = modes of
\* operand i.
Fmt(n, allowed) == [n |-> n, allowed |-> allowed]

Formats == [m \in Mnemonics |->
  CASE m \in {"NOP", "PUSHF", "POPF", "PUSHA", "POPA", "LEAVE", "HALT",
              "CLI", "STI", "IRET", "CPUID", "RESET", "DEBUG"}
         -> Fmt(0, <<>>)
    [] m \in {"INC", "DEC", "NEG", "NOT", "POP", "FREE"}
         -> Fmt(1, <<{REG}>>)
    [] m = "RET"  -> Fmt(-1, <<{IMM}>>)
    [] m = "PUSH" -> Fmt(1, <<{REG, IMM}>>)
    [] m \in {"JMP", "JZ", "JNZ", "JN", "JP", "JO", "JC", "JBE", "JA", "CALL"}
         -> Fmt(1, <<JumpModes>>)
    [] m \in {"ENTER", "INT", "SYSCALL"} -> Fmt(1, <<{IMM}>>)
    [] m \in {"IN", "LOOP"} -> Fmt(2, <<{REG}, {IMM}>>)
    [] m = "OUT"  -> Fmt(2, <<{IMM}, {REG, IMM}>>)
    [] m = "MOVE" -> Fmt(2, <<{REG}, {REG}>>)
    [] m \in {"LOAD", "LOADB", "LOADW"} -> Fmt(2, <<{REG}, MemoryModes \cup {IMM}>>)
    [] m \in {"LEA", "STORE", "STOREB", "STOREW"} -> Fmt(2, <<{REG}, MemoryModes>>)
    [] m \in {"ADD", "SUB", "MUL", "DIV", "MOD", "AND", "OR", "XOR", "TEST",
              "CMP", "ADDC", "SUBC"}
         -> Fmt(2, <<{REG}, AddressingModes>>)
    [] m \in {"SHL", "SHR", "SAR", "ROL", "ROR", "ALLOC", "PROTECT"}
         -> Fmt(2, <<{REG}, {REG, IMM}>>)
    [] m \in {"MEMCPY", "MEMSET"} -> Fmt(3, <<{REG}, {REG}, {IMM}>>)]

(***************************************************************************)
(* validate(opcode, operands, addr_modes): modes is the sequence of the    *)
(* parsed operands' modes. An optional-operand format checks the count     *)
(* only; a three-operand format passes whatever its modes, since neither   *)
(* the one- nor the two-operand branch applies to it.                      *)
(***************************************************************************)
Validate(m, modes) ==
  LET f == Formats[m] IN
  IF f.n = -1 THEN Len(modes) <= 1
  ELSE /\ Len(modes) = f.n
       /\ f.n \in {1, 2} => \A i \in 1 .. f.n : modes[i] \in f.allowed[i]
=============================================================================
