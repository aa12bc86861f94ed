----------------------------- MODULE Disassembler -----------------------------
(***************************************************************************)
(* Assembler.disassemble of src/assembler/assembler.py for one word. Its   *)
(* text is given in the operand syntax of module Operands, so that it can  *)
(* be fed back to the assembler: "R5" is a reg operand, "#12" a hash       *)
(* operand whose literal is the decimal digits f"{imm}" prints, "[SP+8]"   *)
(* an rplus operand on register 2. An operand printed as "???" is the bare *)
(* operand with no digits, as parse_operand would read it.                 *)
(***************************************************************************)
EXTENDS Integers, Sequences, Encoding, Operands

\* f"{n}" for n >= 0: decimal digits, no leading zeros.
RECURSIVE DecimalDigits(_)
DecimalDigits(n) ==
  IF n < 10 THEN <<n>> ELSE DecimalDigits(n \div 10) \o <<n % 10>>

Dec(n)        == NumE("", FALSE, DecimalDigits(n))
HashT(n)      == Op("hash", NoReg, NoSym, Dec(n))
RegT(r)       == Op("reg", r, NoSym, NoExpr)
IndT(r)       == Op("ind", r, NoSym, NoExpr)
PlusT(r, n)   == Op("rplus", r, NoSym, Dec(n))
MemT(n)       == Op("mem", NoReg, NoSym, Dec(n))
\* "???" read back by the assembler: a bare operand that is no number.
Unknown       == Op("bare", NoReg, NoSym, NumE("", FALSE, <<>>))
Text(name, ops) == [name |-> name, ops |-> ops]

\* The operand a two-operand memory form prints for the source.
MemorySource(mode, r2, imm) ==
  CASE mode = MEM  -> MemT(imm)
    [] mode = REGM -> IndT(r2)
    [] mode = IDX  -> PlusT(r2, imm)
    [] mode = STK  -> PlusT(R2_SP, imm)
    [] mode = BAS  -> PlusT(R1_BP, imm)
    [] OTHER       -> Unknown

Disassemble(w) ==
  LET name == OpcodeName(OpcodeField(w))
      mode == ModeField(w)
      r1   == Reg1Field(w)
      r2   == Reg2Field(w)
      imm  == DecodedImmediate(w)
      src  == CASE mode = IMM -> HashT(imm)
                [] mode = REG -> RegT(r2)
                [] OTHER      -> MemorySource(mode, r2, imm)
      two(s) == <<RegT(r1), s>>
  IN Text(name,
       CASE name \in {"NOP", "PUSHF", "POPF", "PUSHA", "POPA", "LEAVE", "HALT",
                      "CLI", "STI", "IRET", "CPUID", "RESET", "DEBUG"} -> <<>>
         [] name \in {"INC", "DEC", "NEG", "NOT", "POP"} -> <<RegT(r1)>>
         [] name = "RET"  -> IF imm = 0 THEN <<>> ELSE <<HashT(imm)>>
         [] name = "PUSH" -> IF mode = IMM THEN <<HashT(imm)>> ELSE <<RegT(r1)>>
         [] name \in {"JMP", "JZ", "JNZ", "JN", "JP", "JO", "JC", "JBE", "JA", "CALL"} ->
              CASE mode = IMM  -> <<HashT(imm)>>
                [] mode = REG  -> <<RegT(r1)>>
                [] mode = REGM -> <<IndT(r1)>>
                [] mode = IDX  -> <<PlusT(r1, imm)>>
                [] OTHER       -> <<Unknown>>
         [] name \in {"ENTER", "INT", "SYSCALL"} -> <<HashT(imm)>>
         [] name = "MOVE" -> <<RegT(r1), RegT(r2)>>
         [] name \in {"LOAD", "LOADB", "LOADW", "LEA", "ADD", "SUB", "MUL", "DIV",
                      "MOD", "AND", "OR", "XOR", "SHL", "SHR", "SAR", "ROL", "ROR",
                      "TEST", "CMP", "ADDC", "SUBC"} -> two(src)
         [] name \in {"STORE", "STOREB", "STOREW"} ->
              two(MemorySource(mode, r2, imm))
         [] OTHER -> <<Unknown>>)
=============================================================================
