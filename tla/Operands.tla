------------------------------- MODULE Operands -------------------------------
(***************************************************************************)
(* Operand handling of src/assembler/assembler.py: parse_immediate,        *)
(* parse_register, parse_operand, and the pure part of                     *)
(* process_instruction (operand parsing, symbol hints, validate, encoding).*)
(*                                                                         *)
(* Operand text is abstracted to its syntactic form; the text inside it    *)
(* keeps what the parser looks at:                                         *)
(*   an expression is a symbol (identifier-shaped text) or a numeric       *)
(*   literal given by its sign, prefix ("", "0x", "0b") and digit          *)
(*   sequence (digit values 0..15, i.e. the characters 0-9a-f);            *)
(*   a register token is the index its name denotes (R5 -> 5, SP -> 2),    *)
(*   and 16 stands for a register-shaped name out of range ("R16").        *)
(* Forms: "#e" hash, "e" bare, "Rn" reg, "" empty (between two commas),    *)
(* "[Rn]" ind, "[Rn+e]" rplus, "[Rn-e]" rminus, "[s+e]" splus,             *)
(* "[s-e]" sminus, "[e]" mem.                                              *)
(***************************************************************************)
EXTENDS Integers, Sequences, Encoding, InstructionFormat
LOCAL INSTANCE SequencesExt

SymE(s) == [type |-> "sym", name |-> s]
NumE(prefix, neg, digits) ==
  [type |-> "num", prefix |-> prefix, neg |-> neg, digits |-> digits]

Op(form, reg, sym, expr) == [form |-> form, reg |-> reg, sym |-> sym, expr |-> expr]
NoReg  == 0
NoSym  == "none"
NoExpr == NumE("", FALSE, <<0>>)

\* A result: a value plus the diagnostics (kinds only) the call reported.
Val(v, errs) == [val |-> v, errs |-> errs]

(***************************************************************************)
(* The int() conversion parse_immediate applies to a literal: "0x" -> base *)
(* 16, "0b" -> base 2, a leading 0 followed by more digits -> base 8,      *)
(* otherwise base 10. A sign is accepted only by the base-10 int(token);   *)
(* a digit outside the base, or no digit, is a ValueError.                 *)
(***************************************************************************)
Radix(e) ==
  CASE e.neg                                    -> IF e.prefix = "" THEN 10 ELSE 0
    [] e.prefix = "0x"                          -> 16
    [] e.prefix = "0b"                          -> 2
    [] Len(e.digits) > 1 /\ e.digits[1] = 0     -> 8
    [] OTHER                                    -> 10

ParseNumber(e) ==
  LET b == Radix(e)
      mag == FoldLeft(LAMBDA acc, d : acc * b + d, 0, e.digits)
  IN  IF b # 0 /\ e.digits # <<>> /\ \A i \in DOMAIN e.digits : e.digits[i] < b
      THEN Val(IF e.neg THEN -mag ELSE mag, <<>>)
      ELSE Val(0, <<"InvalidNumericValue">>)

\* parse_immediate(token, allow_unresolved): an undefined symbol reads as 0,
\* silently when allowed, with an error otherwise.
ParseImmediate(e, allow, labels) ==
  IF e.type = "sym"
  THEN IF e.name \in DOMAIN labels THEN Val(labels[e.name], <<>>)
       ELSE IF allow THEN Val(0, <<>>) ELSE Val(0, <<"UndefinedSymbol">>)
  ELSE ParseNumber(e)

\* parse_register
ParseRegister(r) ==
  IF r <= 15 THEN Val(r, <<>>) ELSE Val(0, <<"InvalidRegister">>)

\* [sym+k]/[sym-k] accept k only if offset.isdigit() or it is 0x + hex.
SimpleOffset(e) ==
  /\ e.type = "num" /\ ~e.neg
  /\ \/ e.prefix = "" /\ e.digits # <<>> /\ \A i \in DOMAIN e.digits : e.digits[i] < 10
     \/ e.prefix = "0x"

Parsed(mode, reg1, reg2, imm, errs, fix) ==
  [mode |-> mode, reg1 |-> reg1, reg2 |-> reg2, imm |-> imm, errs |-> errs, fix |-> fix]

\* [SP...] and [BP...] become STK and BAS with reg1 = 0.
RegisterMemory(reg, imm, errs) ==
  CASE reg = R2_SP -> Parsed(STK, 0, 0, imm, errs, <<>>)
    [] reg = R1_BP -> Parsed(BAS, 0, 0, imm, errs, <<>>)
    [] OTHER       -> Parsed(IDX, reg, 0, imm, errs, <<>>)

(***************************************************************************)
(* parse_operand(operand_str). n = len(self.instructions): the index a     *)
(* [sym+k] with sym undefined records in unresolved_references, at once.   *)
(***************************************************************************)
\* [sym+k] / [sym-k] (sign 1 / -1): a simple offset is added to the symbol's
\* value, or to the placeholder 0 with a reference recorded at once.
SymbolMemory(op, sign, labels, n) ==
  IF SimpleOffset(op.expr)
  THEN LET off == ParseImmediate(op.expr, FALSE, labels)
           known == op.sym \in DOMAIN labels
       IN  Parsed(MEM, 0, 0, (IF known THEN labels[op.sym] ELSE 0) + sign * off.val,
                  off.errs,
                  IF known THEN <<>>
                  ELSE <<[index |-> n, symbol |-> op.sym, kind |-> "imm"]>>)
  ELSE Parsed(MEM, 0, 0, 0, <<"ComplexExpression">>, <<>>)

\* The branches of parse_operand, given its register (pr) and immediate (pi)
\* readings of the operand.
OperandOf(op, pr, pi, labels, n) ==
  CASE op.form = "hash"  -> Parsed(IMM, 0, 0, pi.val, pi.errs, <<>>)
    [] op.form = "ind"   ->
         CASE pr.val = R2_SP -> Parsed(STK, 0, 0, 0, pr.errs, <<>>)
           [] pr.val = R1_BP -> Parsed(BAS, 0, 0, 0, pr.errs, <<>>)
           [] OTHER          -> Parsed(REGM, pr.val, 0, 0, pr.errs, <<>>)
    [] op.form = "rplus"  -> RegisterMemory(pr.val, pi.val, pr.errs \o pi.errs)
    [] op.form = "rminus" -> RegisterMemory(pr.val, (-pi.val) % 2^12, pr.errs \o pi.errs)
    [] op.form = "splus"  -> SymbolMemory(op, 1, labels, n)
    [] op.form = "sminus" -> SymbolMemory(op, -1, labels, n)
    [] op.form = "mem"    -> Parsed(MEM, 0, 0, pi.val, pi.errs, <<>>)
    [] op.form = "reg"    -> Parsed(REG, pr.val, 0, 0, pr.errs, <<>>)
    [] op.form = "bare"   -> Parsed(IMM, 0, 0, pi.val, pi.errs, <<>>)

ParseOperand(op, labels, n) ==
  OperandOf(op, ParseRegister(op.reg), ParseImmediate(op.expr, TRUE, labels), labels, n)

(***************************************************************************)
(* process_instruction's symbol hint (for_source): an IMM operand whose    *)
(* text, less '#', is an undefined identifier, or a MEM operand "[s]"      *)
(* with s an undefined identifier.                                         *)
(***************************************************************************)
HintNoMem(op, labels) ==
  IF /\ op.form \in {"hash", "bare"}
     /\ op.expr.type = "sym"
     /\ op.expr.name \notin DOMAIN labels
  THEN op.expr.name ELSE NoSym

Hint(op, labels) ==
  IF /\ op.form \in {"hash", "bare", "mem"}
     /\ op.expr.type = "sym"
     /\ op.expr.name \notin DOMAIN labels
  THEN op.expr.name ELSE NoSym

NoWord == <<-1, -1>>
Outcome(errs, word, fix) == [errs |-> errs, word |-> word, fix |-> fix]

(***************************************************************************)
(* process_instruction(opcode_str, operands_str) without its effect on the *)
(* assembler state: the diagnostics it reports, the word it appends (or    *)
(* NoWord) and the unresolved references it records, all at index n.       *)
(* raw is the comma-split operand list; empty entries are skipped, but     *)
(* for_source stays keyed by the raw position, and the encoder looks for   *)
(* the hint of raw position 0 (one operand) or 1 (two operands).           *)
(***************************************************************************)
\* The raw positions of the non-empty operands, and their parse.
Present(raw) == SelectSeq([i \in 1 .. Len(raw) |-> i], LAMBDA i : raw[i].form # "empty")

ParseOperands(raw, labels, n) ==
  [k \in DOMAIN Present(raw) |-> ParseOperand(raw[Present(raw)[k]], labels, n)]

\* The rest of process_instruction, given the parsed operands.
EncodeParsed(m, raw, parsed, labels, n) ==
  LET modes  == [k \in DOMAIN parsed |-> parsed[k].mode]
      perrs  == FlattenSeq([k \in DOMAIN parsed |-> parsed[k].errs])
      pfix   == FlattenSeq([k \in DOMAIN parsed |-> parsed[k].fix])
      hintAt(i) == IF i <= Len(raw) /\ raw[i].form # "empty"
                   THEN Hint(raw[i], labels) ELSE NoSym
      ref(i) == IF hintAt(i) = NoSym THEN <<>>
                ELSE <<[index |-> n, symbol |-> hintAt(i), kind |-> "imm"]>>
      op == Opcode[m]
  IN IF ~Validate(m, modes) THEN Outcome(perrs \o <<"InvalidFormat">>, NoWord, pfix)
     ELSE CASE Len(parsed) = 0 ->
                 Outcome(perrs, EncodeInstruction(op, IMM, 0, 0, 0), pfix)
            [] Len(parsed) = 1 ->
                 Outcome(perrs, EncodeInstruction(op, parsed[1].mode, parsed[1].reg1,
                                                  parsed[1].reg2, parsed[1].imm),
                         pfix \o ref(1))
            [] Len(parsed) = 2 /\ m = "MOVE" ->
                 Outcome(perrs, EncodeInstruction(op, REG, parsed[1].reg1, parsed[2].reg1, 0),
                         pfix)
            [] Len(parsed) = 2 /\ parsed[1].mode = REG ->
                 Outcome(perrs, EncodeInstruction(op, parsed[2].mode, parsed[1].reg1,
                                                  parsed[2].reg1, parsed[2].imm),
                         pfix \o ref(2))
            [] Len(parsed) = 2 -> Outcome(perrs \o <<"UnsupportedMode">>, NoWord, pfix)
            [] Len(parsed) = 3 -> Outcome(perrs \o <<"ThreeOperand">>, NoWord, pfix)
            [] OTHER           -> Outcome(perrs \o <<"TooManyOperands">>, NoWord, pfix)

AssembleInstruction(m, raw, labels, n) ==
  IF m \notin Mnemonics THEN Outcome(<<"UnknownOpcode">>, NoWord, <<>>)
  ELSE EncodeParsed(m, raw, ParseOperands(raw, labels, n), labels, n)
====
