------------------------------ MODULE Encoding ------------------------------
(***************************************************************************)
(* The 32-bit instruction word of src/assembler/assembler.py:              *)
(*   [opcode:8][mode:4][reg1:4][reg2:4][immediate:12]                      *)
(* the addressing modes (AddressingMode), the opcode table (Opcode), the   *)
(* packing done by Assembler.encode_instruction and the field extraction   *)
(* done by Assembler.disassemble and Assembler.resolve_references.         *)
(*                                                                         *)
(* Python's & with a mask 2^k-1 and >> are written % 2^k and \div 2^k: for *)
(* negative operands both are floor operations in Python and in TLA+, so   *)
(* the bit patterns agree for every integer, negative ones included.       *)
(***************************************************************************)
EXTENDS Integers, TLC

\* AddressingMode
IMM  == 0
REG  == 1
MEM  == 2
REGM == 3
IDX  == 4
STK  == 5
BAS  == 6
AddressingModes == IMM .. BAS

\* The modes whose reg2 and immediate fields hold one 16-bit immediate.
SplitModes == {IMM, MEM, STK, BAS}

\* Register: the indices that parse_operand treats specially.
R1_BP == 1
R2_SP == 2

\* Opcode: the (mnemonic, opcode byte) pairs of the enum, and the map.
OpcodePairs ==
  { <<"NOP", 0>>, <<"LOAD", 1>>, <<"STORE", 2>>, <<"MOVE", 3>>,
    <<"LOADB", 4>>, <<"STOREB", 5>>, <<"LOADW", 6>>, <<"STOREW", 7>>,
    <<"LEA", 8>>, <<"ADD", 32>>, <<"SUB", 33>>, <<"MUL", 34>>,
    <<"DIV", 35>>, <<"MOD", 36>>, <<"INC", 37>>, <<"DEC", 38>>,
    <<"NEG", 39>>, <<"CMP", 40>>, <<"ADDC", 42>>, <<"SUBC", 43>>,
    <<"AND", 64>>, <<"OR", 65>>, <<"XOR", 66>>, <<"NOT", 67>>,
    <<"SHL", 68>>, <<"SHR", 69>>, <<"SAR", 70>>, <<"ROL", 71>>,
    <<"ROR", 72>>, <<"TEST", 73>>, <<"JMP", 96>>, <<"JZ", 97>>,
    <<"JNZ", 98>>, <<"JN", 99>>, <<"JP", 100>>, <<"JO", 101>>,
    <<"JC", 102>>, <<"JBE", 103>>, <<"JA", 104>>, <<"CALL", 106>>,
    <<"RET", 107>>, <<"SYSCALL", 108>>, <<"LOOP", 111>>, <<"PUSH", 128>>,
    <<"POP", 129>>, <<"PUSHF", 130>>, <<"POPF", 131>>, <<"PUSHA", 132>>,
    <<"POPA", 133>>, <<"ENTER", 134>>, <<"LEAVE", 135>>, <<"HALT", 160>>,
    <<"INT", 161>>, <<"CLI", 162>>, <<"STI", 163>>, <<"IRET", 164>>,
    <<"IN", 165>>, <<"OUT", 166>>, <<"CPUID", 167>>, <<"RESET", 168>>,
    <<"DEBUG", 169>>, <<"ALLOC", 192>>, <<"FREE", 193>>, <<"MEMCPY", 194>>,
    <<"MEMSET", 195>>, <<"PROTECT", 196>> }

Opcode == [m \in {p[1] : p \in OpcodePairs} |-> (CHOOSE p \in OpcodePairs : p[1] = m)[2]]

Mnemonics == DOMAIN Opcode

EncodeInstructionUnmaskedHigh(opcode, mode, reg1, reg2, immediate) ==
  LET md == mode % 2^4
      r2 == IF md \in SplitModes THEN immediate \div 2^12 ELSE reg2 % 2^4
  IN  << opcode % 2^8,
          md * 2^20 + (reg1 % 2^4) * 2^16 + r2 * 2^12 + (immediate % 2^12) >>

\* encode_instruction: mask every field; in a split mode the 16-bit
\* immediate is spread over reg2 (high nibble) and immediate (low 12 bits).
\* A 32-bit word is kept as <<opcode byte, low 24 bits>>: TLC's integers
\* stop at 2^31, and opcodes from 0x80 up would not fit.
EncodeInstruction(opcode, mode, reg1, reg2, immediate) ==
  LET md == mode % 2^4
      r2 == IF md \in SplitModes THEN (immediate \div 2^12) % 2^4
                                 ELSE reg2 % 2^4
  IN  << opcode % 2^8,
          md * 2^20 + (reg1 % 2^4) * 2^16 + r2 * 2^12 + (immediate % 2^12) >>

\* The fields as disassemble and resolve_references unpack them.
OpcodeField(w) == w[1]
ModeField(w)   == (w[2] \div 2^20) % 2^4
Reg1Field(w)   == (w[2] \div 2^16) % 2^4
Reg2Field(w)   == (w[2] \div 2^12) % 2^4
ImmField(w)    == w[2] % 2^12

\* disassemble: in a split mode the immediate is recombined to 16 bits.
DecodedImmediate(w) ==
  IF ModeField(w) \in SplitModes THEN Reg2Field(w) * 2^12 + ImmField(w)
                                 ELSE ImmField(w)

\* disassemble's opcode-name lookup; "???" for a byte no mnemonic has.
OpcodeName(op) ==
  IF \E m \in Mnemonics : Opcode[m] = op
  THEN CHOOSE m \in Mnemonics : Opcode[m] = op
  ELSE "???"
=============================================================================
