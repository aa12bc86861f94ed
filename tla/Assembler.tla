------------------------------ MODULE Assembler ------------------------------
(***************************************************************************)
(* The Assembler class of src/assembler/assembler.py as a state machine:   *)
(* one step per source line handed to process_line (a label, a directive   *)
(* or an instruction), then one step for the end of assemble():            *)
(* resolve_references and the emission of the image.                      *)
(*                                                                         *)
(* The program is not fixed: every step picks its line from the set       *)
(* Lines, so a run covers every program of at most MaxLines lines drawn    *)
(* from it. A line "name: rest" is taken as the line "name:" followed by   *)
(* the line "rest", the same two handler calls process_line makes.         *)
(* .include is modelled in module IncludeDriver.                           *)
(***************************************************************************)
EXTENDS Integers, Sequences, Encoding, InstructionFormat, Operands, Disassembler
LOCAL INSTANCE SequencesExt

CONSTANTS
  Symbols,   \* identifiers the program may use (model values)
  Lines,     \* the lines a program is made of
  MaxLines   \* bound on the number of lines of a program

ASSUME MaxLines \in Nat

CODE_SEGMENT_BASE == 0
DATA_SEGMENT_BASE == 16384   \* 0x4000

VARIABLES
  labels,                 \* symbol table: defined symbol -> value
  instructions,           \* code words
  data,                   \* data bytes
  current_section,        \* "text" or "data"
  address,                \* code cursor (bytes)
  data_address,           \* data cursor (absolute)
  unresolved_references,  \* <<[index, symbol, kind]>>, index 0-based
  errors,                 \* diagnostics, by kind
  phase,                  \* "lines", "done" or "crashed" (exception escaped)
  image,                  \* the emitted binary, or None
  nlines,                 \* lines processed so far (bound only)
  origin,                 \* ghost: per code word, where it came from
  deferred                \* ghost: symbol reads that returned a placeholder

vars == <<labels, instructions, data, current_section, address, data_address,
          unresolved_references, errors, phase, image, nlines, origin, deferred>>

None == [none |-> TRUE]

(***************************************************************************)
(* Lines.                                                                  *)
(***************************************************************************)
LabelLine(s)          == [kind |-> "label", name |-> s]
DirLine(d, args)      == [kind |-> "dir", name |-> d, args |-> args]
InstrLine(m, raw)     == [kind |-> "instr", op |-> m, raw |-> raw]
NoArgs == <<>>
Str(quoted, chars) == [quoted |-> quoted, chars |-> chars]

Zeros(n) == [i \in 1 .. n |-> 0]

LEBytesUnmasked(v, k) == [i \in 1 .. k |-> v \div 2^(8 * (i - 1))]

\* Little-endian bytes of v, k of them (value >> 8*i & 0xFF).
LEBytes(v, k) == [i \in 1 .. k |-> (v \div 2^(8 * (i - 1))) % 2^8]

\* The escape handling of .ascii/.asciiz over character codes:
\* \n \t \r \0 become 10 9 13 0; any other \c is c; a trailing \ is kept.
Escaped(c) ==
  CASE c = 110 -> 10 [] c = 116 -> 9 [] c = 114 -> 13 [] c = 48 -> 0
    [] OTHER   -> c

RECURSIVE EscapeBytes(_)
EscapeBytes(s) ==
  IF s = <<>> THEN <<>>
  ELSE IF Head(s) = 92 /\ Len(s) > 1
       THEN <<Escaped(s[2])>> \o EscapeBytes(Tail(Tail(s)))
       ELSE <<Head(s)>> \o EscapeBytes(Tail(s))

CharsRead(s) == Len(s)

\* The actual_bytes counter of the same loop: one per byte appended, an
\* escape pair counting once.
RECURSIVE ActualBytes(_)
ActualBytes(s) ==
  IF s = <<>> THEN 0
  ELSE IF Head(s) = 92 /\ Len(s) > 1
       THEN 1 + ActualBytes(Tail(Tail(s)))
       ELSE 1 + ActualBytes(Tail(s))

IsPowerOfTwo(a) == a > 0 /\ \E k \in 0 .. 16 : 2^k = a

RoundUp(x, a) == ((x + a - 1) \div a) * a

(***************************************************************************)
(* Ghost bookkeeping, from spec.md rather than from the code.              *)
(* SpecRef: the forward reference spec.md 4.2 says the encoded operand of  *)
(* an instruction carries: an IMM operand or "[s]" naming an undefined     *)
(* symbol s, or "[s+k]"/"[s-k]" with s undefined; its final immediate must *)
(* be value(s) + off.                                                      *)
(***************************************************************************)
NoRef == [sym |-> NoSym, off |-> 0]

EncodedOperand(raw) ==
  LET ops == SelectSeq(raw, LAMBDA o : o.form # "empty") IN
  IF Len(ops) = 1 THEN ops[1] ELSE IF Len(ops) = 2 THEN ops[2] ELSE Op("empty", NoReg, NoSym, NoExpr)

SpecRef(raw, lbls) ==
  LET o == EncodedOperand(raw) IN
  CASE o.form \in {"hash", "bare", "mem"} /\ o.expr.type = "sym"
         /\ o.expr.name \notin DOMAIN lbls -> [sym |-> o.expr.name, off |-> 0]
    [] o.form \in {"splus", "sminus"} /\ o.sym \notin DOMAIN lbls /\ SimpleOffset(o.expr)
         -> [sym |-> o.sym,
             off |-> (IF o.form = "splus" THEN 1 ELSE -1) * ParseNumber(o.expr).val]
    [] OTHER -> NoRef

\* Symbols an operand reads through parse_immediate(allow_unresolved=True)
\* or as a [s+k] base while they are undefined.
UndefinedReads(o, lbls) ==
  { x \in Symbols :
      \/ o.form \in {"hash", "bare", "mem", "rplus", "rminus"}
         /\ o.expr.type = "sym" /\ o.expr.name = x
      \/ o.form \in {"splus", "sminus"} /\ o.sym = x /\ SimpleOffset(o.expr) }
  \ DOMAIN lbls

\* Symbols a directive's value list reads while they are undefined.
UndefinedValues(exprs, lbls) ==
  { x \in Symbols : \E i \in DOMAIN exprs : exprs[i] = SymE(x) } \ DOMAIN lbls

DataSite == -1

(***************************************************************************)
(* Init: the state assemble() resets to.                                   *)
(***************************************************************************)
Init ==
  /\ labels = [s \in {} |-> 0]
  /\ instructions = <<>>
  /\ data = <<>>
  /\ current_section = "text"
  /\ address = CODE_SEGMENT_BASE
  /\ data_address = DATA_SEGMENT_BASE
  /\ unresolved_references = <<>>
  /\ errors = <<>>
  /\ phase = "lines"
  /\ image = None
  /\ nlines = 0
  /\ origin = <<>>
  /\ deferred = {}

\* Common frame of a line step.
LineStep(line) ==
  /\ phase = "lines"
  /\ nlines < MaxLines
  /\ line \in Lines
  /\ nlines' = nlines + 1
  /\ UNCHANGED <<phase, image>>

Error(kind) == errors' = Append(errors, kind)

\* The effect of appending code words w (NOPs or one instruction).
EmitCode(ws, orig) ==
  /\ instructions' = instructions \o ws
  /\ origin' = origin \o orig

\* n NOP words (the encoding of NOP is the all-zero word) and their origin.
Nops(n) == [i \in 1 .. n |-> <<0, 0>>]

NopPadding(n) == [i \in 1 .. n |-> [first |-> <<0, 0>>, ref |-> NoRef, line |-> [kind |-> "pad"]]]

(***************************************************************************)
(* process_line, label branch: a .text label takes the code cursor; a      *)
(* .data label first pads data to a 4-byte boundary.                       *)
(***************************************************************************)
DefineLabel(line) ==
  /\ LineStep(line)
  /\ line.kind = "label"
  /\ IF current_section = "text"
     THEN /\ labels' = (line.name :> address) @@ labels
          /\ UNCHANGED <<data, data_address>>
     ELSE LET pad == (4 - (data_address % 4)) % 4 IN
          /\ data' = data \o Zeros(pad)
          /\ data_address' = data_address + pad
          /\ labels' = (line.name :> data_address + pad) @@ labels
  /\ UNCHANGED <<instructions, current_section, address, unresolved_references,
                 errors, origin, deferred>>

(***************************************************************************)
(* process_directive .text / .data.                                        *)
(***************************************************************************)
SwitchSection(line) ==
  /\ LineStep(line)
  /\ line.kind = "dir" /\ line.name \in {".text", ".data"}
  /\ IF line.name = ".text"
     THEN /\ current_section' = "text"
          /\ address' = RoundUp(address, 4)
     ELSE /\ current_section' = "data"
          /\ UNCHANGED address
  /\ UNCHANGED <<labels, instructions, data, data_address, unresolved_references,
                 errors, origin, deferred>>

(***************************************************************************)
(* process_directive .byte / .word / .dword: arguments are required, the   *)
(* section must be .data; .word aligns data to 2 and .dword to 4, then     *)
(* every value is stored little-endian in 1, 2 or 4 bytes. A value naming  *)
(* an undefined symbol reads as 0 (allow_unresolved=True).                 *)
(***************************************************************************)
Width == [b \in {".byte", ".word", ".dword"} |->
           IF b = ".byte" THEN 1 ELSE IF b = ".word" THEN 2 ELSE 4]

EmitData(line) ==
  /\ LineStep(line)
  /\ line.kind = "dir" /\ line.name \in DOMAIN Width
  /\ LET k     == Width[line.name]
         pad   == (k - (data_address % k)) % k
         vals  == [i \in DOMAIN line.args |-> ParseImmediate(line.args[i], TRUE, labels)]
         bytes == FlattenSeq([i \in DOMAIN vals |-> LEBytes(vals[i].val, k)])
     IN CASE line.args = NoArgs ->
               Error("MissingArgument") /\ UNCHANGED <<data, data_address, deferred>>
          [] current_section # "data" ->
               Error("DataOutsideData") /\ UNCHANGED <<data, data_address, deferred>>
          [] OTHER ->
               /\ data' = data \o Zeros(pad) \o bytes
               /\ data_address' = data_address + pad + Len(bytes)
               /\ errors' = errors \o FlattenSeq([i \in DOMAIN vals |-> vals[i].errs])
               /\ deferred' = deferred \cup
                    { [index |-> DataSite, symbol |-> x] :
                        x \in UndefinedValues(line.args, labels) }
  /\ UNCHANGED <<labels, instructions, current_section, address,
                 unresolved_references, origin>>

(***************************************************************************)
(* process_directive .ascii / .asciiz: a string argument in .data; the     *)
(* escaped bytes, plus a 0 for .asciiz; the cursor advances by the bytes   *)
(* stored (actual_bytes), not by the characters read.                      *)
(***************************************************************************)
EmitString(line) ==
  /\ LineStep(line)
  /\ line.kind = "dir" /\ line.name \in {".ascii", ".asciiz"}
  /\ CASE line.args = NoArgs ->
            Error("MissingArgument") /\ UNCHANGED <<data, data_address>>
       [] current_section # "data" ->
            Error("DataOutsideData") /\ UNCHANGED <<data, data_address>>
       [] ~line.args[1].quoted ->
            Error("InvalidString") /\ UNCHANGED <<data, data_address>>
       [] OTHER ->
            LET bytes == EscapeBytes(line.args[1].chars)
                          \o (IF line.name = ".asciiz" THEN <<0>> ELSE <<>>)
                nul   == IF line.name = ".asciiz" THEN 1 ELSE 0
            IN  /\ data' = data \o bytes
                /\ data_address' = data_address + ActualBytes(line.args[1].chars) + nul
                /\ UNCHANGED errors
  /\ UNCHANGED <<labels, instructions, current_section, address,
                 unresolved_references, origin, deferred>>

(***************************************************************************)
(* process_directive .space / .skip: a size that must parse now and be     *)
(* positive; in .text rounded up to 4 and filled with NOP words, in .data  *)
(* filled with zero bytes.                                                 *)
(***************************************************************************)
Reserve(line) ==
  /\ LineStep(line)
  /\ line.kind = "dir" /\ line.name \in {".space", ".skip"}
  /\ IF line.args = NoArgs
     THEN Error("MissingArgument") /\ UNCHANGED <<instructions, origin, address, data, data_address>>
     ELSE LET size == ParseImmediate(line.args[1], FALSE, labels)
              words == RoundUp(size.val, 4) \div 4
          IN CASE size.val <= 0 ->
                    /\ errors' = errors \o size.errs \o <<"NonPositiveSize">>
                    /\ UNCHANGED <<instructions, origin, address, data, data_address>>
               [] current_section = "text" ->
                    /\ EmitCode(Nops(words), NopPadding(words))
                    /\ address' = address + 4 * words
                    /\ errors' = errors \o size.errs
                    /\ UNCHANGED <<data, data_address>>
               [] OTHER ->
                    /\ data' = data \o Zeros(size.val)
                    /\ data_address' = data_address + size.val
                    /\ errors' = errors \o size.errs
                    /\ UNCHANGED <<instructions, origin, address>>
  /\ UNCHANGED <<labels, current_section, unresolved_references, deferred>>

(***************************************************************************)
(* process_directive .align: a positive power of two; pad the cursor of    *)
(* the current section up to a multiple of it, with one NOP per started    *)
(* 4 bytes of padding in .text and zero bytes in .data.                    *)
(***************************************************************************)
Align(line) ==
  /\ LineStep(line)
  /\ line.kind = "dir" /\ line.name = ".align"
  /\ IF line.args = NoArgs
     THEN Error("MissingArgument") /\ UNCHANGED <<instructions, origin, address, data, data_address>>
     ELSE LET a == ParseImmediate(line.args[1], FALSE, labels)
          IN CASE ~IsPowerOfTwo(a.val) ->
                    /\ errors' = errors \o a.errs \o <<"BadAlignment">>
                    /\ UNCHANGED <<instructions, origin, address, data, data_address>>
               [] current_section = "text" ->
                    LET padding == RoundUp(address, a.val) - address
                        nops    == RoundUp(padding, 4) \div 4
                    IN /\ EmitCode(Nops(nops), NopPadding(nops))
                       /\ address' = address + padding
                       /\ errors' = errors \o a.errs
                       /\ UNCHANGED <<data, data_address>>
               [] OTHER ->
                    LET padding == RoundUp(data_address, a.val) - data_address
                    IN /\ data' = data \o Zeros(padding)
                       /\ data_address' = data_address + padding
                       /\ errors' = errors \o a.errs
                       /\ UNCHANGED <<instructions, origin, address>>
  /\ UNCHANGED <<labels, current_section, unresolved_references, deferred>>

(***************************************************************************)
(* process_directive .equ / .set: "name, expr"; the value must parse now   *)
(* (allow_unresolved=False), and is bound even when it did not, as 0.      *)
(* An existing binding is overwritten.                                     *)
(***************************************************************************)
Equ(line) ==
  /\ LineStep(line)
  /\ line.kind = "dir" /\ line.name \in {".equ", ".set"}
  /\ IF Len(line.args) # 2
     THEN Error("InvalidFormat") /\ UNCHANGED labels
     ELSE LET v == ParseImmediate(line.args[2], FALSE, labels) IN
          /\ labels' = (line.args[1].name :> v.val) @@ labels
          /\ errors' = errors \o v.errs
  /\ UNCHANGED <<instructions, data, current_section, address, data_address,
                 unresolved_references, origin, deferred>>

(***************************************************************************)
(* process_directive .org: an address that must parse now; moving the      *)
(* cursor backward is an error; otherwise NOP words are appended while the *)
(* code cursor is below it, or zero bytes up to it in .data.               *)
(***************************************************************************)
Org(line) ==
  /\ LineStep(line)
  /\ line.kind = "dir" /\ line.name = ".org"
  /\ IF line.args = NoArgs
     THEN Error("MissingArgument") /\ UNCHANGED <<instructions, origin, address, data, data_address>>
     ELSE LET target == ParseImmediate(line.args[1], FALSE, labels)
              cursor == IF current_section = "text" THEN address ELSE data_address
          IN CASE target.val < cursor ->
                    /\ errors' = errors \o target.errs \o <<"BackwardOrg">>
                    /\ UNCHANGED <<instructions, origin, address, data, data_address>>
               [] current_section = "text" ->
                    LET nops == RoundUp(target.val - address, 4) \div 4 IN
                    /\ EmitCode(Nops(nops), NopPadding(nops))
                    /\ address' = address + 4 * nops
                    /\ errors' = errors \o target.errs
                    /\ UNCHANGED <<data, data_address>>
               [] OTHER ->
                    /\ data' = data \o Zeros(target.val - data_address)
                    /\ data_address' = target.val
                    /\ errors' = errors \o target.errs
                    /\ UNCHANGED <<instructions, origin, address>>
  /\ UNCHANGED <<labels, current_section, unresolved_references, deferred>>

\* process_directive, final else: an unknown directive.
UnknownDirective(line) ==
  /\ LineStep(line)
  /\ line.kind = "dir"
  /\ line.name \notin {".text", ".data", ".byte", ".word", ".dword", ".ascii",
                       ".asciiz", ".space", ".skip", ".align", ".equ", ".set",
                       ".org", ".include"}
  /\ Error("UnknownDirective")
  /\ UNCHANGED <<labels, instructions, data, current_section, address,
                 data_address, unresolved_references, origin, deferred>>

(***************************************************************************)
(* process_line's instruction branch and process_instruction: outside      *)
(* .text an error; otherwise the outcome of AssembleInstruction: its       *)
(* diagnostics and unresolved references are recorded, and its word, if   *)
(* any, appended with the code cursor advanced by 4.                       *)
(***************************************************************************)
\* The effect of process_instruction's outcome r for the line: its
\* diagnostics and references recorded, its word appended with the cursor.
RecordOutcome(line, r) ==
  /\ errors' = errors \o r.errs
  /\ unresolved_references' = unresolved_references \o r.fix
  /\ deferred' = deferred \cup
       { [index |-> Len(instructions), symbol |-> x] :
           x \in UNION { UndefinedReads(line.raw[i], labels) : i \in DOMAIN line.raw } }
  /\ IF r.word = NoWord
     THEN UNCHANGED <<instructions, origin, address>>
     ELSE /\ EmitCode(<<r.word>>, <<[first |-> r.word,
                                      ref   |-> SpecRef(line.raw, labels),
                                      line  |-> line]>>)
          /\ address' = address + 4

ProcessInstruction(line) ==
  /\ LineStep(line)
  /\ line.kind = "instr"
  /\ IF current_section # "text"
     THEN /\ Error("InstructionOutsideText")
          /\ UNCHANGED <<instructions, origin, address, unresolved_references, deferred>>
     ELSE RecordOutcome(line, AssembleInstruction(line.op, line.raw, labels, Len(instructions)))
  /\ UNCHANGED <<labels, data, current_section, data_address>>

(***************************************************************************)
(* resolve_references: each recorded reference whose symbol is defined     *)
(* re-encodes the word at its index from that word's opcode, mode and reg1 *)
(* with reg2 = 0 and the symbol's value; one whose symbol is undefined is  *)
(* an error. An index past the end raises IndexError, which nothing in     *)
(* assemble() catches: the run ends with an exception ("crashed").         *)
(***************************************************************************)
Patch12(ins, r) ==
  IF r.symbol \in DOMAIN labels
  THEN LET w == ins[r.index + 1] IN
       [ins EXCEPT ![r.index + 1] =
          EncodeInstruction(OpcodeField(w), ModeField(w), Reg1Field(w), 0,
                            labels[r.symbol] % 2^12)]
  ELSE ins

Patch(ins, r) ==
  IF r.symbol \in DOMAIN labels
  THEN LET w == ins[r.index + 1] IN
       [ins EXCEPT ![r.index + 1] =
          EncodeInstruction(OpcodeField(w), ModeField(w), Reg1Field(w), 0,
                            labels[r.symbol])]
  ELSE ins

ResolveFaults ==
  \E i \in DOMAIN unresolved_references :
     /\ unresolved_references[i].symbol \in DOMAIN labels
     /\ unresolved_references[i].index >= Len(instructions)

UnresolvedErrors ==
  FlattenSeq([i \in DOMAIN unresolved_references |->
                IF unresolved_references[i].symbol \in DOMAIN labels
                THEN <<>> ELSE <<"UnresolvedSymbol">>])

\* The binary assemble() returns: code words, zero padding up to the data
\* segment base when there is data and the code is shorter, then the data.
Binary(code, bytes) ==
  [code |-> code,
   pad  |-> IF bytes # <<>> /\ 4 * Len(code) < DATA_SEGMENT_BASE
            THEN DATA_SEGMENT_BASE - 4 * Len(code) ELSE 0,
   data |-> bytes]

(***************************************************************************)
(* The end of assemble(): resolve_references, then no image if any error   *)
(* was reported, else the binary.                                          *)
(***************************************************************************)
Finish ==
  /\ phase = "lines"
  /\ IF ResolveFaults
     THEN /\ phase' = "crashed"
          /\ UNCHANGED <<instructions, errors, image>>
     ELSE LET ins == FoldLeft(Patch, instructions, unresolved_references)
              errs == errors \o UnresolvedErrors
          IN /\ instructions' = ins
             /\ errors' = errs
             /\ image' = IF errs # <<>> THEN None ELSE Binary(ins, data)
             /\ phase' = "done"
  /\ UNCHANGED <<labels, data, current_section, address, data_address,
                 unresolved_references, nlines, origin, deferred>>

Next ==
  \/ Finish
  \/ \E line \in Lines :
       \/ DefineLabel(line)
       \/ SwitchSection(line)
       \/ EmitData(line)
       \/ EmitString(line)
       \/ Reserve(line)
       \/ Align(line)
       \/ Equ(line)
       \/ Org(line)
       \/ UnknownDirective(line)
       \/ ProcessInstruction(line)

Spec == Init /\ [][Next]_vars

-----------------------------------------------------------------------------
(***************************************************************************)
(* Invariants and properties.                                              *)
(***************************************************************************)
Reference == [index : Nat, symbol : Symbols, kind : {"imm"}]

TypeOK ==
  /\ DOMAIN labels \subseteq Symbols /\ \A x \in DOMAIN labels : labels[x] \in Int
  /\ \A i \in DOMAIN instructions : instructions[i] \in (0 .. 2^8 - 1) \X (0 .. 2^24 - 1)
  /\ \A i \in DOMAIN data : data[i] \in 0 .. 255
  /\ current_section \in {"text", "data"}
  /\ address \in Nat /\ data_address \in Nat
  /\ \A i \in DOMAIN unresolved_references : unresolved_references[i] \in Reference
  /\ errors \in Seq(STRING)
  /\ phase \in {"lines", "done", "crashed"}
  /\ nlines \in 0 .. MaxLines
  /\ Len(origin) = Len(instructions)

(***************************************************************************)
(* The code and data cursors, in bytes, agree with the vectors they index: *)
(* a label takes the cursor, a forward reference the vector length, so     *)
(* after any sequence of directives (padding, alignment, escaped strings)  *)
(* both must still name the next word or byte (spec.md 9, one canonical    *)
(* unit). Every process_directive branch and process_instruction moves     *)
(* both together.                                                          *)
(***************************************************************************)
CursorsTrackVectors ==
  /\ address = CODE_SEGMENT_BASE + 4 * Len(instructions)
  /\ data_address = DATA_SEGMENT_BASE + Len(data)

(***************************************************************************)
(* A symbol read while undefined, which parse_immediate answers with the   *)
(* placeholder 0, is either recorded in unresolved_references for the     *)
(* word that read it, or the assembly reports an error: no undefined       *)
(* symbol silently becomes 0 in the image (spec.md 4.2, 7).                *)
(***************************************************************************)
DeferredRefsTracked ==
  \A d \in deferred :
     \/ \E i \in DOMAIN unresolved_references :
           /\ unresolved_references[i].index = d.index
           /\ unresolved_references[i].symbol = d.symbol
     \/ errors # <<>>

(***************************************************************************)
(* Fixup correctness (spec.md 8): in an emitted image, every instruction   *)
(* whose operand referred forward to a symbol carries, after               *)
(* resolve_references, the symbol's final value plus the operand's offset  *)
(* in its 16-bit immediate, with opcode, mode and reg1 as first emitted.   *)
(***************************************************************************)
ForwardRefsPatched ==
  image # None =>
    \A i \in DOMAIN instructions :
      LET ref == origin[i].ref
          w   == instructions[i]
          f   == origin[i].first
      IN  ref # NoRef =>
            /\ DecodedImmediate(w) = (labels[ref.sym] + ref.off) % 2^16
            /\ OpcodeField(w) = OpcodeField(f)
            /\ ModeField(w) = ModeField(f)
            /\ Reg1Field(w) = Reg1Field(f)

(***************************************************************************)
(* spec.md 4.4 and 8 (mode split): encode_instruction truncates a literal  *)
(* #k to 16 bits, high nibble in reg2.  In the image, the word of an       *)
(* instruction with a numeric #k operand decodes to k mod 2^16, and the    *)
(* bits above 16 spill neither into reg1, mode nor opcode, nor does a      *)
(* fixup rewrite the word afterwards (PUSH #0x12345 gives 0x2345).         *)
(***************************************************************************)
LiteralImmediatesTruncated ==
  \A i \in DOMAIN origin :
    LET l == origin[i].line IN
    l.kind = "instr" =>
      LET ops == SelectSeq(l.raw, LAMBDA o : o.form # "empty")
          o   == EncodedOperand(l.raw)
          w   == instructions[i]
      IN  (o.form = "hash" /\ o.expr.type = "num" /\ ParseNumber(o.expr).errs = <<>>)
            => /\ DecodedImmediate(w) = ParseNumber(o.expr).val % 2^16
               /\ ModeField(w) = IMM
               /\ OpcodeField(w) = Opcode[l.op]
               /\ Reg1Field(w) = IF Len(ops) = 2 THEN ops[1].reg ELSE 0

(***************************************************************************)
(* spec.md 4.2: a negative [SP-k]/[BP-k] offset is the 16-bit two's        *)
(* complement of -k in the STK/BAS immediate.                              *)
(***************************************************************************)
StackOffsetsWiden ==
  \A i \in DOMAIN origin :
    LET l == origin[i].line IN
    l.kind = "instr" =>
      LET o == EncodedOperand(l.raw) IN
      (/\ o.form = "rminus" /\ o.reg \in {R2_SP, R1_BP}
       /\ o.expr.type = "num" /\ ParseNumber(o.expr).errs = <<>>)
        => DecodedImmediate(instructions[i]) = (-ParseNumber(o.expr).val) % 2^16

(***************************************************************************)
(* spec.md 9: a recorded reference names a word that exists, so the fixup  *)
(* pass rewrites the instruction that made it, and cannot index past the   *)
(* code vector.                                                            *)
(***************************************************************************)
FixupsTargetEmittedWords ==
  \A i \in DOMAIN unresolved_references :
    unresolved_references[i].index < Len(instructions)

(***************************************************************************)
(* spec.md 3, 4.8: the image places the data segment at DATA_SEGMENT_BASE, *)
(* where data labels point, whatever the size of the code.                 *)
(***************************************************************************)
DataPlacedAtBase ==
  (image # None /\ image.data # <<>>) =>
     4 * Len(image.code) + image.pad = DATA_SEGMENT_BASE

(***************************************************************************)
(* spec.md 3: symbols never redefine silently; a step that changes the     *)
(* value of a defined symbol reports an error.                             *)
(***************************************************************************)
NoSilentRebinding ==
  [][\A x \in DOMAIN labels :
        labels'[x] # labels[x] => Len(errors') > Len(errors)]_vars

=============================================================================
