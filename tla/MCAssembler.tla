----------------------------- MODULE MCAssembler -----------------------------
(***************************************************************************)
(* Model-checking instance of Assembler: two symbols, and line sets for    *)
(* the runs. Each set is a small program vocabulary; TLC explores every    *)
(* program of at most MaxLines lines over it.                              *)
(***************************************************************************)
EXTENDS Assembler, TLC

CONSTANTS a, b

MCSymbols == {a, b}
D(n)     == Dec(n)
Hex(ds)  == NumE("0x", FALSE, ds)
Sa       == SymE(a)
Sb       == SymE(b)
Hash(e)  == Op("hash", NoReg, NoSym, e)
Bare(e)  == Op("bare", NoReg, NoSym, e)
R(n)     == Op("reg", n, NoSym, NoExpr)
Ind(n)   == Op("ind", n, NoSym, NoExpr)
RPlus(n, e)  == Op("rplus", n, NoSym, e)
RMinus(n, e) == Op("rminus", n, NoSym, e)
SPlus(s, e)  == Op("splus", NoReg, s, e)
Mem(e)   == Op("mem", NoReg, NoSym, e)
Empty    == Op("empty", NoReg, NoSym, NoExpr)

\* Layout directives and labels shared by the runs.
LayoutLines ==
  { LabelLine(a), LabelLine(b),
    DirLine(".data", NoArgs), DirLine(".text", NoArgs) }

(***************************************************************************)
(* The core run: every directive and handler branch, forward and backward  *)
(* IMM and [s] references, register, indirect, indexed and stack operands, *)
(* 16-bit immediates, rejected formats and bad literals ("#08").           *)
(***************************************************************************)
CoreLines ==
  LayoutLines \cup
  { DirLine(".byte", <<D(1)>>),
    DirLine(".dword", <<Hex(<<1, 2, 3>>)>>),
    DirLine(".asciiz", <<Str(TRUE, <<92, 110, 65>>)>>),
    DirLine(".align", <<D(8)>>),
    DirLine(".space", <<D(5)>>),
    DirLine(".equ", <<Sb, D(4)>>),
    DirLine(".org", <<Hex(<<1, 1>>)>>),
    DirLine(".ent", NoArgs),
    InstrLine("LOAD", <<R(5), Hash(Sa)>>),
    InstrLine("JMP", <<Bare(Sb)>>),
    InstrLine("LOAD", <<R(5), Mem(Sa)>>),
    InstrLine("LOAD", <<R(5), Ind(6)>>),
    InstrLine("STORE", <<R(5), RMinus(R2_SP, D(4))>>),
    InstrLine("ADD", <<R(1), RPlus(5, D(8))>>),
    InstrLine("PUSH", <<Hash(Hex(<<1, 2, 3, 4, 5>>))>>),
    InstrLine("MOVE", <<R(5), R(0)>>),
    InstrLine("MOVE", <<R(5), Hash(D(1))>>),
    InstrLine("RET", <<>>),
    InstrLine("LOAD", <<R(5), Hash(NumE("", FALSE, <<0, 8>>))>>) }
\* The core run with a data label: a forward IMM reference to a data label
\* needs all 16 bits of the split immediate.
CoreDataLines == CoreLines

(***************************************************************************)
(* Programs for the violation runs, one disagreement each.                 *)
(***************************************************************************)
\* "LOAD R5, [a+4]" before "a:".
FwdOffsetLines ==
  { InstrLine("LOAD", <<R(5), SPlus(a, D(4))>>), LabelLine(a),
    InstrLine("HALT", <<>>) }

\* "STORE R5, [SP-4]".
StackOffsetLines == { InstrLine("STORE", <<R(5), RMinus(R2_SP, D(4))>>) }

\* "STORE [a+4], R5": rejected, its reference left behind.
DanglingFixupLines ==
  { InstrLine("STORE", <<SPlus(a, D(4)), R(5)>>), LabelLine(a) }

\* ".org 0x4000" then one more instruction and some data.
CodeOverflowLines ==
  { DirLine(".org", <<Hex(<<4, 0, 0, 0>>)>>), InstrLine("HALT", <<>>),
    DirLine(".data", NoArgs), DirLine(".byte", <<D(1)>>) }

\* "a:" twice with an instruction between.
RedefineLines == { LabelLine(a), InstrLine("HALT", <<>>) }

=============================================================================
