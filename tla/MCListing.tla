------------------------------ MODULE MCListing ------------------------------
(***************************************************************************)
(* The generator and the disassembler together: main of                    *)
(* generate_test_program.py writes its image to stdout, and disassemble    *)
(* walks a byte string: every string of up to 5 bytes over four byte       *)
(* values, every 8-byte string over two, and the generator's image.  The   *)
(* two run side by side; the properties below relate what main wrote to    *)
(* what disassemble lists for it and to what the assembler makes of that.  *)
(***************************************************************************)
EXTENDS Listing, Generator

\* 0x00, 0x15 (mode REG, reg1 R5), 0x62 (JNZ) and 0xA0 (HALT).
ByteVals == {0, 21, 98, 160}

MCBinaries ==
  SeqOf(ByteVals, 5) \cup [1 .. 8 -> {0, 98}] \cup {generate_fibonacci_program}

\* One operand per addressing mode, as the assembler's source text reads:
\* #1, R5, [16], [R6], [R6+8], [SP+4], [BP+4].
CanonicalOperand(md) ==
  CASE md = IMM  -> HashT(1)
    [] md = REG  -> RegT(5)
    [] md = MEM  -> MemT(16)
    [] md = REGM -> IndT(6)
    [] md = IDX  -> PlusT(6, 8)
    [] md = STK  -> PlusT(R2_SP, 4)
    [] OTHER     -> PlusT(R1_BP, 4)

\* Every operand list of a count and modes the format table gives m.
OperandLists(m) ==
  LET f == Formats[m]
      counts == IF f.n = -1 THEN {0, 1} ELSE {f.n}
  IN UNION { { [k \in 1 .. n |-> CanonicalOperand(md[k])] :
               md \in { g \in [1 .. n -> AddressingModes] :
                        \A k \in 1 .. n : g[k] \in f.allowed[k] } } :
             n \in counts }

\* The words process_instruction emits for those operand lists, each as
\* the 4 bytes assemble() writes for it.
FormOutcomes ==
  UNION { { AssembleInstruction(m, ops, [x \in {} |-> 0], 0) : ops \in OperandLists(m) } :
          m \in Mnemonics }

FormBinaries == { PackLE(o.word) : o \in { o \in FormOutcomes : o.errs = <<>> } }

vars == <<stdout, buffered, gen_status, binary_data, i, address, result, lpc>>

Init == GenInit /\ ListInit

Next == (main /\ UNCHANGED listing_vars) \/ (ListNext /\ UNCHANGED gen_vars)

Spec == Init /\ [][Next]_vars

\* The listing of the bytes main wrote assembles back, line by line, to
\* what the assembler's encode_instruction makes of the script's own calls:
\* the script's copy of the encoder, its packing and the disassembler all
\* follow the encoding rules of spec.md 3 (spec.md 1).
GeneratedImageReassembles ==
  (gen_status = "exited" /\ binary_data = stdout /\ lpc = "done") =>
    /\ Len(result) = Len(FibonacciCalls)
    /\ \A k \in DOMAIN result :
         LET c == FibonacciCalls[k] IN
         AssembleInstruction(result[k].text.name, result[k].text.ops,
                             [x \in {} |-> 0], 0).word
           = EncodeInstruction(c[1], c[2], c[3], c[4], c[5])

\* The hand-computed `loop_start = 12` stays right: in the listing of the
\* image, the JNZ jumps to the address of the first instruction after the
\* prologue, the MOVE that starts the loop body.
LoopTargetIsLoopStart ==
  (gen_status = "exited" /\ binary_data = stdout /\ lpc = "done") =>
    \A k \in DOMAIN result :
      result[k].text.name = "JNZ" =>
        ParseNumber(result[k].text.ops[1].expr).val
          = result[Len(Prologue) + 1].address
=============================================================================
