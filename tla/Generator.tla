------------------------------ MODULE Generator ------------------------------
(***************************************************************************)
(* src/tools/generate_test_program.py: a script that builds a Fibonacci   *)
(* image word by word with its own copy of encode_instruction and its own  *)
(* opcode, mode and register constants, packs the words little-endian and *)
(* writes them to stdout.  spec.md 1: only its use of the same encoding    *)
(* rules as the assembler is relevant.                                     *)
(*                                                                         *)
(* A call encode_instruction(op, mode, r1, r2, imm) is kept as the tuple   *)
(* of its arguments; the program is the sequence of calls in the order the *)
(* function appends them.  main is the one step of the model.             *)
(***************************************************************************)
EXTENDS Integers, SequencesExt, Encoding

\* The script's constants (its copies of instruction_set.h).
IMM_MODE == 0
REG_MODE == 1
R0_ACC == 0
R5 == 5
R6 == 6
R8 == 8
R9 == 9
LOAD_OP == 1
MOVE_OP == 3
ADD_OP == 32
SUB_OP == 33
JNZ_OP == 98
SYSCALL_OP == 108
HALT_OP == 160

encode_instruction_swapped(opcode, mode, reg1, reg2, immediate) ==
  << opcode % 2^8,
     (mode % 2^4) * 2^20 + (reg2 % 2^4) * 2^16 + (reg1 % 2^4) * 2^12
       + (immediate % 2^12) >>

\* encode_instruction: every field masked to its width, the immediate to 12
\* bits whatever the mode, reg2 always its own nibble.
encode_instruction(opcode, mode, reg1, reg2, immediate) ==
  << opcode % 2^8,
     (mode % 2^4) * 2^20 + (reg1 % 2^4) * 2^16 + (reg2 % 2^4) * 2^12
       + (immediate % 2^12) >>

Call(op, mode, r1, r2, imm) == <<op, mode, r1, r2, imm>>
Encoded(c) == encode_instruction(c[1], c[2], c[3], c[4], c[5])

\* The three loads before the loop, with an extra clear of R0_ACC first.
PrologueClearingAcc ==
  << Call(LOAD_OP, IMM_MODE, R0_ACC, 0, 0),
     Call(LOAD_OP, IMM_MODE, R5, 0, 0), Call(LOAD_OP, IMM_MODE, R6, 0, 1),
     Call(LOAD_OP, IMM_MODE, R9, 0, 25) >>

\* Steps 1-3: R5 = 0, R6 = 1, the counter R9 = 25.
Prologue ==
  << Call(LOAD_OP, IMM_MODE, R5, 0, 0), Call(LOAD_OP, IMM_MODE, R6, 0, 1),
     Call(LOAD_OP, IMM_MODE, R9, 0, 25) >>

\* `loop_start = 12`: written by hand, "3 instructions * 4 bytes".
loop_start == 12

\* Steps 4-9: print R5 and a newline, R0 = R5 + R6, shift, decrement R9.
LoopBody ==
  << Call(MOVE_OP, REG_MODE, R0_ACC, R5, 0),
     Call(SYSCALL_OP, IMM_MODE, 0, 0, 1),
     Call(LOAD_OP, IMM_MODE, R0_ACC, 0, 10),
     Call(SYSCALL_OP, IMM_MODE, 0, 0, 0),
     Call(LOAD_OP, IMM_MODE, R0_ACC, 0, 0),
     Call(ADD_OP, REG_MODE, R0_ACC, R5, 0),
     Call(ADD_OP, REG_MODE, R0_ACC, R6, 0),
     Call(MOVE_OP, REG_MODE, R5, R6, 0),
     Call(MOVE_OP, REG_MODE, R6, R0_ACC, 0),
     Call(LOAD_OP, IMM_MODE, R8, 0, 1),
     Call(SUB_OP, REG_MODE, R9, R8, 0) >>

\* Steps 10-11: JNZ to loop_start & 0xFFF, then HALT.
Epilogue ==
  << Call(JNZ_OP, IMM_MODE, 0, 0, loop_start % 2^12),
     Call(HALT_OP, IMM_MODE, 0, 0, 0) >>

FibonacciCalls == Prologue \o LoopBody \o Epilogue

\* struct.pack("<I", instr): the low byte first, the opcode byte last.
PackLE(w) ==
  << w[2] % 2^8, (w[2] \div 2^8) % 2^8, w[2] \div 2^16, w[1] >>

\* generate_fibonacci_program: the calls encoded, then packed one by one.
generate_fibonacci_program ==
  FlattenSeq([i \in DOMAIN FibonacciCalls |-> PackLE(Encoded(FibonacciCalls[i]))])

VARIABLES
  stdout,     \* the bytes written to standard output
  buffered,   \* sys.stdout has a binary .buffer
  gen_status  \* "running", "exited", or the exception main raised

gen_vars == <<stdout, buffered, gen_status>>

GenInit ==
  /\ stdout = <<>>
  /\ buffered \in BOOLEAN
  /\ gen_status = "running"

\* main: with a .buffer the image goes out as bytes; without one,
\* sys.stdout.write(bytearray) on a text stream raises TypeError.
main ==
  /\ gen_status = "running"
  /\ IF buffered
     THEN stdout' = generate_fibonacci_program /\ gen_status' = "exited"
     ELSE UNCHANGED stdout /\ gen_status' = "TypeError"
  /\ UNCHANGED buffered

=============================================================================
