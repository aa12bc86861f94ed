# TLA+ models of the VM assembler

This directory is a model-checking project for `src/assembler/assembler.py`.
That file is a two-pass assembler for the 32-bit VM instruction set that
`spec.md` describes. The modules translate the assembler's control flow and
state changes into TLA+. TLC checks them over every short program built from
a chosen vocabulary of lines.

## The system

`Assembler.assemble(source)` does four things in order:

1. It resets its state: `labels`, `instructions` (code words), `data` (bytes),
   `current_section`, `address`, `data_address` and `unresolved_references`.
2. It runs `process_line` on every line:
   - A label takes the cursor of the current section. In `.data` the cursor
     is first padded to 4 bytes.
   - A directive goes to `process_directive`.
   - An instruction goes to `process_instruction`. That parses each operand
     (`parse_operand`, `parse_immediate`, `parse_register`), checks the
     operand count and modes against `InstructionFormat`, encodes the word
     (`encode_instruction`) and records a reference for every symbol that is
     not yet defined.
3. It runs `resolve_references`. Every recorded word is re-encoded with the
   symbol's final value.
4. If no error was reported, it returns the image: the code words, zero
   padding up to `DATA_SEGMENT_BASE` (0x4000), then the data bytes.

The parts interact through the shared state:
- Labels defined later change words that were emitted earlier, through the
  reference list.
- Each section's cursor decides both the value of a label and the padding
  that directives add.
- `disassemble` is the inverse of `encode_instruction`, and the spec requires
  the two to agree.

### Inventory

| Part | State | Operations | Hard behaviour |
|---|---|---|---|
| encoding tables (`AddressingMode`, `Register`, `Opcode`, `encode_instruction`) | none | encode | a 16-bit immediate split over reg2 and imm in IMM/MEM/STK/BAS; masking |
| `InstructionFormat` | the table | `validate` | RET's optional operand; two-operand mode pairs |
| operand parser | reads `labels`; appends to `unresolved_references` | `parse_operand` and helpers | the placeholder 0 for undefined symbols; `[sym±k]` references recorded at once; 12-bit negative offsets |
| `process_line` / `process_directive` | all cursors, `data`, `labels` | labels and 13 directives | alignment and padding; escapes; silent redefinition |
| `process_instruction` | `instructions`, `address`, `errors`, `unresolved_references` | one instruction | `for_source` keyed by raw comma position; validate and encode disagree (OUT) |
| `resolve_references`, emission | `instructions`, `errors` | fixup fold; image | the offset is dropped; an out-of-range index raises; code past 0x4000 |
| `disassemble` | none | one word | the case list lags the opcode table |
| `include_file`, the loop of `assemble` | `included_files`, `current_file`, `current_line` | nested files | cycle guard; restoring the position on three exits; an exception abandons the rest of a file |
| `assemble_file`, `main` (CLI) | the files on disk, the exit status | assemble, write, `-d` read-back, `-l` listing | four exits, each with a truncating `open`; the output path computed twice; `binary_data` bound only under `-d` |
| `generate_test_program.py` | stdout | build the Fibonacci image, write it | its own copy of the encoder (12-bit immediate); a hand-computed jump target |
| `disassemble` over a binary | the loop index, address, lines | walk 4 bytes at a time | short tail; little-endian unpack |

## Modules

| Module | Models | Contents |
|---|---|---|
| `Encoding` | `AddressingMode`, `Register`, `Opcode`, `encode_instruction`, field decoding | `EncodeInstruction`, the `*Field` extractors, `DecodedImmediate`, `OpcodeName`. A 32-bit word is the pair `<<opcode byte, low 24 bits>>` because TLC's integers stop at 2^31 and opcodes from 0x80 up would not fit. |
| `InstructionFormat` | the format table and `validate` | `Formats[m]` is a record `[n, allowed]` with one set of modes per position; `Validate(m, modes)`. |
| `Operands` | `parse_immediate`, `parse_register`, `parse_operand`, the pure part of `process_instruction` | See below. |
| `Disassembler` | `disassemble` for one word | The output is in the operand syntax of `Operands`, so that it can be reassembled. |
| `Listing` | the loop of `disassemble` over a byte string | `DecodeWord`, `DropTail`, `EndOfRange`; `ListingOf`, the reference of spec.md §4.9, and `ListingReassembles`, the round-trip of §6. A line is `[address, text]`; the address is kept as a number, and its hex text is layout. |
| `Generator` | `src/tools/generate_test_program.py` | The script's own `encode_instruction` and constants. `generate_fibonacci_program` is the sequence of calls `Prologue \o LoopBody \o Epilogue`, encoded and packed little-endian. `main` writes the image, or raises `TypeError` when stdout has no binary buffer. |
| `MCListing` | composition and model-checking instance | The generator's `main` and `disassemble` side by side. The binaries are every string of up to 5 bytes over 4 values, every 8-byte string over 2 values, and the generator's image; for `disasm_formats`, `FormBinaries`, the packed word of every form the format table accepts. |
| `Assembler` | `assemble`, `process_line`, `process_directive`, `process_instruction`, `resolve_references` | The state machine: one action per handler branch, and `Finish` for the fixup pass and the emission. |
| `IncludeDriver` | the line loop of `assemble`, the `.include` branch of `process_directive`, `include_file` | A stack of frames stands for Python's recursion. See below. |
| `IncludeOrder` | what spec.md §4.6 promises of the driver | The abstract specification: the events of an assembly come out one at a time, in the order of a fixed expansion, and all of them come out. |
| `MCIncludeDriver` | model-checking instance | Two files, four paths, and line kinds. |
| `CLI` | `Assembler.assemble_file` and `main` | `assemble()` abstracted to its result; the files, the open/write faults, the exit status. See below. |
| `MCCLI` | model-checking instance | One image `img` and one leftover `old` as model values. |
| `MCAssembler` | model-checking instance | The symbols `a` and `b` are model values. The module also holds the line vocabularies of the runs. |

The `Operands` module needs some explanation:
- Operand text is abstracted to its syntactic form: `#e`, `e`, `Rn`, an empty
  operand, `[Rn]`, `[Rn±e]`, `[s±e]` and `[e]`.
- A numeric literal keeps its prefix, its sign and its digit values. This
  keeps the conversion real: `#08` is an invalid octal literal, and `-5` is
  valid only in base 10.
- `AssembleInstruction(m, raw, labels, n)` returns the diagnostics, the word
  (or `NoWord`) and the references that `process_instruction` would produce.

### How Assembler corresponds to the code

State:
- The variables `labels`, `instructions`, `data`, `current_section`,
  `address`, `data_address`, `unresolved_references` and `errors` are the
  fields of `Assembler`.
- Errors are kept as diagnostic kinds. The message text is left out.
- `phase` is the position in `assemble()`: it is `"lines"`, `"done"`, or
  `"crashed"` when `resolve_references` raised `IndexError`.
- `image` is the return value. `None` means errors were reported.
- `nlines` bounds the program length.

Actions:
- Each line action (`DefineLabel`, `SwitchSection`, `EmitData`, `EmitString`,
  `Reserve`, `Align`, `Equ`, `Org`, `UnknownDirective`, `ProcessInstruction`)
  takes one line from the constant set `Lines`.
- Each has the guards, early returns and assignments of its branch of the
  code, in the same order.
- `Finish` is the rest of `assemble()`: resolve, collect errors, build the
  image.

Two ghost variables, derived from `spec.md` and not from the code, feed the
properties:
- `origin` gives, for each code word, the word as first emitted, the forward
  reference `spec.md` §4.2 says it carries, and the line that produced it.
- `deferred` holds the (word index, symbol) pairs where an undefined symbol
  was read as the placeholder 0.

### How IncludeDriver corresponds to the code

A line of a file is abstracted to its effect on the driver:
- `Plain`: `process_line` returns. What it does to labels and code is the
  business of `Assembler`.
- `Raise`: `process_line` raises an exception.
- `BadInclude`: `.include` with no quoted name. This is an error, and the
  loop goes on.
- `Include(p)`: `.include "p"`.

State:
- `included_files`, `current_file`, `current_line` and `errors` are the
  assembler's fields.
- `stack` holds one frame per active loop. The bottom frame is `assemble()`.
  Each frame above it is one call of `include_file`, and keeps the path, the
  file, the line reached and the saved `prev_file`/`prev_line`.
- `content` holds the files on disk. It is chosen in `Init` from every text of
  up to `MaxLen` lines.
- `trace` is a history variable of the events: lines processed and
  diagnostics.

Paths are model values. `os.path.abspath` is the identity on them. `Resolve`
is the file that `open(path)` reads, or `Missing`.

Actions:
- `ProcessPlain`, `ExceptionAtTop` and `ExceptionInInclude` are one line of a
  loop. An exception in the top-level file is reported, and the next line
  follows. An exception in an included file is reported at the failing line,
  and then the file is left.
- `BadIncludeLine` is a `.include` with no quoted name.
- `IncludeLine` is `include_file`, with three outcomes:
  - `CircularInclude`: the path is already on the stack;
  - `MissingInclude`: `FileNotFoundError`;
  - `EnterInclude`: the nested loop begins.
- `EndOfInclude` is the end of a nested loop.
- `Finish` is the end of `assemble()`'s loop.
- `LeaveInclude` is shared by every exit of `include_file`: restore, then
  remove from the guard.

The abstract specification is `IncludeOrder`. `Expand` is a recursive
definition of the expansion that spec.md §4.6 describes:
- The guard is seeded with the top-level file's path.
- A path already on the stack gives one "Circular" diagnostic.
- A missing file gives a diagnostic.
- A raising line ends its included file, but not the top-level file.

`IncludeDriver` refines `IncludeOrder`: `trace` maps to `out`, and `Expected`
(the expansion) maps to `target`.

### How CLI corresponds to the code

- `args` is the parsed command line: `-o` absent or `out.bin`, `-d`, and `-l`
  absent or `prog.lst`. `-v` only prints and is left out.
- `result` is what `assemble()` returns: `None`, `bytearray()` or an image.
  The `Assembler` module says which programs give which.
- `fs` holds every path: the source, the default `prog.bin`, `out.bin` and
  `prog.lst`. Init lets each output path hold what an earlier run left
  (`old`). `faults` says, for each path, whether `open` raises, or whether
  `open` truncates the file and then `write` raises.
- `assemble_file` has four actions, one for each way out of it:
  `InputMissing`, `AssemblyFails`, `WriteFails` and `WriteSucceeds`.
- `Disassemble` is the `-d` branch of `main`. Its read-back is outside any
  `try`, so a missing file ends `main` with a traceback.
- `WriteListing` is the `-l` branch. It has four outcomes: `open` fails,
  `write` fails, the `NameError` on `binary_data` after the source is
  written, or success.
- `Exit` is the return of `main`. It returns `None`, so the status is 0.

## Runs

The `core` run is expected to pass. It covers all programs of up to 4 lines
over 23 line kinds:
- the labels `a` and `b`;
- `.data` and `.text`;
- `.byte`, `.dword`, `.asciiz "\nA"`, `.align 8`, `.space 5`, `.equ b, 4`,
  `.org 0x11` and an unknown directive;
- IMM, bare, `[a]`, `[R6]`, `[SP-4]` and `[R5+8]` operands;
- `PUSH #0x12345`;
- `MOVE`, `RET`, a rejected `MOVE R5,#1` and the bad literal `#08`.

It reaches 137,170 distinct states in about a minute, and every action fires.
Four lines are enough for these programs:
- an unaligned `.org 0x11` in `.text`, which NOP-pads up to 0x14, past the
  target (the cursor must still be 4 × the words);
- a forward reference to a data label: instruction, `.data`, label;
- an escape sequence after an alignment;
- a label redefined by `.equ`.

It checks the following properties:
- `TypeOK`.
- `CursorsTrackVectors`: `address` is 4 × the number of code words and
  `data_address` is 0x4000 + the number of data bytes, after any sequence of
  directives.
- `DeferredRefsTracked`: every placeholder read is recorded as a reference
  for that word, or an error is reported.
- `ForwardRefsPatched`: in an emitted image, every word whose operand referred
  forward holds (value + offset) mod 2^16 in its 16-bit immediate, with its
  opcode, mode and reg1 unchanged.
- `LiteralImmediatesTruncated`: a literal `#n` wider than 16 bits
  (`PUSH #0x12345`) is encoded as n mod 2^16. Its mode is IMM, and its
  opcode and reg1 are intact. The high bits must not spill from reg2 into
  reg1 or the mode field (spec.md §4.4).

The `include_core` run is expected to pass. Its instance has:
- the top-level file `fm`, named by `pm`;
- a second file `f1`, named by two paths, `p1` and `q1`;
- a path `p3` that names no file.

Every pair of texts of up to two lines over the seven line kinds is checked:
3,249 initial states and 17,913 states in all, in about 10 s. This gives:
- includes nested three deep (`pm`, then `p1`, then `q1` entering `f1` a
  second time);
- self-includes and two-file cycles;
- the same file included twice in sequence;
- a raise after a nested include.

Three lines per file would take 21 minutes under coverage.

It checks the following properties:
- `TypeOK`.
- `GuardIsStack`: `included_files` is exactly the set of paths on the stack.
- `PositionsRestored`: the position is that of the innermost loop, and every
  saved position is the position of the frame below.
- `ExpansionOrder`: the refinement of `IncludeOrder!Spec`, with its weak
  fairness. Every step emits the next event of the expansion or none, and
  eventually all are emitted. Positions are included, so a diagnostic after a
  return must name the includer.

Its mutants are:
- entering a missing file;
- keeping a missing path in the guard;
- not restoring the line;
- reporting an include exception after the restore.

The `cli_core` run is expected to pass. It takes every command line,
every `assemble()` result, every leftover file at each output path and every
`open`/`write` fault: 49,440 distinct states. It checks the following
properties:
- `TypeOK`.
- `ShownIsFresh`: whatever `-d` disassembles is the image of this run. It is
  never a `.bin` left by an earlier run, even though `main` recomputes the
  output path on its own.
- `NoTraceback`: `main` never ends in a traceback. This covers the `-d`
  read-back after a failed assembly or write.

Its mutants are:
- a read-back that returns the path instead of the file;
- `main` disassembling the default `.bin` path and ignoring `-o`;
- `assemble_file` writing to the default path and ignoring `-o`.

Each of the following runs is expected to find a violation of one property.
Each has a finding in `PROJECT.json`.

| Run | Property | What the code does |
|---|---|---|
| `fwd_offset` | `ForwardRefsPatched` | `LOAD R5,[a+4]` before `a:` is patched to `[a]`. |
| `stack_offset` | `StackOffsetsWiden` | `[SP-4]` becomes 0x0FFC, where spec.md says 0xFFFC. |
| `dangling_fixup` | `FixupsTargetEmittedWords` | A rejected `STORE [a+4],R5` leaves its reference behind. |
| `code_overflow` | `DataPlacedAtBase` | After more than 0x4000 bytes of code, the data follows the code. |
| `redefine` | `NoSilentRebinding` | A second `a:` overwrites the first silently. |
| `cli_exit` | `ExitStatusReflectsOutcome` | A missing input, a failed assembly or a failed write all exit with status 0; spec.md §6 asks for nonzero. |
| `disasm_formats` | `ListingReassembles` | Every form the format table accepts is assembled, packed and disassembled; `FREE R5` lists as `FREE ???` and does not assemble back. |
| `cli_listing` | `ListingShowsImage` | `-l` without `-d` truncates the listing, writes the source, then raises `NameError` on `binary_data`: no disassembly. |

The `listing_core` run is expected to pass. It covers 1,622 byte strings,
the generator's 68-byte image among them, and both stdout kinds: 20,208
distinct states, in a few seconds. It checks the following properties:
- `ListingMatchesWords`: when `disassemble` returns, its lines are those of
  the reference `ListingOf`. There is one line per whole word, read
  little-endian, with the 1 to 3 trailing bytes dropped and addresses
  counted from `start_address`.
- `GeneratedImageReassembles`: each line of the listing of the bytes `main`
  wrote assembles back (`AssembleInstruction`) to the word the assembler's
  own encoder gives for the script's call. This ties the script's copy of the
  encoder, its packing, the listing loop, the disassembler and the assembler
  together.
- `LoopTargetIsLoopStart`: the JNZ in the listing jumps to the address of the
  first instruction after the prologue. The script computes `loop_start = 12`
  by hand.

The `disasm_formats` run (expected violation) uses the same instance with
`Binaries` set to `FormBinaries`: for every mnemonic, every operand count and
every mode combination the format table allows, a canonical operand of that
mode is assembled, and the words emitted without error are packed. It checks
`ListingReassembles`: every line `disassemble` prints assembles back to the
word it was read from (spec.md §4.9, §6). The disassembler keeps its own
mnemonic lists per operand shape, apart from the format table, and `IN`,
`LOOP`, `ALLOC`, `FREE` and `PROTECT` are in none of them: each prints
`NAME ???`. `OUT` never gets this far, because the encoder rejects it, and
`MEMCPY`/`MEMSET` are rejected as not fully implemented.

Its mutants are:
- a tail check `i + 4 >= len`, which drops the last whole word;
- a script encoder with reg1 and reg2 swapped;
- one more load in the prologue, with `loop_start` left at 12.

Every property of `core` has a mutant in `PROJECT.json`: a plausible bug in
the modelled code that TLC detects. The mutants are:
- the unmasked little-endian bytes;
- a string cursor that counts characters instead of bytes;
- a hint that ignores `[s]`;
- a patch that keeps only 12 bits;
- a disassembler that prints `[n]` as `#n`;
- a validator that checks only the operand count;
- an encoder that does not mask the immediate's high nibble into reg2.

## Fairness and liveness

`IncludeDriver`'s `Spec` assumes `WF_vars(Next)`. spec.md §6 says the
assembler is single-threaded and never suspends. A step of the driver is
enabled whenever `assemble()` has not returned, and the program then takes
it. `ExpansionOrder` relies on this to state that all events are produced.
The model is deterministic once the files are chosen, and `Finish` is the
only terminal state. `CHECK_DEADLOCK FALSE` is there only because that end
is a terminal state.

For `Assembler`:

`assemble()` is a sequential loop over a finite list of lines, and the model
caps the list at `MaxLines`. Every behaviour can end in `Finish`, and no
property depends on progress. The runs therefore say `CHECK_DEADLOCK FALSE`,
because a finished assembly is a terminal state. No fairness is assumed.

`CLI` is a straight line through `main`: every behaviour ends with
`pc = "done"`, either at `Exit` or at a traceback. Its runs say
`CHECK_DEADLOCK FALSE` for that end. No fairness is assumed, and no property
needs it.

## Not modelled, and the plan

- One defect turned up while the modules were written. It is a single
  missing case that a unit test reaches directly, so no run is kept for it:
  - `InstructionFormat` never checks RET's operand mode, so `RET R5` is
    accepted;
- Five more defects once had runs of their own. Those runs were dropped to
  make room for the CLI and listing runs, which stay within twelve runs:
  - `ADD R1,[R5+a]` with `a` undefined encodes the offset 0 silently:
    the register-offset branch of `parse_operand` neither records a
    reference nor reports.
  - `LOAD R5,,a` loses its reference: `for_source` is keyed by the raw
    comma position, and the empty operand shifts it.
  - `.dword a` with `a` never defined stores 0 silently: the data
    placeholder is neither recorded nor reported (assembler.py:592).
  - A well-formed `OUT #1,R5` is always rejected: `validate` accepts it and
    `encode_instruction`'s format list does not.
  - With the default filename `"<input>"`, a top-level file that includes
    itself is processed once more before the cycle is reported. To see it,
    set `Filename` to `input` in `MCIncludeDriver_core.cfg`; `ExpansionOrder`
    then fails.
- `assemble_file` treats an empty image (`bytearray()`) as a failure and
  writes nothing, which leaves a stale `.bin` in place. spec.md does not say
  whether a program with no code and no data has an image, so no property
  takes a side.

- `IncludeDriver` and `Assembler` are not composed. A line's effect on the
  symbol table does not depend on which file it came from, apart from the
  position in its diagnostics. A file entered twice (see above) therefore has the effect of its lines repeated, which `redefine` already
  shows.
- Path resolution is left out. `open` and `abspath` resolve relative to the
  working directory and not the including file. That is a constant
  `Resolve` here, and it matters only to the user.

- An abstract "ideal two-pass assembler" specification, in which every symbol
  is resolved to its final value. It is planned as a refinement target, with
  `Assembler` mapped to it through `origin`. The fixup bugs above are expected
  to show up as refinement failures.
- Case-insensitive register names. Every register token is already resolved
  to its index, so `r5`, which `parse_operand` reads as a symbol, is not
  represented.
- The other two scripts in `src/tools` (`test_extensive_syscalls.py` and
  `test_interrupt_return.py`) build VM images for the C virtual machine.
  What those images do depends on the VM's semantics, which this repository
  does not hold. The generator's comment "Initialize counter R0_ACC to 10"
  does not match its code, which loads R9 with 25. The model follows the
  code.
- The generator's IMM immediates are all below 4096. The 12-bit mask of its
  encoder (see the hazard at `generate_test_program.py:68`) therefore never
  bites. A wider immediate in the program would violate
  `GeneratedImageReassembles`.
