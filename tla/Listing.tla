------------------------------- MODULE Listing -------------------------------
(***************************************************************************)
(* Assembler.disassemble(binary_data, start_address, show_addresses) of    *)
(* src/assembler/assembler.py: the loop that walks a byte string four      *)
(* bytes at a time, unpacks each word little-endian, disassembles it       *)
(* (module Disassembler) and appends a line, with the address in front     *)
(* when asked.  main calls it for -d and -l with the defaults.             *)
(*                                                                         *)
(* A line is the record [address, text]; the hex formatting "{:04X}: " is  *)
(* layout and is left out, the address is kept as the number it prints.   *)
(***************************************************************************)
EXTENDS Integers, Sequences, Disassembler

CONSTANTS
  Binaries,       \* the byte strings disassemble may be handed
  StartAddress,   \* start_address
  ShowAddresses   \* show_addresses

NoAddress == -1

VARIABLES
  binary_data,  \* the argument
  i,            \* the loop index into binary_data, 0-based
  address,      \* the address of the next line
  result,       \* the lines so far
  lpc           \* "loop" or "done"

listing_vars == <<binary_data, i, address, result, lpc>>

ListInit ==
  /\ binary_data \in Binaries
  /\ i = 0
  /\ address = StartAddress
  /\ result = <<>>
  /\ lpc = "loop"

\* struct.unpack("<I", binary_data[i:i+4])[0], as <<opcode, low 24 bits>>.
Unpack(b, k) ==
  << b[k + 4], b[k + 1] + b[k + 2] * 2^8 + b[k + 3] * 2^16 >>

Line(a, w) ==
  [address |-> IF ShowAddresses THEN a ELSE NoAddress, text |-> Disassemble(w)]

\* One iteration of `for i in range(0, len(binary_data), 4)` with a whole
\* word left: decode, format, append, address += 4.
DecodeWord ==
  /\ lpc = "loop" /\ i < Len(binary_data) /\ i + 4 <= Len(binary_data)
  /\ result' = Append(result, Line(address, Unpack(binary_data, i)))
  /\ address' = address + 4
  /\ i' = i + 4
  /\ UNCHANGED <<binary_data, lpc>>

TailCheckInclusive(k, n) == k + 4 >= n

\* `if i + 4 > len(binary_data): break`
ShortTail(k, n) == k + 4 > n

\* A short tail of 1 to 3 bytes: break.
DropTail ==
  /\ lpc = "loop" /\ i < Len(binary_data) /\ ShortTail(i, Len(binary_data))
  /\ lpc' = "done"
  /\ UNCHANGED <<binary_data, i, address, result>>

\* The range is exhausted: return result.
EndOfRange ==
  /\ lpc = "loop" /\ i >= Len(binary_data)
  /\ lpc' = "done"
  /\ UNCHANGED <<binary_data, i, address, result>>

ListNext == DecodeWord \/ DropTail \/ EndOfRange

-----------------------------------------------------------------------------
(***************************************************************************)
(* The reference of spec.md 4.9: one line per whole 4-byte word, the word  *)
(* read little-endian, the trailing short tail dropped, addresses from     *)
(* start_address in steps of 4.                                            *)
(***************************************************************************)
RECURSIVE LittleEndian(_)
LittleEndian(s) == IF s = <<>> THEN 0 ELSE Head(s) + 2^8 * LittleEndian(Tail(s))

WordAt(b, k) ==
  << b[4 * k], LittleEndian(SubSeq(b, 4 * k - 3, 4 * k - 1)) >>

ListingOf(b) ==
  [k \in 1 .. Len(b) \div 4 |->
     [address |-> IF ShowAddresses THEN StartAddress + 4 * (k - 1) ELSE NoAddress,
      text    |-> Disassemble(WordAt(b, k))]]

\* When disassemble returns, its lines are exactly those of spec.md 4.9 for
\* the bytes it was given: the loop's stride, its short-tail break and its
\* little-endian unpack lose no whole word, add none, and number them from
\* start_address (the -d and -l output of main).
ListingMatchesWords ==
  lpc = "done" => result = ListingOf(binary_data)

\* spec.md 6 and 8: -d round-trips the emitted bytes.  When disassemble
\* returns, every line it printed for a word assembles back to that word.
ListingReassembles ==
  lpc = "done" =>
    \A k \in DOMAIN result :
      AssembleInstruction(result[k].text.name, result[k].text.ops,
                          [x \in {} |-> 0], 0).word = WordAt(binary_data, k)

=============================================================================
