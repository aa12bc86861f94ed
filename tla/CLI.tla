--------------------------------- MODULE CLI ---------------------------------
(***************************************************************************)
(* The command line of src/assembler/assembler.py: main() and              *)
(* Assembler.assemble_file.  What assemble() does with the source is the   *)
(* business of the other modules; here it is one of its three results:     *)
(* None (diagnostics were reported), an empty bytearray (a program with    *)
(* no code and no data), or a non-empty image.                             *)
(*                                                                         *)
(* Files are the input, its default output <input>.bin, an -o path and an  *)
(* -l path.  Each may hold what an earlier run left there, and writing     *)
(* each may fail when it is opened or part-way through.  Printing to       *)
(* stdout is kept only where a property is about it (the disassembly).     *)
(***************************************************************************)
EXTENDS Integers, Sequences

CONSTANTS
  Images,  \* the non-empty images assemble() can return for the source
  Stale    \* what an earlier run left in a file

Src == "prog.s"
Bin == "prog.bin"
Out == "out.bin"
Lst == "prog.lst"
WrittenPaths == {Bin, Out, Lst}
Paths == {Src} \cup WrittenPaths

NoArg      == "noarg"    \* an option not given on the command line
Absent     == "absent"   \* no file at the path
Source     == "source"   \* the assembly source text
Partial    == "partial"  \* a file truncated by a write that failed
NoImage    == "none"     \* assemble() returned None
EmptyImage == "empty"    \* assemble() returned bytearray()
Unbound    == "unbound"  \* a local of main() never assigned
Running    == -1         \* no exit status yet

ListingText == "listing" \* "Source Code:" and the source, then "Disassembly:"

Results == {NoImage, EmptyImage} \cup Images
Contents == {Absent, Source, Partial, Stale, ListingText} \cup Results

\* How opening a file for writing goes: it works, open() raises, or the
\* file is created (truncated) and write() raises.
Faults == {"none", "open", "write"}

VARIABLES
  args,         \* the parsed command line
  result,       \* what assemble() returns for the source
  fs,           \* the contents of every path
  faults,       \* how writing each path goes
  pc,           \* the next step of main()
  success,      \* assemble_file's return value
  binary_data,  \* main()'s local: the bytes read back for -d
  shown,        \* history: the bytes whose disassembly main() printed
  stderr,       \* the kinds of message printed to stderr
  status,       \* the process exit status, once main() ends
  listed        \* the bytes disassembled into the listing file, if written

vars == <<args, result, fs, faults, pc, success, binary_data, shown, stderr,
          status, listed>>

\* argparse: input, -o, -d, -l; the input path is fixed.  -v only prints
\* the symbol table and is left out.
Args == [output : {NoArg, Out}, disassemble : BOOLEAN,
         list : {NoArg, Lst}]

Init ==
  /\ args \in Args
  /\ result \in Results
  /\ fs \in {f \in [Paths -> {Absent, Source, Stale}] :
               f[Src] # Stale /\ \A p \in WrittenPaths : f[p] # Source}
  /\ faults \in [WrittenPaths -> Faults]
  /\ pc = "assemble_file"
  /\ success = FALSE
  /\ binary_data = Unbound
  /\ shown = <<>>
  /\ stderr = <<>>
  /\ status = Running
  /\ listed = NoArg

\* `output_file or splitext(input_file)[0] + '.bin'`, in assemble_file and
\* again in main.
OutputPath == IF args.output = NoArg THEN Bin ELSE args.output

\* Writing bytes c to path p: open(p, 'wb') then write().
Written(p, c) ==
  CASE faults[p] = "none"  -> [fs EXCEPT ![p] = c]
    [] faults[p] = "write" -> [fs EXCEPT ![p] = Partial]
    [] OTHER               -> fs

-----------------------------------------------------------------------------
(***************************************************************************)
(* assemble_file(input, output): one action per way out of it.  Every      *)
(* exception goes to its `except Exception` and returns False.             *)
(***************************************************************************)
Returns(ok, msgs) ==
  /\ success' = ok
  /\ stderr' = stderr \o msgs
  /\ pc' = "disassemble"
  /\ UNCHANGED <<args, result, faults, binary_data, shown, status, listed>>

\* open(input_file) raises FileNotFoundError.
InputMissing ==
  /\ pc = "assemble_file" /\ fs[Src] = Absent
  /\ Returns(FALSE, <<"Error">>)
  /\ UNCHANGED fs

\* `if not binary`: None and the empty bytearray alike.
AssemblyFails ==
  /\ pc = "assemble_file" /\ fs[Src] = Source
  /\ result \in {NoImage, EmptyImage}
  /\ Returns(FALSE, (IF result = NoImage THEN <<"Diagnostics">> ELSE <<>>)
                    \o <<"FailedToAssemble">>)
  /\ UNCHANGED fs

\* open(output_file, 'wb') or f.write(binary) raises.
WriteFails ==
  /\ pc = "assemble_file" /\ fs[Src] = Source /\ result \in Images
  /\ faults[OutputPath] # "none"
  /\ fs' = Written(OutputPath, result)
  /\ Returns(FALSE, <<"Error">>)

WrittenAtDefault ==
  /\ pc = "assemble_file" /\ fs[Src] = Source /\ result \in Images
  /\ faults[Bin] = "none"
  /\ fs' = Written(Bin, result)
  /\ Returns(TRUE, <<>>)

\* The image is written to the output path; the size report goes to stdout.
WriteSucceeds ==
  /\ pc = "assemble_file" /\ fs[Src] = Source /\ result \in Images
  /\ faults[OutputPath] = "none"
  /\ fs' = Written(OutputPath, result)
  /\ Returns(TRUE, <<>>)

-----------------------------------------------------------------------------
(***************************************************************************)
(* main() after assemble_file.  -v only prints the symbol table.           *)
(***************************************************************************)
DisassemblyPathDefault == Bin

\* The output path main() reads back for -d.
DisassemblyPath == OutputPath

ReadBackName(p) == p

\* with open(output_file, 'rb') as f: binary_data = f.read()
ReadBack(p) == fs[p]

\* -d: read the output file back and print its disassembly.  The read is
\* outside any try: a missing file ends main() with a traceback (status 1).
Disassemble ==
  /\ pc = "disassemble"
  /\ IF success /\ args.disassemble
     THEN IF fs[DisassemblyPath] = Absent
          THEN /\ pc' = "done" /\ status' = 1
               /\ stderr' = Append(stderr, "Traceback")
               /\ UNCHANGED <<binary_data, shown>>
          ELSE /\ binary_data' = ReadBack(DisassemblyPath)
               /\ shown' = Append(shown, ReadBack(DisassemblyPath))
               /\ pc' = "listing"
               /\ UNCHANGED <<stderr, status>>
     ELSE pc' = "listing" /\ UNCHANGED <<binary_data, shown, stderr, status>>
  /\ UNCHANGED <<args, result, fs, faults, success, listed>>

\* -l: open the source and the listing ('w' truncates it), write the source,
\* then the disassembly of binary_data; `except Exception` reports.  Without
\* -d, binary_data is unbound and the NameError comes after the source.
WriteListing ==
  /\ pc = "listing"
  /\ IF success /\ args.list # NoArg
     THEN CASE faults[Lst] = "open" ->
                 /\ stderr' = Append(stderr, "ListingError")
                 /\ UNCHANGED <<fs, listed>>
            [] faults[Lst] = "write" ->
                 /\ fs' = [fs EXCEPT ![Lst] = Partial]
                 /\ stderr' = Append(stderr, "ListingError")
                 /\ UNCHANGED listed
            [] binary_data = Unbound ->
                 /\ fs' = [fs EXCEPT ![Lst] = ListingText]
                 /\ listed' = Unbound
                 /\ stderr' = Append(stderr, "ListingError")
            [] OTHER ->
                 /\ fs' = [fs EXCEPT ![Lst] = ListingText]
                 /\ listed' = binary_data
                 /\ UNCHANGED stderr
     ELSE UNCHANGED <<fs, stderr, listed>>
  /\ pc' = "exit"
  /\ UNCHANGED <<args, result, faults, success, binary_data, shown, status>>

\* main() returns None: the interpreter exits with status 0.
Exit ==
  /\ pc = "exit"
  /\ pc' = "done" /\ status' = 0
  /\ UNCHANGED <<args, result, fs, faults, success, binary_data, shown, stderr,
                 listed>>

Next ==
  \/ InputMissing \/ AssemblyFails \/ WriteFails \/ WriteSucceeds
  \/ Disassemble \/ WriteListing \/ Exit

Spec == Init /\ [][Next]_vars

-----------------------------------------------------------------------------
TypeOK ==
  /\ args \in Args
  /\ result \in Results
  /\ fs \in [Paths -> Contents]
  /\ pc \in {"assemble_file", "disassemble", "listing", "exit", "done"}
  /\ success \in BOOLEAN
  /\ binary_data \in Contents \cup {Unbound}
  /\ shown \in Seq(Contents)
  /\ stderr \in Seq({"Error", "Diagnostics", "FailedToAssemble", "ListingError", "Traceback"})
  /\ status \in {Running, 0, 1}
  /\ listed \in Contents \cup {NoArg, Unbound}

\* -d round-trips the bytes just emitted (spec.md 6): whatever main()
\* disassembles is the image assemble() returned in this run, never a .bin
\* an earlier run left at a path main() computes on its own.
ShownIsFresh ==
  \A i \in DOMAIN shown : shown[i] = result

\* main() never ends in a traceback: a failure of the assembly or of the
\* I/O is reported as a message (spec.md 7), including the read-back of -d.
NoTraceback ==
  pc = "done" => status = 0

\* spec.md 6: the exit status is nonzero exactly when a diagnostic was
\* produced or I/O failed.
IOFailed ==
  \E i \in DOMAIN stderr : stderr[i] \in {"Error", "ListingError", "Traceback"}

ExitStatusReflectsOutcome ==
  pc = "done" => (status # 0 <=> (result = NoImage \/ IOFailed))

\* spec.md 6: a listing file holds the source followed by the disassembly
\* of the emitted image.
ListingShowsImage ==
  fs[Lst] = ListingText => listed = result

=============================================================================
