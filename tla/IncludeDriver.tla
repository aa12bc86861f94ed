---------------------------- MODULE IncludeDriver ----------------------------
(***************************************************************************)
(* The include driver of src/assembler/assembler.py: the line loop of      *)
(* assemble() with its per-line try/except, the .include branch of         *)
(* process_directive, and include_file with its cycle guard               *)
(* `included_files`, its save and restore of (current_file, current_line) *)
(* and its two except clauses.                                             *)
(*                                                                         *)
(* What a line does to the symbol table and the code is the business of    *)
(* the Assembler module; here a line is only its effect on the driver: it  *)
(* returns, it raises, it is a malformed .include, or it includes a path.  *)
(* Python's recursion is the explicit stack of frames `stack`: the bottom  *)
(* frame is assemble()'s loop, every other frame one active include_file.  *)
(***************************************************************************)
EXTENDS Integers, SequencesExt

CONSTANTS
  Files,     \* the files on disk
  Paths,     \* the path strings that .include lines name
  Main,      \* the top-level file
  MainPath,  \* a path that names Main
  Filename,  \* the filename passed to assemble(); "<input>" by default
  Missing,   \* what a path resolves to when no file is there
  Resolve,   \* the file open(path) reads; os.path.abspath is the identity on Paths
  Kinds,     \* the kinds of line a file may hold
  MaxLen     \* the length of the longest file

\* A line whose processing returns, one that raises an exception out of
\* process_line, a .include without a quoted name, and .include "p".
Plain == [k |-> "plain"]
Raise == [k |-> "raise"]
BadInclude == [k |-> "badinc"]
Include(p) == [k |-> "inc", p |-> p]
LineKinds == {Plain, Raise, BadInclude} \cup {Include(p) : p \in Paths}

ASSUME /\ Main \in Files /\ Missing \notin Files
       /\ MainPath \in Paths /\ Resolve \in [Paths -> Files \cup {Missing}]
       /\ Resolve[MainPath] = Main
       /\ Kinds \subseteq LineKinds /\ MaxLen \in Nat

\* Events: a line processed, and a diagnostic "file:line: message".
Line(f, i) == [ev |-> "line", file |-> f, line |-> i]
Diag(kind, p, i) == [ev |-> kind, file |-> p, line |-> i]

VARIABLES
  content,         \* the lines of every file
  stack,           \* the active frames [path, file, line, prev_file, prev_line]
  included_files,  \* Assembler.included_files
  current_file,    \* Assembler.current_file
  current_line,    \* Assembler.current_line
  errors,          \* Assembler.errors
  trace,           \* history: the events in the order they happened
  phase            \* "lines" while assemble() loops, then "done"

vars == <<content, stack, included_files, current_file, current_line,
          errors, trace, phase>>

Texts == UNION {[1..n -> Kinds] : n \in 0..MaxLen}

\* assemble(): current_file = filename; included_files = {abspath(filename)}
Init ==
  /\ content \in [Files -> Texts]
  /\ stack = <<[path |-> Filename, file |-> Main, line |-> 0,
                prev_file |-> Filename, prev_line |-> 0]>>
  /\ included_files = {Filename}
  /\ current_file = Filename
  /\ current_line = 0
  /\ errors = <<>>
  /\ trace = <<>>
  /\ phase = "lines"

Top == stack[Len(stack)]
Exhausted == Top.line = Len(content[Top.file])
LineNo == Top.line + 1
Current == content[Top.file][LineNo]

\* The loop of the innermost frame has a line left.
Pending == phase = "lines" /\ ~Exhausted

\* self.error(message), with the position the driver holds now.
Report(kind, n) ==
  /\ errors' = Append(errors, Diag(kind, current_file, n))
  /\ trace' = Append(trace, Diag(kind, current_file, n))

\* for line_num, line in enumerate(...): self.current_line = line_num
Advance(n) ==
  /\ stack' = [stack EXCEPT ![Len(stack)].line = n]
  /\ current_line' = n

\* process_line(line) returns normally.
ProcessPlain ==
  /\ Pending /\ Current = Plain
  /\ Advance(LineNo)
  /\ trace' = Append(trace, Line(Top.file, LineNo))
  /\ UNCHANGED <<content, included_files, current_file, errors, phase>>

\* process_line raises in the top-level file: assemble() reports it and
\* goes on with the next line.
ExceptionAtTop ==
  /\ Pending /\ Current = Raise /\ Len(stack) = 1
  /\ Advance(LineNo)
  /\ Report("Exception", LineNo)
  /\ UNCHANGED <<content, included_files, current_file, phase>>

LeaveIncludeKeepsLine ==
  /\ stack' = Front(stack)
  /\ current_file' = Top.prev_file
  /\ included_files' = included_files \ {Top.path}
  /\ UNCHANGED current_line

\* The end of include_file: restore file and line, drop abspath from the guard.
LeaveInclude ==
  /\ stack' = Front(stack)
  /\ current_file' = Top.prev_file
  /\ current_line' = Top.prev_line
  /\ included_files' = included_files \ {Top.path}

AbandonIncludeLate(n) ==
  /\ LeaveInclude
  /\ errors' = Append(errors, Diag("IncludeError", Top.prev_file, Top.prev_line))
  /\ trace' = Append(trace, Diag("IncludeError", Top.prev_file, Top.prev_line))

\* `except Exception` of include_file: report at the failing line, then leave;
\* the lines after line n of the file are not read.
AbandonInclude(n) ==
  /\ Report("IncludeError", n)
  /\ LeaveInclude

\* process_line raises inside an included file.
ExceptionInInclude ==
  /\ Pending /\ Current = Raise /\ Len(stack) > 1
  /\ AbandonInclude(LineNo)
  /\ UNCHANGED <<content, phase>>

\* .include with no argument, or an argument that is not "...".
BadIncludeLine ==
  /\ Pending /\ Current = BadInclude
  /\ Advance(LineNo)
  /\ Report("IncludeSyntax", LineNo)
  /\ UNCHANGED <<content, included_files, current_file, phase>>

\* abspath(filename) in included_files: report and return.
CircularInclude(p, n) ==
  /\ p \in included_files
  /\ Advance(n)
  /\ Report("Circular", n)
  /\ UNCHANGED <<included_files, current_file>>

MissingIncludeKeepsGuard(p, n) ==
  /\ p \notin included_files /\ Resolve[p] = Missing
  /\ Advance(n)
  /\ Report("NotFound", n)
  /\ included_files' = included_files \cup {p}
  /\ UNCHANGED current_file

\* open() raises FileNotFoundError: the path was added and the position saved,
\* the error is reported at the .include line, and both are undone.
MissingInclude(p, n) ==
  /\ p \notin included_files /\ Resolve[p] = Missing
  /\ Advance(n)
  /\ Report("NotFound", n)
  /\ UNCHANGED <<included_files, current_file>>

EnterIncludeUnchecked(p, n) ==
  /\ p \notin included_files
  /\ stack' = Append([stack EXCEPT ![Len(stack)].line = n],
                     [path |-> p, file |-> Resolve[p], line |-> 0,
                      prev_file |-> current_file, prev_line |-> n])
  /\ included_files' = included_files \cup {p}
  /\ current_file' = p
  /\ current_line' = n
  /\ UNCHANGED <<errors, trace>>

\* The path is added, (file, line) saved, and the file's own loop begins.
EnterInclude(p, n) ==
  /\ p \notin included_files /\ Resolve[p] \in Files
  /\ stack' = Append([stack EXCEPT ![Len(stack)].line = n],
                     [path |-> p, file |-> Resolve[p], line |-> 0,
                      prev_file |-> current_file, prev_line |-> n])
  /\ included_files' = included_files \cup {p}
  /\ current_file' = p
  /\ current_line' = n
  /\ UNCHANGED <<errors, trace>>

\* .include "p": process_directive calls include_file(p).
IncludeLine ==
  /\ Pending /\ Current.k = "inc"
  /\ \/ CircularInclude(Current.p, LineNo)
     \/ MissingInclude(Current.p, LineNo)
     \/ EnterInclude(Current.p, LineNo)
  /\ UNCHANGED <<content, phase>>

\* The loop of include_file runs out of lines.
EndOfInclude ==
  /\ phase = "lines" /\ Exhausted /\ Len(stack) > 1
  /\ LeaveInclude
  /\ UNCHANGED <<content, errors, trace, phase>>

\* The loop of assemble() runs out of lines.
Finish ==
  /\ phase = "lines" /\ Exhausted /\ Len(stack) = 1
  /\ phase' = "done"
  /\ UNCHANGED <<content, stack, included_files, current_file, current_line,
                 errors, trace>>

Next ==
  \/ ProcessPlain \/ ExceptionAtTop \/ ExceptionInInclude \/ BadIncludeLine
  \/ IncludeLine \/ EndOfInclude \/ Finish

\* assemble() is one thread that never waits: while it has a step to take it
\* takes one.
Spec == Init /\ [][Next]_vars /\ WF_vars(Next)


-----------------------------------------------------------------------------
(***************************************************************************)
(* The expansion of spec.md section 4.6, as a recursive definition: the    *)
(* events of processing file f, opened under path p, from line i on, while *)
(* the paths in onStack are being included.  A raising line is reported    *)
(* and skipped in the top-level file (top), and ends the file otherwise.   *)
(***************************************************************************)
RECURSIVE Expand(_, _, _, _, _)
Expand(f, p, top, i, onStack) ==
  IF i > Len(content[f]) THEN <<>>
  ELSE LET l == content[f][i]
           rest == Expand(f, p, top, i + 1, onStack)
       IN CASE l = Plain -> <<Line(f, i)>> \o rest
            [] l = Raise /\ top -> <<Diag("Exception", p, i)>> \o rest
            [] l = Raise -> <<Diag("IncludeError", p, i)>>
            [] l = BadInclude -> <<Diag("IncludeSyntax", p, i)>> \o rest
            [] l.p \in onStack -> <<Diag("Circular", p, i)>> \o rest
            [] Resolve[l.p] = Missing -> <<Diag("NotFound", p, i)>> \o rest
            [] OTHER -> Expand(Resolve[l.p], l.p, FALSE, 1, onStack \cup {l.p})
                          \o rest

\* The stack starts with the top-level input itself (spec.md section 4.6).
Expected == Expand(Main, Filename, TRUE, 1, {MainPath})

Order == INSTANCE IncludeOrder WITH out <- trace, target <- Expected

-----------------------------------------------------------------------------
Frames == [path : Paths \cup {Filename}, file : Files, line : 0..MaxLen,
           prev_file : Paths \cup {Filename}, prev_line : 0..MaxLen]

TypeOK ==
  /\ content \in [Files -> Texts]
  /\ stack \in Seq(Frames) /\ Len(stack) >= 1
  /\ included_files \subseteq Paths \cup {Filename}
  /\ current_file \in Paths \cup {Filename}
  /\ current_line \in 0..MaxLen
  /\ phase \in {"lines", "done"}

\* The cycle guard `included_files` is exactly the set of paths on the
\* include stack, after every step: include_file removes its path on the
\* normal exit, after a missing file and after an exception alike, so a file
\* may be included again once it has returned (spec.md section 9).
GuardIsStack ==
  included_files = {stack[i].path : i \in DOMAIN stack}

\* (current_file, current_line) is the position of the innermost active
\* loop, and every saved position is that of the frame below: include_file
\* restores both after its loop, its missing-file path and its exception
\* path (spec.md section 5), so diagnostics after an include name the
\* including file and line.
PositionsRestored ==
  /\ current_file = Top.path
  /\ current_line = IF Top.line = 0 /\ Len(stack) > 1 THEN Top.prev_line
                                                      ELSE Top.line
  /\ \A i \in 2..Len(stack) :
        stack[i].prev_file = stack[i - 1].path
     /\ stack[i].prev_line = stack[i - 1].line

\* The driver implements the expansion: lines are processed and diagnostics
\* reported one at a time, in the order of the recursive expansion, each
\* diagnostic at the file and line that caused it (a circular .include, a
\* missing file, an exception in an included file after its earlier lines),
\* and the assembly goes on to produce all of them.
ExpansionOrder == Order!Spec

=============================================================================
