-------------------------------- MODULE Jsonl --------------------------------
(***************************************************************************)
(* A JSONL file that toyforge appends to and a crash may cut: the partial  *)
(* files of expand_seeds and run_eval, and rejections.jsonl.               *)
(*                                                                         *)
(* Every reader skips a line that json.loads refuses, so a file is the     *)
(* sequence of its readable rows and a tail that says how it ends:         *)
(*   "clean"  with a newline, or empty;                                    *)
(*   "torn"   with part of a line, which no reader can decode;             *)
(*   "bare"   with a whole line that lacks its newline.                    *)
(* open("a") adds nothing to an unterminated last line: the next row is    *)
(* glued to it, and the glued line is unreadable.                          *)
(***************************************************************************)
EXTENDS Naturals, Sequences

Tails == {"clean", "torn", "bare"}
FilesOf(rows) == [rows : Seq(rows), tail : Tails]

EmptyFile == [rows |-> << >>, tail |-> "clean"]

\* What is left of the readable rows once something is glued to the last line.
RowsUnderGlue(file) ==
    IF file.tail = "bare" THEN SubSeq(file.rows, 1, Len(file.rows) - 1) ELSE file.rows

\* Write whole lines and flush them.
AppendLines(file, lines) ==
    IF lines = << >>
    THEN file
    ELSE [rows |-> IF file.tail = "clean" THEN file.rows \o lines
                                          ELSE RowsUnderGlue(file) \o Tail(lines),
          tail |-> "clean"]

\* The process dies inside the next line: part of it reaches the disk, or all
\* of it but the newline.
CutLine(file, line) ==
    {[rows |-> RowsUnderGlue(file), tail |-> "torn"]} \union
    {f \in {[rows |-> Append(file.rows, line), tail |-> "bare"]} : file.tail = "clean"}

\* The process dies while these lines are in its buffer: a prefix of them is on
\* disk and, when a write can be cut in the middle, a piece of the next one.
CutAppends(file, lines, torn) ==
    LET Written(n) == AppendLines(file, SubSeq(lines, 1, n))
    IN  {Written(n) : n \in 0..Len(lines)} \union
        IF torn THEN UNION {CutLine(Written(n), lines[n + 1]) : n \in 0..(Len(lines) - 1)}
                ELSE {}
=============================================================================
