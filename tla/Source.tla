------------------------------- MODULE Source -------------------------------
(***************************************************************************)
(* Sources and positions in them (cero/syntax/source.cc).                  *)
(*                                                                         *)
(* A source is a file or a string: origin tells which, content what it     *)
(* holds.  A text is a sequence of bytes.                                  *)
(***************************************************************************)
EXTENDS Naturals, Sequences

(***************************************************************************)
(* The text of a locked source (Source::lock, SourceView::get_text): all   *)
(* of a file, and of a string, which is a const char*, the part before the *)
(* first NUL.                                                              *)
(***************************************************************************)
get_text(source) ==
  LET nuls == {i \in 1..Len(source.content) : source.content[i] = "NUL"}
  IN  IF source.origin = "file" \/ nuls = {} THEN source.content
      ELSE SubSeq(source.content, 1, (CHOOSE i \in nuls : \A j \in nuls : i <= j) - 1)

(***************************************************************************)
(* The first loop of locate: after p bytes, the number of the line and     *)
(* how many bytes are before it.                                           *)
(***************************************************************************)
LinesOf(range) ==
  LET last[p \in 0..Len(range)] ==
        IF p = 0 THEN <<1, 0>>
        ELSE IF range[p] = "\n" THEN <<last[p - 1][1] + 1, p>> ELSE last[p - 1]
  IN  last

(* The second loop: the column after p bytes of the last line. *)
ColumnsOf(range, tab_size) ==
  LET column[p \in 0..Len(range)] ==
        IF p = 0 THEN 1
        ELSE column[p - 1] + (IF range[p] = "\t" THEN tab_size ELSE 1)
  IN  column

(* Mistake: the newline counts as a column of the line it begins. *)
locate_FromNewline(text, offset, tab_size) ==
  LET range == SubSeq(text, 1, offset)
      lines == LinesOf(range)[offset]
      rest == SubSeq(range, IF lines[2] = 0 THEN 1 ELSE lines[2], offset)
  IN  [line |-> lines[1], column |-> ColumnsOf(rest, tab_size)[Len(rest)]]

(***************************************************************************)
(* SourceView::locate: one loop over the text before the offset counts the *)
(* lines and remembers where the last one begins, another one over the     *)
(* rest adds up the columns.                                               *)
(***************************************************************************)
locate(text, offset, tab_size) ==
  LET range == SubSeq(text, 1, offset)
      lines == LinesOf(range)[offset]
      rest == SubSeq(range, lines[2] + 1, offset)
  IN  [line |-> lines[1], column |-> ColumnsOf(rest, tab_size)[Len(rest)]]
=============================================================================
