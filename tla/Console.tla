------------------------------- MODULE Console -------------------------------
(***************************************************************************)
(* The console's two texts: term_buffer, the history that is drawn, and    *)
(* term_line, the line Enter will run.  Keys write to both, every other    *)
(* part of the system writes to the history alone.                         *)
(*                                                                         *)
(* One cell of the history stands for a typed character, for a line break, *)
(* for a prompt or for a whole message: what the properties ask is which   *)
(* of these came when, not how long they are.                              *)
(***************************************************************************)
EXTENDS Integers, Sequences

CONSTANTS
  Chars,       \* letters and digits; the three maps from keys to characters
               \* differ in the punctuation, which is left out
  BufferSize,  \* cells of term_buffer that are used (4095)
  LineSize     \* characters of term_line that are kept (63)

Marks == {"prompt", "newline", "text", "unknown"}

ASSUME ConsoleAssumption == /\ Chars \intersect Marks = {}
                            /\ BufferSize \in Nat \ {0, 1}
                            /\ LineSize \in Nat \ {0}

VARIABLES
  term_buffer,  \* the history, up to term_cursor
  term_line     \* the line, up to term_line_len

console == <<term_buffer, term_line>>

(* terminal_write: texts appended to a history, cut where it is full.      *)
Written(history, texts) ==
  LET all == history \o texts
  IN  SubSeq(all, 1, IF Len(all) <= BufferSize THEN Len(all) ELSE BufferSize)

TerminalWrite(texts) == /\ term_buffer' = Written(term_buffer, texts)
                        /\ UNCHANGED term_line

(* Output of a command, the prompt behind it and an empty line.            *)
Answer(texts) ==
  /\ term_buffer' = Written(term_buffer, <<"newline">> \o texts \o <<"prompt">>)
  /\ term_line' = <<>>

Room == Len(term_buffer) < BufferSize

welcome_msg == <<"text", "prompt">>

(* init_terminal                                                           *)
ConsoleInit == term_buffer = welcome_msg /\ term_line = <<>>

(* clear: an empty history with the welcome on it                          *)
Clear == term_buffer' = Written(<<>>, welcome_msg) /\ term_line' = <<>>

(* A character is drawn while there is room for it, and kept while the     *)
(* line has room too.                                                      *)
TypeCharacter(c) ==
  /\ Room
  /\ term_buffer' = Append(term_buffer, c)
  /\ term_line' = IF Len(term_line) < LineSize THEN Append(term_line, c)
                                               ELSE term_line

(* Slip: Backspace takes the cell back and forgets the line.               *)
Backspace_keeps_line ==
  /\ term_buffer # <<>> /\ term_line # <<>>
  /\ term_buffer' = SubSeq(term_buffer, 1, Len(term_buffer) - 1)
  /\ UNCHANGED term_line

(* The line's last character goes with the history's last cell, whatever   *)
(* that cell is by now.                                                    *)
Backspace ==
  /\ term_buffer # <<>> /\ term_line # <<>>
  /\ term_buffer' = SubSeq(term_buffer, 1, Len(term_buffer) - 1)
  /\ term_line' = SubSeq(term_line, 1, Len(term_line) - 1)
==============================================================================
