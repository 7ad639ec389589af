------------------------------ MODULE Console ------------------------------
(***************************************************************************)
(* The text console as operators: kernel/src/Drivers/Console.c over        *)
(* TextRenderer_RenderChar of kernel/src/Drivers/Display.c.                *)
(*                                                                         *)
(* A console state has the cursor's column x (its row is always the last), *)
(* the buffer of characters and the screen.  Drawing a character only sets *)
(* the pixels of its glyph, and drawing a blank clears the cell, so that a *)
(* cell of the screen is the set of the glyphs drawn on it since.          *)
(***************************************************************************)
EXTENDS Integers, Sequences

CONSTANTS Width, Height   (* of the console, in characters *)

ASSUME SizeAssumption == Width \in Nat \ {0} /\ Height \in Nat \ {0}

BACKSPACE == 8
NEWLINE   == 10
BLANK     == 32

Columns == 0 .. (Width - 1)
Rows    == 0 .. (Height - 1)
LastRow == Height - 1

(* TextRenderer_RenderChar. *)
Drawn(glyphs, char) == IF char = BLANK THEN {} ELSE glyphs \cup {char}

(* The static PutChar. *)
PutChar(c, char, x) ==
  [c EXCEPT !.buffer[<<x, LastRow>>] = char,
            !.screen[<<x, LastRow>>] = Drawn(@, char)]

(* Mutant: the row above not cleared before it is drawn over. *)
NewLine_Overdrawn(c) ==
  LET Moved(x, y) == IF y = LastRow THEN BLANK ELSE c.buffer[x, y + 1]
  IN  [x      |-> 0,
       buffer |-> [p \in Columns \X Rows |-> Moved(p[1], p[2])],
       screen |-> [p \in Columns \X Rows |-> Drawn(c.screen[p], Moved(p[1], p[2]))]]

(* Every row moves up one, onto a cleared one, and the last is cleared. *)
NewLine(c) ==
  LET Moved(x, y) == IF y = LastRow THEN BLANK ELSE c.buffer[x, y + 1]
  IN  [x      |-> 0,
       buffer |-> [p \in Columns \X Rows |-> Moved(p[1], p[2])],
       screen |-> [p \in Columns \X Rows |-> Drawn({}, Moved(p[1], p[2]))]]

(* Mutant: the cell under the cursor blanked, not the one before it. *)
DeleteChar_UnderCursor(c) ==
  IF c.x > 0 THEN PutChar([c EXCEPT !.x = @ - 1], BLANK, c.x) ELSE c

DeleteChar(c) ==
  IF c.x > 0 THEN PutChar([c EXCEPT !.x = @ - 1], BLANK, c.x - 1) ELSE c

(* Mutant: the line wrapped one character late. *)
AppendChar_WrapLate(c, char) ==
  LET wrapped == IF c.x > Width THEN NewLine(c) ELSE c
  IN  PutChar([wrapped EXCEPT !.x = @ + 1], char, wrapped.x)

AppendChar(c, char) ==
  LET wrapped == IF c.x >= Width THEN NewLine(c) ELSE c
  IN  PutChar([wrapped EXCEPT !.x = @ + 1], char, wrapped.x)

Console_PutChar(c, char) ==
  IF char = NEWLINE THEN NewLine(c)
  ELSE IF char = BACKSPACE THEN DeleteChar(c)
  ELSE AppendChar(c, char)

(* The cursor stays where it was. *)
Console_Clear(c) ==
  [c EXCEPT !.buffer = [p \in Columns \X Rows |-> BLANK],
            !.screen = [p \in Columns \X Rows |-> {}]]

Console_SetPosition(c, x) == [c EXCEPT !.x = x]

Console_Init ==
  [x      |-> 0,
   buffer |-> [p \in Columns \X Rows |-> BLANK],
   screen |-> [p \in Columns \X Rows |-> {}]]

(* What the screen shows of a buffer drawn on cleared cells. *)
Shown(buffer) == [p \in DOMAIN buffer |-> Drawn({}, buffer[p])]
=============================================================================
