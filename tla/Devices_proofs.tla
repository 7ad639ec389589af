-------------------------- MODULE Devices_proofs --------------------------
(***************************************************************************)
(* Proofs about the devices: about Terminal, the handshake of isRead       *)
(* between the program and the keyboard interrupt, and the console under   *)
(* both, for every keyboard and every console; about Timer, types,         *)
(* acknowledgement, and how long a sleep lasts, for every tick.            *)
(***************************************************************************)
EXTENDS Terminal, Timer, TLAPS


KeyboardFields == {"isLeftShift", "isRightShift", "isRead", "buffer"}

(* keyboard is a record, of which only isRead's type matters here. *)
KeyboardShape ==
  /\ keyboard = [field \in KeyboardFields |-> keyboard[field]]
  /\ keyboard.isRead \in BOOLEAN

(* The flag is only ever set while the program spins on it. *)
FlagMeansSpin == keyboard.isRead => Waiting

IInv == KeyboardShape /\ FlagMeansSpin /\ OneEchoPerRead

(* At the start the program is idle and nothing has been echoed.           *)
LEMMA InitInv == Init => IInv
  BY DEF Init, IInv, KeyboardShape, KeyboardFields, FlagMeansSpin, OneEchoPerRead,
         Waiting, Reading

(* Keyboard_OnPress echoes only into a spin that has had no echo.          *)
LEMMA PressStep ==
  ASSUME NEW char, IInv, OnPress(char), pc' = pc
  PROVE  IInv'
<1>1. CASE keyboard.isRead /\ char # 0
  <2>1. ~keyboard'.isRead /\ unread' = unread + 1
    BY <1>1 DEF OnPress, Echo, IInv, KeyboardShape, KeyboardFields
  <2>2. Waiting /\ unread = 0
    BY <1>1 DEF IInv, FlagMeansSpin, OneEchoPerRead, Waiting, Reading
  <2>3. KeyboardShape'
    BY <1>1 DEF OnPress, IInv, KeyboardShape, KeyboardFields
  <2>4. unread' = 1
    BY <2>1, <2>2
  <2>5. QED
    BY <2>1, <2>2, <2>3, <2>4 DEF IInv, FlagMeansSpin, OneEchoPerRead, Waiting, Reading
<1>2. CASE ~(keyboard.isRead /\ char # 0)
  <2>1. unread' = unread
    BY <1>2 DEF OnPress
  <2>2. keyboard' = [keyboard EXCEPT !.buffer = char,
                                     !.isRead = keyboard.isRead /\ char = 0]
    BY DEF OnPress
  <2>3. (keyboard.isRead /\ char = 0) = keyboard.isRead
    BY <1>2 DEF IInv, KeyboardShape
  <2>4. keyboard'.isRead = keyboard.isRead /\ KeyboardShape'
    BY <2>2, <2>3 DEF IInv, KeyboardShape, KeyboardFields
  <2>5. QED
    BY <2>1, <2>4 DEF IInv, FlagMeansSpin, OneEchoPerRead, Waiting, Reading
<1>3. QED
  BY <1>1, <1>2

(* The interrupt, whatever key it is for.                                  *)
LEMMA InterruptStep ==
  ASSUME NEW scanCode, IInv, KeyboardInterrupt(scanCode)
  PROVE  IInv'
<1>1. CASE SetShift(scanCode)
  <2>1. keyboard'.isRead = keyboard.isRead /\ KeyboardShape'
    BY <1>1 DEF SetShift, IInv, KeyboardShape, KeyboardFields
  <2>2. unread' = unread /\ pc' = pc
    BY <1>1 DEF SetShift, KeyboardInterrupt
  <2>3. QED
    BY <2>1, <2>2 DEF IInv, FlagMeansSpin, OneEchoPerRead, Waiting, Reading
<1>2. CASE ~SetShift(scanCode)
  <2>1. PICK char : OnPress(char)
    BY <1>2 DEF KeyboardInterrupt, KeyboardHandler
  <2>2. QED
    BY <2>1, PressStep DEF KeyboardInterrupt
<1>3. QED
  BY <1>1, <1>2

(* Setting the flag starts a spin, with no echo for it yet.                *)
LEMMA ReadStep ==
  ASSUME IInv,
         keyboard' = [keyboard EXCEPT !.isRead = TRUE],
         pc' \in {"getchar", "fgets"},
         unread' = 0
  PROVE  IInv'
<1>1. keyboard'.isRead /\ KeyboardShape'
  BY DEF IInv, KeyboardShape, KeyboardFields
<1>2. QED
  BY <1>1 DEF IInv, FlagMeansSpin, OneEchoPerRead, Waiting, Reading

(* The program away from the keyboard.                                     *)
LEMMA AwayStep ==
  ASSUME IInv,
         UNCHANGED <<keyboard, unread>>,
         pc \notin {"getchar", "fgets", "getchar read", "fgets read"},
         pc' \notin {"getchar", "fgets", "getchar read", "fgets read"}
  PROVE  IInv'
  BY DEF IInv, KeyboardShape, FlagMeansSpin, OneEchoPerRead, Waiting, Reading

(* Every step keeps the invariant.                                         *)
LEMMA NextStep == IInv /\ [Next]_vars => IInv'
<1> SUFFICES ASSUME IInv, [Next]_vars PROVE IInv'
  OBVIOUS
<1> USE DEF Waiting, Reading
<1>1. CASE CallPuts \/ CallPutchar \/ EnterConsole \/ PrintChar \/ ClearConsole \/ SetPosition
  BY <1>1, AwayStep
     DEF CallPuts, CallPutchar, EnterConsole, PrintChar, ClearConsole, SetPosition
<1>2. CASE CallGetchar \/ CallFgets
  <2>1. unread = 0
    BY <1>2 DEF CallGetchar, CallFgets, IInv, OneEchoPerRead
  <2>2. PICK waiting \in {"getchar", "fgets"} : ReadChar(waiting)
    BY <1>2 DEF CallGetchar, CallFgets
  <2>3. QED
    BY <2>1, <2>2, ReadStep DEF ReadChar
<1>3. CASE LeaveSpin
  BY <1>3 DEF LeaveSpin, IInv, KeyboardShape, FlagMeansSpin, OneEchoPerRead
<1>4. CASE FgetsContinues
  <2>1. unread = 1
    BY <1>4 DEF FgetsContinues, IInv, OneEchoPerRead
  <2>2. unread' = 0
    <3>1. unread' = unread - 1
      BY <1>4 DEF FgetsContinues
    <3>2. QED
      BY <2>1, <3>1
  <2>3. keyboard' = [keyboard EXCEPT !.isRead = TRUE] /\ pc' \in {"getchar", "fgets"}
    BY <1>4 DEF FgetsContinues
  <2>4. QED
    BY <2>2, <2>3, ReadStep
<1>5. CASE GetcharReturns \/ FgetsReturns
  <2>1. unread = 1 /\ ~keyboard.isRead
    BY <1>5 DEF GetcharReturns, FgetsReturns, IInv, OneEchoPerRead, FlagMeansSpin
  <2>2. pc' = "idle" /\ UNCHANGED keyboard /\ unread' = unread - 1
    BY <1>5 DEF GetcharReturns, FgetsReturns
  <2>3. unread' = 0
    BY <2>1, <2>2
  <2>4. QED
    BY <2>1, <2>2, <2>3 DEF IInv, KeyboardShape, FlagMeansSpin, OneEchoPerRead
<1>6. CASE \E scanCode \in ScanCodes : KeyboardInterrupt(scanCode)
  BY <1>6, InterruptStep
<1>7. CASE UNCHANGED vars
  BY <1>7 DEF vars, IInv, KeyboardShape, FlagMeansSpin, OneEchoPerRead
<1>8. QED
  BY <1>1, <1>2, <1>3, <1>4, <1>5, <1>6, <1>7 DEF Next, Calls, Runs

(* The handshake: the flag is set only in a spin, which gets one echo.     *)
THEOREM Invariance == Spec => []IInv
<1>1. QED
  BY InitInv, NextStep, PTL DEF Spec

(* Every call of KeyboardReadChar is answered by exactly one echo.         *)
THEOREM OneEchoCorrect == Spec => []OneEchoPerRead
<1>1. IInv => OneEchoPerRead
  BY DEF IInv
<1>2. QED
  BY <1>1, Invariance, PTL

(* Keyboard_OnPress writes to the console only while the program spins, so *)
(* that the two never write to it at the same time.                        *)
THEOREM EchoesCorrect == Spec => EchoesOnlyIntoSpin
<1>1. ASSUME IInv, NEW scanCode, KeyboardInterrupt(scanCode), console' # console
      PROVE  Waiting
  <2>1. ~SetShift(scanCode)
    BY <1>1 DEF SetShift
  <2>2. PICK char : OnPress(char)
    BY <1>1, <2>1 DEF KeyboardInterrupt, KeyboardHandler
  <2>3. keyboard.isRead
    BY <1>1, <2>2 DEF OnPress
  <2>4. QED
    BY <1>1, <2>3 DEF IInv, FlagMeansSpin
<1>2. IInv /\ [Next]_vars =>
        [(\E scanCode \in ScanCodes : KeyboardInterrupt(scanCode)) /\ console' # console
           => Waiting]_vars
  BY <1>1
<1>3. QED
  BY <1>2, Invariance, PTL DEF Spec, EchoesOnlyIntoSpin
-----------------------------------------------------------------------------
(***************************************************************************)
(* What the screen and the last row show, for a console of any size.       *)
(***************************************************************************)
Cells == Columns \X Rows

Consoles == [x : 0 .. Width, buffer : [Cells -> Chars], screen : [Cells -> SUBSET Chars]]

(* AppendChar behind the wrapping of the line. *)
AppendedAt(wrapped, char) == PutChar([wrapped EXCEPT !.x = @ + 1], char, wrapped.x)

(* The character in a cell of the buffer, and the glyphs on it. *)
Char(c, x, y)   == c.buffer[x, y]
Glyphs(c, x, y) == c.screen[x, y]

(* The last row of c is the text, with the cursor behind it. *)
HasLine(c, text) ==
  /\ c.x = Len(text)
  /\ \A x \in Columns :
       Char(c, x, LastRow) = IF x < Len(text) THEN text[x + 1] ELSE BLANK

(* Nothing is drawn on a cell but the character of the buffer. *)
IsDrawn(c) == \A x \in Columns, y \in Rows : Glyphs(c, x, y) = Drawn({}, Char(c, x, y))

(* A cell of the last row may show more, unless it is blank. *)
IsCovered(c) ==
  \A x \in Columns, y \in Rows :
    LET shown == Drawn({}, Char(c, x, y))
    IN  \/ Glyphs(c, x, y) = shown
        \/ y = LastRow /\ shown # {} /\ shown \subseteq Glyphs(c, x, y)
(* The store of fgets, behind the handling of a backspace. *)
TakenFrom(back, char) ==
  IF back.index # LineSize
  THEN [Store(back, char) EXCEPT !.index = @ + 1] ELSE back
-----------------------------------------------------------------------------
(* A drawn cell holds characters.                                          *)
LEMMA DrawnType ==
  ASSUME NEW glyphs \in SUBSET Chars, NEW char \in Chars
  PROVE  Drawn(glyphs, char) \in SUBSET Chars
  BY DEF Drawn

(* PutChar writes the one cell it is told.                                 *)
LEMMA PutCharCells ==
  ASSUME NEW c \in Consoles, NEW char \in Chars, NEW at \in Columns
  PROVE  /\ PutChar(c, char, at) \in Consoles
         /\ PutChar(c, char, at).x = c.x
         /\ \A x \in Columns, y \in Rows :
              /\ Char(PutChar(c, char, at), x, y) =
                   IF x = at /\ y = LastRow THEN char ELSE Char(c, x, y)
              /\ Glyphs(PutChar(c, char, at), x, y) =
                   IF x = at /\ y = LastRow THEN Drawn(Glyphs(c, x, y), char)
                   ELSE Glyphs(c, x, y)
<1>1. <<at, LastRow>> \in Cells
  BY SizeAssumption DEF Cells, Rows, LastRow
<1>2. Drawn(c.screen[<<at, LastRow>>], char) \in SUBSET Chars
  BY <1>1, DrawnType DEF Consoles
<1>3. PutChar(c, char, at) \in Consoles /\ PutChar(c, char, at).x = c.x
  BY <1>1, <1>2 DEF PutChar, Consoles
<1>4. ASSUME NEW p \in Cells
      PROVE  /\ PutChar(c, char, at).buffer[p] =
                  IF p = <<at, LastRow>> THEN char ELSE c.buffer[p]
             /\ PutChar(c, char, at).screen[p] =
                  IF p = <<at, LastRow>> THEN Drawn(c.screen[p], char) ELSE c.screen[p]
  BY <1>1, <1>2 DEF PutChar, Consoles
<1>5. ASSUME NEW x \in Columns, NEW y \in Rows
      PROVE  /\ Char(PutChar(c, char, at), x, y) =
                  IF x = at /\ y = LastRow THEN char ELSE Char(c, x, y)
             /\ Glyphs(PutChar(c, char, at), x, y) =
                  IF x = at /\ y = LastRow THEN Drawn(Glyphs(c, x, y), char)
                  ELSE Glyphs(c, x, y)
  <2>1. PICK p \in Cells : p = <<x, y>>
    BY DEF Cells
  <2>2. p = <<at, LastRow>> <=> x = at /\ y = LastRow
    BY <2>1
  <2>3. /\ Char(c, x, y) = c.buffer[p] /\ Glyphs(c, x, y) = c.screen[p]
        /\ Char(PutChar(c, char, at), x, y) = PutChar(c, char, at).buffer[p]
        /\ Glyphs(PutChar(c, char, at), x, y) = PutChar(c, char, at).screen[p]
    BY <2>1 DEF Char, Glyphs
  <2> QED
    BY <1>4, <2>2, <2>3
<1> QED
  BY <1>3, <1>5

(* NewLine moves every row up onto cleared cells.                          *)
LEMMA NewLineCells ==
  ASSUME NEW c \in Consoles
  PROVE  /\ NewLine(c) \in Consoles
         /\ NewLine(c).x = 0
         /\ \A x \in Columns : Char(NewLine(c), x, LastRow) = BLANK
         /\ \A x \in Columns, y \in Rows :
              Glyphs(NewLine(c), x, y) = Drawn({}, Char(NewLine(c), x, y))
<1> DEFINE Moved(x, y) == IF y = LastRow THEN BLANK ELSE c.buffer[x, y + 1]
<1>1. ASSUME NEW p \in Cells PROVE Moved(p[1], p[2]) \in Chars
  <2>1. CASE p[2] = LastRow
    BY <2>1 DEF Chars, BLANK
  <2>2. CASE p[2] # LastRow
    <3>1. <<p[1], p[2] + 1>> \in Cells
      BY <2>2, SizeAssumption DEF Cells, Rows, LastRow
    <3> QED
      BY <2>2, <3>1 DEF Consoles
  <2> QED
    BY <2>1, <2>2
<1>2. \A p \in Cells : Drawn({}, Moved(p[1], p[2])) \in SUBSET Chars
  BY <1>1, DrawnType
<1>3. NewLine(c) = [x      |-> 0,
                    buffer |-> [p \in Cells |-> Moved(p[1], p[2])],
                    screen |-> [p \in Cells |-> Drawn({}, Moved(p[1], p[2]))]]
  BY DEF NewLine, Cells
<1>4. 0 \in 0 .. Width
  BY SizeAssumption
<1>5. \A x : Moved(x, LastRow) = BLANK
  OBVIOUS
<1> HIDE DEF Moved
<1>6. NewLine(c) \in Consoles /\ NewLine(c).x = 0
  BY <1>1, <1>2, <1>3, <1>4 DEF Consoles
<1>7. ASSUME NEW x \in Columns, NEW y \in Rows
      PROVE  /\ Char(NewLine(c), x, y) = Moved(x, y)
             /\ Glyphs(NewLine(c), x, y) = Drawn({}, Moved(x, y))
  <2>1. PICK p \in Cells : p = <<x, y>>
    BY DEF Cells
  <2>2. /\ NewLine(c).buffer[p] = Moved(p[1], p[2])
        /\ NewLine(c).screen[p] = Drawn({}, Moved(p[1], p[2]))
    BY <1>3
  <2>3. /\ Char(NewLine(c), x, y) = NewLine(c).buffer[p]
        /\ Glyphs(NewLine(c), x, y) = NewLine(c).screen[p]
    BY <2>1 DEF Char, Glyphs
  <2>4. p[1] = x /\ p[2] = y
    BY <2>1
  <2> QED
    BY <2>2, <2>3, <2>4
<1>8. LastRow \in Rows
  BY SizeAssumption DEF LastRow, Rows
<1> QED
  BY <1>5, <1>6, <1>7, <1>8

(* What AppendChar writes, once the line is wrapped if it is full.         *)
LEMMA AppendCells ==
  ASSUME NEW c \in Consoles, NEW char \in Chars, NEW w,
         w = IF c.x >= Width THEN NewLine(c) ELSE c
  PROVE  /\ w \in Consoles /\ w.x \in Columns
         /\ AppendChar(c, char) \in Consoles
         /\ AppendChar(c, char).x = w.x + 1
         /\ \A x \in Columns, y \in Rows :
              /\ Char(AppendChar(c, char), x, y) =
                   IF x = w.x /\ y = LastRow THEN char ELSE Char(w, x, y)
              /\ Glyphs(AppendChar(c, char), x, y) =
                   IF x = w.x /\ y = LastRow THEN Drawn(Glyphs(w, x, y), char)
                   ELSE Glyphs(w, x, y)
<1>1. w \in Consoles /\ w.x \in Columns
  <2>1. CASE c.x >= Width
    <3>1. w = NewLine(c)
      BY <2>1
    <3>2. 0 \in Columns
      BY SizeAssumption DEF Columns
    <3> QED
      BY <3>1, <3>2, NewLineCells
  <2>2. CASE ~(c.x >= Width)
    BY <2>2, SizeAssumption DEF Consoles, Columns
  <2> QED
    BY <2>1, <2>2
<1> DEFINE moving == [w EXCEPT !.x = @ + 1]
<1>2. /\ moving \in Consoles /\ moving.x = w.x + 1
      /\ moving.buffer = w.buffer /\ moving.screen = w.screen
  BY <1>1, SizeAssumption DEF Consoles, Columns
<1>3. AppendChar(c, char) = PutChar(moving, char, w.x)
  <2>1. AppendChar(c, char) = AppendedAt(IF c.x >= Width THEN NewLine(c) ELSE c, char)
    BY DEF AppendChar, AppendedAt
  <2>2. AppendChar(c, char) = AppendedAt(w, char)
    BY <2>1
  <2> QED
    BY <2>2 DEF AppendedAt
<1>4. \A x, y : Char(moving, x, y) = Char(w, x, y) /\ Glyphs(moving, x, y) = Glyphs(w, x, y)
  BY <1>2 DEF Char, Glyphs
<1> HIDE DEF moving
<1> QED
  BY <1>1, <1>2, <1>3, <1>4, PutCharCells

(* DeleteChar blanks the cell in front of the cursor.                      *)
LEMMA DeleteCells ==
  ASSUME NEW c \in Consoles, c.x > 0
  PROVE  /\ DeleteChar(c) \in Consoles
         /\ c.x - 1 \in Columns
         /\ DeleteChar(c).x = c.x - 1
         /\ \A x \in Columns, y \in Rows :
              /\ Char(DeleteChar(c), x, y) =
                   IF x = c.x - 1 /\ y = LastRow THEN BLANK ELSE Char(c, x, y)
              /\ Glyphs(DeleteChar(c), x, y) =
                   IF x = c.x - 1 /\ y = LastRow THEN {} ELSE Glyphs(c, x, y)
<1> DEFINE moving == [c EXCEPT !.x = @ - 1]
<1>1. /\ moving \in Consoles /\ moving.x = c.x - 1
      /\ moving.buffer = c.buffer /\ moving.screen = c.screen
  BY SizeAssumption DEF Consoles
<1>2. c.x - 1 \in Columns /\ BLANK \in Chars
  BY SizeAssumption DEF Consoles, Columns, BLANK, Chars
<1>3. DeleteChar(c) = PutChar(moving, BLANK, c.x - 1)
  BY DEF DeleteChar
<1>4. \A glyphs : Drawn(glyphs, BLANK) = {}
  BY DEF Drawn
<1>5. \A x, y : Char(moving, x, y) = Char(c, x, y) /\ Glyphs(moving, x, y) = Glyphs(c, x, y)
  BY <1>1 DEF Char, Glyphs
<1> HIDE DEF moving
<1>6. DeleteChar(c) \in Consoles /\ DeleteChar(c).x = c.x - 1
  BY <1>1, <1>2, <1>3, PutCharCells
<1>7. ASSUME NEW x \in Columns, NEW y \in Rows
      PROVE  /\ Char(DeleteChar(c), x, y) =
                  IF x = c.x - 1 /\ y = LastRow THEN BLANK ELSE Char(c, x, y)
             /\ Glyphs(DeleteChar(c), x, y) =
                  IF x = c.x - 1 /\ y = LastRow THEN {} ELSE Glyphs(c, x, y)
  <2>1. /\ Char(DeleteChar(c), x, y) =
             IF x = c.x - 1 /\ y = LastRow THEN BLANK ELSE Char(moving, x, y)
        /\ Glyphs(DeleteChar(c), x, y) =
             IF x = c.x - 1 /\ y = LastRow THEN Drawn(Glyphs(moving, x, y), BLANK)
             ELSE Glyphs(moving, x, y)
    BY <1>1, <1>2, <1>3, PutCharCells
  <2> QED
    BY <1>4, <1>5, <2>1
<1> QED
  BY <1>2, <1>6, <1>7

(* Console_PutChar keeps the console a console.                            *)
LEMMA ConsoleType ==
  ASSUME NEW c \in Consoles, NEW char \in Chars
  PROVE  Console_PutChar(c, char) \in Consoles
<1>1. CASE char = NEWLINE
  BY <1>1, NewLineCells DEF Console_PutChar
<1>2. CASE char = BACKSPACE
  <2>1. Console_PutChar(c, char) = DeleteChar(c)
    BY <1>2 DEF Console_PutChar, BACKSPACE, NEWLINE
  <2>2. c.x \in Nat
    BY SizeAssumption DEF Consoles
  <2>3. CASE c.x > 0
    BY <2>1, <2>3, DeleteCells
  <2>4. CASE ~(c.x > 0)
    BY <2>1, <2>4 DEF DeleteChar
  <2> QED
    BY <2>3, <2>4
<1>3. CASE char # NEWLINE /\ char # BACKSPACE
  BY <1>3, AppendCells DEF Console_PutChar
<1> QED
  BY <1>1, <1>2, <1>3
-----------------------------------------------------------------------------
(* A text cut after n characters has n.                                    *)
LEMMA FrontLength ==
  ASSUME NEW S, NEW text \in Seq(S), NEW n \in Nat, n <= Len(text)
  PROVE  Len(SubSeq(text, 1, n)) = n
  OBVIOUS

(* The cursor at the end of the line stays there, through wrapping,        *)
(* deleting and scrolling.                                                 *)
LEMMA LineKept ==
  ASSUME NEW c \in Consoles, NEW char \in Chars, NEW text \in Seq(Chars),
         HasLine(c, text)
  PROVE  HasLine(Console_PutChar(c, char), Edited(text, char))
<1> USE SizeAssumption
<1>a. LastRow \in Rows
  BY DEF Rows, LastRow
<1>1. CASE char = NEWLINE
  <2>1. Console_PutChar(c, char) = NewLine(c) /\ Edited(text, char) = <<>>
    BY <1>1 DEF Console_PutChar, Edited
  <2>2. \A x \in Columns : Char(NewLine(c), x, LastRow) = BLANK
    BY <1>a, NewLineCells
  <2> QED
    BY <2>1, <2>2, NewLineCells DEF HasLine, Columns
<1>2. CASE char = BACKSPACE
  <2>1. Console_PutChar(c, char) = DeleteChar(c)
    BY <1>2 DEF Console_PutChar, BACKSPACE, NEWLINE
  <2>2. CASE text = <<>>
    BY <1>2, <2>1, <2>2 DEF DeleteChar, Edited, HasLine, BACKSPACE, NEWLINE
  <2>3. CASE text # <<>>
    <3>1. Edited(text, char) = SubSeq(text, 1, Len(text) - 1)
      BY <1>2, <2>3 DEF Edited, BACKSPACE, NEWLINE
    <3>2. /\ Len(text) \in Nat /\ Len(text) > 0 /\ c.x = Len(text)
      BY <2>3 DEF HasLine
    <3>3. DeleteChar(c).x = Len(SubSeq(text, 1, Len(text) - 1))
      BY <3>2, DeleteCells
    <3>4. ASSUME NEW x \in Columns
          PROVE  Char(DeleteChar(c), x, LastRow) =
                   IF x < Len(text) - 1 THEN text[x + 1] ELSE BLANK
      <4>1. Char(DeleteChar(c), x, LastRow) =
              IF x = c.x - 1 THEN BLANK ELSE Char(c, x, LastRow)
        BY <1>a, <3>2, DeleteCells
      <4>2. Char(c, x, LastRow) = IF x < Len(text) THEN text[x + 1] ELSE BLANK
        BY DEF HasLine
      <4> QED
        BY <3>2, <4>1, <4>2 DEF Columns
    <3>5. \A x \in Columns : x < Len(text) - 1 =>
            SubSeq(text, 1, Len(text) - 1)[x + 1] = text[x + 1]
      BY <3>2 DEF Columns
    <3>6. Len(SubSeq(text, 1, Len(text) - 1)) = Len(text) - 1
      <4>1. Len(text) - 1 \in Nat /\ Len(text) - 1 <= Len(text)
        BY <3>2
      <4> QED
        BY <4>1, FrontLength, Zenon
    <3> QED
      BY <2>1, <3>1, <3>3, <3>4, <3>5, <3>6 DEF HasLine
  <2> QED
    BY <2>2, <2>3
<1>3. CASE char # NEWLINE /\ char # BACKSPACE
  <2>1. Console_PutChar(c, char) = AppendChar(c, char)
    BY <1>3 DEF Console_PutChar
  <2>2. c.x = Len(text) /\ Len(text) \in Nat
    BY DEF HasLine
  <2>3. CASE c.x >= Width
    <3>1. Edited(text, char) = <<char>>
      BY <1>3, <2>2, <2>3 DEF Edited
    <3> DEFINE w == NewLine(c)
    <3>2. w = IF c.x >= Width THEN NewLine(c) ELSE c
      BY <2>3
    <3>3. w.x = 0 /\ \A x \in Columns : Char(w, x, LastRow) = BLANK
      BY <1>a, NewLineCells
    <3> HIDE DEF w
    <3>4. AppendChar(c, char).x = 1
      BY <3>2, <3>3, AppendCells
    <3>5. ASSUME NEW x \in Columns
          PROVE  Char(AppendChar(c, char), x, LastRow) = IF x < 1 THEN char ELSE BLANK
      <4>1. Char(AppendChar(c, char), x, LastRow) =
              IF x = w.x THEN char ELSE Char(w, x, LastRow)
        BY <1>a, <3>2, AppendCells
      <4> QED
        BY <3>3, <4>1 DEF Columns
    <3>6. Len(<<char>>) = 1 /\ <<char>>[1] = char
      OBVIOUS
    <3> QED
      BY <2>1, <3>1, <3>4, <3>5, <3>6 DEF HasLine, Columns
  <2>4. CASE ~(c.x >= Width)
    <3>1. Edited(text, char) = Append(text, char)
      BY <1>3, <2>2, <2>4 DEF Edited
    <3>2. c = IF c.x >= Width THEN NewLine(c) ELSE c
      BY <2>4
    <3>3. AppendChar(c, char).x = Len(text) + 1
      BY <2>2, <3>2, AppendCells
    <3>4. ASSUME NEW x \in Columns
          PROVE  Char(AppendChar(c, char), x, LastRow) =
                   IF x < Len(text) + 1 THEN Append(text, char)[x + 1] ELSE BLANK
      <4>1. Char(AppendChar(c, char), x, LastRow) =
              IF x = c.x THEN char ELSE Char(c, x, LastRow)
        BY <1>a, <3>2, AppendCells
      <4>2. Char(c, x, LastRow) = IF x < Len(text) THEN text[x + 1] ELSE BLANK
        BY DEF HasLine
      <4>3. /\ x < Len(text) => Append(text, char)[x + 1] = text[x + 1]
            /\ x = Len(text) => Append(text, char)[x + 1] = char
        BY <2>2 DEF Columns
      <4> QED
        BY <2>2, <4>1, <4>2, <4>3 DEF Columns
    <3>5. Len(Append(text, char)) = Len(text) + 1
      OBVIOUS
    <3> QED
      BY <2>1, <3>1, <3>3, <3>4, <3>5 DEF HasLine
  <2> QED
    BY <2>3, <2>4
<1> QED
  BY <1>1, <1>2, <1>3

(* Behind the line everything is blank, so that a character is drawn on a  *)
(* cleared cell.                                                           *)
LEMMA DrawingKept ==
  ASSUME NEW c \in Consoles, NEW char \in Chars, NEW text \in Seq(Chars),
         HasLine(c, text), IsDrawn(c)
  PROVE  IsDrawn(Console_PutChar(c, char))
<1> USE SizeAssumption
<1>1. IsDrawn(NewLine(c))
  BY NewLineCells DEF IsDrawn
<1>2. Drawn({}, BLANK) = {}
  BY DEF Drawn
<1>3. CASE char = NEWLINE
  BY <1>1, <1>3 DEF Console_PutChar, IsDrawn
<1>4. CASE char = BACKSPACE
  <2>1. Console_PutChar(c, char) = DeleteChar(c)
    BY <1>4 DEF Console_PutChar, BACKSPACE, NEWLINE
  <2>2. CASE c.x > 0
    <3>1. ASSUME NEW x \in Columns, NEW y \in Rows
          PROVE  \/ Char(DeleteChar(c), x, y) = BLANK /\ Glyphs(DeleteChar(c), x, y) = {}
                 \/ /\ Char(DeleteChar(c), x, y) = Char(c, x, y)
                    /\ Glyphs(DeleteChar(c), x, y) = Glyphs(c, x, y)
      BY <2>2, DeleteCells
    <3> QED
      BY <1>2, <2>1, <3>1 DEF IsDrawn
  <2>3. CASE ~(c.x > 0)
    BY <2>1, <2>3 DEF DeleteChar
  <2> QED
    BY <2>2, <2>3
<1>5. CASE char # NEWLINE /\ char # BACKSPACE
  <2>1. Console_PutChar(c, char) = AppendChar(c, char)
    BY <1>5 DEF Console_PutChar
  <2>2. PICK w : w = IF c.x >= Width THEN NewLine(c) ELSE c
    OBVIOUS
  <2>3. w \in Consoles /\ w.x \in Columns
    BY <2>2, AppendCells
  <2>4. IsDrawn(w)
    BY <1>1, <2>2
  <2>5. Char(w, w.x, LastRow) = BLANK
    <3>1. w.x \in Columns
      BY <2>3
    <3>2. CASE c.x >= Width
      BY <2>2, <3>1, <3>2, NewLineCells
    <3>3. CASE ~(c.x >= Width)
      <4>1. w = c
        BY <2>2, <3>3
      <4> QED
        BY <2>3, <4>1 DEF HasLine, Columns
    <3> QED
      BY <3>2, <3>3
  <2>6. ASSUME NEW x \in Columns, NEW y \in Rows
        PROVE  Glyphs(AppendChar(c, char), x, y) = Drawn({}, Char(AppendChar(c, char), x, y))
    <3>1. /\ Char(AppendChar(c, char), x, y) =
                IF x = w.x /\ y = LastRow THEN char ELSE Char(w, x, y)
          /\ Glyphs(AppendChar(c, char), x, y) =
                IF x = w.x /\ y = LastRow THEN Drawn(Glyphs(w, x, y), char)
                ELSE Glyphs(w, x, y)
      BY <2>2, AppendCells
    <3>2. x = w.x /\ y = LastRow => Glyphs(w, x, y) = {}
      BY <1>2, <2>4, <2>5 DEF IsDrawn
    <3> QED
      BY <2>4, <3>1, <3>2 DEF IsDrawn
  <2> QED
    BY <2>1, <2>6 DEF IsDrawn
<1> QED
  BY <1>3, <1>4, <1>5

(* Wherever the cursor is: only the last row can have more than its buffer. *)
LEMMA CoverKept ==
  ASSUME NEW c \in Consoles, NEW char \in Chars, IsCovered(c)
  PROVE  IsCovered(Console_PutChar(c, char))
<1> USE SizeAssumption
<1>1. IsCovered(NewLine(c))
  BY NewLineCells DEF IsCovered
<1>2. CASE char = NEWLINE
  BY <1>1, <1>2 DEF Console_PutChar
<1>3. CASE char = BACKSPACE
  <2>1. Console_PutChar(c, char) = DeleteChar(c)
    BY <1>3 DEF Console_PutChar, BACKSPACE, NEWLINE
  <2>2. Drawn({}, BLANK) = {}
    BY DEF Drawn
  <2>3. CASE c.x > 0
    <3>1. ASSUME NEW x \in Columns, NEW y \in Rows
          PROVE  \/ Char(DeleteChar(c), x, y) = BLANK /\ Glyphs(DeleteChar(c), x, y) = {}
                 \/ /\ Char(DeleteChar(c), x, y) = Char(c, x, y)
                    /\ Glyphs(DeleteChar(c), x, y) = Glyphs(c, x, y)
      BY <2>3, DeleteCells
    <3> QED
      BY <2>1, <2>2, <3>1 DEF IsCovered
  <2>4. CASE ~(c.x > 0)
    BY <2>1, <2>4 DEF DeleteChar
  <2> QED
    BY <2>3, <2>4
<1>4. CASE char # NEWLINE /\ char # BACKSPACE
  <2>1. Console_PutChar(c, char) = AppendChar(c, char)
    BY <1>4 DEF Console_PutChar
  <2>2. PICK w : w = IF c.x >= Width THEN NewLine(c) ELSE c
    OBVIOUS
  <2>3. IsCovered(w)
    BY <1>1, <2>2
  <2>4. ASSUME NEW x \in Columns, NEW y \in Rows, NEW shown,
               shown = Drawn({}, Char(AppendChar(c, char), x, y))
        PROVE  \/ Glyphs(AppendChar(c, char), x, y) = shown
               \/ /\ y = LastRow /\ shown # {}
                  /\ shown \subseteq Glyphs(AppendChar(c, char), x, y)
    <3>1. /\ Char(AppendChar(c, char), x, y) =
                IF x = w.x /\ y = LastRow THEN char ELSE Char(w, x, y)
          /\ Glyphs(AppendChar(c, char), x, y) =
                IF x = w.x /\ y = LastRow THEN Drawn(Glyphs(w, x, y), char)
                ELSE Glyphs(w, x, y)
      BY <2>2, AppendCells
    <3>2. CASE x = w.x /\ y = LastRow
      <4>1. /\ shown = Drawn({}, char)
            /\ Glyphs(AppendChar(c, char), x, y) = Drawn(Glyphs(w, x, y), char)
        BY <2>4, <3>1, <3>2
      <4>2. char = BLANK => shown = {} /\ Glyphs(AppendChar(c, char), x, y) = {}
        BY <4>1 DEF Drawn
      <4>3. char # BLANK => shown = {char} /\ char \in Glyphs(AppendChar(c, char), x, y)
        BY <4>1 DEF Drawn
      <4> QED
        BY <3>2, <4>2, <4>3
    <3>3. CASE ~(x = w.x /\ y = LastRow)
      BY <2>3, <2>4, <3>1, <3>3 DEF IsCovered
    <3> QED
      BY <3>2, <3>3
  <2> QED
    BY <2>1, <2>4 DEF IsCovered
<1> QED
  BY <1>2, <1>3, <1>4
-----------------------------------------------------------------------------
(* What the console shows, and what it is compared with. *)
Display ==
  /\ console \in Consoles /\ typed \in Seq(Chars) /\ moved \in BOOLEAN
  /\ moved \/ (HasLine(console, typed) /\ IsDrawn(console))
  /\ IsCovered(console)

(* What has been read from the keyboard. *)
Input ==
  /\ keyboard \in [isLeftShift : BOOLEAN, isRightShift : BOOLEAN,
                   isRead : BOOLEAN, buffer : Chars]
  /\ echo \in Chars

(* What the program has to print, and its line. *)
Program ==
  /\ pc \in {"idle", "print", "console", "getchar", "fgets", "getchar read", "fgets read"}
  /\ output \in Seq(Chars)
  /\ pc = "console" => output # <<>>
  /\ line \in [text : [0 .. (LineSize - 1) -> Chars], index : 0 .. LineSize,
               overrun : BOOLEAN]

ScreenInv == Display /\ Input /\ Program
-----------------------------------------------------------------------------
(* The edited text is a text.                                              *)
LEMMA EditedType ==
  ASSUME NEW text \in Seq(Chars), NEW char \in Chars
  PROVE  Edited(text, char) \in Seq(Chars)
<1>1. CASE char = NEWLINE
  BY <1>1 DEF Edited
<1>2. CASE char = BACKSPACE
  BY <1>2 DEF Edited, BACKSPACE, NEWLINE
<1>3. CASE char # NEWLINE /\ char # BACKSPACE
  BY <1>3 DEF Edited
<1> QED
  BY <1>1, <1>2, <1>3

(* A character reaches the console, from either side.                      *)
LEMMA EmitKeeps ==
  ASSUME Display, NEW char \in Chars, Emit(char), UNCHANGED moved
  PROVE  Display'
<1>1. console' = Console_PutChar(console, char) /\ typed' = Edited(typed, char)
  BY DEF Emit
<1>2. console' \in Consoles /\ typed' \in Seq(Chars)
  BY <1>1, ConsoleType, EditedType DEF Display
<1>3. IsCovered(console')
  BY <1>1, CoverKept DEF Display
<1>4. CASE moved
  BY <1>2, <1>3, <1>4 DEF Display
<1>5. CASE ~moved
  <2>1. HasLine(console', typed') /\ IsDrawn(console')
    BY <1>1, <1>5, LineKept, DrawingKept DEF Display
  <2> QED
    BY <1>2, <1>3, <2>1 DEF Display
<1> QED
  BY <1>4, <1>5

(* Every cell is blank, at the start and after Console_Clear.              *)
LEMMA BlankDisplay ==
  ASSUME NEW c, NEW x \in 0 .. Width, NEW text \in Seq(Chars),
         c = [x      |-> x,
              buffer |-> [p \in Cells |-> BLANK],
              screen |-> [p \in Cells |-> {}]],
         \A i \in 1 .. Len(text) : text[i] = BLANK
  PROVE  /\ c \in Consoles /\ IsDrawn(c) /\ IsCovered(c)
         /\ x = Len(text) => HasLine(c, text)
<1>1. c \in Consoles
  BY DEF Consoles, Chars, BLANK
<1>2. ASSUME NEW column \in Columns, NEW y \in Rows
      PROVE  Char(c, column, y) = BLANK /\ Glyphs(c, column, y) = {}
  BY DEF Char, Glyphs, Cells
<1>3. Drawn({}, BLANK) = {}
  BY DEF Drawn
<1>4. IsDrawn(c)
  BY <1>2, <1>3 DEF IsDrawn
<1>5. IsCovered(c)
  BY <1>2, <1>3 DEF IsCovered
<1>6. LastRow \in Rows
  BY SizeAssumption DEF LastRow, Rows
<1>7. ASSUME x = Len(text) PROVE HasLine(c, text)
  <2>1. c.x = Len(text)
    BY <1>7
  <2>2. \A column \in Columns : column < Len(text) => text[column + 1] = BLANK
    BY DEF Columns
  <2> QED
    BY <1>2, <1>6, <2>1, <2>2 DEF HasLine
<1> QED
  BY <1>1, <1>4, <1>5, <1>7

(* At the start.                                                           *)
LEMMA InitScreen == Init => ScreenInv
<1> SUFFICES ASSUME Init PROVE ScreenInv
  OBVIOUS
<1>1. console = [x      |-> 0,
                 buffer |-> [p \in Cells |-> BLANK],
                 screen |-> [p \in Cells |-> {}]]
  BY DEF Init, Console_Init, Cells
<1>2. 0 \in 0 .. Width /\ typed = <<>> /\ <<>> \in Seq(Chars) /\ Len(<<>>) = 0
  BY SizeAssumption DEF Init
<1>3. \A i \in 1 .. Len(typed) : typed[i] = BLANK
  BY <1>2
<1>4. console \in Consoles /\ IsDrawn(console) /\ IsCovered(console) /\ HasLine(console, typed)
  BY <1>1, <1>2, <1>3, BlankDisplay
<1>5. Display
  BY <1>2, <1>4 DEF Display, Init
<1>6. Input
  BY DEF Init, Input, Chars
<1>7. Program
  BY LineSizeAssumption DEF Init, Program, NoLine, Chars
<1> QED
  BY <1>5, <1>6, <1>7 DEF ScreenInv
-----------------------------------------------------------------------------
(* What KeyboardTranslator makes of a scan code is a character.            *)
LEMMA TranslatedType ==
  ASSUME NEW scanCode \in ScanCodes, NEW upper, NEW char \in KeyboardTranslator(scanCode, upper)
  PROVE  char \in Chars
<1>1. scanCode \in Nat /\ BeyondTable \subseteq Int
  BY CharactersAssumption
<1>2. ASCIIKeys \in Seq(Int)
  BY DEF ASCIIKeys
<1> DEFINE Key == IF scanCode < Len(ASCIIKeys) THEN {ASCIIKeys[scanCode + 1]} ELSE BeyondTable
<1>3. Key \subseteq Int
  <2>1. CASE scanCode < Len(ASCIIKeys)
    <3>1. scanCode + 1 \in 1 .. Len(ASCIIKeys)
      BY <1>1, <1>2, <2>1
    <3>2. ASCIIKeys[scanCode + 1] \in Int
      BY <1>2, <3>1
    <3> QED
      BY <2>1, <3>2
  <2>2. CASE ~(scanCode < Len(ASCIIKeys))
    BY <1>1, <2>2
  <2> QED
    BY <2>1, <2>2
<1>4. \/ char \in {0, NEWLINE, BACKSPACE}
      \/ char \in Key
      \/ char \in {k - BLANK : k \in Key}
  BY DEF KeyboardTranslator
<1> HIDE DEF Key
<1>5. CASE char \in {0, NEWLINE, BACKSPACE}
  BY <1>5 DEF Chars, NEWLINE, BACKSPACE
<1>6. CASE char \in {k - BLANK : k \in Key}
  <2>1. PICK k \in Key : char = k - BLANK
    BY <1>6
  <2> QED
    BY <1>3, <2>1 DEF Chars, BLANK
<1> QED
  BY <1>3, <1>4, <1>5, <1>6 DEF Chars

(* The interrupt, whatever key it is for.                                  *)
LEMMA InterruptKeeps ==
  ASSUME ScreenInv, NEW scanCode \in ScanCodes, KeyboardInterrupt(scanCode)
  PROVE  ScreenInv'
<1>1. Program'
  BY DEF KeyboardInterrupt, ScreenInv, Program
<1>2. CASE SetShift(scanCode)
  <2>1. Display' /\ echo' = echo
    BY <1>2 DEF SetShift, KeyboardInterrupt, ScreenInv, Display
  <2>2. PICK left, right :
          keyboard' = [keyboard EXCEPT !.isLeftShift = left, !.isRightShift = right]
          /\ left \in BOOLEAN /\ right \in BOOLEAN
    <3>1. keyboard.isLeftShift \in BOOLEAN /\ keyboard.isRightShift \in BOOLEAN
      BY DEF ScreenInv, Input
    <3> QED
      BY <1>2, <3>1, Zenon DEF SetShift
  <2>3. Input'
    BY <2>1, <2>2 DEF ScreenInv, Input
  <2> QED
    BY <1>1, <2>1, <2>3 DEF ScreenInv
<1>3. CASE ~SetShift(scanCode)
  <2>1. PICK char \in Chars : OnPress(char)
    BY <1>3, TranslatedType DEF KeyboardInterrupt, KeyboardHandler
  <2>2. PICK isRead \in BOOLEAN :
          keyboard' = [keyboard EXCEPT !.buffer = char, !.isRead = isRead]
    <3>1. (keyboard.isRead /\ char = 0) \in BOOLEAN
      OBVIOUS
    <3> QED
      BY <2>1, <3>1 DEF OnPress
  <2>3. CASE keyboard.isRead /\ char # 0
    <3>1. Emit(char) /\ echo' = char
      BY <2>1, <2>3 DEF OnPress, Echo
    <3>2. Display'
      BY <3>1, EmitKeeps DEF KeyboardInterrupt, ScreenInv
    <3>3. Input'
      BY <2>2, <3>1 DEF ScreenInv, Input
    <3> QED
      BY <1>1, <3>2, <3>3 DEF ScreenInv
  <2>4. CASE ~(keyboard.isRead /\ char # 0)
    <3>1. UNCHANGED <<console, typed, echo, moved>>
      BY <2>1, <2>4 DEF OnPress, KeyboardInterrupt
    <3>2. Display' /\ Input'
      BY <2>2, <3>1 DEF ScreenInv, Display, Input
    <3> QED
      BY <1>1, <3>2 DEF ScreenInv
  <2> QED
    BY <2>3, <2>4
<1> QED
  BY <1>2, <1>3

(* ReadChar sets the flag and nothing else.                                *)
LEMMA FlagKeeps ==
  ASSUME ScreenInv, keyboard' = [keyboard EXCEPT !.isRead = TRUE],
         UNCHANGED <<console, typed, moved, echo>>
  PROVE  Display' /\ Input'
  BY DEF ScreenInv, Display, Input
-----------------------------------------------------------------------------
LineStates == [text : [0 .. (LineSize - 1) -> Chars], index : 0 .. LineSize, overrun : BOOLEAN]

(* A store in fgets, inside its array or not, and where the index goes.    *)
LEMMA StoreType ==
  ASSUME NEW l \in LineStates, NEW char \in Chars
  PROVE  Store(l, char) \in LineStates /\ Store(l, char).index = l.index
  BY LineSizeAssumption DEF LineStates, Store

(* One turn of the loop of fgets keeps the index at most behind the array. *)
LEMMA TakeType ==
  ASSUME NEW l \in LineStates, NEW char \in Chars
  PROVE  Take(l, char) \in LineStates
<1> DEFINE back == IF char = BACKSPACE /\ l.index > 0
                   THEN [Store(l, 0) EXCEPT !.index = @ - 1] ELSE l
<1>1. back \in LineStates
  <2>1. CASE char = BACKSPACE /\ l.index > 0
    <3>1. PICK s \in LineStates : s = Store(l, 0) /\ s.index = l.index
      BY StoreType DEF Chars
    <3>2. back = [s EXCEPT !.index = @ - 1]
      BY <2>1, <3>1
    <3>3. s.index - 1 \in 0 .. LineSize
      BY <2>1, <3>1, LineSizeAssumption DEF LineStates
    <3> HIDE DEF back
    <3> QED
      BY <3>2, <3>3 DEF LineStates
  <2> QED
    BY <2>1
<1>2. PICK b \in LineStates : b = back
  BY <1>1
<1>3. Take(l, char) = TakenFrom(back, char)
  BY DEF Take, TakenFrom
<1>4. Take(l, char) = TakenFrom(b, char)
  BY <1>2, <1>3
<1>5. PICK s \in LineStates : s = Store(b, char) /\ s.index = b.index
  BY StoreType
<1>6. CASE b.index # LineSize
  <2>1. Take(l, char) = [s EXCEPT !.index = @ + 1]
    BY <1>4, <1>5, <1>6 DEF TakenFrom
  <2>2. PICK next \in 0 .. LineSize : next = s.index + 1
    BY <1>5, <1>6, LineSizeAssumption DEF LineStates
  <2>3. [s EXCEPT !.index = next] \in LineStates
    BY DEF LineStates
  <2> QED
    BY ONLY <2>1, <2>2, <2>3
<1>7. CASE b.index = LineSize
  BY <1>4, <1>7 DEF TakenFrom
<1> QED
  BY <1>6, <1>7

(* The terminator of fgets. *)
LEMMA TerminatedType ==
  ASSUME NEW l \in LineStates
  PROVE  Terminated(l) \in LineStates
  BY StoreType DEF Terminated, Chars
-----------------------------------------------------------------------------
(* puts, putchar and the console's own functions.                          *)
LEMMA OutputKeeps ==
  ASSUME ScreenInv,
         CallPuts \/ CallPutchar \/ EnterConsole \/ PrintChar \/ ClearConsole \/ SetPosition
  PROVE  ScreenInv'
<1>1. Input'
  BY DEF CallPuts, CallPutchar, EnterConsole, PrintChar, ClearConsole, SetPosition,
         ScreenInv, Input
<1>2. CASE CallPuts \/ CallPutchar
  <2>1. output' \in Seq(Chars)
    <3>1. CASE CallPuts
      <4>1. PICK text \in Texts : output' = Append(text, NEWLINE)
        BY <3>1 DEF CallPuts
      <4>2. text \in Seq(Chars) /\ NEWLINE \in Chars
        BY CharactersAssumption DEF Chars, NEWLINE
      <4> QED
        BY <4>1, <4>2
    <3>2. CASE CallPutchar
      <4>1. PICK text \in Texts : text # <<>> /\ output' = <<Head(text)>>
        BY <3>2 DEF CallPutchar
      <4>2. text \in Seq(Chars)
        BY CharactersAssumption DEF Chars
      <4>3. Head(text) \in Chars
        BY <4>1, <4>2
      <4> QED
        BY <4>1, <4>3
    <3> QED
      BY <1>2, <3>1, <3>2
  <2>2. pc' = "print" /\ UNCHANGED <<console, typed, moved, line>>
    BY <1>2 DEF CallPuts, CallPutchar
  <2> QED
    BY <1>1, <2>1, <2>2 DEF ScreenInv, Display, Program
<1>3. CASE EnterConsole
  BY <1>1, <1>3 DEF EnterConsole, ScreenInv, Display, Program
<1>4. CASE PrintChar
  <2>1. output # <<>> /\ output \in Seq(Chars)
    BY <1>4 DEF PrintChar, ScreenInv, Program
  <2>2. Head(output) \in Chars /\ Tail(output) \in Seq(Chars)
    BY <2>1
  <2>3. Display'
    BY <1>4, <2>2, EmitKeeps DEF PrintChar, ScreenInv
  <2>4. output' = Tail(output) /\ pc' \in {"idle", "print"} /\ line' = line
    BY <1>4 DEF PrintChar
  <2>5. Program'
    BY <2>2, <2>4 DEF ScreenInv, Program
  <2> QED
    BY <1>1, <2>3, <2>5 DEF ScreenInv
<1>5. CASE ClearConsole
  <2>1. Program'
    BY <1>5 DEF ClearConsole, ScreenInv, Program
  <2>2. typed' = [i \in 1 .. Len(typed) |-> BLANK] /\ moved' = moved
    BY <1>5 DEF ClearConsole
  <2>3. /\ typed' \in Seq(Chars) /\ Len(typed') = Len(typed)
        /\ \A i \in 1 .. Len(typed') : typed'[i] = BLANK
    BY <2>2 DEF ScreenInv, Display, Chars, BLANK
  <2>4. console' = [x      |-> console.x,
                    buffer |-> [p \in Cells |-> BLANK],
                    screen |-> [p \in Cells |-> {}]]
    BY <1>5 DEF ClearConsole, Console_Clear, ScreenInv, Display, Consoles, Cells
  <2>5. console.x \in 0 .. Width
    BY DEF ScreenInv, Display, Consoles
  <2>6. /\ console' \in Consoles /\ IsDrawn(console') /\ IsCovered(console')
        /\ console.x = Len(typed') => HasLine(console', typed')
    BY <2>3, <2>4, <2>5, BlankDisplay
  <2>7. moved \/ console.x = Len(typed')
    BY <2>3 DEF ScreenInv, Display, HasLine
  <2>8. Display'
    BY <2>2, <2>3, <2>6, <2>7 DEF ScreenInv, Display
  <2> QED
    BY <1>1, <2>1, <2>8 DEF ScreenInv
<1>6. CASE SetPosition
  <2>1. Program'
    BY <1>6 DEF SetPosition, ScreenInv, Program
  <2>2. PICK x \in 0 .. Width : console' = [console EXCEPT !.x = x]
    BY <1>6, PositionsAssumption DEF SetPosition, Console_SetPosition
  <2>3. /\ console' \in Consoles
        /\ console'.buffer = console.buffer /\ console'.screen = console.screen
    BY <2>2 DEF ScreenInv, Display, Consoles
  <2>4. IsCovered(console')
    BY <2>3 DEF ScreenInv, Display, IsCovered, Char, Glyphs
  <2>5. moved' = TRUE /\ typed' = typed
    BY <1>6 DEF SetPosition
  <2> QED
    BY <1>1, <2>1, <2>3, <2>4, <2>5 DEF ScreenInv, Display
<1> QED
  BY <1>2, <1>3, <1>4, <1>5, <1>6

(* getchar and fgets.                                                      *)
LEMMA InputKeeps ==
  ASSUME ScreenInv,
         CallGetchar \/ CallFgets \/ LeaveSpin \/ GetcharReturns \/ FgetsContinues \/ FgetsReturns
  PROVE  ScreenInv'
<1>1. UNCHANGED <<console, typed, moved, echo, output>>
  BY DEF CallGetchar, CallFgets, ReadChar, LeaveSpin, GetcharReturns, FgetsContinues, FgetsReturns
<1>2. keyboard' \in {keyboard, [keyboard EXCEPT !.isRead = TRUE]}
  BY DEF CallGetchar, CallFgets, ReadChar, LeaveSpin, GetcharReturns, FgetsContinues, FgetsReturns
<1>3. Display' /\ Input'
  BY <1>1, <1>2, FlagKeeps DEF ScreenInv, Display, Input
<1>4. line' \in LineStates
  <2>1. line \in LineStates
    BY DEF ScreenInv, Program, LineStates
  <2>2. keyboard.buffer \in Chars
    BY DEF ScreenInv, Input
  <2>3. CASE CallFgets
    BY <2>3, LineSizeAssumption DEF CallFgets, NoLine, LineStates, Chars
  <2>4. CASE FgetsContinues
    BY <2>1, <2>2, <2>4, TakeType DEF FgetsContinues
  <2>5. CASE FgetsReturns
    <3>1. Take(line, NEWLINE) \in LineStates
      BY <2>1, TakeType DEF NEWLINE, Chars
    <3> QED
      BY <2>5, <3>1, TerminatedType DEF FgetsReturns
  <2>6. CASE CallGetchar \/ LeaveSpin \/ GetcharReturns
    BY <2>1, <2>6 DEF CallGetchar, LeaveSpin, GetcharReturns
  <2> QED
    BY <2>3, <2>4, <2>5, <2>6
<1>5. pc' \in {"idle", "getchar", "fgets", "getchar read", "fgets read"}
  BY DEF CallGetchar, CallFgets, ReadChar, LeaveSpin, GetcharReturns, FgetsContinues, FgetsReturns
<1> QED
  BY <1>1, <1>3, <1>4, <1>5 DEF ScreenInv, Program, LineStates
-----------------------------------------------------------------------------
(* Screen, buffer and line stay in step, for a console of any size.        *)
THEOREM ScreenInvariance == Spec => []ScreenInv
<1>1. ASSUME ScreenInv, [Next]_vars PROVE ScreenInv'
  <2>1. CASE CallPuts \/ CallPutchar \/ EnterConsole \/ PrintChar \/ ClearConsole \/ SetPosition
    BY <1>1, <2>1, OutputKeeps
  <2>2. CASE CallGetchar \/ CallFgets \/ LeaveSpin \/ GetcharReturns \/ FgetsContinues
             \/ FgetsReturns
    BY <1>1, <2>2, InputKeeps
  <2>3. CASE \E scanCode \in ScanCodes : KeyboardInterrupt(scanCode)
    BY <1>1, <2>3, InterruptKeeps
  <2>4. CASE UNCHANGED vars
    BY <1>1, <2>4 DEF vars, ScreenInv, Display, Input, Program
  <2> QED
    BY <1>1, <2>1, <2>2, <2>3, <2>4 DEF Next, Calls, Runs
<1> QED
  BY InitScreen, <1>1, PTL DEF Spec

(* The index of fgets stays at most one behind the array, and the cursor   *)
(* at most one behind the last column.                                     *)
THEOREM TypeCorrect == Spec => []TypeOK
<1>1. ScreenInv /\ IInv => TypeOK
  <2> SUFFICES ASSUME ScreenInv, IInv PROVE TypeOK
    OBVIOUS
  <2>1. unread \in Nat
    BY DEF IInv, OneEchoPerRead
  <2> QED
    BY <2>1 DEF ScreenInv, Display, Input, Program, Consoles, Cells, TypeOK
<1> QED
  BY <1>1, ScreenInvariance, Invariance, PTL

(* Console.c: the screen is what the buffer says, until the cursor is set. *)
THEOREM ScreenCorrect == Spec => []ScreenShowsBuffer
<1>1. ScreenInv => ScreenShowsBuffer
  <2> SUFFICES ASSUME ScreenInv, ~moved PROVE console.screen = Shown(console.buffer)
    BY DEF ScreenShowsBuffer
  <2>1. console \in Consoles /\ IsDrawn(console)
    BY DEF ScreenInv, Display
  <2>2. ASSUME NEW p \in Cells PROVE console.screen[p] = Drawn({}, console.buffer[p])
    <3>1. PICK x \in Columns, y \in Rows : p = <<x, y>>
      BY DEF Cells
    <3>2. Glyphs(console, x, y) = Drawn({}, Char(console, x, y))
      BY <2>1 DEF IsDrawn
    <3> QED
      BY <3>1, <3>2 DEF Glyphs, Char
  <2>3. console.screen = [p \in Cells |-> console.screen[p]] /\ DOMAIN console.buffer = Cells
    BY <2>1 DEF Consoles
  <2> QED
    BY <2>2, <2>3 DEF Shown
<1> QED
  BY <1>1, ScreenInvariance, PTL

(* Console_PutChar and the echo edit one line, which the last row shows.   *)
THEOREM LineCorrect == Spec => []BottomRowIsLine
<1>1. ScreenInv => BottomRowIsLine
  BY DEF ScreenInv, Display, HasLine, Char, BottomRowIsLine
<1> QED
  BY <1>1, ScreenInvariance, PTL

(* Wherever the cursor is set, only the last row shows glyphs over others. *)
THEOREM CoverCorrect == Spec => []OverdrawnOnlyInLastRow
<1>1. ScreenInv => OverdrawnOnlyInLastRow
  <2> SUFFICES ASSUME ScreenInv, NEW p \in Cells
               PROVE  LET shown == Shown(console.buffer)[p]
                      IN  \/ console.screen[p] = shown
                          \/ /\ p[2] = LastRow /\ shown # {}
                             /\ shown \subseteq console.screen[p]
    BY DEF OverdrawnOnlyInLastRow, Cells
  <2>1. PICK x \in Columns, y \in Rows : p = <<x, y>>
    BY DEF Cells
  <2>2. p[2] = y
    BY <2>1
  <2>3. Shown(console.buffer)[p] = Drawn({}, console.buffer[p])
    BY DEF ScreenInv, Display, Consoles, Shown
  <2>4. /\ Char(console, x, y) = console.buffer[p]
        /\ Glyphs(console, x, y) = console.screen[p]
    BY <2>1 DEF Char, Glyphs
  <2>5. IsCovered(console)
    BY DEF ScreenInv, Display
  <2> QED
    BY <2>2, <2>3, <2>4, <2>5 DEF IsCovered
<1> QED
  BY <1>1, ScreenInvariance, PTL
-----------------------------------------------------------------------------
(***************************************************************************)
(* The timer.  The argument about a sleep follows the deadline from the    *)
(* locals through xmm0 to the comparison, once for a sleep that was not    *)
(* interrupted (Whole) and once for one that lost its locals (Passed).     *)
(***************************************************************************)
(* What is stored as seconds is one time, not the sum of two. *)
Storable == sleeper = "store" => registers.xmm0 \in 0 .. MaxTime

(* The deadline is the one asked for. *)
Whole ==
  ~interrupted /\ sleeper # "idle" =>
    /\ handler = {}
    /\ sleeper = "store" => registers.xmm0 = asked
    /\ sleeper \in {"start", "deadline"} => locals.seconds = asked
    /\ sleeper = "deadline" => locals.startTime = TimeSinceBoot
    /\ sleeper \in {"time", "compare"} => registers.xmm0 = Plus(TimeSinceBoot, asked)
    /\ sleeper = "compare" => registers.xmm1 = TimeSinceBoot
    /\ asked # Overwritten

(* The deadline is lost and stands for a time that has passed. *)
Passed ==
  lost /\ sleeper \notin {"idle", "store"} =>
    /\ locals.seconds = Overwritten
    /\ sleeper # "start" => locals.startTime \in {0, Overwritten} \cup TickLength .. TimeSinceBoot
    /\ sleeper = "time" => registers.xmm0 <= TimeSinceBoot \/ TimeSinceBoot = 0
    /\ sleeper = "compare" => torn \/ registers.xmm0 <= registers.xmm1 \/ TimeSinceBoot = 0

OneHandler == handler = {} \/ handler = {Timer} \/ handler = {Keyboard}

TimerInv == TimerTypeOK /\ Storable /\ OneHandler /\ EachLineIsAcknowledged /\ Whole /\ Passed
-----------------------------------------------------------------------------
(* An end of interrupt in a handler ends the line of the handler. *)
LEMMA EndOfOnlyLine ==
  ASSUME NEW l \in Lines, inService = {l}, PIC_EndMaster
  PROVE  inService' = {}
<1>1. l <= l
  BY DEF Lines, Timer, Keyboard
<1>2. (CHOOSE x \in {l} : \A y \in {l} : x <= y) \in {l}
  BY <1>1
<1>3. Min({l}) = l
  BY <1>2 DEF Min
<1> QED
  BY <1>3 DEF PIC_EndMaster

(* The invariant holds after sti. *)
LEMMA TimerInitInv == TimerInit => TimerInv
<1> SUFFICES ASSUME TimerInit
             PROVE  TimerInv
  OBVIOUS
<1>1. TimeSinceBoot \in {0} \cup TickLength .. MaxTime /\ 0 \in 0 .. MaxTime /\ 0 \in Times
  BY TimeAssumption DEF TimerInit, Times
<1>2. TimerTypeOK
  BY <1>1 DEF TimerInit, TimerTypeOK
<1> QED
  BY <1>2 DEF TimerInit, TimerInv, Storable, OneHandler, EachLineIsAcknowledged, Whole, Passed

(* A line is raised. *)
LEMMA RaiseInv ==
  ASSUME TimerInv, NEW l \in Lines, Raise(l)
  PROVE  TimerInv'
  BY DEF TimerInv, TimerTypeOK, Storable, OneHandler, EachLineIsAcknowledged, Whole, Passed, Raise, program,
     history, Plus

(* An interrupt is delivered, over the locals of the program. *)
LEMMA DeliverInv ==
  ASSUME TimerInv, NEW l \in Lines, Deliver(l)
  PROVE  TimerInv'
<1> USE TimeAssumption DEF TimerInv, Deliver, Push
<1>1. TimerTypeOK' /\ Storable'
  BY DEF TimerTypeOK, Storable, Lines
<1>2. OneHandler' /\ EachLineIsAcknowledged' /\ Whole'
  BY DEF OneHandler, EachLineIsAcknowledged, Whole, Lines, Timer, Keyboard
<1>3. Passed'
  BY DEF Passed, TimerTypeOK
<1> QED
  BY <1>1, <1>2, <1>3

(* A tick. *)
LEMMA PITInterruptInv ==
  ASSUME TimerInv, PITInterrupt
  PROVE  TimerInv'
<1> USE TimeAssumption DEF TimerInv, PITInterrupt, program
<1>1. handler = {Timer} /\ inService' = {}
  BY EndOfOnlyLine DEF OneHandler, EachLineIsAcknowledged, Lines, Timer, Keyboard
<1>2. TimeSinceBoot' \in TickLength .. MaxTime /\ TimeSinceBoot <= TimeSinceBoot'
  BY DEF PIT_Tick, Bounded, TimerTypeOK
<1>3. registers' = [xmm0 |-> TimeSinceBoot', xmm1 |-> TickLength]
  BY DEF PIT_Tick
<1>4. elapsed' \in 0 .. MaxTime
  BY DEF Bounded, TimerTypeOK
<1>5. TimerTypeOK' /\ Storable'
  BY <1>1, <1>2, <1>3, <1>4 DEF TimerTypeOK, Times, Storable
<1>6. OneHandler' /\ EachLineIsAcknowledged' /\ Whole'
  BY <1>1 DEF OneHandler, EachLineIsAcknowledged, Whole
<1>7. Passed'
  <2> SUFFICES ASSUME lost, sleeper \notin {"idle", "store"}
               PROVE  Passed'
    BY DEF Passed
  <2>1. locals'.seconds = Overwritten
    BY DEF Passed
  <2>2. sleeper # "start" => locals'.startTime \in {0, Overwritten} \cup TickLength .. TimeSinceBoot'
    BY <1>2 DEF Passed, TimerTypeOK
  <2>3. registers'.xmm0 <= TimeSinceBoot'
    BY <1>2, <1>3
  <2>4. sleeper = "compare" => torn'
    OBVIOUS
  <2> QED
    BY <2>1, <2>2, <2>3, <2>4 DEF Passed
<1> QED
  BY <1>5, <1>6, <1>7

(* A key. *)
LEMMA KeyInterruptInv ==
  ASSUME TimerInv, KeyInterrupt
  PROVE  TimerInv'
<1> USE DEF TimerInv, KeyInterrupt, program, history
<1>1. handler = {Keyboard} /\ inService' = {}
  BY EndOfOnlyLine DEF OneHandler, EachLineIsAcknowledged, Lines, Timer, Keyboard
<1> QED
  BY <1>1 DEF TimerTypeOK, Storable, OneHandler, EachLineIsAcknowledged, Whole, Passed, Plus

(* The deadline is computed: of lost locals, one that has passed. *)
LEMMA LoadDeadlineInv ==
  ASSUME TimerInv, LoadDeadline
  PROVE  TimerInv'
<1> USE TimeAssumption DEF TimerInv, LoadDeadline, AddSeconds, controller, history
<1>1. registers'.xmm0 = Plus(locals.startTime, locals.seconds) /\ registers'.xmm1 = registers.xmm1
  BY DEF TimerTypeOK
<1>2. Plus(locals.startTime, locals.seconds) \in Times
  BY DEF TimerTypeOK, Plus, Times
<1>3. TimerTypeOK' /\ Storable'
  BY <1>2 DEF TimerTypeOK, Storable
<1>4. Whole' /\ OneHandler' /\ EachLineIsAcknowledged'
  BY <1>1 DEF Whole, Plus, OneHandler, EachLineIsAcknowledged
<1>5. lost => Plus(locals.startTime, locals.seconds) <= TimeSinceBoot \/ TimeSinceBoot = 0
  BY DEF Passed, Plus, TimerTypeOK
<1>6. Passed'
  BY <1>1, <1>5 DEF Passed
<1> QED
  BY <1>3, <1>4, <1>6

(* The other steps of the program. *)
LEMMA ProgramInv ==
  ASSUME TimerInv,
         CallSleepSeconds \/ StoreSeconds \/ StoreStartTime \/ LoadTime
           \/ SleepOn \/ Return \/ Halt
  PROVE  TimerInv'
<1> USE TimeAssumption DEF TimerInv, controller, history
<1>1. CASE CallSleepSeconds
  <2> USE <1>1 DEF CallSleepSeconds
  <2>0. registers' \in [xmm0 : Times, xmm1 : Times] /\ {asked', 0} \subseteq 0 .. MaxTime
    BY DEF TimerTypeOK, Times, Storable
  <2>1. TimerTypeOK' /\ Storable' /\ OneHandler' /\ EachLineIsAcknowledged'
    BY <2>0 DEF TimerTypeOK, Storable, OneHandler, EachLineIsAcknowledged
  <2>2. Whole'
    BY DEF Whole, TimerTypeOK, Plus
  <2>3. Passed'
    BY DEF Passed, TimerTypeOK, Times
  <2> QED
    BY <2>1, <2>2, <2>3
<1>2. CASE StoreSeconds
  <2> USE <1>2 DEF StoreSeconds
  <2>0. locals' \in [startTime : 0 .. MaxTime, seconds : 0 .. MaxTime]
    BY DEF TimerTypeOK, Times, Storable
  <2>1. TimerTypeOK' /\ Storable' /\ OneHandler' /\ EachLineIsAcknowledged'
    BY <2>0 DEF TimerTypeOK, Storable, OneHandler, EachLineIsAcknowledged
  <2>2. Whole'
    BY DEF Whole, TimerTypeOK, Plus
  <2>3. Passed'
    BY DEF Passed, TimerTypeOK, Times
  <2> QED
    BY <2>1, <2>2, <2>3
<1>3. CASE StoreStartTime
  <2> USE <1>3 DEF StoreStartTime
  <2>1. TimerTypeOK' /\ Storable' /\ OneHandler' /\ EachLineIsAcknowledged'
    BY DEF TimerTypeOK, Storable, OneHandler, EachLineIsAcknowledged, Times
  <2>2. Whole'
    BY DEF Whole, TimerTypeOK, Plus
  <2>3. Passed'
    BY DEF Passed, TimerTypeOK, Times
  <2> QED
    BY <2>1, <2>2, <2>3
<1>4. CASE LoadTime
  <2> USE <1>4 DEF LoadTime
  <2>0. registers' \in [xmm0 : Times, xmm1 : Times]
    BY DEF TimerTypeOK, Times, Storable
  <2>1. TimerTypeOK' /\ Storable' /\ OneHandler' /\ EachLineIsAcknowledged'
    BY <2>0 DEF TimerTypeOK, Storable, OneHandler, EachLineIsAcknowledged
  <2>2. Whole'
    BY DEF Whole, TimerTypeOK, Plus
  <2>3. Passed'
    BY DEF Passed, TimerTypeOK, Times
  <2> QED
    BY <2>1, <2>2, <2>3
<1>5. CASE SleepOn
  <2> USE <1>5 DEF SleepOn
  <2>1. TimerTypeOK' /\ Storable' /\ OneHandler' /\ EachLineIsAcknowledged'
    BY DEF TimerTypeOK, Storable, OneHandler, EachLineIsAcknowledged
  <2>2. Whole'
    BY DEF Whole, TimerTypeOK, Plus
  <2>3. Passed'
    BY DEF Passed, TimerTypeOK, IsEarly, Times
  <2> QED
    BY <2>1, <2>2, <2>3
<1>6. CASE Return
  <2> USE <1>6 DEF Return
  <2>1. TimerTypeOK' /\ Storable' /\ OneHandler' /\ EachLineIsAcknowledged'
    BY DEF TimerTypeOK, Storable, OneHandler, EachLineIsAcknowledged
  <2>2. Whole'
    BY DEF Whole, TimerTypeOK, Plus
  <2>3. Passed'
    BY DEF Passed, TimerTypeOK, IsEarly, Times
  <2> QED
    BY <2>1, <2>2, <2>3
<1>7. CASE Halt
  <2> USE <1>7 DEF Halt
  <2>1. TimerTypeOK' /\ Storable' /\ OneHandler' /\ EachLineIsAcknowledged'
    BY DEF TimerTypeOK, Storable, OneHandler, EachLineIsAcknowledged
  <2>2. Whole'
    BY DEF Whole, TimerTypeOK, Plus
  <2>3. Passed'
    BY DEF Passed, TimerTypeOK, IsEarly, Times
  <2> QED
    BY <2>1, <2>2, <2>3
<1> QED
  BY <1>1, <1>2, <1>3, <1>4, <1>5, <1>6, <1>7
-----------------------------------------------------------------------------
(* The inductive invariant holds throughout, for every length of a tick    *)
(* and every time asked for.                                               *)
THEOREM TimerInvariance == TimerSpec => []TimerInv
<1>1. TimerInv /\ [TimerNext]_timerVars => TimerInv'
  <2> SUFFICES ASSUME TimerInv, [TimerNext]_timerVars
               PROVE  TimerInv'
    OBVIOUS
  <2>1. CASE TimerNext
    BY <2>1, RaiseInv, DeliverInv, PITInterruptInv, KeyInterruptInv, LoadDeadlineInv,
       ProgramInv DEF TimerNext, Steps
  <2>2. CASE UNCHANGED timerVars
    BY <2>2 DEF timerVars, program, controller, history, TimerInv, TimerTypeOK, Storable, OneHandler,
       EachLineIsAcknowledged, Whole, Passed, Plus
  <2> QED
    BY <2>1, <2>2
<1> QED
  BY TimerInitInv, <1>1, PTL DEF TimerSpec

(* Times, lines and handlers keep their values, whatever a tick is.        *)
THEOREM TimerTypeCorrect == TimerSpec => []TimerTypeOK
<1>1. TimerInv => TimerTypeOK
  BY DEF TimerInv
<1> QED
  BY TimerInvariance, <1>1, PTL

(* KeyInterrupt and PITInterrupt leave no line in service behind.          *)
THEOREM AcknowledgementCorrect == TimerSpec => []EachLineIsAcknowledged
<1>1. TimerInv => EachLineIsAcknowledged
  BY DEF TimerInv
<1> QED
  BY TimerInvariance, <1>1, PTL

(* PIT_SleepSeconds returns early only if an interrupt came since the call. *)
THEOREM SleepCorrect == TimerSpec => EarlyOnlyIfInterrupted
<1>1. TimerInv /\ [TimerNext]_timerVars => [Return => elapsed >= asked \/ interrupted]_timerVars
  BY TimeAssumption DEF TimerInv, Whole, Plus, TimerTypeOK, Return, IsEarly, Times
<1> QED
  BY TimerInvariance, <1>1, PTL DEF TimerSpec, EarlyOnlyIfInterrupted

(* An interrupt that overwrites the locals of PIT_SleepSeconds ends it.    *)
THEOREM CutShort == TimerSpec => InterruptEndsSleep
<1>1. TimerInv /\ [TimerNext]_timerVars => [SleepOn /\ lost => torn \/ TimeSinceBoot = 0]_timerVars
  BY DEF TimerInv, Passed, TimerTypeOK, SleepOn, IsEarly, Times
<1> QED
  BY TimerInvariance, <1>1, PTL DEF TimerSpec, InterruptEndsSleep
=============================================================================
