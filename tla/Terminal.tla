------------------------------ MODULE Terminal ------------------------------
(***************************************************************************)
(* Standard input and output of an application: getchar, fgets, putchar    *)
(* and puts of lib/libc/src/stdio.c, over the interrupt-driven keyboard of *)
(* kernel/src/Drivers/Keyboard.c and the console of Console.               *)
(*                                                                         *)
(* There are two threads of control: the application, here the program, of *)
(* which pc says where it is, and the keyboard interrupt, which may come   *)
(* between any two steps of the program and runs to its end (the gate      *)
(* disables interrupts).  isRead is what synchronises them: the handler    *)
(* echoes a character and clears it, the program spins on it.              *)
(*                                                                         *)
(* A character is its code, a char that is a signed byte.                  *)
(***************************************************************************)
EXTENDS Console

CONSTANTS
  ScanCodes,     (* the scan codes the keyboard sends                     *)
  BeyondTable,   (* the byte behind ASCIIKeys, which scan code 58 reads   *)
  Texts,         (* the texts the program prints                          *)
  Positions,     (* the columns it sets the cursor to                     *)
  LineSize       (* the size of the array it calls fgets with             *)

ASSUME LineSizeAssumption == LineSize \in Nat \ {0}
ASSUME PositionsAssumption == Positions \subseteq 0 .. Width
ASSUME CharactersAssumption ==
  ScanCodes \subseteq Nat /\ BeyondTable \subseteq Int /\ Texts \subseteq Seq(Int)

VARIABLES
  keyboard,   (* KeyboardState                                            *)
  console,    (* Console, and the screen                                  *)
  pc,         (* where the program is                                     *)
  output,     (* what puts or putchar has yet to print                    *)
  line,       (* the string and index of fgets                            *)
  echo,       (* history: the latest character the handler echoed         *)
  unread,     (* history: characters echoed and not yet returned          *)
  typed,      (* history: the text in front of the cursor                 *)
  moved       (* history: whether the cursor has been set                 *)

vars == <<keyboard, console, pc, output, line, echo, unread, typed, moved>>

LeftShift  == 42
RightShift == 54
Released(scanCode) == scanCode + 128

(* Rows of the table as in the source; the code of a key with no character is 0. *)
ASCIIKeys ==
  <<0, 0, 49, 50, 51, 52, 53, 54, 55, 56, 57, 48, 45, 61, 0,
    0, 113, 119, 101, 114, 116, 121, 117, 105, 111, 112, 91, 93, 0,
    0, 97, 115, 100, 102, 103, 104, 106, 107, 108, 59, 39, 96,
    0, 92, 122, 120, 99, 118, 98, 110, 109, 44, 46, 47, 0,
    42, 0, 32>>

(* KeyboardTranslator: the characters it may return. *)
KeyboardTranslator(scanCode, upper) ==
  LET Key == IF scanCode < Len(ASCIIKeys) THEN {ASCIIKeys[scanCode + 1]} ELSE BeyondTable
  IN  IF scanCode > 58 THEN {0}
      ELSE IF scanCode = 28 THEN {NEWLINE}
      ELSE IF scanCode = 14 THEN {BACKSPACE}
      ELSE IF upper THEN {k - BLANK : k \in Key} ELSE Key

(* The text in front of the cursor after char: the reference for Console. *)
Edited(text, char) ==
  IF char = NEWLINE THEN <<>>
  ELSE IF char = BACKSPACE
  THEN IF text = <<>> THEN <<>> ELSE SubSeq(text, 1, Len(text) - 1)
  ELSE IF Len(text) >= Width THEN <<char>> ELSE Append(text, char)

(* A character reaches the console, from the program or from the handler. *)
Emit(char) ==
  /\ console' = Console_PutChar(console, char)
  /\ typed' = Edited(typed, char)
-----------------------------------------------------------------------------
(***************************************************************************)
(* The keyboard interrupt.                                                 *)
(***************************************************************************)
SetShift(scanCode) ==
  /\ scanCode \in {LeftShift, RightShift, Released(LeftShift), Released(RightShift)}
  /\ keyboard' = [keyboard EXCEPT
                    !.isLeftShift  = IF scanCode = LeftShift THEN TRUE
                                     ELSE IF scanCode = Released(LeftShift) THEN FALSE ELSE @,
                    !.isRightShift = IF scanCode = RightShift THEN TRUE
                                     ELSE IF scanCode = Released(RightShift) THEN FALSE ELSE @]
  /\ UNCHANGED <<console, typed, echo, unread>>

Echo(char) ==
  /\ Emit(char)
  /\ echo' = char
  /\ unread' = unread + 1

(* Mutants: the echo without a reader, and the flag left set. *)
OnPress_AlwaysEchoes(char) ==
  /\ keyboard' = [keyboard EXCEPT !.buffer = char, !.isRead = FALSE]
  /\ IF char # 0 THEN Echo(char) ELSE UNCHANGED <<console, typed, echo, unread>>

OnPress_KeepsFlag(char) ==
  /\ keyboard' = [keyboard EXCEPT !.buffer = char]
  /\ IF keyboard.isRead /\ char # 0 THEN Echo(char)
     ELSE UNCHANGED <<console, typed, echo, unread>>

(* Keyboard_OnPress: the buffer is written whether or not it is awaited. *)
OnPress(char) ==
  /\ keyboard' = [keyboard EXCEPT !.buffer = char,
                                  !.isRead = @ /\ char = 0]
  /\ IF keyboard.isRead /\ char # 0 THEN Echo(char)
     ELSE UNCHANGED <<console, typed, echo, unread>>

KeyboardHandler(scanCode) ==
  \/ SetShift(scanCode)
  \/ /\ scanCode \notin {LeftShift, RightShift}
     /\ scanCode < 128
     /\ \E char \in KeyboardTranslator(scanCode,
                      keyboard.isLeftShift \/ keyboard.isRightShift) :
          OnPress(char)

KeyboardInterrupt(scanCode) ==
  /\ KeyboardHandler(scanCode)
  /\ UNCHANGED <<pc, output, line, moved>>
-----------------------------------------------------------------------------
(***************************************************************************)
(* The program.                                                            *)
(***************************************************************************)
NoLine == [text |-> [i \in 0 .. (LineSize - 1) |-> 0], index |-> 0, overrun |-> FALSE]

(* puts prints the text and then starts a new line; putchar one character. *)
CallPuts ==
  /\ pc = "idle"
  /\ \E text \in Texts : output' = Append(text, NEWLINE)
  /\ pc' = "print"
  /\ UNCHANGED <<keyboard, console, line, echo, unread, typed, moved>>

CallPutchar ==
  /\ pc = "idle"
  /\ \E text \in Texts : text # <<>> /\ output' = <<Head(text)>>
  /\ pc' = "print"
  /\ UNCHANGED <<keyboard, console, line, echo, unread, typed, moved>>

EnterConsole ==
  /\ pc = "print" /\ output # <<>>
  /\ pc' = "console"
  /\ UNCHANGED <<keyboard, console, output, line, echo, unread, typed, moved>>

PrintChar ==
  /\ pc = "console"
  /\ Emit(Head(output))
  /\ output' = Tail(output)
  /\ pc' = IF output' = <<>> THEN "idle" ELSE "print"
  /\ UNCHANGED <<keyboard, line, echo, unread, moved>>

ClearConsole ==
  /\ pc = "idle"
  /\ console' = Console_Clear(console)
  /\ typed' = [i \in 1 .. Len(typed) |-> BLANK]
  /\ UNCHANGED <<keyboard, pc, output, line, echo, unread, moved>>

SetPosition ==
  /\ pc = "idle"
  /\ \E x \in Positions : console' = Console_SetPosition(console, x)
  /\ moved' = TRUE
  /\ UNCHANGED <<keyboard, pc, output, line, echo, unread, typed>>

(* getc(stdin) is KeyboardReadChar: set isRead, spin, read the buffer. *)
ReadChar(waiting) ==
  /\ keyboard' = [keyboard EXCEPT !.isRead = TRUE]
  /\ pc' = waiting
  /\ UNCHANGED <<console, output, echo, unread, typed, moved>>

CallGetchar == pc = "idle" /\ ReadChar("getchar") /\ UNCHANGED line

CallFgets == pc = "idle" /\ ReadChar("fgets") /\ line' = NoLine

Waiting == pc \in {"getchar", "fgets"}
Reading == pc \in {"getchar read", "fgets read"}

(* Mutant: the flag is not volatile, and the loop tests the copy it read first. *)
LeaveSpin_Hoisted == FALSE /\ UNCHANGED vars

LeaveSpin ==
  /\ Waiting /\ ~keyboard.isRead
  /\ pc' = IF pc = "getchar" THEN "getchar read" ELSE "fgets read"
  /\ UNCHANGED <<keyboard, console, output, line, echo, unread, typed, moved>>

GetcharReturns ==
  /\ pc = "getchar read"
  /\ pc' = "idle"
  /\ unread' = unread - 1
  /\ UNCHANGED <<keyboard, console, output, line, echo, typed, moved>>

(* string[index] = char *)
Store(l, char) ==
  IF l.index < LineSize THEN [l EXCEPT !.text[l.index] = char]
                        ELSE [l EXCEPT !.overrun = TRUE]

(* One turn of the loop of fgets, after getc. *)
Take(l, char) ==
  LET back == IF char = BACKSPACE /\ l.index > 0
              THEN [Store(l, 0) EXCEPT !.index = @ - 1] ELSE l
  IN  IF back.index # LineSize
      THEN [Store(back, char) EXCEPT !.index = @ + 1] ELSE back

Terminated(l) == IF l.index # LineSize THEN Store(l, 0) ELSE l

FgetsContinues ==
  /\ pc = "fgets read" /\ keyboard.buffer # NEWLINE
  /\ line' = Take(line, keyboard.buffer)
  /\ keyboard' = [keyboard EXCEPT !.isRead = TRUE]
  /\ pc' = "fgets"
  /\ unread' = unread - 1
  /\ UNCHANGED <<console, output, echo, typed, moved>>

FgetsReturns ==
  /\ pc = "fgets read" /\ keyboard.buffer = NEWLINE
  /\ line' = Terminated(Take(line, NEWLINE))
  /\ pc' = "idle"
  /\ unread' = unread - 1
  /\ UNCHANGED <<keyboard, console, output, echo, typed, moved>>

Calls == CallPuts \/ CallPutchar \/ ClearConsole \/ SetPosition \/ CallGetchar \/ CallFgets

(* The steps that the processor takes of itself. *)
Runs ==
  EnterConsole \/ PrintChar \/ LeaveSpin \/ GetcharReturns \/ FgetsContinues \/ FgetsReturns
-----------------------------------------------------------------------------
Init ==
  /\ keyboard = [isLeftShift |-> FALSE, isRightShift |-> FALSE,
                 isRead |-> FALSE, buffer |-> 0]
  /\ console = Console_Init
  /\ pc = "idle"
  /\ output = <<>>
  /\ line = NoLine
  /\ echo = 0
  /\ unread = 0
  /\ typed = <<>>
  /\ moved = FALSE

Next ==
  \/ Calls
  \/ Runs
  \/ \E scanCode \in ScanCodes : KeyboardInterrupt(scanCode)

Spec == Init /\ [][Next]_vars

(***************************************************************************)
(* The processor runs on, whatever the interrupts, and the user presses a  *)
(* key that has a character for as long as that changes anything: only     *)
(* keys can end the spin of KeyboardReadChar.                              *)
(***************************************************************************)
HasCharacter(scanCode) ==
  \A upper \in BOOLEAN : 0 \notin KeyboardTranslator(scanCode, upper)

Fairness ==
  /\ WF_vars(Runs)
  /\ WF_vars(\E scanCode \in ScanCodes :
               HasCharacter(scanCode) /\ KeyboardInterrupt(scanCode))

FairSpec == Spec /\ Fairness
-----------------------------------------------------------------------------
(***************************************************************************)
(* Properties.                                                             *)
(***************************************************************************)
Chars == Int

(* Types, and: the cursor is at most one column behind the last, and the    *)
(* index of fgets at most one behind the array.                            *)
TypeOK ==
  /\ keyboard \in [isLeftShift : BOOLEAN, isRightShift : BOOLEAN,
                   isRead : BOOLEAN, buffer : Chars]
  /\ console \in [x : 0 .. Width, buffer : [Columns \X Rows -> Chars],
                  screen : [Columns \X Rows -> SUBSET Chars]]
  /\ pc \in {"idle", "print", "console", "getchar", "fgets", "getchar read", "fgets read"}
  /\ output \in Seq(Chars)
  /\ line \in [text : [0 .. (LineSize - 1) -> Chars], index : 0 .. LineSize,
               overrun : BOOLEAN]
  /\ echo \in Chars /\ unread \in Nat /\ typed \in Seq(Chars) /\ moved \in BOOLEAN

(* The console has no lock: it is safe only because the handler of         *)
(* Keyboard_OnPress writes to it while the program spins in                *)
(* KeyboardReadChar, never in the middle of the program's Console_PutChar. *)
EchoesOnlyIntoSpin ==
  [][(\E scanCode \in ScanCodes : KeyboardInterrupt(scanCode)) /\ console' # console
       => Waiting]_vars

(* Every call of KeyboardReadChar is answered by exactly one echo: the     *)
(* handler echoes once and clears isRead, whichever keys follow, before    *)
(* the program has seen it or after.                                       *)
OneEchoPerRead ==
  unread = IF Reading \/ (Waiting /\ ~keyboard.isRead) THEN 1 ELSE 0

(* As long as the cursor is not set, scrolling, deleting and clearing keep *)
(* what is drawn equal to Console.buffer, although a glyph is drawn over   *)
(* the one below it without removing it.                                   *)
ScreenShowsBuffer == moved \/ console.screen = Shown(console.buffer)

(* Setting the cursor over text leaves glyphs drawn over one another, but  *)
(* only until the row scrolls: above the last row the screen shows the     *)
(* buffer, and in it at least the glyph of the buffer, and of a blank none. *)
OverdrawnOnlyInLastRow ==
  \A p \in Columns \X Rows :
    LET shown == Shown(console.buffer)[p]
    IN  \/ console.screen[p] = shown
        \/ p[2] = LastRow /\ shown # {} /\ shown \subseteq console.screen[p]

(* As long as the cursor is not set, the last row holds the line edited so *)
(* far, by the program and by the user at the keyboard, with the cursor at *)
(* its end, and nothing behind the cursor.                                 *)
BottomRowIsLine ==
  \/ moved
  \/ /\ console.x = Len(typed)
     /\ \A x \in Columns :
          console.buffer[x, LastRow] = IF x < Len(typed) THEN typed[x + 1] ELSE BLANK

(* KeyboardReadChar returns: no echo is lost to a spin that goes on.       *)
GetcReturns == Waiting ~> Reading

(* getc returns the character that the handler echoed for it.              *)
GetcReturnsEcho == Reading => keyboard.buffer = echo
=============================================================================
