------------------------------- MODULE Screen -------------------------------
(***************************************************************************)
(* The text screen of boot/i386_fat.old/boot2.c: init_screen, clear_screen,*)
(* putchar and printf on a 16-bit index into the adapter's memory.  Text   *)
(* is a number of characters; a line is what one call of printf puts down, *)
(* and only its numbers are looked at.                                     *)
(***************************************************************************)
EXTENDS Integers, Sequences

CONSTANTS
    Modes,      \* the modes the BIOS may report
    Leftover    \* width and height before init_screen: nothing clears the bss

UINT16 == 65536

ASSUME ScreenAssumption ==
    /\ Modes \subseteq 0 .. 255
    /\ Leftover \subseteq 0 .. UINT16 - 1

VARIABLES
    mode,            \* system.vmode.mode
    buffer,          \* screen.buffer, 0 for NULL
    index, width, height,
    rows,            \* history: <<first, behind>> of every line, as indices
    shown            \* history: the numbers printed, as sequences of digits

screen == <<buffer, index, width, height>>
display == <<mode, screen, rows, shown>>

ScreenInit ==
    /\ mode \in Modes
    /\ buffer = 0 /\ index = 0
    /\ width \in Leftover /\ height \in Leftover
    /\ rows = <<>> /\ shown = <<>>

BufferOf(m) ==
    IF m > 16 THEN 0
    ELSE IF m >= 13 THEN \hA0000
    ELSE IF m >= 7 THEN \hB0000
    ELSE \hB8000

\* The switch has no default: other modes keep what width and height hold.
Listed == 0 .. 10 \cup 13 .. 16

\* As a slip the monochrome text mode is taken for a graphics mode.
WidthOfColour(m) ==
    IF m \in {0, 1} THEN 40
    ELSE IF m \in {2, 3} THEN 80
    ELSE IF m \in {4, 5, 9, 13} THEN 320
    ELSE IF m = 8 THEN 160
    ELSE 640

WidthOf(m) ==
    IF m \in {0, 1} THEN 40
    ELSE IF m \in {2, 3, 7} THEN 80
    ELSE IF m \in {4, 5, 9, 13} THEN 320
    ELSE IF m = 8 THEN 160
    ELSE 640

HeightOf(m) ==
    IF m \in {0, 1, 2, 3, 7} THEN 25
    ELSE IF m \in {15, 16} THEN 350
    ELSE 200

\* The loop of clear_screen compares a 16-bit index with this int: in the
\* larger graphics modes the index never gets there.
Cells == 2 * width * height

init_screen ==
    /\ index' = 0 /\ buffer' = BufferOf(mode)
    /\ width'  = IF mode \in Listed THEN WidthOf(mode) ELSE width
    /\ height' = IF mode \in Listed THEN HeightOf(mode) ELSE height
    /\ UNCHANGED <<mode, rows, shown>>

clear_screen ==
    /\ Cells < UINT16
    /\ index' = 0
    /\ UNCHANGED <<mode, buffer, width, height, rows, shown>>

-----------------------------------------------------------------------------
\* putchar n times: the index wraps at the end of the screen, or at the end of
\* its type once a newline has taken it past the end of the screen.
putchar(n, i) ==
    IF i < Cells THEN (i + 2 * n) % Cells
    ELSE IF i + 2 * n < UINT16 THEN i + 2 * n
    ELSE IF Cells = 0 THEN (i + 2 * n) % UINT16
    ELSE (i + 2 * n - UINT16) % Cells

\* '\r' and '\n'; the newline does not look for the end of the screen.
Return(i) == i - (i % (2 * width))

Newline(i) == (i + 2 * width) % UINT16

\* printul, printl and printx of a number that is not negative: nothing is
\* printed in front of the first digit, and 0 has one digit.
Digits(t, base) ==
    LET d[x \in Nat] == IF x = 0 THEN <<>> ELSE Append(d[x \div base], x % base)
    IN  IF t = 0 THEN <<0>> ELSE d[t]

Decimal(t) == Digits(t, 10)
printx(t)  == Digits(t, 16)

\* printf of a line with n characters of text and the given numbers, none, one
\* or two sequences of digits, and "\r\n" at its end.
LineLen(n, numbers) ==
    n + (IF Len(numbers) = 0 THEN 0
         ELSE IF Len(numbers) = 1 THEN Len(numbers[1])
         ELSE Len(numbers[1]) + Len(numbers[2]))

printf(n, numbers) ==
    LET len == LineLen(n, numbers)
    IN  /\ width > 0
        /\ index' = Newline(Return(putchar(len, index)))
        /\ rows' = Append(rows, <<index, index + 2 * len>>)
        /\ shown' = shown \o numbers
        /\ UNCHANGED <<mode, buffer, width, height>>

\* The division in '\r' traps when the width is 0.
printf_traps == width = 0 /\ UNCHANGED display

ScreenTypeOK ==
    /\ mode \in Modes
    /\ buffer \in {0, \hA0000, \hB0000, \hB8000}
    /\ index \in 0 .. UINT16 - 1
    /\ width \in 0 .. UINT16 - 1 /\ height \in 0 .. UINT16 - 1
=============================================================================
