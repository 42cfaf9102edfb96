------------------------------- MODULE Screen -------------------------------
(***************************************************************************)
(* The text screen, as memory: the kernel's boot screen (os/boot/boot.c)   *)
(* and the screen library (libraries/hardware/hwscreen.c), which share     *)
(* their code but for the ends of the areas they clear.                    *)
(*                                                                         *)
(* A cell is its character; colours are left out.  Behind the screen is a  *)
(* cell of somebody else's memory.  Strings are printed a character at a   *)
(* time, so that a string is a sequence of steps.                          *)
(***************************************************************************)
EXTENDS Integers

CONSTANTS
    Width, Height,              \* what the device says
    Glyphs, Space, Nothing,     \* characters: letters, the space, 0
    Foreign,                    \* what is in memory behind the screen
    LogoWidth, LogoHeight       \* OSLOGO_WIDTH, OSLOGO_HEIGHT

ASSUME ScreenAssumption ==
    /\ Width \in Nat \ {0, 1} /\ Height \in Nat \ {0}
    /\ LogoWidth \in 1 .. Width /\ LogoHeight \in 1 .. Height - 1
    /\ Space \notin Glyphs /\ Nothing \notin Glyphs \cup {Space}

VARIABLES
    screenLib,      \* "boot" or "hwscr"
    screenBuf,      \* uiInfo.buf, gScr.buffer: its cells and the one behind
    screenCursor    \* uiInfo.cursor, gCursor: the index of a cell

screenVars == <<screenLib, screenBuf, screenCursor>>

XYPtr(x, y) == y * Width + x

ScreenEnd == XYPtr(0, Height)

ScreenInit ==
    /\ screenLib \in {"boot", "hwscr"}
    /\ screenBuf = [i \in 0 .. ScreenEnd |-> IF i = ScreenEnd THEN Foreign ELSE Nothing]
    /\ screenCursor = XYPtr(0, 0)

\* memset from the first cell up to the first byte, the character, of the last.
AreaCleared(buf, first, last) ==
    [i \in DOMAIN buf |-> IF i \in first .. last THEN Nothing ELSE buf[i]]

\* memmove of the cells from the given line on to the start of the screen.
LinesMoved(buf, lines) ==
    [i \in DOMAIN buf |->
        IF i < Width * Height - lines * Width THEN buf[i + XYPtr(0, lines)] ELSE buf[i]]

\* Mutant: the last line keeps its text.
BootScrolledKeepsLast(buf, lines) == LinesMoved(buf, lines)

\* boot_ui_scroll clears to the last column of the last line ...
BootScrolled(buf, lines) ==
    AreaCleared(LinesMoved(buf, lines), XYPtr(0, Height - lines), XYPtr(Width - 1, Height - 1))

\* ... and hwscr_scroll to one column further.
HwscrScrolled(buf, lines) ==
    AreaCleared(LinesMoved(buf, lines), XYPtr(0, Height - lines), XYPtr(Width, Height - 1))

Scrolled(buf, lines) ==
    IF lines = 0 THEN buf
    ELSE IF screenLib = "boot" THEN BootScrolled(buf, lines) ELSE HwscrScrolled(buf, lines)

\* checkScroll: at the last cell the screen scrolls, with s = [buf, cursor].
ScrollChecked(s) ==
    IF s.cursor >= XYPtr(Width - 1, Height - 1)
    THEN [buf |-> Scrolled(s.buf, 1), cursor |-> XYPtr(0, Height - 1)]
    ELSE s

\* printChar, printStringHelper: a character, count times
PrintChar(s, ch, count) ==
    LET after[n \in 0 .. count] ==
            IF n = 0 THEN s
            ELSE LET t == ScrollChecked(after[n - 1])
                 IN  [buf |-> [t.buf EXCEPT ![t.cursor] = ch], cursor |-> t.cursor + 1]
    IN  after[count]

\* The cursor goes back, but not over the start, and stays before the space.
BackOver(s) ==
    LET to == [s EXCEPT !.cursor = IF @ - 1 < XYPtr(0, 0) THEN XYPtr(0, 0) ELSE @ - 1]
    IN  [PrintChar(to, Space, 1) EXCEPT !.cursor = @ - 1]

\* One turn of the loop of printString
Printed(s, ch) ==
    CASE ch = "TAB" -> PrintChar(s, Space, 4)
      [] ch = "NL"  -> ScrollChecked([s EXCEPT !.cursor = XYPtr(0, @ \div Width + 1)])
      [] ch = "CR"  -> [s EXCEPT !.cursor = XYPtr(0, @ \div Width)]
      [] ch = "BS"  -> BackOver(s)
      [] OTHER      -> PrintChar(s, ch, 1)

PrintString(ch) ==
    LET s == Printed([buf |-> screenBuf, cursor |-> screenCursor], ch)
    IN  /\ screenBuf' = s.buf /\ screenCursor' = s.cursor
        /\ UNCHANGED screenLib

-----------------------------------------------------------------------------
(***************************************************************************)
(* What only one of the two has                                            *)
(***************************************************************************)

\* boot_ui_clear leaves the cursor where it is.
BootClear ==
    /\ screenLib = "boot"
    /\ screenBuf' = [i \in DOMAIN screenBuf |-> IF i < ScreenEnd THEN Space ELSE screenBuf[i]]
    /\ UNCHANGED <<screenLib, screenCursor>>

\* boot_ui_displayOSLogo: cell i of the logo
DisplayOSLogo(ch) ==
    LET offset == (Width - LogoWidth) \div 2
        logo == {(i \div LogoWidth) * Width + (i % LogoWidth) + offset :
                    i \in 0 .. LogoWidth * LogoHeight - 1}
    IN  /\ screenLib = "boot"
        /\ screenBuf' = [i \in DOMAIN screenBuf |-> IF i \in logo THEN ch ELSE screenBuf[i]]
        /\ screenCursor' = XYPtr(0, LogoHeight)
        /\ UNCHANGED screenLib

HwscrClear ==
    /\ screenLib = "hwscr"
    /\ screenBuf' = [i \in DOMAIN screenBuf |-> IF i < ScreenEnd THEN Nothing ELSE screenBuf[i]]
    /\ screenCursor' = XYPtr(0, 0)
    /\ UNCHANGED screenLib

\* hwscr_clearArea, called with coordinates on the screen
HwscrClearArea(x1, y1, x2, y2) ==
    /\ screenLib = "hwscr"
    /\ screenBuf' = AreaCleared(screenBuf, XYPtr(x1, y1), XYPtr(x2, y2))
    /\ UNCHANGED <<screenLib, screenCursor>>

HwscrScroll(lines) ==
    /\ screenLib = "hwscr"
    /\ screenBuf' = Scrolled(screenBuf, lines)
    /\ UNCHANGED <<screenLib, screenCursor>>

\* hwscr_printCharAtXY, hwscr_printStringAtXY with a string that fits its line
HwscrPrintAtXY(x, y, n, ch) ==
    /\ screenLib = "hwscr"
    /\ screenBuf' = [i \in DOMAIN screenBuf |->
                        IF i \in XYPtr(x, y) .. XYPtr(x, y) + n - 1 THEN ch ELSE screenBuf[i]]
    /\ UNCHANGED <<screenLib, screenCursor>>

ScreenNext ==
    \/ \E ch \in Glyphs \cup {"TAB", "NL", "CR", "BS"} : PrintString(ch)
    \/ BootClear \/ HwscrClear
    \/ \E ch \in Glyphs : DisplayOSLogo(ch)
    \/ \E lines \in 0 .. Height : HwscrScroll(lines)
    \/ \E x1, x2 \in 0 .. Width - 1, y1, y2 \in 0 .. Height - 1 :
        XYPtr(x1, y1) <= XYPtr(x2, y2) /\ HwscrClearArea(x1, y1, x2, y2)
    \/ \E ch \in Glyphs, x \in 0 .. Width - 1, y \in 0 .. Height - 1 :
        \E n \in 1 .. Width - x : HwscrPrintAtXY(x, y, n, ch)

ScreenSpec == ScreenInit /\ [][ScreenNext]_screenVars

-----------------------------------------------------------------------------
(***************************************************************************)
(* Properties                                                              *)
(***************************************************************************)

Shown == INSTANCE Console WITH
    rows <- [p \in (0 .. Height - 1) \X (0 .. Width - 1) |-> screenBuf[XYPtr(p[2], p[1])]],
    row <- screenCursor \div Width,
    col <- screenCursor % Width

\* However text, lines, tabs and backspaces follow one another, the screen shows
\* what a console would, no line is lost or shown twice when it scrolls, and the
\* boot screen writes to no memory but its own.
ScreenIsConsole ==
    Shown!ConsoleSpec /\ [](screenLib = "boot" => screenBuf[ScreenEnd] = Foreign)

=============================================================================
