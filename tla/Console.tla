------------------------------ MODULE Console ------------------------------
(***************************************************************************)
(* What a text screen shows: rows of characters and a place to write at.   *)
(* Text that runs over the end of a row goes on in the next one, and at    *)
(* the bottom the rows move up; the last place of the bottom row stays     *)
(* empty, since the rows move up when it is reached.                       *)
(***************************************************************************)
EXTENDS Naturals

CONSTANTS
    Width, Height,      \* of the screen
    Glyphs,             \* the characters that are printed as they are
    Space, Nothing,     \* a space, and a place without a character
    LogoWidth, LogoHeight

VARIABLES
    rows,       \* of each place [row, col] its character, the top row is 0
    row, col    \* where the next character goes

consoleVars == <<rows, row, col>>

Places == (0 .. Height - 1) \X (0 .. Width - 1)

ConsoleInit ==
    /\ rows = [p \in Places |-> Nothing]
    /\ row = 0 /\ col = 0

\* The n top rows are gone, and there are n empty ones at the bottom.
MovedUp(r, n) ==
    [p \in Places |-> IF p[1] + n < Height THEN r[<<p[1] + n, p[2]>>] ELSE Nothing]

\* When the last place of the bottom row is reached, the rows move up.
Full(s) == s.row = Height - 1 /\ s.col = Width - 1
RoomMade(s) == IF Full(s) THEN MovedUp(s.rows, 1) ELSE s.rows
NextPlace(s) == IF Full(s) THEN <<Height - 1, 0>> ELSE <<s.row, s.col>>

\* One character more, with s = [rows, row, col].
Put(s, ch) ==
    LET at == NextPlace(s)
    IN  [rows |-> [RoomMade(s) EXCEPT ![at] = ch],
         row |-> IF at[2] = Width - 1 THEN at[1] + 1 ELSE at[1],
         col |-> (at[2] + 1) % Width]

Becomes(s) == rows' = s.rows /\ row' = s.row /\ col' = s.col

Now == [rows |-> rows, row |-> row, col |-> col]

Type(ch) == Becomes(Put(Now, ch))

Tab == Becomes(Put(Put(Put(Put(Now, Space), Space), Space), Space))

NewLine ==
    /\ IF row = Height - 1 THEN rows' = MovedUp(rows, 1) /\ row' = row
       ELSE rows' = rows /\ row' = row + 1
    /\ col' = 0

CarriageReturn == col' = 0 /\ UNCHANGED <<rows, row>>

\* The character before is taken back; at the first place there is none.
Backspace ==
    LET to == IF col > 0 THEN <<row, col - 1>>
              ELSE IF row > 0 THEN <<row - 1, Width - 1>> ELSE <<0, 0>>
    IN  Becomes([rows |-> [rows EXCEPT ![to] = Space], row |-> to[1], col |-> to[2]])

\* n characters in one row, wherever the text is
PutAt(p, n, ch) ==
    /\ rows' = [q \in Places |->
                  IF q[1] = p[1] /\ q[2] \in p[2] .. p[2] + n - 1 THEN ch ELSE rows[q]]
    /\ UNCHANGED <<row, col>>

Scroll(n) == rows' = MovedUp(rows, n) /\ UNCHANGED <<row, col>>

\* "Coordinates are inclusive, and x2/y2 needs to be after x1/y1 in memory"
\* (hwscreen.h): the places from p to q in reading order.
ClearArea(p, q) ==
    /\ rows' = [x \in Places |->
                  IF x[1] * Width + x[2] \in p[1] * Width + p[2] .. q[1] * Width + q[2]
                  THEN Nothing ELSE rows[x]]
    /\ UNCHANGED <<row, col>>

Clear == Becomes([rows |-> [p \in Places |-> Nothing], row |-> 0, col |-> 0])

Fill == rows' = [p \in Places |-> Space] /\ UNCHANGED <<row, col>>

\* The logo is in the middle of the top rows, and the text goes on below.
Logo(ch) ==
    LET left == (Width - LogoWidth) \div 2
    IN  Becomes([rows |-> [p \in Places |->
                             IF p[1] < LogoHeight /\ p[2] \in left .. left + LogoWidth - 1
                             THEN ch ELSE rows[p]],
                 row |-> LogoHeight, col |-> 0])

ConsoleNext ==
    \/ Tab \/ NewLine \/ CarriageReturn \/ Backspace \/ Clear \/ Fill
    \/ \E ch \in Glyphs :
        Type(ch) \/ Logo(ch) \/ \E p \in Places : \E n \in 1 .. Width - p[2] : PutAt(p, n, ch)
    \/ \E n \in 0 .. Height : Scroll(n)
    \/ \E p, q \in Places : ClearArea(p, q)

ConsoleSpec == ConsoleInit /\ [][ConsoleNext]_consoleVars

=============================================================================
