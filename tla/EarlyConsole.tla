---------------------------- MODULE EarlyConsole ----------------------------
(***************************************************************************)
(* kernel/printk.c: text on the frame buffer before any driver runs, one   *)
(* character per step.  Of a character only its class matters: "newline",  *)
(* "space" (nothing is drawn) or "glyph" (a block of 5 by 7 pixels).       *)
(***************************************************************************)
EXTENDS Integers, Sequences, FiniteSets

CONSTANTS Screens,   \* frame buffers of the boot information: width, height,
                     \* and whether 32 bits deep with a base
          Texts,     \* what callers print
          PanicTitle, PanicReason

\* A glyph fits beside the panic's margin, and one line on the screen.
ASSUME ScreenSizes ==
    /\ Screens \subseteq [width : Nat, height : Nat, usable : BOOLEAN]
    /\ \A s \in Screens : s.usable => s.width > 31 /\ s.height > 8
    /\ Texts \cup {PanicTitle, PanicReason}
          \subseteq Seq({"newline", "space", "glyph"})

VARIABLES screen,      \* the frame buffer the console took over
          usable,      \* console_fb is set
          cursor_x, cursor_y,
          printing,    \* what early_puts has still to draw
          glyphs       \* (history) the corners of the glyphs on the screen,
                       \* since it was last filled or the cursor went back up

conVars == <<screen, usable, cursor_x, cursor_y, printing, glyphs>>

NoScreen == [width |-> 0, height |-> 0, usable |-> FALSE]

ConsoleStart ==
    /\ screen = NoScreen /\ usable = FALSE
    /\ cursor_x = 0 /\ cursor_y = 0 /\ printing = <<>> /\ glyphs = <<>>

\* Without a 32 bit frame buffer nothing is set, and nothing will show.
EarlyConsoleInit(s) ==
    /\ IF s.usable
       THEN screen' = s /\ usable' = TRUE /\ cursor_x' = 16 /\ cursor_y' = 16
       ELSE UNCHANGED <<screen, usable, cursor_x, cursor_y>>
    /\ UNCHANGED <<printing, glyphs>>

\* printk prints its format as it is.
EarlyPuts(text) ==
    /\ printing' = text
    /\ UNCHANGED <<screen, usable, cursor_x, cursor_y, glyphs>>

Printing == printing # <<>>

DrawNewline ==
    /\ Printing
    /\ Head(printing) = "newline"
    /\ cursor_x' = 0
    /\ cursor_y' = cursor_y + 10
    /\ printing' = Tail(printing)
    /\ UNCHANGED <<screen, usable, glyphs>>

\* Slip: the end of the line is tested with the width of the glyph only.
DrawChar_late ==
    /\ Printing
    /\ Head(printing) # "newline"
    /\ LET wraps == cursor_y + 8 >= screen.height
           x == IF wraps THEN 0 ELSE cursor_x
           y == IF wraps THEN 0 ELSE cursor_y
           shown == IF wraps THEN <<>> ELSE glyphs
           full == x + 7 >= screen.width
       IN  /\ glyphs' = IF usable /\ Head(printing) = "glyph"
                        THEN Append(shown, <<x, y>>) ELSE shown
           /\ cursor_x' = IF full THEN 0 ELSE x + 7
           /\ cursor_y' = IF full THEN y + 10 ELSE y
    /\ printing' = Tail(printing)
    /\ UNCHANGED <<screen, usable>>

\* Past the last line the text goes on at the top, over what is there.
DrawChar ==
    /\ Printing
    /\ Head(printing) # "newline"
    /\ LET wraps == cursor_y + 8 >= screen.height
           x == IF wraps THEN 0 ELSE cursor_x
           y == IF wraps THEN 0 ELSE cursor_y
           shown == IF wraps THEN <<>> ELSE glyphs
           full == x + 7 + 7 >= screen.width
       IN  /\ glyphs' = IF usable /\ Head(printing) = "glyph"
                        THEN Append(shown, <<x, y>>) ELSE shown
           /\ cursor_x' = IF full THEN 0 ELSE x + 7
           /\ cursor_y' = IF full THEN y + 10 ELSE y
    /\ printing' = Tail(printing)
    /\ UNCHANGED <<screen, usable>>

\* The screen is filled, then the title and the reason are printed.
KernelPanic ==
    /\ cursor_x' = 24 /\ cursor_y' = 24
    /\ printing' = PanicTitle \o PanicReason
    /\ glyphs' = <<>>
    /\ UNCHANGED <<screen, usable>>

PrintStep == DrawNewline \/ DrawChar

\* The corners of two glyphs that share a pixel.
Overlap(a, b) ==
    /\ a[1] < b[1] + 5 /\ b[1] < a[1] + 5
    /\ a[2] < b[2] + 7 /\ b[2] < a[2] + 7

(***************************************************************************)
(* Every character printed is wholly on the screen, and none is drawn over *)
(* an earlier one before the text has gone back to the top: the cursor's   *)
(* three rules (the line's end, a newline, the screen's end) and the two   *)
(* places that set it (the start and the panic) agree.                     *)
(***************************************************************************)
ScreenText ==
    /\ \A i \in DOMAIN glyphs :
          /\ glyphs[i][1] + 5 <= screen.width
          /\ glyphs[i][2] + 7 <= screen.height
    /\ \A i, j \in DOMAIN glyphs : i # j => ~Overlap(glyphs[i], glyphs[j])
=============================================================================
