------------------------------ MODULE Painting ------------------------------
(***************************************************************************)
(* Filled rectangles and text in a frame buffer, as the native programs    *)
(* draw them: rect, text and draw_dashboard of apps/system/system.cpp, and *)
(* Canvas::fill, draw_text and the parts of the desktop of gui/.  Of a     *)
(* picture the rectangles matter, not the colours.                         *)
(***************************************************************************)
EXTENDS Integers, Sequences

VARIABLES drawing,   \* the rectangles a routine has still to fill
          asked,     \* (history) the rectangle filled last, as it was asked for
          painted    \* (history) the spans of pixels that got its colour

paintVars == <<drawing, asked, painted>>

Rect(x, y, w, h) == [x |-> x, y |-> y, w |-> w, h |-> h]
NoRect == Rect(0, 0, 0, 0)
Empty == [from |-> 0, count |-> 0]

PaintInit == drawing = <<>> /\ asked = NoRect /\ painted = <<Empty, Empty>>

-----------------------------------------------------------------------------
\* Slip: what lies left of zero is not taken off the length.
Clip_keeps_length(from, count, limit) ==
    LET start == IF from < 0 THEN 0 ELSE from
    IN  [from |-> start, count |-> IF start + count > limit THEN limit - start ELSE count]

\* One axis of a rectangle: cut at zero first, then at the limit.
Clip(from, count, limit) ==
    LET start == IF from < 0 THEN 0 ELSE from
        left == IF from < 0 THEN count + from ELSE count
    IN  [from |-> start, count |-> IF start + left > limit THEN limit - start ELSE left]

\* rect and Canvas::fill: nothing is painted when either span is empty, nor
\* without a frame buffer of 32 bits.
Fill(fb, r) ==
    LET across == Clip(r.x, r.w, fb.width)
        down == Clip(r.y, r.h, fb.height)
    IN  /\ asked' = r
        /\ painted' = IF ~fb.base \/ across.count <= 0 \/ down.count <= 0
                      THEN <<Empty, Empty>> ELSE <<across, down>>

FillNext(fb) ==
    /\ drawing # <<>>
    /\ Fill(fb, Head(drawing))
    /\ drawing' = Tail(drawing)

-----------------------------------------------------------------------------
(* Text: one box per character; the dots of a glyph are taken for the box *)
(* they lie in.                                                            *)

\* text: glyphs of 10 by 14 pixels, 12 apart; a space takes 10.
TextBoxes(x, y, chars) ==
    LET Advance(c) == IF c = "space" THEN 10 ELSE 12
        at[i \in 1 .. Len(chars)] ==
            IF i = 1 THEN x ELSE at[i - 1] + Advance(chars[i - 1])
    IN  [i \in 1 .. Len(chars) |->
            IF chars[i] = "space" THEN NoRect ELSE Rect(at[i], y, 10, 14)]

\* gui/libgfx/font.cpp: boxes of 5 by 7, 7 apart.
draw_text(x, y, length) == [i \in 1 .. length |-> Rect(x + (i - 1) * 7, y, 5, 7)]

\* A line of the dashboard: one glyph for each letter, spaces between words.
Word(n) == [i \in 1 .. n |-> "glyph"]
Words(a, b) == Word(a) \o <<"space">> \o Word(b)

draw_dashboard(fb) ==
    << Rect(0, 0, fb.width, fb.height), Rect(0, 0, fb.width, 42) >>
    \o TextBoxes(24, 14, Words(6, 6))
    \o << Rect(64, 90, 896, 520), Rect(64, 90, 8, 520) >>
    \o TextBoxes(104, 126, Words(3, 6) \o <<"space">> \o Word(3))
    \o TextBoxes(104, 176, Words(11, 2))
    \o TextBoxes(104, 216, Words(3, 5) \o <<"space">> \o Word(2))
    \o TextBoxes(104, 256, Words(12, 4))
    \o TextBoxes(104, 330, Words(5, 3) \o <<"space">> \o Words(2, 6))
    \o << Rect(104, 420, 720, 26), Rect(104, 420, 520, 26) >>
    \o TextBoxes(126, 426, Words(6, 6))

-----------------------------------------------------------------------------
(* gui/: the parts of the desktop on a canvas *)

Compositor_frame(fb) == Rect(0, 0, fb.width, fb.height)
draw_menubar(fb) == Rect(0, 0, fb.width, 28)
draw_dock(fb) == Rect((fb.width \div 2) - 220, fb.height - 74, 440, 54)
draw_mission_control(fb) == Rect(40, 40, fb.width - 80, fb.height - 80)
draw_notification(fb) == Rect(fb.width - 340, 48, 300, 86)
draw_spotlight(fb) == Rect((fb.width \div 2) - 260, 110, 520, 58)

GuiPicture(fb) ==
    << Compositor_frame(fb), draw_menubar(fb), draw_dock(fb),
       draw_mission_control(fb), draw_notification(fb), draw_spotlight(fb) >>
    \o draw_text(fb.width - 12, 8, 3)

-----------------------------------------------------------------------------
Places(from, count) == from .. from + count - 1

(***************************************************************************)
(* What is painted of a rectangle is its intersection with the screen,     *)
(* also when it begins left of or above it, ends outside on both sides, or *)
(* has no or a negative size: never a pixel outside, never one too few.    *)
(***************************************************************************)
RectsClipped(fb) ==
    LET across == Places(asked.x, asked.w) \cap (0 .. fb.width - 1)
        down == Places(asked.y, asked.h) \cap (0 .. fb.height - 1)
    IN  IF ~fb.base \/ across = {} \/ down = {} THEN painted = <<Empty, Empty>>
        ELSE /\ Places(painted[1].from, painted[1].count) = across
             /\ Places(painted[2].from, painted[2].count) = down
=============================================================================
