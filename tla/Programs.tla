------------------------------ MODULE Programs ------------------------------
(***************************************************************************)
(* The native C and C++ programs: the kernel starts one, and it has the    *)
(* machine until it returns, while the kernel's interrupt handlers go on.  *)
(* The game of the DOOM port calls its machine side, the C library's heap, *)
(* its copying routines and its string routines; program says which of     *)
(* them a run looks at, for their states have nothing in common.           *)
(***************************************************************************)
EXTENDS DoomPort, Dashboard, DoomLibc, DoomStrings

CONSTANTS Kinds,          \* what a run looks at
          FrameBuffers,   \* the screens of each: width, height, base (usable)
          Rects           \* the rectangles a canvas is asked to fill

ASSUME ProgramValues ==
    /\ Kinds \subseteq {"doom", "frames", "dashboard", "gui", "canvas",
                       "heap", "copies", "strings"}
    /\ FrameBuffers \in [Kinds ->
          SUBSET [width : Nat \ {0}, height : Nat \ {0}, base : BOOLEAN]]
    /\ Rects \subseteq [x : Int, y : Int, w : Int, h : Int]

VARIABLES program, fb

vars == <<portVars, doomVars, dashVars, libcVars, stringVars, program, fb>>

-----------------------------------------------------------------------------
NoStrings == left = <<>> /\ right = <<>> /\ limit = 0

Init ==
    /\ program \in Kinds /\ fb \in FrameBuffers[program]
    /\ PortInit /\ DoomInit /\ LibcInit
    /\ IF program = "dashboard" THEN DashboardInit(fb)
       ELSE /\ dash = "returned" /\ asked = NoRect /\ painted = <<Empty, Empty>>
            /\ drawing = IF program = "gui" THEN GuiPicture(fb) ELSE <<>>
    /\ program = "copies" \/ mem = [a \in Addresses |-> 0]
    /\ IF program = "strings" THEN StringsInit ELSE NoStrings

\* What is left alone while one part runs.
Same == UNCHANGED <<program, fb>>
NoDoom == UNCHANGED doomVars
NoDash == UNCHANGED dashVars
NoLibc == UNCHANGED <<libcVars, stringVars>>
NoPort == UNCHANGED portVars

Doom == program = "doom" /\ DoomNext(fb) /\ NoDash /\ NoLibc /\ Same

\* DOOM's picture alone, on more screens.
DoomFrames ==
    /\ program = "frames" /\ (DG_DrawFrame(fb) \/ PollStatus)
    /\ NoDash /\ NoLibc /\ Same

Dashboard_start ==
    program = "dashboard" /\ DashboardNext(fb) /\ NoDoom /\ NoLibc /\ Same

GuiDraws ==
    /\ program = "gui" /\ FillNext(fb) /\ UNCHANGED dash
    /\ NoPort /\ NoDoom /\ NoLibc /\ Same

\* Any program of gui/ fills any rectangle of its canvas.
CanvasFills ==
    /\ program = "canvas" /\ (\E r \in Rects : Fill(fb, r)) /\ UNCHANGED <<dash, drawing>>
    /\ NoPort /\ NoDoom /\ NoLibc /\ Same

LibraryHeap ==
    /\ program = "heap" /\ Heap /\ UNCHANGED stringVars
    /\ NoPort /\ NoDoom /\ NoDash /\ Same

LibraryCopies ==
    /\ program = "copies" /\ (CopyCalls \/ CopyLoops) /\ UNCHANGED <<mallocVars, stringVars>>
    /\ NoPort /\ NoDoom /\ NoDash /\ Same

Next ==
    \/ Doom \/ DoomFrames \/ Dashboard_start \/ GuiDraws \/ CanvasFills
    \/ LibraryHeap \/ LibraryCopies

\* A program runs on between interrupts; the game may stop asking for keys, but
\* poll_ps2 and DG_SleepMs go on once they are entered.
Fairness ==
    /\ WF_vars(program = "doom" /\ PollStep /\ NoDash /\ NoLibc /\ Same)
    /\ WF_vars(program = "dashboard" /\ DashboardStep(fb) /\ NoDoom /\ NoLibc /\ Same)

Spec == Init /\ [][Next]_vars
FairSpec == Spec /\ Fairness

-----------------------------------------------------------------------------
(***************************************************************************)
(* BytesAccounted, of DoomPort: a byte of the devices reaches the game,    *)
(* waits, or was taken by a handler of the kernel, while the port runs.    *)
(***************************************************************************)
DoomBytesAccounted == program = "doom" => BytesAccounted

(***************************************************************************)
(* What is painted is what was asked for, as far as the screen reaches: a  *)
(* rectangle of the dashboard or of a canvas, and a frame of DOOM on a     *)
(* screen smaller or larger than the game's picture.                       *)
(***************************************************************************)
PaintedRight ==
    /\ program \in {"dashboard", "gui", "canvas"} => RectsClipped(fb)
    /\ program \in {"doom", "frames"} => FrameRight(fb)

(***************************************************************************)
(* The C library of the DOOM port copies, compares and searches as C says, *)
(* except that strchr and strrchr never find the terminator.               *)
(***************************************************************************)
LibraryExact == CopiesExact /\ OrdersExact /\ SearchesExact
=============================================================================
