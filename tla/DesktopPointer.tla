--------------------------- MODULE DesktopPointer ----------------------------
(***************************************************************************)
(* What the desktop does with the mouse.  In every pass of the main loop   *)
(* seven handlers look at the button and the pointer, one after the other, *)
(* while the interrupt goes on changing both (the left button is modelled; *)
(* the others open and close nothing).  Each keeps its own copy of the     *)
(* button to tell a press from a hold, and updates it only while its       *)
(* panel is open.  Rectangles and clicks overlap: a handler does not stop  *)
(* the next ones, except apps_handle_mouse, which stops the desktop's.     *)
(***************************************************************************)
EXTENDS Panels

CONSTANTS
  Width, Height,  \* fb_width, fb_height
  Points          \* where the pointer may be

ASSUME ScreenAssumption ==
  /\ Width \in Nat /\ Height \in Nat /\ Width >= 760 /\ Height >= 500
  /\ \A p \in Points : /\ DOMAIN p = {1, 2}
                       /\ p[1] \in 0 .. Width - 1 /\ p[2] \in 0 .. Height - 1

VARIABLES
  button,           \* bit 0 of mouse_buttons
  at,               \* mouse_x and mouse_y while the button is held: no
                    \* handler looks at them otherwise
  last,             \* the handlers' copies of the button
  dragging, drag_off,
  window,           \* where the console's window is
  handled           \* what apps_handle_mouse returned in this pass

pointer == <<button, at, last, dragging, drag_off, window, handled>>

Handlers == {"wm", "doom", "textviewer", "files", "discord", "apps", "desktop"}

(* The press that finished the installer may still be held.                *)
Away == <<0, 0>>
PointerInit ==
  /\ \/ button = FALSE /\ at = Away
     \/ button = TRUE /\ at \in Points
  /\ last = [h \in Handlers |-> FALSE]
  /\ dragging = FALSE /\ drag_off = <<0, 0>>
  /\ window = <<260, 120>> /\ handled = FALSE

X == at[1]
Y == at[2]
In(x1, x2, y1, y2) == x1 <= X /\ X <= x2 /\ y1 <= Y /\ Y <= y2

(* A handler takes a press it has not seen; whatever the button is, it     *)
(* remembers it.                                                           *)
Pressed(h) == button /\ ~last[h]
Remember(h) == last' = [last EXCEPT ![h] = button]

(* wm_handle_input: the red box closes the console, its title bar drags    *)
(* it, and neither asks whether it is on the screen.  A window is kept     *)
(* right of the left edge and below the menu bar.                          *)
(* Slip: the window may be dragged off the screen.                          *)
AtLeast_any(n, low) == n
AtLeast(n, low) == IF n < low THEN low ELSE n
CloseBox == In(window[1] + 12, window[1] + 25, window[2] + 11, window[2] + 24)
TitleBar == In(window[1], window[1] + 759, window[2], window[2] + 25)

wm_handle_input ==
  /\ Remember("wm")
  /\ \/ /\ Pressed("wm") /\ CloseBox
        /\ console_visible' = FALSE /\ dragging' = FALSE
        /\ UNCHANGED <<drag_off, window>>
     \/ /\ button /\ ~(Pressed("wm") /\ CloseBox) /\ dragging
        /\ window' = <<AtLeast(X - drag_off[1], 0), AtLeast(Y - drag_off[2], 28)>>
        /\ UNCHANGED <<console_visible, dragging, drag_off>>
     \/ /\ button /\ ~(Pressed("wm") /\ CloseBox) /\ ~dragging /\ TitleBar
        /\ dragging' = TRUE
        /\ drag_off' = <<X - window[1], Y - window[2]>>
        /\ UNCHANGED <<console_visible, window>>
     \/ /\ ~button
        /\ dragging' = FALSE
        /\ UNCHANGED <<console_visible, drag_off, window>>
     \/ /\ button /\ ~(Pressed("wm") /\ CloseBox) /\ ~dragging /\ ~TitleBar
        /\ UNCHANGED <<console_visible, dragging, drag_off, window>>
  /\ UNCHANGED <<running, build, files_visible, textviewer_active, doom_active,
                 app, discord_visible, spotlight_open, overlays, fields, chat,
                 console, button, at, handled>>

unmoved == <<button, at, dragging, drag_off, window, handled>>

(* doom_handle_mouse: the close box of the game                            *)
doom_handle_mouse ==
  LET left == (Width - 760) \div 2
      top  == (Height - 500) \div 2
  IN
  /\ IF doom_active THEN Remember("doom") ELSE UNCHANGED last
  /\ doom_active' = (doom_active /\ ~(/\ Pressed("doom")
                                      /\ In(left + 10, left + 43, top + 6, top + 29)))
  /\ UNCHANGED <<running, build, console_visible, files_visible,
                 textviewer_active, app, discord_visible, spotlight_open,
                 overlays, fields, chat, console, unmoved>>

(* textviewer_handle_mouse                                                 *)
textviewer_handle_mouse ==
  /\ IF textviewer_active THEN Remember("textviewer") ELSE UNCHANGED last
  /\ textviewer_active' = (textviewer_active /\ ~(/\ Pressed("textviewer")
                                                  /\ In(540, 570, 166, 194)))
  /\ UNCHANGED <<running, build, console_visible, files_visible, doom_active,
                 app, discord_visible, spotlight_open, overlays, fields, chat,
                 console, unmoved>>

(* files_handle_mouse: the close box, or one of the ten rows               *)
files_handle_mouse ==
  LET close == In(408, 432, 90, 118)
      row   == (Y - 126) \div 20
      hit   == In(80, 440, 126, 324)
  IN
  /\ IF files_visible THEN Remember("files") ELSE UNCHANGED last
  /\ \/ /\ files_visible /\ Pressed("files") /\ close
        /\ files_visible' = FALSE
        /\ UNCHANGED <<running, console_visible, textviewer_active, doom_active,
                       app, discord_visible, console>>
     \/ /\ files_visible /\ Pressed("files") /\ hit
        /\ RunEntry(row + 1)
     \/ /\ ~(files_visible /\ Pressed("files") /\ (close \/ hit))
        /\ UNCHANGED <<running, windows, console>>
  /\ UNCHANGED <<build, spotlight_open, overlays, fields, chat, unmoved>>

(* discord_handle_mouse: the close box, the servers, the channels          *)
discord_handle_mouse ==
  LET close  == In(1156, 1188, 50, 82)
      server == (Y - 108) \div 64
      list   == (Y - 148) \div 36
      onServer  == ~close /\ In(80, 152, 108, 300) /\ server <= 2
      onChannel == ~close /\ In(153, 372, 148, 256) /\ list <= 2
      press  == discord_visible /\ Pressed("discord")
  IN
  /\ IF discord_visible THEN Remember("discord") ELSE UNCHANGED last
  /\ discord_visible' = (discord_visible /\ ~(press /\ close))
  /\ \/ press /\ onServer /\ LoadChannel(server, 0)
     \/ press /\ onChannel /\ LoadChannel(discord_server, list)
     \/ ~(press /\ (onServer \/ onChannel)) /\ UNCHANGED chat
  /\ UNCHANGED <<running, build, console_visible, files_visible,
                 textviewer_active, doom_active, app, spotlight_open, overlays,
                 fields, console, unmoved>>

(* apps_handle_mouse: the close box; in the store everything right of it   *)
(* starts the game.  What it returns is left in eax by the last test: with *)
(* an application open every press and hold counts as handled, unless the  *)
(* pointer is on the screen's left or, above the panel, its upper edge.    *)
apps_handle_mouse ==
  LET press == app # "none" /\ Pressed("apps")
      panel == In(620, 1380, 132, 632)
      close == In(632, 660, 140, 172)
      play  == panel /\ X > 660 /\ app = "store"
      zero  == X = 0 \/ (620 <= X /\ X <= 1380 /\ Y = 0)
  IN
  /\ IF app # "none" THEN Remember("apps") ELSE UNCHANGED last
  /\ handled' = (app # "none" /\ button /\ ~(press /\ zero))
  /\ \/ /\ press /\ close
        /\ app' = "none"
        /\ UNCHANGED <<running, console_visible, files_visible,
                       textviewer_active, doom_active, discord_visible,
                       app_input, console>>
     \/ /\ press /\ play
        /\ DoomLaunch /\ TerminalWrite(LaunchTexts)
     \/ /\ ~(press /\ (close \/ play))
        /\ UNCHANGED <<running, windows, app_input, console>>
  /\ UNCHANGED <<build, spotlight_open, overlays, notes_buf, discord_input, chat,
                 button, at, dragging, drag_off, window>>

(* desktop_handle_mouse: what is under the pointer, strip by strip.  A     *)
(* strip is a set of <<from, to, target>>, to excluded.                    *)
Under(n, strip) == IF \E s \in strip : s[1] <= n /\ n < s[2]
                   THEN (CHOOSE s \in strip : s[1] <= n /\ n < s[2])[3]
                   ELSE "none"

MenuBar    == {<<86, 124, "vault">>, <<124, 168, "settings">>}
WindowsBar == {<<18, 126, "vault">>, <<148, 578, "spotlight">>,
               <<604, 690, "console">>, <<704, 780, FocusOne>>}
CoreApps   == {<<0, 84, "settings">>, <<84, 168, "browser">>,
               <<168, 238, "store">>, <<238, 308, "notes">>,
               <<308, 378, "calc">>, <<378, 448, "game">>,
               <<448, 548, "console">>}
FocusApps  == {<<114, 128, FocusOne>>, <<144, 186, FocusTwo>>,
               <<202, 244, FocusThree>>}
Dock       == {<<20, 90, "console">>, <<120, 190, "vault">>,
               <<220, 290, "settings">>, <<320, 410, FocusOne>>,
               <<430, 526, "chat">>, <<526, 590, FocusTwo>>}

DockLeft == (Width - (IF Width >= 820 THEN 780 ELSE Width - 20)) \div 2

Target ==
  LET dock  == IF Y >= Height - 112 THEN Under(X - DockLeft, Dock) ELSE "none"
      focus == IF X >= Width - 150 THEN Under(Y, FocusApps) ELSE "none"
  IN
  IF Y < 28 THEN Under(X, MenuBar)
  ELSE IF install_mode = 2 /\ Y >= Height - 66 THEN Under(X, WindowsBar)
  ELSE IF Y \in 46 .. 113
    THEN Under(X - (IF Width < 900 THEN 16 ELSE 86), CoreApps)
  ELSE IF focus # "none" THEN focus ELSE dock

desktop_handle_mouse ==
  LET press == ~handled /\ Pressed("desktop") IN
  /\ IF handled THEN UNCHANGED last ELSE Remember("desktop")
  /\ \/ /\ press /\ Target = "spotlight"
        /\ spotlight_open' = ~spotlight_open
        /\ UNCHANGED <<running, windows, app_input, console>>
     \/ /\ press /\ Target \in Targets
        /\ Open(Target) /\ TerminalWrite(OpenTexts(Target))
        /\ UNCHANGED spotlight_open
     \/ /\ ~(press /\ Target # "none")
        /\ UNCHANGED <<running, windows, app_input, spotlight_open, console>>
  /\ UNCHANGED <<build, overlays, notes_buf, discord_input, chat, unmoved>>
==============================================================================
