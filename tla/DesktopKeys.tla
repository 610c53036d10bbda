----------------------------- MODULE DesktopKeys -----------------------------
(***************************************************************************)
(* What the desktop does with one key.  The main loop asks two readers in  *)
(* every pass, terminal_handle_input and then poll_keyboard, and each may  *)
(* take one key from the same ring; they offer it to the same handlers,    *)
(* but not to the same ones.  Keys are named for what is printed on them;  *)
(* "break" is any code with bit 7 set.                                     *)
(***************************************************************************)
EXTENDS Panels

CONSTANTS
  Keys,      \* scan codes the user can produce
  Commands   \* what the lines do that are commands and can be typed here:
             \* open a target, "clear", "curl", or "text" and only print

Digits == {"1", "2", "3", "4", "5", "6", "7", "8", "9", "0"}
(* Keys that move in the game.                                             *)
Moves == {"w", "a", "s", "d"}

ASSUME KeysAssumption ==
  /\ Keys \intersect ({"break", "esc", "enter", "back", "space", "f5", "f8",
                       "f9", "f10"} \union Chars) = Keys
  /\ Chars \intersect {"none", "break", "esc", "enter", "back", "space", "f5",
                       "f8", "f9", "f10", "clear", "text", "curl"} = {}
  /\ DOMAIN Commands \subseteq Seq(Chars) \ {<<>>}
  \* the desktop takes m, g and h, and with them settings, media, monitor,
  \* plugins, game, help, ping, gog, steam and shutdown
  /\ \A l \in DOMAIN Commands :
       Commands[l] \in {"browser", "store", "notes", "calc", "assistant", "editor",
                       "studio", "vault", "chat", "clear", "text", "curl"}

(* doom_handle_key: takes every key while the game is on.  A move ends the *)
(* game when it reaches the exit; where the player stands is left out.     *)
GameKey(k) ==
  /\ doom_active
  /\ \/ /\ k = "esc"
        /\ doom_active' = FALSE /\ UNCHANGED console
     \/ /\ k \in Moves
        /\ doom_active' = FALSE /\ TerminalWrite(<<"text">>)
     \/ /\ k # "esc"
        /\ UNCHANGED <<doom_active, console>>
  /\ UNCHANGED <<running, build, console_visible, files_visible,
                 textviewer_active, app, discord_visible, spotlight_open,
                 overlays, fields, chat>>

(* apps_handle_key: takes every key while an application is open.  The     *)
(* space bar is a character here, Enter is not.                            *)
AppText(text, k, size) ==
  IF k \in Chars \union {"space"} THEN Typed(text, k, size)
  ELSE IF k = "back" THEN Erased(text) ELSE text

AppKey(k) ==
  /\ app # "none"
  /\ \/ /\ k = "esc"
        /\ app' = "none" /\ UNCHANGED fields
     \/ /\ k # "esc" /\ app \in {"notes", "editor"}
        /\ notes_buf' = AppText(notes_buf, k, NotesSize)
        /\ UNCHANGED <<app, app_input, discord_input>>
     \/ /\ k # "esc" /\ app \in {"browser", "calc", "assistant"}
        /\ app_input' = AppText(app_input, k, InputSize)
        /\ UNCHANGED <<app, notes_buf, discord_input>>
     \/ /\ k # "esc"
        /\ app \notin {"notes", "editor", "browser", "calc", "assistant"}
        /\ UNCHANGED <<app, fields>>
  /\ UNCHANGED <<running, build, console_visible, files_visible,
                 textviewer_active, doom_active, discord_visible,
                 spotlight_open, overlays, chat, console>>

(* discord_handle_key: takes every key while the chat is open, and has no  *)
(* character for the space bar.                                            *)
ChatKey(k) ==
  /\ discord_visible
  /\ \/ /\ k = "esc"
        /\ discord_visible' = FALSE /\ UNCHANGED <<discord_msgs, discord_input>>
     \/ /\ k = "enter"
        /\ SendMessage /\ UNCHANGED discord_visible
     \/ /\ k \notin {"esc", "enter"}
        /\ discord_input' = IF k \in Chars THEN Typed(discord_input, k, InputSize)
                            ELSE IF k = "back" THEN Erased(discord_input)
                            ELSE discord_input
        /\ UNCHANGED <<discord_visible, discord_msgs>>
  /\ UNCHANGED <<running, build, console_visible, files_visible,
                 textviewer_active, doom_active, app, spotlight_open, overlays,
                 app_input, notes_buf, discord_server, discord_channel, console>>

(* The search panel's numbers, and the keys that open something always.    *)
SpotlightTarget(k) == CASE k = "1" -> "console" [] k = "2" -> "vault"
                        [] k = "3" -> "settings" [] k = "4" -> FocusOne
                        [] k = "5" -> FocusTwo [] k = "6" -> "chat"
                        [] OTHER -> "none"
FunctionTarget(k) == CASE k = "f10" -> "chat" [] k = "f8" -> "vault"
                       [] k = "f5" -> "settings" [] k = "f9" -> "game"
                       [] OTHER -> "none"

DesktopTarget(k) ==
  IF spotlight_open /\ SpotlightTarget(k) # "none" THEN SpotlightTarget(k)
                                                   ELSE FunctionTarget(k)

DesktopTakes(k) == \/ DesktopTarget(k) # "none"
                   \/ k \in {"m", "g", "h", "space"}

(* desktop_handle_key.  F10 alone leaves the search panel open.            *)
DesktopOpens(k) ==
  /\ DesktopTarget(k) # "none"
  /\ Open(DesktopTarget(k)) /\ TerminalWrite(OpenTexts(DesktopTarget(k)))
  /\ spotlight_open' = (spotlight_open /\ k = "f10")
  /\ UNCHANGED <<build, overlays, notes_buf, discord_input, chat>>

DesktopToggles(k) ==
  /\ \/ k = "m" /\ mission_open' = ~mission_open
        /\ UNCHANGED <<gamemode_active, devmode_active, spotlight_open>>
     \/ k = "g" /\ gamemode_active' = ~gamemode_active
        /\ UNCHANGED <<mission_open, devmode_active, spotlight_open>>
     \/ k = "h" /\ devmode_active' = ~devmode_active
        /\ UNCHANGED <<mission_open, gamemode_active, spotlight_open>>
     \/ k = "space" /\ spotlight_open' = ~spotlight_open
        /\ UNCHANGED overlays
  /\ UNCHANGED <<running, build, windows, fields, chat, console>>

DesktopKey(k) == DesktopOpens(k) \/ DesktopToggles(k)

(* files_handle_key: a digit runs an entry, other keys do nothing.         *)
EntryOf(k) == CASE k = "1" -> 1 [] k = "2" -> 2 [] k = "3" -> 3 [] k = "4" -> 4
                [] k = "5" -> 5 [] k = "6" -> 6 [] k = "7" -> 7 [] k = "8" -> 8
                [] k = "9" -> 9 [] k = "0" -> 10

VaultKey(k) ==
  \/ /\ files_visible /\ k \in Digits
     /\ RunEntry(EntryOf(k))
     /\ UNCHANGED <<build, spotlight_open, overlays, fields, chat>>
  \/ /\ ~(files_visible /\ k \in Digits)
     /\ UNCHANGED <<panels, console>>

(* terminal_run_command: the line that was typed is run and a new prompt   *)
(* written, except by clear, whose welcome ends in one.  A request of curl *)
(* may never end.                                                          *)
RunCommand ==
  LET c == Commands[term_line] IN
  \/ /\ term_line = <<>>
     /\ Answer(<<>>) /\ UNCHANGED panels
  \/ /\ term_line # <<>> /\ term_line \notin DOMAIN Commands
     /\ Answer(<<"text">>) /\ UNCHANGED panels
  \/ /\ term_line \in DOMAIN Commands
     /\ \/ c = "clear" /\ Clear /\ UNCHANGED panels
        \/ c \in {"text", "curl"} /\ Answer(<<"text">>) /\ UNCHANGED panels
        \/ /\ c = "curl"
           /\ running' = FALSE /\ TerminalWrite(<<"newline">>)
           /\ UNCHANGED <<build, windows, spotlight_open, overlays, fields, chat>>
        \/ /\ c \in Targets
           /\ Open(c) /\ Answer(<<"text">>)
           /\ UNCHANGED <<build, spotlight_open, overlays, notes_buf,
                          discord_input, chat>>

(* terminal_handle_input from .text_key on                                 *)
ConsoleKey(k) ==
  \/ k = "enter" /\ Room /\ RunCommand
  \/ k = "back" /\ Backspace /\ UNCHANGED panels
  \/ k \in Chars /\ TypeCharacter(k) /\ UNCHANGED panels
  \/ /\ \/ k = "enter" /\ ~Room
        \/ k = "back" /\ (term_buffer = <<>> \/ term_line = <<>>)
        \/ k \in Chars /\ ~Room
        \/ k \notin Chars \union {"enter", "back"}
     /\ UNCHANGED <<panels, console>>

(* Slip: a key the Vault has taken goes on to the console.                 *)
TerminalTakes_past_vault(k) ==
  \/ /\ k = "break" /\ UNCHANGED <<panels, console>>
  \/ /\ k # "break"
     /\ \/ GameKey(k)
        \/ ~doom_active /\ AppKey(k)
        \/ /\ ~doom_active /\ app = "none"
           /\ \/ DesktopKey(k)
              \/ ~DesktopTakes(k) /\ ConsoleKey(k)

(* terminal_handle_input: releases are dropped; then the game, the open    *)
(* application, the desktop's own keys, the Vault and the console.  The    *)
(* chat is not asked.                                                      *)
TerminalTakes(k) ==
  \/ /\ k = "break" /\ UNCHANGED <<panels, console>>
  \/ /\ k # "break"
     /\ \/ GameKey(k)
        \/ ~doom_active /\ AppKey(k)
        \/ /\ ~doom_active /\ app = "none"
           /\ \/ DesktopKey(k)
              \/ ~DesktopTakes(k) /\ files_visible /\ VaultKey(k)
              \/ ~DesktopTakes(k) /\ ~files_visible /\ ConsoleKey(k)

(* poll_keyboard up to desktop_handle_key: the game, the application, the  *)
(* chat, the desktop's own keys.  Taken(k) says whether files_handle_key   *)
(* is left out, which it is not behind the desktop's keys.                 *)
Taken == doom_active \/ app # "none" \/ discord_visible
PollTakes(k) ==
  \/ GameKey(k)
  \/ ~doom_active /\ AppKey(k)
  \/ ~doom_active /\ app = "none" /\ ChatKey(k)
  \/ ~Taken /\ DesktopKey(k)
  \/ ~Taken /\ ~DesktopTakes(k) /\ UNCHANGED <<panels, console>>
==============================================================================
