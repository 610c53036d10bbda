------------------------------- MODULE Desktop -------------------------------
(***************************************************************************)
(* The desktop after its late start: kernel_main's loop, which hands the   *)
(* mouse to seven handlers in turn and then lets two readers take a key    *)
(* each, over the panels, the pointer and the console.  Drawing changes    *)
(* nothing the properties speak of, and the network is a module of its own.*)
(***************************************************************************)
EXTENDS DesktopKeys, DesktopPointer

CONSTANT MaxInputs  \* bound: keys taken and changes of the mouse, together

ASSUME BoundAssumption == MaxInputs \in Nat \ {0}

VARIABLES
  pc,      \* the handler the loop comes to next
  key,     \* the key the last reader took, or "none": al until a handler
           \* of the mouse writes over it
  inputs   \* keys and changes of the mouse so far

loop == <<pc, key, inputs>>
vars == <<loop, panels, console, pointer>>

Places == Handlers \union {"terminal", "poll", "vault"}

Init == /\ ConsoleInit /\ PanelsInit /\ PointerInit
        /\ pc = "wm" /\ key = "none" /\ inputs = IF button THEN 1 ELSE 0

(* The order of the handlers in a pass.                                    *)
Follows == [wm |-> "doom", doom |-> "textviewer", textviewer |-> "files",
            files |-> "discord", discord |-> "apps", apps |-> "desktop",
            desktop |-> "terminal"]

Mouse == /\ pc \in Handlers
         /\ \/ pc = "wm" /\ wm_handle_input
            \/ pc = "doom" /\ doom_handle_mouse
            \/ pc = "textviewer" /\ textviewer_handle_mouse
            \/ pc = "files" /\ files_handle_mouse
            \/ pc = "discord" /\ discord_handle_mouse
            \/ pc = "apps" /\ apps_handle_mouse
            \/ pc = "desktop" /\ desktop_handle_mouse
         /\ pc' = Follows[pc] /\ key' = "none"
         /\ UNCHANGED inputs

(* A key from the ring, if there is one and the bound allows it.           *)
Take(k) == inputs < MaxInputs /\ inputs' = inputs + 1 /\ key' = k
Nothing == key' = "none" /\ UNCHANGED <<inputs, panels, console>>

terminal_handle_input ==
  /\ pc = "terminal" /\ pc' = "poll"
  /\ \/ \E k \in Keys : Take(k) /\ TerminalTakes(k)
     \/ Nothing
  /\ UNCHANGED pointer

poll_keyboard ==
  /\ pc = "poll"
  /\ \/ \E k \in Keys : /\ Take(k) /\ PollTakes(k)
                        /\ pc' = IF Taken THEN "wm" ELSE "vault"
     \/ Nothing /\ pc' = "wm"
  /\ UNCHANGED pointer

(* The end of poll_keyboard: the key the desktop was offered goes to the   *)
(* Vault too, whatever the desktop has done with it.                       *)
poll_keyboard_files ==
  /\ pc = "vault" /\ pc' = "wm"
  /\ VaultKey(key)
  /\ UNCHANGED <<key, inputs, pointer>>

MainLoop == /\ running
            /\ \/ Mouse
               \/ terminal_handle_input
               \/ poll_keyboard
               \/ poll_keyboard_files

(* The mouse's interrupt, between any two handlers: a press, a movement    *)
(* with the button held, the button let go.                                *)
Hand == /\ running /\ inputs < MaxInputs /\ inputs' = inputs + 1
        /\ \/ ~button /\ button' = TRUE /\ at' \in Points
           \/ button /\ at' \in Points \ {at} /\ UNCHANGED button
           \/ button /\ button' = FALSE /\ at' = Away
        /\ UNCHANGED <<pc, key, panels, console, last, dragging, drag_off,
                       window, handled>>

Next == MainLoop \/ Hand
Spec == Init /\ [][Next]_vars

-----------------------------------------------------------------------------
Cells == Chars \union Marks
Texts(size) == {t \in Seq(Chars \union {"space"}) : Len(t) <= size}

(* Every variable has its type, and no text is longer than its array.      *)
TypeOK ==
  /\ term_buffer \in Seq(Cells) /\ Len(term_buffer) <= BufferSize
  /\ term_line \in Seq(Chars) /\ Len(term_line) <= LineSize
  /\ running \in BOOLEAN
  /\ <<install_mode, install_focus, wad>> \in Profiles
  /\ console_visible \in BOOLEAN /\ files_visible \in BOOLEAN
  /\ textviewer_active \in BOOLEAN /\ doom_active \in BOOLEAN
  /\ app \in Apps \union {"none"}
  /\ discord_visible \in BOOLEAN /\ spotlight_open \in BOOLEAN
  /\ mission_open \in BOOLEAN /\ gamemode_active \in BOOLEAN
  /\ devmode_active \in BOOLEAN
  /\ notes_buf \in Texts(NotesSize)
  /\ app_input \in Texts(InputSize) /\ discord_input \in Texts(InputSize)
  /\ discord_msgs \in Seq({"seed", "you", "bot"}) /\ Len(discord_msgs) <= Rows
  /\ discord_server \in 0 .. 2 /\ discord_channel \in 0 .. 2
  /\ button \in BOOLEAN /\ at \in Points \union {Away} /\ last \in [Handlers -> BOOLEAN]
  /\ dragging \in BOOLEAN /\ drag_off \in Int \X Int
  /\ window \in Int \X Int /\ handled \in BOOLEAN
  /\ pc \in Places /\ key \in Keys \union {"none"} /\ inputs \in 0 .. MaxInputs

(* What Enter would run stands on the console behind the last prompt, in   *)
(* the order it was typed, whatever the Vault, the game or a click wrote   *)
(* between the keys and however many characters were too many or taken     *)
(* back: terminal_write and the two ends of .text_key and .backspace.      *)
TypedIsShown ==
  \E place \in [1 .. Len(term_line) -> 1 .. Len(term_buffer)] :
    /\ \A i, j \in 1 .. Len(term_line) : i < j => place[i] < place[j]
    /\ \A i \in 1 .. Len(term_line) :
         /\ term_buffer[place[i]] = term_line[i]
         /\ \A q \in place[i] .. Len(term_buffer) : term_buffer[q] # "prompt"

(* A key changes a text only where the user is looking: not the console    *)
(* behind the game, an application or the Vault, nor with the numbers of   *)
(* the search panel; the notes only in the notes and the editor; the       *)
(* chat's line only in a chat that no application is in front of.  Opening *)
(* an application empties the input line and nothing else does.            *)
TypedWhereShown ==
  [][/\ term_line' # term_line =>
          /\ ~doom_active /\ app = "none" /\ ~files_visible
          /\ ~(spotlight_open /\ key' \in {"1", "2", "3", "4", "5", "6"})
     /\ notes_buf' # notes_buf => ~doom_active /\ app \in {"notes", "editor"}
     /\ discord_input' # discord_input =>
          ~doom_active /\ app = "none" /\ discord_visible
     /\ app_input' # app_input =>
          \/ ~doom_active /\ app' = app /\ app \in {"browser", "calc", "assistant"}
          \/ app' # "none" /\ app_input' = <<>>]_vars

(* The bot has answered every line of the user's that is still in the      *)
(* chat, right behind it, also where the oldest rows have made room:       *)
(* discord_send_message, discord_append_line, discord_load_channel.        *)
SentAnswered ==
  \A i \in DOMAIN discord_msgs :
    discord_msgs[i] = "you" => /\ i + 1 \in DOMAIN discord_msgs
                               /\ discord_msgs[i + 1] = "bot"

(* However the console's window is dragged, released or closed, and        *)
(* wherever the pointer is when it happens, a part of its title bar stays  *)
(* on the screen and below the menu bar: wm_handle_input.                  *)
TitleReachable == /\ window[1] \in 0 .. Width - 1
                  /\ window[2] \in 28 .. Height - 1

-----------------------------------------------------------------------------
(* docs/HYBRID_EDITION.md lists commands of the console that have an h, a  *)
(* g or an m in them; so a letter typed at a console with nothing in front *)
(* of it and room for it would be one more letter of the line.             *)
LettersTyped ==
  [][(/\ pc = "terminal" /\ key' \in Chars /\ Room /\ Len(term_line) < LineSize
      /\ ~doom_active /\ app = "none" /\ ~files_visible /\ ~spotlight_open)
     => term_line' = Append(term_line, key')]_vars

(* docs/HYBRID_EDITION.md says that the registry knows .exe and .dmg and   *)
(* that the launcher routes PE, ELF, DMG and NAVAPP: picking one of the    *)
(* Vault's samples of these would not be met with "Unknown file type".     *)
LauncherRoutes ==
  [][(/\ files_visible /\ ~files_visible' /\ pc \in {"terminal", "vault"}
      /\ key' \in {"7", "8", "9", "0"} /\ Room)
     => term_buffer'[Len(term_buffer')] # "unknown"]_vars
==============================================================================
