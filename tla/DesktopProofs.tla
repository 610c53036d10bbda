---------------------------- MODULE DesktopProofs ----------------------------
(***************************************************************************)
(* Theorems about Desktop, for every screen, every set of keys and points  *)
(* and every size of the texts.                                            *)
(***************************************************************************)
EXTENDS Desktop, SequenceTheorems, TLAPS

-----------------------------------------------------------------------------
(* The window.  A drag starts on the title bar, so the pointer never lies  *)
(* left of or above the corner it drags; what bounds the pointer bounds    *)
(* the corner.                                                             *)

drag == <<dragging, drag_off, window>>

DragInv == /\ TitleReachable
           /\ at \in Points \union {Away}
           /\ window[1] \in Int /\ window[2] \in Int
           /\ dragging => drag_off[1] \in Nat /\ drag_off[2] \in Nat

(* The pointer stays on the screen.                                        *)
LEMMA PointInside ==
  ASSUME at \in Points \union {Away}
  PROVE  /\ X \in Int /\ Y \in Int
         /\ 0 <= X /\ X <= Width - 1 /\ 0 <= Y /\ Y <= Height - 1
  BY ScreenAssumption DEF X, Y, Away

(* wm_handle_input is the only handler that moves the window.              *)
LEMMA OnlyWmDrags ==
  ASSUME Next, ~(pc = "wm" /\ wm_handle_input)
  PROVE  UNCHANGED drag
<1>1. CASE Hand
  BY <1>1 DEF Hand, drag
<1>2. CASE Mouse
  BY <1>2 DEF Mouse, doom_handle_mouse, textviewer_handle_mouse, files_handle_mouse,
     discord_handle_mouse, apps_handle_mouse, desktop_handle_mouse, unmoved, drag
<1>3. CASE terminal_handle_input \/ poll_keyboard \/ poll_keyboard_files
  BY <1>3 DEF terminal_handle_input, poll_keyboard, poll_keyboard_files, pointer, drag
<1> QED
  BY <1>1, <1>2, <1>3 DEF Next, MainLoop

LEMMA WmKeepsTitle ==
  ASSUME DragInv, wm_handle_input
  PROVE  DragInv'
<1> USE DEF DragInv, TitleReachable
<1>0. at' = at /\ at \in Points \union {Away}
  BY DEF wm_handle_input
<1>1. /\ X \in Int /\ Y \in Int
      /\ 0 <= X /\ X <= Width - 1 /\ 0 <= Y /\ Y <= Height - 1
  BY PointInside
<1>2. Width \in Nat /\ Height \in Nat /\ Width >= 760 /\ Height >= 500
  BY ScreenAssumption
<1>3. CASE dragging /\ window' = <<AtLeast(X - drag_off[1], 0), AtLeast(Y - drag_off[2], 28)>>
           /\ UNCHANGED <<dragging, drag_off>>
  <2>1. window'[1] = AtLeast(X - drag_off[1], 0) /\ window'[2] = AtLeast(Y - drag_off[2], 28)
    BY <1>3
  <2>2. drag_off[1] \in Nat /\ drag_off[2] \in Nat
    BY <1>3
  <2> HIDE DEF DragInv
  <2>3. window'[1] \in 0 .. Width - 1 /\ window'[2] \in 28 .. Height - 1
    BY <1>1, <1>2, <2>1, <2>2 DEF AtLeast
  <2> USE DEF DragInv
  <2> QED
    BY <1>0, <1>3, <2>2, <2>3
<1>4. CASE dragging' = TRUE /\ drag_off' = <<X - window[1], Y - window[2]>> /\ TitleBar
           /\ UNCHANGED window
  <2>1. X - window[1] \in Nat /\ Y - window[2] \in Nat
    BY <1>1, <1>4 DEF TitleBar, In
  <2>2. drag_off'[1] = X - window[1] /\ drag_off'[2] = Y - window[2]
    BY <1>4
  <2> QED
    BY <1>0, <1>4, <2>1, <2>2
<1>5. CASE dragging' = FALSE /\ UNCHANGED window
  BY <1>0, <1>5
<1>6. CASE UNCHANGED drag
  BY <1>0, <1>6 DEF drag
<1> QED
  BY <1>3, <1>4, <1>5, <1>6 DEF wm_handle_input, drag

LEMMA DragCorrect == Spec => []DragInv
<1>1. Init => DragInv
  <2> SUFFICES ASSUME Init PROVE DragInv
    OBVIOUS
  <2>1. window = <<260, 120>> /\ dragging = FALSE /\ at \in Points \union {Away}
    BY DEF Init, PointerInit
  <2> QED
    BY <2>1, ScreenAssumption DEF DragInv, TitleReachable
<1>2. DragInv /\ [Next]_vars => DragInv'
  <2> SUFFICES ASSUME DragInv, [Next]_vars PROVE DragInv'
    OBVIOUS
  <2>1. CASE UNCHANGED vars
    BY <2>1 DEF DragInv, TitleReachable, vars, pointer
  <2>2. CASE pc = "wm" /\ wm_handle_input
    BY <2>2, WmKeepsTitle
  <2>3. CASE Next /\ ~(pc = "wm" /\ wm_handle_input)
    <3>1. UNCHANGED drag
      BY <2>3, OnlyWmDrags
    <3>2. at' \in Points \union {Away}
      <4>1. CASE Hand
        BY <4>1 DEF Hand
      <4>2. CASE Mouse
        BY <2>3, <4>2 DEF Mouse, doom_handle_mouse, textviewer_handle_mouse,
           files_handle_mouse, discord_handle_mouse, apps_handle_mouse,
           desktop_handle_mouse, unmoved, DragInv
      <4>3. CASE terminal_handle_input \/ poll_keyboard \/ poll_keyboard_files
        BY <4>3 DEF terminal_handle_input, poll_keyboard, poll_keyboard_files, pointer, DragInv
      <4> QED
        BY <2>3, <4>1, <4>2, <4>3 DEF Next, MainLoop
    <3> QED
      BY <3>1, <3>2 DEF DragInv, TitleReachable, drag
  <2> QED
    BY <2>1, <2>2, <2>3
<1> QED
  BY <1>1, <1>2, PTL DEF Spec

(* However the console's window is dragged, its title bar stays where the  *)
(* pointer can take it.                                                    *)
THEOREM TitleCorrect == Spec => []TitleReachable
<1>1. DragInv => TitleReachable
  BY DEF DragInv
<1> QED
  BY <1>1, DragCorrect, PTL

-----------------------------------------------------------------------------
(* The chat.  A line of the user's and its answer come together, and what  *)
(* makes room goes from the front, so that no answer is lost before its    *)
(* line.                                                                   *)

Lines == {"seed", "you", "bot"}

Answered(msgs) ==
  \A i \in DOMAIN msgs :
    msgs[i] = "you" => i + 1 \in DOMAIN msgs /\ msgs[i + 1] = "bot"

ChatInv == /\ discord_msgs \in Seq(Lines) /\ Answered(discord_msgs)
           /\ discord_server \in 0 .. 2 /\ discord_channel \in 0 .. 2

(* Taking the oldest line away leaves every other one with its answer.     *)
LEMMA TailAnswered ==
  ASSUME NEW msgs \in Seq(Lines), msgs # <<>>, Answered(msgs)
  PROVE  Tail(msgs) \in Seq(Lines) /\ Answered(Tail(msgs))
<1>1. /\ Tail(msgs) \in Seq(Lines) /\ Len(Tail(msgs)) = Len(msgs) - 1
      /\ Len(msgs) \in Nat /\ DOMAIN Tail(msgs) = 1 .. Len(msgs) - 1
      /\ DOMAIN msgs = 1 .. Len(msgs)
  OBVIOUS
<1>2. \A i \in 1 .. Len(msgs) - 1 : Tail(msgs)[i] = msgs[i + 1]
  OBVIOUS
<1>3. ASSUME NEW i \in 1 .. Len(msgs) - 1, Tail(msgs)[i] = "you"
      PROVE  i + 1 \in 1 .. Len(msgs) - 1 /\ Tail(msgs)[i + 1] = "bot"
  <2>1. i + 1 \in DOMAIN msgs /\ msgs[i + 1] = "you"
    BY <1>1, <1>2, <1>3
  <2>2. i + 1 + 1 \in DOMAIN msgs /\ msgs[i + 1 + 1] = "bot"
    BY <2>1 DEF Answered
  <2> QED
    BY <1>1, <1>2, <2>2
<1> QED
  BY <1>1, <1>3 DEF Answered

(* Room is made in front of both lines at most; the two stand together.    *)
LEMMA ExchangeAnswered ==
  ASSUME NEW msgs \in Seq(Lines), Answered(msgs)
  PROVE  LET new == Appended(Appended(msgs, "you"), "bot")
         IN  new \in Seq(Lines) /\ Answered(new)
<1> DEFINE Kept(m) == IF Len(m) < Rows THEN m ELSE Tail(m)
           old  == Kept(msgs)
           both == Append(Append(old, "you"), "bot")
<1>0. Rows \in Nat /\ Rows >= 3
  BY PanelsAssumption
<1>1. old \in Seq(Lines) /\ Answered(old)
  <2>1. CASE Len(msgs) < Rows
    BY <2>1
  <2>2. CASE ~(Len(msgs) < Rows)
    <3>1. msgs # <<>>
      BY <1>0, <2>2
    <3> QED
      BY <2>2, <3>1, TailAnswered
  <2> QED
    BY <2>1, <2>2
<1> HIDE DEF old
<1>2. both \in Seq(Lines) /\ Len(both) = Len(old) + 2 /\ Len(old) \in Nat
      /\ DOMAIN both = 1 .. Len(old) + 2 /\ DOMAIN old = 1 .. Len(old)
  BY <1>1 DEF Lines
<1>3. /\ \A i \in 1 .. Len(old) : both[i] = old[i]
      /\ both[Len(old) + 1] = "you" /\ both[Len(old) + 2] = "bot"
  BY <1>1, <1>2
<1>4. Answered(both)
  <2> SUFFICES ASSUME NEW i \in 1 .. Len(old) + 2, both[i] = "you"
               PROVE  i + 1 \in 1 .. Len(old) + 2 /\ both[i + 1] = "bot"
    BY <1>2 DEF Answered
  <2>1. CASE i \in 1 .. Len(old)
    <3>1. i + 1 \in DOMAIN old /\ old[i + 1] = "bot"
      BY <1>1, <1>2, <1>3, <2>1 DEF Answered
    <3> QED
      BY <1>2, <1>3, <3>1
  <2>2. CASE i = Len(old) + 1
    BY <1>2, <1>3, <2>2
  <2>3. i # Len(old) + 2
    BY <1>3
  <2> QED
    BY <1>2, <2>1, <2>2, <2>3
<1>5. Appended(msgs, "you") = Append(old, "you")
  BY DEF Appended, old
<1>6. \/ Appended(Append(old, "you"), "bot") = both
      \/ Appended(Append(old, "you"), "bot") = Tail(both) /\ both # <<>>
  <2>1. CASE Len(Append(old, "you")) < Rows
    BY <2>1 DEF Appended
  <2>2. CASE ~(Len(Append(old, "you")) < Rows)
    <3>1. Append(old, "you") # <<>> /\ Append(old, "you") \in Seq(Lines)
      BY <1>1 DEF Lines
    <3>2. Append(Tail(Append(old, "you")), "bot") = Tail(both)
      BY <3>1, HeadTailAppend
    <3>3. Appended(Append(old, "you"), "bot") = Append(Tail(Append(old, "you")), "bot")
      BY <2>2 DEF Appended
    <3>4. both # <<>>
      BY <1>2
    <3> QED
      BY <3>2, <3>3, <3>4
  <2> QED
    BY <2>1, <2>2
<1> HIDE DEF both
<1> QED
  BY <1>2, <1>4, <1>5, <1>6, TailAnswered

(* The mouse of the chat and its Enter are all that touches the rows.      *)
LEMMA OnlyChatWrites ==
  ASSUME Next, ~(pc = "discord" /\ discord_handle_mouse)
  PROVE  \/ UNCHANGED chat
         \/ SendMessage /\ UNCHANGED <<discord_server, discord_channel>>
<1>1. CASE Hand
  BY <1>1 DEF Hand, panels, chat
<1>2. CASE Mouse
  BY <1>2 DEF Mouse, wm_handle_input, doom_handle_mouse, textviewer_handle_mouse,
     files_handle_mouse, apps_handle_mouse, desktop_handle_mouse, chat
<1>3. ASSUME NEW k, GameKey(k) \/ AppKey(k) \/ DesktopKey(k) \/ VaultKey(k)
      PROVE  UNCHANGED chat
  BY <1>3 DEF GameKey, AppKey, DesktopKey, DesktopOpens, DesktopToggles, VaultKey, panels, chat
<1>4. ASSUME NEW k, ConsoleKey(k)
      PROVE  UNCHANGED chat
  BY <1>4 DEF ConsoleKey, RunCommand, panels, chat
<1>5. ASSUME NEW k, ChatKey(k)
      PROVE  \/ UNCHANGED chat
             \/ SendMessage /\ UNCHANGED <<discord_server, discord_channel>>
  BY <1>5 DEF ChatKey, chat
<1>6. CASE terminal_handle_input
  <2>1. ASSUME NEW k, TerminalTakes(k)
        PROVE  UNCHANGED chat
    BY <2>1, <1>3, <1>4 DEF TerminalTakes, panels, chat
  <2>2. CASE Nothing
    BY <2>2 DEF Nothing, panels, chat
  <2> QED
    BY <1>6, <2>1, <2>2 DEF terminal_handle_input
<1>7. CASE poll_keyboard
  <2>1. ASSUME NEW k, PollTakes(k)
        PROVE  \/ UNCHANGED chat
               \/ SendMessage /\ UNCHANGED <<discord_server, discord_channel>>
    BY <2>1, <1>3, <1>5 DEF PollTakes, panels, chat
  <2>2. CASE Nothing
    BY <2>2 DEF Nothing, panels, chat
  <2> QED
    BY <1>7, <2>1, <2>2 DEF poll_keyboard
<1>8. CASE poll_keyboard_files
  BY <1>8, <1>3 DEF poll_keyboard_files
<1> QED
  BY <1>1, <1>2, <1>6, <1>7, <1>8 DEF Next, MainLoop

(* Whatever channel is loaded, its rows hold no line of the user's.        *)
LEMMA SeededAnswered ==
  ASSUME NEW s \in 0 .. 2, NEW c \in 0 .. 2
  PROVE  Seeded(s, c) \in Seq(Lines) /\ Answered(Seeded(s, c))
<1>1. Seeds[s + 1][c + 1] \in Nat
  BY DEF Seeds
<1> DEFINE n == Seeds[s + 1][c + 1]
<1>2. Seeded(s, c) = [i \in 1 .. n |-> "seed"]
  BY DEF Seeded
<1> HIDE DEF n
<1>3. n \in Nat
  BY <1>1 DEF n
<1>4. [i \in 1 .. n |-> "seed"] \in Seq(Lines)
  BY <1>3 DEF Lines
<1> QED
  BY <1>2, <1>4 DEF Answered

LEMMA ClickKeepsChat ==
  ASSUME ChatInv, at \in Points \union {Away}, discord_handle_mouse
  PROVE  ChatInv'
<1>0. X \in Int /\ Y \in Int
  BY PointInside
<1> DEFINE server == (Y - 108) \div 64
           list   == (Y - 148) \div 36
<1>1. CASE In(80, 152, 108, 300) /\ server <= 2 /\ LoadChannel(server, 0)
  <2>1. server \in 0 .. 2
    BY <1>0, <1>1 DEF In
  <2> HIDE DEF server
  <2> QED
    BY <1>1, <2>1, SeededAnswered DEF LoadChannel, ChatInv
<1>2. CASE In(153, 372, 148, 256) /\ list <= 2 /\ LoadChannel(discord_server, list)
  <2>1. list \in 0 .. 2
    BY <1>0, <1>2 DEF In
  <2> HIDE DEF list
  <2> QED
    BY <1>2, <2>1, SeededAnswered DEF LoadChannel, ChatInv
<1>3. CASE UNCHANGED chat
  BY <1>3 DEF chat, ChatInv
<1> QED
  BY <1>1, <1>2, <1>3 DEF discord_handle_mouse

(* The chat's rows never show a line of the user's without its answer.     *)
THEOREM SentCorrect == Spec => []SentAnswered
<1>1. Init => ChatInv
  <2> SUFFICES ASSUME Init PROVE ChatInv
    OBVIOUS
  <2>1. discord_msgs = Seeded(0, 0) /\ discord_server = 0 /\ discord_channel = 0
    BY DEF Init, PanelsInit
  <2> QED
    BY <2>1, SeededAnswered DEF ChatInv
<1>2. ChatInv /\ DragInv /\ [Next]_vars => ChatInv'
  <2> SUFFICES ASSUME ChatInv, DragInv, [Next]_vars PROVE ChatInv'
    OBVIOUS
  <2>1. CASE UNCHANGED chat
    BY <2>1 DEF chat, ChatInv
  <2>2. CASE UNCHANGED vars
    BY <2>1, <2>2 DEF vars, panels, chat
  <2>3. CASE SendMessage /\ UNCHANGED <<discord_server, discord_channel>>
    BY <2>3, ExchangeAnswered DEF SendMessage, ChatInv
  <2>4. CASE discord_handle_mouse
    BY <2>4, ClickKeepsChat DEF DragInv
  <2> QED
    BY <2>1, <2>2, <2>3, <2>4, OnlyChatWrites
<1>3. ChatInv => SentAnswered
  BY DEF ChatInv, Answered, SentAnswered
<1> QED
  BY <1>1, <1>2, <1>3, DragCorrect, PTL DEF Spec

-----------------------------------------------------------------------------
(* Where keys go.                                                          *)

FocusInv == install_focus \in 0 .. 3

(* Every key that opens something opens one of the targets.                *)
LEMMA TargetsOpen ==
  ASSUME FocusInv
  PROVE  FocusOne # "none" /\ FocusTwo # "none" /\ FocusThree # "none"
  BY DEF FocusInv, FocusOne, FocusTwo, FocusThree

(* The search panel's numbers are the desktop's while it is open.          *)
LEMMA NumbersTaken ==
  ASSUME FocusInv, spotlight_open, NEW k \in {"1", "2", "3", "4", "5", "6"}
  PROVE  DesktopTakes(k)
<1>1. SpotlightTarget(k) # "none"
  BY TargetsOpen DEF SpotlightTarget
<1> QED
  BY <1>1 DEF DesktopTakes, DesktopTarget

(* What a step may do to the texts, and to the application's input line in *)
(* particular: leave it, or empty it for an application that opens.        *)
InputKept == UNCHANGED app_input \/ (app' # "none" /\ app_input' = <<>>)
TextsKept == UNCHANGED <<term_line, notes_buf, discord_input>> /\ InputKept

LEMMA OpenKeepsInput ==
  ASSUME NEW t, Open(t)
  PROVE  InputKept
  BY DEF Open, DoomLaunch, AppOpen, FilesToggle, ChatOpen, ConsoleOpen, InputKept, Apps

LEMMA HandKeepsTexts ==
  ASSUME Mouse \/ Hand
  PROVE  TextsKept
<1>1. CASE Hand
  BY <1>1 DEF Hand, panels, console, fields, TextsKept, InputKept
<1>2. CASE wm_handle_input \/ doom_handle_mouse \/ textviewer_handle_mouse
           \/ discord_handle_mouse
  BY <1>2 DEF wm_handle_input, doom_handle_mouse, textviewer_handle_mouse,
     discord_handle_mouse, fields, console, TextsKept, InputKept
<1>3. CASE files_handle_mouse
  BY <1>3 DEF files_handle_mouse, RunEntry, TerminalWrite, fields, console,
     TextsKept, InputKept
<1>4. CASE apps_handle_mouse
  BY <1>4 DEF apps_handle_mouse, DoomLaunch, TerminalWrite, console, TextsKept, InputKept
<1>5. CASE desktop_handle_mouse
  BY <1>5, OpenKeepsInput DEF desktop_handle_mouse, TerminalWrite, console,
     TextsKept, InputKept
<1> QED
  BY <1>1, <1>2, <1>3, <1>4, <1>5 DEF Mouse

(* The readers that write no text of their own.                            *)
LEMMA OthersKeepTexts ==
  ASSUME NEW k, GameKey(k) \/ DesktopKey(k) \/ VaultKey(k)
  PROVE  TextsKept
<1>1. CASE GameKey(k)
  BY <1>1 DEF GameKey, TerminalWrite, fields, console, TextsKept, InputKept
<1>2. CASE DesktopOpens(k)
  BY <1>2, OpenKeepsInput DEF DesktopOpens, TerminalWrite, TextsKept, InputKept
<1>3. CASE DesktopToggles(k)
  BY <1>3 DEF DesktopToggles, fields, console, TextsKept, InputKept
<1>4. CASE VaultKey(k)
  BY <1>4 DEF VaultKey, RunEntry, TerminalWrite, panels, fields, console,
     TextsKept, InputKept
<1> QED
  BY <1>1, <1>2, <1>3, <1>4 DEF DesktopKey

(* The application, the chat and the console write theirs.                 *)
LEMMA AppKeyTexts ==
  ASSUME NEW k, AppKey(k)
  PROVE  /\ UNCHANGED <<term_line, discord_input>>
         /\ notes_buf' # notes_buf => app \in {"notes", "editor"}
         /\ app_input' # app_input =>
              app' = app /\ app \in {"browser", "calc", "assistant"}
  BY DEF AppKey, fields, console

LEMMA ChatKeyTexts ==
  ASSUME NEW k, ChatKey(k)
  PROVE  UNCHANGED <<term_line, notes_buf, app_input>>
  BY DEF ChatKey, console

LEMMA ConsoleKeyTexts ==
  ASSUME NEW k, ConsoleKey(k)
  PROVE  UNCHANGED <<notes_buf, discord_input>> /\ InputKept
<1>1. CASE UNCHANGED panels
  BY <1>1 DEF panels, fields, InputKept
<1>2. CASE RunCommand
  BY <1>1, <1>2, OpenKeepsInput DEF RunCommand, fields, InputKept
<1> QED
  BY <1>1, <1>2 DEF ConsoleKey

Where ==
  /\ term_line' # term_line =>
       /\ ~doom_active /\ app = "none" /\ ~files_visible
       /\ ~(spotlight_open /\ key' \in {"1", "2", "3", "4", "5", "6"})
  /\ notes_buf' # notes_buf => ~doom_active /\ app \in {"notes", "editor"}
  /\ discord_input' # discord_input =>
       ~doom_active /\ app = "none" /\ discord_visible
  /\ app_input' # app_input =>
       \/ ~doom_active /\ app' = app /\ app \in {"browser", "calc", "assistant"}
       \/ app' # "none" /\ app_input' = <<>>

LEMMA KeptIsWhere == ASSUME TextsKept PROVE Where
  BY DEF TextsKept, InputKept, Where

(* A key changes a text only where the user is looking.                    *)
THEOREM WhereCorrect == Spec => TypedWhereShown
<1>1. Init => FocusInv
  BY PanelsAssumption DEF Init, PanelsInit, FocusInv
<1>2. FocusInv /\ [Next]_vars => FocusInv'
  <2> SUFFICES ASSUME [Next]_vars PROVE UNCHANGED install_focus
    BY DEF FocusInv
  <2>1. CASE UNCHANGED vars
    BY <2>1 DEF vars, panels, build
  <2>2. CASE Mouse \/ Hand
    BY <2>2 DEF Mouse, Hand, wm_handle_input, doom_handle_mouse,
       textviewer_handle_mouse, files_handle_mouse, discord_handle_mouse,
       apps_handle_mouse, desktop_handle_mouse, panels, build
  <2>3. ASSUME NEW k, \/ GameKey(k) \/ AppKey(k) \/ ChatKey(k) \/ DesktopKey(k)
                     \/ VaultKey(k) \/ ConsoleKey(k)
        PROVE  UNCHANGED install_focus
    BY <2>3 DEF GameKey, AppKey, ChatKey, DesktopKey, DesktopOpens, DesktopToggles,
       VaultKey, ConsoleKey, RunCommand, panels, build
  <2>4. CASE terminal_handle_input
    BY <2>3, <2>4 DEF terminal_handle_input, TerminalTakes, Nothing, panels, build
  <2>5. CASE poll_keyboard
    BY <2>3, <2>5 DEF poll_keyboard, PollTakes, Nothing, panels, build
  <2>6. CASE poll_keyboard_files
    BY <2>3, <2>6 DEF poll_keyboard_files
  <2> QED
    BY <2>1, <2>2, <2>4, <2>5, <2>6 DEF Next, MainLoop
<1>3. FocusInv /\ [Next]_vars => [Where]_vars
  <2> SUFFICES ASSUME FocusInv, Next PROVE Where
    OBVIOUS
  <2>1. CASE Mouse \/ Hand
    BY <2>1, HandKeepsTexts, KeptIsWhere
  <2>2. CASE UNCHANGED <<panels, console>>
    BY <2>2 DEF panels, fields, console, Where
  <2>3. ASSUME NEW k, GameKey(k) \/ DesktopKey(k) \/ VaultKey(k)
        PROVE  Where
    BY <2>3, OthersKeepTexts, KeptIsWhere
  <2>4. ASSUME NEW k, ~doom_active, AppKey(k)
        PROVE  Where
    BY <2>4, AppKeyTexts DEF Where
  <2>5. ASSUME NEW k, ~doom_active, app = "none", ChatKey(k)
        PROVE  Where
    BY <2>5, ChatKeyTexts DEF Where, ChatKey
  <2>6. ASSUME NEW k, key' = k, ~doom_active, app = "none", ~files_visible,
               ~DesktopTakes(k), ConsoleKey(k)
        PROVE  Where
    <3>1. ~(spotlight_open /\ key' \in {"1", "2", "3", "4", "5", "6"})
      BY <2>6, NumbersTaken
    <3> QED
      BY <2>6, <3>1, ConsoleKeyTexts DEF Where, InputKept
  <2>7. CASE terminal_handle_input
    <3>1. ASSUME NEW k, key' = k, TerminalTakes(k)
          PROVE  Where
      BY <2>2, <2>3, <2>4, <2>6, <3>1 DEF TerminalTakes
    <3> QED
      BY <2>2, <2>7, <3>1 DEF terminal_handle_input, Take, Nothing
  <2>8. CASE poll_keyboard
    <3>1. ASSUME NEW k, PollTakes(k)
          PROVE  Where
      BY <2>2, <2>3, <2>4, <2>5, <3>1 DEF PollTakes
    <3> QED
      BY <2>2, <2>8, <3>1 DEF poll_keyboard, Nothing
  <2>9. CASE poll_keyboard_files
    BY <2>3, <2>9 DEF poll_keyboard_files
  <2> QED
    BY <2>1, <2>7, <2>8, <2>9 DEF Next, MainLoop
<1> QED
  BY <1>1, <1>2, <1>3, PTL DEF Spec, TypedWhereShown, Where

-----------------------------------------------------------------------------
(* The console.  What a step does to its two texts is one of six things,   *)
(* and a character that is typed is none of those the desktop takes.       *)

Outputs == {<<>>, <<"text">>, <<"text", "text">>, <<"unknown">>, <<"newline">>}

Lost == {"m", "g", "h", "space"}

ConsoleStep ==
  \/ UNCHANGED console
  \/ \E t \in Outputs : TerminalWrite(t)
  \/ \E t \in Outputs : Answer(t)
  \/ Clear
  \/ \E c \in Chars \ Lost : TypeCharacter(c)
  \/ Backspace

LEMMA LaunchOutputs == LaunchTexts \in Outputs /\ \A t : OpenTexts(t) \in Outputs
  BY DEF LaunchTexts, OpenTexts, Outputs

LEMMA RunEntrySteps ==
  ASSUME NEW n, RunEntry(n)
  PROVE  ConsoleStep
  BY DEF RunEntry, Outputs, ConsoleStep

LEMMA KeySteps ==
  ASSUME NEW k, \/ GameKey(k) \/ AppKey(k) \/ ChatKey(k) \/ DesktopKey(k)
                \/ VaultKey(k) \/ (~DesktopTakes(k) /\ ConsoleKey(k))
  PROVE  ConsoleStep
<1>1. CASE GameKey(k)
  BY <1>1 DEF GameKey, Outputs, ConsoleStep
<1>2. CASE AppKey(k) \/ ChatKey(k)
  BY <1>2 DEF AppKey, ChatKey, ConsoleStep
<1>3. CASE DesktopKey(k)
  BY <1>3, LaunchOutputs DEF DesktopKey, DesktopOpens, DesktopToggles, ConsoleStep
<1>4. CASE VaultKey(k)
  BY <1>4, RunEntrySteps DEF VaultKey, ConsoleStep
<1>5. CASE RunCommand
  BY <1>5 DEF RunCommand, Outputs, ConsoleStep
<1>6. CASE ~DesktopTakes(k) /\ ConsoleKey(k)
  <2>1. k \notin Lost
    BY <1>6 DEF DesktopTakes, Lost
  <2> QED
    BY <1>5, <1>6, <2>1 DEF ConsoleKey, ConsoleStep
<1> QED
  BY <1>1, <1>2, <1>3, <1>4, <1>6

LEMMA ConsoleSteps == ASSUME Next PROVE ConsoleStep
<1>1. CASE Hand \/ Nothing
  BY <1>1 DEF Hand, Nothing, ConsoleStep
<1>2. CASE Mouse
  <2>1. CASE wm_handle_input \/ doom_handle_mouse \/ textviewer_handle_mouse
             \/ discord_handle_mouse
    BY <2>1 DEF wm_handle_input, doom_handle_mouse, textviewer_handle_mouse,
       discord_handle_mouse, ConsoleStep
  <2>2. CASE files_handle_mouse
    BY <2>2, RunEntrySteps DEF files_handle_mouse, ConsoleStep
  <2>3. CASE apps_handle_mouse \/ desktop_handle_mouse
    BY <2>3, LaunchOutputs DEF apps_handle_mouse, desktop_handle_mouse, ConsoleStep
  <2> QED
    BY <1>2, <2>1, <2>2, <2>3 DEF Mouse
<1>3. CASE terminal_handle_input
  BY <1>1, <1>3, KeySteps DEF terminal_handle_input, TerminalTakes, ConsoleStep
<1>4. CASE poll_keyboard
  BY <1>1, <1>4, KeySteps DEF poll_keyboard, PollTakes, ConsoleStep
<1>5. CASE poll_keyboard_files
  BY <1>5, KeySteps DEF poll_keyboard_files
<1> QED
  BY <1>1, <1>2, <1>3, <1>4, <1>5 DEF Next, MainLoop

ConsoleOK == /\ term_buffer \in Seq(Cells) /\ Len(term_buffer) <= BufferSize
             /\ term_line \in Seq(Chars) /\ Len(term_line) <= LineSize

LEMMA OutputCells ==
  ASSUME NEW t \in Outputs
  PROVE  t \in Seq(Cells) /\ \A i \in 1 .. Len(t) : t[i] # "prompt"
<1>1. "text" \in Cells /\ "unknown" \in Cells /\ "newline" \in Cells
  BY DEF Cells, Marks
<1>2. CASE t = <<>>
  BY <1>2
<1>3. ASSUME NEW c \in {"text", "unknown", "newline"}, t = <<c>>
      PROVE  t \in Seq(Cells) /\ \A i \in 1 .. Len(t) : t[i] # "prompt"
  <2>1. c \in Cells /\ c # "prompt"
    BY <1>1
  <2>2. t \in Seq(Cells) /\ Len(t) = 1 /\ t[1] = c
    BY <1>3, <2>1
  <2> QED
    BY <2>1, <2>2
<1>4. CASE t = <<"text", "text">>
  <2>1. t \in Seq(Cells)
    BY <1>1, <1>4
  <2>2. Len(t) = 2 /\ t[1] = "text" /\ t[2] = "text"
    BY <1>4
  <2> QED
    BY <2>1, <2>2
<1> QED
  BY <1>2, <1>3, <1>4 DEF Outputs

(* terminal_write leaves what was there and puts a part of the new behind. *)
LEMMA WrittenKeeps ==
  ASSUME NEW h \in Seq(Cells), Len(h) <= BufferSize, NEW t \in Seq(Cells)
  PROVE  /\ Written(h, t) \in Seq(Cells)
         /\ Len(Written(h, t)) <= BufferSize /\ Len(h) <= Len(Written(h, t))
         /\ \A i \in 1 .. Len(h) : Written(h, t)[i] = h[i]
         /\ \A i \in Len(h) + 1 .. Len(Written(h, t)) :
              i - Len(h) \in 1 .. Len(t) /\ Written(h, t)[i] = t[i - Len(h)]
<1> DEFINE all == h \o t
           n   == IF Len(all) <= BufferSize THEN Len(all) ELSE BufferSize
<1>0. BufferSize \in Nat
  BY ConsoleAssumption
<1>1. all \in Seq(Cells) /\ Len(all) = Len(h) + Len(t) /\ Len(h) \in Nat /\ Len(t) \in Nat
  OBVIOUS
<1>2. /\ \A i \in 1 .. Len(h) : all[i] = h[i]
      /\ \A i \in Len(h) + 1 .. Len(h) + Len(t) : all[i] = t[i - Len(h)]
  OBVIOUS
<1>3. Written(h, t) = SubSeq(all, 1, n)
  BY DEF Written
<1> HIDE DEF all
<1>4. n \in Nat /\ n <= Len(all) /\ Len(h) <= n /\ n <= BufferSize
  BY <1>0, <1>1
<1> HIDE DEF n
<1>5. /\ SubSeq(all, 1, n) \in Seq(Cells) /\ Len(SubSeq(all, 1, n)) = n
      /\ \A i \in 1 .. n : SubSeq(all, 1, n)[i] = all[i]
  BY <1>1, <1>4
<1> QED
  BY <1>1, <1>2, <1>3, <1>4, <1>5

(* TypedIsShown of any two texts, and what each kind of step does to it.   *)
Shows(b, l) ==
  \E place \in [1 .. Len(l) -> 1 .. Len(b)] :
    /\ \A i, j \in 1 .. Len(l) : i < j => place[i] < place[j]
    /\ \A i \in 1 .. Len(l) :
         /\ b[place[i]] = l[i]
         /\ \A q \in place[i] .. Len(b) : b[q] # "prompt"

LEMMA EmptyShows == ASSUME NEW b \in Seq(Cells) PROVE Shows(b, <<>>)
<1> DEFINE place == [i \in 1 .. 0 |-> 1]
<1>1. Len(<<>>) = 0 /\ 1 .. 0 = {}
  OBVIOUS
<1>2. place \in [1 .. Len(<<>>) -> 1 .. Len(b)]
  BY <1>1
<1> HIDE DEF place
<1> QED
  BY <1>1, <1>2 DEF Shows

LEMMA GrownShows ==
  ASSUME NEW b \in Seq(Cells), NEW c \in Seq(Cells), NEW l \in Seq(Chars),
         Shows(b, l), Len(b) <= Len(c),
         \A i \in 1 .. Len(b) : c[i] = b[i],
         \A i \in Len(b) + 1 .. Len(c) : c[i] # "prompt"
  PROVE  Shows(c, l)
<1>1. PICK place \in [1 .. Len(l) -> 1 .. Len(b)] :
        /\ \A i, j \in 1 .. Len(l) : i < j => place[i] < place[j]
        /\ \A i \in 1 .. Len(l) :
             /\ b[place[i]] = l[i]
             /\ \A q \in place[i] .. Len(b) : b[q] # "prompt"
  BY DEF Shows
<1>2. Len(b) \in Nat /\ Len(c) \in Nat
  OBVIOUS
<1>3. 1 .. Len(b) \subseteq 1 .. Len(c)
  BY <1>2
<1>4. place \in [1 .. Len(l) -> 1 .. Len(c)]
  BY <1>3
<1>5. ASSUME NEW i \in 1 .. Len(l)
      PROVE  c[place[i]] = l[i] /\ \A q \in place[i] .. Len(c) : c[q] # "prompt"
  <2>1. place[i] \in 1 .. Len(b)
    OBVIOUS
  <2>2. ASSUME NEW q \in place[i] .. Len(c)
        PROVE  c[q] # "prompt"
    <3>1. (q \in 1 .. Len(b) /\ q \in place[i] .. Len(b)) \/ q \in Len(b) + 1 .. Len(c)
      BY <1>2, <2>1
    <3> QED
      BY <1>1, <3>1
  <2> QED
    BY <1>1, <2>1, <2>2
<1> QED
  BY <1>1, <1>4, <1>5 DEF Shows

LEMMA AddedShows ==
  ASSUME NEW b \in Seq(Cells), NEW l \in Seq(Chars), NEW c \in Chars, Shows(b, l)
  PROVE  Shows(Append(b, c), Append(l, c))
<1> DEFINE n == Len(l)
           m == Len(b)
           b1 == Append(b, c)
           l1 == Append(l, c)
<1>1. PICK place \in [1 .. n -> 1 .. m] :
        /\ \A i, j \in 1 .. n : i < j => place[i] < place[j]
        /\ \A i \in 1 .. n :
             /\ b[place[i]] = l[i]
             /\ \A q \in place[i] .. m : b[q] # "prompt"
  BY DEF Shows
<1>2. /\ n \in Nat /\ m \in Nat /\ Len(b1) = m + 1 /\ Len(l1) = n + 1
      /\ b1[m + 1] = c /\ l1[n + 1] = c
      /\ \A i \in 1 .. m : b1[i] = b[i]
      /\ \A i \in 1 .. n : l1[i] = l[i]
  BY DEF Cells
<1>3. c # "prompt"
  BY ConsoleAssumption DEF Marks
<1> HIDE DEF n, m, b1, l1
<1> DEFINE longer == [i \in 1 .. n + 1 |-> IF i = n + 1 THEN m + 1 ELSE place[i]]
<1>4. \A i \in 1 .. n : place[i] \in 1 .. m
  OBVIOUS
<1>5. longer \in [1 .. n + 1 -> 1 .. m + 1]
  BY <1>2, <1>4
<1>6. longer[n + 1] = m + 1 /\ \A i \in 1 .. n : longer[i] = place[i]
  BY <1>2
<1> HIDE DEF longer
<1>7. ASSUME NEW i \in 1 .. n + 1, NEW j \in 1 .. n + 1, i < j
      PROVE  longer[i] < longer[j]
  <2>1. i \in 1 .. n /\ (j \in 1 .. n \/ j = n + 1)
    BY <1>2, <1>7
  <2>2. CASE j \in 1 .. n
    BY <1>1, <1>6, <1>7, <2>1, <2>2
  <2>3. CASE j = n + 1
    <3>1. place[i] \in 1 .. m /\ longer[i] = place[i] /\ longer[j] = m + 1
      BY <1>4, <1>6, <2>1, <2>3
    <3> QED
      BY <1>2, <3>1
  <2> QED
    BY <2>1, <2>2, <2>3
<1>8. ASSUME NEW i \in 1 .. n + 1
      PROVE  b1[longer[i]] = l1[i] /\ \A q \in longer[i] .. m + 1 : b1[q] # "prompt"
  <2>1. CASE i = n + 1
    <3>1. \A q \in m + 1 .. m + 1 : q = m + 1
      BY <1>2
    <3> QED
      BY <1>2, <1>3, <1>6, <2>1, <3>1
  <2>2. CASE i \in 1 .. n
    <3>1. /\ place[i] \in 1 .. m /\ longer[i] = place[i] /\ l1[i] = l[i]
          /\ b[place[i]] = l[i] /\ \A q \in place[i] .. m : b[q] # "prompt"
      BY <1>1, <1>2, <1>4, <1>6, <2>2
    <3>2. ASSUME NEW q \in place[i] .. m + 1
          PROVE  b1[q] # "prompt"
      <4>1. q = m + 1 \/ (q \in place[i] .. m /\ q \in 1 .. m)
        BY <1>2, <3>1
      <4> QED
        BY <1>2, <1>3, <3>1, <4>1
    <3> QED
      BY <1>2, <3>1, <3>2
  <2>3. i = n + 1 \/ i \in 1 .. n
    BY <1>2
  <2> QED
    BY <2>1, <2>2, <2>3
<1>9. /\ longer \in [1 .. Len(l1) -> 1 .. Len(b1)]
      /\ \A i, j \in 1 .. Len(l1) : i < j => longer[i] < longer[j]
      /\ \A i \in 1 .. Len(l1) :
           /\ b1[longer[i]] = l1[i]
           /\ \A q \in longer[i] .. Len(b1) : b1[q] # "prompt"
  <2>1. Len(l1) = n + 1 /\ Len(b1) = m + 1
    BY <1>2
  <2> QED
    BY <1>5, <1>7, <1>8, <2>1
<1>10. Shows(b1, l1)
  BY <1>9 DEF Shows
<1> QED
  BY <1>10 DEF b1, l1

(* A text without its last element.                                        *)
LEMMA OneLess ==
  ASSUME NEW S, NEW s \in Seq(S), s # <<>>
  PROVE  /\ Len(s) \in Nat \ {0} /\ SubSeq(s, 1, Len(s) - 1) \in Seq(S)
         /\ Len(SubSeq(s, 1, Len(s) - 1)) = Len(s) - 1
         /\ \A i \in 1 .. Len(s) - 1 : SubSeq(s, 1, Len(s) - 1)[i] = s[i]
<1>1. Len(s) \in Nat \ {0}
  BY EmptySeq
<1> DEFINE n == Len(s) - 1
<1>2. n \in Nat /\ 1 \in Int /\ \A i \in 1 .. n : s[i] \in S
  BY <1>1
<1> HIDE DEF n
<1>3. /\ SubSeq(s, 1, n) \in Seq(S)
      /\ Len(SubSeq(s, 1, n)) = IF 1 <= n THEN n - 1 + 1 ELSE 0
      /\ \A i \in 1 .. n - 1 + 1 : SubSeq(s, 1, n)[i] = s[1 + i - 1]
  BY <1>2, SubSeqProperties
<1>4. Len(SubSeq(s, 1, n)) = n /\ \A i \in 1 .. n : SubSeq(s, 1, n)[i] = s[i]
  BY <1>2, <1>3
<1> QED
  BY <1>1, <1>3, <1>4 DEF n

LEMMA TakenShows ==
  ASSUME NEW b \in Seq(Cells), NEW l \in Seq(Chars), b # <<>>, l # <<>>, Shows(b, l)
  PROVE  Shows(SubSeq(b, 1, Len(b) - 1), SubSeq(l, 1, Len(l) - 1))
<1> DEFINE n == Len(l)
           m == Len(b)
           b1 == SubSeq(b, 1, Len(b) - 1)
           l1 == SubSeq(l, 1, Len(l) - 1)
<1>1. PICK place \in [1 .. n -> 1 .. m] :
        /\ \A i, j \in 1 .. n : i < j => place[i] < place[j]
        /\ \A i \in 1 .. n :
             /\ b[place[i]] = l[i]
             /\ \A q \in place[i] .. m : b[q] # "prompt"
  BY DEF Shows
<1>2. /\ n \in Nat \ {0} /\ m \in Nat \ {0} /\ Len(b1) = m - 1 /\ Len(l1) = n - 1
      /\ \A i \in 1 .. m - 1 : b1[i] = b[i]
      /\ \A i \in 1 .. n - 1 : l1[i] = l[i]
  BY OneLess
<1> HIDE DEF n, m, b1, l1
<1>3. \A i \in 1 .. n : place[i] \in 1 .. m
  OBVIOUS
<1>4. \A i \in 1 .. n - 1 : i \in 1 .. n /\ n \in 1 .. n /\ i < n
  BY <1>2
<1>5. \A i \in 1 .. n - 1 : place[i] \in 1 .. m - 1
  <2>1. \A i \in 1 .. n - 1 : place[i] < place[n] /\ place[n] <= m
    BY <1>1, <1>2, <1>3, <1>4
  <2> QED
    BY <1>2, <1>3, <1>4, <2>1
<1> DEFINE shorter == [i \in 1 .. n - 1 |-> place[i]]
<1>6. shorter \in [1 .. n - 1 -> 1 .. m - 1] /\ \A i \in 1 .. n - 1 : shorter[i] = place[i]
  BY <1>5
<1> HIDE DEF shorter
<1>7. \A i, j \in 1 .. n - 1 : i < j => shorter[i] < shorter[j]
  BY <1>1, <1>4, <1>6
<1>8. ASSUME NEW i \in 1 .. n - 1
      PROVE  b1[shorter[i]] = l1[i] /\ \A q \in shorter[i] .. m - 1 : b1[q] # "prompt"
  <2>1. \A q \in place[i] .. m - 1 : q \in place[i] .. m /\ q \in 1 .. m - 1
    BY <1>2, <1>5
  <2> QED
    BY <1>1, <1>2, <1>4, <1>5, <1>6, <2>1
<1>9. /\ shorter \in [1 .. Len(l1) -> 1 .. Len(b1)]
      /\ \A i, j \in 1 .. Len(l1) : i < j => shorter[i] < shorter[j]
      /\ \A i \in 1 .. Len(l1) :
           /\ b1[shorter[i]] = l1[i]
           /\ \A q \in shorter[i] .. Len(b1) : b1[q] # "prompt"
  <2>1. Len(l1) = n - 1 /\ Len(b1) = m - 1
    BY <1>2
  <2> QED
    BY <1>6, <1>7, <1>8, <2>1
<1>10. Shows(b1, l1)
  BY <1>9 DEF Shows
<1> QED
  BY <1>10 DEF b1, l1

ShownInv == ConsoleOK /\ Shows(term_buffer, term_line)

LEMMA ReplacedTyped ==
  ASSUME NEW h \in Seq(Cells), Len(h) <= BufferSize, NEW t \in Seq(Cells),
         term_buffer' = Written(h, t), term_line' = <<>>
  PROVE  ShownInv'
<1>1. term_buffer' \in Seq(Cells) /\ Len(term_buffer') <= BufferSize
  BY WrittenKeeps
<1>2. term_line' \in Seq(Chars) /\ Len(term_line') <= LineSize
  BY ConsoleAssumption
<1>3. Shows(term_buffer', term_line')
  BY <1>1, EmptyShows
<1> QED
  BY <1>1, <1>2, <1>3 DEF ShownInv, ConsoleOK

(* TypedIsShown is inductive with the sizes and types of the two texts.    *)
LEMMA ShownAlways == Spec => []ShownInv
<1>1. Init => ShownInv
  <2> SUFFICES ASSUME Init PROVE ShownInv
    OBVIOUS
  <2>1. term_buffer = <<"text", "prompt">> /\ term_line = <<>>
    BY DEF Init, ConsoleInit, welcome_msg
  <2>2. "text" \in Cells /\ "prompt" \in Cells
    BY DEF Cells, Marks
  <2>3. term_buffer \in Seq(Cells) /\ Len(term_buffer) = 2
    BY <2>1, <2>2
  <2>4. term_line \in Seq(Chars) /\ Len(term_line) = 0
    BY <2>1
  <2>5. Len(term_buffer) <= BufferSize /\ Len(term_line) <= LineSize
    BY <2>3, <2>4, ConsoleAssumption
  <2>6. Shows(term_buffer, term_line)
    BY <2>1, <2>3, EmptyShows
  <2> QED
    BY <2>3, <2>4, <2>5, <2>6 DEF ShownInv, ConsoleOK
<1>2. ShownInv /\ [Next]_vars => ShownInv'
  <2> SUFFICES ASSUME ShownInv, [Next]_vars PROVE ShownInv'
    OBVIOUS
  <2> USE DEF ShownInv
  <2>0. ConsoleOK /\ term_buffer \in Seq(Cells) /\ term_line \in Seq(Chars)
    BY DEF ConsoleOK
  <2>1. CASE UNCHANGED console
    BY <2>1 DEF console, ConsoleOK
  <2>2. ASSUME NEW t \in Outputs, TerminalWrite(t)
        PROVE  ShownInv'
    <3>1. /\ term_buffer' = Written(term_buffer, t) /\ term_line' = term_line
          /\ t \in Seq(Cells) /\ \A i \in 1 .. Len(t) : t[i] # "prompt"
      BY <2>2, OutputCells DEF TerminalWrite
    <3>2. /\ term_buffer' \in Seq(Cells) /\ Len(term_buffer') <= BufferSize
          /\ Len(term_buffer) <= Len(term_buffer')
          /\ \A i \in 1 .. Len(term_buffer) : term_buffer'[i] = term_buffer[i]
          /\ \A i \in Len(term_buffer) + 1 .. Len(term_buffer') :
               /\ i - Len(term_buffer) \in 1 .. Len(t)
               /\ term_buffer'[i] = t[i - Len(term_buffer)]
      <4>1. Len(term_buffer) <= BufferSize /\ t \in Seq(Cells)
        BY <2>0, <3>1 DEF ConsoleOK
      <4> QED
        BY <2>0, <3>1, <4>1, WrittenKeeps
    <3>3. \A i \in Len(term_buffer) + 1 .. Len(term_buffer') : term_buffer'[i] # "prompt"
      BY <3>1, <3>2
    <3>4. Shows(term_buffer', term_line)
      BY <2>0, <3>2, <3>3, GrownShows
    <3> QED
      BY <2>0, <3>1, <3>2, <3>4 DEF ConsoleOK
  <2>3. ASSUME NEW t \in Outputs, Answer(t)
        PROVE  ShownInv'
    <3>1. t \in Seq(Cells) /\ <<"newline">> \in Seq(Cells) /\ <<"prompt">> \in Seq(Cells)
      <4>1. "newline" \in Cells /\ "prompt" \in Cells
        BY DEF Cells, Marks
      <4> QED
        BY <4>1, OutputCells
    <3>2. <<"newline">> \o t \o <<"prompt">> \in Seq(Cells)
      BY <3>1
    <3> QED
      BY <2>0, <2>3, <3>2, ReplacedTyped DEF Answer, ConsoleOK
  <2>4. CASE Clear
    <3>1. welcome_msg \in Seq(Cells)
      <4>1. "text" \in Cells /\ "prompt" \in Cells
        BY DEF Cells, Marks
      <4> QED
        BY <4>1 DEF welcome_msg
    <3>2. <<>> \in Seq(Cells) /\ Len(<<>>) <= BufferSize
      BY ConsoleAssumption
    <3> QED
      BY <2>4, <3>1, <3>2, ReplacedTyped DEF Clear
  <2>5. ASSUME NEW c \in Chars, TypeCharacter(c)
        PROVE  ShownInv'
    <3>1. /\ c \in Cells /\ c # "prompt" /\ BufferSize \in Nat /\ LineSize \in Nat
      BY ConsoleAssumption DEF Cells, Marks
    <3>2. /\ term_buffer' = Append(term_buffer, c) /\ term_buffer' \in Seq(Cells)
          /\ Len(term_buffer') = Len(term_buffer) + 1 /\ Len(term_buffer') <= BufferSize
      BY <2>0, <2>5, <3>1 DEF TypeCharacter, Room
    <3>3. CASE Len(term_line) < LineSize
      <4>1. term_line' = Append(term_line, c)
        BY <2>5, <3>3 DEF TypeCharacter
      <4>2. term_line' \in Seq(Chars) /\ Len(term_line') <= LineSize
        BY <2>0, <3>1, <3>3, <4>1
      <4> QED
        BY <2>0, <3>2, <4>1, <4>2, AddedShows DEF ConsoleOK
    <3>4. CASE ~(Len(term_line) < LineSize)
      <4>1. term_line' = term_line
        BY <2>5, <3>4 DEF TypeCharacter
      <4>2. /\ \A i \in 1 .. Len(term_buffer) : term_buffer'[i] = term_buffer[i]
            /\ \A i \in Len(term_buffer) + 1 .. Len(term_buffer') : term_buffer'[i] # "prompt"
        <5>1. /\ \A i \in 1 .. Len(term_buffer) : term_buffer'[i] = term_buffer[i]
              /\ term_buffer'[Len(term_buffer) + 1] = c
          BY <2>0, <3>1, <3>2, AppendProperties
        <5>2. \A i \in Len(term_buffer) + 1 .. Len(term_buffer') : i = Len(term_buffer) + 1
          BY <2>0, <3>2
        <5>3. \A i \in Len(term_buffer) + 1 .. Len(term_buffer') : term_buffer'[i] = c
          BY <5>1, <5>2
        <5> QED
          BY <3>1, <5>1, <5>3
      <4>3. Len(term_buffer) <= Len(term_buffer')
        BY <2>0, <3>2
      <4>4. Shows(term_buffer', term_line)
        BY <2>0, <3>2, <4>2, <4>3, GrownShows
      <4> QED
        BY <2>0, <3>2, <4>1, <4>4 DEF ConsoleOK
    <3> QED
      BY <3>3, <3>4
  <2>6. CASE Backspace
    <3>1. /\ term_buffer' \in Seq(Cells) /\ Len(term_buffer') <= BufferSize
          /\ term_line' \in Seq(Chars) /\ Len(term_line') <= LineSize
      BY <2>0, <2>6, ConsoleAssumption DEF Backspace, ConsoleOK
    <3> QED
      BY <2>0, <2>6, <3>1, TakenShows DEF Backspace, ConsoleOK
  <2>7. CASE Next
    BY <2>1, <2>2, <2>3, <2>4, <2>5, <2>6, <2>7, ConsoleSteps DEF ConsoleStep
  <2>8. CASE UNCHANGED vars
    BY <2>1, <2>8 DEF vars, console
  <2> QED
    BY <2>7, <2>8
<1> QED
  BY <1>1, <1>2, PTL DEF Spec

(* What was typed is still there, in order, behind the last prompt.        *)
THEOREM ShownCorrect == Spec => []TypedIsShown
<1>1. ShownInv => TypedIsShown
  BY DEF ShownInv, Shows, TypedIsShown
<1> QED
  BY <1>1, ShownAlways, PTL

-----------------------------------------------------------------------------
(* What the console is never told.  The desktop takes three letters before *)
(* the console sees them, so no line has one of them: none of the commands *)
(* that docs/HYBRID_EDITION.md lists with an h, a g or an m can be typed,  *)
(* whichever keys are pressed in whichever panels.  The run                *)
(* DesktopCommands shows one letter that is lost; this is every line.      *)
LettersLost == \A i \in 1 .. Len(term_line) : term_line[i] \notin Lost

LEMMA LettersStep == ConsoleOK /\ LettersLost /\ [Next]_vars => LettersLost'
<1> SUFFICES ASSUME ConsoleOK, LettersLost, [Next]_vars
             PROVE  \A i \in 1 .. Len(term_line') : term_line'[i] \notin Lost
  BY DEF LettersLost
<1>0. term_line \in Seq(Chars) /\ Len(term_line) \in Nat
  BY DEF ConsoleOK
<1>1. CASE term_line' = term_line
  BY <1>1 DEF LettersLost
<1>2. CASE term_line' = <<>>
  BY <1>2
<1>3. ASSUME NEW c \in Chars \ Lost, term_line' = Append(term_line, c)
      PROVE  \A i \in 1 .. Len(term_line') : term_line'[i] \notin Lost
  <2>1. /\ Len(term_line') = Len(term_line) + 1
        /\ \A i \in 1 .. Len(term_line) : term_line'[i] = term_line[i]
        /\ term_line'[Len(term_line) + 1] = c
    BY <1>0, <1>3, AppendProperties
  <2>2. \A i \in 1 .. Len(term_line') : i \in 1 .. Len(term_line) \/ i = Len(term_line) + 1
    BY <1>0, <2>1
  <2> QED
    BY <2>1, <2>2 DEF LettersLost
<1>4. CASE term_line # <<>> /\ term_line' = SubSeq(term_line, 1, Len(term_line) - 1)
  <2>1. /\ Len(term_line') = Len(term_line) - 1
        /\ \A i \in 1 .. Len(term_line) - 1 : term_line'[i] = term_line[i]
    BY <1>0, <1>4, OneLess
  <2>2. \A i \in 1 .. Len(term_line) - 1 : i \in 1 .. Len(term_line)
    BY <1>0
  <2> QED
    BY <2>1, <2>2 DEF LettersLost
<1>5. CASE Next
  BY <1>1, <1>2, <1>3, <1>4, <1>5, ConsoleSteps
  DEF ConsoleStep, console, TerminalWrite, Answer, Clear, TypeCharacter, Backspace
<1>6. CASE UNCHANGED vars
  BY <1>1, <1>6 DEF vars, console
<1> QED
  BY <1>5, <1>6

(* terminal_handle_input puts none of the three letters and no space into  *)
(* the line, in whatever order the panels open and close.                  *)
THEOREM LettersNeverTyped == Spec => []LettersLost
<1>1. Init => LettersLost
  BY DEF Init, ConsoleInit, LettersLost
<1>2. ShownInv => ConsoleOK
  BY DEF ShownInv
<1> QED
  BY <1>1, <1>2, ShownAlways, LettersStep, PTL DEF Spec

-----------------------------------------------------------------------------
(* Types.  Beside the console and the chat's rows: what is open, the three *)
(* texts, the pointer and the loop.                                        *)

WindowsOK == /\ running \in BOOLEAN /\ console_visible \in BOOLEAN
             /\ files_visible \in BOOLEAN /\ textviewer_active \in BOOLEAN
             /\ doom_active \in BOOLEAN /\ discord_visible \in BOOLEAN
             /\ app \in Apps \union {"none"}
SwitchesOK == /\ spotlight_open \in BOOLEAN /\ mission_open \in BOOLEAN
              /\ gamemode_active \in BOOLEAN /\ devmode_active \in BOOLEAN
OpenOK == WindowsOK /\ SwitchesOK

LEMMA OpenTypes ==
  ASSUME WindowsOK, NEW t, Open(t)
  PROVE  WindowsOK'
<1>1. CASE DoomLaunch
  BY <1>1 DEF WindowsOK, DoomLaunch, windows
<1>2. CASE t \in Apps /\ AppOpen(t)
  BY <1>2 DEF WindowsOK, AppOpen
<1>3. CASE FilesToggle \/ ChatOpen \/ ConsoleOpen
  BY <1>3 DEF WindowsOK, FilesToggle, ChatOpen, ConsoleOpen
<1> QED
  BY <1>1, <1>2, <1>3 DEF Open

LEMMA RunEntryTypes ==
  ASSUME WindowsOK, NEW n, RunEntry(n)
  PROVE  WindowsOK'
  BY DEF WindowsOK, RunEntry, windows

LEMMA KeyTypes ==
  ASSUME OpenOK, NEW k, \/ GameKey(k) \/ AppKey(k) \/ ChatKey(k) \/ DesktopKey(k)
                        \/ VaultKey(k) \/ ConsoleKey(k)
  PROVE  OpenOK'
<1>0. WindowsOK /\ SwitchesOK
  BY DEF OpenOK
<1>1. ASSUME UNCHANGED <<running, windows>>
      PROVE  WindowsOK'
  BY <1>0, <1>1 DEF WindowsOK, windows
<1>2. ASSUME UNCHANGED <<spotlight_open, overlays>>
      PROVE  SwitchesOK'
  BY <1>0, <1>2 DEF SwitchesOK, overlays
<1>3. ASSUME UNCHANGED panels
      PROVE  OpenOK'
  BY <1>1, <1>2, <1>3 DEF OpenOK, panels
<1>4. CASE GameKey(k)
  <2>1. WindowsOK'
    BY <1>0, <1>4 DEF GameKey, WindowsOK
  <2> QED
    BY <1>2, <1>4, <2>1 DEF GameKey, OpenOK
<1>5. CASE AppKey(k)
  <2>1. WindowsOK'
    BY <1>0, <1>5 DEF AppKey, WindowsOK
  <2> QED
    BY <1>2, <1>5, <2>1 DEF AppKey, OpenOK
<1>6. CASE ChatKey(k)
  <2>1. WindowsOK'
    BY <1>0, <1>6 DEF ChatKey, WindowsOK
  <2> QED
    BY <1>2, <1>6, <2>1 DEF ChatKey, OpenOK
<1>7. CASE DesktopOpens(k)
  <2>1. WindowsOK'
    BY <1>0, <1>7, OpenTypes DEF DesktopOpens
  <2>2. SwitchesOK'
    BY <1>0, <1>7 DEF DesktopOpens, SwitchesOK, overlays
  <2> QED
    BY <2>1, <2>2 DEF OpenOK
<1>8. CASE DesktopToggles(k)
  <2>1. WindowsOK'
    BY <1>1, <1>8 DEF DesktopToggles
  <2>2. SwitchesOK'
    BY <1>0, <1>8 DEF DesktopToggles, SwitchesOK, overlays
  <2> QED
    BY <2>1, <2>2 DEF OpenOK
<1>9. CASE VaultKey(k)
  <2>1. CASE UNCHANGED panels
    BY <1>3, <2>1
  <2>2. CASE RunEntry(EntryOf(k)) /\ UNCHANGED <<spotlight_open, overlays>>
    BY <1>0, <1>2, <2>2, RunEntryTypes DEF OpenOK
  <2> QED
    BY <1>9, <2>1, <2>2 DEF VaultKey
<1>10. CASE RunCommand
  <2>1. CASE UNCHANGED panels
    BY <1>3, <2>1
  <2>2. CASE running' = FALSE /\ UNCHANGED <<windows, spotlight_open, overlays>>
    BY <1>0, <1>2, <2>2 DEF OpenOK, WindowsOK, windows
  <2>3. ASSUME NEW c, Open(c), UNCHANGED <<spotlight_open, overlays>>
        PROVE  OpenOK'
    BY <1>0, <1>2, <2>3, OpenTypes DEF OpenOK
  <2> QED
    BY <1>10, <2>1, <2>2, <2>3 DEF RunCommand
<1>11. CASE ConsoleKey(k)
  BY <1>3, <1>10, <1>11 DEF ConsoleKey
<1> QED
  BY <1>4, <1>5, <1>6, <1>7, <1>8, <1>9, <1>11 DEF DesktopKey

LEMMA MouseTypes ==
  ASSUME OpenOK, Mouse
  PROVE  OpenOK'
<1>0. WindowsOK /\ SwitchesOK
  BY DEF OpenOK
<1>1. ASSUME UNCHANGED <<spotlight_open, overlays>>
      PROVE  SwitchesOK'
  BY <1>0, <1>1 DEF SwitchesOK, overlays
<1>2. ASSUME UNCHANGED <<running, windows>>
      PROVE  WindowsOK'
  BY <1>0, <1>2 DEF WindowsOK, windows
<1>3. CASE wm_handle_input
  <2>1. WindowsOK'
    BY <1>0, <1>3 DEF wm_handle_input, WindowsOK
  <2> QED
    BY <1>1, <1>3, <2>1 DEF wm_handle_input, OpenOK
<1>4. CASE doom_handle_mouse
  <2>1. WindowsOK'
    BY <1>0, <1>4 DEF doom_handle_mouse, WindowsOK
  <2> QED
    BY <1>1, <1>4, <2>1 DEF doom_handle_mouse, OpenOK
<1>5. CASE textviewer_handle_mouse
  <2>1. WindowsOK'
    BY <1>0, <1>5 DEF textviewer_handle_mouse, WindowsOK
  <2> QED
    BY <1>1, <1>5, <2>1 DEF textviewer_handle_mouse, OpenOK
<1>6. CASE files_handle_mouse
  <2>1. CASE \E n : RunEntry(n)
    BY <1>0, <1>1, <1>6, <2>1, RunEntryTypes DEF files_handle_mouse, OpenOK
  <2>2. CASE files_visible' = FALSE /\ UNCHANGED <<running, console_visible,
               textviewer_active, doom_active, app, discord_visible>>
    BY <1>0, <1>1, <1>6, <2>2 DEF files_handle_mouse, OpenOK, WindowsOK
  <2>3. CASE UNCHANGED <<running, windows>>
    BY <1>1, <1>2, <1>6, <2>3 DEF files_handle_mouse, OpenOK
  <2> QED
    BY <1>6, <2>1, <2>2, <2>3 DEF files_handle_mouse
<1>7. CASE discord_handle_mouse
  <2>1. WindowsOK'
    BY <1>0, <1>7 DEF discord_handle_mouse, WindowsOK
  <2> QED
    BY <1>1, <1>7, <2>1 DEF discord_handle_mouse, OpenOK
<1>8. CASE apps_handle_mouse
  <2>1. CASE app' = "none" /\ UNCHANGED <<running, console_visible, files_visible,
                textviewer_active, doom_active, discord_visible>>
    BY <1>0, <1>1, <1>8, <2>1 DEF apps_handle_mouse, OpenOK, WindowsOK
  <2>2. CASE DoomLaunch
    <3>1. WindowsOK'
      BY <1>0, <2>2, OpenTypes DEF Open
    <3> QED
      BY <1>1, <1>8, <3>1 DEF apps_handle_mouse, OpenOK
  <2>3. CASE UNCHANGED <<running, windows>>
    BY <1>1, <1>2, <1>8, <2>3 DEF apps_handle_mouse, OpenOK
  <2> QED
    BY <1>8, <2>1, <2>2, <2>3 DEF apps_handle_mouse
<1>9. CASE desktop_handle_mouse
  <2>1. SwitchesOK'
    BY <1>0, <1>9 DEF desktop_handle_mouse, SwitchesOK, overlays
  <2>2. WindowsOK'
    BY <1>0, <1>2, <1>9, OpenTypes DEF desktop_handle_mouse
  <2> QED
    BY <2>1, <2>2 DEF OpenOK
<1> QED
  BY <1>3, <1>4, <1>5, <1>6, <1>7, <1>8, <1>9 DEF Mouse

LEMMA OpenStep == OpenOK /\ [Next]_vars => OpenOK'
<1> SUFFICES ASSUME OpenOK, [Next]_vars PROVE OpenOK'
  OBVIOUS
<1>1. ASSUME UNCHANGED panels
      PROVE  OpenOK'
  BY <1>1 DEF OpenOK, WindowsOK, SwitchesOK, panels, windows, overlays
<1>2. CASE Hand \/ Nothing
  BY <1>1, <1>2 DEF Hand, Nothing
<1>3. CASE terminal_handle_input
  BY <1>1, <1>2, <1>3, KeyTypes DEF terminal_handle_input, TerminalTakes
<1>4. CASE poll_keyboard
  BY <1>1, <1>2, <1>4, KeyTypes DEF poll_keyboard, PollTakes
<1>5. CASE poll_keyboard_files
  BY <1>5, KeyTypes DEF poll_keyboard_files
<1>6. CASE UNCHANGED vars
  BY <1>1, <1>6 DEF vars
<1> QED
  BY <1>2, <1>3, <1>4, <1>5, <1>6, MouseTypes DEF Next, MainLoop

(* The three texts stay within their arrays.                               *)
FieldsOK == /\ notes_buf \in Texts(NotesSize)
            /\ app_input \in Texts(InputSize) /\ discord_input \in Texts(InputSize)

LEMMA EditTypes ==
  ASSUME NEW size \in Nat, NEW text \in Texts(size)
  PROVE  /\ \A c \in Chars \union {"space"} : Typed(text, c, size) \in Texts(size)
         /\ Erased(text) \in Texts(size)
         /\ \A k : AppText(text, k, size) \in Texts(size)
<1> DEFINE Letters == Chars \union {"space"}
<1>0. text \in Seq(Letters) /\ Len(text) \in Nat /\ Len(text) <= size
  BY DEF Texts
<1>1. ASSUME NEW c \in Letters
      PROVE  Typed(text, c, size) \in Texts(size)
  <2>1. CASE Len(text) < size
    <3>1. /\ Append(text, c) \in Seq(Letters)
          /\ Len(Append(text, c)) = Len(text) + 1
      BY <1>0
    <3> QED
      BY <1>0, <2>1, <3>1 DEF Typed, Texts
  <2>2. CASE ~(Len(text) < size)
    BY <2>2 DEF Typed
  <2> QED
    BY <2>1, <2>2
<1>2. Erased(text) \in Texts(size)
  <2>1. CASE text = <<>>
    BY <2>1 DEF Erased
  <2>2. CASE text # <<>>
    <3> HIDE DEF Letters
    <3>1. /\ SubSeq(text, 1, Len(text) - 1) \in Seq(Letters)
          /\ Len(SubSeq(text, 1, Len(text) - 1)) = Len(text) - 1
      BY <1>0, <2>2, OneLess
    <3>2. Len(SubSeq(text, 1, Len(text) - 1)) <= size
      BY <1>0, <3>1
    <3> QED
      BY <2>2, <3>1, <3>2 DEF Erased, Texts, Letters
  <2> QED
    BY <2>1, <2>2
<1> QED
  BY <1>1, <1>2 DEF AppText

LEMMA FieldsStep == FieldsOK /\ [Next]_vars => FieldsOK'
<1> SUFFICES ASSUME FieldsOK, [Next]_vars PROVE FieldsOK'
  OBVIOUS
<1> USE DEF FieldsOK
<1>0. NotesSize \in Nat /\ InputSize \in Nat /\ <<>> \in Texts(InputSize)
  <2>1. <<>> \in Seq(Chars \union {"space"}) /\ Len(<<>>) = 0
    OBVIOUS
  <2> QED
    BY <2>1, PanelsAssumption DEF Texts
<1>1. ASSUME UNCHANGED <<notes_buf, discord_input>>, InputKept
      PROVE  FieldsOK'
  BY <1>0, <1>1 DEF InputKept
<1>2. CASE UNCHANGED panels
  BY <1>1, <1>2 DEF panels, fields, InputKept
<1>3. ASSUME NEW k, GameKey(k) \/ DesktopKey(k) \/ VaultKey(k) \/ ConsoleKey(k)
      PROVE  FieldsOK'
  BY <1>1, <1>3, OthersKeepTexts, ConsoleKeyTexts DEF TextsKept
<1>4. ASSUME NEW k, AppKey(k)
      PROVE  FieldsOK'
  <2>1. CASE UNCHANGED fields
    BY <2>1 DEF fields
  <2>2. CASE /\ notes_buf' = AppText(notes_buf, k, NotesSize)
             /\ UNCHANGED <<app_input, discord_input>>
    BY <1>0, <2>2, EditTypes
  <2>3. CASE /\ app_input' = AppText(app_input, k, InputSize)
             /\ UNCHANGED <<notes_buf, discord_input>>
    BY <1>0, <2>3, EditTypes
  <2> QED
    BY <1>4, <2>1, <2>2, <2>3 DEF AppKey
<1>5. ASSUME NEW k, ChatKey(k)
      PROVE  FieldsOK'
  <2>1. UNCHANGED <<notes_buf, app_input>>
    BY <1>5, ChatKeyTexts
  <2>2. \/ discord_input' = discord_input \/ discord_input' = <<>>
        \/ k \in Chars /\ discord_input' = Typed(discord_input, k, InputSize)
        \/ discord_input' = Erased(discord_input)
    BY <1>5 DEF ChatKey, SendMessage
  <2>3. discord_input' \in Texts(InputSize)
    BY <1>0, <2>2, EditTypes
  <2> QED
    BY <2>1, <2>3
<1>6. CASE Mouse \/ Hand
  BY <1>1, <1>6, HandKeepsTexts DEF TextsKept
<1>7. CASE terminal_handle_input
  BY <1>2, <1>3, <1>4, <1>7 DEF terminal_handle_input, TerminalTakes, Nothing, panels
<1>8. CASE poll_keyboard
  BY <1>2, <1>3, <1>4, <1>5, <1>8 DEF poll_keyboard, PollTakes, Nothing, panels
<1>9. CASE poll_keyboard_files
  BY <1>3, <1>9 DEF poll_keyboard_files
<1>10. CASE UNCHANGED vars
  BY <1>2, <1>10 DEF vars
<1> QED
  BY <1>6, <1>7, <1>8, <1>9, <1>10 DEF Next, MainLoop

(* The chat's rows never outgrow the panel.                                *)
RowsInv == ChatInv /\ Len(discord_msgs) <= Rows

LEMMA AppendedRows ==
  ASSUME NEW msgs \in Seq(Lines), Len(msgs) <= Rows, NEW m \in Lines
  PROVE  Appended(msgs, m) \in Seq(Lines) /\ Len(Appended(msgs, m)) <= Rows
<1>0. Rows \in Nat /\ Rows >= 3 /\ Len(msgs) \in Nat
  BY PanelsAssumption
<1>1. CASE Len(msgs) < Rows
  <2>1. /\ Append(msgs, m) \in Seq(Lines)
        /\ Len(Append(msgs, m)) = Len(msgs) + 1
    BY DEF Lines
  <2> QED
    BY <1>0, <1>1, <2>1 DEF Appended
<1>2. CASE ~(Len(msgs) < Rows)
  <2>1. msgs # <<>>
    BY <1>0, <1>2
  <2>2. Tail(msgs) \in Seq(Lines) /\ Len(Tail(msgs)) = Len(msgs) - 1
    BY <2>1
  <2>3. /\ Append(Tail(msgs), m) \in Seq(Lines)
        /\ Len(Append(Tail(msgs), m)) = Len(Tail(msgs)) + 1
    BY <2>2
  <2>4. Appended(msgs, m) = Append(Tail(msgs), m)
    BY <1>2 DEF Appended
  <2> QED
    BY <1>0, <1>2, <2>2, <2>3, <2>4
<1> QED
  BY <1>1, <1>2

LEMMA SeededRows ==
  ASSUME NEW s \in 0 .. 2, NEW c \in 0 .. 2
  PROVE  Len(Seeded(s, c)) <= Rows
<1>1. Seeds[s + 1][c + 1] \in 0 .. 3
  BY DEF Seeds
<1>2. PICK n \in 0 .. 3 : Seeded(s, c) = [i \in 1 .. n |-> "seed"]
  BY <1>1 DEF Seeded
<1>3. Len(Seeded(s, c)) = n
  BY <1>2
<1> QED
  BY <1>3, PanelsAssumption

(* Whatever loads a channel, loads one there is.                           *)
LEMMA RowsStep == RowsInv /\ DragInv /\ [Next]_vars => RowsInv'
<1> SUFFICES ASSUME RowsInv, DragInv, [Next]_vars PROVE RowsInv'
  OBVIOUS
<1>0. ChatInv /\ discord_msgs \in Seq(Lines) /\ Len(discord_msgs) <= Rows
  BY DEF RowsInv, ChatInv
<1>1. CASE UNCHANGED chat
  BY <1>0, <1>1 DEF chat, RowsInv, ChatInv
<1>2. CASE UNCHANGED vars
  BY <1>1, <1>2 DEF vars, panels, chat
<1>3. CASE SendMessage /\ UNCHANGED <<discord_server, discord_channel>>
  <2>1. CASE discord_msgs' = discord_msgs
    BY <1>0, <1>3, <2>1 DEF RowsInv, ChatInv
  <2>2. CASE discord_msgs' = Appended(Appended(discord_msgs, "you"), "bot")
    <3>1. "you" \in Lines /\ "bot" \in Lines
      BY DEF Lines
    <3>2. Len(discord_msgs') <= Rows
      BY <1>0, <2>2, <3>1, AppendedRows
    <3>3. ChatInv'
      BY <1>0, <1>3, <2>2, ExchangeAnswered DEF ChatInv
    <3> QED
      BY <3>2, <3>3 DEF RowsInv
  <2> QED
    BY <1>3, <2>1, <2>2 DEF SendMessage
<1>4. CASE discord_handle_mouse
  <2>1. ChatInv'
    BY <1>0, <1>4, ClickKeepsChat DEF DragInv
  <2>2. \/ UNCHANGED chat
        \/ discord_msgs' = Seeded(discord_server', discord_channel')
    BY <1>4 DEF discord_handle_mouse, LoadChannel
  <2>3. discord_server' \in 0 .. 2 /\ discord_channel' \in 0 .. 2
    BY <2>1 DEF ChatInv
  <2> QED
    BY <1>1, <2>1, <2>2, <2>3, SeededRows DEF RowsInv
<1> QED
  BY <1>1, <1>2, <1>3, <1>4, OnlyChatWrites

(* The pointer, the profile and the loop.                                  *)
PointerOK == /\ button \in BOOLEAN /\ last \in [Handlers -> BOOLEAN]
             /\ dragging \in BOOLEAN /\ drag_off \in Int \X Int
             /\ window \in Int \X Int /\ handled \in BOOLEAN
BuildOK   == <<install_mode, install_focus, wad>> \in Profiles
LoopOK    == /\ pc \in Places /\ key \in Keys \union {"none"}
             /\ inputs \in 0 .. MaxInputs

LEMMA RememberTypes ==
  ASSUME PointerOK, NEW h \in Handlers, Remember(h)
  PROVE  last' \in [Handlers -> BOOLEAN]
  BY DEF PointerOK, Remember

LEMMA WmPointer ==
  ASSUME PointerOK, at \in Points \union {Away}, wm_handle_input
  PROVE  PointerOK'
<1>0. X \in Int /\ Y \in Int
  BY PointInside
<1>1. last' \in [Handlers -> BOOLEAN] /\ button' = button /\ handled' = handled
  BY RememberTypes DEF wm_handle_input, Handlers
<1>2. window[1] \in Int /\ window[2] \in Int /\ drag_off[1] \in Int /\ drag_off[2] \in Int
  BY DEF PointerOK
<1>3. window' \in Int \X Int
  <2>1. CASE window' = window
    BY <2>1 DEF PointerOK
  <2>2. CASE window' = <<AtLeast(X - drag_off[1], 0), AtLeast(Y - drag_off[2], 28)>>
    <3>1. AtLeast(X - drag_off[1], 0) \in Int /\ AtLeast(Y - drag_off[2], 28) \in Int
      BY <1>0, <1>2 DEF AtLeast
    <3> QED
      BY <2>2, <3>1
  <2> QED
    BY <2>1, <2>2 DEF wm_handle_input
<1>4. drag_off' \in Int \X Int
  <2>1. CASE drag_off' = drag_off
    BY <2>1 DEF PointerOK
  <2>2. CASE drag_off' = <<X - window[1], Y - window[2]>>
    BY <1>0, <1>2, <2>2
  <2> QED
    BY <2>1, <2>2 DEF wm_handle_input
<1>5. dragging' \in BOOLEAN
  BY DEF wm_handle_input, PointerOK
<1> QED
  BY <1>1, <1>3, <1>4, <1>5 DEF PointerOK

LEMMA PointerStep == PointerOK /\ DragInv /\ [Next]_vars => PointerOK'
<1> SUFFICES ASSUME PointerOK, DragInv, [Next]_vars PROVE PointerOK'
  OBVIOUS
<1>1. ASSUME UNCHANGED <<button, dragging, drag_off, window>>,
             last' \in [Handlers -> BOOLEAN], handled' \in BOOLEAN
      PROVE  PointerOK'
  BY <1>1 DEF PointerOK
<1>2. ASSUME NEW h \in Handlers, Remember(h) \/ UNCHANGED last, UNCHANGED unmoved
      PROVE  PointerOK'
  BY <1>1, <1>2, RememberTypes DEF PointerOK, unmoved
<1>3. CASE UNCHANGED pointer
  BY <1>1, <1>3 DEF PointerOK, pointer
<1>4. CASE wm_handle_input
  BY <1>4, WmPointer DEF DragInv
<1>5. CASE doom_handle_mouse
  BY <1>2, <1>5 DEF doom_handle_mouse, Handlers
<1>6. CASE textviewer_handle_mouse
  BY <1>2, <1>6 DEF textviewer_handle_mouse, Handlers
<1>7. CASE files_handle_mouse
  BY <1>2, <1>7 DEF files_handle_mouse, Handlers
<1>8. CASE discord_handle_mouse
  BY <1>2, <1>8 DEF discord_handle_mouse, Handlers
<1>9. CASE apps_handle_mouse
  <2>1. last' \in [Handlers -> BOOLEAN]
    BY <1>9, RememberTypes DEF apps_handle_mouse, Handlers, PointerOK
  <2>2. handled' \in BOOLEAN
    BY <1>9 DEF apps_handle_mouse
  <2> QED
    BY <1>1, <1>9, <2>1, <2>2 DEF apps_handle_mouse
<1>10. CASE desktop_handle_mouse
  BY <1>2, <1>10 DEF desktop_handle_mouse, Handlers
<1>11. CASE Hand
  BY <1>11 DEF Hand, PointerOK
<1>12. CASE terminal_handle_input \/ poll_keyboard \/ poll_keyboard_files
  BY <1>3, <1>12 DEF terminal_handle_input, poll_keyboard, poll_keyboard_files
<1>13. CASE UNCHANGED vars
  BY <1>3, <1>13 DEF vars
<1> QED
  BY <1>4, <1>5, <1>6, <1>7, <1>8, <1>9, <1>10, <1>11, <1>12, <1>13
  DEF Next, MainLoop, Mouse

LEMMA BuildKept == ASSUME [Next]_vars PROVE UNCHANGED build
<1>1. CASE Mouse \/ Hand
  BY <1>1 DEF Mouse, Hand, wm_handle_input, doom_handle_mouse, textviewer_handle_mouse,
     files_handle_mouse, discord_handle_mouse, apps_handle_mouse, desktop_handle_mouse,
     panels
<1>2. ASSUME NEW k, \/ GameKey(k) \/ AppKey(k) \/ ChatKey(k) \/ DesktopKey(k)
                    \/ VaultKey(k) \/ ConsoleKey(k)
      PROVE  UNCHANGED build
  BY <1>2 DEF GameKey, AppKey, ChatKey, DesktopKey, DesktopOpens, DesktopToggles,
     VaultKey, ConsoleKey, RunCommand, panels
<1>3. CASE terminal_handle_input
  BY <1>2, <1>3 DEF terminal_handle_input, TerminalTakes, Nothing, panels
<1>4. CASE poll_keyboard
  BY <1>2, <1>4 DEF poll_keyboard, PollTakes, Nothing, panels
<1>5. CASE poll_keyboard_files
  BY <1>2, <1>5 DEF poll_keyboard_files
<1>6. CASE UNCHANGED vars
  BY <1>6 DEF vars, panels
<1> QED
  BY <1>1, <1>3, <1>4, <1>5, <1>6 DEF Next, MainLoop

LEMMA LoopStep == LoopOK /\ [Next]_vars => LoopOK'
<1> SUFFICES ASSUME LoopOK, [Next]_vars PROVE LoopOK'
  OBVIOUS
<1> USE DEF LoopOK
<1>0. MaxInputs \in Nat
  BY BoundAssumption
<1>1. CASE Mouse
  BY <1>1 DEF Mouse, Follows, Places, Handlers
<1>2. CASE terminal_handle_input
  BY <1>0, <1>2 DEF terminal_handle_input, Take, Nothing, Places
<1>3. CASE poll_keyboard
  BY <1>0, <1>3 DEF poll_keyboard, Take, Nothing, Places, Handlers
<1>4. CASE poll_keyboard_files
  BY <1>4 DEF poll_keyboard_files, Places, Handlers
<1>5. CASE Hand
  BY <1>0, <1>5 DEF Hand
<1>6. CASE UNCHANGED vars
  BY <1>6 DEF vars, loop
<1> QED
  BY <1>1, <1>2, <1>3, <1>4, <1>5, <1>6 DEF Next, MainLoop

LEMMA DesktopInit == Init => OpenOK /\ FieldsOK /\ RowsInv /\ PointerOK /\ BuildOK /\ LoopOK
<1> SUFFICES ASSUME Init
             PROVE  OpenOK /\ FieldsOK /\ RowsInv /\ PointerOK /\ BuildOK /\ LoopOK
  OBVIOUS
<1>1. PanelsInit /\ PointerInit /\ pc = "wm" /\ key = "none" /\ inputs \in {0, 1}
  BY DEF Init
<1>2. OpenOK
  BY <1>1 DEF PanelsInit, OpenOK, WindowsOK, SwitchesOK
<1>3. FieldsOK
  <2>1. <<>> \in Seq(Chars \union {"space"}) /\ Len(<<>>) = 0
    OBVIOUS
  <2>2. <<>> \in Texts(NotesSize) /\ <<>> \in Texts(InputSize)
    BY <2>1, PanelsAssumption DEF Texts
  <2> QED
    BY <1>1, <2>2 DEF PanelsInit, FieldsOK
<1>4. RowsInv
  <2>1. discord_msgs = Seeded(0, 0) /\ discord_server = 0 /\ discord_channel = 0
    BY <1>1 DEF PanelsInit
  <2> QED
    BY <2>1, SeededAnswered, SeededRows DEF RowsInv, ChatInv
<1>5. PointerOK
  <2>1. button \in BOOLEAN /\ dragging = FALSE /\ handled = FALSE
    BY <1>1 DEF PointerInit
  <2>2. last \in [Handlers -> BOOLEAN]
    BY <1>1 DEF PointerInit
  <2>3. drag_off \in Int \X Int /\ window \in Int \X Int
    BY <1>1 DEF PointerInit
  <2> QED
    BY <2>1, <2>2, <2>3 DEF PointerOK
<1>6. BuildOK
  <2>1. PICK p \in Profiles : install_mode = p[1] /\ install_focus = p[2] /\ wad = p[3]
    BY <1>1 DEF PanelsInit
  <2>2. p = <<p[1], p[2], p[3]>>
    BY PanelsAssumption
  <2> QED
    BY <2>1, <2>2 DEF BuildOK
<1>7. LoopOK
  BY <1>1, BoundAssumption DEF LoopOK, Places, Handlers
<1> QED
  BY <1>2, <1>3, <1>4, <1>5, <1>6, <1>7

(* Every variable keeps its type: no text outgrows its array, no channel   *)
(* is loaded that there is not and no panel is open that has no name.      *)
THEOREM TypeCorrect == Spec => []TypeOK
<1> DEFINE Rest == OpenOK /\ FieldsOK /\ RowsInv /\ PointerOK /\ BuildOK /\ LoopOK
<1>1. Init => Rest
  BY DesktopInit
<1>2. Rest /\ DragInv /\ [Next]_vars => Rest'
  BY OpenStep, FieldsStep, RowsStep, PointerStep, BuildKept, LoopStep DEF BuildOK, build
<1>3. ShownInv /\ DragInv /\ Rest => TypeOK
  BY DEF TypeOK, ShownInv, ConsoleOK, DragInv, OpenOK, WindowsOK, SwitchesOK, FieldsOK,
     RowsInv, ChatInv, Lines, PointerOK, BuildOK, LoopOK
<1> HIDE DEF Rest
<1> QED
  BY <1>1, <1>2, <1>3, ShownAlways, DragCorrect, PTL DEF Spec
==============================================================================
