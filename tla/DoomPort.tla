------------------------------ MODULE DoomPort ------------------------------
(***************************************************************************)
(* The machine side of the DOOM port, apps/doom/doomgeneric_navine.c with  *)
(* navine_hw.h: keys polled from the shared 8042 into a ring, a clock that *)
(* counts how often it is asked, and the scaled picture.  The game proper  *)
(* (doomgeneric, external) draws, sleeps and asks for keys in any order.   *)
(***************************************************************************)
EXTENDS SharedPort

CONSTANTS KEYQUEUE_SIZE,
          TickWidth,    \* 2 ^ 32
          Tick,         \* the 16 milliseconds navine_get_ticks adds
          Sleeps,       \* the times the game sleeps
          RESX, RESY    \* DOOMGENERIC_RESX and _RESY

\* A sleep within one tick of the clock's range never ends: the difference
\* of two readings is a multiple of Tick below TickWidth.
ASSUME DoomSizes ==
    /\ KEYQUEUE_SIZE \in Nat \ {0}
    /\ Tick \in Nat \ {0} /\ TickWidth \in Nat \ {0} /\ TickWidth % Tick = 0
    /\ Sleeps \subseteq 0 .. TickWidth - Tick
    /\ RESX \in Nat \ {0} /\ RESY \in Nat \ {0}

VARIABLES s_key_queue, s_key_write, s_key_read,
          event,            \* what DG_GetKey gave last: pressed, and the key
          pc,               \* "game", or where in poll_ps2 ("status", "data")
          ticks,            \* the counter of navine_get_ticks
          s_start_ticks,
          sleepStart, sleepMs,   \* DG_SleepMs: its variables; NoSleep outside
          queued,           \* (history) the bytes poll_ps2 queued
          raced             \* (history) a handler ran inside poll_ps2

queueVars == <<s_key_queue, s_key_write, s_key_read, event, queued>>
clockVars == <<ticks, s_start_ticks, sleepStart, sleepMs>>
doomVars == <<s_key_queue, s_key_write, s_key_read, event, queued,
              ticks, s_start_ticks, sleepStart, sleepMs, pc, raced>>

NoSleep == -1

-----------------------------------------------------------------------------
(* The key queue *)

Digits == <<48, 49, 50, 51, 52, 53, 54, 55, 56, 57>>
TopRow == <<113, 119, 101, 114, 116, 121, 117, 105, 111, 112>>
HomeRow == <<97, 115, 100, 102, 103, 104, 106, 107, 108>>
LowRow == <<122, 120, 99, 118, 98, 110, 109>>

\* A scan code without its release bit as a key of the game: the named keys,
\* the rows of letters, and any other code as it is.
convert_scancode(sc) ==
    CASE sc = 1 -> 27           \* KEY_ESCAPE
      [] sc = 28 -> 13          \* KEY_ENTER
      [] sc = 14 -> 127         \* KEY_BACKSPACE
      [] sc = 72 -> 173         \* KEY_UPARROW
      [] sc = 80 -> 175         \* KEY_DOWNARROW
      [] sc = 75 -> 172         \* KEY_LEFTARROW
      [] sc = 77 -> 174         \* KEY_RIGHTARROW
      [] sc \in {42, 54} -> 182 \* KEY_RSHIFT
      [] sc = 29 -> 163         \* KEY_FIRE
      [] sc = 57 -> 162         \* KEY_USE
      [] sc \in 2 .. 11 -> Digits[sc - 1]
      [] sc \in 16 .. 25 -> TopRow[sc - 15]
      [] sc \in 30 .. 38 -> HomeRow[sc - 29]
      [] sc \in 44 .. 50 -> LowRow[sc - 43]
      [] OTHER -> sc

\* Bit 8 says pressed.
EventOf(byte) ==
    IF byte >= 128 THEN convert_scancode(byte - 128)
    ELSE 256 + convert_scancode(byte)

\* Slip: the writing position is kept within the ring, the reading one not.
queue_key_masked(item) ==
    /\ s_key_queue' =
          [s_key_queue EXCEPT ![s_key_write % KEYQUEUE_SIZE] = EventOf(item.byte)]
    /\ s_key_write' = (s_key_write + 1) % KEYQUEUE_SIZE
    /\ queued' = Append(queued, item)
    /\ UNCHANGED <<s_key_read, event>>

\* The ring is not checked for room: an old entry is overwritten.
queue_key(item) ==
    /\ s_key_queue' =
          [s_key_queue EXCEPT ![s_key_write % KEYQUEUE_SIZE] = EventOf(item.byte)]
    /\ s_key_write' = s_key_write + 1
    /\ queued' = Append(queued, item)
    /\ UNCHANGED <<s_key_read, event>>

\* poll_ps2 looks at the status and then reads the data, until no byte waits;
\* a byte of the mouse is taken for a key.
PollStatus ==
    /\ pc = "status"
    /\ pc' = IF StatusFull THEN "data" ELSE "game"
    /\ UNCHANGED <<portVars, queueVars, clockVars, raced>>

\* Slip: the byte is read once to look at its release bit and once for the key.
PollData_twice ==
    /\ pc = "data"
    /\ dataReg' = IF Len(port) > 1 THEN port[2] ELSE InData
    /\ port' = IF Len(port) > 1 THEN Tail(Tail(port)) ELSE AfterRead
    /\ latched' = (port' # <<>>)
    /\ queue_key(dataReg')
    /\ pc' = "status"
    /\ UNCHANGED <<sent, taken, clockVars, raced>>

PollData ==
    /\ pc = "data"
    /\ ProgramReads
    /\ queue_key(InData)
    /\ pc' = "status"
    /\ UNCHANGED <<clockVars, raced>>

DG_GetKey ==
    /\ pc = "game" /\ sleepStart = NoSleep
    /\ IF s_key_read = s_key_write THEN UNCHANGED <<event, s_key_read>>
       ELSE /\ event' = s_key_queue[s_key_read % KEYQUEUE_SIZE]
            /\ s_key_read' = s_key_read + 1
    /\ UNCHANGED <<portVars, s_key_queue, s_key_write, queued, clockVars, pc, raced>>

-----------------------------------------------------------------------------
(* The clock *)

Asked == (ticks + 1) % TickWidth
TimeOf(count) == (count * Tick) % TickWidth

DG_GetTicksMs ==
    /\ pc = "game" /\ sleepStart = NoSleep
    /\ ticks' = Asked
    /\ UNCHANGED <<portVars, queueVars, s_start_ticks, sleepStart, sleepMs, pc, raced>>

SleepBegins(ms) ==
    /\ pc = "game" /\ sleepStart = NoSleep
    /\ ticks' = Asked
    /\ sleepStart' = TimeOf(Asked)
    /\ sleepMs' = ms
    /\ UNCHANGED <<portVars, queueVars, s_start_ticks, pc, raced>>

\* Slip: the readings are compared without the wrap of the clock.
Slept_signed == TimeOf(Asked) - sleepStart

\* The difference of unsigned readings, so the clock may wrap in between.
Slept == (TimeOf(Asked) - sleepStart) % TickWidth

DG_SleepMs ==
    /\ pc = "game" /\ sleepStart # NoSleep
    /\ ticks' = Asked
    /\ IF Slept < sleepMs
       THEN pc' = "status" /\ UNCHANGED <<sleepStart, sleepMs>>
       ELSE sleepStart' = NoSleep /\ sleepMs' = NoSleep /\ UNCHANGED pc
    /\ UNCHANGED <<portVars, queueVars, s_start_ticks, raced>>

-----------------------------------------------------------------------------
(* The picture *)

Half(n) == IF n >= 0 THEN n \div 2 ELSE -((-n) \div 2)

\* The width alone decides the scale.
s_scale(fb) == IF fb.width > RESX THEN fb.width \div RESX ELSE 1
s_offset_x(fb) == Half(fb.width - RESX * s_scale(fb))
s_offset_y(fb) == Half(fb.height - RESY * s_scale(fb))

\* Where the loops put the pixels of a line, or of a column, of the picture:
\* pairs of a position on the screen and one in the picture.
Spread(size, offset, scale, limit) ==
    { <<offset + n * scale + sub, n>> : n \in 0 .. size - 1, sub \in 0 .. scale - 1 }
        \cap ((0 .. limit - 1) \X (0 .. size - 1))

FrameColumns(fb) == Spread(RESX, s_offset_x(fb), s_scale(fb), fb.width)
FrameRows(fb) == Spread(RESY, s_offset_y(fb), s_scale(fb), fb.height)

\* A frame polls the keys before it is drawn; without a screen it does not.
DG_DrawFrame(fb) ==
    /\ pc = "game" /\ sleepStart = NoSleep
    /\ pc' = IF fb.base THEN "status" ELSE "game"
    /\ UNCHANGED <<portVars, queueVars, clockVars, raced>>

-----------------------------------------------------------------------------
\* DG_Init.
DoomInit ==
    /\ s_key_queue = [i \in 0 .. KEYQUEUE_SIZE - 1 |-> 0]
    /\ s_key_write = 0 /\ s_key_read = 0 /\ event = 0 /\ queued = <<>>
    /\ ticks = 1 /\ s_start_ticks = Tick % TickWidth
    /\ sleepStart = NoSleep /\ sleepMs = NoSleep
    /\ pc = "game" /\ raced = FALSE

\* A handler of the kernel between two instructions of the port.
DoomInterrupted ==
    /\ KernelTakes
    /\ raced' = (raced \/ pc = "data")
    /\ UNCHANGED <<queueVars, clockVars, pc>>

DoomSends == DeviceSends /\ UNCHANGED doomVars

PollStep == PollStatus \/ PollData \/ DG_SleepMs

DoomGame(fb) ==
    \/ DG_GetKey \/ DG_GetTicksMs \/ DG_DrawFrame(fb)
    \/ \E ms \in Sleeps : SleepBegins(ms)

DoomNext(fb) == PollStep \/ DoomGame(fb) \/ DoomInterrupted \/ DoomSends

-----------------------------------------------------------------------------
\* The events that wait, as they were queued.
EventsWaiting ==
    [i \in 1 .. s_key_write - s_key_read |-> EventOf(queued[s_key_read + i].byte)]

EventFifo == INSTANCE KeyFifo
    WITH queue <- EventsWaiting, key <- event, Byte <- 0 .. 511,
         Capacity <- KEYQUEUE_SIZE

(***************************************************************************)
(* The ring of the port is the abstract queue of key events: the game gets *)
(* them in order, once each, while no more than KEYQUEUE_SIZE wait; a ring *)
(* that has been overrun still gives one event for each that was queued.   *)
(***************************************************************************)
EventsImplementFifo == EventFifo!Spec

Numbers(items) == { item.seq : item \in items }
ItemsOf(items) == { items[i] : i \in DOMAIN items }

(***************************************************************************)
(* Every byte the devices sent is in the controller, queued for the game,  *)
(* or was taken by a handler of the kernel, and it is one of the three;    *)
(* those queued are in the order they were sent.  Only a handler that runs *)
(* between the two port reads of poll_ps2 can make the port queue one byte *)
(* again.                                                                  *)
(***************************************************************************)
BytesAccounted ==
    ~raced =>
        /\ Numbers(ItemsOf(port) \cup ItemsOf(queued) \cup taken) = 1 .. sent
        /\ Len(port) + Len(queued) + Cardinality(taken) = sent
        /\ \A i, j \in DOMAIN queued : i < j => queued[i].seq < queued[j].seq

(***************************************************************************)
(* A sleep ends, also when the clock wraps while it lasts, although no     *)
(* time passes on its own: asking for the time is what makes it advance.   *)
(***************************************************************************)
SleepEnds == sleepStart # NoSleep ~> sleepStart = NoSleep

\* A frame is the picture, enlarged as often as its width fits the screen and
\* at least once, in the middle of both axes as nearly as whole pixels allow:
\* every place of the screen shows the one pixel of the picture over it.
ShownAt(pairs, place) == { p[2] : p \in { q \in pairs : q[1] = place } }

Largest(scale, limit) ==
    /\ scale = 1 \/ RESX * scale <= limit
    /\ RESX * (scale + 1) > limit

Centred(pairs, size, scale, limit) ==
    \E start \in -size * scale .. limit :
        /\ 2 * start - (limit - size * scale) \in -1 .. 1
        /\ \A place \in 0 .. limit - 1 :
              ShownAt(pairs, place) =
                  { k \in 0 .. size - 1 :
                      place \in start + k * scale .. start + (k + 1) * scale - 1 }

FrameRight(fb) ==
    \E scale \in 1 .. fb.width :
        /\ Largest(scale, fb.width)
        /\ Centred(FrameColumns(fb), RESX, scale, fb.width)
        /\ Centred(FrameRows(fb), RESY, scale, fb.height)
=============================================================================
