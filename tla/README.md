# Navine OS: TLA+ models and proofs

A verification development kept beside Navine OS: the x86-64 kernel that boots
(`src/kernel`, NASM), the portable kernel in C that the CMake target builds
(`src/kernel/**/*.c`), and the native programs that run on top (the DOOM port, the
system dashboard, the gui library). It models the parts that take decisions over
time, checks them with TLC on small instances, and proves the properties that matter
most for every size with TLAPS. The Linux editions of the README are distributions
built by scripts and have no code to model here.

The assembly kernel is one program without threads: `kernel_main` (`src/kernel/main.asm`) goes
round a loop, and everything in it is polled. What makes it hard is what happens
between two steps of that loop: interrupts of the keyboard, the mouse and the timer,
a network card that writes memory by itself, a user who moves and presses while
handlers look one after the other, and a disk that is written one sector at a time
while the power may fail. A second hard thing is that state is shared through
plain globals and registers: a counter in `ecx` that a callee overwrites, a flag that
one routine sets after another has read it, a table whose rows are not all of
one length.

## The system

| Component | State | Operations | Met by | What makes it correct |
|---|---|---|---|---|
| Keyboard and mouse (`drivers/ps2_*.asm`, `pic.asm`, `arch/irq.asm`) | scan code ring and two positions, packet bytes and their count, pointer, buttons, the 8042's buffer, PIC latches | IRQ 1, IRQ 12, `ps2_poll_all`, `keyboard_read`, `mouse_render` | interrupts against a poll with interrupts off | a byte is taken once and by the right consumer; keys come out in order; every byte of the mouse is filed once and in order, and packets stay in step, until a scan code is taken for a byte of it |
| Network (`net/*.asm`, `drivers/e1000.asm`) | descriptor rings, `e1000_rx_idx`, RDT, ARP state, DHCP lease, request of the timer | `net_poll`, `net_rx_ipv4`, ARP, `init_network`, waits for DNS and echo | the card's writes, the timer, counted waits | no frame overwritten before it is dispatched; requests not lost; no query without a gateway |
| NavineFS and downloads (`fs/navinefs.asm`, `drivers/ata.asm`, `apps/webengine.asm`) | inode table, journal, mounted flag, one cached block; the same on the disk; count of downloads | mount, format, `navinefs_write`, `navinefs_sync`, `navinefs_register`, restore, shutdown | power cut between any two sectors; overlapping blocks | what the disk names is on the disk; names survive; shutdown saves |
| Installer (`desktop/installer.asm`) | page, field, name, password, mask, choices, completed flag | mouse and key handler, completion, `kernel_late_init` | two readers of one ring, presses held over many passes | texts end where their lengths say; the mask shows the password's length; a press acts once; choices are kept |
| Desktop, window, panels (`desktop/desktop.asm`, `wm/window.asm`, `apps/*.asm`) | which panels are open, texts, chat rows, drag | seven mouse handlers, two key readers, `app_open_*`, `files_toggle`, `doom_launch`, `filetype_run` | the mouse's interrupt between handlers; handlers stacked over each other | a key changes only the text the user is looking at; the window stays reachable |
| Console (`terminal/terminal.asm`) | history, line | `terminal_write`, line editor, `terminal_run_command` | output between two keys | what is shown is what Enter runs |
| File types (`fs/filetypes.asm`, `apps/launcher.asm`) | constant table | look-up, launch | rows of unequal length | documented types are found |
| C kernel: pages (`mm/pmm.c`, `vmm.c`, `mmap.c`) | bitmap, counters, page tables, root in use | `pmm_init`, `pmm_alloc`, `pmm_alloc_n`, `pmm_free`, `vmm_map`, `vmm_unmap`, `mmap_anonymous` | `kernel_main`, drivers | no page has two owners or none; a call changes the translations it was asked for and no other |
| C kernel: heap (`mm/heap.c`) | next free byte | `kmalloc`, `kcalloc`, aligned | the same | blocks lie in the heap and apart |
| C kernel: files (`fs/vfs.c`, `namei.c`) | nodes, their chains, drivers | register, create, look up, resolve | the same | a path leads to the newest entry of its names |
| C kernel: tasks (`proc/*.c`) | table of tasks, ticks | create, tick, signal, system call | the same | a slot is given out once |
| C kernel: early console (`printk.c`) | cursor, frame buffer | `early_puts`, `printk`, `kernel_panic` | every part, when it fails | text is readable: on the screen, nothing over anything |
| C kernel: interrupt set-up (`gdt.c`, `idt.c`, `pic.c`) | two tables, two controllers' words | init, remap, mask, end of interrupt | an interrupt between two writes | the controllers end as asked for |
| DOOM port (`apps/doom/*.c`) | ring of key events, clock, heap, picture | `DG_*`, `malloc`, copying and comparing | the kernel's handlers, at the controller | no byte twice; the game gets keys in order; a sleep ends; copies are exact |
| Dashboard, gui (`apps/system`, `gui`) | rectangles to draw | `draw_dashboard`, `Canvas::fill` | the kernel's handlers, at the controller | what is painted is what was asked for, within the screen; Esc leaves |
| Assembly scheduler, memory, VFS, system calls, modes (`proc`, `mm`, `fs/vfs.asm`, `arch/syscalls.asm`) | tables, counters | | nothing calls them after the boot | left out, see below |
| TLS, HTML, WebSocket (`net/tls.asm`, `html.asm`, `websocket.asm`) | parsers' positions, record state | parse, frame | a connection the guest opens itself; it opens none, since no DNS answer gets through | left out |
| Compatibility, ELF, PE, DMG (`compat/*.asm`, `elf/loader.asm`) | loaded image | probe, map, run | the launcher | only by its outcome (a loaded program never returns) |
| Boot loader, pixel drawing, host tools, stubs of a few lines | | | | left out |

How they interact: every pass of the loop calls `ps2_poll_all`, then either the
installer's handlers or, after `kernel_late_init`, the seven mouse handlers; it
draws, starts the network once, and lets two readers take a scan code each from the
ring. The timer interrupt only sets `net_irq_pending`. The file system is
reached only from the installer's completion, the late start, the download command and
the shutdown command. Panels, console and launcher call each other directly.

The launcher leaves the loop for a native program (`cppapp_launch`, `doom_launch_raw`)
with interrupts on: from then on the program's polling and the kernel's handlers of
IRQ 1 and IRQ 12 read one controller. The C kernel is another program: it is single
threaded too, and its parts meet in `kernel_main`, in the pages that the page tables
and `mmap` take from the bitmap, and in the console that any of them may panic on.

`PROJECT.json` lists every component with its status, and the hazards found, each at
its line, with the property that would notice it.

## Modules

| Module | Models | Run by | Proofs |
|---|---|---|---|
| `Ps2Input` | 8042, PIC, both interrupt handlers, polling loop, ring, packets, cursor | `MCPs2Input` | `Ps2InputProofs` |
| `KeyFifo` | abstract: a queue of scan codes that gives up order only when more than its capacity wait | refined by `Ps2Input` | (same) |
| `Network` | receive ring, card, `net_poll`, ARP, DHCP dispatch, network start, DNS and echo waits | `MCNetwork` | `NetworkProofs` |
| `Storage` | NavineFS on disk and in memory, downloads, shutdown, power cuts, both editions | `MCStorage` | `StorageProofs` |
| `Installer` | the three pages, keys, clicks, completion, late start | `MCInstaller` | `InstallerProofs` |
| `Console` | history and line of the terminal | with `Desktop` | |
| `Panels` | what can be open, and what opens it | with `Desktop` | |
| `DesktopKeys` | every handler of a key and the order the two readers ask them in | with `Desktop` | |
| `DesktopPointer` | the seven handlers of the mouse | with `Desktop` | |
| `Desktop` | the loop over all of these, the hand on the mouse | `MCDesktop` | `DesktopProofs` |
| `FileTypes` | `ext_table` byte by byte and the search through it | gives `MCDesktop` its `Handler` | |
| `AddressSpace` | abstract: a function from virtual pages to frames and the edits asked of it | refined by `Memory` | |
| `Memory` | bitmap of pages, page tables, mmap | with `Scaffold` | `MemoryProofs` |
| `Arena` | abstract: blocks of an area, apart | refined by `KernelHeap` and by `DoomLibc` | |
| `KernelHeap` | the heap of the C kernel | with `Scaffold` | `ScaffoldProofs` |
| `FileTree` | abstract: named entries below a root, the newest hiding older ones | refined by `Vfs` | |
| `Vfs` | nodes, chains, the walk along a path | with `Scaffold` | `ScaffoldProofs` |
| `Tasks` | the table of tasks and what ends one | with `Scaffold` | `ScaffoldProofs` |
| `EarlyConsole` | the cursor and what was drawn where | with `Scaffold` | `ScaffoldProofs` |
| `Interrupts` | descriptor tables, the two controllers write by write | with `Scaffold` | `ScaffoldProofs` |
| `Scaffold` | `kernel_main` and the calls of all of these | `MCScaffold` | `ScaffoldProofs`, `MemoryProofs` |
| `SharedPort` | the 8042 between a native program and the kernel's handlers | with `Programs` | `ProgramsProofs` |
| `DoomPort` | keys, clock, sleep and picture of the DOOM port | with `Programs` | `ProgramsProofs` |
| `DoomLibc`, `DoomStrings` | its heap and copies; its comparisons and searches | with `Programs` | `ProgramsProofs` |
| `Painting`, `Dashboard` | rectangles and text; the dashboard's loop | with `Programs` | `ProgramsProofs` (painting) |
| `Programs` | which program runs, and all of the above | `MCPrograms` | `ProgramsProofs` |

Names of operators are the labels of the source wherever one label is one operator.
`map` in `PROJECT.json` ties each definition to the lines it stands for.

### Ps2Input

One step per port access of `ps2_poll_all` (`pc` = `poll`, `status`, `data`), one step
per interrupt handler (interrupts are off from its gate to its `iretq`), one step per
access of the clamp in `mouse_render` (`x0` .. `y1`) and one per reader (`kb1`, `kb2`).
`port` is what the controller holds, `irr` and `isr` are the PIC's registers, so an
interrupt can be latched for a byte the poll then takes: its handler reads the data port
all the same. Between these steps the loop calls the rest of the system: `away` says that it
is inside such a call, with interrupts on, and `Return` brings it back, which it need
not (a wait of the network, a program that was started). `stored`, `filed`, `stale` and
`astray` are history: what was put into the ring and what was given to
`mouse_process_byte`, with its origin; whether IRQ 1 found no byte of its own; and
whether something else than a byte of the mouse was filed. The code has that last case: a
scan code that is polled in the middle of a packet is filed into it
(`ps2_keyboard.asm:77`), and all packets behind it are shifted. What
`MouseBytesFiled` says holds up to there. `key_read_pos` and
`key_write_pos` count without limit; the code's positions are 64-bit and masked, and
overflow is not reached.

### Network

The main loop is a sequential program with `pc`; `net_poll` handles one frame per step and
`ret` says where it was called from. The card (`FrameArrives`) writes into the
descriptor at RDH whenever RDT allows it, at any time; `kernel_net_tick` is the timer.
Frames are abstracted to what the driver looks at (`ArpFrame`, `IpFrame`), which is not
what the formats mean: the done bit is read at the checksum's offset, so a frame
whose checksum is even holds the ring up; dispatch of IPv4 goes by the first byte of
the payload, for `net_rx_ipv4` loses the protocol; the counted waits do not count down because
`net_poll` leaves its own `ecx`. They may expire all the same: a payload that begins with 6
is dispatched to `net_rx_tcp`, which takes a SYN+ACK nobody asked for and data behind it and
acknowledges them; the transmission leaves in `ecx` what was left of its own count,
which may be any as long as the ring of transmit descriptors is on its first lap
(`FirstLap`) and is the whole count, 100000, afterwards. `expiring` says that such a number makes the caller's
count run out, `lapsed` counts the waits that ended so, `sent` and `astray` the queries that
left for a known gateway and for none. All of this is in the actions, so that the properties say
what still holds: for example that no frame is overwritten although the driver looks
at descriptors of an older lap as if they were done. A connection the guest opens, and
with it HTTP, TLS and WebSocket, is never reached, since no DNS answer gets through; what
`net_rx_tcp` files for one (sequence numbers, the payload) is left out.

### Storage

Two editions (`cli`): the desktop's installer mounts and formats, its late start mounts
again and restores the count; the command line edition mounts only. `navinefs_sync` fills
`todo` with the sectors to be written and `WriteSector` writes them one by one;
`PowerCut` is enabled in every state and loses memory. Block n starts at sector n and is
eight sectors long, so a block runs over the next seven: `BlockWrites` does that.
Shutdown can only be typed in the command line edition. Contents of blocks are the
names the code writes into them.

### Installer

Each pass is three steps (`installer_handle_mouse`, `installer_poll`, `poll_keyboard`)
and `kernel_late_init` after completion. `poll_keyboard` takes a key of the
same ring and offers it to the desktop: while the installer runs nobody wants it, but
in the iteration that has completed it, before the late start, g and h switch the two modes,
and g the scheduler's boost with them (`switched` is the history of that). The user types, presses
and lets go between any two. Boxes are the rectangles of the source, in pixels, for the
hit test and for the drawing of the sign-in page. Texts are functions of an index,
with the byte that ends them, because that byte is what the properties are about.

### Desktop

`Desktop` goes through the handlers in the order of `kernel_main` (`Follows`), then the
two readers and, after `poll_keyboard` has offered its key to the desktop, the Vault
(`poll_keyboard_files`: the code calls `files_handle_key` whether or not the desktop took
the key). `Hand` changes the button or the pointer between any two of these; where the
pointer is while the button is up tells nothing apart, so it is kept only while the
button is held.
Each handler keeps its own copy of the button (`last`) and updates it only while its
panel is open. `TerminalTakes` and `PollTakes` are the two orders in which a key is
offered: the terminal's reader does not ask the chat, the other does not ask the
console. One cell of the history stands for a typed character, a line break, a prompt or a
whole message. Commands are told apart by what they open; two lines that do the same are
one. Which branch of `filetype_run` an entry of the Vault takes is computed by
`FileTypes` from the bytes of `ext_table`. Drawing, the clock, the calculator's
arithmetic, the browser's pages and the player's place in the game are left out; a move in
the game may win it.

### Scaffold and its parts

`boot` is where `kernel_main` is: each initialisation is a step, or as many as its loop
has rounds that change something (`pmm_init` one entry of the memory map, `pic_remap` one
port write, the console one character). When it is done `uses` says which part is called,
`MaxCalls` times, in any order and with any arguments of the instance. One part is
exercised at a time (`Workloads`), since the only state two parts share is the bitmap, and
that is within one part, `Memory`.

`Memory` counts in pages. A walk of `vmm_map` is one `ensure_table` per step (`level`,
`at`), and a walk that finds no page stops there and leaves the tables it made; an
unmapping reads without making any. `given` is history: the pages that were handed
out by `pmm_alloc` or `pmm_alloc_n` and not given back. Assumed of the caller
(`MemorySize`, `EntriesApart`, `BootTree`): two usable entries of the memory map do not
share a page, the loader's tables form a tree, virtual pages lie above what the loader
maps with large pages, and `pmm_free` gets what `pmm_alloc` gave. The code checks none of
these.

`Vfs` keeps the arrays `first_child` and `next_sibling` as the code has them; names are
abstracted to what a node of that name holds after `copy_name` cut it (`Stored`), so that
two long names may become one. `Tasks` finds a slot by its state alone, as the code does.
`EarlyConsole` records the corners of the glyphs drawn, in the order they were drawn (`glyphs`).
`Interrupts` has the pair of 8259A as an external part that takes words in its own
order. An interrupt may be accepted between any two writes of a call, at any time after
the boot; its handler writes its words for the end of interrupt (`eois`, `EoiWrite`)
before the call goes on. No C file enables interrupts yet; a driver that uses these calls
must, so the interrupts are those of the caller's machine.

### Programs

One of the programs runs (`program`), on one frame buffer (`fb`). `SharedPort` is the
controller: what a handler of the kernel takes is lost to the program (`taken`), and an
empty controller answers with the byte it gave last. `DoomPort` has one step for the
status read and one for the data read of `poll_ps2`, so that a handler may come between
(`raced`). The clock counts how often it is asked, so a sleep is a loop over it that ends
also when the clock wraps. The game is external: it may ask for keys, for the time, to
sleep or to draw, in any order. `DoomLibc` runs a copying routine byte by byte over a small
memory in which the areas may overlap or touch the end; `DoomStrings` are the routines
that change nothing, as operators, one pair of strings a state. Its integers have a width
(`IntWidth`, 2^32 for `int` and for `long` of the compiler that builds the port) and wrap, as
the compiled sums of `atoi` and `strtol` do; `NumbersExact` speaks of numbers that fit.
`Painting` gives the spans of pixels that the clipping of `rect` and `Canvas::fill` leaves
in each axis; its coordinates are integers without a width, so rectangles whose
corner lies near 2^31 are not covered.

## Runs

Bounds are constants of the modules, named as bounds there. Each makes its interesting
case happen: rings that overrun, journals that wrap, lists that are full.

| Run | Instance | Asks | States, time |
|---|---|---|---|
| `ps2_safety` | ring of 2, 3 bytes, port depth 2, 64x40 screen, fair | `RingHoldsLatest`, `KeysStoredOnce`, `MouseBytesFiled`, `ImplementsKeyFifo`, `PortDrains`, `KeysRead` | 245 thousand, 60 s |
| `net_safety` | 3 descriptors to receive, 5 to transmit, 4 frames, fair | `HandledInOrder`, `RequestKept`, `GatewayTrusted`, `NoFrameOverwritten`, `EveryFrameDispatched`, `StartEnds` | 304 thousand, 88 s |
| `net_lease` | 4 descriptors, 3 frames | `LeaseTaken`: violated | seconds |
| `storage_safety` | 3 packages, 6 inodes, journal of 2, blocks of 3 sectors, 3 starts | `DiskKeepsUp`, `FlagsTrue`, `NamedBlocksWritten`, `NamesKept` | 3166, 1 s |
| `storage_download` | same | `DownloadStored`: violated | seconds |
| `installer_safety` | texts of 2, 1024x768, 7 keys, 1 press | `TextsShown`, `AccountSaved`, `OncePerPress`, `SignInHitsDrawn`, `EarlierChoicesKept` | 1.3 million, 40 s |
| `installer_profile` | same | `ProfileKept`: violated | seconds |
| `desktop_safety` | 9 points on 1024x768, 14 keys, history of 5, line of 2, 4 inputs | `TypedIsShown`, `TypedWhereShown`, `SentAnswered`, `TitleReachable` | 1.8 million, 31 s |
| `desktop_commands` | same, history of 4 | `LettersTyped`: violated | seconds |
| `desktop_filetypes` | same, history of 4 | `LauncherRoutes`: violated | seconds |
| `scaffold_safety` | 9 pages of which 5 free, tables of 2 entries, heap of 64, 4 nodes, 3 tasks, 2 lines of text, 5 calls and interrupts | `FramesAccounted`, `SlotsKept`, `ScreenText`, `ChipsAsWanted`, `ImplementsAddressSpace`, `ImplementsFileTree`, `HeapImplementsArena` | 1.0 million, 53 s |
| `programs_safety` | ring of 2 events, 3 bytes, clock of 4 ticks, heap of 48, memory of 5, strings of 3, numbers of 10 bits, screens of 1x1 to 640x480, fair | `DoomBytesAccounted`, `PaintedRight`, `LibraryExact`, `NumbersExact`, `EventsImplementFifo`, `MallocImplementsArena`, `SleepEnds`, `EscReturns` | 352 thousand, 33 s |

Why the bounds are enough. *Ps2:* a ring of two is overrun by three scan codes, three
bytes are a packet, the overrun, or a scan code in the middle of a packet; a port of depth 2
has a byte behind the one a handler takes. *Network:* four frames are more than a lap of a
ring of three, so the driver meets the stale descriptors of the lap before; five descriptors
to transmit leave room on the first lap for a search that lapses, the acknowledgement
that brings it about, and the query that then leaves without a gateway. (The source has one
number for both rings; the model has two, `NET_DESC_COUNT` and `TxCount`, of which nothing
needs that they are equal.) *Storage:* three packages reach the name
past the end and the fault behind it; three starts are a disk left by a run that was
left by a run; blocks of three sectors overlap two others.
*Installer:* texts of two
characters are empty, part full and full; seven keys type, erase, switch, and are a
letter of the desktop's. *Desktop:* four
inputs open something, act in it, leave it and act again; five cells of history leave
room for one character more than the line keeps; the points lie where two rectangles overlap. *Scaffold:* five free pages are used up in the
middle of the second walk, which needs three tables; two entries a level let two addresses share
tables and differ at every level; four nodes are filled with names that hide and names
that are cut; two lines of text reach the end of the screen. *Programs:* a ring of two is
overrun by three bytes; a clock of four ticks wraps inside a sleep of three; five bytes hold
two areas that overlap either way; screens are smaller than the picture in each axis, equal and larger, and
strings of three bytes differ, end, and differ in case at every position; of three
digits a number fits into ten bits or does not. The proofs take
the bounds away where they exist.

`CHECK_DEADLOCK` is off where the system may stop: the machine is shut down or faulted
(`Storage`), the bounded input or the bounded calls are used up (`Installer`, `Desktop`,
`Scaffold`), a program has taken the machine (`Desktop`) or has returned (`Programs`).

Every property of a passing run has a slip in the modules, an operator marked as such that
changes one definition the way a small mistake would, and with which the run fails.

### Fairness

`Ps2Input`: `WF(MainLoop)`, since a processor goes on: the loop takes its next step
whenever it is not inside a call (`away`). That a call comes back is not assumed, for the
waits for a DNS answer or an echo, the start of the network and launched
programs may keep it for good; `KeysRead` therefore speaks of behaviours in which the loop is
back again and again (`[]<>~away`), and `PortDrains`, which the handlers see to alone, of
all. `SF(irq1_handler)` and
`SF(irq12_handler)`, since a latched interrupt is taken at the first instruction with
the flag set, and the flag is set again and again, between polls, but not
continuously. The devices and the user are not fair. `Network`: `WF(MainLoop)` and
`WF(kernel_net_tick)`, since the timer keeps ticking; the network delivers what it
likes. `Programs`: `WF(PollStep)` and `WF(DashboardStep)`, since a native program has the
processor to itself between interrupts and these are loops without a wait; the game may
stop asking for keys, and the devices may stop sending. `SleepEnds` needs that the devices
send finitely many bytes (`MaxBytes`): `poll_ps2`, which a sleep calls in each
round, has no end of its own while bytes keep coming. `EscReturns` is
excused by an Esc that a handler of the kernel has taken. The other
models state safety only.

## What is proved

All proofs are for every value of the constants that meets the named assumptions of the
modules; the bounds on inputs are arbitrary naturals there. The assumptions are those the
code meets: ring sizes of at least one (`Ps2Input`, `DoomPort`) or two (`Network`, both rings), a screen of at
least 24x24 for the cursor, 880x560 for the installer and 760x500 for the
desktop, a repository that is not empty and shorter than the limit of downloads and the inode
table (`Storage`), disjoint sets of characters and marks (`Console`, `DesktopKeys`), the
memory map and tables described above (`Memory`), sizes that do not wrap a sum
(`KernelHeap`, `DoomLibc`), an even number of values in an integer (`DoomStrings`), a screen of one line (`EarlyConsole`), strings of bytes with an
end, whose slashes are no letters (`DoomStrings`). Two theorems have a condition of their own:
`SignInCorrect` needs a framebuffer narrower than 1920, the width at which `font_init`
(`gfx/font.asm:28`) doubles the letters; from there on the property is false, see below.
`LeaseNeverTaken` needs that no answer for port 68 comes from a port whose high byte is 17,
which the dispatch would take for UDP; a DHCP server sends from 67.

| Theorem | Property | Argument |
|---|---|---|
| `Ps2Input`: `TypeCorrect`, `RingCorrect` | `TypeOK`, `RingHoldsLatest` | inductive together: a write touches one slot, which is the one that leaves the last RingSize |
| `KeysOnce` | `KeysStoredOnce` | `OnceInv`: the poll owns the port between status and data (`PollOwnsPort`), bytes in the port are newer than all that were stored (`PortOrdered`, `StoredBefore`) |
| `FifoCorrect` | `ImplementsKeyFifo` | step by step: a store is an Accept (`PutIsAccept`), a read is a Take (`ReadIsTake`), all else stutters; needs `RingHoldsLatest` |
| `MouseBytesCorrect` | `MouseBytesFiled` | `InStep`: filing a byte moves the packet machine one place on, if each third byte can start a packet; `Accounted`: every byte sent is in the controller, the ring's history or filed; `MouseInv` on top of `OnceInv`: bytes in the controller are newer than all that were filed |
| `Network`: `TypeCorrect`, `NothingOverwritten` | `TypeOK`, `NoFrameOverwritten` | `RingInv`: RDT is one behind the driver's index, all fresh frames lie between RDT and RDH (`Ahead`) |
| `OrderCorrect` | `HandledInOrder` | `LapInv`: until the driver has gone round once its index is the number of frames dispatched, the card is on the same lap, or the next and behind the driver, and from the index on lie the frames of the first lap, each in its slot |
| `RequestsCorrect` | `RequestKept` | inductive as it stands: the flag is cleared by one step, which begins the poll at once, and only the timer sets either side |
| `GatewayCorrect` (from `GatewayKept`, `QueriesAddressed`) | `GatewayTrusted` | `StartInv` and `GatewayInv`: the pending flag is down once an address is known; `QueryInv`: a query follows another only over a wait that lapsed, one without a gateway over two; `LapseInv`: a wait lapses only by a transmission on the first lap, and each takes two descriptors, so fewer than half as many lapse as there are |
| `QueriesUnanswered` | (no wait for an answer ever sees one; at most half as many queries leave as there are transmit descriptors) | `AnswerInv`: no frame is ever taken for an answer; from `QueryInv` and `LapseInv` the rest |
| `LeaseNeverTaken` | (refutes `LeaseTaken` everywhere) | `Received`: the driver hands over only frames that arrived; none of them reaches the handler of a lease |
| `Storage`: `MountCorrect`, `NamesStay` | `MountedIffMagic`, `NamesKept` | `Syncing` says of each table whether it is still among the sectors to be written; `Agree` that a mounted table agrees with every name on the disk |
| `DiskCorrect` (from `BehindCorrect`, `ShutdownCorrect`) | `DiskKeepsUp` | `BehindInv`: when a name is about to be stored, memory and disk agree; a sync brings them together again, and a shutdown ends with one |
| `BlocksCorrect`, `FlagsCorrect` | `NamedBlocksWritten`, `FlagsTrue` | `DesktopInv`: the names are those of the packages below the count (`CountInv`), nothing of an earlier run is counted (`FormatInv`), and the block of the name about to be written is on the disk or among the sectors to be written (`BlockInv`) |
| `BlankStays`, `BlankSavesNothing` | (refutes `DownloadStored` everywhere) | `Syncing`: without the magic nothing is mounted and no sector is waiting to be written; `BlankInv`: so no block ever gets the file that was asked for |
| `TypeCorrect`, `SectorsCorrect` | `TypeOK`, `SectorsInRange` | `CountBound`: the count of downloads is limited by the repository, and the number of a block by the count |
| `Installer`: `TypeCorrect`, `ShownCorrect` (from `TextsCorrect`, `MaskCorrect`), `PressCorrect`, `AccountCorrect`, `ChoicesCorrect` | `TypeOK`, `TextsShown`, `OncePerPress`, `AccountSaved`, `EarlierChoicesKept` | `TextInv` joins both texts with the mask; `OnceInv` counts a press not yet acted upon |
| `SignInCorrect` | `SignInHitsDrawn` | what is drawn of a part lies in its box, no two boxes meet (`DrawnIsHit`), and both are placed by the same corner |
| `ProfileReset` | (refutes `ProfileKept` everywhere) | `ProfileInv`: every way to the desktop leads through the late start, which makes the profile the hybrid one and clears both modes; the boost stays what the end of the installer made it (`FinishApplies`), unless a key in the same iteration has switched it |
| `Desktop`: `ShownCorrect` | `TypedIsShown` | `ConsoleSteps`: whatever handler runs, the two texts change in one of six ways (`ConsoleStep`); each keeps the places of the typed characters (`GrownShows`, `AddedShows`, `TakenShows`) |
| `WhereCorrect` | `TypedWhereShown` | key by key, in the order each reader asks its handlers (`TextsKept`); `FocusInv`, that a profile's choice names an application, so that what opens is seen |
| `SentCorrect` | `SentAnswered` | `TailAnswered`, `ExchangeAnswered`: a line and its answer are appended together and the oldest rows fall off the front; no other handler writes the chat |
| `TitleCorrect` | `TitleReachable` | `DragInv`: the offset of a drag is never negative and the pointer is on the screen; only `wm_handle_input` moves it (`OnlyWmDrags`), and it clamps |
| `LettersNeverTyped` | (refutes `LettersTyped` everywhere) | `LettersLost` with `ConsoleStep`: the one step that adds a character adds none of the keys the desktop has taken |
| `TypeCorrect` | `TypeOK` | part by part: what is open, the fields, the chat's rows, the pointer, the loop (`OpenStep`, `FieldsStep`, `RowsStep`, `PointerStep`, `LoopStep`); the chat shows an existing channel, since all that write it clamp its number |
| `Memory`: `FramesCorrect` | `FramesAccounted` | `FrameInv`: while `pmm_init` runs, the free pages are those of the entries seen; from then on the bitmap is what is reserved, handed out or a table (`Owned`), each once, and the counter is the number of the others |
| `SpacesCorrect` | `ImplementsAddressSpace` | `SpaceInv`: the tables form trees by rank below the roots (`Tree`), so that an entry that is written lies on the way of one address of one root only; `Walked`: the table a walk is at is the one the levels above lead to. A table that is added maps nothing, so making one is a stutter |
| `OneTranslation` | (no step changes two translations) | from `SpacesCorrect`: a step of the abstract address space changes one |
| `TablesStayPrivate` | (no last table serves two owners) | from `FrameInv` and `SpaceInv`: the tables are trees by rank and among the pages that are in use and not handed out |
| `Scaffold`: `HeapCorrect` | `HeapImplementsArena` | `HeapInv`: every block ends at or before the next free byte |
| `HeapBlocksApart` | (no two blocks share a byte) | from `HeapCorrect`: whatever implements `Arena` keeps its blocks apart |
| `SlotsCorrect` | `SlotsKept` | inductive with the types of the table; slot 0 is never found stopped |
| `TextCorrect` | `ScreenText` | the glyphs drawn since the screen was filled or the cursor went back to the top lie in reading order before the cursor; each of the cursor's three rules moves it past them |
| `FilesCorrect` | `ImplementsFileTree` | `ChainsOK`: a chain gives the children of a node from the newest down, as each link is the greatest below (`Newest`); `WalkOK`: exactly one node is reached by the names already followed, and the children passed do not have the next name |
| `ChipsCorrect` | `ChipsAsWanted` | `ChipsInv`: the words still to be written to a chip bring it from the stage it is in to what is wanted (`DataCall`; `EndCall`, also from inside another call), and a chip serves only an interrupt that is not handled yet or whose end is still to be written (`ServingKnown`) |
| `Programs`: `MallocCorrect` | `MallocImplementsArena` | as `HeapCorrect`, for the other allocator that implements `Arena` |
| `MallocBlocksApart` | (no two blocks share a byte) | as `HeapBlocksApart` |
| `EventsCorrect` | `EventsImplementFifo` | `RingInv`: the ring holds the latest; `QueueIsAccept`, `GetIsTake`, all else stutters. Two positions less than a ring apart have different slots (`SlotsDiffer`) |
| `BytesCorrect` | `DoomBytesAccounted` | `BytesInv`: the bytes in the controller carry the numbers behind all that have left it, those before them are queued or taken (`Distributed`); each step that moves one is a lemma (`BytesPolled`, `BytesTaken`, `BytesSent`) |
| `PaintedCorrect` | `PaintedRight` | `ClipExact`: clipping an axis leaves the places it shares with the screen, for any integers; a text and a frame are rectangles (`TextIsRectangles`, `FrameIsRight`) |
| `LibraryCorrect` (from the next three) | `LibraryExact` | the C library copies, compares and searches as C says, except that `strchr` and `strrchr` never find the terminator |
| `CopiesCorrect` | `CopiesExact` | `CopyInv`: after k rounds a loop has moved exactly k bytes, from the front or from the back as the areas overlap; the source bytes it still needs are untouched |
| `OrdersCorrect` | `OrdersExact` | each comparison ends at the first byte that differs or at the end (`BoundedOrder`, `WholeOrder`, `MemoryOrder`), after folding the case too (`BoundedCase`, `WholeCase`) |
| `SearchesCorrect` | `SearchesExact` | `ByteFound`, `StringFound`: what is found is there and what was passed over is not; `WadFound`: `fopen` compares what follows the last slash, and since a name has no slash no other part of the path could match |
| `NumbersCorrect` | `NumbersExact` | `DigitsAre`, `NumberIs`: the running value after k digits, times the weight of what follows, is the sum of the first k digits by weight; the running values only grow, so that none overflows when the last one fits an int (`SmallIsItsRest`, `WrapIs`); `RecursionSolved` gives the recursive functions their equations |

Only model-checked: liveness (`PortDrains`, `KeysRead`, `EveryFrameDispatched`,
`StartEnds`, `SleepEnds`, `EscReturns`), which the prover does not reach, and what
`FileTypes` computes from the bytes of its table. The induction over the string that
`NumbersExact` needs is replaced by the least place where its claim would fail: `Value` is
written with recursive functions, whose equations `RecursionSolved` proves once.

## Disagreements met

A run shows each of them on one behaviour; for the first four a theorem (`LeaseNeverTaken`,
`BlankSavesNothing`, `ProfileReset`, `LettersNeverTyped`) says that no behaviour is free of
them, for every value of the constants.

* `net_lease`: `docs/NETWORK.md` describes a DHCP client; a lease that is offered is not
  taken, since the dispatch never sees the protocol.
* `storage_download`: the terminal reports a download saved that a blank disk never gets.
* `installer_profile`: the profiles' Dev Mode and Game Mode are set by the installer and
  reset by the late start.
* `desktop_commands`: `help`, `game` and every command with an h, a g, an m or a space
  cannot be typed in the desktop, whose shortcuts these letters are.
* `desktop_filetypes`: one short row shifts the search through `ext_table`; samples of
  PE, NAVAPP and DMG are unknown types.

Met too, modelled as they are and without a run of their own: on a framebuffer of 1920 and
more `font_init` doubles the letters of the sign-in page but not its boxes, so that the
lowest rows of a label hit the choice below or nothing (`SignInHitsDrawn` fails there); with an application open
the dock does not answer, because `apps_handle_mouse` returns what its last test left in
`eax`; the console's close box and title bar work while it is hidden; a press that lands
between two handlers acts twice; the search panel's 2 opens the Vault and runs its second
file at once; a full history with an empty line takes no key any more, not even Enter;
the chat's channels show another channel's lines, for `dc_seed_ptrs` is
indexed by line and not by group; F10 opens the chat and F5 the settings, where
`docs/HYBRID_EDITION.md` has F10 and F12.

In the C kernel and the programs, outside what the properties claim: a size near 2^64
wraps the sum in `kmalloc` and `malloc` and is granted; a page in two usable entries of the
memory map is counted twice; `realloc` does not keep what the block held; no task is ever
reaped; two names longer than a node's field become one; a byte of the mouse is a key to
the game and to the dashboard; the scan codes `2 .. 11` are read as the digits 0 to 9 in this
order, so the key 1 gives a 0; `access` finds every file;
`strtol` knows neither sign nor base, and it and `atoi` overflow unnoticed at ten
or more digits (`navine_libc.c:227`, `:250`); `strchr` and `strrchr` do not find the terminator; `I_ZoneBase` gives the game no memory;
`apps/doom/README.md:3` promises "IWAD support", and `W_Navine_OpenFile` refuses every file
that does not begin with `PW`.

In the assembly kernel, noticed and not the subject of a property of their own: a polled scan
code is taken for a byte of the mouse in the middle of a packet (`ps2_keyboard.asm:77`), or
for a packet's first if it has bit 3 set (`:79`), and shifts the packets behind it; a SYN+ACK
that nobody asked for may end a counted wait, so that a query leaves for no gateway
(`internet.asm:141`); a g that is read in the iteration that completes the installer flips the
scheduler's boost, and the late start leaves it so (`main.asm:110`); `net_tx_dns` and the ARP
request share one packet buffer (`internet.asm:278`), and a gateway whose address has a
first byte of zero looks unknown (`internet.asm:66`); the first download after a restart of the command line
edition takes slot 0 again (`main-cli.asm:25`); failed sectors are silent (`ata.asm:144`);
the name of a download is looked up by its number (`webengine.asm:332`); a flag of a lost
prefix is cleared by the next code (`installer.asm:753`).

## Not modelled, and why

* The interleaving inside one handler: the interrupt may change `mouse_x` after a handler
  has read it and before it reads `mouse_y`. `Ps2Input` has this for the cursor;
  `Desktop` has it between handlers only.
* Failing sectors: `ata_write_one` drops errors. Planned for `Storage`.
* Drawing, except where a property is about it.
* Code of the assembly kernel that nothing in the image reaches: the allocators, the page
  tables and the heap after their set-up, `scheduler_switch`, the queues and signals,
  the system call table and with it the VFS, `config_save`,
  `installer_load_disk_flag`. Their C counterparts are modelled.
* The file cache: a table that the loaders of `compat` look names up in, and that
  nothing changes.
* TLS, HTML and WebSocket, which need a connection of the guest's own; none opens
  (`Network`). Of `net_rx_tcp` the fields it keeps for one.
* The command line edition's own reader (`main-cli.asm`); the arithmetic of the calculator.
* Drivers, network, IPC and security of the C kernel: stubs that return a constant.
* Of the DOOM port: formatting, floating point, `setjmp`, and functions that return a
  constant. The game itself is fetched when the port is built.

## Plan

1. Proofs: every invariant, action property and refinement a run checks has its theorem,
   and `Arena` and `AddressSpace` are shown to give what makes them worth refining
   (`HeapBlocksApart`, `MallocBlocksApart`, `OneTranslation`). What is left is the same of
   `KeyFifo`, that order is given up only on an overrun, and of `FileTree`, that a newer
   name hides an older one.
2. Failing sectors in `Storage`, with `config_load`.
3. The calculator (`calc_compute`, with its sticky operator) against a reference of
   left-to-right arithmetic over bounded lines.
4. Tasks and interrupts of the C kernel together, when a switch of tasks exists.
