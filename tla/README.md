# Chef OS: models and proofs

TLA+ specifications of the Chef OS kernel (`src/kernel`), checked with TLC on
small instances and, where it pays, proved with TLAPS for all instances. This
file says what the system is made of, what is modelled and how, what each check
shows and what is left. All paths below are relative to `src/`; file names
without a directory are under `kernel/src/`.

## 1. The system

Chef OS is a single-address-space x86_64 kernel. `boot/entry.c` brings the
parts up one after the other, turns interrupts on (`sti`, line 215), creates
three windows and then loops for ever: copy the mouse position, take a character
from the keyboard, act on it, draw a frame, `hlt`. There is one thread of
execution. What makes the system concurrent are the interrupt handlers, which
run with interrupts off between any two instructions of that thread, and the
`syscall` entry, which runs on a stack of its own.

| Component | Sources | State | Operations | Talks to |
| --- | --- | --- | --- | --- |
| page allocator | `mm/pmm.c` | bitmap, `s_total_pages`, `s_free_pages` | `pmm_init`, `pmm_alloc_page(s)`, `pmm_free_page(s)` | called by heap, vmm, sched, syscall |
| kernel heap | `mm/heap.c` | list of headers inside the arena | `heap_init`, `kmalloc`, `kzalloc`, `kfree` | one run of 8192 pages; called by ramfs, process, sched, windows |
| virtual memory | `mm/vmm.c` | page tables | `vmm_map_page` | page allocator |
| keyboard | `drivers/ps2_kbd.c` | `s_last_char`, one character | interrupt handler, `keyboard_get_last_char` | main loop, `/dev/kbd`, `SYS_READ` |
| mouse | `drivers/ps2_mouse.c` | packet bytes, position | interrupt handler, `ps2_mouse_get_state` | main loop |
| timer | `drivers/timer.c` | `s_ticks` | interrupt handler, `timer_sleep_ms` | wakes `hlt`; toasts |
| clock, PCI, ATA | `drivers/rtc.c`, `pci.c`, `ata.c` | none | reads of the hardware | shell, boot messages |
| main loop | `boot/entry.c` | its local variables | poll, dispatch, render, halt | keyboard, mouse, compositor, shell |
| shell | `user/shell.c` | line buffer and length | `chef_shell_handle_char`, commands | VFS, process list, page allocator counters |
| VFS, RAM and device files | `fs/vfs.c`, `ramfs.c`, `devfs.c` | descriptor table, tree of nodes | open, close, read, write, create | heap, keyboard, serial |
| scheduler, processes, init | `proc/*.c` | ring of threads, list of processes | create, yield, list | heap, page allocator |
| system calls | `sys/syscall.c`, `arch/x86_64/syscall_asm.S` | saved user stack, kernel stack | entry, dispatch, exit | VFS, keyboard, framebuffer |
| interrupts | `arch/x86_64/*` | descriptor tables, handler table, controllers' masks | register, dispatch, acknowledge | every driver |
| compositor, layout, windows | `compositor/*.c` | window list, focus, workspace, surfaces | register, cycle, set workspace, layout, render | heap, framebuffer |
| framebuffer, `kprintf`, serial, strings | `video/`, `sys/`, `lib/` | console cursor | output | everyone |

What makes each of them correct:

- Memory: what is handed out belongs to one owner, is as large as was asked for,
  is refused only when there is no room, and comes back whole.
- Interrupts, mouse: every byte reaches the driver it is for, every interrupt is
  acknowledged, the pointer does what the mouse did.
- Keyboard, main loop, shell: keys are acted upon at most once and in order; a
  key is only lost to haste; the line that runs is what the shell was given since the
  last Enter, less what was erased, with nothing of an earlier line.
- VFS: a descriptor denotes one open file; reading returns what was written; no
  byte is read that was never written.
- Address space: a page means what it meant before a call or what it means after;
  no frame is a table and something else.
- Threads and system calls: every thread of the ring has its turn; entry and exit
  restore what they saved and nothing comes between.
- Compositor: windows of a workspace tile the screen, whatever allocation fails no
  memory is lost, and what the screen shows in the end is the desktop.

The hard parts are listed as hazards, each at its line, in `PROJECT.json`:
interrupts between the two halves of a read and clear, between a poll and a
`hlt`, between the bytes of a packet or the fields of a struct; unsigned
arithmetic at its limits; results of allocations that nobody looks at; buffers
with stale bytes; and long sequences of legal calls on the two allocators.

## 2. Modules

| Module | Models | Kind |
| --- | --- | --- |
| `Allocator` | what both memory managers promise | abstract specification |
| `Heap` | `mm/heap.c` | component; implements `Allocator` |
| `HeapProofs` | | theorems about `Heap` |
| `MemMap` | the functions of the memory map that `pmm_init` computes | operators |
| `PmmInit` | `pmm_init`, one loop iteration a step | component; computes what `MemMap` says |
| `PmmInitProofs` | | theorems about `PmmInit` and `MemMap` |
| `Pmm` | the calls of `mm/pmm.c` after `pmm_init` | component; starts from `MemMap`, implements `Allocator` |
| `PmmProofs` | | theorems about `Pmm` |
| `LineEditor` | what the shell promises of the line it keeps | abstract specification |
| `Shell` | the line editor of `user/shell.c` | component, composed by `Input` |
| `Input` | keyboard interrupt, timer interrupt, main loop and `Shell` together | composition; implements `LineEditor` |
| `InputProofs` | | theorems about `Input` and `Shell` |
| `FileStore` | what descriptors promise about regular files | abstract specification |
| `Vfs` | `fs/vfs.c`, `fs/ramfs.c`, `fs/devfs.c` | component; implements `FileStore` |
| `VfsProofs` | | theorems about `Vfs` |
| `Interrupts` | the two controllers (`pic.c`), gates, dispatch, return | component, composed by `Mouse` |
| `Mouse` | `drivers/ps2_mouse.c`, the shared port, both handlers, the loop's copy | composition |
| `MouseProofs` | | theorems about `Mouse` |
| `Screen`, `Layout` | the screen, and the arithmetic of `compositor/layout.c` | operators |
| `Windows` | `compositor/window.c`, `surface.c`, with allocations that fail | component, composed by `Desktop` |
| `Console` | `fb_putc` and `kprintf`, interrupted | component, composed by `Desktop` |
| `Desktop` | the compositor, the frame, the loop and the keyboard's echo | composition |
| `DesktopProofs` | | theorems about `Desktop` and the modules it uses |
| `AddressSpace` | what `vmm_map_page` promises a concurrent page walk | abstract specification |
| `Vmm` | `mm/vmm.c`, one memory access a step | component; implements `AddressSpace` |
| `Threads` | the ring of `proc/sched.c` | component |
| `Syscall` | `sys/syscall.c`, `arch/x86_64/syscall_asm.S`, interrupts from ring 3 | component |
| `UserMode` | `Vmm`, `Threads`, `Syscall` and the page allocator's frames | composition |
| `UserModeProofs` | | theorems about `UserMode`: calls, ring, frames and address space |
| `MC*` | | small instances for TLC |

### Heap

`hdr` maps the offset of every header reachable from `s_head` to its three
fields; the offsets are relative to `s_heap_start`. A call is several steps:
`KmallocCall` and `KfreeCall` enter, every iteration of the walk is one action
(`KmallocSkip`, `KmallocSplit`, `KmallocWhole`, `KfreeMerge`, `KfreeAdvance`) and
`KmallocFail`, `KfreeDone` and the two grants return. The heap is not reentrant
and no interrupt handler calls it, so one call is in progress at a time; the
steps are there because what an unfinished walk knows is the invariant. `held`
is a ghost: the pointers callers own and the sizes they asked for. Callers give
back only what they own (`kfree` trusts its argument; see the hazards). Contents
of blocks are left out; `kzalloc` is `kmalloc` followed by a `memset` of the
bytes asked for, which `HeldBlocks` shows to lie inside the block.

### Page allocator

`PmmInit` runs `pmm_init` on every memory map of a set. `ComputesMap` states that
it ends with exactly the state that the operators of `MemMap` give, and `Pmm`
starts from those operators, so the two modules meet without being composed.
In `Pmm` a page is a number, `s_bitmap` the set of pages whose bit is set, and
every iteration of the two searches is an action. `FreePage` and `FreePages` are
one step each: their loops touch only their own run. A null
`memmap_response`, which leaves a machine of no pages, is not modelled.

### Keyboard, main loop and shell

`s_last_char` holds the number of a keystroke instead of its character, so that
the properties can tell two equal characters apart; `typed` maps the number to
the character. `keyboard_callback` (`KeyIrq`) is atomic because its gate turns
interrupts off. `keyboard_get_last_char` is two steps, `Poll` and `Clear`, and
the interrupt may fall between them, as it may fall anywhere in the loop,
between the poll and the `hlt` included. `Halt` is the moment the processor stops; from
then on any interrupt, of the keyboard or of the timer, continues the loop.
`ToDesktop` keeps the hotkeys (`boot/entry.c:270-275`), `ToShell` calls
`chef_shell_handle_char`, which is `HandleChar` of `Shell`. The buffer of the
shell is modelled as an array with terminators: Enter does not clear it. Rendering a frame changes
nothing here and belongs to the time between the dispatch and the `hlt`.

### Files

`nodes` is the sequence of `ramfs_entry_t`s in the order they are made; nothing
is ever removed. A node has a name, a kind (which stands for its flags and
its operations: `dir`, `file`, or one of the four devices), its children, its
length, and its memory `data`, whose size is the capacity. Memory that `kmalloc` returned
holds the byte `UNINIT` until it is written. Every call is one
action: there is one thread and no interrupt handler calls the VFS. `Open` finds
a node by its path and takes the first free descriptor; `Close` keeps the stale offset, as the code does; `Read` and
`Write` go by the kind of the node and move the descriptor by what was
transferred. A call that fails changes nothing and is no action. `kmalloc` is
taken to succeed, because the code writes through its result unseen. The ghost
`got` keeps what the last read of a regular file returned. The
kernel creates nodes only at boot and never calls `vfs_write`; the model calls both at
any time, because they are what the VFS offers.

### Interrupts and mouse

`irr`, `isr` and `handling` are the lines raised, in service, and handled.
`Enter` is the gate (interrupts go off), `Leave` the end of `isr_handler`:
`pic_send_eoi` and `iretq`. Between them nothing runs but devices. `Masked` is what
the firmware left in the masks, which `pic_remap` restores.

`Mouse` begins in `ps2_mouse_init`, after the controller was asked for its
configuration. `port` is the one byte that keyboard, mouse and controller share,
`queued` what each has still to send. `InitConfig`, `InitDefaults` and
`InitStream` are the three reads of the port by polling, each with what is
written up to the next. `mouse_wait` gives up after 100000 tries, so a read may
find the port empty and take what it last held; and interrupts are off, so each byte
taken leaves its interrupt latched for later. After `Sti`, `MouseIrq` and
`KeyboardIrq` are the two handlers: the first looks at the status register and
assembles packets, the second reads the port whatever it holds. A handler's
reading is at its entry; its return is a step of its own, so a byte may arrive in
between. It is an assumption about the controller that the bit `MouseByte` looks
at is not set once the byte was read. `CopyMouse` is one step, because both
coordinates are in the word that the copy loads first.
`todo` and `stray` are ghosts: the moves whose packets are not yet decoded, and
whether a byte was ever taken by somebody it was not for.

The device side (`MoveMouse`, `StrikeKey`, `Load`, `Encode`, priorities of the
controllers) is hardware; `PROJECT.json` marks it external.

### Desktop

A frame is what `compositor_render_frame` does call by call: clear, lay out window
by window, draw window by window with the focused one last (`DrawFocused`), dock and
island, pointer, swap. `back` and
`front` are the sequences of layers painted since the last clear; a layer of a
window carries its rectangle, its focus and whether its surface has a picture.
`KeyIrq` may come between any two steps: it fills the slot, echoes the character
into `back` and copies `back` to `front`, as `kprintf` ends in `fb_swap`. `fb_putc`
in the loop is several steps because the handler's `fb_putc` moves the same cursor.
`ToShell` may also print nothing: the shell ignores a backspace on an empty line, a
character on a full one and what it has no use for (`user/shell.c:103-114`).
`Windows` lets every `kzalloc` of a surface or its pixels fail, `MaxFailures`
times; the heap behind it is in `Heap`. `Layout` computes in unbounded integers:
`ScreenAssumption` gives the screens on which no subtraction of the code wraps
and which the backbuffer can hold. All windows are on workspace 1 and none is
minimised, because no code changes either field.

### User mode

Nothing in the repository calls `user_mode_enter_test`; the model runs it as the
kernel offers it. `Vmm` does one memory access a step, since the processor may walk the tables at any
time: entries are promoted (`Descend`), a table is allocated (`NewTable`),
cleared, and linked. `Translate` is the processor's walk. Frames the allocator hands
out hold whatever was in them (`Garbage`), and when it has none it returns `NULL`
and the code goes on with the frame at address 0; `exhausted` remembers that.
`Threads` links a thread into the ring; it also takes a stack's frames from the
allocator. `Syscall` runs `syscall_entry_stub` as data, one instruction a step
(`Stub` is the listing), on registers that hold symbolic values: a register's own
name for what the user put there, `JUNK` for what a C function left. Interrupts come whenever
`IF` is set, onto the stack of the TSS if they come from ring 3. `Dispatch` gives
each call its results; only `SYS_READ` of the keyboard is opened up into its two
steps, because it races with the handler in `kmain`'s loop and must not here.

## 3. What TLC checks

| Run | Instance | States | Shows |
| --- | --- | --- | --- |
| `heap` | 256 bytes, requests of 1, 40 and 72 bytes | 33,934 | `TypeOK`, `Tiling`, `HeldBlocks`, `Coalesced`, `DrainedIsWhole`, `CallsReturn`, `ImplementsAllocator` |
| `pmm_init` | maps of three entries, up to 14 pages of 2 bytes | 6,698 | `ComputesMap`, `BitmapKept`, `AtMostOnePageTooMany` |
| `pmm` | 12 pages in two usable regions, runs of 1, 2 and 3 pages | 12,670 | `TypeOK`, `Exclusive`, `NoPageLost`, `CountKeepsUp`, `SearchesEnd`, `ImplementsAllocator` |
| `pmm_usable` | 7 pages, a bitmap of half a page | | violation of `OnlyUsableHandedOut` |
| `input` | 4 keystrokes of 7 kinds, lines of 2 characters | 343,249 | `TypeOK`, `HandledInOrder`, `KeyServed`, `ImplementsLineEditor` |
| `vfs` | 4 nodes, 2 devices, 2 descriptors, chunks of 1 and 2 bytes, capacity in units of 2 | 65,941 | `TypeOK`, `Initialised`, `OffsetsInside`, `PathsStable`, `ImplementsFileStore` |
| `input_arguments` | 4 keystrokes, lines of 3 characters | | violation of `ArgumentsReachCommands` |
| `mouse` | 2 moves, 1 scancode, a screen of 4 by 3 | 46,101 | `TypeOK`, `FollowsMouse`, `OnlyBootMisroutes`, `PointerCatchesUp` |
| `desktop` | 3 windows, 3 keystrokes of 5 kinds, 1 failed allocation, 180 by 201 pixels | 825,420 | `TypeOK`, `TilesScreen`, `SurfacesKept`, `GlyphsOnScreen`, `DesktopReturns` |
| `torn` | the same | | violation of `NoTornFrame` |
| `usermode` | 10 frames, 2 indices a level, 2 mappings, 3 threads, 1 interrupt | 553,058 | `FramesExclusive`, `RingWhole`, `ContextRestored`, `CallsUninterrupted`, `ImplementsAddressSpace` |
| `registers` | the same | | violation of `OnlyRcxR11Clobbered` |

Bounds, and why they are enough:

- `heap`: the arena holds at most five blocks, so a block can have free and used neighbours
  on both sides, which is every case of the merging pass. 1 exercises rounding,
  40 and 72 leave rests both large and too small to split, and exact fits occur.
- `pmm_init`: a bitmap of exactly one page, of less than a page, holes between
  entries, an unusable entry that is ragged, and a host that is not the first
  entry all occur. `pmm_init` ends, so the run does not look for deadlocks.
- `pmm`: two regions, the second smaller than some sequences of requests need, so that searches
  skip, restart and fail.
- `input`: two keystrokes suffice to overwrite, three to run a stale line, four
  to fill a line and run it. The keys are one of each kind the code tells apart.
- `vfs`: a file made with one byte grows with a copy, one that already grew is
  read while another descriptor writes it, descriptors are used again, a name is
  made twice, a directory fills before all devices are in it, files are made inside
  devices. Offsets stop at `MaxOffset`, nodes at `MaxNodes`; a reply or a chunk that
  would pass the bound is not tried. The theorems have no bound on lengths of files.

- `mouse`: one keystroke suffices to sit in the port when boot reads it, so that
  every reply is one behind, a latched keyboard interrupt meets a byte of the
  mouse, and a key falls into a packet. Two moves are two packets; between them
  bytes may be shifted. The moves have both signs and both hit an edge. Configuration
  69 has the keyboard's interrupt on and the mouse's off.
- `desktop`: three keys reach every mode, or leave the workspace and come back, or
  move the focus off the first window and interrupt a frame. The screen is
  small, but every tile has an inside, and not a whole number of glyphs
  wide. One failure can hit any of the allocations of any window. That more keys
  print more text is bounded by `MaxText`, the characters the shell prints for one key.
- `usermode`: the mappings share all, some and no tables with the user's code
  page; ten frames are fewer than all of it needs, so that the allocator runs out
  in some behaviours and not in others. Three threads are the fewest of which one is
  created while another than the first is current. One interrupt can fall between any two
  instructions. The calls are one of each kind that `syscall_dispatch` tells apart
  by descriptor, result or effect on the machine; the flag the user may set is
  `NT`, the only one that survives the mask besides those that change nothing here.

Fairness. `Heap` and `Pmm` assume weak fairness of the steps of a walk: they are
the only code running. `Input` assumes weak fairness of the loop and of the
timer: the loop is the only thread and handlers return, and the timer is
programmed to interrupt a thousand times a second before `sti`. Nothing is assumed
of the user: no further key may ever be struck. That timer interrupts arrive
rests on the mask of the interrupt controller, which `pic_remap` leaves as the
firmware had it (see the hazards). `Desktop` assumes the same of loop and timer.
`Mouse` assumes weak fairness of devices, boot, handlers, timer and loop, and strong
fairness of the keyboard's and the mouse's interrupt: a timer tick may be pending
whenever the processor looks, and it goes first, but a millisecond is long enough
to deliver the others in between. `UserMode` has only safety properties.

For each property of a passing run `PROJECT.json` names a slip of the code, kept
beside the definition it replaces (`KfreeMergeLosesHeader`, `NoClear`, ...), with
which TLC finds the property violated.

### Disagreements with the documents

- `pmm_usable`: `mm/pmm.c:47-48` gives back one page too few. `docs/ARCHITECTURE.md:66` says
  reserved regions are ignored; unless the bitmap is a whole number of pages, one
  page behind the region that keeps the bitmap is handed out, whoever it belongs
  to. `AtMostOnePageTooMany` shows that it is never more than that one.
- `input_arguments`: the shell offers `cat` and `echo` (`user/shell.c:33,38`), whose arguments
  follow a space, but the main loop keeps every space for the desktop.
- `torn`: `docs/ARCHITECTURE.md:86` says a dedicated backbuffer prevents tearing. The
  keyboard's handler prints, and `kprintf` presents the backbuffer, also when the
  compositor has only half a frame in it.
- `registers`: `docs/ARCHITECTURE.md:82` says a system call overwrites `RCX` and `R11`.
  The stub moves the arguments to other registers and never back.

## 4. What is proved

The proofs hold for every value of the constants that satisfies the named
assumptions, which TLC also evaluates on every run.

- `Heap` (`HeapAssumption`: the arena is a multiple of 8 bytes, larger than a header).
  `TypeCorrect`, `TilingCorrect`, `HeldBlocksCorrect`, `CoalescedCorrect`,
  `DrainedIsWholeCorrect`, and `Implementation`: `Heap` implements the safety of
  `Allocator`. The invariant conjoins the run's invariants with `CursorOK`: where
  a walk stands and what it has passed. A merge is only known to keep the
  tiling because the cursor is on a live block, and a `NULL` is only justified because every
  block passed did not fit and no two free blocks are adjacent when a
  `kmalloc` walks (`Coalesced`).
- `Pmm` (`PmmAssumption`: `pmm_init` freed a set of pages and counted each at least
  once). `TypeCorrect`, `ExclusiveCorrect`, `CountCorrect`, `NoPageLostCorrect` and
  `Implementation`. The invariant adds `Boot` (pages that were not freed at boot keep
  their bit) and `SearchOK` (the run in hand is free and directly precedes the page
  looked at; every run already passed holds a used page).
- `Input` (`ShellAssumption`, `InputAssumption`: the kinds of characters are what they
  are in ASCII). `TypeCorrect`, `HandledInOrderCorrect` and `Implementation`: with any line
  length and any number of keystrokes the shell with its C buffer implements
  `LineEditor`. The invariant adds what is pending (the slot and the loop's hands hold only keystrokes
  later than those handled, in this order at each place of the loop) and that
  the bytes before `s_input_len` are characters, so that the first NUL is the one
  Enter wrote.
- `Vfs` (`VfsAssumption`: sizes are numbers, `NULL` is no node, chunks hold written
  bytes). `TypeCorrect`, `InitialisedCorrect`, `OffsetsInsideCorrect`,
  `PathsStableCorrect` and `Implementation`. The three invariants are inductive together and none is alone: a
  write leaves no gap because its offset is inside the file (`OffsetsInside`),
  growth copies no more than there is (`TypeOK`: length within capacity), and only so is
  every byte that a read may reach written (`Initialised`). The refinement compares the file's bytes
  below its length with the abstract sequence: `ReadBytes` for a read, `Spliced`
  for a write, and `StoreKept` for everything that makes no file. That a path keeps its meaning
  needs both trees, before and after a step, so the lookup is taken as a function of the tree
  (`Reached`) and shown to be defined along every path (`AlongDefined`). Nodes keep name
  and kind and children are only added behind those there are (`Outgrows`); hence the
  first child of a name stays the first (`ChildKept`) and the path leads where it did
  (`AlongKept`), however long it is: the bound of two names in `Paths` is not used.
- `Mouse` (`MouseAssumption`: a screen of at least one pixel, moves and scancodes in
  their ranges, any configuration byte; `InterruptsAssumption`). `TypeCorrect`: with any
  bytes in any order the pointer stays on the screen. `OnlyBootMisroutesCorrect` and
  `FollowsMouseCorrect`: for any number of moves and keystrokes. The second is not inductive over the types
  alone: a byte of the controller itself would raise the keyboard's line and be
  read as a key. The invariant adds `AnswerRead`: unless a byte went astray the
  controller's answer is unread until boot reads it and there is no other. The third adds
  `OnTheWay`: unless a byte went astray, the bytes the handler keeps, the one in the
  port and those the mouse has queued are, in this order, what is left of the answers to boot's
  commands and the packets of the moves still due, and the handler keeps none while boot
  waits for answers. So a third byte completes the packet of the next move.
- `PmmInit` (`MemMapAssumption`: a page has at least a byte; `PmmInitAssumption`: maps
  as Limine promises them, `WellFormed`). `ComputesMapCorrect`, `BitmapKeptCorrect` and
  `AtMostOnePageTooManyCorrect`, for maps of any length. `BootInv` says of each of the three loops
  what it has done: the highest address of the entries passed (`Searching`),
  that no entry passed could keep the bitmap (`Placing`), and that the bits clear are those of
  the clearings made so far, `s_free_pages` their number (`Freeing`). A clearing is an
  entry and a page (`FreedBits`), because the page after the host entry may be cleared
  twice. `StartOfPmm` concludes that what `pmm_init` leaves satisfies what
  `PmmAssumption` asks of the pages, so that the theorems about `Pmm` hold of any machine
  that was booted with such a map, and not only on paper.
- `UserMode`, calls (`UserModeAssumption`: the two pages of the program are not mapped a second
  time, the user cannot clear `IF`). `CallsUninterruptedCorrect` and `ContextRestoredCorrect`. `CallInv`
  gives what registers and kernel stack hold as a function of the number of the next
  instruction: `Alone` (in a call the processor is in ring 0 and `IF` is clear),
  `StackOK` (what was pushed, in its order), `ShuffleOK` (which argument is where),
  `RestoreOK` (what is back already). Neither theorem is inductive without the other:
  the stack is what the stub pushed only while no handler pushes onto it.
- `UserMode`, threads. `RingWholeCorrect`: the first thread is followed by the newest and each
  other by the one before it (`RingOK`), wherever the current one stands. `TurnOf` gives
  the thread after any number of yields in closed form; that it does is an induction over
  that number.
- `UserMode`, frames (`VmmAssumption`: memory is the frames, the first table, the devices and address
  0, all different). `FramesExclusiveCorrect` and `ImplementsAddressSpaceCorrect`. `FrameInv` claims,
  until the allocator has run out, that there are a level for each frame and for each
  table the entry that links it (`Tree`), such that two entries never link the same
  table; that a page mapped for the user is open at every level above it (`Opened`); that a call is
  at the end of its own path, with a table not yet linked in its hands (`OnItsWay`); and
  that a frame is free, a table, or a stack or page (`OneUse`). Levels and links are not
  in the code: the theorem needs them to exist, and each step gives the new
  ones. The refinement shows of every memory access that the translation of every page
  stays what it is or becomes what the call asked for.
- `Desktop` (`ScreenAssumption`: at least 176 by 160 pixels and no more than the backbuffer holds;
  `WindowsAssumption`, `DesktopAssumption`: keys of different kinds differ). `TypeOKCorrect`,
  `TilesScreenCorrect`, `SurfacesKeptCorrect` and `GlyphsOnScreenCorrect`, with any number of
  keystrokes and failed allocations. `DesktopInv` conjoins `ConsoleOK` (how far right
  the cursor can be at each place of `fb_putc`, whatever the handler printed in
  between), `WindowsOK` (a surface fits its window, and the blocks of the heap are those
  of the three windows' surfaces), `ListOK` (no window is registered twice), `PlacesOK` (every
  window passed by the layout is where `Tile` puts it and inside the area) and `KeysOK`. That tiles
  neither overlap nor leave the area is arithmetic with divisions, done for every size
  at once (`Sizes` and what follows it); the lower bounds of `ScreenAssumption` come from there.

Only model-checked: the liveness properties (`CallsReturn`, `SearchesEnd`, `KeyServed`,
`PointerCatchesUp`, `DesktopReturns`), which need fairness and are beyond the prover.
Every invariant and every other property of a passing run is a theorem.

The induction theorems of the library that take an operator cannot be instantiated by
the provers at hand. Where an induction over numbers was needed (`RingWhole`, the
entries of a memory map, frames of a tree, the names of a path), it goes by the least counterexample of a
set instead (`WellFoundedInduction`).

## 5. Plan

Every safety property that a run checks is proved. What could still be added:

1. The steps between components that `StartOfPmm` shows for `PmmInit` and `Pmm`: that the
   arena `heap_init` asks for satisfies `HeapAssumption` in whatever state of `Pmm` the
   call succeeds.
2. The invariants behind the liveness properties, as far as they do not need fairness:
   that each walk has something to decrease, and that no step waits for another for good.

## 6. Not modelled

- `drivers/rtc.c`: six reads of a clock, with no state and for display only. That the
  time read may never have been is a hazard without a property.
- `proc/process.c`, `proc/init.c`: a list of four entries made at boot, printed, and
  never changed.
- `drivers/pci.c`: a table filled by one probe at boot that nobody reads.
  `drivers/ata.c`: nothing calls its reads and writes.
- `lib/string.c`, the formats of `sys/kprintf.c`, `sys/serial.c`: functions without
  state. Strings are model values here.
- Shell commands: they print what others hold. `cat` is an open, a read and a
  close, which `Vfs` has; `clear` repaints the screen.
- What the screen shows of the line that is edited. It is not the line in the shell's
  buffer, which `LineEditor` and `ImplementsLineEditor` are about: the keyboard's handler echoes every
  key, also hotkeys and keys that are overwritten in the slot (`drivers/ps2_kbd.c:24`), the shell
  prints a character once more (`user/shell.c:113`), `fb_putc` has no case for
  `'\b'` and draws glyphs where `"\b \b"` means to erase (`video/fb.c:85-97`), and the next frame
  clears the text. In `Desktop` text is only text: where its cursor is, and whether any
  is in a buffer.
- Toasts (`shell_ui_show_toast`), `timer_sleep_ms`, `window_destroy`: never called.
- A machine without a framebuffer, on which the layout's widths wrap, and modes
  larger than the backbuffer: excluded by `ScreenAssumption`.
- Entries of page tables that map large pages, and the writable bit.
- Exceptions, which stop the machine (`arch/x86_64/idt.c:40-43`), and the formats of the
  descriptor tables.
