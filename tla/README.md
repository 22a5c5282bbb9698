# FPGA Tank Trouble: a verification companion in TLA+

Two tanks in a random maze shoot bouncing bullets at each other; the first to
win four rounds gets a win screen. The game is split between a soft processor
(C code under `software/tank_trouble`, running on a NIOS II/e) and hardware
modules (the `*.sv` files of the top directory). The processor keeps the score,
draws the maze and reads the USB keyboard; the hardware moves tanks and
bullets, detects hits, runs the game state machine and draws the picture. They
meet only in a handful of parallel I/O registers and in the maze bitmap.

This directory models the parts that carry the game's own logic in TLA+,
model-checks them with TLC and proves the central theorems with TLAPS.

    tlc -workers 2 -config GameControl.cfg MCGameControl.tla
    tlapm GameControlProofs.tla

## 1. The system

| part | source | state it keeps | operations |
|---|---|---|---|
| game loop | `main.c` | `t1Score`, `t2Score`, the keycode in flight | reads `game_end` three times per loop, counts wins, calls `genMaze`, writes `game_reset` (0x70), `maze_ready` (0x80), `keycode` (0x100) |
| game state machine | `game_states.sv` | `State` | one transition per 50 MHz clock; outputs `game_end`, the screens |
| maze generation | `mazes/mazes.c`, `paired_stack.c`, `stack.c` | `m_maze`, `m_stack`, `visitedCells` | depth-first walk, one iteration per step |
| maze screen | `mazes.c`, `vga_text_avl_interface.sv` | the 120 x 160 bitmap, `Maze_Reg[600]` | draw cells and passages, pack 32 pixels per word, read pixels and neighbours back while scanning |
| tanks | `tank1.sv`, `tank2.sv` | position (13 bit fixed point), angle, `ShootBulletP` | one step per video frame |
| bullets | `bullet.sv`, chained in `vga_text_avl_interface.sv` | `is_bullet_active`, `timer`, `creation_flag`, position, motion | one step per video frame |
| wall detection | `collisionWall.sv` | latched wall flags of the last frame | one sample per pixel clock, latched at the frame |
| hits | `TBCollision.sv` | none (combinational) | overlap of any active bullet with a tank |
| angles | `sinCos.sv`, `angleMux.sv` | none | table lookup, sign of the quadrant |
| picture timing | `VGA_controller.sv` | `hc`, `vc`, `hs`, `vs`, `pixel_clk` | one step per pixel |
| USB host | `usb_kb/*.c`, the USB states of `main.c` | `usb_task_state`, `HXFR` toggles, the device table | `USB_Task`, `XferDispatchPkt`, control and interrupt transfers, keyboard polling |
| colours | `Color_Mapper.sv`, sprite ROMs | none but ROM pipelines | picks the colour of a pixel |
| console | `altera_avalon_jtag_uart_write.c`, `_init.c`, `_fd.c` in the board support package | rings `tx_buf`, `rx_buf`, `irq_enable`, `host_inactive` | `write()`, the interrupt routine, an alarm that looks for the host |
| system clock | `alt_tick.c`, `alt_alarm_start.c`, `alt_alarm.h` | `_alt_nticks`, the list of alarms | a tick per millisecond, calls alarms |
| platform | `lab62.sv`, `lab62_soc`, rest of the BSP | generated | wiring, drivers |

**How they interact.** `vs`, the vertical sync of `VGA_controller`, is the clock
of tanks, bullets and wall latches. The state machine sees the combinational
hit signals and the registers at every 50 MHz edge. The processor polls
`game_end`. Nothing acknowledges anything: `maze_ready` is a level the
processor raises and drops, a hit is a level that lasts until the next frame
moves or clears the bullet, and `game_end` is a level that is read three times
per loop at different times. Every `printf` of the processor goes through
`write()` of the JTAG UART driver, whose ring an interrupt routine empties; so the
loop, with the game in it, goes on only if `write()` returns. The USB code takes its
delays from the tick counter.

**What is hard.** Three clocks (processor accesses, 50 MHz, 60 Hz frames)
interleave on levels without handshake. A win must be counted once, before the
state machine leaves the state that shows it. `maze_ready` must be down again
before the next win. Tanks and bullets are cleared only by a frame that happens
while `game_end > 0`. A register of the bullets (`creation_flag`) is cleared by
nothing. The stack of the maze walk believes in twice the capacity that was
allocated. The wall flags a frame uses belong to the picture before it. The USB
code retries, times out and re-enumerates while the game runs, in the same loop.
A step of a tank in touch with a wall doubles every frame. The ring of the console
is shared without a lock. Counters of time wrap.
The list under `hazards` in `PROJECT.json` names each with its line.

### What makes each part correct

| part | properties |
|---|---|
| game loop + state machine | every win is counted once, a match ends at four wins of one tank, each round has a fresh maze, the maze never changes under the tanks, no handshake gets stuck |
| bullets | a round begins without bullets, neighbours keep their distance in time, a leftover flag fires early or never, every bullet goes out |
| maze walk | the result is a spanning tree with walls alike from both sides, the stack stays within its memory at both ends, the walk ends |
| tanks and bullets | nobody is shot by a new-born bullet or in the first frames of a round, no step leads over a wall, bounces are right, a tank that runs into a wall steps back off it |
| maze screen | the picture is the maze; the direction of a wall is read right; no wall goes unnoticed |
| wall detection, timing | flags belong to the object's present position; nothing moves while it is drawn; one step per frame |
| USB host | main polls the device it has reported, enumeration ends, a lost device is noticed |
| USB transfers | reports arrive exactly once and in order, in a bounded number of transactions, and all arrive |
| console | what `write()` accepts reaches the host in order and once, no character waits for an interrupt that is off, routine and `write()` return |
| system clock | an alarm is called exactly when its period is over, across the wrap of the counter |

## 2. The modules

    Match  <--implemented by--  GameControl  --  GameControlProofs
                                   | INSTANCE
    Arena  <--implemented by--  Duel   (both tanks, six bullets, the walls)   --  MotionProofs
    BulletChain  <--implemented by--+      BulletChain  --  BulletChainProofs
                                   | EXTENDS
                                Ballistics  (the physics of one tank and one bullet)
                                   ^ EXTENDS  Motion  (one tank, its first bullet)  --  MotionProofs
                                   ^ SameContact, of Contacts                       --  MotionProofs
                                WallScan               MazeScreen  --  MazeProofs
                                   -- WallScanProofs      ^ SquareFree
                                                       MazeGen     --  MazeProofs
                                MazeGrid     (cells and passages, for both of them)
                                UsbHost      --  UsbHostProofs      (a transfer succeeds or fails)
                                UsbTransfer  --  UsbTransferProofs  (how a transfer goes)
                                UsbSettle    (the arithmetic of UsbHost's delay)
    Pipe   <--implemented by--  Console      --  ConsoleProofs
                                   | INSTANCE         | INSTANCE
                                SysClock     (proved about in ConsoleProofs)

An arrow names what the module below shows and the one above builds on.

**GameControl** (`main.c:157-227`, `game_states.sv`). The processor is `pc`: one
action per access to a register, named for the access (`ReadStart`, `ReadTank2`,
`ReadTank1`, `RaiseMazeReady`, `DropMazeReady`, ...), with the local computation
up to the next access in the same action. `FsmClock` is a clock edge of the state
machine with all its transitions, `FrameTick` a video frame with what it does to
tanks and bullets, `Reset` the button, which resets all of them. `wins` and `fresh` are
history. `Match` is the match as the players see it.

**Arena** is what the game relies on of tanks and bullets: a frame that puts them back
(`Clear`) leaves nobody hit, and in the first `HitFrames` frames after it nobody is; later
any tank may be, or still be, at any frame (`Play`). `FrameTick` and `Reset` of GameControl
take their hits and ages from these two actions; Duel implements them.

**BulletChain** (`bullet.sv`, its `create` inputs in `vga_text_avl_interface.sv`,
the trigger in `tank1.sv`). One tank with `N` bullets. `LiveFrame` is a frame clock
with `game_end = 0`, `ClearFrame` one with `game_end > 0`; `Settle`, `Begin` and
`ShowScreen` are what GameControl lets `game_end` do, and a round begins only after
a clearing frame (GameControl's `NoRedrawInPlay` and its frame in `genMaze`).
Power-up values of the flags are arbitrary.

**MazeGrid** holds the cells of the grid and the passages between them, which genMaze
carves and draws.

**MazeGen** (`mazes.c:37-110`, both stacks). `Carve(d)` and `Backtrack` are the two
branches of the loop; the random choice is the `\E d`. `NextCall` is the next
`genMaze`.

**MazeScreen** (`mazes.c:112-302`, `vga_text_avl_interface.sv:48-61, 359-400`).
`CellPixels`, `Strip` and `maze_screen_buffer` draw, `Place` packs, `UpAddr`,
`DownAddr`, `LeftAddr` and `RightAddr` are the indices of the hardware, with their
arithmetic modulo the word. The beam walks over the screen; the passages near it
are chosen anew at each pixel, which covers every maze because nothing read at a
pixel depends on the others (`Relevant`). The choice keeps what `SquareFree` proves of
MazeGen: four cells around a corner are never all joined.

**WallScan** (`VGA_controller.sv`, `collisionWall.sv:1-115`). One step is one pixel
clock; the edges of `vs` are derived from it as in the code. The four neighbour
bits of a register are abstracted to the pixel they were taken from.

**Ballistics** (`tank1.sv`, `tank2.sv`, `bullet.sv`, `sinCos.sv`, `angleMux.sv`,
`TBCollision.sv`, `collisionWall.sv:119-245`) holds the operators, as functions of the
registers of one tank or bullet: `Driven` is the step of a tank in 1/8 pixels with
13 bits, with `Back` for `~m + ~m`; `Born` and `Flown` are a shot and a step of a bullet;
`Hit` is the comparison of boxes; `Flag` is the order of the border rules with the widths
of their sums and differences, `WallFlag` the decoder of directions as the missing
`begin` leaves it and with the crossed names of its inputs.

**Motion** puts one tank, its first bullet and the walls together. `Frame(k)` is one frame
of the game with key `k`, `Clear` is `game_end > 0` or Reset. `rolling` and `calm` are history:
the last step of the tank, of the bullet, was on the picture and met no wall.
`MCMotion` holds the mazes.

**Duel** (`vga_text_avl_interface.sv:134-345`) is the whole playfield: both tanks, the six
bullets chained by their `create` inputs, and both collision detectors, which look at
all six. `Play(h)` is a frame in which the tanks obey the keys `h`; everything reads its
neighbours as they were before the edge. `PutAllBack` is `game_end > 0` or Reset, which
leaves the `creation_flag`s alone. `keyed` is history. What the rest of the project knows of
the playfield is here a consequence of its registers: Arena, with the hits as they are
compared, and BulletChain for the three bullets of each tank.

**Contacts** is where WallScan and Ballistics meet. WallScan says which pixel of the
*screen* the registers hold when an object moves, Ballistics takes flags from a pixel of
the *bitmap*; `Drawn` is how the beam looks the one up in the other (four by four), and an
object may be anywhere. With `DirectionRight` of MazeScreen, which is about the
neighbours of that pixel, the flags of Ballistics are those of the hardware.

**UsbHost** (`MAX3421E.c`, `USB_Task` in `transfer.c`, `main.c:229-320`). One action
per case of `USB_Task`; the interrupt handler is three actions because the bus may
move between its reads and its acknowledgement. `BusChange`, `BusResetDone` and
`DelayOver` are the chip, the cable and time.

**UsbTransfer** (`XferDispatchPkt`, `XferInTransfer`, `kbdPoll`). The program's steps
against the chip (`Receive`, `Repeated`, `Nak`, `Garbled`) and a keyboard that sends
a report again until it has seen its ACK.

**UsbSettle** (`transfer.c:274-283`). `Milliseconds` is the expression of the code in 32
bits; `Attached` and `Settle` are the two cases that use it.

**SysClock** (`alt_tick.c`, `alt_alarm_start.c`). One timer interrupt, one alarm.
`rollover` is held back as in the code: cleared by the wrap, set when a new time lies
below the counter.

**Console** (`altera_avalon_jtag_uart_write.c`, `altera_avalon_jtag_uart_init.c`). `write()`
is one action per access to what it shares with the interrupt routine (`Look` at both
ends, `Copy`, `Publish`, `Kick`, `Wait`, `Judge`), the routine one per access to the device
(`Control`, `Receive`, `ReceiveFull`, `Send`, `SendEnd`), and each step of the device
and the host may come in between. `Tick` is SysClock's, whose alarm is `CheckHost`. The
build is not optimised (`tank_trouble_bsp/Makefile` and the application's use `-O0`), so
the fields of the state are read where the code names them; descriptors are opened
without `O_NONBLOCK`; interrupts do not nest; nobody reads stdin. `Pipe` is the console
as its users see it: characters go in at one end and come out at the other, in
order and once.

## 3. What the runs show

| run | module, size | states | shows |
|---|---|---|---|
| `game` | GameControl, `MaxScore` 3 | 15,072 | safety of the whole loop, refinement of `Match`, no stuck handshake |
| `bullets` | BulletChain, 3 bullets | 9,633 | spacing, ghosts only in the first frame, every bullet goes out |
| `bullets_comment` | same | | finds the ghost bullet |
| `maze` | MazeGen, 4 x 3 | 8,420 | spanning tree, stack within bounds, termination |
| `screen` | MazeScreen, 8 x 5 cells, full size | 24,196 | picture and directions at each of 19,200 pixels |
| `scan` | WallScan, 5 x 4 picture, 7 x 9 frame | 529,848 | fresh flags, one step per frame, under reset at any moment |
| `motion` | Motion, 2 x 2 cells, 34 frames | 1,561,918 | births, walls that stop and turn bullets, the step of a tank back from a wall |
| `duel` | Duel, 2 x 2 cells, 10 frames | 581,666 | births of all six bullets, nobody shot early, refinement of Arena and (twice) of BulletChain |
| `usb` | UsbHost, 2 slots, 3 changes | 101,121 | polls the right device, enumeration ends, loss is noticed |
| `transfer` | UsbTransfer, 3 reports, 3 errors | 115,742 | exactly once, bounded, delivered |
| `settle` | UsbSettle, counter of 64 | 1,920 | finds the settle time that does not end |
| `console` | Console, ring of 3, FIFO of 2 | 1,055,463 | refinement of `Pipe`, armed interrupt, alarm, everything returns |

Every property of a passing run has a mutant: a plausible slip in one definition
(a definition with a suffix, `CountWin_TestThenAdd`), under which that property is
violated. `PROJECT.json` lists them.

### Bounds, and why they are enough

- `MaxScore = 3` is the program's own. `WindowTicks = 1` and `HitFrames = 2` stand
  for the real times: from `maze_ready := 1` to `:= 0` the loop needs some
  10-20 microseconds, so at most one frame tick falls into it, and `ImplementsArena` of
  Duel shows that no bullet shoots a tank in the first six frames of a round, which
  is `HitFrames = 7` here. The proofs hold for all values with
  `WindowTicks < HitFrames`.
- `N = 3` bullets as in the code; `Life` 1000 and `Gap` 35 are 9 and 2, so that
  three bullets still fit in a life; the wire is wider than `Life`, as 10 bits are
  wider than 1000. The proofs hold for any values with that relation.
- The maze of 4 x 3 has all shapes of dead ends and corners; 8 x 5 is out of TLC's
  reach, and the proofs cover every size.
- `MazeScreen` is checked at the program's size, since what matters there is how 20
  and 32 fall together.
- `WallScan`: the object of half size 1 fits whole, touching the left and upper edge
  and sticking out; two wall pixels are what an order among them needs. The sync
  pulse has two lines, with lines before and after it.
- `Motion`: cells, walls, steps, angles and spawn point are the program's own; the maze
  has 2 x 2 cells, in words of 20 bits that hold a cell and its wall, and the walls
  around the tank's first cell are solid on one of two sides. 34 frames are enough
  to turn, shoot, fly to a wall, bounce and come back, and for a tank to turn to angle 11
  and reach the border with a component of -1, the case `StepsBack` leaves out. Two changes of the key are turn, drive or
  shoot, and something else. Any of the five keys or none may come at each change. The rules for the lower and the right border begin as far
  from the edge of this small maze as they do from the screen's (5 and 7 pixels). The
  proofs cover every maze of up to 12 x 11 cells and rounds of any length.
- `Duel`: the tanks start in neighbouring cells, closer than the program's opposite
  corners. `HitFrames = 6` is as far as it goes: a bullet of a leftover flag that
  comes back from a border can hit in the seventh frame, which the run reaches. A life of 7 and a gap of 2 let bullets go out and the
  second one fly within the 10 frames of a round; flags left over at power-up stand for
  those of a round before, and `PutAllBack` comes at any moment. One change of keys in a
  round is two different keys for each tank. The proofs cover every maze, any two cells,
  all keys, and 35 and 1000.
- `UsbHost`: three changes of the bus are a device that goes, another that comes, and
  one more during its enumeration; two slots are used up by two failures.
- `UsbTransfer`: limits 3 and 2 instead of 200 and 3; three reports pass both toggles
  and come back to the first; three errors are a lost ACK, one more on the repetition
  and one on the next report; one dispatch may run out of time.
- `UsbSettle`: a counter that wraps after 64 ticks, with the factor and the quotient
  4 instead of 1000, wraps in milliseconds at a quarter of the word, as the real one does
  at a thousandth.
- `Console`: a ring of three turns round within a call of four characters, which does
  not fit into it at once, and also holds calls of one; five characters fill ring
  and FIFO together, which is where `write()` has to wait. A threshold of 1 in a FIFO
  of 2 leaves a place above and one below. A timeout of 2 tells a host that missed one
  second from one that is away; a counter of 4 with a period of 2 wraps at each
  second call. The proofs hold for all sizes.

### Timing and fairness

- The NIOS II/e needs at least six cycles per instruction on the same 50 MHz clock as
  the state machine, so a clock edge lies between two register accesses
  (`clocked`). `genMaze` writes about 16,000 pixels with several hundred cycles
  each, close to 100 ms, so at least one frame tick falls into it.
- `WF` of processor, clock and frame in GameControl: the clocks never stop, and the
  loop goes on because the USB calls in it return, for which `BoundedDispatch` is the
  main reason. Frames are fair in BulletChain, and the walk in MazeGen.
- UsbHost: the loop runs, the settle time ends (`WF` of `DelayOver`; UsbSettle shows
  when it does not), and a bus reset, 50 ms long, ends.
  Its end is strongly fair while main is at `pc = "main"`: it is not tied to the loop
  and does not fall each time into the few instructions between the handler and
  `USB_Task`. Without that the interrupt that the reset causes could be seen too
  late each time, and enumeration would start over for ever.
- UsbTransfer: the chip ends each transaction, and the loop polls on. Errors are
  finite in the model; `Delivered` says that the toggles then find together.
- UsbSettle: the timer ticks, and the loop takes a step that is possible again and
  again. That is more than the code promises, and the delay may still not end.
- Console: the processor runs (`WF` of `Writer` and of `Isr`) and its timer ticks. Nothing
  is asked of the host: it may stay away for ever, and may type for ever.

## 4. What is proved

Proofs are in the eight modules that end in `Proofs`; all obligations are discharged
for every value of the constants that satisfies the assumptions named in the
modules. TLC checks the assumptions at the values of the runs. MazeProofs and
ConsoleProofs each cover two modules, MotionProofs covers Ballistics, Motion, Duel and
Contacts.

**GameControl.** Assumed: `MaxScore \in Nat`, `WindowTicks < HitFrames`. `ScoreIsWins` is
not inductive: it says nothing about where the processor is when the state machine
moves. `IInv` adds
`WindowInv` (while `maze_ready` is high the processor is between its two writes, the
state machine has answered by the next access, and the frames since tanks were
cleared are no more than the ticks of the window),
`SetupInv` (from reading `game_end` to raising `maze_ready` the state machine waits
in the state that was read),
`DecidedInv` (a score at the limit belongs to the tank whose win is shown, and
`game_reset` is up for it before the processor looks again) and
`HitInv`. From it follow `TypeCorrect`, `ScoreCorrect`, `RedrawCorrect`, `WindowQuiet`,
`FreshMazeCorrect` and `MatchImplemented`, the refinement of `Match`, one step per
action.

**BulletChain.** Assumed: `Life < WireSpan`. `IInv` adds to types and `Spacing` that an
idle bullet's timer is 0, what clearing leaves behind, that a trigger means a key, and
`FlagJustified`: a `creation_flag` is the echo of a `create` one frame ago, so its
predecessor is old enough or has just gone out. Without the last one `Spacing` is
not inductive, because the flag fires a frame after the timer was looked at.

**MazeGen.** Assumed: the grid is not empty. `IInv` joins the tree property with three
facts: the stack holds carved cells only, and no more of them than were carved
(`StackInv`), so it is no longer than the grid although `Ppush` would allow twice that;
every carved cell not on it has no uncarved neighbour (`WayBack`), so, as the grid is
connected (`GridConnected`), an empty stack means a finished maze (`WayBackLeads`); and a
cell not yet carved has no passage (`Untouched`), which is why the step that carves it
closes no loop. Theorems `TypeCorrect`, `StackCorrect`, `TreeCorrect`.

From walk to screen: `SquareFree` says that no maze has four cells around a corner all
joined. That is not read off the tree, which would need induction over paths, but
kept by each step: a cell broken into has one passage, and a cell of a square has two
(`CarveNoSquare`).

`Terminates` is out of the prover's reach, but not the reason for it: `WalkIsShort` says that
each iteration moves the walk exactly one step on, from 1 to at most `2 * Area - 2`, for a
grid of any size. It needs `WayBack` too: the walk is not over before the stack is empty,
or the count would stop short.

**MazeScreen.** Assumed: a row is a whole number of words, and for the directions
`WordsEndInCells`: where a word ends inside of a row, the pixels on both sides lie within
a cell, not next to a wall that runs along the column. The program's 20 pixels per
cell and 32 per word satisfy it, which TLC checks; with sizes that do not,
`DirectionRight` can fail. `Painted` says that drawing shows the walls, `Address` and `Stored` that
packing and indexing are inverse to each other, both from the uniqueness of
quotient and remainder (`DivMod`); `ReadNeighbours` which pixel the hardware takes for each
neighbour; `AlongCell` that at the end of a word the neighbour that is read right is
as much a wall as the pixel itself; `NoLonePixel` that a wall pixel without neighbours
would be the corner of a square. The lemmas hold for any maze, so the local choice
of passages that TLC needs is no restriction. Theorems `PictureCorrect`,
`DirectionCorrect`.

**Motion.** Assumed: the picture fits in 10 bits, cells have the program's size, the
border rules begin where they do, and the tank starts in the middle of a cell. The maze is
any set of passages, keys come in any order, rounds last as long as they like.
`CrossingCorrect` needs no invariant but the types: a box without a wall pixel is in one
cell or in a passage (`WallInMaze`, `CellOf`, `Passage`), and a step of at most 4 pixels from
there ends in the same cell or one that a passage leads to (`StepReaches`, `FreeStep`).
`Calm`, for `BounceCorrect`: after a step that met no wall the box one step back was
free, so a wall touched now lies ahead; its direction (`TouchedAt`, `ContactTouches`)
decides which coordinate is turned, and the turned step takes the box off it
(`BounceRow`, `BounceColumn`). Without `calm` the property is false: a bullet that touched a wall
before may be behind its face.
`Rolling`, for `BackCorrect`, is the same of the tank: after a step without a flag its motion is
at most 16 parts, since it is not yet a doubled one, and the box one step back touched nothing
(`RollStep`). The step back of `-2m - 2` takes it from `f + m` to `f - m - 2`, so `f`, where it
touched nothing, lies between (`BackBeyond`), unless `m = -1`; and what is touched on both sides of
`f` was touched at `f` (`BackStep`). Without `rolling` the property is false.

**Duel.** Assumed besides: the two tanks start in different cells, `HitFrames <= 6`, and a
timer fits the wire to the next bullet. The lemmas about one tank and one bullet are
stated for any registers, so they serve both tanks and all six bullets.
`AllReady`, for `MuzzlesCorrect`: while a shot is on its way through `triggers` and `flags`,
the tank first stands and then moves by nothing, a step along its barrel, or a step
back (`Aimed`), for leftover flags too; a bullet is born five of its own steps from
it, and the tables give at least 12 of 16 parts on one axis at each of the 45 angles
(`Tables`), which is out of the tank's box however it moves in that frame (`MuzzleFar`,
`BornClear`).
`Early`, for `ArenaCorrect`: in the first frames of a round each tank is near the middle of
its cell (`TankNear`), so no wall is in its reach, and each of its bullets is idle, or near and
ahead of the tank and flying away from it, or already too far to come back in
time; and what is near the middle of one cell is out of the box of a tank near the
middle of another, which is where the start in different cells is needed. From it each
frame is a step of Arena: `MatchImplemented` of GameControl and `ArenaCorrect` together are
the game on the real playfield.
`ChainCorrect` needs the types only: the registers of BulletChain are read off, and each
frame is one of its steps (`ChainStep`), for both tanks; so `Spacing`, `CleanStart` and `NoLateGhost`,
which are proved of BulletChain, hold of the six bullets among the walls.

**Contacts.** No run checks it, since the theorem is about a single state and holds for
objects of any size anywhere. `SameContactCorrect` says for every maze and place that what
WallScan hands over is in the pixel of the bitmap Ballistics uses: a pixel of the bitmap that the object's box reaches at all has a pixel of the
screen in the box (`FirstIn`), in each row of the screen that crosses it (`TouchedBelow`), and so
the order in which the beam draws is the order of rows and columns in the bitmap.

**UsbHost.** Assumed: the table has at least one slot. `PollsTheDevice` is about a main
loop that remembers a class and an address from several loops ago. `IInv` adds that
slots are handed out in order (`InOrder`), so the last one in use belongs to the
device enumerated last (`LastSlot`), and `Watched`: what the handler and the probe can
leave behind is never a state of a device being set up, so the main loop is told
that a device has gone before the next one can take its slot. Theorems
`TypeCorrect`, `PollsCorrect`.

**UsbTransfer.** Assumed: limits of at least 1 that fit their counters. `ExactlyOnce`
needs the toggles: `InStep` says when the saved one is behind the chip's and when
the device's is ahead, `Fresh` that a result belongs to the transaction of this
dispatch, which holds until a dispatch runs out of time. `Counted` is the sum behind
`BoundedDispatch`. Theorems `TypeCorrect`, `OnceCorrect`, `BoundCorrect`.

**WallScan.** Assumed: the picture lies before the sync pulse, the pulse within the frame,
and an object is smaller than the counters. `IInv` ties `vs` to the beam (`SyncInv`),
counts its edges (`TicksInv`) and says of each register from where to where in the
frame it holds the last wall pixel drawn under the object (`FirstInv`, `SecondInv`); between the
step and the next picture the first register may be wrong, which is why the step
reads the second. Theorems `ContactCorrect` and `OneStepCorrect`, for every picture,
set of walls and object.

**SysClock.** Assumed: a period fits in the counter. What is left of a period is the
distance from the counter to the time of the alarm, around the wrap while
`rollover` is set and straight otherwise (`ClockInv`). Theorem `ClockCorrect`, for the clock
alone and an alarm started at any time; the same invariant holds in the console,
where nothing else moves the clock (`ClockInvariant`), and gives `AlarmCorrect` there.

**Console.** Assumed: a ring of two places or more, a threshold below the depth of the
FIFO, a timeout the counter reaches. `IInv` says that places being filled stay free
however far the routine gets meanwhile (`CopyFits`), where each character is
(`Conserved`, `InFifo`, `InRing`, `Copied`), that the FIFO has at least the space the routine
has seen (`FifoFits`), and `Armed`, which is `PendingIsArmed` in the middle of the
routine too. Theorems `ArmedCorrect`, `AlarmCorrect`, `TypeCorrect` and `PipeCorrect`, the
refinement of `Pipe`.

**Only model-checked**: all liveness (`HandshakesEnd`, `BulletGoesOut`, `Terminates`,
`EnumerationEnds`, `LossIsNoticed`, `Delivered`, `IsrReturns`, `WriteReturns`), which is
beyond the prover. Nothing is stated of how many frames a tank stays in touch with some wall:
the step back may end at another one, and then doubles (section 5).

**Only proved**, and checked by no run: `WalkIsShort`, `SameContactCorrect`,
`DuelTypeCorrect`, `CleanStartCorrect`, `SquareFree`, `ClockCorrect` and the inductive invariants.

## 5. Where the code says otherwise

- `bullets_comment`: `vga_text_avl_interface.sv:165` says bullet 2 is active only after
  bullet 1. `creation_flag` survives the end of a round, so one shot may fire bullets
  2 and 3 alone in the first frame of the next. `NoLateGhost` bounds the damage.
- `settle`: the comment at `transfer.c:280` says the code is waiting for the settle
  timer to expire. The milliseconds start over every 71.6 minutes, the deadline does
  not: a device attached within 200 ms before that never gets past `SETTLE`, until
  it is unplugged.

Smaller ones without a run:

- `collisionWall.sv:3` is said to check the pixels left and right of the beam. At both
  ends of a word it gets a pixel 31 to the side (`vga_text_avl_interface.sv:384`).
  `DirectionRight` shows that no wall is so placed that it matters.
- `ERROR` (0xff) runs the case that should never be reached (`transfer.c:382`), because
  the switch masks it to 0xf0. It does nothing, as its own case would.
- `HIRQ | bmFRAMEIRQ` is always true (`transfer.c:298`): the first SOF is not waited for.
- A pending bus event increments the `INITIALIZE` a disconnection has just set
  (`MAX3421E.c:170, 228`), and the device table is not cleared. The next device gets
  the next slot, and main reinitialises only if a device was running.
- The sync pulse is on lines 489-490, not 490-491 (`VGA_controller.sv:98`), because
  `vc + 1` is compared.
- `createPStack` allocates the size of a `struct pair`, 8 bytes, for the header of 12 that it
  fills in (`paired_stack.c:16`). Whether the last field overlaps something else is up
  to the heap, whose layout is not modelled.
- The wait for the oscillator prints after 256 attempts but does not end
  (`MAX3421E.c:115-120`): without the chip the program hangs there.
- In corners the flags do not stop every bullet. Only the wall pixel drawn last decides,
  and it turns one axis: a bullet at (79, 79) that touches both walls of a corner
  is turned to the left, and its 4 pixels upwards carry it to (81, 75), beyond the
  upper wall. Where a wall branches off a column the axis may be the wrong one. In the
  lower left corner the rule for the bottom comes first, the bullet reaches x = 0, where
  its box is empty and no flag sees it, and slides along the edge. And a step around
  the end of a wall, from (81, 159) to (77, 160), may change to the diagonal cell, through two
  open passages at once. The first proofs of `NoSilentCrossing` and `StraightBounce`
  failed at these places; now they say where they apply (`OnPicture`, `Reaches`,
  `RowGoesOn`, `ColumnGoesOn`).
- `tank1.sv:30` and `:32` name the rightmost and bottommost point of the screen, but nothing
  uses them. A tank held against the left border bounces a little further up each time,
  until a step back still touches the wall, doubles, and takes it over the edge: driven
  backwards from its start it is off the screen after 362 frames, six seconds. `StepsBack`
  says what does hold: the first step back leaves everything the tank has run into. It does not
  for a component of -1, where `~m + ~m` is 0: a tank that backs a little, turns to angle 11
  and backs on reaches the left border with it and is still there one frame later.
- `write()` gives up when it finds `host_inactive` above 0, which one missed second is
  enough for (`altera_avalon_jtag_uart_write.c:187`), and then returns a partial count.

## 6. Not modelled

- `Color_Mapper.sv` and the sprite ROMs: they only colour. `HexDriver.sv` and the LEDs:
  debugging. `maze_rom.sv`, `ram.sv`, `testbench.sv`: used by nothing. The random spawn
  position: written to 0x60, read by nothing.
- Most of `software/*_bsp` and `lab62_soc`: headers, start-up code, C library glue and drivers
  that the tools generate for any program. They are the larger part of the lines
  under `software`; only the console's write path and the clock carry state this
  program depends on. `hal_bsp` is an older copy of the same. `read`, `ioctl` and
  `close` of the JTAG driver are called by nothing.
- `XferCtrlReq` and its stages are success or failure in UsbHost; the SPI driver of the
  chip's registers is a read or write that works. Descriptors are not parsed: what a
  device answers is an input. Mouse reports are only printed.
- The heap that every `genMaze` leaks (`mazes.c:48`), and the keycode that stays in its
  register when the keyboard goes (`main.c:242-247`): no property is claimed.
- In Ballistics: the score digits above the maze, which are walls to a bullet that gets
  there.

## 7. Plan

1. *Control transfers*: `XferCtrlReq` with its stages in UsbTransfer's setting, and what a
   lost acknowledgement of SET_ADDRESS leaves behind; then that UsbTransfer
   implements the success-or-failure of UsbHost.
2. *SPI*: the command and its status byte, with the interrupt line between them.
