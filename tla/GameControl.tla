---------------------------- MODULE GameControl ----------------------------
(***************************************************************************)
(* The game loop of the processor (main.c) and the game state machine of   *)
(* the fabric (game_states.sv), joined by four parallel I/O registers:     *)
(*                                                                         *)
(*     0x70 game_reset   0x80 maze_ready   0x100 keycode    CPU -> FSM     *)
(*     0x90 game_end                                        FSM -> CPU     *)
(*                                                                         *)
(* The processor makes one register access per step.  The state machine    *)
(* takes a step at each clock edge, tanks and bullets at each video frame. *)
(*                                                                         *)
(* Timing assumptions, each a guard below:                                 *)
(*   - ClockBetweenAccesses: both run on the 50 MHz clock and the processor*)
(*     (NIOS II/e) needs several cycles per instruction, so the state      *)
(*     machine is clocked at least once between two register accesses;     *)
(*   - GenMazeSpansFrame: genMaze redraws the whole bitmap in software and *)
(*     takes longer than one 60 Hz frame;                                  *)
(*   - WindowShort: the instructions from maze_ready := 1 to               *)
(*     maze_ready := 0 span at most WindowTicks frame ticks;               *)
(*   - a bullet needs HitFrames frames after the tanks and bullets were    *)
(*     put back before it can overlap a tank.  This is all the game asks   *)
(*     of them; Arena states it, and Duel is shown to implement Arena.     *)
(***************************************************************************)
EXTENDS Naturals

CONSTANTS
    MaxScore,       \* the last score that does not end the match (3)
    WindowTicks,    \* frame ticks that fit in the maze_ready window
    HitFrames       \* frames before the first hit of a round

ASSUME ScoreAssumption  == MaxScore \in Nat
ASSUME TimingAssumption == /\ WindowTicks \in Nat
                           /\ HitFrames \in Nat
                           /\ WindowTicks < HitFrames

VARIABLES
    \* the state machine and its inputs from the playfield
    fsm,            \* State of game_states
    hits,           \* tanks n whose tank<n>shot is high
    age,            \* frames since tanks and bullets were last reset
    \* the registers
    gameReset, mazeReady,
    enter,          \* keycode holds the Enter key 0x28
    \* the processor
    pc,             \* the next register access of main
    branch,         \* the win being handled: 0 for a new match, else the tank
    score,          \* t1Score and t2Score
    \* bookkeeping of the timing assumptions
    clocked,        \* a clock edge has passed since the last access
    ticks,          \* frame ticks since genMaze began or maze_ready rose
    \* history
    wins,           \* rounds each tank has won on the playfield this match
    fresh           \* the maze on screen has not been played yet

game   == <<fsm, hits, age>>
regs   == <<gameReset, mazeReady, enter>>
locals == <<branch, score>>
timing == <<clocked, ticks>>
hist   == <<wins, fresh>>
vars   == <<game, regs, pc, locals, timing, hist>>

Tanks == {1, 2}
Won(n)    == IF n = 1 THEN "tank1win" ELSE "tank2win"
Screen(n) == IF n = 1 THEN "t1w" ELSE "t2w"

States == {"title_state", "start_game", "in_game",
           "tank1win", "tank2win", "t1w", "t2w"}
Steps  == {"clear", "assert", "read3", "rezero", "read2", "read1",
           "genMaze", "ready", "over", "drop", "poll"}
TickCap == WindowTicks + 1

\* The output of the state machine that the processor reads at 0x90.
game_end == CASE fsm = "tank1win"   -> 1
              [] fsm = "tank2win"   -> 2
              [] fsm = "start_game" -> 3
              [] OTHER              -> 0

AtMost(bound, n) == IF n < bound THEN n ELSE bound

TypeOK ==
    /\ fsm \in States
    /\ hits \in SUBSET Tanks
    /\ age \in 0..HitFrames
    /\ gameReset \in {0, 1}
    /\ mazeReady \in {0, 1}
    /\ enter \in BOOLEAN
    /\ pc \in Steps
    /\ branch \in {0} \cup Tanks
    /\ score \in [Tanks -> 0..MaxScore + 1]
    /\ clocked \in BOOLEAN
    /\ ticks \in 0..TickCap
    /\ wins \in [Tanks -> 0..MaxScore + 2]
    /\ fresh \in BOOLEAN

Init ==
    /\ fsm = "title_state"
    /\ hits = {}
    /\ age = 0
    /\ gameReset = 0
    /\ mazeReady = 0
    /\ enter = FALSE
    /\ pc = "clear"
    /\ branch = 0
    /\ score = [n \in Tanks |-> 0]
    /\ clocked = FALSE
    /\ ticks = 0
    /\ wins = [n \in Tanks |-> 0]
    /\ fresh = FALSE
-----------------------------------------------------------------------------
(* The processor: one action per register access of the game loop.         *)

\* ClockBetweenAccesses.
Access(p) ==
    /\ pc = p
    /\ clocked
    /\ clocked' = FALSE

\* Where the read that follows the branch of b continues.
AfterBranch(b) == CASE b = 0 -> "read2" [] b = 2 -> "read1" [] b = 1 -> "drop"

MatchDecided == \E n \in Tanks : score[n] > MaxScore

\* Top of the loop: game_reset := 0 ...
ClearGameReset ==
    /\ Access("clear")
    /\ gameReset' = 0
    /\ pc' = IF MatchDecided THEN "assert" ELSE "read3"
    /\ UNCHANGED <<game, mazeReady, enter, locals, ticks, hist>>

\* ... and back to 1 while a score of the last match stands at the limit.
AssertGameReset ==
    /\ Access("assert")
    /\ gameReset' = 1
    /\ pc' = "read3"
    /\ UNCHANGED <<game, mazeReady, enter, locals, ticks, hist>>

\* First read of game_end: is a match to be set up?
ReadStart ==
    /\ Access("read3")
    /\ IF game_end = 3
       THEN /\ branch' = 0
            /\ score' = [n \in Tanks |-> 0]
            /\ pc' = "rezero"
       ELSE /\ pc' = "read2"
            /\ UNCHANGED locals
    /\ UNCHANGED <<game, regs, ticks, hist>>

\* Setting up a match drops game_reset before the maze is drawn.
RezeroGameReset ==
    /\ Access("rezero")
    /\ gameReset' = 0
    /\ pc' = "genMaze"
    /\ ticks' = 0
    /\ UNCHANGED <<game, mazeReady, enter, locals, hist>>

\* MUTANT: the limit is compared with the score before the win.
CountWin_TestThenAdd(n) ==
    /\ branch' = n
    /\ score' = [score EXCEPT ![n] = @ + 1]
    /\ pc' = IF score[n] <= MaxScore THEN "genMaze" ELSE "over"
    /\ ticks' = 0

\* MUTANT: only a new match gets a new maze.
CountWin_OldMaze(n) ==
    /\ branch' = n
    /\ score' = [score EXCEPT ![n] = @ + 1]
    /\ pc' = IF score[n] + 1 <= MaxScore THEN "ready" ELSE "over"
    /\ ticks' = 0

\* A win of tank n is counted; at the limit no new maze is drawn.
CountWin(n) ==
    /\ branch' = n
    /\ score' = [score EXCEPT ![n] = @ + 1]
    /\ pc' = IF score[n] + 1 <= MaxScore THEN "genMaze" ELSE "over"
    /\ ticks' = 0

\* Second read, guarded by t2Score <= 3.
ReadTank2 ==
    /\ Access("read2")
    /\ IF game_end = 2 /\ score[2] <= MaxScore
       THEN CountWin(2)
       ELSE pc' = "read1" /\ UNCHANGED <<locals, ticks>>
    /\ UNCHANGED <<game, regs, hist>>

\* MUTANT: the condition of the second read, copied.
ReadTank1_Copied ==
    /\ Access("read1")
    /\ IF game_end = 2 /\ score[1] <= MaxScore
       THEN CountWin(1)
       ELSE pc' = "drop" /\ UNCHANGED <<locals, ticks>>
    /\ UNCHANGED <<game, regs, hist>>

\* Third read, without such a guard.
ReadTank1 ==
    /\ Access("read1")
    /\ IF game_end = 1
       THEN CountWin(1)
       ELSE pc' = "drop" /\ UNCHANGED <<locals, ticks>>
    /\ UNCHANGED <<game, regs, hist>>

\* genMaze returns: the bitmap holds a new maze (GenMazeSpansFrame).
GenMaze ==
    /\ pc = "genMaze"
    /\ ticks > 0
    /\ fresh' = TRUE
    /\ pc' = "ready"
    /\ UNCHANGED <<game, regs, locals, timing, wins>>

RaiseMazeReady ==
    /\ Access("ready")
    /\ mazeReady' = 1
    /\ ticks' = 0
    /\ pc' = AfterBranch(branch)
    /\ UNCHANGED <<game, gameReset, enter, locals, hist>>

\* The match is over: a hundred writes of 1 to game_reset, here one.
EndMatch ==
    /\ Access("over")
    /\ gameReset' = 1
    /\ pc' = AfterBranch(branch)
    /\ UNCHANGED <<game, mazeReady, enter, locals, ticks, hist>>

\* MUTANT: maze_ready is raised and never dropped.
DropMazeReady_Never ==
    /\ Access("drop")
    /\ pc' = "poll"
    /\ UNCHANGED <<game, regs, locals, ticks, hist>>

DropMazeReady ==
    /\ Access("drop")
    /\ mazeReady' = 0
    /\ pc' = "poll"
    /\ UNCHANGED <<game, gameReset, enter, locals, ticks, hist>>

\* The tail of the loop polls the keyboard: a report replaces the keycode, a
\* NAK, an error or a missing keyboard leaves the old one standing.
PollReport(e) ==
    /\ Access("poll")
    /\ enter' = e
    /\ pc' = "clear"
    /\ UNCHANGED <<game, gameReset, mazeReady, locals, ticks, hist>>

PollNothing ==
    /\ Access("poll")
    /\ pc' = "clear"
    /\ UNCHANGED <<game, regs, locals, ticks, hist>>

Poll == PollNothing \/ \E e \in BOOLEAN : PollReport(e)

CpuStep ==
    \/ ClearGameReset \/ AssertGameReset \/ ReadStart \/ RezeroGameReset
    \/ ReadTank2 \/ ReadTank1 \/ GenMaze \/ RaiseMazeReady \/ EndMatch
    \/ DropMazeReady \/ Poll
-----------------------------------------------------------------------------
(* The state machine: one action per transition, all at the clock edge.    *)

Edge(from, to) ==
    /\ fsm = from
    /\ fsm' = to
    /\ clocked' = TRUE

Others == UNCHANGED <<hits, age, regs, pc, locals, ticks>>

EnterPressed ==
    /\ enter
    /\ \/ Edge("title_state", "start_game")
       \/ \E n \in Tanks : Edge(Screen(n), "title_state")
    /\ Others /\ UNCHANGED hist

BeginMatch ==
    /\ mazeReady = 1
    /\ Edge("start_game", "in_game")
    /\ wins' = [n \in Tanks |-> 0]
    /\ fresh' = FALSE
    /\ Others

RoundWon(n) ==
    /\ Edge("in_game", Won(n))
    /\ wins' = [wins EXCEPT ![n] = AtMost(MaxScore + 2, @ + 1)]
    /\ Others /\ UNCHANGED fresh

\* A hit on tank 1 is a win of tank 2 and is looked at first.
TankShot ==
    \/ 1 \in hits /\ RoundWon(2)
    \/ 1 \notin hits /\ 2 \in hits /\ RoundWon(1)

\* game_reset is looked at before maze_ready.
ShowWinner(n) ==
    /\ gameReset > 0
    /\ Edge(Won(n), Screen(n))
    /\ Others /\ UNCHANGED hist

BeginRound(n) ==
    /\ gameReset = 0
    /\ mazeReady = 1
    /\ Edge(Won(n), "in_game")
    /\ fresh' = FALSE
    /\ Others /\ UNCHANGED wins

\* No condition of the current state holds: Next_state = State.
Waiting ==
    \/ fsm \in {"title_state", "t1w", "t2w"} /\ ~enter
    \/ fsm = "start_game" /\ mazeReady = 0
    \/ fsm = "in_game" /\ hits = {}
    \/ fsm \in {"tank1win", "tank2win"} /\ gameReset = 0 /\ mazeReady = 0

Hold ==
    /\ Waiting
    /\ clocked' = TRUE
    /\ UNCHANGED <<game, regs, pc, locals, ticks, hist>>

FsmClock ==
    \/ EnterPressed \/ BeginMatch \/ TankShot \/ Hold
    \/ \E n \in Tanks : ShowWinner(n) \/ BeginRound(n)
-----------------------------------------------------------------------------
(* The playfield and the reset button.                                     *)

\* Tanks, bullets and hits.
Field == INSTANCE Arena

\* The three accesses that follow maze_ready := 1 take at most WindowTicks.
WindowShort ==
    mazeReady = 1 /\ pc \in {"read2", "read1", "drop"} => ticks < WindowTicks

\* MUTANT: only a win puts tanks and bullets back, not the start of a match.
FrameTick_WinsOnly ==
    /\ WindowShort
    /\ ticks' = AtMost(TickCap, ticks + 1)
    /\ IF game_end \in {1, 2} THEN Field!Clear ELSE Field!Play
    /\ UNCHANGED <<fsm, regs, pc, locals, clocked, hist>>

\* One video frame.  While game_end is not 0 tanks and bullets are put back;
\* otherwise they move, and any tank may end up under a bullet.
FrameTick ==
    /\ WindowShort
    /\ ticks' = AtMost(TickCap, ticks + 1)
    /\ IF game_end > 0 THEN Field!Clear ELSE Field!Play
    /\ UNCHANGED <<fsm, regs, pc, locals, clocked, hist>>

\* KEY[0] resets the processor, the registers, the state machine and, without
\* waiting for a frame, the tanks and the bullets.
Reset ==
    /\ fsm' = "title_state"
    /\ Field!Clear
    /\ gameReset' = 0
    /\ mazeReady' = 0
    /\ enter' = FALSE
    /\ pc' = "clear"
    /\ branch' = 0
    /\ score' = [n \in Tanks |-> 0]
    /\ clocked' = FALSE
    /\ ticks' = 0
    /\ wins' = [n \in Tanks |-> 0]
    /\ fresh' = FALSE

Next == CpuStep \/ FsmClock \/ FrameTick \/ Reset

\* The clocks never stop.  WF of the processor says that its loop goes on: the
\* USB tasks called at the end of the loop return.
Fairness ==
    /\ WF_vars(CpuStep)
    /\ WF_vars(FsmClock)
    /\ WF_vars(FrameTick)

Spec == Init /\ [][Next]_vars
FairSpec == Spec /\ Fairness
-----------------------------------------------------------------------------
(* Properties.                                                             *)

\* A round just won by tank n has been counted by the processor (main.c:196,
\* 213) once it is drawing the next maze, handing it over or ending the match.
Counted(n) ==
    \/ pc \in {"genMaze", "ready", "over"}
    \/ mazeReady = 1
    \/ score[n] > MaxScore

\* The score in the processor's memory is the number of rounds each tank has
\* won on the playfield: no win is lost, none is counted twice, although the
\* processor samples game_end three times per loop while the state machine
\* and the frames run on (main.c:191-225, game_states.sv:70-76).
ScoreIsWins ==
    fsm \in {"in_game", "tank1win", "tank2win"} =>
        \A n \in Tanks :
            wins[n] = IF fsm = Won(n) /\ ~Counted(n) THEN score[n] + 1
                                                     ELSE score[n]

\* The maze is never redrawn under the tanks: while genMaze runs, no round is
\* being played (main.c:187, 199, 216; game_states.sv:48-69).
NoRedrawInPlay == pc = "genMaze" => fsm \notin {"in_game", "title_state"}

\* While maze_ready is high nobody is hit: a win in that window would be
\* taken back at the next clock edge (game_states.sv:56-69, main.c:188-227).
NoHitWhileReady == mazeReady = 1 => hits = {}

\* Every round is played in a maze drawn for it: the state machine enters
\* in_game only when genMaze has returned since the last round began.
RoundOnFreshMaze ==
    [][fsm /= "in_game" /\ fsm' = "in_game" => fresh]_vars

\* Players see a match: the state machine and the history of wins implement
\* Match, where a win screen needs MaxScore + 1 wins of that tank and every
\* match starts from 0 : 0 (main.c:169-225, game_states.sv:34-77).
M == INSTANCE Match WITH PointsToWin <- MaxScore + 1,
                         phase <- fsm, points <- wins
ImplementsMatch == M!Spec

\* The two sides never wait for each other for ever: a round that was won is
\* settled, by the next round, the win screen or, after a reset, the title
\* screen, and a match that was asked for begins (main.c:178-225).
HandshakesEnd ==
    /\ \A n \in Tanks :
        (fsm = Won(n)) ~> (fsm \in {"in_game", Screen(n), "title_state"})
    /\ (fsm = "start_game") ~> (fsm \in {"in_game", "title_state"})
-----------------------------------------------------------------------------
(* The inductive strengthening of the invariants, proved in               *)
(* GameControlProofs.                                                      *)

Undecided == \A n \in Tanks : score[n] <= MaxScore
Scoreless == \A n \in Tanks : score[n] = 0

\* maze_ready is high only between its two writes; the state machine has
\* answered it by the next access of the processor, and no frame in which a
\* tank could be hit fits in between.
WindowInv ==
    mazeReady = 1 =>
        /\ pc \in {"read2", "read1", "drop"}
        /\ gameReset = 0
        /\ Undecided
        /\ fsm \in {"start_game", "tank1win", "tank2win", "in_game"}
        /\ clocked => fsm = "in_game"
        /\ fsm /= "in_game" => fresh
        /\ fsm = "start_game" => Scoreless
        /\ age <= ticks
        /\ ticks <= WindowTicks

\* From the read of game_end to maze_ready := 1 the state machine waits in
\* the state that was read.
SetupInv ==
    /\ pc \in {"rezero", "genMaze", "ready"} => Undecided
    /\ pc \in {"genMaze", "ready"} =>
        /\ gameReset = 0
        /\ branch = 0 => fsm = "start_game" /\ Scoreless
        /\ \A n \in Tanks : branch = n => fsm = Won(n)
    /\ pc = "rezero" => /\ branch = 0
                         /\ fsm = "start_game"
                         /\ Scoreless
    /\ pc = "ready" => fresh /\ age = 0
    /\ pc = "genMaze" /\ ticks > 0 => age = 0
    /\ pc = "over" => /\ branch \in Tanks
                       /\ fsm = Won(branch)
                       /\ score[branch] = MaxScore + 1
                       /\ gameReset = 0

\* A score at the limit belongs to the tank whose win is being shown, and
\* game_reset is raised for it before the processor looks again.
DecidedInv ==
    /\ pc = "assert" => ~Undecided
    /\ fsm = "in_game" => gameReset = 0 /\ Undecided
    /\ \A n \in Tanks : fsm = Won(n) =>
        /\ \A m \in Tanks \ {n} : score[m] <= MaxScore
        /\ gameReset = 1 => score[n] = MaxScore + 1
        /\ score[n] > MaxScore /\ pc /= "over" => gameReset = 1 /\ ~clocked

\* A tank is under a bullet only HitFrames frames after the last reset.
HitInv == hits /= {} => age = HitFrames

\* All of it.
IInv ==
    /\ TypeOK
    /\ WindowInv
    /\ SetupInv
    /\ DecidedInv
    /\ HitInv
    /\ ScoreIsWins
=============================================================================
