------------------------- MODULE GameControlProofs -------------------------
(***************************************************************************)
(* Proofs about GameControl, for every score limit and every timing that   *)
(* satisfies TimingAssumption: the inductive invariant IInv, the           *)
(* invariants it contains, the action property RoundOnFreshMaze and the    *)
(* refinement of Match.                                                    *)
(***************************************************************************)
EXTENDS GameControl, TLAPS



\* What a tank's win state and win screen are.
LEMMA WonAndScreen ==
    /\ Won(1) = "tank1win" /\ Won(2) = "tank2win"
    /\ Screen(1) = "t1w"   /\ Screen(2) = "t2w"
BY DEF Won, Screen

\* Saturating addition stays below its bound and never skips a value.
LEMMA AtMostBound ==
    ASSUME NEW b \in Nat, NEW n \in Nat
    PROVE  /\ AtMost(b, n) \in 0..b
           /\ AtMost(b, n) <= n
           /\ n <= b => AtMost(b, n) = n
BY DEF AtMost

-----------------------------------------------------------------------------
\* The initial states satisfy the inductive invariant.
LEMMA InitInv == Init => IInv
<1> SUFFICES ASSUME Init PROVE IInv
  OBVIOUS
<1> USE DEF Init
<1>1. score \in [Tanks -> 0..MaxScore + 1] /\ wins \in [Tanks -> 0..MaxScore + 2]
  BY ScoreAssumption
<1>2. ticks \in 0..TickCap /\ age \in 0..HitFrames
  BY TimingAssumption DEF TickCap
<1>3. TypeOK
  BY <1>1, <1>2 DEF TypeOK, States, Steps
<1>4. WindowInv /\ SetupInv /\ DecidedInv /\ HitInv /\ ScoreIsWins
  BY ScoreAssumption DEF WindowInv, SetupInv, DecidedInv, HitInv, ScoreIsWins,
     Undecided, Won
<1> QED
  BY <1>3, <1>4 DEF IInv

\* No step of the processor breaks it.
LEMMA CpuInv == IInv /\ CpuStep => IInv'
<1> SUFFICES ASSUME IInv, CpuStep PROVE IInv'
  OBVIOUS
<1> USE DEF IInv, TypeOK, WindowInv, SetupInv, DecidedInv, HitInv,
            ScoreIsWins, Undecided, Counted, Won, States, Steps, Tanks,
            TickCap, Scoreless, game, regs, locals, timing, hist, Access, game_end
<1>1. CASE ClearGameReset
  <2> USE <1>1 DEF ClearGameReset, MatchDecided
  <2>1. TypeOK'
    OBVIOUS
  <2>2. WindowInv'
    BY ScoreAssumption, TimingAssumption
  <2>3. SetupInv'
    BY ScoreAssumption
  <2>4. DecidedInv'
    BY ScoreAssumption
  <2>5. HitInv'
    OBVIOUS
  <2>6. ScoreIsWins'
    BY ScoreAssumption
  <2> QED
    BY <2>1, <2>2, <2>3, <2>4, <2>5, <2>6
<1>2. CASE AssertGameReset
  <2> USE <1>2 DEF AssertGameReset
  <2>1. TypeOK'
    OBVIOUS
  <2>2. WindowInv'
    BY ScoreAssumption, TimingAssumption
  <2>3. SetupInv'
    BY ScoreAssumption
  <2>4. DecidedInv'
    BY ScoreAssumption
  <2>5. HitInv'
    OBVIOUS
  <2>6. ScoreIsWins'
    BY ScoreAssumption
  <2> QED
    BY <2>1, <2>2, <2>3, <2>4, <2>5, <2>6
<1>3. CASE ReadStart
  <2> USE <1>3 DEF ReadStart
  <2>1. TypeOK'
    <3>1. score' \in [Tanks -> 0..MaxScore + 1]
      BY ScoreAssumption
    <3> QED
      BY <3>1
  <2>2. WindowInv'
    BY ScoreAssumption, TimingAssumption
  <2>3. SetupInv'
    BY ScoreAssumption
  <2>4. DecidedInv'
    BY ScoreAssumption
  <2>5. HitInv'
    OBVIOUS
  <2>6. ScoreIsWins'
    BY ScoreAssumption
  <2> QED
    BY <2>1, <2>2, <2>3, <2>4, <2>5, <2>6
<1>4. CASE RezeroGameReset
  <2> USE <1>4 DEF RezeroGameReset
  <2>1. TypeOK'
    <3>1. ticks' \in 0..TickCap
      BY TimingAssumption
    <3> QED
      BY <3>1
  <2>2. WindowInv'
    BY ScoreAssumption, TimingAssumption
  <2>3. SetupInv'
    BY ScoreAssumption
  <2>4. DecidedInv'
    BY ScoreAssumption
  <2>5. HitInv'
    OBVIOUS
  <2>6. ScoreIsWins'
    BY ScoreAssumption
  <2> QED
    BY <2>1, <2>2, <2>3, <2>4, <2>5, <2>6
<1>5. CASE ReadTank2
  <2> USE <1>5 DEF ReadTank2, CountWin
  <2>1. TypeOK'
    <3>1. score' \in [Tanks -> 0..MaxScore + 1]
      BY ScoreAssumption
    <3>2. ticks' \in 0..TickCap
      BY TimingAssumption
    <3> QED
      BY <3>1, <3>2
  <2>2. WindowInv'
    BY ScoreAssumption, TimingAssumption
  <2>3. SetupInv'
    BY ScoreAssumption
  <2>4. DecidedInv'
    BY ScoreAssumption
  <2>5. HitInv'
    OBVIOUS
  <2>6. ScoreIsWins'
    BY ScoreAssumption
  <2> QED
    BY <2>1, <2>2, <2>3, <2>4, <2>5, <2>6
<1>6. CASE ReadTank1
  <2> USE <1>6 DEF ReadTank1, CountWin
  <2>1. TypeOK'
    <3>1. score' \in [Tanks -> 0..MaxScore + 1]
      BY ScoreAssumption
    <3>2. ticks' \in 0..TickCap
      BY TimingAssumption
    <3> QED
      BY <3>1, <3>2
  <2>2. WindowInv'
    BY ScoreAssumption, TimingAssumption
  <2>3. SetupInv'
    BY ScoreAssumption
  <2>4. DecidedInv'
    BY ScoreAssumption
  <2>5. HitInv'
    OBVIOUS
  <2>6. ScoreIsWins'
    BY ScoreAssumption
  <2> QED
    BY <2>1, <2>2, <2>3, <2>4, <2>5, <2>6
<1>7. CASE GenMaze
  <2> USE <1>7 DEF GenMaze
  <2>1. TypeOK'
    OBVIOUS
  <2>2. WindowInv'
    BY ScoreAssumption, TimingAssumption
  <2>3. SetupInv'
    BY ScoreAssumption
  <2>4. DecidedInv'
    BY ScoreAssumption
  <2>5. HitInv'
    OBVIOUS
  <2>6. ScoreIsWins'
    BY ScoreAssumption
  <2> QED
    BY <2>1, <2>2, <2>3, <2>4, <2>5, <2>6
<1>8. CASE RaiseMazeReady
  <2> USE <1>8 DEF RaiseMazeReady, AfterBranch
  <2>1. TypeOK'
    <3>1. ticks' \in 0..TickCap
      BY TimingAssumption
    <3> QED
      BY <3>1
  <2>2. WindowInv'
    BY ScoreAssumption, TimingAssumption
  <2>3. SetupInv'
    BY ScoreAssumption
  <2>4. DecidedInv'
    BY ScoreAssumption
  <2>5. HitInv'
    OBVIOUS
  <2>6. ScoreIsWins'
    BY ScoreAssumption
  <2> QED
    BY <2>1, <2>2, <2>3, <2>4, <2>5, <2>6
<1>9. CASE EndMatch
  <2> USE <1>9 DEF EndMatch, AfterBranch
  <2>1. TypeOK'
    OBVIOUS
  <2>2. WindowInv'
    BY ScoreAssumption, TimingAssumption
  <2>3. SetupInv'
    BY ScoreAssumption
  <2>4. DecidedInv'
    BY ScoreAssumption
  <2>5. HitInv'
    OBVIOUS
  <2>6. ScoreIsWins'
    BY ScoreAssumption
  <2> QED
    BY <2>1, <2>2, <2>3, <2>4, <2>5, <2>6
<1>10. CASE DropMazeReady
  <2> USE <1>10 DEF DropMazeReady
  <2>1. TypeOK'
    OBVIOUS
  <2>2. WindowInv'
    BY ScoreAssumption, TimingAssumption
  <2>3. SetupInv'
    BY ScoreAssumption
  <2>4. DecidedInv'
    BY ScoreAssumption
  <2>5. HitInv'
    OBVIOUS
  <2>6. ScoreIsWins'
    BY ScoreAssumption
  <2> QED
    BY <2>1, <2>2, <2>3, <2>4, <2>5, <2>6
<1>11. CASE Poll
  <2> USE <1>11 DEF Poll, PollNothing, PollReport
  <2>1. TypeOK'
    OBVIOUS
  <2>2. WindowInv'
    BY ScoreAssumption, TimingAssumption
  <2>3. SetupInv'
    BY ScoreAssumption
  <2>4. DecidedInv'
    BY ScoreAssumption
  <2>5. HitInv'
    OBVIOUS
  <2>6. ScoreIsWins'
    BY ScoreAssumption
  <2> QED
    BY <2>1, <2>2, <2>3, <2>4, <2>5, <2>6
<1> QED
  BY <1>1, <1>2, <1>3, <1>4, <1>5, <1>6, <1>7, <1>8, <1>9, <1>10, <1>11
     DEF CpuStep
\* No clock edge of the state machine breaks it.
LEMMA FsmInv == IInv /\ FsmClock => IInv'
<1> SUFFICES ASSUME IInv, FsmClock PROVE IInv'
  OBVIOUS
<1> USE DEF IInv, TypeOK, WindowInv, SetupInv, DecidedInv, HitInv,
            ScoreIsWins, Undecided, Counted, Won, States, Steps, Tanks,
            Scoreless, game, regs, locals, timing, hist, Edge, Others
<1>1. CASE EnterPressed
  <2> USE <1>1 DEF EnterPressed, Screen
  <2>1. TypeOK'
    OBVIOUS
  <2>2. WindowInv'
    BY ScoreAssumption, TimingAssumption
  <2>3. SetupInv'
    BY ScoreAssumption
  <2>4. DecidedInv'
    BY ScoreAssumption
  <2>5. HitInv'
    OBVIOUS
  <2>6. ScoreIsWins'
    BY ScoreAssumption
  <2> QED
    BY <2>1, <2>2, <2>3, <2>4, <2>5, <2>6
<1>2. CASE BeginMatch
  <2> USE <1>2 DEF BeginMatch
  <2>1. TypeOK'
    <3>1. wins' \in [Tanks -> 0..MaxScore + 2]
      BY ScoreAssumption
    <3> QED
      BY <3>1
  <2>2. WindowInv'
    BY ScoreAssumption, TimingAssumption
  <2>3. SetupInv'
    BY ScoreAssumption
  <2>4. DecidedInv'
    BY ScoreAssumption
  <2>5. HitInv'
    OBVIOUS
  <2>6. ScoreIsWins'
    BY ScoreAssumption
  <2> QED
    BY <2>1, <2>2, <2>3, <2>4, <2>5, <2>6
<1>3. CASE TankShot
  <2> USE <1>3 DEF TankShot, RoundWon
  <2>1. TypeOK'
    <3>1. wins' \in [Tanks -> 0..MaxScore + 2]
      BY ScoreAssumption DEF AtMost
    <3> QED
      BY <3>1
  <2>2. WindowInv'
    BY ScoreAssumption, TimingAssumption
  <2>3. SetupInv'
    BY ScoreAssumption
  <2>4. DecidedInv'
    BY ScoreAssumption
  <2>5. HitInv'
    OBVIOUS
  <2>6. ScoreIsWins'
    <3>1. mazeReady = 0
      BY TimingAssumption
    <3>2. PICK n \in Tanks : RoundWon(n)
      OBVIOUS
    <3>3. wins'[n] = score[n] + 1
      BY <3>1, <3>2, ScoreAssumption DEF AtMost
    <3>4. \A m \in Tanks \ {n} : wins'[m] = score[m]
      BY <3>1, <3>2
    <3>5. ~Counted(n)'
      BY <3>1, <3>2, ScoreAssumption
    <3> QED
      BY <3>2, <3>3, <3>4, <3>5
  <2> QED
    BY <2>1, <2>2, <2>3, <2>4, <2>5, <2>6
<1>4. CASE Hold
  <2> USE <1>4 DEF Hold, Waiting
  <2>1. TypeOK'
    OBVIOUS
  <2>2. WindowInv'
    BY ScoreAssumption, TimingAssumption
  <2>3. SetupInv'
    BY ScoreAssumption
  <2>4. DecidedInv'
    BY ScoreAssumption
  <2>5. HitInv'
    OBVIOUS
  <2>6. ScoreIsWins'
    BY ScoreAssumption
  <2> QED
    BY <2>1, <2>2, <2>3, <2>4, <2>5, <2>6
<1>5. ASSUME NEW n \in Tanks, ShowWinner(n) PROVE IInv'
  <2> USE <1>5 DEF ShowWinner, Screen
  <2>1. TypeOK'
    OBVIOUS
  <2>2. WindowInv'
    BY ScoreAssumption, TimingAssumption
  <2>3. SetupInv'
    BY ScoreAssumption
  <2>4. DecidedInv'
    BY ScoreAssumption
  <2>5. HitInv'
    OBVIOUS
  <2>6. ScoreIsWins'
    BY ScoreAssumption
  <2> QED
    BY <2>1, <2>2, <2>3, <2>4, <2>5, <2>6
<1>6. ASSUME NEW n \in Tanks, BeginRound(n) PROVE IInv'
  <2> USE <1>6 DEF BeginRound
  <2>1. TypeOK'
    OBVIOUS
  <2>2. WindowInv'
    BY ScoreAssumption, TimingAssumption
  <2>3. SetupInv'
    BY ScoreAssumption
  <2>4. DecidedInv'
    BY ScoreAssumption
  <2>5. HitInv'
    OBVIOUS
  <2>6. ScoreIsWins'
    BY ScoreAssumption
  <2> QED
    BY <2>1, <2>2, <2>3, <2>4, <2>5, <2>6
<1> QED
  BY <1>1, <1>2, <1>3, <1>4, <1>5, <1>6 DEF FsmClock

\* No frame breaks it.
LEMMA FrameInv == IInv /\ FrameTick => IInv'
<1> SUFFICES ASSUME IInv, FrameTick PROVE IInv'
  OBVIOUS
<1> USE DEF IInv, TypeOK, WindowInv, SetupInv, DecidedInv, HitInv,
            ScoreIsWins, Undecided, Counted, Won, States, Steps, Tanks,
            Scoreless, game, regs, locals, timing, hist, FrameTick, game_end
<1>1. ticks' \in 0..TickCap /\ ticks' <= ticks + 1
      /\ (ticks < WindowTicks => ticks' = ticks + 1)
  BY TimingAssumption DEF AtMost, TickCap
<1>2. age' \in 0..HitFrames /\ age' <= age + 1 /\ (game_end > 0 => age' = 0)
  BY TimingAssumption DEF Field!Clear, Field!Play, Field!Older
<1>3. hits' \in SUBSET Tanks /\ (hits' /= {} => age' = HitFrames)
  BY DEF Field!Clear, Field!Play, Field!Tanks
<1>4. TypeOK'
  BY <1>1, <1>2, <1>3
<1>5. WindowInv'
  BY <1>1, <1>2, TimingAssumption DEF WindowShort
<1>6. SetupInv'
  BY <1>2
<1>7. DecidedInv' /\ ScoreIsWins'
  OBVIOUS
<1> QED
  BY <1>3, <1>4, <1>5, <1>6, <1>7

\* The reset button leads back to the initial state.
LEMMA ResetInv == Reset => IInv'
<1> SUFFICES ASSUME Reset PROVE IInv'
  OBVIOUS
<1> USE DEF Reset, Field!Clear
<1>1. score' \in [Tanks -> 0..MaxScore + 1] /\ wins' \in [Tanks -> 0..MaxScore + 2]
  BY ScoreAssumption
<1>2. ticks' \in 0..TickCap /\ age' \in 0..HitFrames
  BY TimingAssumption DEF TickCap
<1>3. TypeOK'
  BY <1>1, <1>2 DEF TypeOK, States, Steps
<1>4. (WindowInv /\ SetupInv /\ DecidedInv /\ HitInv /\ ScoreIsWins)'
  BY ScoreAssumption DEF WindowInv, SetupInv, DecidedInv, HitInv, ScoreIsWins,
     Undecided, Won
<1> QED
  BY <1>3, <1>4 DEF IInv

\* IInv is inductive.
LEMMA NextInv == IInv /\ [Next]_vars => IInv'
<1> SUFFICES ASSUME IInv, [Next]_vars PROVE IInv'
  OBVIOUS
<1>1. CASE UNCHANGED vars
  BY <1>1 DEF IInv, TypeOK, WindowInv, SetupInv, DecidedInv, HitInv,
     ScoreIsWins, Undecided, Scoreless, Counted, vars, game, regs, locals,
     timing, hist
<1> QED
  BY <1>1, CpuInv, FsmInv, FrameInv, ResetInv DEF Next

\* The inductive invariant holds in every behaviour of the system.
THEOREM InvariantHolds == Spec => []IInv
BY InitInv, NextInv, PTL DEF Spec

-----------------------------------------------------------------------------
\* Every variable keeps its type; in particular no score passes MaxScore + 1,
\* although the read of game_end = 1 is not guarded by t1Score <= 3.
THEOREM TypeCorrect == Spec => []TypeOK
<1>1. IInv => TypeOK
  BY DEF IInv
<1> QED
  BY <1>1, InvariantHolds, PTL

\* The processor's score is what happened on the playfield.
THEOREM ScoreCorrect == Spec => []ScoreIsWins
<1>1. IInv => ScoreIsWins
  BY DEF IInv
<1> QED
  BY <1>1, InvariantHolds, PTL

\* The maze is never redrawn under the tanks.
THEOREM RedrawCorrect == Spec => []NoRedrawInPlay
<1>1. IInv => NoRedrawInPlay
  BY DEF IInv, TypeOK, SetupInv, NoRedrawInPlay, Tanks, Won
<1> QED
  BY <1>1, InvariantHolds, PTL

\* Nobody is hit while maze_ready is high, whatever the timing constants.
THEOREM WindowQuiet == Spec => []NoHitWhileReady
<1>1. IInv => NoHitWhileReady
  BY TimingAssumption DEF IInv, TypeOK, WindowInv, HitInv, NoHitWhileReady
<1> QED
  BY <1>1, InvariantHolds, PTL
\* A round begins only in a maze drawn since the last one began: the state
\* machine leaves start_game and tank<n>win for in_game only under maze_ready.
THEOREM FreshMazeCorrect == Spec => RoundOnFreshMaze
<1>1. IInv /\ [Next]_vars => [fsm /= "in_game" /\ fsm' = "in_game" => fresh]_vars
  <2> SUFFICES ASSUME IInv, Next, fsm /= "in_game", fsm' = "in_game"
               PROVE  fresh
    OBVIOUS
  <2>1. CpuStep => fsm' = fsm
    BY DEF CpuStep, ClearGameReset, AssertGameReset, ReadStart,
       RezeroGameReset, ReadTank2, ReadTank1, GenMaze, RaiseMazeReady,
       EndMatch, DropMazeReady, Poll, PollReport, PollNothing, game
  <2>2. FrameTick => fsm' = fsm
    BY DEF FrameTick
  <2>3. Reset => fsm' = "title_state"
    BY DEF Reset
  <2>4. FsmClock => mazeReady = 1
    BY DEF FsmClock, EnterPressed, BeginMatch, TankShot, RoundWon, Hold,
       ShowWinner, BeginRound, Edge, Won, Screen, game
  <2> QED
    BY <2>1, <2>2, <2>3, <2>4 DEF Next, IInv, WindowInv
<1> QED
  BY <1>1, InvariantHolds, PTL DEF Spec, RoundOnFreshMaze

-----------------------------------------------------------------------------
(* The refinement of Match.                                                *)

\* The initial states are initial states of the match.
LEMMA MatchInit == Init => M!Init
BY DEF Init, M!Init, M!NoPoints, M!Tanks, Tanks

\* A clock edge of the state machine is a step of the match or none.
LEMMA FsmRefines ==
    ASSUME IInv, FsmClock
    PROVE  [M!Next]_(M!vars)
<1> USE DEF Edge, Won, Screen, Tanks, M!Tanks, M!Won, M!Screen
<1>1. CASE EnterPressed
  <2>1. M!Start \/ \E n \in Tanks : M!Leave(n)
    BY <1>1 DEF EnterPressed, hist, M!Start, M!Leave
  <2> QED
    BY <2>1 DEF M!Next
<1>2. CASE BeginMatch
  <2>1. M!FirstRound
    BY <1>2 DEF BeginMatch, M!FirstRound, M!NoPoints
  <2> QED
    BY <2>1 DEF M!Next
<1>3. CASE TankShot
  <2>1. PICK n \in Tanks : RoundWon(n)
    BY <1>3 DEF TankShot
  <2>2. wins[n] \in 0..MaxScore
    BY <2>1, ScoreAssumption, TimingAssumption, <1>3
       DEF TankShot, RoundWon, IInv, TypeOK, ScoreIsWins, DecidedInv, Undecided
  <2>3. AtMost(MaxScore + 2, wins[n] + 1) = wins[n] + 1
    BY <2>2, ScoreAssumption DEF AtMost
  <2>4. M!WinRound(n)
    BY <2>1, <2>3 DEF RoundWon, M!WinRound
  <2> QED
    BY <2>4 DEF M!Next
<1>4. CASE Hold
  BY <1>4 DEF Hold, game, hist, M!vars
<1>5. ASSUME NEW n \in Tanks, ShowWinner(n)
      PROVE  M!WinMatch(n)
  <2>1. fsm = Won(n) /\ gameReset = 1
    BY <1>5 DEF ShowWinner, IInv, TypeOK
  <2>2. score[n] = MaxScore + 1
    BY <2>1 DEF IInv, DecidedInv
  <2>3. wins[n] = MaxScore + 1
    BY <2>1, <2>2, ScoreAssumption DEF IInv, ScoreIsWins, Counted
  <2> QED
    BY <1>5, <2>3 DEF ShowWinner, hist, M!WinMatch
<1>6. ASSUME NEW n \in Tanks, BeginRound(n)
      PROVE  M!NextRound(n)
  <2>1. fsm = Won(n) /\ mazeReady = 1
    BY <1>6 DEF BeginRound
  <2>2. score[n] <= MaxScore /\ wins[n] = score[n]
    BY <2>1 DEF IInv, WindowInv, Undecided, ScoreIsWins, Counted
  <2>3. wins[n] < MaxScore + 1
    BY <2>2, ScoreAssumption DEF IInv, TypeOK
  <2> QED
    BY <1>6, <2>3 DEF BeginRound, M!NextRound
<1> QED
  BY <1>1, <1>2, <1>3, <1>4, <1>5, <1>6 DEF FsmClock, M!Next

\* The processor and the frames change nothing the players are shown; the
\* reset button is PowerOn.
LEMMA NextRefines == IInv /\ [Next]_vars => [M!Next]_(M!vars)
<1> SUFFICES ASSUME IInv, [Next]_vars PROVE [M!Next]_(M!vars)
  OBVIOUS
<1>1. CASE CpuStep
  BY <1>1 DEF CpuStep, ClearGameReset, AssertGameReset, ReadStart,
     RezeroGameReset, ReadTank2, ReadTank1, GenMaze, RaiseMazeReady,
     EndMatch, DropMazeReady, Poll, PollReport, PollNothing, game, hist, M!vars
<1>2. CASE FrameTick
  BY <1>2 DEF FrameTick, hist, M!vars
<1>3. CASE Reset
  <2>1. M!PowerOn
    BY <1>3 DEF Reset, M!PowerOn, M!NoPoints, M!Tanks, Tanks
  <2> QED
    BY <2>1 DEF M!Next
<1>4. CASE UNCHANGED vars
  BY <1>4 DEF vars, game, hist, M!vars
<1> QED
  BY <1>1, <1>2, <1>3, <1>4, FsmRefines DEF Next

\* The two machines and their registers implement the match: a win screen
\* stands for MaxScore + 1 rounds really won, every match starts from 0 : 0.
THEOREM MatchImplemented == Spec => ImplementsMatch
BY MatchInit, NextRefines, InvariantHolds, PTL
   DEF Spec, ImplementsMatch, M!Spec
=============================================================================
