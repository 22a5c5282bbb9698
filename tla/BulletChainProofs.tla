------------------------- MODULE BulletChainProofs -------------------------
(***************************************************************************)
(* Proofs about BulletChain for any number of bullets, any lifetime that   *)
(* fits the timer wire, any gap and any power-up value of the flags.       *)
(***************************************************************************)
EXTENDS BulletChain, TLAPS

\* A bullet that is not in the air has its timer at 0.
IdleTimer == \A k \in Chain : ~active[k] => timer[k] = 0

\* Nothing is in the air between a clearing and the next live frame.
Cleared == stale => \A k \in Chain : ~active[k]

\* Without a shoot key since the last clearing neither the tank nor a flag set
\* since then asks for a bullet.
KeyInv ==
    /\ shoot => keyed
    /\ \A k \in Chain : flag[k] /\ ~stale => keyed

IInv == TypeOK /\ IdleTimer /\ Cleared /\ KeyInv /\ FlagJustified /\ Spacing

\* The 10-bit wire carries every value a timer can have.
LEMMA TimerFitsWire ==
    ASSUME NEW t \in 0..Life
    PROVE  t % WireSpan = t
BY ChainAssumption, Z3

-----------------------------------------------------------------------------
\* The initial states satisfy the inductive invariant.
LEMMA InitInv == Init => IInv
<1> SUFFICES ASSUME Init PROVE IInv
  OBVIOUS
<1> USE DEF Init
<1>1. timer \in [Chain -> 0..Life] /\ flag \in [Chain -> BOOLEAN]
  BY ChainAssumption
<1>2. TypeOK
  BY <1>1 DEF TypeOK, Phases
<1>3. IdleTimer /\ Cleared /\ KeyInv /\ FlagJustified /\ Spacing
  BY DEF IdleTimer, Cleared, KeyInv, FlagJustified, Spacing, Chain
<1> QED
  BY <1>2, <1>3 DEF IInv

\* What a live frame does to bullet k: it flies on, goes out, is fired or stays
\* on the ground.
FliesOn(k) == active[k] /\ timer[k] < Life /\ active'[k] /\ timer'[k] = timer[k] + 1
GoesOut(k) == active[k] /\ timer[k] = Life /\ ~active'[k] /\ timer'[k] = 0
IsFired(k) == ~active[k] /\ flag[k] /\ active'[k] /\ timer'[k] = timer[k]
Stays(k)   == ~active[k] /\ ~flag[k] /\ ~active'[k] /\ timer'[k] = timer[k]

\* These are the only things a live frame does to a bullet.
LEMMA LiveBullet ==
    ASSUME TypeOK, NEW key \in BOOLEAN, LiveFrame(key)
    PROVE  \A k \in Chain : FliesOn(k) \/ GoesOut(k) \/ IsFired(k) \/ Stays(k)
<1> SUFFICES ASSUME NEW k \in Chain
             PROVE  FliesOn(k) \/ GoesOut(k) \/ IsFired(k) \/ Stays(k)
  OBVIOUS
<1> USE DEF FliesOn, GoesOut, IsFired, Stays
<1>1. active'[k] = IF active[k] THEN timer[k] < Life ELSE flag[k]
  BY Zenon DEF LiveFrame
<1>2. timer'[k] = IF ~active[k] THEN timer[k]
                  ELSE IF timer[k] < Life THEN timer[k] + 1 ELSE 0
  BY DEF LiveFrame
<1>3. timer[k] \in 0..Life
  BY DEF TypeOK
<1>4. CASE active[k] /\ timer[k] < Life
  BY <1>1, <1>2, <1>4
<1>5. CASE active[k] /\ timer[k] = Life
  BY <1>1, <1>2, <1>5, ChainAssumption
<1>6. CASE ~active[k] /\ flag[k]
  BY <1>1, <1>2, <1>6
<1>7. CASE ~active[k] /\ ~flag[k]
  BY <1>1, <1>2, <1>7
<1> QED
  BY <1>3, <1>4, <1>5, <1>6, <1>7, ChainAssumption

\* A live frame keeps it: this is where bullets are fired, age and go out.
LEMMA LiveFrameInv ==
    ASSUME IInv, NEW key \in BOOLEAN, LiveFrame(key)
    PROVE  IInv'
<1> USE DEF IInv, TypeOK
<1> USE DEF FliesOn, GoesOut, IsFired, Stays
<1>0. \A k \in Chain : FliesOn(k) \/ GoesOut(k) \/ IsFired(k) \/ Stays(k)
  BY LiveBullet
<1>1. timer' \in [Chain -> 0..Life]
  BY ChainAssumption DEF LiveFrame
<1>2. TypeOK'
  <2>1. active' \in [Chain -> BOOLEAN]
    <3>1. ASSUME NEW k \in Chain
          PROVE  (IF active[k] THEN timer[k] < Life ELSE flag[k]) \in BOOLEAN
      <4>1. flag[k] \in BOOLEAN
        OBVIOUS
      <4>2. (timer[k] < Life) \in BOOLEAN
        OBVIOUS
      <4> QED
        BY <4>1, <4>2, Zenon
    <3> QED
      BY <3>1, Zenon DEF LiveFrame
  <2>2. flag' \in [Chain -> BOOLEAN]
    <3>1. \A k \in Chain : create(k) \in BOOLEAN
      BY DEF create
    <3> QED
      BY <3>1 DEF LiveFrame
  <2>3. shoot' \in BOOLEAN /\ stale' \in BOOLEAN /\ keyed' \in BOOLEAN
    BY DEF LiveFrame
  <2> QED
    BY <1>1, <2>1, <2>2, <2>3 DEF LiveFrame
<1>3. IdleTimer'
  BY DEF LiveFrame, IdleTimer
<1>4. Cleared'
  BY DEF LiveFrame, Cleared
<1>5. KeyInv'
  BY DEF LiveFrame, KeyInv, create
<1>6. FlagJustified'
  <2> SUFFICES ASSUME NEW k \in Chain, flag'[k], k > 1
               PROVE  IF active'[k - 1] THEN timer'[k - 1] > Gap + 1
                                        ELSE timer'[k - 1] = 0
    BY DEF FlagJustified
  <2>1. k - 1 \in Chain
    BY ChainAssumption DEF Chain
  <2>2. active[k - 1] /\ timer[k - 1] % WireSpan > Gap
    <3>1. create(k)
      BY DEF LiveFrame
    <3> QED
      BY <3>1 DEF create
  <2>3. timer[k - 1] \in 0..Life
    BY <2>1
  <2>4. timer[k - 1] > Gap
    BY <2>2, <2>3, TimerFitsWire
  <2> QED
    BY <2>1, <2>2, <2>3, <2>4, <1>0, ChainAssumption
<1>7. Spacing'
  <2> SUFFICES ASSUME NEW k \in Chain, k > 1, active'[k - 1], active'[k],
                      timer'[k - 1] > timer'[k]
               PROVE  timer'[k - 1] >= timer'[k] + Gap + 3
    BY DEF Spacing
  <2>1. k - 1 \in Chain
    BY ChainAssumption DEF Chain
  <2>2. /\ active[k - 1]
        /\ timer[k - 1] < Life
        /\ timer'[k - 1] = timer[k - 1] + 1
    BY <2>1, <1>1, <1>0, ChainAssumption DEF IdleTimer
  <2>3. CASE active[k]
    <3>1. timer'[k] = timer[k] + 1
      BY <2>3, <1>0
    <3>2. timer[k - 1] > timer[k]
      BY <2>1, <2>2, <3>1, <1>0
    <3>3. timer[k - 1] >= timer[k] + Gap + 3
      BY <2>1, <2>2, <2>3, <3>2 DEF Spacing
    <3> QED
      BY <2>1, <2>2, <3>1, <3>3, <1>0, ChainAssumption
  <2>4. CASE ~active[k]
    <3>1. flag[k] /\ timer'[k] = 0 /\ ~stale
      BY <2>1, <2>2, <2>4, <1>0 DEF IdleTimer, Cleared
    <3>2. timer[k - 1] > Gap + 1
      BY <2>1, <2>2, <3>1 DEF FlagJustified
    <3> QED
      BY <2>1, <2>2, <3>1, <3>2, <1>0, ChainAssumption
  <2> QED
    BY <2>3, <2>4
<1> QED
  BY <1>2, <1>3, <1>4, <1>5, <1>6, <1>7

\* Clearing the playfield keeps it although the flags stay.
LEMMA ClearInv ==
    ASSUME IInv, Clear, phase' \in Phases
    PROVE  IInv'
<1> USE DEF IInv, Clear
<1>1. timer' \in [Chain -> 0..Life]
  BY ChainAssumption
<1>2. TypeOK'
  BY <1>1 DEF TypeOK
<1>3. (IdleTimer /\ Cleared /\ KeyInv /\ FlagJustified /\ Spacing)'
  BY ChainAssumption DEF IdleTimer, Cleared, KeyInv, FlagJustified, Spacing, Chain
<1> QED
  BY <1>2, <1>3

\* IInv is inductive.
LEMMA NextInv == IInv /\ [Next]_vars => IInv'
<1> SUFFICES ASSUME IInv, [Next]_vars PROVE IInv'
  OBVIOUS
<1>1. CASE ClearFrame
  BY <1>1, ClearInv DEF ClearFrame, Phases
<1>2. ASSUME NEW key \in BOOLEAN, LiveFrame(key) PROVE IInv'
  BY <1>2, LiveFrameInv
<1>3. CASE Reset
  BY <1>3, ClearInv DEF Reset, Phases
<1>4. CASE Settle \/ Begin \/ ShowScreen \/ UNCHANGED vars
  BY <1>4 DEF Settle, Begin, ShowScreen, vars, bullets, hist, IInv, TypeOK,
     Phases, IdleTimer, Cleared, KeyInv, FlagJustified, Spacing
<1> QED
  BY <1>1, <1>2, <1>3, <1>4 DEF Next, Frame

\* The inductive invariant holds in every behaviour.
THEOREM InvariantHolds == Spec => []IInv
BY InitInv, NextInv, PTL DEF Spec

\* Every variable keeps its type; a timer never passes Life, so the narrow
\* wire never shows a wrapped value.
THEOREM TypeCorrect == Spec => []TypeOK
<1>1. IInv => TypeOK
  BY DEF IInv
<1> QED
  BY <1>1, InvariantHolds, PTL

\* A flag set since the last clearing has a predecessor old enough.
THEOREM FlagsJustified == Spec => []FlagJustified
<1>1. IInv => FlagJustified
  BY DEF IInv
<1> QED
  BY <1>1, InvariantHolds, PTL

\* The rate of fire.
THEOREM SpacingCorrect == Spec => []Spacing
<1>1. IInv => Spacing
  BY DEF IInv
<1> QED
  BY <1>1, InvariantHolds, PTL

\* Every round begins with an empty playfield.
THEOREM CleanStartCorrect == Spec => []CleanStart
<1>1. IInv => CleanStart
  BY DEF IInv, Cleared, CleanStart
<1> QED
  BY <1>1, InvariantHolds, PTL

\* Stale flags fire in the first live frame or never.
THEOREM GhostsAreEarly == Spec => NoLateGhost
<1>1. IInv /\ [Next]_vars => [\A k \in Chain : Fired(k) /\ ~stale => keyed]_vars
  <2> SUFFICES ASSUME IInv, Next, NEW k \in Chain, Fired(k), ~stale
               PROVE  keyed
    OBVIOUS
  <2>1. CASE \E key \in BOOLEAN : LiveFrame(key)
    BY <2>1 DEF LiveFrame, Fired, IInv, KeyInv
  <2>2. CASE ClearFrame \/ Settle \/ Begin \/ ShowScreen \/ Reset
    BY <2>2 DEF ClearFrame, Clear, Settle, Begin, ShowScreen, Reset, bullets,
       Fired
  <2> QED
    BY <2>1, <2>2 DEF Next, Frame
<1> QED
  BY <1>1, InvariantHolds, PTL DEF Spec, NoLateGhost
=============================================================================
