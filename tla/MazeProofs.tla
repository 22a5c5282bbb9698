----------------------------- MODULE MazeProofs -----------------------------
(***************************************************************************)
(* Proofs about the maze, for a grid of any size.  The walk of MazeGen     *)
(* stays within its stack, never loses its way before every cell is        *)
(* carved, and leaves a maze without loops in which every cell can be      *)
(* reached.  MazeScreen shows that maze, with cells and words of any size, *)
(* and reads the direction of its walls right.                             *)
(***************************************************************************)
EXTENDS MazeGen, MazeScreen, FiniteSetTheorems, SequenceTheorems, WellFoundedInduction,
        TLAPS

-----------------------------------------------------------------------------
(* Facts about numbers, the grid and the stack.                            *)

\* A set of naturals that is not empty has a least element.
LEMMA LeastNatural ==
    ASSUME NEW T \in SUBSET Nat, T /= {}
    PROVE  \E m \in T : \A k \in T : m <= k
<1>1. PICK m \in T : \A k \in T : ~ (<<k, m>> \in OpToRel(<, Nat))
  BY NatLessThanWellFounded, WFMin, Zenon
<1>2. \A k \in T : ~ (k < m)
  BY <1>1, Zenon DEF OpToRel
<1> QED
  BY <1>2

\* There is room for at least one cell.
LEMMA GridSize == Area \in Nat /\ Area >= 1
BY GridAssumption, Z3 DEF Area

\* The grid is finite and has Area cells.
LEMMA CellsFinite == IsFiniteSet(Cells) /\ Cardinality(Cells) = Area
<1> DEFINE X == 0..mazeWidth - 1
           Y == 0..mazeHeight - 1
<1>1. IsFiniteSet(X) /\ Cardinality(X) = mazeWidth
  BY FS_Interval, GridAssumption
<1>2. IsFiniteSet(Y) /\ Cardinality(Y) = mazeHeight
  BY FS_Interval, GridAssumption
<1>3. IsFiniteSet(X \X Y) /\ Cardinality(X \X Y) = Cardinality(X) * Cardinality(Y)
  BY <1>1, <1>2, FS_Product, Zenon
<1>4. Cardinality(X) * Cardinality(Y) = Area
  BY <1>1, <1>2, Zenon DEF Area
<1>5. Cells = X \X Y
  BY Zenon DEF Cells
<1> QED
  BY <1>3, <1>4, <1>5, Zenon

\* Steps are undone by the opposite step.
LEMMA StepBack ==
    ASSUME NEW c \in Cells, NEW d \in Dirs
    PROVE  /\ Opposite(d) \in Dirs
           /\ Opposite(d) /= d
           /\ Opposite(Opposite(d)) = d
           /\ Step(c, d) /= c
           /\ Step(Step(c, d), Opposite(d)) = c
BY GridAssumption DEF Cells, Dirs, Step, Opposite

\* A set of cells closed under stepping to neighbours is the whole grid: take
\* a cell outside nearest to one inside, and step towards it.
LEMMA GridConnected ==
    ASSUME NEW S \in SUBSET Cells, S /= {},
           \A c \in S, d \in Dirs : Step(c, d) \in Cells => Step(c, d) \in S
    PROVE  S = Cells
<1> SUFFICES ASSUME Cells \ S /= {} PROVE FALSE
  OBVIOUS
<1>1. PICK a \in S : TRUE
  OBVIOUS
<1> DEFINE gap(x, y) == IF x < y THEN y - x ELSE x - y
           dist(c) == gap(c[1], a[1]) + gap(c[2], a[2])
           T == {n \in Nat : \E c \in Cells \ S : dist(c) = n}
<1>2. \A c \in Cells : dist(c) \in Nat
  BY GridAssumption DEF Cells
<1>3. T /= {}
  BY <1>2
<1>4. PICK m \in T : \A k \in T : m <= k
  BY <1>3, LeastNatural
<1>5. PICK c \in Cells \ S : dist(c) = m
  BY <1>4
<1>6. ASSUME NEW d \in Dirs, Step(c, d) \in Cells, dist(Step(c, d)) < dist(c)
      PROVE  FALSE
  <2>1. Step(c, d) \in S
    BY <1>2, <1>4, <1>5, <1>6
  <2> QED
    BY <2>1, <1>5, StepBack
<1>7. c[1] \in 0..mazeWidth - 1 /\ c[2] \in 0..mazeHeight - 1 /\ c = <<c[1], c[2]>>
  BY DEF Cells
<1>8. a[1] \in 0..mazeWidth - 1 /\ a[2] \in 0..mazeHeight - 1 /\ a = <<a[1], a[2]>>
  BY DEF Cells
<1>9. CASE c[1] < a[1]
  BY <1>6, <1>7, <1>8, <1>9, GridAssumption DEF Step, Dirs, Cells
<1>10. CASE c[1] > a[1]
  BY <1>6, <1>7, <1>8, <1>10, GridAssumption DEF Step, Dirs, Cells
<1>11. CASE c[2] < a[2]
  BY <1>6, <1>7, <1>8, <1>11, GridAssumption DEF Step, Dirs, Cells
<1>12. CASE c[2] > a[2]
  BY <1>6, <1>7, <1>8, <1>12, GridAssumption DEF Step, Dirs, Cells
<1>13. c /= a
  BY <1>5
<1> QED
  BY <1>7, <1>8, <1>9, <1>10, <1>11, <1>12, <1>13, GridAssumption
-----------------------------------------------------------------------------
(* The inductive invariant.                                                *)

\* The stack holds carved cells, no more of them than were carved.
StackInv ==
    /\ Len(stack) <= visitedCells
    /\ \A i \in 1..Len(stack) : stack[i] \in Visited

\* A carved cell that still has an uncarved neighbour is on the stack.
WayBack ==
    \A c \in Visited : neighbors(c) /= {} =>
        \E i \in 1..Len(stack) : stack[i] = c

\* Nothing is known of a cell before it is carved.
Untouched == \A c \in Cells \ Visited : maze[c] = {}

IInv ==
    /\ TypeOK
    /\ StackInv
    /\ WayBack
    /\ Untouched
    /\ CounterIsExact
    /\ PassagesMatch
    /\ Connected
    /\ NoLoop

\* With an empty stack no carved cell has an uncarved neighbour, so the carved
\* cells are the whole grid.
LEMMA WayBackLeads == IInv => NeverLost
<1> SUFFICES ASSUME IInv, stack = <<>> PROVE Done
  BY DEF NeverLost
<1> USE DEF IInv
<1>1. \A c \in Visited, d \in Dirs : Step(c, d) \in Cells => Step(c, d) \in Visited
  BY DEF WayBack, neighbors
<1>2. Visited /= {}
  <2>1. visitedCells >= 1
    BY GridSize DEF TypeOK
  <2> QED
    BY <2>1, FS_EmptySet DEF CounterIsExact
<1>3. Visited = Cells
  BY <1>1, <1>2, GridConnected DEF Visited
<1> QED
  BY <1>3, CellsFinite, GridSize DEF CounterIsExact, Done

\* The carved cells and the doors are finitely many.
LEMMA Finite == IsFiniteSet(Visited) /\ IsFiniteSet(Doors)
<1>1. IsFiniteSet(Visited)
  BY CellsFinite, FS_Subset DEF Visited
<1>2. IsFiniteSet({"S", "E"})
  <2>1. IsFiniteSet({"S"} \cup {"E"})
    BY FS_Singleton, FS_Union
  <2> QED
    BY <2>1
<1>3. IsFiniteSet(Cells \X {"S", "E"})
  BY <1>2, CellsFinite, FS_Product
<1> QED
  BY <1>1, <1>3, FS_Subset DEF Doors

\* What breaking through to a neighbour does.
LEMMA CarveEffect ==
    ASSUME IInv, NEW d \in Dirs, Carve(d)
    PROVE  \E here \in Visited, next \in Cells \ Visited :
            /\ next = Step(here, d)
            /\ stack' = Append(stack, next)
            /\ maze' = [maze EXCEPT ![here] = @ \cup {d},
                                    ![next] = @ \cup {"VISITED", Opposite(d)}]
            /\ Visited' = Visited \cup {next}
            /\ visitedCells < Area
            /\ visitedCells' = visitedCells + 1
<1> DEFINE here == Ppeek(stack)
           next == Step(here, d)
<1>1. ~Done /\ visitedCells \in 1..Area /\ visitedCells < Area
  BY GridSize DEF Carve, Done, IInv, TypeOK
<1>2. stack \in Seq(Cells) /\ stack /= <<>>
  BY <1>1, WayBackLeads DEF IInv, TypeOK, NeverLost
<1>3. here \in Visited
  <2>1. Len(stack) \in 1..Len(stack)
    BY <1>2
  <2> QED
    BY <1>2, <2>1 DEF Ppeek, IInv, StackInv
<1>4. next \in Cells \ Visited
  BY DEF Carve, neighbors
<1>5. stack' = Append(stack, next)
  <2>1. Len(stack) <= visitedCells
    BY DEF IInv, StackInv
  <2>2. Len(stack) /= 2 * Area
    BY <1>1, <1>2, <2>1, GridSize
  <2> QED
    BY <2>2 DEF Carve, Ppush, PisFull, Allocated
<1>6. maze' = [maze EXCEPT ![here] = @ \cup {d},
                          ![next] = @ \cup {"VISITED", Opposite(d)}]
  BY DEF Carve
<1>7. Visited' = Visited \cup {next}
  <2>1. maze \in [Cells -> SUBSET Bits]
    BY DEF IInv, TypeOK
  <2>2. d /= "VISITED"
    BY DEF Dirs
  <2>3. here /= next /\ here \in Cells
    BY <1>3, <1>4 DEF Visited
  <2> QED
    BY <1>6, <2>1, <2>2, <2>3, <1>3, <1>4 DEF Visited
<1>8. visitedCells' = visitedCells + 1
  BY DEF Carve
<1> QED
  BY <1>1, <1>3, <1>4, <1>5, <1>6, <1>7, <1>8
-----------------------------------------------------------------------------
(* The invariant is inductive.                                             *)

\* A walk that has just started satisfies it.
LEMMA InitInv == Init => IInv
<1> SUFFICES ASSUME NEW c \in Cells,
                    maze = Started(c), stack = <<c>>, visitedCells = 1
             PROVE  IInv
  BY DEF Init
<1>1. Visited = {c} /\ Doors = {}
  BY DEF Visited, Doors, Started
<1>2. TypeOK
  BY GridSize DEF TypeOK, Started, Bits
<1>3. StackInv /\ WayBack /\ Untouched /\ PassagesMatch /\ Connected
  BY <1>1 DEF StackInv, WayBack, Untouched, PassagesMatch, Connected, Started,
     Dirs
<1>4. CounterIsExact /\ NoLoop
  <2>1. Cardinality({c}) = 1 /\ Cardinality({}) = 0
    BY FS_Singleton, FS_EmptySet
  <2> QED
    BY <1>1, <2>1 DEF CounterIsExact, NoLoop
<1> QED
  BY <1>2, <1>3, <1>4 DEF IInv

\* The next call of genMaze starts afresh.
LEMMA NextCallInv == NextCall => IInv'
<1>1. NextCall => Init'
  BY DEF NextCall, Init, Started
<1> QED
  BY <1>1, InitInv, PTL

\* The length of a stack of n cells without its top.
LEMMA PopLength ==
    ASSUME NEW n \in Nat, n >= 1
    PROVE  (IF 1 <= n - 1 THEN n - 1 - 1 + 1 ELSE 0) = n - 1
<1>1. CASE n = 1
  BY <1>1
<1>2. CASE n > 1
  BY <1>2
<1> QED
  BY <1>1, <1>2

\* A dead end only shortens the way back, by a cell nothing is left to do for.
LEMMA BacktrackInv == ASSUME IInv, Backtrack PROVE IInv'
<1>1. stack \in Seq(Cells) /\ stack /= <<>>
  BY WayBackLeads DEF IInv, TypeOK, NeverLost, Backtrack
<1> DEFINE n == Len(stack)
<1>2. n \in Nat /\ n >= 1
  BY <1>1
<1>3. stack' = SubSeq(stack, 1, n - 1)
  BY <1>1 DEF Backtrack, Ppop
<1>4. /\ stack' \in Seq(Cells)
      /\ Len(stack') = n - 1
      /\ \A i \in 1..n - 1 : stack'[i] = stack[i]
  <2>1. \A i \in 1..n - 1 : stack[i] \in Cells
    BY <1>1, <1>2
  <2>2. /\ SubSeq(stack, 1, n - 1) \in Seq(Cells)
        /\ Len(SubSeq(stack, 1, n - 1)) = IF 1 <= n - 1 THEN n - 1 - 1 + 1 ELSE 0
        /\ \A i \in 1..n - 1 - 1 + 1 : SubSeq(stack, 1, n - 1)[i] = stack[1 + i - 1]
    BY <1>2, <2>1, SubSeqProperties
  <2>3. Len(stack') = n - 1
    <3>1. (IF 1 <= n - 1 THEN n - 1 - 1 + 1 ELSE 0) = n - 1
      BY <1>2, PopLength
    <3> QED
      BY <1>3, <2>2, <3>1, Zenon
  <2>4. ASSUME NEW i \in 1..n - 1 PROVE stack'[i] = stack[i]
    <3>1. i \in 1..n - 1 - 1 + 1 /\ 1 + i - 1 = i
      BY <1>2
    <3> QED
      BY <1>3, <2>2, <3>1
  <2> QED
    BY <1>3, <2>2, <2>3, <2>4
<1>5. UNCHANGED <<maze, visitedCells, Visited, Doors>>
  BY DEF Backtrack, Visited, Doors
<1>6. TypeOK'
  BY <1>4, <1>5 DEF IInv, TypeOK
<1>7. StackInv'
  BY <1>2, <1>4, <1>5 DEF IInv, TypeOK, StackInv
<1>8. WayBack'
  <2> SUFFICES ASSUME NEW c \in Visited, neighbors(c) /= {}
               PROVE  \E i \in 1..n - 1 : stack[i] = c
    BY <1>4, <1>5 DEF WayBack, neighbors
  <2>1. PICK i \in 1..n : stack[i] = c
    BY DEF IInv, WayBack
  <2>2. c /= stack[n]
    BY <1>1 DEF Backtrack, Ppeek
  <2> QED
    BY <1>2, <2>1, <2>2
<1>9. (Untouched /\ CounterIsExact /\ PassagesMatch /\ Connected /\ NoLoop)'
  BY <1>5 DEF IInv, Untouched, CounterIsExact, PassagesMatch, Connected, NoLoop
<1> QED
  BY <1>6, <1>7, <1>8, <1>9 DEF IInv

\* Breaking through adds one cell and one door between it and the cell on top.
LEMMA CarveInv == ASSUME IInv, NEW d \in Dirs, Carve(d) PROVE IInv'
<1>1. PICK here \in Visited, next \in Cells \ Visited :
            /\ next = Step(here, d)
            /\ stack' = Append(stack, next)
            /\ maze' = [maze EXCEPT ![here] = @ \cup {d},
                                    ![next] = @ \cup {"VISITED", Opposite(d)}]
            /\ Visited' = Visited \cup {next}
            /\ visitedCells < Area
            /\ visitedCells' = visitedCells + 1
  BY CarveEffect
<1> USE DEF IInv
<1>2. here \in Cells /\ here /= next
  BY DEF Visited
<1>3. Opposite(d) \in Dirs /\ Step(next, Opposite(d)) = here
  BY <1>1, <1>2, StepBack
<1>4. /\ maze \in [Cells -> SUBSET Bits]
      /\ stack \in Seq(Cells)
      /\ visitedCells \in 1..Area
  BY DEF TypeOK
<1>5. /\ maze'[here] = maze[here] \cup {d}
      /\ maze'[next] = {"VISITED", Opposite(d)}
      /\ \A c \in Cells \ {here, next} : maze'[c] = maze[c]
  BY <1>1, <1>2, <1>4 DEF Untouched
<1>6. TypeOK'
  <2>1. visitedCells' \in 1..Area
    BY <1>1, <1>4, GridSize
  <2>2. stack' \in Seq(Cells)
    BY <1>1, <1>4
  <2>3. maze' \in [Cells -> SUBSET Bits]
    BY <1>1, <1>3, <1>4 DEF Bits
  <2> QED
    BY <2>1, <2>2, <2>3 DEF TypeOK
<1>7. StackInv'
  BY <1>1, <1>4, GridSize DEF StackInv
<1>8. WayBack'
  <2> SUFFICES ASSUME NEW c \in Visited \cup {next},
                      \E e \in Dirs : Step(c, e) \in Cells \ Visited'
               PROVE  \E i \in 1..Len(stack') : stack'[i] = c
    BY <1>1 DEF WayBack, neighbors
  <2>1. CASE c = next
    BY <1>1, <1>4, <2>1
  <2>2. CASE c \in Visited
    <3>1. neighbors(c) /= {}
      BY <1>1 DEF neighbors
    <3>2. PICK i \in 1..Len(stack) : stack[i] = c
      BY <2>2, <3>1 DEF WayBack
    <3> QED
      BY <1>1, <1>4, <3>2
  <2> QED
    BY <2>1, <2>2
<1>9. Untouched'
  BY <1>1, <1>2, <1>5 DEF Untouched
<1>10. CounterIsExact'
  BY <1>1, Finite, FS_AddElement DEF CounterIsExact
<1>11. PassagesMatch'
  <2> SUFFICES ASSUME NEW c \in Cells, NEW e \in Dirs, e \in maze'[c]
               PROVE  Step(c, e) \in Visited' /\ Opposite(e) \in maze'[Step(c, e)]
    BY DEF PassagesMatch
  <2>1. CASE c = here /\ e = d
    BY <1>1, <1>5, <2>1
  <2>2. CASE c = next
    <3>1. e = Opposite(d)
      BY <1>5, <2>2 DEF Dirs
    <3> QED
      BY <1>1, <1>2, <1>3, <1>5, <2>2, <3>1, StepBack
  <2>3. CASE c /= next /\ ~(c = here /\ e = d)
    <3>1. e \in maze[c]
      BY <1>5, <2>3
    <3>2. Step(c, e) \in Visited /\ Opposite(e) \in maze[Step(c, e)]
      BY <3>1 DEF PassagesMatch
    <3>3. Step(c, e) \in Cells \ {next}
      BY <1>1, <3>2 DEF Visited
    <3> QED
      BY <1>1, <1>5, <3>2, <3>3
  <2> QED
    BY <2>1, <2>2, <2>3
<1>12. Connected'
  <2> SUFFICES ASSUME NEW part \in SUBSET (Visited \cup {next}),
                      part /= {}, part /= Visited \cup {next}
               PROVE  \E c \in part, e \in Dirs :
                        e \in maze'[c] /\ Step(c, e) \in (Visited \cup {next}) \ part
    BY <1>1 DEF Connected
  <2>1. \A c \in Cells : maze[c] \subseteq maze'[c]
    BY <1>2, <1>5 DEF Untouched
  <2> DEFINE old == part \cap Visited
  <2>2. CASE old = {}
    <3>1. next \in part /\ here \notin part
      BY <2>2
    <3> QED
      BY <1>2, <1>3, <1>5, <3>1
  <2>3. CASE old = Visited
    <3>1. here \in part /\ next \notin part
      BY <2>3
    <3> QED
      BY <1>1, <1>2, <1>5, <3>1
  <2>4. CASE old /= {} /\ old /= Visited
    <3>1. PICK c \in old, e \in Dirs :
              e \in maze[c] /\ Step(c, e) \in Visited \ old
      BY <2>4 DEF Connected
    <3> QED
      BY <2>1, <3>1 DEF Visited
  <2> QED
    BY <2>2, <2>3, <2>4
<1>13. NoLoop'
  <2> DEFINE door == IF d \in {"S", "E"} THEN <<here, d>> ELSE <<next, Opposite(d)>>
  <2>1. Doors' = Doors \cup {door}
    BY <1>2, <1>3, <1>5 DEF Doors, Dirs, Opposite, Untouched
  <2>2. door \notin Doors
    <3>1. d \notin maze[here]
      BY <1>1, <1>2 DEF PassagesMatch
    <3> QED
      BY <3>1, <1>2 DEF Doors, Untouched
  <2>3. Cardinality(Doors') = Cardinality(Doors) + 1
    BY <2>1, <2>2, Finite, FS_AddElement
  <2> QED
    BY <1>1, <1>4, <2>3, Finite, FS_CardinalityType DEF NoLoop
<1> QED
  BY <1>6, <1>7, <1>8, <1>9, <1>10, <1>11, <1>12, <1>13

\* Every step preserves the invariant.
LEMMA NextInv == IInv /\ [Next]_vars => IInv'
<1> SUFFICES ASSUME IInv, [Next]_vars PROVE IInv'
  OBVIOUS
<1>1. CASE UNCHANGED vars
  <2>1. UNCHANGED <<maze, stack, visitedCells, Visited, Doors>>
    BY <1>1 DEF vars, Visited, Doors
  <2> QED
    BY <2>1 DEF IInv, TypeOK, StackInv, WayBack, neighbors, Untouched,
       CounterIsExact, PassagesMatch, Connected, NoLoop
<1> QED
  BY <1>1, CarveInv, BacktrackInv, NextCallInv DEF Next, Walk

\* The inductive invariant holds in every behaviour.
THEOREM InvariantHolds == Spec => []IInv
BY InitInv, NextInv, PTL DEF Spec

\* Every variable keeps its type; the counter never passes the grid's size.
THEOREM TypeCorrect == Spec => []TypeOK
<1>1. IInv => TypeOK
  BY DEF IInv
<1> QED
  BY <1>1, InvariantHolds, PTL

\* The stack stays within its allocation, so the doubled capacity of
\* paired_stack.c is never used, and is not empty before every cell is carved.
THEOREM StackCorrect == Spec => []StackFits
<1>1. IInv => Len(stack) <= Allocated
  BY GridSize DEF IInv, TypeOK, StackInv, Allocated
<1>2. IInv => StackFits
  BY <1>1, WayBackLeads DEF StackFits
<1> QED
  BY <1>2, InvariantHolds, PTL

\* Every maze is a tree on its carved cells: passages agree on both sides,
\* everything is connected and nothing is connected twice.
THEOREM TreeCorrect == Spec => []SpanningTree
<1>1. IInv => SpanningTree
  BY DEF IInv, SpanningTree
<1> QED
  BY <1>1, InvariantHolds, PTL

\* How far the walk is: one further with each step, forwards or back.
progress == 2 * visitedCells - Len(stack)

\* genMaze returns after at most 2 * Area - 3 iterations of its loop, whatever
\* the random numbers (mazes.c:69-110).
ShortWalk ==
    [][/\ ~Done => progress' = progress + 1 /\ progress' <= 2 * Area - 2
       /\ Done => progress' = 1]_vars

\* The walk is short: an iteration carves a cell and puts it on the stack or
\* takes one off it, which in 2 * visitedCells - Len(stack) is a step of one
\* either way, and the stack does not run empty (mazes.c:69-110).
THEOREM WalkIsShort == Spec => ShortWalk
<1> DEFINE Counts == /\ ~Done => progress' = progress + 1 /\ progress' <= 2 * Area - 2
                     /\ Done => progress' = 1
<1>1. IInv /\ [Next]_vars => [Counts]_vars
  <2> SUFFICES ASSUME IInv, Next
               PROVE  Counts
    OBVIOUS
  <2>1. stack \in Seq(Cells) /\ visitedCells \in 1..Area
    BY DEF IInv, TypeOK
  <2>2. PICK n \in Nat : n = Len(stack) /\ n <= visitedCells
    BY <2>1 DEF IInv, StackInv
  <2>3. Area \in Nat /\ Area >= 1
    BY GridSize
  <2>4. CASE NextCall
    <3>1. visitedCells' = 1 /\ Len(stack') = 1
      BY <2>4 DEF NextCall
    <3> QED
      BY <2>4, <3>1 DEF NextCall, progress
  <2>5. ASSUME Walk
        PROVE  ~Done /\ visitedCells < Area /\ n >= 1
    <3>1. ~Done
      BY <2>5 DEF Walk, Carve, Backtrack
    <3>2. stack /= <<>>
      BY <3>1, WayBackLeads DEF NeverLost
    <3> QED
      BY <2>1, <2>2, <2>3, <3>1, <3>2 DEF Done
  <2>6. CASE Backtrack
    <3>1. Len(stack') = n - 1 /\ visitedCells' = visitedCells
      <4>1. stack' = SubSeq(stack, 1, n - 1)
        BY <2>2, <2>5, <2>6 DEF Walk, Backtrack, Ppop
      <4>2. \A i \in 1..n - 1 : stack[i] \in Cells
        BY <2>1, <2>2
      <4>3. Len(SubSeq(stack, 1, n - 1)) = IF 1 <= n - 1 THEN n - 1 - 1 + 1 ELSE 0
        BY <2>2, <4>2, SubSeqProperties
      <4>4. (IF 1 <= n - 1 THEN n - 1 - 1 + 1 ELSE 0) = n - 1
        BY <2>2, <2>5, <2>6, PopLength DEF Walk
      <4>5. Len(stack') = n - 1
        BY <4>1, <4>3, <4>4, Zenon
      <4> QED
        BY <2>6, <4>5 DEF Backtrack
    <3> QED
      BY <2>1, <2>2, <2>3, <2>5, <2>6, <3>1 DEF Walk, progress
  <2>7. ASSUME NEW d \in Dirs, Carve(d)
        PROVE  Counts
    <3>1. Walk
      BY <2>7 DEF Walk
    <3>2. ~PisFull(stack)
      BY <2>1, <2>2, <2>3 DEF PisFull, Allocated
    <3>3. stack' = Append(stack, Step(Ppeek(stack), d)) /\ visitedCells' = visitedCells + 1
      BY <2>7, <3>2 DEF Carve, Ppush
    <3>4. Len(stack') = n + 1
      BY <2>1, <2>2, <3>3
    <3> QED
      BY <2>1, <2>2, <2>3, <2>5, <3>1, <3>3, <3>4 DEF progress
  <2> QED
    BY <2>4, <2>6, <2>7 DEF Next, Walk
<1> QED
  BY <1>1, InvariantHolds, PTL DEF Spec, ShortWalk
-----------------------------------------------------------------------------
(* From the walk to the screen: the maze that is carved has no square.     *)

\* The passages that genMaze draws.
Carved == {q \in Passages : q[3] \in maze[<<q[1], q[2]>>]}

\* The passages of a square, seen from each of its four cells.
LEMMA SquareSides ==
    ASSUME NEW m, NEW x \in Int, NEW y \in Int,
           \A c \in Cells, d \in Dirs : d \in m[c] => Opposite(d) \in m[Step(c, d)],
           {<<x, y>>, <<x + 1, y>>, <<x, y + 1>>, <<x + 1, y + 1>>} \subseteq Cells,
           "E" \in m[<<x, y>>], "S" \in m[<<x, y>>],
           "S" \in m[<<x + 1, y>>], "E" \in m[<<x, y + 1>>]
    PROVE  /\ {"E", "S"} \subseteq m[<<x, y>>]
           /\ {"W", "S"} \subseteq m[<<x + 1, y>>]
           /\ {"N", "E"} \subseteq m[<<x, y + 1>>]
           /\ {"N", "W"} \subseteq m[<<x + 1, y + 1>>]
<1>1. /\ Step(<<x, y>>, "E") = <<x + 1, y>> /\ Step(<<x, y>>, "S") = <<x, y + 1>>
      /\ Step(<<x + 1, y>>, "S") = <<x + 1, y + 1>>
      /\ Step(<<x, y + 1>>, "E") = <<x + 1, y + 1>>
      /\ Opposite("E") = "W" /\ Opposite("S") = "N"
      /\ "E" \in Dirs /\ "S" \in Dirs
  BY DEF Step, Opposite, Dirs
<1>2. "W" \in m[<<x + 1, y>>]
  BY <1>1
<1>3. "N" \in m[<<x, y + 1>>]
  BY <1>1
<1>4. "N" \in m[<<x + 1, y + 1>>]
  BY <1>1
<1>5. "W" \in m[<<x + 1, y + 1>>]
  BY <1>1
<1> QED
  BY <1>2, <1>3, <1>4, <1>5

\* A cell broken into has one passage, and the cells of a square have two; so
\* the passage that was just made is in no square.
LEMMA CarveNoSquare ==
    ASSUME IInv, IInv', NoSquare(Carved), NEW d \in Dirs, Carve(d)
    PROVE  NoSquare(Carved)'
<1> SUFFICES ASSUME NEW q \in Carved',
                    {q, <<q[1], q[2], "E">>, <<q[1], q[2], "S">>,
                     <<q[1] + 1, q[2], "S">>, <<q[1], q[2] + 1, "E">>} \subseteq Carved'
             PROVE  FALSE
  BY DEF NoSquare
<1>1. PICK here \in Visited, next \in Cells \ Visited :
            /\ next = Step(here, d)
            /\ maze' = [maze EXCEPT ![here] = @ \cup {d},
                                    ![next] = @ \cup {"VISITED", Opposite(d)}]
  BY CarveEffect
<1>2. /\ maze \in [Cells -> SUBSET Bits] /\ here \in Cells /\ here /= next
      /\ maze[next] = {} /\ Opposite(d) \in Dirs
  BY <1>1, StepBack DEF IInv, TypeOK, Visited, Untouched
<1>3. maze'[next] = {"VISITED", Opposite(d)}
  BY <1>1, <1>2
<1>4. PICK x \in Int, y \in Int :
            /\ q[1] = x /\ q[2] = y
            /\ <<x, y, "E">> \in Carved' /\ <<x, y, "S">> \in Carved'
            /\ <<x + 1, y, "S">> \in Carved' /\ <<x, y + 1, "E">> \in Carved'
  <2>1. q[1] \in Int /\ q[2] \in Int
    BY GridAssumption DEF Carved, Passages
  <2> QED
    BY <2>1, Zenon
<1>11. {<<x, y>>, <<x + 1, y>>, <<x, y + 1>>, <<x + 1, y + 1>>} \subseteq Cells
  BY <1>4, GridAssumption DEF Carved, Passages, Cells
<1>12. /\ {"E", "S"} \subseteq maze'[<<x, y>>]
       /\ {"W", "S"} \subseteq maze'[<<x + 1, y>>]
       /\ {"N", "E"} \subseteq maze'[<<x, y + 1>>]
       /\ {"N", "W"} \subseteq maze'[<<x + 1, y + 1>>]
  <2>1. /\ "E" \in maze'[<<x, y>>] /\ "S" \in maze'[<<x, y>>]
        /\ "S" \in maze'[<<x + 1, y>>] /\ "E" \in maze'[<<x, y + 1>>]
    BY <1>4 DEF Carved
  <2>2. \A c \in Cells, e \in Dirs : e \in maze'[c] => Opposite(e) \in maze'[Step(c, e)]
    BY DEF IInv, PassagesMatch
  <2> QED
    BY <1>11, <2>1, <2>2, SquareSides
<1>5. next \notin {<<x, y>>, <<x + 1, y>>, <<x, y + 1>>, <<x + 1, y + 1>>}
  BY <1>3, <1>12
<1>6. ASSUME NEW c \in Cells, c /= next, NEW e \in Dirs, e \in maze'[c], Step(c, e) /= next
      PROVE  e \in maze[c]
  BY <1>1, <1>2, <1>6
<1>7. /\ Step(<<x, y>>, "E") = <<x + 1, y>> /\ Step(<<x, y>>, "S") = <<x, y + 1>>
      /\ Step(<<x + 1, y>>, "S") = <<x + 1, y + 1>>
      /\ Step(<<x, y + 1>>, "E") = <<x + 1, y + 1>>
      /\ "E" \in Dirs /\ "S" \in Dirs
  BY DEF Step, Dirs
<1>8. /\ "E" \in maze[<<x, y>>] /\ "S" \in maze[<<x, y>>]
      /\ "S" \in maze[<<x + 1, y>>] /\ "E" \in maze[<<x, y + 1>>]
  BY <1>5, <1>6, <1>7, <1>11, <1>12
<1>9. /\ <<x, y, "E">> \in Passages /\ <<x, y, "S">> \in Passages
      /\ <<x + 1, y, "S">> \in Passages /\ <<x, y + 1, "E">> \in Passages
  BY <1>4 DEF Carved
<1>10. /\ <<x, y, "E">> \in Carved /\ <<x, y, "S">> \in Carved
       /\ <<x + 1, y, "S">> \in Carved /\ <<x, y + 1, "E">> \in Carved
  BY <1>8, <1>9 DEF Carved
<1> QED
  BY <1>10 DEF NoSquare

\* No maze has a square: at no moment are four cells around a corner all
\* joined.  MazeScreen takes that for granted (mazes.c:70-107).
THEOREM SquareFree == Spec => []NoSquare(Carved)
<1>1. Init => NoSquare(Carved)
  <2> SUFFICES ASSUME NEW c \in Cells, maze = Started(c) PROVE Carved = {}
    BY DEF Init, NoSquare
  <2> QED
    BY DEF Carved, Passages, Started, Cells
<1>2. IInv /\ NoSquare(Carved) /\ [Next]_vars => NoSquare(Carved)'
  <2> SUFFICES ASSUME IInv, IInv', NoSquare(Carved), [Next]_vars PROVE NoSquare(Carved)'
    BY NextInv
  <2>1. ASSUME NEW d \in Dirs, Carve(d) PROVE NoSquare(Carved)'
    BY <2>1, CarveNoSquare
  <2>2. ASSUME UNCHANGED maze PROVE NoSquare(Carved)'
    BY <2>2 DEF NoSquare, Carved
  <2>3. CASE NextCall
    <3>1. PICK c \in Cells : maze' = Started(c)
      BY <2>3 DEF NextCall
    <3>2. Carved' = {}
      BY <3>1 DEF Carved, Passages, Started, Cells
    <3> QED
      BY <3>2 DEF NoSquare
  <2> QED
    BY <2>1, <2>2, <2>3 DEF Next, Walk, Backtrack, vars
<1> QED
  BY <1>1, <1>2, InvariantHolds, PTL DEF Spec
-----------------------------------------------------------------------------
(* The picture and its words.  Products of two sizes are beyond what the   *)
(* provers multiply out, so quotients and remainders are told by Division  *)
(* and DivMod alone.                                                       *)

\* A number is its quotient times the divisor, and its remainder; ...
LEMMA Division ==
    ASSUME NEW a \in Int, NEW n \in Nat \ {0}
    PROVE  /\ a \div n \in Int /\ a % n \in Int
           /\ 0 <= a % n /\ a % n < n
           /\ a = (a \div n) * n + (a % n)
BY Z3

\* ... and no other two numbers are that.
LEMMA DivMod ==
    ASSUME NEW n \in Nat \ {0}, NEW q \in Int, NEW r \in Int, 0 <= r, r < n
    PROVE  (q * n + r) \div n = q /\ (q * n + r) % n = r
<1> DEFINE a == q * n + r
           d == a \div n
           e == a % n
<1>1. /\ a \in Int /\ d \in Int /\ e \in Int
      /\ 0 <= e /\ e < n /\ a = d * n + e
  BY Division
<1>2. (q - d) * n = e - r
  BY <1>1, Z3
<1> HIDE DEF a, d, e
<1>3. CASE q > d
  <2>1. (q - d) * n >= n
    BY <1>1, <1>3, Z3
  <2> QED
    BY <1>1, <1>2, <2>1
<1>4. CASE q < d
  <2>1. (d - q) * n >= n
    BY <1>1, <1>4, Z3
  <2>2. (q - d) * n = 0 - (d - q) * n
    BY <1>1, Z3
  <2> QED
    BY <1>1, <1>2, <2>1, <2>2
<1>5. CASE q = d
  <2>1. e = r
    BY <1>1, <1>2, <1>5, Z3
  <2> QED
    BY <1>5, <2>1 DEF a, d, e
<1> QED
  BY <1>1, <1>3, <1>4, <1>5

\* The next number, seen from a multiple.
LEMMA NextMod ==
    ASSUME NEW a \in Int, NEW n \in Nat \ {0}
    PROVE  /\ a % n < n - 1 => (a + 1) \div n = a \div n /\ (a + 1) % n = (a % n) + 1
           /\ a % n = n - 1 => (a + 1) \div n = a \div n + 1 /\ (a + 1) % n = 0
           /\ a % n > 0 => (a - 1) \div n = a \div n /\ (a - 1) % n = (a % n) - 1
           /\ a % n = 0 => (a - 1) \div n = a \div n - 1 /\ (a - 1) % n = n - 1
<1> DEFINE q == a \div n
           r == a % n
<1>1. /\ q \in Int /\ r \in Int /\ 0 <= r /\ r < n /\ a = q * n + r
  BY Division
<1> HIDE DEF q, r
<1>2. ASSUME r < n - 1 PROVE (a + 1) \div n = q /\ (a + 1) % n = r + 1
  <2>1. a + 1 = q * n + (r + 1)
    BY <1>1, Z3
  <2> QED
    BY <1>1, <1>2, <2>1, DivMod
<1>3. ASSUME r = n - 1 PROVE (a + 1) \div n = q + 1 /\ (a + 1) % n = 0
  <2>1. a + 1 = (q + 1) * n + 0
    BY <1>1, <1>3, Z3
  <2> QED
    BY <1>1, <2>1, DivMod
<1>4. ASSUME r > 0 PROVE (a - 1) \div n = q /\ (a - 1) % n = r - 1
  <2>1. a - 1 = q * n + (r - 1)
    BY <1>1, Z3
  <2> QED
    BY <1>1, <1>4, <2>1, DivMod
<1>5. ASSUME r = 0 PROVE (a - 1) \div n = q - 1 /\ (a - 1) % n = n - 1
  <2>1. a - 1 = (q - 1) * n + (n - 1)
    BY <1>1, <1>5, Z3
  <2> QED
    BY <1>1, <2>1, DivMod
<1> QED
  BY <1>2, <1>3, <1>4, <1>5 DEF q, r

\* The sizes of the picture.
LEMMA Sizes ==
    /\ Pitch \in Nat \ {0} /\ Pitch = pathWidth + 1 /\ pathWidth \in Nat \ {0}
    /\ WordBits \in Nat \ {0, 1}
    /\ WordsPerRow \in Nat \ {0} /\ Cols \in Nat \ {0} /\ Cols = WordsPerRow * WordBits
    /\ Cols = mazeWidth * Pitch /\ mazeWidth \in Nat \ {0}
    /\ Rows \in Nat /\ Rows = 20 + mazeHeight * Pitch /\ mazeHeight \in Nat \ {0}
    /\ Top = 20 /\ Rows > 20 /\ Words = Rows * WordsPerRow /\ Words \in Nat
<1>1. /\ Pitch \in Nat \ {0} /\ Pitch = pathWidth + 1 /\ pathWidth \in Nat \ {0}
      /\ WordBits \in Nat \ {0, 1} /\ mazeWidth \in Nat \ {0} /\ mazeHeight \in Nat \ {0}
      /\ Cols % WordBits = 0
  BY ScreenAssumption, GridAssumption DEF Pitch
<1>2. Cols = mazeWidth * Pitch /\ Cols \in Nat /\ Cols >= 1
  BY <1>1, Z3 DEF Cols
<1>3. /\ WordsPerRow \in Int /\ Cols = WordsPerRow * WordBits
  BY <1>1, <1>2, Division DEF WordsPerRow
<1>4. WordsPerRow >= 1
  BY <1>1, <1>2, <1>3, Z3
<1>5. mazeHeight * Pitch \in Nat /\ mazeHeight * Pitch >= 1
  BY <1>1, Z3
<1>6. Rows = 20 + mazeHeight * Pitch /\ Top = 20
  BY DEF Rows, Top
<1>7. Rows \in Nat /\ Rows > 20
  BY <1>5, <1>6
<1>8. Words = Rows * WordsPerRow /\ Words \in Nat
  BY <1>3, <1>4, <1>7, Z3 DEF Words
<1> QED
  BY <1>1, <1>2, <1>3, <1>4, <1>6, <1>7, <1>8

\* The quotient of a number below m times n is below m.
LEMMA Below ==
    ASSUME NEW m \in Nat, NEW n \in Nat \ {0}, NEW a \in Int, 0 <= a, a < m * n
    PROVE  0 <= a \div n /\ a \div n < m
<1> DEFINE q == a \div n
           r == a % n
<1>1. q \in Int /\ r \in Int /\ 0 <= r /\ r < n /\ a = q * n + r
  BY Division
<1> HIDE DEF q, r
<1>2. q >= 0
  <2> SUFFICES ASSUME q <= -1 PROVE FALSE
    BY <1>1
  <2>1. q * n <= 0 - n
    BY <1>1, Z3
  <2> QED
    BY <1>1, <2>1
<1>3. q < m
  <2> SUFFICES ASSUME q >= m PROVE FALSE
    BY <1>1
  <2>1. q * n >= m * n
    BY <1>1, Z3
  <2>2. m * n \in Int /\ q * n \in Int
    BY <1>1
  <2> QED
    BY <1>1, <2>1, <2>2
<1> QED
  BY <1>2, <1>3 DEF q

\* Where the hardware looks for a pixel.
LEMMA Address ==
    ASSUME NEW r \in Nat, NEW c \in 0..Cols - 1
    PROVE  /\ Word_ADDR(<<r, c>>) = r * WordsPerRow + (c \div WordBits)
           /\ Bit(<<r, c>>) = WordBits - 1 - (c % WordBits)
           /\ c \div WordBits \in 0..WordsPerRow - 1
           /\ c % WordBits \in 0..WordBits - 1
           /\ c = (c \div WordBits) * WordBits + (c % WordBits)
<1> DEFINE k == c \div WordBits
           b == c % WordBits
<1>1. /\ WordBits \in Nat \ {0} /\ WordsPerRow \in Nat \ {0} /\ Cols \in Nat
      /\ Cols = WordsPerRow * WordBits /\ c \in Int /\ 0 <= c /\ c < Cols
  BY Sizes
<1>2. k \in Int /\ b \in Int /\ 0 <= b /\ b < WordBits /\ c = k * WordBits + b
  BY <1>1, Division
<1>3. 0 <= k /\ k < WordsPerRow
  BY <1>1, Below
<1> HIDE DEF k, b
<1>4. Byte_ADDR(<<r, c>>) = (r * WordsPerRow + k) * WordBits + b
  <2>1. Byte_ADDR(<<r, c>>) = c + r * Cols
    BY DEF Byte_ADDR
  <2>2. r * Cols = (r * WordsPerRow) * WordBits
    BY <1>1, Z3
  <2>3. (r * WordsPerRow + k) * WordBits = (r * WordsPerRow) * WordBits + k * WordBits
    BY <1>1, <1>2, Z3
  <2>4. (r * WordsPerRow) * WordBits \in Int /\ k * WordBits \in Int
    BY <1>1, <1>2
  <2> QED
    BY <1>2, <2>1, <2>2, <2>3, <2>4
<1>5. PICK q \in Int : q = r * WordsPerRow + k
  BY <1>1, <1>2
<1>6. /\ Byte_ADDR(<<r, c>>) \div WordBits = r * WordsPerRow + k
      /\ Byte_ADDR(<<r, c>>) % WordBits = b
  <2>1. Byte_ADDR(<<r, c>>) = q * WordBits + b
    BY <1>4, <1>5
  <2>2. (q * WordBits + b) \div WordBits = q /\ (q * WordBits + b) % WordBits = b
    BY <1>1, <1>2, DivMod
  <2> QED
    BY <1>5, <2>1, <2>2
<1> QED
  BY <1>1, <1>2, <1>3, <1>6 DEF Word_ADDR, Bit, k, b

\* What is stored there.
LEMMA Stored ==
    ASSUME NEW r \in 0..Rows - 1, NEW k \in 0..WordsPerRow - 1, NEW b \in 0..WordBits - 1
    PROVE  /\ InReg(<<r * WordsPerRow + k, b>>)
           /\ Maze_Reg(<<r * WordsPerRow + k, b>>)
                = maze_screen_buffer(<<r, k * WordBits + WordBits - 1 - b>>)
<1>1. /\ WordBits \in Nat \ {0} /\ WordsPerRow \in Nat \ {0} /\ Rows \in Nat
      /\ Words = Rows * WordsPerRow /\ Words \in Nat
      /\ r \in Int /\ 0 <= r /\ r <= Rows - 1
      /\ k \in Int /\ 0 <= k /\ k < WordsPerRow
  BY Sizes
<1>2. /\ (r * WordsPerRow + k) \div WordsPerRow = r
      /\ (r * WordsPerRow + k) % WordsPerRow = k
  BY <1>1, DivMod
<1>3. InReg(<<r * WordsPerRow + k, b>>)
  <2>1. r * WordsPerRow <= (Rows - 1) * WordsPerRow /\ 0 <= r * WordsPerRow
    BY <1>1, Z3
  <2>2. (Rows - 1) * WordsPerRow = Words - WordsPerRow
    BY <1>1, Z3
  <2>3. r * WordsPerRow \in Int
    BY <1>1
  <2> QED
    BY <1>1, <2>1, <2>2, <2>3 DEF InReg
<1> QED
  BY <1>2, <1>3 DEF Maze_Reg, Place

\* The cell of a pixel of the maze, and the place of the pixel in it.
LEMMA InCell ==
    ASSUME NEW r \in 20..Rows - 1, NEW c \in 0..Cols - 1
    PROVE  \E x \in 0..mazeWidth - 1, y \in 0..mazeHeight - 1, u \in 0..pathWidth, v \in 0..pathWidth :
            /\ x = c \div Pitch /\ u = c % Pitch /\ c = x * Pitch + u
            /\ y = (r - 20) \div Pitch /\ v = (r - 20) % Pitch /\ r - 20 = y * Pitch + v
<1>1. /\ Pitch \in Nat \ {0} /\ Pitch = pathWidth + 1 /\ pathWidth \in Nat
      /\ Cols = mazeWidth * Pitch /\ Cols \in Nat /\ mazeWidth \in Nat
      /\ Rows = 20 + mazeHeight * Pitch /\ Rows \in Nat /\ mazeHeight \in Nat
      /\ c \in Int /\ 0 <= c /\ c < Cols
  BY Sizes
<1>2. PICK row \in Int : row = r - 20 /\ 0 <= row /\ row < mazeHeight * Pitch
  BY <1>1
<1>3. /\ c \div Pitch \in Int /\ c % Pitch \in Int /\ 0 <= c % Pitch /\ c % Pitch < Pitch
      /\ c = (c \div Pitch) * Pitch + (c % Pitch)
      /\ 0 <= c \div Pitch /\ c \div Pitch < mazeWidth
  BY <1>1, Division, Below
<1>4. /\ row \div Pitch \in Int /\ row % Pitch \in Int /\ 0 <= row % Pitch /\ row % Pitch < Pitch
      /\ row = (row \div Pitch) * Pitch + (row % Pitch)
      /\ 0 <= row \div Pitch /\ row \div Pitch < mazeHeight
  BY <1>1, <1>2, Division, Below
<1>5. PICK x \in Int, u \in Int, y \in Int, v \in Int :
        /\ x = c \div Pitch /\ u = c % Pitch /\ y = row \div Pitch /\ v = row % Pitch
  BY <1>3, <1>4, Zenon
<1>6. /\ 0 <= u /\ u < Pitch /\ c = x * Pitch + u /\ 0 <= x /\ x < mazeWidth
      /\ 0 <= v /\ v < Pitch /\ row = y * Pitch + v /\ 0 <= y /\ y < mazeHeight
  BY <1>3, <1>4, <1>5, Zenon
<1>7. /\ x \in 0..mazeWidth - 1 /\ y \in 0..mazeHeight - 1
      /\ u \in 0..pathWidth /\ v \in 0..pathWidth
  BY <1>1, <1>6
<1> QED
  BY <1>2, <1>5, <1>6, <1>7, Zenon

\* Wall, for a pixel of the maze and for the upper wall.
LEMMA WallAt ==
    ASSUME NEW r \in Int, NEW c \in Int
    PROVE  /\ r = 19 => Wall(<<r, c>>)
           /\ r >= 20 =>
                (Wall(<<r, c>>) <=>
                    \/ c % Pitch = pathWidth /\ (r - 20) % Pitch = pathWidth
                    \/ /\ c % Pitch = pathWidth /\ (r - 20) % Pitch /= pathWidth
                       /\ <<c \div Pitch, (r - 20) \div Pitch, "E">> \notin open
                    \/ /\ c % Pitch /= pathWidth /\ (r - 20) % Pitch = pathWidth
                       /\ <<c \div Pitch, (r - 20) \div Pitch, "S">> \notin open)
BY DEF Wall, Top

\* The pixels cleared for the cells, ...
LEMMA InRooms ==
    ASSUME NEW r \in 19..Rows - 1, NEW c \in 0..Cols - 1
    PROVE  <<r, c>> \in Rooms <=>
                r >= 20 /\ c % Pitch /= pathWidth /\ (r - 20) % Pitch /= pathWidth
<1>1. /\ Pitch \in Nat \ {0} /\ Pitch = pathWidth + 1 /\ pathWidth \in Nat
      /\ Rows \in Nat /\ Cols \in Nat /\ mazeWidth \in Nat /\ mazeHeight \in Nat /\ Top = 20
  BY Sizes
<1>2. ASSUME <<r, c>> \in Rooms
      PROVE  r >= 20 /\ c % Pitch /= pathWidth /\ (r - 20) % Pitch /= pathWidth
  <2>1. PICK x \in 0..mazeWidth - 1, y \in 0..mazeHeight - 1,
             py \in 0..pathWidth - 1, px \in 0..pathWidth - 1 :
                r = y * Pitch + py + Top /\ c = x * Pitch + px
    BY <1>2 DEF Rooms, CellPixels
  <2>2. x \in Int /\ y \in Int /\ 0 <= px /\ px < Pitch /\ 0 <= py /\ py < Pitch
    BY <1>1
  <2>3. c % Pitch = px
    BY <1>1, <2>1, <2>2, DivMod
  <2>4. y * Pitch \in Nat
    BY <1>1
  <2>5. r - 20 = y * Pitch + py
    BY <1>1, <2>1, <2>4
  <2>6. (r - 20) % Pitch = py
    BY <1>1, <2>2, <2>5, DivMod
  <2> QED
    BY <1>1, <2>3, <2>4, <2>5, <2>6
<1>3. ASSUME r >= 20, c % Pitch /= pathWidth, (r - 20) % Pitch /= pathWidth
      PROVE  <<r, c>> \in Rooms
  <2>1. r \in 20..Rows - 1
    BY <1>1, <1>3
  <2>2. PICK x \in 0..mazeWidth - 1, y \in 0..mazeHeight - 1, u \in 0..pathWidth, v \in 0..pathWidth :
            /\ u = c % Pitch /\ c = x * Pitch + u
            /\ v = (r - 20) % Pitch /\ r - 20 = y * Pitch + v
    BY <2>1, InCell
  <2>3. u \in 0..pathWidth - 1 /\ v \in 0..pathWidth - 1
    BY <1>1, <1>3, <2>2
  <2>4. r = y * Pitch + v + Top
    <3>1. y * Pitch \in Int
      BY <1>1
    <3> QED
      BY <1>1, <2>2, <3>1
  <2>6. <<r, c>> \in CellPixels(x, y)
    BY <2>2, <2>3, <2>4, SMT DEF CellPixels
  <2> QED
    BY <2>6, SMT DEF Rooms
<1> QED
  BY <1>2, <1>3

\* ... and those cleared for a passage.
LEMMA InStrip ==
    ASSUME NEW q \in Passages, NEW r \in 19..Rows - 1, NEW c \in 0..Cols - 1
    PROVE  <<r, c>> \in Strip(q) <=>
              /\ r >= 20
              /\ \/ /\ c % Pitch = pathWidth /\ (r - 20) % Pitch /= pathWidth
                    /\ q = <<c \div Pitch, (r - 20) \div Pitch, "E">>
                 \/ /\ c % Pitch /= pathWidth /\ (r - 20) % Pitch = pathWidth
                    /\ q = <<c \div Pitch, (r - 20) \div Pitch, "S">>
<1>1. /\ Pitch \in Nat \ {0} /\ Pitch = pathWidth + 1 /\ pathWidth \in Nat
      /\ Rows \in Nat /\ Cols \in Nat /\ mazeWidth \in Nat /\ mazeHeight \in Nat /\ Top = 20
  BY Sizes
<1>2. PICK x \in 0..mazeWidth - 1, y \in 0..mazeHeight - 1, d \in {"E", "S"} : q = <<x, y, d>>
  BY DEF Passages
<1>3. x \in Int /\ y \in Int /\ y * Pitch \in Nat /\ x * Pitch \in Nat
  BY <1>1
<1>4. ASSUME NEW u \in 0..pathWidth, NEW v \in 0..pathWidth,
             r = y * Pitch + v + Top, c = x * Pitch + u
      PROVE  /\ r >= 20 /\ c % Pitch = u /\ (r - 20) % Pitch = v
             /\ c \div Pitch = x /\ (r - 20) \div Pitch = y
  <2>1. /\ 0 <= u /\ u < Pitch /\ u \in Int /\ 0 <= v /\ v < Pitch /\ v \in Int
    BY <1>1
  <2>2. r - 20 = y * Pitch + v /\ r >= 20
    BY <1>1, <1>3, <1>4, <2>1
  <2>3. c % Pitch = u /\ c \div Pitch = x
    BY <1>1, <1>3, <1>4, <2>1, DivMod
  <2>4. (r - 20) % Pitch = v /\ (r - 20) \div Pitch = y
    BY <1>1, <1>3, <2>1, <2>2, DivMod
  <2> QED
    BY <2>2, <2>3, <2>4
<1>5. ASSUME r >= 20, x = c \div Pitch, y = (r - 20) \div Pitch
      PROVE  /\ r = y * Pitch + ((r - 20) % Pitch) + Top
             /\ c = x * Pitch + (c % Pitch)
             /\ c % Pitch \in 0..pathWidth /\ (r - 20) % Pitch \in 0..pathWidth
  <2>1. r \in 20..Rows - 1
    BY <1>1, <1>5
  <2>2. /\ c % Pitch \in 0..pathWidth /\ (r - 20) % Pitch \in 0..pathWidth
        /\ c = x * Pitch + (c % Pitch)
        /\ r - 20 = y * Pitch + ((r - 20) % Pitch)
    BY <1>5, <2>1, InCell
  <2>3. PICK v \in Int : v = (r - 20) % Pitch
    BY <2>2
  <2>4. r = y * Pitch + v + Top
    BY <1>1, <1>3, <2>2, <2>3
  <2> QED
    BY <2>2, <2>3, <2>4
<1>6. /\ 0..pathWidth - 1 \subseteq 0..pathWidth /\ pathWidth \in 0..pathWidth
      /\ pathWidth \notin 0..pathWidth - 1
      /\ \A w \in 0..pathWidth : w /= pathWidth => w \in 0..pathWidth - 1
  BY <1>1
<1>7. CASE d = "E"
  <2>1. <<r, c>> \in Strip(q) <=> \E p \in 0..pathWidth - 1 :
                r = y * Pitch + p + Top /\ c = x * Pitch + pathWidth
    BY <1>2, <1>7 DEF Strip
  <2>2. ASSUME NEW p \in 0..pathWidth - 1, r = y * Pitch + p + Top, c = x * Pitch + pathWidth
        PROVE  /\ r >= 20 /\ c % Pitch = pathWidth /\ (r - 20) % Pitch /= pathWidth
               /\ c \div Pitch = x /\ (r - 20) \div Pitch = y
    <3>1. p \in 0..pathWidth /\ pathWidth \in 0..pathWidth /\ p /= pathWidth
      BY <1>6
    <3> QED
      BY <1>4, <2>2, <3>1
  <2>3. ASSUME r >= 20, c % Pitch = pathWidth, (r - 20) % Pitch /= pathWidth,
               x = c \div Pitch, y = (r - 20) \div Pitch
        PROVE  \E p \in 0..pathWidth - 1 :
                    r = y * Pitch + p + Top /\ c = x * Pitch + pathWidth
    BY <1>5, <1>6, <2>3
  <2> QED
    BY <1>2, <1>7, <2>1, <2>2, <2>3
<1>8. CASE d = "S"
  <2>1. <<r, c>> \in Strip(q) <=> \E p \in 0..pathWidth - 1 :
                r = y * Pitch + pathWidth + Top /\ c = x * Pitch + p
    BY <1>2, <1>8 DEF Strip
  <2>2. ASSUME NEW p \in 0..pathWidth - 1, r = y * Pitch + pathWidth + Top, c = x * Pitch + p
        PROVE  /\ r >= 20 /\ c % Pitch /= pathWidth /\ (r - 20) % Pitch = pathWidth
               /\ c \div Pitch = x /\ (r - 20) \div Pitch = y
    <3>1. p \in 0..pathWidth /\ pathWidth \in 0..pathWidth /\ p /= pathWidth
      BY <1>6
    <3> QED
      BY <1>4, <2>2, <3>1
  <2>3. ASSUME r >= 20, c % Pitch /= pathWidth, (r - 20) % Pitch = pathWidth,
               x = c \div Pitch, y = (r - 20) \div Pitch
        PROVE  \E p \in 0..pathWidth - 1 :
                    r = y * Pitch + pathWidth + Top /\ c = x * Pitch + p
    BY <1>5, <1>6, <2>3
  <2> QED
    BY <1>2, <1>8, <2>1, <2>2, <2>3
<1> QED
  BY <1>7, <1>8

\* The bitmap shows the walls, whatever the maze.
LEMMA Painted ==
    ASSUME open \subseteq Passages, NEW r \in 19..Rows - 1, NEW c \in 0..Cols - 1
    PROVE  maze_screen_buffer(<<r, c>>) = 1 <=> Wall(<<r, c>>)
<1> DEFINE p == <<r, c>>
           east == c % Pitch = pathWidth
           south == (r - 20) % Pitch = pathWidth
           Q(d) == <<c \div Pitch, (r - 20) \div Pitch, d>>
<1>1. Rows \in Nat /\ Cols \in Nat /\ Top = 20
  BY Sizes
<1>2. p \in Pixels
  BY <1>1 DEF Pixels
<1>3. PassageAt[p] \cap open /= {} <=> \E q \in open : p \in Strip(q)
  BY <1>2 DEF PassageAt
<1>4. (\E q \in open : p \in Strip(q)) <=>
            /\ r >= 20
            /\ \/ east /\ ~south /\ Q("E") \in open
               \/ ~east /\ south /\ Q("S") \in open
  BY InStrip
<1>5. p \in Rooms <=> r >= 20 /\ ~east /\ ~south
  BY InRooms
<1>6. maze_screen_buffer(p) = 1 <=> p \notin Rooms /\ ~ (PassageAt[p] \cap open /= {})
  BY <1>1 DEF maze_screen_buffer
<1>7. /\ r = 19 => Wall(p)
      /\ r >= 20 => (Wall(p) <=> (\/ (east /\ south)
                                  \/ (east /\ ~south /\ Q("E") \notin open)
                                  \/ (~east /\ south /\ Q("S") \notin open)))
  BY WallAt
<1>8. r = 19 \/ r >= 20
  BY <1>1
<1>9. r = 19 => ~ (r >= 20)
  OBVIOUS
<1> HIDE DEF p, east, south, Q
<1> QED
  BY <1>3, <1>4, <1>5, <1>6, <1>7, <1>8, <1>9, Zenon DEF p

\* Pixel b of word k in row r is read as it was painted; in the row above the
\* upper wall there is nothing, not even a digit.
LEMMA ReadPixel ==
    ASSUME open \subseteq Passages, NEW r \in 18..Rows - 1,
           NEW k \in 0..WordsPerRow - 1, NEW b \in 0..WordBits - 1
    PROVE  Maze_Reg(<<r * WordsPerRow + k, WordBits - 1 - b>>) = 1 <=> Wall(<<r, k * WordBits + b>>)
<1>1. /\ WordBits \in Nat \ {0} /\ WordsPerRow \in Nat \ {0} /\ Rows \in Nat /\ Cols \in Nat
      /\ Cols = WordsPerRow * WordBits /\ Top = 20
      /\ k \in Int /\ 0 <= k /\ k <= WordsPerRow - 1
  BY Sizes
<1>2. PICK m \in Int : m = k * WordBits /\ 0 <= m /\ m <= Cols - WordBits
  <2>1. k * WordBits <= (WordsPerRow - 1) * WordBits /\ 0 <= k * WordBits
    BY <1>1, Z3
  <2>2. (WordsPerRow - 1) * WordBits = Cols - WordBits
    BY <1>1, Z3
  <2>3. k * WordBits \in Int
    BY <1>1
  <2> QED
    BY <2>1, <2>2, <2>3
<1>3. m + b \in 0..Cols - 1
  BY <1>1, <1>2
<1>4. WordBits - 1 - b \in 0..WordBits - 1 /\ r \in 0..Rows - 1
  BY <1>1
<1>5. m + WordBits - 1 - (WordBits - 1 - b) = m + b
  BY <1>1, <1>2
<1>6. Maze_Reg(<<r * WordsPerRow + k, WordBits - 1 - b>>) = maze_screen_buffer(<<r, m + b>>)
  BY <1>2, <1>4, <1>5, Stored
<1>7. CASE r = 18
  <2>1. maze_screen_buffer(<<r, m + b>>) = 0
    BY <1>1, <1>7 DEF maze_screen_buffer, Digits
  <2>2. ~Wall(<<r, m + b>>)
    BY <1>1, <1>7 DEF Wall
  <2> QED
    BY <1>2, <1>6, <2>1, <2>2
<1>8. CASE r /= 18
  <2>1. r \in 19..Rows - 1
    BY <1>1, <1>8
  <2> QED
    BY <1>2, <1>3, <1>6, <2>1, Painted
<1> QED
  BY <1>7, <1>8

\* What the scan keeps: a maze without a square.
Scanned ==
    /\ beam \in Pixels
    /\ open \subseteq Passages /\ NoSquare(open)

\* The pixel under the beam is the one that was painted there.
LEMMA PictureRight == Scanned => PicturesTheMaze
<1> SUFFICES ASSUME Scanned, beam[1] >= Top - 1 PROVE currentMaze = 1 <=> Wall(beam)
  BY DEF PicturesTheMaze
<1>1. Rows \in Nat /\ Cols \in Nat /\ Top = 20
  BY Sizes
<1>2. PICK r \in 0..Rows - 1, c \in 0..Cols - 1 : beam = <<r, c>>
  BY DEF Scanned, Pixels
<1>3. r \in 18..Rows - 1 /\ r \in Nat
  BY <1>1, <1>2
<1>4. PICK k \in 0..WordsPerRow - 1, b \in 0..WordBits - 1 :
        /\ Word_ADDR(beam) = r * WordsPerRow + k /\ Bit(beam) = WordBits - 1 - b
        /\ c = k * WordBits + b
  BY <1>2, <1>3, Address
<1> QED
  BY <1>2, <1>3, <1>4, ReadPixel DEF Scanned, currentMaze

\* The neighbours, but for those that the ends of a word take from elsewhere.
LEMMA ReadNeighbours ==
    ASSUME open \subseteq Passages, NEW r \in 19..Rows - 2, NEW c \in 1..Cols - 2,
           beam = <<r, c>>
    PROVE  /\ MazeUp = 1 <=> Wall(<<r - 1, c>>)
           /\ MazeDown = 1 <=> Wall(<<r + 1, c>>)
           /\ c % WordBits /= 0 => (MazeLeft = 1 <=> Wall(<<r, c - 1>>))
           /\ c % WordBits /= WordBits - 1 => (MazeRight = 1 <=> Wall(<<r, c + 1>>))
<1>1. /\ WordBits \in Nat \ {0, 1} /\ WordsPerRow \in Nat \ {0}
      /\ Rows \in Nat /\ Cols \in Nat
      /\ Cols = WordsPerRow * WordBits /\ Words = Rows * WordsPerRow /\ Words \in Nat
  BY Sizes
<1>2. /\ r \in Nat /\ c \in 0..Cols - 1 /\ r \in 18..Rows - 1
      /\ r - 1 \in 18..Rows - 1 /\ r + 1 \in 18..Rows - 1
  BY <1>1
<1>3. PICK k \in 0..WordsPerRow - 1, b \in 0..WordBits - 1 :
        /\ Word_ADDR(beam) = r * WordsPerRow + k /\ Bit(beam) = WordBits - 1 - b
        /\ c = k * WordBits + b /\ b = c % WordBits
  BY <1>2, Address
<1>4. PICK m \in Int : /\ m = r * WordsPerRow
                       /\ (r - 1) * WordsPerRow = m - WordsPerRow
                       /\ (r + 1) * WordsPerRow = m + WordsPerRow
                       /\ m >= WordsPerRow /\ m <= Words - 2 * WordsPerRow
  <2>1. r * WordsPerRow \in Int /\ r \in Int /\ 1 <= r /\ r <= Rows - 2
    BY <1>1
  <2>2. /\ (r - 1) * WordsPerRow = r * WordsPerRow - WordsPerRow
        /\ (r + 1) * WordsPerRow = r * WordsPerRow + WordsPerRow
    BY <1>1, <2>1, Z3
  <2>3. r * WordsPerRow >= WordsPerRow
    BY <1>1, <2>1, Z3
  <2>4. r * WordsPerRow <= (Rows - 2) * WordsPerRow
    BY <1>1, <2>1, Z3
  <2>5. (Rows - 2) * WordsPerRow = Words - 2 * WordsPerRow
    BY <1>1, Z3
  <2> QED
    BY <2>1, <2>2, <2>3, <2>4, <2>5
<1>5. k \in Int /\ 0 <= k /\ k <= WordsPerRow - 1 /\ b \in Int /\ 0 <= b /\ b <= WordBits - 1
  BY <1>1
<1>6. MazeUp = 1 <=> Wall(<<r - 1, c>>)
  <2>1. Word_ADDR(beam) /= 0
    BY <1>1, <1>3, <1>4, <1>5
  <2>2. Word_ADDR(beam) - WordsPerRow = (r - 1) * WordsPerRow + k
    BY <1>1, <1>3, <1>4, <1>5
  <2>3. MazeUp = Maze_Reg(<<(r - 1) * WordsPerRow + k, WordBits - 1 - b>>)
    BY <1>3, <2>1, <2>2 DEF MazeUp, UpAddr
  <2> QED
    BY <1>2, <1>3, <2>3, ReadPixel
<1>7. MazeDown = 1 <=> Wall(<<r + 1, c>>)
  <2>1. Word_ADDR(beam) /= Words - 1
    BY <1>1, <1>3, <1>4, <1>5
  <2>2. Word_ADDR(beam) + WordsPerRow = (r + 1) * WordsPerRow + k
    BY <1>1, <1>3, <1>4, <1>5
  <2>3. MazeDown = Maze_Reg(<<(r + 1) * WordsPerRow + k, WordBits - 1 - b>>)
    BY <1>3, <2>1, <2>2 DEF MazeDown, DownAddr
  <2> QED
    BY <1>2, <1>3, <2>3, ReadPixel
<1>8. Byte_ADDR(beam) /= WordBits - 1 /\ Byte_ADDR(beam) /= 0
  <2>1. Word_ADDR(beam) >= 1
    BY <1>1, <1>3, <1>4, <1>5
  <2>2. Byte_ADDR(beam) \in Int
    <3>1. r * Cols \in Int
      BY <1>1
    <3> QED
      BY <1>2, <3>1 DEF Byte_ADDR
  <2>3. (WordBits - 1) \div WordBits = 0 /\ 0 \div WordBits = 0
    <3>1. (0 * WordBits + (WordBits - 1)) \div WordBits = 0
      BY <1>1, DivMod
    <3>2. (0 * WordBits + 0) \div WordBits = 0
      BY <1>1, DivMod
    <3>3. 0 * WordBits + (WordBits - 1) = WordBits - 1 /\ 0 * WordBits + 0 = 0
      BY <1>1
    <3> QED
      BY <3>1, <3>2, <3>3
  <2> QED
    BY <2>1, <2>3 DEF Word_ADDR
<1>9. ASSUME b /= 0 PROVE MazeLeft = 1 <=> Wall(<<r, c - 1>>)
  <2>1. (WordBits - 1 - b + 1) % WordBits = WordBits - 1 - (b - 1)
    <3>0. PICK w \in Int : w = WordBits - b /\ 0 <= w /\ w < WordBits
      BY <1>1, <1>5, <1>9
    <3>1. (0 * WordBits + w) % WordBits = w
      BY <1>1, <3>0, DivMod
    <3>2. 0 * WordBits + w = WordBits - 1 - b + 1 /\ w = WordBits - 1 - (b - 1)
      BY <1>1, <1>5, <3>0
    <3> QED
      BY <3>1, <3>2
  <2>2. MazeLeft = Maze_Reg(<<r * WordsPerRow + k, WordBits - 1 - (b - 1)>>)
    BY <1>3, <1>8, <2>1 DEF MazeLeft, LeftAddr
  <2>3. b - 1 \in 0..WordBits - 1
    BY <1>1, <1>5, <1>9
  <2>4. k * WordBits + (b - 1) = c - 1
    <3>1. k * WordBits \in Int
      BY <1>1, <1>5
    <3> QED
      BY <1>3, <1>5, <3>1
  <2> QED
    BY <1>2, <2>2, <2>3, <2>4, ReadPixel
<1>10. ASSUME b /= WordBits - 1 PROVE MazeRight = 1 <=> Wall(<<r, c + 1>>)
  <2>1. (WordBits - 1 - b + WordBits - 1) % WordBits = WordBits - 1 - (b + 1)
    <3>0. PICK w \in Int : w = WordBits - 2 - b /\ 0 <= w /\ w < WordBits
      BY <1>1, <1>5, <1>10
    <3>3. PICK q \in Int : q = 1
      OBVIOUS
    <3>1. (q * WordBits + w) % WordBits = w
      BY <1>1, <3>0, DivMod
    <3>2. /\ q * WordBits + w = WordBits - 1 - b + WordBits - 1
          /\ w = WordBits - 1 - (b + 1)
      BY <1>1, <1>5, <3>0, <3>3
    <3> QED
      BY <3>1, <3>2
  <2>2. MazeRight = Maze_Reg(<<r * WordsPerRow + k, WordBits - 1 - (b + 1)>>)
    BY <1>3, <1>8, <2>1 DEF MazeRight, RightAddr
  <2>3. b + 1 \in 0..WordBits - 1
    BY <1>1, <1>5, <1>10
  <2>4. k * WordBits + (b + 1) = c + 1
    <3>1. k * WordBits \in Int
      BY <1>1, <1>5
    <3> QED
      BY <1>3, <1>5, <3>1
  <2> QED
    BY <1>2, <2>2, <2>3, <2>4, ReadPixel
<1> QED
  BY <1>3, <1>6, <1>7, <1>9, <1>10

\* The cell of a row or column of the maze, the place in it, and the place of a
\* column in its word: names for the provers, which know them by these lemmas.
Nr(a) == a \div Pitch
At(a) == a % Pitch
Nth(c) == c % WordBits

\* One place on, and one back.
LEMMA NextAt ==
    ASSUME NEW a \in Int
    PROVE  /\ Nr(a) \in Int /\ At(a) \in Int /\ 0 <= At(a) /\ At(a) <= pathWidth
           /\ At(a) < pathWidth => Nr(a + 1) = Nr(a) /\ At(a + 1) = At(a) + 1
           /\ At(a) = pathWidth => Nr(a + 1) = Nr(a) + 1 /\ At(a + 1) = 0
           /\ At(a) > 0 => Nr(a - 1) = Nr(a) /\ At(a - 1) = At(a) - 1
           /\ At(a) = 0 => Nr(a - 1) = Nr(a) - 1 /\ At(a - 1) = pathWidth
<1>1. Pitch \in Nat \ {0} /\ Pitch = pathWidth + 1 /\ pathWidth \in Nat
  BY Sizes
<1>2. /\ a % Pitch < Pitch - 1 => (a + 1) \div Pitch = a \div Pitch /\ (a + 1) % Pitch = (a % Pitch) + 1
      /\ a % Pitch = Pitch - 1 => (a + 1) \div Pitch = a \div Pitch + 1 /\ (a + 1) % Pitch = 0
      /\ a % Pitch > 0 => (a - 1) \div Pitch = a \div Pitch /\ (a - 1) % Pitch = (a % Pitch) - 1
      /\ a % Pitch = 0 => (a - 1) \div Pitch = a \div Pitch - 1 /\ (a - 1) % Pitch = Pitch - 1
  BY <1>1, NextMod, Zenon
<1>3. /\ a \div Pitch \in Int /\ a % Pitch \in Int /\ 0 <= a % Pitch /\ a % Pitch < Pitch
  BY <1>1, Division, Zenon
<1>4. /\ Nr(a) = a \div Pitch /\ At(a) = a % Pitch
      /\ Nr(a + 1) = (a + 1) \div Pitch /\ At(a + 1) = (a + 1) % Pitch
      /\ Nr(a - 1) = (a - 1) \div Pitch /\ At(a - 1) = (a - 1) % Pitch
  BY Zenon DEF Nr, At
<1>5. /\ At(a) < Pitch - 1 => Nr(a + 1) = Nr(a) /\ At(a + 1) = At(a) + 1
      /\ At(a) = Pitch - 1 => Nr(a + 1) = Nr(a) + 1 /\ At(a + 1) = 0
      /\ At(a) > 0 => Nr(a - 1) = Nr(a) /\ At(a - 1) = At(a) - 1
      /\ At(a) = 0 => Nr(a - 1) = Nr(a) - 1 /\ At(a - 1) = Pitch - 1
  BY <1>2, <1>4, Zenon
<1>6. Nr(a) \in Int /\ At(a) \in Int /\ 0 <= At(a) /\ At(a) < Pitch
  BY <1>3, <1>4, Zenon
<1> QED
  BY <1>1, <1>5, <1>6

\* The wall above the maze has no gap.
LEMMA UpperWall == ASSUME NEW c \in Int PROVE Wall(<<19, c>>)
BY DEF Wall, Top

\* Wall, in these names.
LEMMA InnerWall ==
    ASSUME NEW r \in Int, NEW c \in Int, r >= 20
    PROVE  Wall(<<r, c>>) <=>
                \/ At(c) = pathWidth /\ At(r - 20) = pathWidth
                \/ /\ At(c) = pathWidth /\ At(r - 20) /= pathWidth
                   /\ <<Nr(c), Nr(r - 20), "E">> \notin open
                \/ /\ At(c) /= pathWidth /\ At(r - 20) = pathWidth
                   /\ <<Nr(c), Nr(r - 20), "S">> \notin open
BY WallAt, Zenon DEF At, Nr

\* At both ends of a word, and one pixel on, a column is inside of a cell.
LEMMA WordEnds ==
    ASSUME NEW c \in 1..Cols - 2
    PROVE  /\ Nth(c) = WordBits - 1 => 0 < At(c) /\ At(c) < pathWidth
           /\ Nth(c) = 0 => At(c) < pathWidth - 1
<1>1. pathWidth \in Nat \ {0} /\ c \in Int
  BY Sizes
<1>2. /\ Nth(c) = WordBits - 1 => At(c) \in 1..pathWidth - 1
      /\ Nth(c) = 0 => At(c) \in 0..pathWidth - 2
  BY WordsEndInCells, Zenon DEF Nth, At
<1> QED
  BY <1>1, <1>2

\* A wall goes on along the row within a cell.
LEMMA AlongCell ==
    ASSUME NEW r \in 19..Rows - 1, NEW c \in Int, NEW e \in Int, Wall(<<r, c>>),
           At(c) /= pathWidth, At(e) /= pathWidth, Nr(c) = Nr(e)
    PROVE  Wall(<<r, e>>)
<1>1. r \in Int /\ (r = 19 \/ r >= 20)
  BY Sizes
<1>2. CASE r = 19
  BY <1>2, UpperWall, Zenon
<1>3. CASE r >= 20
  BY <1>1, <1>3, InnerWall, Zenon
<1> QED
  BY <1>1, <1>2, <1>3

\* Each wall pixel has a wall next to it: at a corner that would stand alone,
\* four passages would form a square.
LEMMA NoLonePixel ==
    ASSUME NoSquare(open), NEW r \in 19..Rows - 2, NEW c \in 1..Cols - 2, Wall(<<r, c>>)
    PROVE  \/ Wall(<<r, c - 1>>) \/ Wall(<<r, c + 1>>)
           \/ Wall(<<r - 1, c>>) \/ Wall(<<r + 1, c>>)
<1>1. pathWidth \in Nat \ {0} /\ Rows \in Nat /\ Cols \in Nat
  BY Sizes
<1>2. /\ r \in Int /\ c \in Int /\ r \in 19..Rows - 1 /\ (r = 19 \/ r >= 20)
      /\ c - 1 \in Int /\ c + 1 \in Int /\ r - 1 \in Int /\ r + 1 \in Int
  BY <1>1
<1>3. CASE r = 19
  BY <1>2, <1>3, UpperWall, Zenon
<1>4. CASE r >= 20
  <2>1. PICK row \in Int : row = r - 20 /\ r - 1 - 20 = row - 1 /\ r + 1 - 20 = row + 1
    BY <1>2
  <2> DEFINE Shape(i, k) ==
        \/ At(k) = pathWidth /\ At(i) = pathWidth
        \/ At(k) = pathWidth /\ At(i) /= pathWidth /\ <<Nr(k), Nr(i), "E">> \notin open
        \/ At(k) /= pathWidth /\ At(i) = pathWidth /\ <<Nr(k), Nr(i), "S">> \notin open
  <2>2. /\ Wall(<<r, c>>) <=> Shape(row, c)
        /\ Wall(<<r, c - 1>>) <=> Shape(row, c - 1)
        /\ Wall(<<r, c + 1>>) <=> Shape(row, c + 1)
    BY <1>2, <1>4, <2>1, InnerWall, Zenon
  <2>3. Wall(<<r + 1, c>>) <=> Shape(row + 1, c)
    <3>1. r + 1 >= 20
      BY <1>2, <1>4
    <3> QED
      BY <1>2, <2>1, <3>1, InnerWall
  <2>4. Shape(row - 1, c) => Wall(<<r - 1, c>>)
    <3>1. CASE r = 20
      <4>1. r - 1 = 19
        BY <3>1
      <4> QED
        BY <1>2, <4>1, UpperWall, Zenon
    <3>2. CASE r /= 20
      <4>1. r - 1 >= 20
        BY <1>2, <1>4, <3>2
      <4> QED
        BY <1>2, <2>1, <4>1, InnerWall, Zenon
    <3> QED
      BY <3>1, <3>2
  <2>5. /\ At(c) \in Int /\ 0 <= At(c) /\ At(row) \in Int /\ 0 <= At(row)
        /\ Nr(c) \in Int /\ Nr(row) \in Int
        /\ At(c) <= pathWidth /\ At(row) <= pathWidth
    BY <1>2, <2>1, NextAt
  <2>6. CASE At(c) = pathWidth /\ At(row) = pathWidth
    <3>1. /\ Nr(c - 1) = Nr(c) /\ At(c - 1) /= pathWidth
          /\ Nr(c + 1) = Nr(c) + 1 /\ At(c + 1) /= pathWidth
          /\ Nr(row - 1) = Nr(row) /\ At(row - 1) /= pathWidth
          /\ Nr(row + 1) = Nr(row) + 1 /\ At(row + 1) /= pathWidth
      BY <1>1, <1>2, <2>1, <2>5, <2>6, NextAt
    <3>2. \/ <<Nr(c), Nr(row), "E">> \notin open \/ <<Nr(c), Nr(row), "S">> \notin open
          \/ <<Nr(c) + 1, Nr(row), "S">> \notin open \/ <<Nr(c), Nr(row) + 1, "E">> \notin open
      BY DEF NoSquare
    <3> QED
      BY <2>2, <2>3, <2>4, <2>6, <3>1, <3>2, Zenon
  <2>7. CASE At(c) /= pathWidth
    <3>1. At(row) = pathWidth
      BY <2>2, <2>7, Zenon
    <3>2. CASE At(c) = 0
      <4>1. At(c - 1) = pathWidth
        BY <1>2, <3>2, NextAt
      <4> QED
        BY <2>2, <3>1, <4>1, Zenon
    <3>3. CASE At(c) > 0
      <4>1. At(c - 1) /= pathWidth /\ Nr(c - 1) = Nr(c)
        BY <1>1, <1>2, <2>5, <3>3, NextAt
      <4> QED
        BY <2>2, <2>7, <3>1, <4>1, Zenon
    <3> QED
      BY <2>5, <3>2, <3>3
  <2>8. CASE At(c) = pathWidth /\ At(row) /= pathWidth
    <3>1. <<Nr(c), Nr(row), "E">> \notin open
      BY <2>2, <2>8, Zenon
    <3>2. At(row - 1) = pathWidth \/ Nr(row - 1) = Nr(row)
      BY <2>1, <2>5, NextAt
    <3> QED
      BY <2>4, <2>8, <3>1, <3>2, Zenon
  <2> QED
    BY <2>6, <2>7, <2>8
<1> QED
  BY <1>2, <1>3, <1>4

\* The direction of a wall is read right at each of its pixels.
LEMMA WallsRead == Scanned => DirectionRight
<1> SUFFICES ASSUME Scanned, Inner(beam), currentMaze = 1
             PROVE  /\ AlongRow <=> (Wall(<<beam[1], beam[2] - 1>>) \/ Wall(<<beam[1], beam[2] + 1>>))
                    /\ AlongColumn <=> (Wall(<<beam[1] - 1, beam[2]>>) \/ Wall(<<beam[1] + 1, beam[2]>>))
                    /\ AlongRow \/ AlongColumn
  BY DEF DirectionRight
<1>1. /\ Pitch \in Nat \ {0} /\ Pitch = pathWidth + 1 /\ pathWidth \in Nat \ {0}
      /\ WordBits \in Nat \ {0, 1} /\ Rows \in Nat /\ Cols \in Nat /\ Top = 20
  BY Sizes
<1>2. PICK r \in 19..Rows - 2, c \in 1..Cols - 2 : beam = <<r, c>>
  <2>1. /\ beam = <<beam[1], beam[2]>>
        /\ beam[1] \in 19..Rows - 2 /\ beam[2] \in 1..Cols - 2
    BY <1>1 DEF Scanned, Pixels, Inner
  <2> QED
    BY <2>1, Zenon
<1>3. r \in Int /\ c \in Int /\ r \in 19..Rows - 1 /\ c - 1 \in Int /\ c + 1 \in Int
  BY <1>1
<1>4. Wall(<<r, c>>)
  BY <1>1, <1>2, <1>3, PictureRight DEF PicturesTheMaze
<1>5. /\ MazeUp = 1 <=> Wall(<<r - 1, c>>)
      /\ MazeDown = 1 <=> Wall(<<r + 1, c>>)
      /\ Nth(c) /= 0 => (MazeLeft = 1 <=> Wall(<<r, c - 1>>))
      /\ Nth(c) /= WordBits - 1 => (MazeRight = 1 <=> Wall(<<r, c + 1>>))
  BY <1>2, ReadNeighbours, Zenon DEF Scanned, Nth
<1>6. AlongRow <=> Wall(<<r, c - 1>>) \/ Wall(<<r, c + 1>>)
  <2>1. /\ At(c) \in Int /\ 0 <= At(c) /\ WordBits - 1 /= 0
    BY <1>1, <1>3, NextAt
  <2>2. CASE Nth(c) = WordBits - 1
    <3>1. At(c) > 0 /\ At(c) < pathWidth
      BY <2>2, WordEnds
    <3>2. Nr(c - 1) = Nr(c) /\ At(c - 1) /= pathWidth /\ At(c) /= pathWidth
      BY <1>1, <1>3, <2>1, <3>1, NextAt
    <3>3. Wall(<<r, c - 1>>)
      BY <1>3, <1>4, <3>2, AlongCell
    <3> QED
      BY <1>5, <2>1, <2>2, <3>3 DEF AlongRow
  <2>3. CASE Nth(c) = 0
    <3>1. At(c) < pathWidth - 1
      BY <2>3, WordEnds
    <3>2. Nr(c + 1) = Nr(c) /\ At(c + 1) /= pathWidth /\ At(c) /= pathWidth
      BY <1>1, <1>3, <2>1, <3>1, NextAt
    <3>3. Wall(<<r, c + 1>>)
      BY <1>3, <1>4, <3>2, AlongCell
    <3> QED
      BY <1>5, <2>1, <2>3, <3>3 DEF AlongRow
  <2>4. CASE Nth(c) /= 0 /\ Nth(c) /= WordBits - 1
    BY <1>5, <2>4 DEF AlongRow
  <2> QED
    BY <2>2, <2>3, <2>4
<1>7. AlongColumn <=> Wall(<<r - 1, c>>) \/ Wall(<<r + 1, c>>)
  BY <1>5 DEF AlongColumn
<1>8. AlongRow \/ AlongColumn
  BY <1>4, <1>6, <1>7, NoLonePixel DEF Scanned
<1> QED
  BY <1>2, <1>6, <1>7, <1>8

\* The scan keeps its maze.
LEMMA ScannedHolds == ScanSpec => []Scanned
<1>1. ScanInit => Scanned
  <2>1. Rows \in Nat /\ Rows > 20 /\ Cols \in Nat \ {0}
    BY Sizes
  <2> QED
    BY <2>1 DEF ScanInit, Scanned, Pixels, NoSquare
<1>2. Scanned /\ [ScanNext]_scanVars => Scanned'
  <2> SUFFICES ASSUME Scanned, [ScanNext]_scanVars PROVE Scanned'
    OBVIOUS
  <2>1. ASSUME NEW p \in Pixels, See(p) PROVE Scanned'
    <3>1. Relevant(p) \subseteq Passages
      BY DEF Relevant, PassageAt
    <3> QED
      BY <2>1, <3>1 DEF See, Scanned, NoSquare
  <2>2. CASE UNCHANGED scanVars
    BY <2>2 DEF scanVars, Scanned, NoSquare
  <2>3. Rows \in Nat /\ Rows > 20 /\ Cols \in Nat \ {0}
    BY Sizes
  <2>4. CASE Along
    BY <2>1, <2>3, <2>4 DEF Along, Scanned, Pixels
  <2>5. CASE NewLine
    BY <2>1, <2>3, <2>5 DEF NewLine, Scanned, Pixels
  <2>6. CASE NewFrame
    BY <2>1, <2>3, <2>6 DEF NewFrame, Scanned, Pixels
  <2> QED
    BY <2>2, <2>4, <2>5, <2>6 DEF ScanNext
<1> QED
  BY <1>1, <1>2, PTL DEF ScanSpec

\* What the monitor and collisionWall see is the maze, for cells, walls and
\* words of any size (mazes.c:112-301, vga_text_avl_interface.sv:361-364).
THEOREM PictureCorrect == ScanSpec => []PicturesTheMaze
BY PictureRight, ScannedHolds, PTL

\* Wherever a wall is, collisionWall is told which way it runs, provided that
\* words end inside of cells (vga_text_avl_interface.sv:366-400).
THEOREM DirectionCorrect == ScanSpec => []DirectionRight
BY WallsRead, ScannedHolds, PTL
=============================================================================
