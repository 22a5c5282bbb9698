---------------------------- MODULE ConsoleProofs ----------------------------
(***************************************************************************)
(* Proofs that the console is a pipe, for rings and FIFOs of any size and  *)
(* calls of any length, that the transmit interrupt is never off while     *)
(* characters wait for it, and that the alarm of the driver comes on time. *)
(***************************************************************************)
EXTENDS Console, TLAPS

\* Characters in the transmit ring, and the place of i among them.
Fill == IF tx_in >= tx_out THEN tx_in - tx_out ELSE tx_in - tx_out + BUF_LEN
Offset(i) == IF i >= tx_out THEN i - tx_out ELSE i - tx_out + BUF_LEN

\* The part of the types that the characters depend on.
Types ==
    /\ wpc \in {"idle", "look", "copy", "publish", "kick", "wait", "judge"}
    /\ count \in Nat /\ n \in 0..BUF_LEN - 1 /\ out \in Ring
    /\ tx_in \in Ring /\ tx_out \in Ring /\ tx_buf \in [Ring -> Nat]
    /\ WE \in BOOLEAN
    /\ space \in 0..Depth
    /\ wfifo \in Seq(Nat)
    /\ accepted \in Nat /\ delivered \in Nat

\* write() fills places that stay free however far the interrupt routine gets,
\* and it does not run over the end of the ring.
CopyFits == wpc \in {"copy", "publish"} =>
                /\ 1 <= n /\ n <= count
                /\ tx_in + n <= BUF_LEN /\ Fill + n <= BUF_LEN - 1

\* What is copied but not yet published.
Copied == wpc = "publish" => \A i \in tx_in..tx_in + n - 1 : tx_buf[i] = accepted + 1 + (i - tx_in)

\* No character is lost or doubled, ...
Conserved == accepted = delivered + Len(wfifo) + Fill
\* ... and they lie in order, first in the FIFO, then in the ring.
InFifo == \A k \in 1..Len(wfifo) : wfifo[k] = delivered + k
InRing == \A i \in Ring : Offset(i) < Fill => tx_buf[i] = delivered + Len(wfifo) + 1 + Offset(i)

\* The FIFO has the space that the interrupt routine has seen, or more.
FifoFits == space + Len(wfifo) <= Depth

\* PendingIsArmed, in the middle of the interrupt routine too.
Armed == tx_in /= tx_out => WE \/ wpc \in {"look", "copy", "publish", "kick"}

IInv == /\ Types /\ CopyFits /\ Copied /\ Conserved /\ InFifo /\ InRing
        /\ FifoFits /\ Armed
-----------------------------------------------------------------------------
\* Going round the ring.
LEMMA Turns ==
    ASSUME NEW i \in 0..BUF_LEN
    PROVE  i % BUF_LEN = IF i = BUF_LEN THEN 0 ELSE i
BY ConsoleAssumption, Z3

\* The ring in numbers.
LEMMA Numbers ==
    ASSUME Types
    PROVE  /\ BUF_LEN \in Nat /\ 2 <= BUF_LEN
           /\ tx_in \in 0..BUF_LEN - 1 /\ tx_out \in 0..BUF_LEN - 1
           /\ Fill \in 0..BUF_LEN - 1
           /\ Fill = 0 <=> tx_in = tx_out
           /\ Len(wfifo) \in Nat
BY ConsoleAssumption DEF Types, Ring, Fill

\* The invariant holds after initialisation.
LEMMA InitInv == Init => IInv
<1> SUFFICES ASSUME Init PROVE IInv
  OBVIOUS
<1>1. BUF_LEN \in Nat /\ 2 <= BUF_LEN /\ Depth \in Nat
  BY ConsoleAssumption
<1>2. wfifo = <<>> /\ Len(wfifo) = 0
  BY DEF Init
<1>3. 0 \in Ring
  BY <1>1 DEF Ring
<1>4. Types
  <2>1. tx_buf \in [Ring -> Nat]
    BY DEF Init
  <2>2. n \in 0..BUF_LEN - 1 /\ space \in 0..Depth
    BY <1>1 DEF Init
  <2> QED
    BY <1>2, <1>3, <2>1, <2>2 DEF Init, Types
<1>5. Fill = 0
  BY DEF Init, Fill
<1>6. CopyFits /\ Copied
  BY DEF Init, CopyFits, Copied
<1>7. Conserved /\ InFifo /\ FifoFits /\ Armed
  BY <1>1, <1>2, <1>5 DEF Init, Conserved, InFifo, FifoFits, Armed
<1>8. InRing
  BY <1>1, <1>5 DEF Init, InRing, Offset, Ring
<1> QED
  BY <1>4, <1>6, <1>7, <1>8 DEF IInv

\* Most steps leave the characters where they are.
LEMMA KeepCharacters ==
    ASSUME IInv, UNCHANGED <<tx_in, tx_out, tx_buf, wfifo, accepted, delivered>>
    PROVE  (Conserved /\ InFifo /\ InRing)' /\ Fill' = Fill
BY DEF IInv, Conserved, InFifo, InRing, Fill, Offset

\* A call of write() begins.
LEMMA CallInv == IInv /\ (\E c \in Lengths : Call(c)) => IInv'
<1> SUFFICES ASSUME IInv, \E c \in Lengths : Call(c) PROVE IInv'
  OBVIOUS
<1> USE DEF Call, wvars, ivars, ien, fifos, flags, clock
<1>1. (Conserved /\ InFifo /\ InRing)' /\ Fill' = Fill
  BY KeepCharacters
<1>2. Types'
  BY ConsoleAssumption DEF IInv, Types
<1>3. CopyFits' /\ Copied'
  BY <1>1 DEF IInv, CopyFits, Copied
<1>4. FifoFits' /\ Armed'
  BY DEF IInv, Types, FifoFits, Armed
<1> QED
  BY <1>1, <1>2, <1>3, <1>4 DEF IInv

\* The room found at the end of the ring really is free.
LEMMA LookInv == IInv /\ Look => IInv'
<1> SUFFICES ASSUME IInv, Look PROVE IInv'
  OBVIOUS
<1> USE DEF Look, wvars, ivars, ien, fifos, flags, clock
<1>1. (Conserved /\ InFifo /\ InRing)' /\ Fill' = Fill
  BY KeepCharacters
<1>5. wpc' = "copy" => /\ n' \in 0..BUF_LEN - 1 /\ 1 <= n' /\ n' <= count
                       /\ tx_in + n' <= BUF_LEN /\ Fill + n' <= BUF_LEN - 1
  <2> DEFINE room == Room(tx_in, tx_out)
  <2>1. /\ room \in Int
        /\ tx_in + room <= BUF_LEN /\ Fill + room <= BUF_LEN - 1
    BY Numbers DEF IInv, Room, Fill
  <2>2. wpc' = "copy" => room > 0 /\ count > 0 /\ n' = (IF room > count THEN count ELSE room)
    OBVIOUS
  <2>3. count \in Nat /\ Fill \in Nat /\ tx_in \in Nat /\ BUF_LEN \in Nat
    BY Numbers DEF IInv, Types
  <2> HIDE DEF room, Look
  <2> QED
    BY <2>1, <2>2, <2>3
<1>2. Types'
  <2>1. n' \in 0..BUF_LEN - 1
    <3>1. CASE wpc' = "copy"
      BY <1>5, <3>1
    <3>2. CASE wpc' /= "copy"
      BY <3>2 DEF IInv, Types
    <3> QED
      BY <3>1, <3>2
  <2>2. out' \in Ring
    BY DEF IInv, Types
  <2>3. wpc' \in {"copy", "kick"}
    OBVIOUS
  <2> QED
    BY <2>1, <2>2, <2>3 DEF IInv, Types
<1>3. CopyFits' /\ Copied'
  <2>1. wpc' \in {"copy", "kick"} /\ count' = count /\ tx_in' = tx_in
    OBVIOUS
  <2> QED
    BY <1>1, <1>5, <2>1 DEF CopyFits, Copied
<1>4. FifoFits' /\ Armed'
  BY DEF IInv, Types, FifoFits, Armed
<1> QED
  BY <1>1, <1>2, <1>3, <1>4 DEF IInv

\* The transmit interrupt is turned on, with all that was accepted in the ring.
LEMMA KickInv == IInv /\ Kick => IInv'
<1> SUFFICES ASSUME IInv, Kick PROVE IInv'
  OBVIOUS
<1> USE DEF Kick, wvars, ivars, ien, fifos, flags, clock
<1>1. (Conserved /\ InFifo /\ InRing)' /\ Fill' = Fill
  BY KeepCharacters
<1>2. Types'
  <2>1. WE' \in BOOLEAN
    OBVIOUS
  <2>2. out' \in Ring /\ wpc' \in {"wait", "idle"}
    <3>1. out \in Ring /\ 0 \in Ring
      BY Numbers DEF IInv, Types, Ring
    <3> QED
      BY <3>1, Zenon
  <2> QED
    BY <2>1, <2>2 DEF IInv, Types
<1>3. CopyFits' /\ Copied'
  BY <1>1 DEF IInv, CopyFits, Copied
<1>4. FifoFits' /\ Armed'
  <2>1. FifoFits'
    BY DEF IInv, FifoFits
  <2>2. Armed'
    BY DEF Armed
  <2> QED
    BY <2>1, <2>2
<1> QED
  BY <1>1, <1>2, <1>3, <1>4 DEF IInv

\* Waiting changes nothing.
LEMMA WaitInv == IInv /\ Wait => IInv'
<1> SUFFICES ASSUME IInv, Wait PROVE IInv'
  OBVIOUS
<1> USE DEF Wait, wvars, ivars, ien, fifos, flags, clock
<1>1. (Conserved /\ InFifo /\ InRing)' /\ Fill' = Fill
  BY KeepCharacters
<1>2. Types'
  BY ConsoleAssumption DEF IInv, Types
<1>3. CopyFits' /\ Copied'
  BY <1>1 DEF IInv, CopyFits, Copied
<1>4. FifoFits' /\ Armed'
  BY DEF IInv, Types, FifoFits, Armed
<1> QED
  BY <1>1, <1>2, <1>3, <1>4 DEF IInv

\* Nor does giving up.
LEMMA JudgeInv == IInv /\ Judge => IInv'
<1> SUFFICES ASSUME IInv, Judge PROVE IInv'
  OBVIOUS
<1> USE DEF Judge, wvars, ivars, ien, fifos, flags, clock
<1>1. (Conserved /\ InFifo /\ InRing)' /\ Fill' = Fill
  BY KeepCharacters
<1>2. Types'
  <2>1. count' \in Nat /\ wpc' \in {"idle", "look"}
    BY Zenon DEF IInv, Types
  <2>2. out' \in Ring
    BY Numbers DEF IInv, Ring
  <2> QED
    BY <2>1, <2>2 DEF IInv, Types
<1>3. CopyFits' /\ Copied'
  BY <1>1 DEF IInv, CopyFits, Copied
<1>4. FifoFits' /\ Armed'
  BY DEF IInv, Types, FifoFits, Armed
<1> QED
  BY <1>1, <1>2, <1>3, <1>4 DEF IInv

\* The interrupt routine reads the space in the FIFO.
LEMMA ControlInv == IInv /\ Control => IInv'
<1> SUFFICES ASSUME IInv, Control PROVE IInv'
  OBVIOUS
<1> USE DEF Control, wvars, ivars, ien, fifos, flags, clock
<1>1. (Conserved /\ InFifo /\ InRing)' /\ Fill' = Fill
  BY KeepCharacters
<1>5. space' = Depth - Len(wfifo) \/ space' = 0
  OBVIOUS
<1>6. Depth \in Nat /\ Len(wfifo) \in Nat /\ space \in Nat /\ wfifo' = wfifo
  BY ConsoleAssumption, Numbers DEF IInv, Types
<1>2. Types'
  <2>1. space' \in 0..Depth
    BY <1>5, <1>6 DEF IInv, FifoFits
  <2> QED
    BY <2>1 DEF IInv, Types
<1>3. CopyFits' /\ Copied'
  BY <1>1 DEF IInv, CopyFits, Copied
<1>4. FifoFits' /\ Armed'
  <2>1. FifoFits'
    BY <1>5, <1>6 DEF IInv, FifoFits
  <2>2. Armed'
    BY DEF IInv, Armed
  <2> QED
    BY <2>1, <2>2
<1> QED
  BY <1>1, <1>2, <1>3, <1>4 DEF IInv

\* Receiving does not touch what is sent ...
LEMMA ReceiveInv == IInv /\ Receive => IInv'
<1> SUFFICES ASSUME IInv, Receive PROVE IInv'
  OBVIOUS
<1> USE DEF Receive, wvars, ivars, ien, fifos, flags, clock
<1>1. (Conserved /\ InFifo /\ InRing)' /\ Fill' = Fill
  BY KeepCharacters
<1>2. Types'
  BY ConsoleAssumption DEF IInv, Types
<1>3. CopyFits' /\ Copied'
  BY <1>1 DEF IInv, CopyFits, Copied
<1>4. FifoFits' /\ Armed'
  BY DEF IInv, Types, FifoFits, Armed
<1> QED
  BY <1>1, <1>2, <1>3, <1>4 DEF IInv

\* ... nor does a full receive ring.
LEMMA ReceiveFullInv == IInv /\ ReceiveFull => IInv'
<1> SUFFICES ASSUME IInv, ReceiveFull PROVE IInv'
  OBVIOUS
<1> USE DEF ReceiveFull, wvars, ivars, ien, fifos, flags, clock
<1>1. (Conserved /\ InFifo /\ InRing)' /\ Fill' = Fill
  BY KeepCharacters
<1>2. Types'
  BY ConsoleAssumption DEF IInv, Types
<1>3. CopyFits' /\ Copied'
  BY <1>1 DEF IInv, CopyFits, Copied
<1>4. FifoFits' /\ Armed'
  BY DEF IInv, Types, FifoFits, Armed
<1> QED
  BY <1>1, <1>2, <1>3, <1>4 DEF IInv

\* The transmit interrupt is turned off only when the ring is empty.
LEMMA SendEndInv == IInv /\ SendEnd => IInv'
<1> SUFFICES ASSUME IInv, SendEnd PROVE IInv'
  OBVIOUS
<1> USE DEF SendEnd, wvars, ivars, ien, fifos, flags, clock
<1>1. (Conserved /\ InFifo /\ InRing)' /\ Fill' = Fill
  BY KeepCharacters
<1>2. Types'
  BY ConsoleAssumption DEF IInv, Types
<1>3. CopyFits' /\ Copied'
  BY <1>1 DEF IInv, CopyFits, Copied
<1>4. FifoFits' /\ Armed'
  BY DEF IInv, Types, FifoFits, Armed
<1> QED
  BY <1>1, <1>2, <1>3, <1>4 DEF IInv

\* The clock touches no character ...
LEMMA TickInv == IInv /\ Tick => IInv'
<1> SUFFICES ASSUME IInv, Tick PROVE IInv'
  OBVIOUS
<1> USE DEF Tick, wvars, ivars, ien, fifos, flags, clock
<1>1. (Conserved /\ InFifo /\ InRing)' /\ Fill' = Fill
  BY KeepCharacters
<1>2. Types'
  BY ConsoleAssumption DEF IInv, Types
<1>3. CopyFits' /\ Copied'
  BY <1>1 DEF IInv, CopyFits, Copied
<1>4. FifoFits' /\ Armed'
  BY DEF IInv, Types, FifoFits, Armed
<1> QED
  BY <1>1, <1>2, <1>3, <1>4 DEF IInv

\* ... and what the host types none of those sent.
LEMMA HostTypeInv == IInv /\ HostType => IInv'
<1> SUFFICES ASSUME IInv, HostType PROVE IInv'
  OBVIOUS
<1> USE DEF HostType, wvars, ivars, ien, fifos, flags, clock
<1>1. (Conserved /\ InFifo /\ InRing)' /\ Fill' = Fill
  BY KeepCharacters
<1>2. Types'
  BY ConsoleAssumption DEF IInv, Types
<1>3. CopyFits' /\ Copied'
  BY <1>1 DEF IInv, CopyFits, Copied
<1>4. FifoFits' /\ Armed'
  BY DEF IInv, Types, FifoFits, Armed
<1> QED
  BY <1>1, <1>2, <1>3, <1>4 DEF IInv

\* The places that write() fills are not in use.
LEMMA CopyInv == IInv /\ Copy => IInv'
<1> SUFFICES ASSUME IInv, Copy PROVE IInv'
  OBVIOUS
<1> USE DEF Copy, wvars, ivars, ien, fifos, flags, clock
<1>1. /\ 1 <= n /\ n <= count /\ tx_in + n <= BUF_LEN /\ Fill + n <= BUF_LEN - 1
      /\ count \in Nat /\ n \in Nat /\ accepted \in Nat
  BY DEF IInv, CopyFits, Types
<1>2. UNCHANGED <<tx_in, tx_out, n, count, accepted, delivered, wfifo, WE, space>> /\ wpc' = "publish"
  OBVIOUS
<1>3. \A i \in Ring : tx_buf'[i] = IF i \in tx_in..tx_in + n - 1
                                    THEN accepted + 1 + (i - tx_in) ELSE tx_buf[i]
  OBVIOUS
<1>4. Fill' = Fill
  BY <1>2 DEF Fill
<1>5. Types'
  <2>3. \A i \in Ring : tx_buf[i] \in Nat
    BY DEF IInv, Types
  <2>1. \A i \in Ring : tx_buf'[i] \in Nat
    BY <1>1, <1>3, <2>3, Numbers DEF IInv, Ring
  <2>2. tx_buf' \in [Ring -> Nat]
    BY <2>1
  <2> HIDE DEF Copy
  <2> QED
    BY <1>2, <2>2 DEF IInv, Types, Copy
<1> HIDE DEF Copy
<1>6. CopyFits' /\ Conserved' /\ InFifo' /\ FifoFits' /\ Armed'
  BY <1>1, <1>2, <1>4 DEF IInv, CopyFits, Conserved, InFifo, FifoFits, Armed
<1>7. Copied'
  <2>1. tx_in..tx_in + n - 1 \subseteq Ring
    BY <1>1, Numbers DEF IInv, Ring
  <2> QED
    BY <1>2, <1>3, <2>1 DEF Copied
<1>8. InRing'
  <2>1. ASSUME NEW i \in Ring, Offset(i) < Fill PROVE i \notin tx_in..tx_in + n - 1
    BY <1>1, <2>1, Numbers DEF IInv, Offset, Fill, Ring
  <2> QED
    BY <1>2, <1>3, <1>4, <2>1 DEF IInv, InRing, Offset
<1> QED
  BY <1>5, <1>6, <1>7, <1>8 DEF IInv

\* The characters copied become part of the ring.
LEMMA PublishInv == IInv /\ Publish => IInv'
<1> SUFFICES ASSUME IInv, Publish PROVE IInv'
  OBVIOUS
<1>1. /\ 1 <= n /\ n <= count /\ tx_in + n <= BUF_LEN /\ Fill + n <= BUF_LEN - 1
      /\ count \in Nat /\ n \in Nat /\ accepted \in Nat /\ delivered \in Nat
  BY DEF IInv, CopyFits, Types, Publish
<1>2. /\ UNCHANGED <<tx_buf, tx_out, out, wfifo, delivered, WE, space>> /\ wpc' = "look"
      /\ tx_in' = (tx_in + n) % BUF_LEN /\ count' = count - n /\ accepted' = accepted + n
      /\ n' = 0
  BY DEF Publish, ivars, ien, fifos
<1>11. /\ BUF_LEN \in Nat /\ 2 <= BUF_LEN /\ Fill \in 0..BUF_LEN - 1
      /\ tx_in \in 0..BUF_LEN - 1 /\ tx_out \in 0..BUF_LEN - 1 /\ Len(wfifo) \in Nat
      /\ Fill = (IF tx_in >= tx_out THEN tx_in - tx_out ELSE tx_in - tx_out + BUF_LEN)
  BY Numbers DEF IInv, Fill
<1>3. tx_in' = IF tx_in + n = BUF_LEN THEN 0 ELSE tx_in + n
  BY <1>1, <1>2, Turns, Numbers DEF IInv
<1>4. Fill' = Fill + n
  BY <1>1, <1>2, <1>3, <1>11 DEF Fill
<1>5. Types'
  <2>1. tx_in' \in Ring /\ count' \in Nat /\ accepted' \in Nat /\ n' \in 0..BUF_LEN - 1
    BY <1>1, <1>2, <1>3, <1>11 DEF Ring
  <2> QED
    BY <1>2, <2>1 DEF IInv, Types
<1>6. CopyFits' /\ Copied' /\ InFifo' /\ FifoFits' /\ Armed'
  BY <1>2 DEF IInv, CopyFits, Copied, InFifo, FifoFits, Armed
<1>7. Conserved'
  BY <1>1, <1>2, <1>4, Numbers DEF IInv, Conserved
<1>8. InRing'
  <2>1. ASSUME NEW i \in Ring, Offset(i) < Fill + n
        PROVE  tx_buf[i] = delivered + Len(wfifo) + 1 + Offset(i)
    <3>1. CASE Offset(i) < Fill
      BY <3>1 DEF IInv, InRing
    <3>2. CASE ~(Offset(i) < Fill)
      <4>1. i \in tx_in..tx_in + n - 1 /\ Offset(i) = Fill + (i - tx_in)
        BY <1>1, <1>11, <2>1, <3>2 DEF Offset, Ring
      <4>2. tx_buf[i] = accepted + 1 + (i - tx_in)
        BY <4>1 DEF IInv, Copied, Publish
      <4> QED
        BY <1>1, <4>1, <4>2, Numbers DEF IInv, Conserved, Ring
    <3> QED
      BY <3>1, <3>2
  <2> QED
    BY <1>2, <1>4, <2>1 DEF InRing, Offset
<1> QED
  BY <1>5, <1>6, <1>7, <1>8 DEF IInv

\* The character at the end of the ring is the next one for the FIFO.
LEMMA SendInv == IInv /\ Send => IInv'
<1> SUFFICES ASSUME IInv, Send PROVE IInv'
  OBVIOUS
<1>1. /\ UNCHANGED <<tx_buf, tx_in, wpc, count, n, out, accepted, delivered, WE>>
      /\ wfifo' = Append(wfifo, tx_buf[tx_out]) /\ space > 0 /\ tx_out /= tx_in
      /\ tx_out' = (tx_out + 1) % BUF_LEN /\ space' = space - 1
  BY DEF Send, wvars, ien
<1>2. tx_out \in Ring /\ wfifo \in Seq(Nat) /\ tx_buf[tx_out] \in Nat /\ delivered \in Nat
      /\ space \in 0..Depth /\ Depth \in Nat
  BY ConsoleAssumption DEF IInv, Types
<1>11. /\ BUF_LEN \in Nat /\ 2 <= BUF_LEN /\ Fill \in 0..BUF_LEN - 1
      /\ tx_in \in 0..BUF_LEN - 1 /\ tx_out \in 0..BUF_LEN - 1 /\ Len(wfifo) \in Nat
      /\ Fill = (IF tx_in >= tx_out THEN tx_in - tx_out ELSE tx_in - tx_out + BUF_LEN)
  BY Numbers DEF IInv, Fill
<1>3. tx_out' = IF tx_out + 1 = BUF_LEN THEN 0 ELSE tx_out + 1
  <2>1. tx_out + 1 \in 0..BUF_LEN
    BY <1>11
  <2> QED
    BY <1>1, <1>11, <2>1, Turns
<1>4. Fill' = Fill - 1 /\ Fill > 0
  BY <1>1, <1>3, <1>11 DEF Fill
<1>5. /\ wfifo' \in Seq(Nat) /\ Len(wfifo') = Len(wfifo) + 1
      /\ \A k \in 1..Len(wfifo) : wfifo'[k] = wfifo[k]
      /\ wfifo'[Len(wfifo) + 1] = tx_buf[tx_out]
  BY <1>1, <1>2
<1>6. Types'
  <2>1. tx_out' \in Ring
    BY <1>3, <1>11 DEF Ring
  <2>2. space' \in 0..Depth
    BY <1>1, <1>2
  <2> QED
    BY <1>1, <1>5, <2>1, <2>2 DEF IInv, Types
<1>7. CopyFits' /\ Copied' /\ Armed'
  <2>1. CopyFits'
    <3>1. n \in Int /\ CopyFits
      BY DEF IInv, Types
    <3> QED
      BY <1>1, <1>4, <1>11, <3>1 DEF CopyFits
  <2>2. Copied'
    BY <1>1 DEF IInv, Copied
  <2>3. Armed'
    BY <1>1 DEF IInv, Armed
  <2> QED
    BY <2>1, <2>2, <2>3
<1>8. Conserved' /\ FifoFits'
  BY <1>1, <1>2, <1>4, <1>5, Numbers DEF IInv, Conserved, FifoFits
<1>9. InFifo'
  <2>1. tx_buf[tx_out] = delivered + Len(wfifo) + 1
    <3>1. Offset(tx_out) = 0
      BY Numbers DEF IInv, Offset
    <3> QED
      BY <1>2, <1>4, <3>1, Numbers DEF IInv, InRing
  <2>2. \A k \in 1..Len(wfifo) : wfifo[k] = delivered + k
    BY DEF IInv, InFifo
  <2> QED
    BY <1>1, <1>2, <1>5, <1>11, <2>1, <2>2 DEF InFifo
<1>10. InRing'
  <2>1. ASSUME NEW i \in Ring, Offset(i)' < Fill - 1
        PROVE  Offset(i) < Fill /\ Offset(i)' = Offset(i) - 1 /\ Offset(i) \in Nat
    BY <1>3, <1>4, <1>11, <2>1 DEF Offset, Ring
  <2>2. ASSUME NEW i \in Ring, Offset(i)' < Fill - 1
        PROVE  tx_buf[i] = delivered + (Len(wfifo) + 1) + 1 + Offset(i)'
    BY <1>2, <2>1, <2>2, Numbers DEF IInv, InRing
  <2> QED
    BY <1>1, <1>4, <1>5, <2>2 DEF InRing
<1> QED
  BY <1>6, <1>7, <1>8, <1>9, <1>10 DEF IInv

\* The host takes the character that is due.
LEMMA HostPollInv == IInv /\ HostPoll => IInv'
<1> SUFFICES ASSUME IInv, HostPoll PROVE IInv'
  OBVIOUS
<1>1. UNCHANGED <<wpc, count, n, out, tx_in, tx_out, tx_buf, accepted, WE, space>>
  BY DEF HostPoll, wvars, ivars, ien
<1>2. Fill' = Fill
  BY <1>1 DEF Fill
<1>3. CASE wfifo = <<>>
  <2>1. UNCHANGED <<wfifo, delivered>>
    BY <1>3 DEF HostPoll
  <2>2. (Conserved /\ InFifo /\ InRing)'
    BY <1>1, <2>1, KeepCharacters
  <2> QED
    BY <1>1, <1>2, <2>1, <2>2 DEF IInv, Types, CopyFits, Copied, FifoFits, Armed
<1>4. CASE wfifo /= <<>>
  <2>1. wfifo' = Tail(wfifo) /\ delivered' = Head(wfifo)
    BY <1>4 DEF HostPoll
  <2>2. /\ wfifo' \in Seq(Nat) /\ Len(wfifo') = Len(wfifo) - 1 /\ Len(wfifo) >= 1
        /\ \A k \in 1..Len(wfifo) - 1 : wfifo'[k] = wfifo[k + 1]
        /\ delivered' = wfifo[1]
    BY <1>4, <2>1 DEF IInv, Types
  <2>3. delivered' = delivered + 1 /\ delivered \in Nat
    BY <2>2, Numbers DEF IInv, InFifo, Types
  <2>4. Types'
    BY <1>1, <2>2, <2>3 DEF IInv, Types
  <2>5. CopyFits' /\ Copied' /\ Armed'
    BY <1>1, <1>2 DEF IInv, CopyFits, Copied, Armed
  <2>6. Conserved' /\ FifoFits'
    BY <1>1, <1>2, <2>2, <2>3, Numbers, ConsoleAssumption DEF IInv, Conserved,
       FifoFits, Types
  <2>7. InFifo'
    BY <2>2, <2>3, Numbers DEF IInv, InFifo
  <2>8. delivered' + Len(wfifo') = delivered + Len(wfifo)
    BY <2>2, <2>3, Numbers DEF IInv
  <2>9. InRing'
    BY <1>1, <1>2, <2>8 DEF IInv, InRing, Offset
  <2> QED
    BY <2>4, <2>5, <2>6, <2>7, <2>9 DEF IInv
<1> QED
  BY <1>3, <1>4

\* The inductive invariant holds in every behaviour.
THEOREM InvariantHolds == Spec => []IInv
<1>1. IInv /\ Next => IInv'
  <2> SUFFICES ASSUME IInv, Next PROVE IInv'
    OBVIOUS
  <2>1. CASE Writer
    BY <2>1, LookInv, CopyInv, PublishInv, KickInv, WaitInv, JudgeInv DEF Writer
  <2>2. CASE Isr
    BY <2>2, ControlInv, ReceiveInv, ReceiveFullInv, SendInv, SendEndInv DEF Isr,
       Enter, Again
  <2>3. CASE \E c \in Lengths : Call(c)
    BY <2>3, CallInv
  <2> QED
    BY <2>1, <2>2, <2>3, TickInv, HostPollInv, HostTypeInv DEF Next
<1>2. IInv /\ UNCHANGED vars => IInv'
  BY DEF vars, wvars, ivars, ien, fifos, flags, IInv, Types, CopyFits, Copied, Conserved,
         InFifo, InRing, FifoFits, Armed, Fill, Offset
<1> QED
  BY <1>1, <1>2, InitInv, PTL DEF Spec

\* Characters in the ring never wait for an interrupt that is turned off
\* (altera_avalon_jtag_uart_write.c:121-139, altera_avalon_jtag_uart_init.c:182-191).
THEOREM ArmedCorrect == Spec => []PendingIsArmed
<1>1. IInv => PendingIsArmed
  BY DEF IInv, Armed, PendingIsArmed
<1> QED
  BY <1>1, InvariantHolds, PTL

\* The other types.
Others ==
    /\ rx \in Ring /\ RE \in BOOLEAN
    /\ host_inactive \in 0..MaxInactive
    /\ ipc \in {"off", "receive", "send", "again"}
    /\ WI \in BOOLEAN /\ ravail \in BOOLEAN
    /\ rfifo \in 0..Depth
    /\ ac \in BOOLEAN /\ pause_irq \in BOOLEAN

\* They hold at first ...
LEMMA OthersInit == Init => Others
<1> SUFFICES ASSUME Init PROVE Others
  OBVIOUS
<1>1. rx \in Ring /\ host_inactive \in 0..MaxInactive /\ rfifo \in 0..Depth
  BY ConsoleAssumption DEF Init, Ring
<1> QED
  BY <1>1 DEF Init, Others

\* ... and after each step.
LEMMA OthersStep == IInv /\ Others /\ [Next]_vars => Others'
<1> SUFFICES ASSUME IInv, Others, [Next]_vars PROVE Others'
  OBVIOUS
<1> USE DEF Others, wvars, ivars, ien, fifos, flags
<1>1. CASE Writer \/ (\E c \in Lengths : Call(c)) \/ UNCHANGED vars
  BY <1>1 DEF vars, Writer, Look, Copy, Publish, Kick, Wait, Judge, Call
<1>2. CASE Control
  <2>1. RIpending \in BOOLEAN /\ WIpending \in BOOLEAN
    BY DEF RIpending, WIpending
  <2>2. ipc' \in {"off", "receive", "send", "again"} /\ WI' \in BOOLEAN /\ ravail' \in BOOLEAN
    BY <1>2, <2>1, Zenon DEF Control
  <2> QED
    BY <1>2, <2>2 DEF Control
<1>3. CASE Receive
  <2>1. ipc' \in {"off", "receive", "send", "again"}
    BY <1>3 DEF Receive, AfterReceive
  <2>2. rx' \in Ring /\ rfifo' \in 0..Depth
    BY <1>3, ConsoleAssumption DEF Receive, Ring
  <2>3. ravail' \in BOOLEAN
    BY <1>3 DEF Receive
  <2> QED
    BY <1>3, <2>1, <2>2, <2>3 DEF Receive
<1>4. CASE ReceiveFull
  <2>1. ipc' \in {"off", "receive", "send", "again"} /\ RE' \in BOOLEAN
    BY <1>4 DEF ReceiveFull, AfterReceive
  <2> QED
    BY <1>4, <2>1 DEF ReceiveFull
<1>5. CASE Send
  BY <1>5 DEF Send
<1>6. CASE SendEnd
  BY <1>6 DEF SendEnd
<1>7. CASE Tick
  <2>1. host_inactive' \in 0..MaxInactive /\ ac' \in BOOLEAN
    <3>1. CASE CheckHost
      <4>1. \/ host_inactive' = 0
            \/ host_inactive' = host_inactive
            \/ host_inactive < MaxInactive /\ host_inactive' = host_inactive + 1
        BY <3>1, Zenon DEF CheckHost
      <4>2. host_inactive \in 0..MaxInactive /\ MaxInactive \in Nat
        BY ConsoleAssumption
      <4>3. host_inactive' \in 0..MaxInactive
        BY <4>1, <4>2
      <4>4. ac' \in BOOLEAN
        BY <3>1 DEF CheckHost
      <4> QED
        BY <4>3, <4>4
    <3>2. CASE UNCHANGED <<ac, host_inactive>>
      BY <3>2
    <3> QED
      BY <1>7, <3>1, <3>2, Zenon DEF Tick
  <2> QED
    BY <1>7, <2>1 DEF Tick
<1>8. CASE HostPoll
  BY <1>8 DEF HostPoll
<1>9. CASE HostType
  BY <1>9, ConsoleAssumption DEF HostType
<1> QED
  BY <1>1, <1>2, <1>3, <1>4, <1>5, <1>6, <1>7, <1>8, <1>9 DEF Next, Isr, Enter, Again

-----------------------------------------------------------------------------
(* Refinement.                                                             *)

\* The console starts as an empty pipe.
LEMMA PipeInit == Init => Device!Init
BY DEF Init, Device!Init

\* Publishing accepts characters, the host's poll delivers one, and every other step
\* leaves the pipe alone.
LEMMA PipeStep == IInv /\ [Next]_vars => [Device!Next]_<<accepted, delivered>>
<1> SUFFICES ASSUME IInv, [Next]_vars PROVE [Device!Next]_<<accepted, delivered>>
  OBVIOUS
<1>1. CASE Publish
  <2>1. /\ 1 <= n /\ Fill + n <= BUF_LEN - 1 /\ n \in Nat /\ accepted \in Nat
        /\ delivered \in Nat /\ space \in Nat
    BY <1>1 DEF IInv, CopyFits, Types, Publish
  <2>2. accepted' = accepted + n /\ delivered' = delivered
    BY <1>1 DEF Publish, fifos
  <2>3. accepted = delivered + Len(wfifo) + Fill /\ space + Len(wfifo) <= Depth
    BY DEF IInv, Conserved, FifoFits
  <2>4. BUF_LEN \in Nat /\ Fill \in Nat /\ Len(wfifo) \in Nat /\ Depth \in Nat
    BY Numbers, ConsoleAssumption DEF IInv
  <2>5. n \in 1..(BUF_LEN - 1 + Depth) /\ accepted' - delivered <= BUF_LEN - 1 + Depth
    BY <2>1, <2>2, <2>3, <2>4
  <2>6. Device!Accept
    BY <2>2, <2>5 DEF Device!Accept
  <2> QED
    BY <2>6 DEF Device!Next
<1>2. CASE HostPoll /\ wfifo /= <<>>
  <2>1. delivered' = wfifo[1] /\ accepted' = accepted /\ Len(wfifo) >= 1
    BY <1>2 DEF HostPoll, wvars, IInv, Types
  <2>2. wfifo[1] = delivered + 1
    BY <2>1, Numbers DEF IInv, InFifo
  <2>3. delivered < accepted
    BY <2>1, Numbers DEF IInv, Conserved, Types
  <2>4. Device!Deliver
    BY <2>1, <2>2, <2>3 DEF Device!Deliver
  <2> QED
    BY <2>4 DEF Device!Next
<1>3. CASE HostPoll /\ wfifo = <<>>
  BY <1>3 DEF HostPoll, wvars
<1>4. ASSUME [Next]_vars, ~Publish, ~HostPoll PROVE UNCHANGED <<accepted, delivered>>
  BY <1>4 DEF vars, wvars, ivars, ien, fifos, flags, Next, Writer, Isr, Enter,
     Again, Control,
         Call, Look, Copy, Kick, Wait, Judge, Receive, ReceiveFull, Send, SendEnd, Tick,
         HostType
<1> QED
  BY <1>1, <1>2, <1>3, <1>4

\* What write() has accepted reaches the host in order and exactly once
\* (altera_avalon_jtag_uart_write.c:90-139, altera_avalon_jtag_uart_init.c:164-181).
THEOREM PipeCorrect == Spec => ImplementsPipe
BY PipeInit, PipeStep, InvariantHolds, PTL DEF Spec, ImplementsPipe, Device!Spec
-----------------------------------------------------------------------------
(* The alarm: first for the clock alone, whenever the alarm was started,   *)
(* then for the console. Nothing else moves the clock.                     *)

\* What is left of the period is the distance from the counter to the time of
\* the alarm, around the wrap while rollover is set and straight otherwise.
\* One number tells both: time alone does not say on which side of it the
\* counter is.
Remaining == IF rollover THEN time + Span - nticks ELSE time - nticks
ClockInv == Clock!TypeOK /\ Remaining = Period - since

\* A number below twice the span is reduced by taking the span away once.
LEMMA Reduce ==
    ASSUME Clock!ClockAssumption, NEW m \in Nat, m < 2 * Span
    PROVE  m % Span = IF m < Span THEN m ELSE m - Span
BY Z3 DEF Clock!ClockAssumption

\* The alarm has just been started.
LEMMA ClockInit == Clock!ClockAssumption /\ Clock!Init => ClockInv
<1> SUFFICES ASSUME Clock!ClockAssumption, Clock!Init PROVE ClockInv
  OBVIOUS
<1> USE DEF Clock!ClockAssumption
<1>1. time = IF nticks + Period + 1 < Span THEN nticks + Period + 1
             ELSE nticks + Period + 1 - Span
  BY Reduce DEF Clock!Init
<1>2. nticks \in 0..Span - 1 /\ since = -1 /\ rollover = (time < nticks)
  BY DEF Clock!Init
<1>3. Clock!TypeOK
  BY <1>1, <1>2 DEF Clock!TypeOK
<1>4. CASE rollover
  <2>1. Remaining = time + Span - nticks
    BY <1>4, Zenon DEF Remaining
  <2>2. time < nticks
    BY <1>2, <1>4, Zenon
  <2>3. Remaining = Period - since
    BY <1>1, <1>2, <2>1, <2>2
  <2> QED
    BY <1>3, <2>3 DEF ClockInv
<1>5. CASE ~rollover
  <2>1. Remaining = time - nticks
    BY <1>5, Zenon DEF Remaining
  <2>2. ~ (time < nticks)
    BY <1>2, <1>5, Zenon
  <2>3. Remaining = Period - since
    BY <1>1, <1>2, <2>1, <2>2
  <2> QED
    BY <1>3, <2>3 DEF ClockInv
<1> QED
  BY <1>4, <1>5

\* The invariant tells when the alarm fires.
LEMMA ClockOnTime == Clock!ClockAssumption /\ ClockInv => Clock!AlarmOnTime
<1> SUFFICES ASSUME Clock!ClockAssumption, ClockInv PROVE Clock!AlarmOnTime
  OBVIOUS
<1> USE DEF Clock!ClockAssumption
<1>1. Clock!Ticked = IF nticks + 1 < Span THEN nticks + 1 ELSE 0
  BY Reduce DEF Clock!Ticked, ClockInv, Clock!TypeOK
<1> QED
  BY <1>1 DEF ClockInv, Clock!TypeOK, Remaining, Clock!AlarmOnTime, Clock!Fires, Clock!HeldBack

\* A tick preserves the invariant, whether it calls the alarm, wraps, or both.
LEMMA ClockTick == Clock!ClockAssumption /\ ClockInv /\ Clock!alt_tick => ClockInv'
<1> SUFFICES ASSUME Clock!ClockAssumption, ClockInv, Clock!alt_tick PROVE ClockInv'
  OBVIOUS
<1> USE DEF Clock!ClockAssumption
<1>1. nticks' = IF nticks + 1 < Span THEN nticks + 1 ELSE 0
  BY Reduce DEF Clock!Ticked, ClockInv, Clock!TypeOK, Clock!alt_tick
<1>2. CASE Clock!Fires
  <2>1. since + 1 = Period
    BY <1>2, ClockOnTime DEF Clock!AlarmOnTime
  <2>2. time = nticks'
    BY <1>1, <1>2, <2>1 DEF ClockInv, Clock!TypeOK, Remaining, Clock!Fires, Clock!HeldBack, Clock!Ticked, Clock!alt_tick
  <2>3. time' = IF time + Period < Span THEN time + Period ELSE time + Period - Span
    BY <1>2, Reduce DEF ClockInv, Clock!TypeOK, Clock!alt_tick
  <2>4. rollover' = (time' < nticks') /\ since' = 0
    BY <1>2 DEF Clock!alt_tick
  <2>5. Clock!TypeOK'
    BY <1>1, <2>2, <2>3, <2>4 DEF ClockInv, Clock!TypeOK
  <2>8. since' = 0 /\ time \in 0..Span - 1 /\ Span \in Int /\ Period \in Int
    BY <2>4 DEF ClockInv, Clock!TypeOK
  <2>6. CASE rollover'
    <3>1. Remaining' = time' + Span - time
      BY <2>2, <2>6, Zenon DEF Remaining
    <3>2. time' < time
      BY <2>2, <2>4, <2>6
    <3>4. time' = time + Period - Span
      BY <2>3, <2>8, <3>2
    <3>5. Remaining' = Period
      BY <2>8, <3>1, <3>4
    <3>3. Remaining' = Period - since'
      BY <2>8, <3>5
    <3> QED
      BY <2>5, <3>3 DEF ClockInv
  <2>7. CASE ~rollover'
    <3>1. Remaining' = time' - time
      BY <2>2, <2>7, Zenon DEF Remaining
    <3>2. ~ (time' < time)
      BY <2>2, <2>4, <2>7
    <3>4. time' = time + Period
      BY <2>3, <2>8, <3>2
    <3>5. Remaining' = Period
      BY <2>8, <3>1, <3>4
    <3>3. Remaining' = Period - since'
      BY <2>8, <3>5
    <3> QED
      BY <2>5, <3>3 DEF ClockInv
  <2> QED
    BY <2>6, <2>7
<1>3. CASE ~Clock!Fires
  <2>1. since + 1 < Period
    BY <1>3, ClockOnTime DEF Clock!AlarmOnTime, ClockInv, Clock!TypeOK
  <2>2. time' = time /\ rollover' = Clock!HeldBack /\ since' = since + 1
    BY <1>3 DEF Clock!alt_tick
  <2>3. Clock!Ticked = nticks'
    BY DEF Clock!alt_tick
  <2>4. Clock!TypeOK'
    BY <1>1, <2>1, <2>2, <2>3 DEF ClockInv, Clock!TypeOK, Clock!HeldBack
  <2>5. CASE Clock!HeldBack
    <3>1. rollover /\ nticks' /= 0
      BY <2>3, <2>5, Zenon DEF Clock!HeldBack
    <3>2. Remaining = time + Span - nticks /\ Remaining' = time' + Span - nticks'
      BY <2>2, <2>5, <3>1, Zenon DEF Remaining
    <3>3. Remaining' = Period - since'
      BY <1>1, <2>2, <3>1, <3>2 DEF ClockInv, Clock!TypeOK
    <3> QED
      BY <2>4, <3>3 DEF ClockInv
  <2>6. CASE ~Clock!HeldBack
    <3>1. Remaining' = time' - nticks'
      BY <2>2, <2>6, Zenon DEF Remaining
    <3>2. CASE rollover
      <4>1. nticks' = 0 /\ Remaining = time + Span - nticks
        BY <2>3, <2>6, <3>2, Zenon DEF Clock!HeldBack, Remaining
      <4>2. Remaining' = Period - since'
        BY <1>1, <2>2, <3>1, <4>1 DEF ClockInv, Clock!TypeOK
      <4> QED
        BY <2>4, <4>2 DEF ClockInv
    <3>3. CASE ~rollover
      <4>1. Remaining = time - nticks
        BY <3>3, Zenon DEF Remaining
      <4>2. Remaining' = Period - since'
        BY <1>1, <2>1, <2>2, <3>1, <4>1 DEF ClockInv, Clock!TypeOK
      <4> QED
        BY <2>4, <4>2 DEF ClockInv
    <3> QED
      BY <3>2, <3>3
  <2> QED
    BY <2>5, <2>6
<1> QED
  BY <1>2, <1>3

\* The clock alone keeps its invariant.
THEOREM ClockAlone == Clock!Spec => []ClockInv
<1>0. Clock!ClockAssumption
  BY ConsoleAssumption DEF Clock!ClockAssumption
<1>1. Clock!Init => ClockInv
  BY <1>0, ClockInit
<1>2. ClockInv /\ Clock!alt_tick => ClockInv'
  BY <1>0, ClockTick
<1>3. ClockInv /\ UNCHANGED Clock!vars => ClockInv'
  BY DEF ClockInv, Clock!TypeOK, Remaining, Clock!vars
<1> QED
  BY <1>1, <1>2, <1>3, PTL DEF Clock!Spec

\* The clock alone calls the alarm exactly when its period is over, whatever
\* the counter said when it was started (alt_tick.c:86-147).
THEOREM ClockCorrect == Clock!Spec => []Clock!AlarmOnTime
<1>1. ClockInv => Clock!AlarmOnTime
  BY ConsoleAssumption, ClockOnTime DEF Clock!ClockAssumption
<1> QED
  BY <1>1, ClockAlone, PTL

\* The invariant of the clock holds in the console.
THEOREM ClockInvariant == Spec => []ClockInv
<1>0. Clock!ClockAssumption
  BY ConsoleAssumption DEF Clock!ClockAssumption
<1>1. Init => ClockInv
  BY <1>0, ClockInit DEF Init
<1>2. ClockInv /\ [Next]_vars => ClockInv'
  <2> SUFFICES ASSUME ClockInv, [Next]_vars PROVE ClockInv'
    OBVIOUS
  <2>1. CASE Tick
    BY <1>0, <2>1, ClockTick DEF Tick
  <2>2. CASE ~Tick
    <3>1. UNCHANGED <<nticks, time, rollover, since>>
      BY <2>2 DEF vars, clock, Next, Writer, Isr, Enter, Again, Control, Call, Look, Copy,
         Publish, Kick, Wait, Judge, Receive, ReceiveFull, Send, SendEnd, HostPoll, HostType
    <3> QED
      BY <3>1 DEF ClockInv, Clock!TypeOK, Remaining
  <2> QED
    BY <2>1, <2>2
<1> QED
  BY <1>1, <1>2, PTL DEF Spec

\* The alarm that watches the host comes every second (alt_tick.c:86-147).
THEOREM AlarmCorrect == Spec => []AlarmOnTime
<1>1. ClockInv => AlarmOnTime
  BY ConsoleAssumption, ClockOnTime DEF AlarmOnTime, Clock!ClockAssumption
<1> QED
  BY <1>1, ClockInvariant, PTL

\* Every variable has its type, those of the clock included.
THEOREM TypeCorrect == Spec => []TypeOK
<1>1. IInv /\ Others /\ ClockInv => TypeOK
  <2> SUFFICES ASSUME IInv, Others, ClockInv PROVE TypeOK
    OBVIOUS
  <2>1. Clock!TypeOK
    BY DEF ClockInv
  <2>2. Len(wfifo) <= Depth
    BY Numbers, ConsoleAssumption DEF IInv, FifoFits, Types
  <2> QED
    BY <2>1, <2>2 DEF IInv, Types, Others, TypeOK
<1> QED
  BY <1>1, InvariantHolds, OthersInit, OthersStep, ClockInvariant, PTL DEF Spec
=============================================================================
