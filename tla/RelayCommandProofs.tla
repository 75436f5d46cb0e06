-------------------------- MODULE RelayCommandProofs --------------------------
(***************************************************************************)
(* What the commands for the first fifteen channels do, worked out bit by  *)
(* bit: the power of a channel is one bit of sixteen, and the frame the    *)
(* relay receives has it where the relay looks for it.                     *)
(***************************************************************************)
EXTENDS RelayCommand, TLAPS

Power == <<1, 2, 4, 8, 16, 32, 64, 128, 256, 512, 1024, 2048, 4096, 8192, 16384, 32768>>

LEMMA PowersOfTwo == \A i \in 1 .. 16 : 2 ^ (i - 1) = Power[i]
<1> DEFINE P == [n \in 0 .. 15 |-> 2 ^ n]
<1>1. /\ P[0] = 1 /\ P[1] = 2 /\ P[2] = 4 /\ P[3] = 8 /\ P[4] = 16 /\ P[5] = 32
      /\ P[6] = 64 /\ P[7] = 128 /\ P[8] = 256 /\ P[9] = 512 /\ P[10] = 1024
      /\ P[11] = 2048 /\ P[12] = 4096 /\ P[13] = 8192 /\ P[14] = 16384 /\ P[15] = 32768
  OBVIOUS
<1>2. \A i \in 1 .. 16 : i - 1 \in 0 .. 15
  OBVIOUS
<1>3. \A i \in 1 .. 16 : P[i - 1] = 2 ^ (i - 1)
  BY <1>2, Zenon
<1> HIDE DEF P
<1>4. ASSUME NEW i \in 1 .. 16
      PROVE  P[i - 1] = Power[i]
  <2>1. i \in {1, 2, 3, 4, 5, 6, 7, 8, 9, 10, 11, 12, 13, 14, 15, 16}
    OBVIOUS
  <2> QED
    BY <1>1, <2>1 DEF Power
<1> QED
  BY <1>3, <1>4, Zenon

\* A word that is the power of a channel has the bit of that channel and no other.
LEMMA OneBit ==
    ASSUME NEW c \in 1 .. 16, NEW i \in 1 .. 16
    PROVE  (Power[c] \div Power[i]) % 2 = 1 <=> i = c
<1>1. c \in {1, 2, 3, 4, 5, 6, 7, 8, 9, 10, 11, 12, 13, 14, 15, 16}
  OBVIOUS
<1>2. i \in {1, 2, 3, 4, 5, 6, 7, 8, 9, 10, 11, 12, 13, 14, 15, 16}
  OBVIOUS
<1> QED
  BY <1>1, <1>2 DEF Power

LEMMA PowerType ==
    \A c \in 1 .. 16 : Power[c] \in Nat /\ Power[c] > 0 /\ (c < 16 => Power[c] < 32768)
<1> SUFFICES ASSUME NEW c \in 1 .. 16
             PROVE  Power[c] \in Nat /\ Power[c] > 0 /\ (c < 16 => Power[c] < 32768)
  OBVIOUS
<1>1. c \in {1, 2, 3, 4, 5, 6, 7, 8, 9, 10, 11, 12, 13, 14, 15, 16}
  OBVIOUS
<1> QED
  BY <1>1 DEF Power

LEMMA WordBits ==
    ASSUME NEW hi, NEW lo, NEW d, hi * 256 + lo = d
    PROVE  Word(hi, lo) = {i \in 1 .. 16 : (d \div Power[i]) % 2 = 1}
<1>1. Word(hi, lo) = {i \in 1 .. 16 : (d \div 2 ^ (i - 1)) % 2 = 1}
  BY Zenon DEF Word
<1> QED
  BY <1>1, PowersOfTwo, Zenon

\* The two bytes of a word are put together again.
LEMMA WordOfBytes ==
    ASSUME NEW d \in Nat, d < 32768
    PROVE  Word(UnsignedChar(d \div 256), UnsignedChar(d)) =
               {i \in 1 .. 16 : (d \div Power[i]) % 2 = 1}
<1>1. d \div 256 \in Nat /\ d \div 256 < 256
  OBVIOUS
<1>2. (d \div 256) % 256 = d \div 256
  BY <1>1
<1>3. d = 256 * (d \div 256) + (d % 256)
  OBVIOUS
<1>4. UnsignedChar(d \div 256) * 256 + UnsignedChar(d) = d
  BY <1>1, <1>2, <1>3 DEF UnsignedChar
<1> QED
  BY <1>4, WordBits

LEMMA WordOfPower ==
    ASSUME NEW c \in 1 .. 15
    PROVE  Word(UnsignedChar(Power[c] \div 256), UnsignedChar(Power[c])) = {c}
<1>1. Power[c] \in Nat /\ Power[c] < 32768
  BY PowerType
<1>2. \A i \in 1 .. 16 : (Power[c] \div Power[i]) % 2 = 1 <=> i = c
  BY OneBit
<1>3. Word(UnsignedChar(Power[c] \div 256), UnsignedChar(Power[c])) =
         {i \in 1 .. 16 : (Power[c] \div Power[i]) % 2 = 1}
  BY <1>1, WordOfBytes
<1>4. {i \in 1 .. 16 : (Power[c] \div Power[i]) % 2 = 1} = {c}
  BY <1>2
<1> QED
  BY <1>3, <1>4

LEMMA WordOfZero == Word(UnsignedChar(0 \div 256), UnsignedChar(0)) = {}
<1>1. \A i \in 1 .. 16 : Power[i] \in Nat /\ Power[i] > 0
  BY PowerType
<1>2. \A i \in 1 .. 16 : (0 \div Power[i]) % 2 # 1
  BY <1>1
<1> QED
  BY <1>2, WordOfBytes

\* A frame carries both of its words, and its sums are right.
LEMMA FrameCarries ==
    ASSUME NEW d \in Nat, NEW ce \in Nat
    PROVE  /\ Sound(Frame(d, ce))
           /\ Selected(Frame(d, ce)) = Word(UnsignedChar(ce \div 256), UnsignedChar(ce))
           /\ Opened(Frame(d, ce)) =
                 Selected(Frame(d, ce)) \cap Word(UnsignedChar(d \div 256), UnsignedChar(d))
<1> DEFINE D1 == UnsignedChar(d \div 256)
           D0 == UnsignedChar(d)
           CE1 == UnsignedChar(ce \div 256)
           CE0 == UnsignedChar(ce)
           sum == 161 + 1 + D1 + D0 + CE1 + CE0
           frame == Frame(d, ce)
<1>1. frame = <<204, 221, 161, 1, D1, D0, CE1, CE0, UnsignedChar(sum),
                UnsignedChar(UnsignedChar(sum) + UnsignedChar(sum))>>
  BY DEF Frame
<1>2. D1 \in Nat /\ D0 \in Nat /\ CE1 \in Nat /\ CE0 \in Nat
  BY DEF UnsignedChar
<1> HIDE DEF D1, D0, CE1, CE0, frame
<1>3. UnsignedChar(sum) \in Nat
  BY <1>2 DEF UnsignedChar
<1>4. /\ frame[3] = 161 /\ frame[4] = 1 /\ frame[5] = D1 /\ frame[6] = D0
      /\ frame[7] = CE1 /\ frame[8] = CE0 /\ frame[9] = UnsignedChar(sum)
      /\ frame[10] = UnsignedChar(UnsignedChar(sum) + UnsignedChar(sum))
  BY <1>1
<1>5. UnsignedChar(sum) + UnsignedChar(sum) = 2 * UnsignedChar(sum)
  BY <1>3
<1>6. Sound(frame)
  BY <1>4, <1>5 DEF Sound
<1>7. Selected(frame) = Word(CE1, CE0) /\ Opened(frame) = Selected(frame) \cap Word(D1, D0)
  BY <1>4 DEF Selected, Opened
<1> QED
  BY <1>6, <1>7 DEF frame, D1, D0, CE1, CE0

LEMMA PowBelowSixteen ==
    ASSUME NEW channel \in 1 .. 15
    PROVE  PowOfChannel(channel) = {Power[channel]}
<1>1. ~(channel < 1) /\ channel < 16 /\ channel \in 1 .. 16
  OBVIOUS
<1>2. 2 ^ (channel - 1) = Power[channel]
  BY <1>1, PowersOfTwo, Zenon
<1> DEFINE power == 2 ^ (channel - 1)
<1>3. PowOfChannel(channel) = {power}
  BY <1>1 DEF PowOfChannel
<1> QED
  BY <1>2, <1>3, Zenon

\* Whatever the build, the commands for one of the first fifteen channels are sound;
\* the one that opens moves that door alone, the one that closes selects it alone and
\* opens nothing.
THEOREM CommandsMoveOwnDoor ==
    ASSUME NEW channel \in 1 .. 15
    PROVE  /\ \A frame \in make_open_command(channel) :
                 Sound(frame) /\ Opened(frame) = {channel}
           /\ \A frame \in make_close_command(channel) :
                 Sound(frame) /\ Selected(frame) = {channel} /\ Opened(frame) = {}
<1>1. Short(channel) = channel
  BY DEF Short
<1>2. PowOfChannel(channel) = {Power[channel]}
  BY PowBelowSixteen
<1>3. /\ make_open_command(channel) = {Frame(Power[channel], Power[channel])}
      /\ make_close_command(channel) = {Frame(0, Power[channel])}
  BY <1>1, <1>2 DEF make_open_command, make_close_command
<1>4. Power[channel] \in Nat
  BY PowerType
<1> DEFINE p == Power[channel]
<1>5. Word(UnsignedChar(p \div 256), UnsignedChar(p)) = {channel}
  BY WordOfPower
<1> HIDE DEF p
<1>6. ASSUME NEW frame \in make_open_command(channel)
      PROVE  Sound(frame) /\ Opened(frame) = {channel}
  <2>1. p \in Nat /\ frame = Frame(p, p)
    BY <1>3, <1>4 DEF p
  <2>2. /\ Sound(Frame(p, p))
        /\ Opened(Frame(p, p)) = Selected(Frame(p, p)) \cap {channel}
        /\ Selected(Frame(p, p)) = {channel}
    BY <1>5, <2>1, FrameCarries
  <2> QED
    BY <2>1, <2>2
<1>7. ASSUME NEW frame \in make_close_command(channel)
      PROVE  Sound(frame) /\ Selected(frame) = {channel} /\ Opened(frame) = {}
  <2>1. p \in Nat /\ 0 \in Nat /\ frame = Frame(0, p)
    BY <1>3, <1>4 DEF p
  <2>2. /\ Sound(Frame(0, p))
        /\ Opened(Frame(0, p)) =
              Selected(Frame(0, p)) \cap Word(UnsignedChar(0 \div 256), UnsignedChar(0))
        /\ Selected(Frame(0, p)) = {channel}
    BY <1>5, <2>1, FrameCarries
  <2> QED
    BY <2>1, <2>2, WordOfZero
<1> QED
  BY <1>6, <1>7
=============================================================================
