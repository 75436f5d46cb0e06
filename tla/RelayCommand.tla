---------------------------- MODULE RelayCommand -----------------------------
(***************************************************************************)
(* The commands a controller sends to the relay: ten bytes, the channel as *)
(* a bit of a 16-bit word.  Integers keep their width here.                *)
(***************************************************************************)
EXTENDS Integers

WideMutant(n) == n
UnsignedShort(n) == n % 65536
Short(n) == IF n % 65536 < 32768 THEN n % 65536 ELSE (n % 65536) - 65536
UnsignedChar(n) == n % 256

\* int16_t d = pow(2, channel - 1), for a short channel.  A power below one loses
\* its fraction; one that does not fit in 16 bits is undefined behaviour: builds
\* have been seen to keep the low bits, to saturate and to yield zero.
PowOfChannelMutant(channel) == {IF channel < 0 THEN 0 ELSE 2 ^ channel}
PowOfChannel(channel) ==
    IF channel < 1 THEN {0}
    ELSE IF channel < 16 THEN {2 ^ (channel - 1)}
    ELSE {IF channel = 16 THEN -32768 ELSE 0, 32767, 0}

\* H1, H2, W, Address, D1, D0, CE1, CE0, ADD1, ADD2.  A shift of a negative
\* number to the right keeps its sign, as \div does.
Frame(D1D0, CE1CE0) ==
    LET D1   == UnsignedChar(D1D0 \div 256)
        D0   == UnsignedChar(D1D0)
        CE1  == UnsignedChar(CE1CE0 \div 256)
        CE0  == UnsignedChar(CE1CE0)
        ADD1 == UnsignedChar(161 + 1 + D1 + D0 + CE1 + CE0)
    IN <<204, 221, 161, 1, D1, D0, CE1, CE0, ADD1, UnsignedChar(ADD1 + ADD1)>>

make_open_command(channel)  == {Frame(d, d) : d \in PowOfChannel(Short(channel))}
make_close_command(channel) == {Frame(0, d) : d \in PowOfChannel(Short(channel))}

\* What the relay does: CE selects the channels, D says which of them are to open.
Word(hi, lo) == {i \in 1 .. 16 : ((hi * 256 + lo) \div 2 ^ (i - 1)) % 2 = 1}
Selected(frame) == Word(frame[7], frame[8])
Opened(frame)   == Selected(frame) \cap Word(frame[5], frame[6])
Sound(frame)    == /\ frame[9] = UnsignedChar(frame[3] + frame[4] + frame[5] + frame[6]
                                              + frame[7] + frame[8])
                   /\ frame[10] = UnsignedChar(2 * frame[9])
=============================================================================
