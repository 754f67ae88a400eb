-------------------------------- MODULE Hdlc --------------------------------
(***************************************************************************)
(* HDLC framing in software (layer1/i4b_hdlc.h, i4b_hdlc.c, and the        *)
(* filters of layer1/ihfc3/i4b_filter.h): the encoder, the line and the    *)
(* decoder, one byte per step. The encoder and the decoder treat eight     *)
(* bits at a time and carry what is left over from byte to byte, on a line *)
(* whose byte boundaries need not be those of the sender.                  *)
(*                                                                         *)
(* A receiver that looks at one bit at a time, as a textbook has it, hears *)
(* the same line; the decoder is compared with it.                         *)
(***************************************************************************)
EXTENDS Integers, Sequences, SequencesExt, Bitwise

CONSTANTS
  Frames,      \* what the upper layers hand over
  MaxFrames,   \* bound on the frames of a behaviour
  MaxLen,      \* BCH_MAX_DATALEN
  Skews,       \* offsets of the receiver's byte boundaries, of 0..7
  NoiseBytes   \* what a disturbed byte becomes

ASSUME HdlcAssumption ==
  /\ Frames \subseteq Seq(0..255) /\ Skews \subseteq 0..7 /\ NoiseBytes \subseteq 0..255
  /\ MaxFrames \in Nat /\ MaxLen \in Nat \ {0}

VARIABLES
  dchan,   \* encoding of the D-channel instead of the default one
  skew,    \* offset of the receiver
  queue,   \* frames not yet fetched by the encoder
  sent,    \* frames fetched by the encoder
  enc,     \* hdlc.* and mbuf of the transmit FIFO
  line,    \* the last byte on the line
  quiet,   \* bytes repeated by the hardware since the encoder ran out of data
  dec,     \* hdlc.*, mbuf and mbuf_rem_length of the receive FIFO
  got,     \* frames handed to the upper layers
  text,    \* the receiver of the textbook
  noisy,   \* a byte was disturbed
  failed   \* an allocation failed

hdVars == <<dchan, skew, queue, sent, enc, line, quiet, dec, got, text, noisy, failed>>

Link == INSTANCE FrameLink
          WITH accepted <- sent \o queue, arrived <- got, clean <- ~noisy

Lo8(x) == x % 256
Bit(x, n) == (x \div 2^n) % 2 = 1
U16(x) == x % 2^16

-----------------------------------------------------------------------------
(* The tables *)

HDLC_FCS_TAB ==
  LET Shift(x) == IF x % 2 = 1 THEN (x \div 2) ^^ 33800 ELSE x \div 2
  IN [b \in 0..255 |-> FoldLeft(LAMBDA x, i : Shift(x), b, <<1, 2, 3, 4, 5, 6, 7, 8>>)]

\* Set bits at the beginning (least significant) and at the end of a byte
LowOnes(b) == CHOOSE n \in 0..8 : b % 2^n = 2^n - 1 /\ (n < 8 => ~Bit(b, n))
HighOnes(b) == CHOOSE n \in 0..8 : /\ b \div 2^(8 - n) = 2^n - 1
                                   /\ n < 8 => ~Bit(b, 7 - n)

\* Bits 4..7 flag the bytes that are special; 0x7e has 8 in bits 8..11.
Special(b) ==
  CASE b \in {62, 190} -> 96 [] b \in {124, 125} -> 160 [] b = 126 -> 1888
    [] b \in {252, 253} -> 128 [] b = 254 -> 80 [] OTHER -> 0

HDLC_BIT_TAB ==
  [b \in 0..255 |->
     HighOnes(b) * 2^12 + (LowOnes(b) + 1) * 2^8 + LowOnes(b) + Special(b)]

Crc(crc, b) == HDLC_FCS_TAB[Lo8(crc) ^^ b] ^^ (crc \div 256)

-----------------------------------------------------------------------------
(* HDLC_ENCODE: the byte is in the low bits of tmp; next is what gfr finds. *)

\* j3: a byte that is not stuffed
Raw(e, b) == [e EXCEPT !.tmp = @ | (b * 2^(e.blevel \div 256))]

\* j2: a byte with a zero after every five set bits
Stuff(e, b) ==
  LET ib0  == U16((e.ib \div 2^12) + HDLC_BIT_TAB[b])
      msb  == Bit(ib0, 6) \/ Bit(ib0, 7)
      b1   == CASE Bit(ib0, 7) -> b + (b \div 128) * 128
                [] msb /\ ~Bit(ib0, 7) -> b + (b \div 64) * 64
                [] OTHER -> b
      ib1  == IF msb /\ ib0 >= 20480 THEN ib0 - 20480 ELSE ib0
      ib2  == ib1 - Lo8(ib1) + (ib1 % 16)
      low  == Lo8(ib2)
      sh   == (ib2 - (ib2 \div 256) + 1) % 8
      Above(x, ones) == x - (x % ((ones \div 2^sh) + 1))
      b2   == IF low >= 5 THEN b1 + Above(b1, 31) ELSE b1
      b3   == IF low >= 10 THEN b2 + Above(b2, 2047) ELSE b2
      ib3  == IF low >= 5 /\ Bit(ib2, 15)
              THEN U16((low - (IF low >= 10 THEN 10 ELSE 5)) * 2^12) ELSE ib2
      ins  == (IF msb THEN 1 ELSE 0) + (IF low >= 5 THEN 1 ELSE 0)
                + (IF low >= 10 THEN 1 ELSE 0)
      at   == e.blevel \div 256
  IN IF Lo8(ib0) < 5 THEN Raw([e EXCEPT !.ib = ib0], b)
     ELSE [e EXCEPT !.tmp = @ | (b3 * 2^at), !.ib = ib3,
                    !.blevel = (at + ins) * 256 + ins]

\* j1: the next byte of the frame
Data(e) ==
  Stuff([e EXCEPT !.data = Tail(@), !.crc = Crc(@, Head(e.data))], Head(e.data))

\* STUFF_XX011111: five set bits before a flag
FlagSeq(e) ==
  LET ib == e.ib \div 2^12 IN
  Raw([e EXCEPT !.ib = ib, !.blevel = IF ib = 5 THEN @ + 256 ELSE @], 126)

\* "CRC (lsb's)" and "CRC (msb's)"
CrcLow(e) == LET crc == 65535 - e.crc IN Stuff([e EXCEPT !.crc = crc], Lo8(crc))
CrcHigh(e) == Stuff(e, e.crc \div 256)

\* The switch of the default encoding. A frame without data counts as no frame.
EncodeDefault(e, next) ==
  LET flag == (e.flag + 1) % 256
      f == [e EXCEPT !.flag = flag] IN
  CASE flag \in {1, 2} -> FlagSeq(f)
    [] flag = 3 -> IF next = <<>> THEN Raw([f EXCEPT !.flag = 2], 126)
                   ELSE Data([f EXCEPT !.crc = 65535, !.ib = 0, !.data = next])
    [] flag = 4 -> CrcLow(f)
    [] flag = 5 -> CrcHigh([f EXCEPT !.flag = 1])
    [] OTHER -> Raw([f EXCEPT !.tmp = 0, !.blevel = 0, !.ib = 0], 255)

\* The switch of the D-channel: two idle bytes after a flag
EncodeDchan(e, next) ==
  LET flag == (e.flag + 1) % 256
      f == [e EXCEPT !.flag = flag] IN
  CASE flag = 3 -> IF next = <<>> THEN Raw([f EXCEPT !.flag = 2], 255)
                   ELSE [f EXCEPT !.crc = 65535, !.ib = 0, !.data = next,
                                  !.tmp = 32511, !.blevel = 2048]
    [] flag = 4 -> CrcLow(f)
    [] flag = 5 -> CrcHigh(f)
    [] flag = 6 -> FlagSeq([f EXCEPT !.flag = 0])
    [] OTHER -> Raw(f, 255)

\* gfr is reached
Fetches == enc.blevel < 2048 /\ enc.data = <<>> /\ enc.flag = 2

HDLC_ENCODE(next) ==
  CASE enc.blevel >= 2048 -> [enc EXCEPT !.blevel = @ - 2048]
    [] enc.blevel < 2048 /\ enc.data # <<>> -> Data(enc)
    [] OTHER -> IF dchan THEN EncodeDchan(enc, next) ELSE EncodeDefault(enc, next)

-----------------------------------------------------------------------------
(* HDLC_DECODE, with the commands of rx_hdlc_emulation *)

Nothing == <<>>

\* cfr: the frame, if it is one, without its CRC
Complete(d) ==
  LET n == U16(MaxLen - (d.len + ((4 - d.flag) % 4))) IN
  IF n \in 1..MaxLen /\ d.crc = 61624 THEN <<SubSeq(d.buf, 1, n)>> ELSE Nothing

\* Mutant: a flag does not end the frame before it.
BugAtFlag(d, b, ib) ==
  LET at == (ib \div 256) % 16 IN
  [d |-> [d EXCEPT !.flag = IF d.flag >= 2 THEN d.flag ELSE 1, !.tmp = Lo8(b) \div 2^at,
                   !.blevel = (8 - at) % 256, !.ib = ib \div 2^12],
   out |-> IF d.flag >= 2 THEN Complete(d) ELSE Nothing]

\* j0 and j00: a flag ends in the byte
AtFlag(d, b, ib) ==
  LET at == (ib \div 256) % 16 IN
  [d |-> [d EXCEPT !.flag = 1, !.len = 0, !.buf = Nothing, !.tmp = Lo8(b) \div 2^at,
                   !.blevel = (8 - at) % 256, !.ib = ib \div 2^12],
   out |-> IF d.flag >= 2 THEN Complete(d) ELSE Nothing]

\* Mutant: every run of seven set bits is an abort.
BugAtAbort(d, b, ib) ==
  [d |-> [d EXCEPT !.flag = 0, !.ib = ib \div 2^12, !.buf = Nothing,
                   !.len = IF d.flag >= 2 THEN 0 ELSE @],
   out |-> Nothing]

\* Seven set bits or more: rab, or a closing flag that an idle line follows
AtAbort(d, b, ib) ==
  IF d.flag >= 2 /\ Lo8(ib) = 22 THEN AtFlag(d, b, ib)
  ELSE [d |-> [d EXCEPT !.flag = 0, !.ib = ib \div 2^12, !.buf = Nothing,
                        !.len = IF d.flag >= 2 THEN 0 ELSE @],
        out |-> Nothing]

\* The flag after eight bits: 0 is hunt mode, 2 a new frame (nfr), 3 and 4 are the
\* CRC after a full buffer; one byte more is rdo.
NextFlag(d, memory) ==
  CASE d.len > 0 -> d.flag
    [] d.len = 0 /\ d.flag \in {0, 4} -> 0
    [] d.len = 0 /\ d.flag = 1 -> IF memory THEN 2 ELSE 0
    [] OTHER -> (d.flag + 1) % 256

\* j3, j4, j5: eight bits are complete. While the decoder hunts for a flag the
\* count of the shift may be any number, and nothing reads the result.
Store(d, b, ib, blevel, memory) ==
  LET tmp   == IF d.flag = 0 THEN 0 ELSE U16(d.tmp | (Lo8(b) * 2^blevel))
      flag  == NextFlag(d, memory)
      new   == d.len = 0 /\ d.flag = 1
      len   == IF new /\ memory THEN MaxLen ELSE d.len
      e     == [d EXCEPT !.blevel = blevel, !.ib = ib \div 2^12, !.tmp = tmp \div 256,
                         !.flag = flag, !.crc = Crc(IF new THEN 65535 ELSE @, Lo8(tmp))]
  IN [d |-> CASE len > 0 -> [e EXCEPT !.len = len - 1, !.buf = Append(@, Lo8(tmp))]
              [] len = 0 /\ flag = 0 /\ ~new -> [e EXCEPT !.buf = Nothing, !.crc = d.crc]
              [] OTHER -> e,
      out |-> Nothing]

HDLC_DECODE(d, b, memory) ==
  LET ib0 == U16(d.ib + HDLC_BIT_TAB[b])
      msb == Bit(ib0, 5)
      ib1 == IF msb THEN U16(ib0 + 256) ELSE ib0
      b1  == IF msb THEN b + (b % 128) ELSE b
      b2  == IF msb /\ (Bit(ib1, 2) \/ Bit(ib1, 3)) THEN b1 | 1 ELSE b1
      bl1 == IF msb THEN (d.blevel - 1) % 256 ELSE d.blevel
      ib2 == ib1 - Lo8(ib1) + (ib1 % 32)
      low == Lo8(ib2)
      b3  == IF low = 5 THEN ((b2 | (b2 + 1)) \div 2) * 2 ELSE b2
      bl2 == IF low = 5 THEN (bl1 - 1) % 256 ELSE bl1
  IN CASE Lo8(ib0) < 5 -> Store(d, b, ib0, d.blevel, memory)
       [] Lo8(ib0) >= 5 /\ msb /\ b = 126 -> AtFlag(d, b, ib0)
       [] OTHER ->
            CASE low = 6 -> AtFlag(d, b2, ib2)
              [] low >= 7 -> AtAbort([d EXCEPT !.blevel = bl1], b2, ib2)
              [] low < 6 /\ bl2 > 7 ->
                   [d |-> [d EXCEPT !.blevel = bl2 % 8, !.ib = ib2 \div 2^12,
                                    !.tmp = @ | (Lo8(b3) \div (IF bl2 % 2 = 1 THEN 2 ELSE 4))],
                    out |-> Nothing]
              [] OTHER -> Store(d, b3, ib2, bl2, memory)

\* nfr is reached: a buffer is needed. It is known from the outcome.
NeedsMemory(b) == HDLC_DECODE(dec, b, TRUE).d # HDLC_DECODE(dec, b, FALSE).d

-----------------------------------------------------------------------------
(* The receiver of the textbook, one bit at a time *)

ByteAt(bits, k) == FoldLeft(LAMBDA v, i : v + bits[8 * (k - 1) + i] * 2^(i - 1), 0,
                            <<1, 2, 3, 4, 5, 6, 7, 8>>)

\* The bits before a closing flag, its first seven included
Read(bits) ==
  LET n == Len(bits) - 7
      bytes == [k \in 1..(n \div 8) |-> ByteAt(bits, k)]
  IN IF /\ n > 16 /\ n % 8 = 0 /\ n \div 8 <= MaxLen + 2
        /\ FoldLeft(Crc, 65535, bytes) = 61624
     THEN <<SubSeq(bytes, 1, (n \div 8) - 2)>> ELSE Nothing

HearBit(r, bit) ==
  CASE bit = 1 ->
         IF r.ones >= 6 THEN [r EXCEPT !.ones = 7, !.on = FALSE, !.bits = Nothing]
         ELSE [r EXCEPT !.ones = @ + 1, !.bits = IF r.on THEN Append(@, 1) ELSE @]
    [] bit = 0 /\ r.ones = 6 ->
         [ones |-> 0, on |-> TRUE, bits |-> Nothing,
          got |-> IF r.on THEN r.got \o Read(r.bits) ELSE r.got]
    [] bit = 0 /\ r.ones = 5 -> [r EXCEPT !.ones = 0]
    [] OTHER -> [r EXCEPT !.ones = 0, !.bits = IF r.on THEN Append(@, 0) ELSE @]

HearByte(r, b) ==
  FoldLeft(LAMBDA s, i : HearBit(s, (b \div 2^i) % 2), r, <<0, 1, 2, 3, 4, 5, 6, 7>>)

-----------------------------------------------------------------------------
(* The line *)

HdInit ==
  /\ dchan \in BOOLEAN /\ skew \in Skews
  /\ queue = <<>> /\ sent = <<>> /\ got = <<>> /\ line = 255 /\ quiet = 0
  /\ enc = [flag |-> 0, blevel |-> 0, crc |-> 0, ib |-> 0, tmp |-> 0, data |-> <<>>]
  /\ dec = [flag |-> 0, blevel |-> 0, crc |-> 0, ib |-> 0, tmp |-> 0, len |-> 0,
            buf |-> Nothing]
  /\ text = [ones |-> 7, on |-> FALSE, bits |-> Nothing, got |-> <<>>]
  /\ noisy = FALSE /\ failed = FALSE

\* The line carries the byte out; the receiver's next byte straddles two of them.
Carry(out) ==
  LET b == ((out * 2^skew) % 256) + (line \div 2^(8 - skew)) IN
  \E memory \in IF failed THEN {TRUE} ELSE BOOLEAN :
    LET r == HDLC_DECODE(dec, b, memory) IN
    /\ memory \/ NeedsMemory(b)
    /\ failed' = (failed \/ ~memory)
    /\ dec' = r.d /\ got' = got \o r.out
    /\ text' = HearByte(text, b) /\ line' = out

\* The queue is only looked at by gfr, so it is only filled there.
Submit(f) ==
  /\ Fetches /\ Len(queue) + Len(sent) < MaxFrames
  /\ queue' = Append(queue, f)
  /\ UNCHANGED <<dchan, skew, sent, enc, line, quiet, dec, got, text, noisy, failed>>

\* One byte of tx_hdlc_emulation or tx_hdlc_emulation_dchan
Transmit ==
  LET take == Fetches /\ queue # <<>>
      next == IF take THEN Head(queue) ELSE <<>>
      e == HDLC_ENCODE(next) IN
  /\ enc' = [e EXCEPT !.tmp = @ \div 256]
  /\ queue' = IF take THEN Tail(queue) ELSE queue
  /\ sent' = IF take THEN Append(sent, next) ELSE sent
  /\ quiet' = IF Fetches /\ ~take THEN 1 ELSE 0
  /\ \/ Carry(Lo8(e.tmp)) /\ UNCHANGED noisy
     \/ ~noisy /\ noisy' = TRUE /\ \E x \in NoiseBytes : Carry(x)
  /\ UNCHANGED <<dchan, skew>>

\* "Usually the hardware will repeat the last byte."
Repeat ==
  /\ quiet > 0 /\ quiet' = IF quiet < 3 THEN quiet + 1 ELSE 3
  /\ Carry(line)
  /\ UNCHANGED <<dchan, skew, queue, sent, enc, noisy>>

HdNext == \/ \E f \in Frames : Submit(f)
          \/ Transmit \/ Repeat

HdSpec == HdInit /\ [][HdNext]_hdVars

-----------------------------------------------------------------------------
(* Properties *)

\* The variables of the two macros keep to their widths and, from the first flag
\* on, the counts of their shifts to what is defined.
HdTypeOK ==
  /\ dchan \in BOOLEAN /\ skew \in Skews /\ noisy \in BOOLEAN /\ failed \in BOOLEAN
  /\ line \in 0..255 /\ quiet \in 0..3
  /\ enc.flag \in 0..5 /\ enc.blevel \div 256 \in 0..15 /\ enc.crc < 2^16
  /\ enc.ib < 2^16 /\ enc.tmp < 2^16
  /\ dec.flag \in 0..4 /\ dec.blevel < 2^8 /\ dec.crc < 2^16 /\ dec.ib < 16
  /\ dec.flag # 0 => dec.blevel < 8
  /\ dec.tmp < 2^8 /\ dec.len \in 0..MaxLen /\ Len(dec.buf) <= MaxLen

Fits(f) == Len(f) \in 1..MaxLen

\* On an undisturbed line, whatever the offset of its bytes, every frame of at
\* most BCH_MAX_DATALEN bytes has arrived once the encoder ran out of data: only
\* one for which there was no buffer is missing, and one that is longer by a byte
\* is no frame.  On a disturbed line the decoder still hears every frame that a
\* receiver of single bits hears.
FramesArrive ==
  /\ HdTypeOK
  /\ ~noisy /\ quiet = 3 =>
       LET due == Len(SelectSeq(sent, Fits)) IN
       Len(got) \in IF failed THEN {due - 1, due} ELSE {due}
  /\ ~failed => Link!SubSequence(text.got, got)

\* Frames arrive unchanged and in order (tx_hdlc_emulation, rx_hdlc_emulation).
IsFrameLink == Link!LinkSpec
=============================================================================
