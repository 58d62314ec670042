------------------------------ MODULE SiyiFrame ------------------------------
(***************************************************************************)
(* The datagrams of the SIYI driver: how a call is packed into bytes       *)
(* (siyi_camera.c), with the table-driven CRC that closes them (crc16.c).  *)
(* A byte is a number, a frame a sequence of them; the camera, which is    *)
(* external, takes a frame apart by its fields.  For the CRC a word is     *)
(* taken for the set of its bits that are 1: the polynomial over the       *)
(* integers modulo 2 with these powers, of which an exclusive or is the    *)
(* sum and a shift a product, and which the CRC divides.                   *)
(***************************************************************************)
EXTENDS Integers, Sequences

CONSTANTS
    Angles,             \* the magnitudes of angles, in tenths of a degree
    Ratios              \* the ratios of the zoom, in tenths

ASSUME FrameAssumption ==
    /\ \A angle \in Angles : angle \in Nat /\ angle < 32768
    /\ \A ratio \in Ratios : ratio \in Nat /\ ratio < 2560

VARIABLES
    call,               \* the call that is being served
    buf,                \* the frame, without its CRC
    next,               \* the byte that crc16_calculate is at
    crc,                \* its result so far
    sent,               \* the datagram, once it is complete
    quotient            \* history: the quotient that goes with crc

vars == <<call, buf, next, crc, sent, quotient>>

Signed == Angles \cup {-a : a \in Angles}
Calls == [name : {"zoom"}, ratio : Ratios]
         \cup [name : {"rotate"}, yaw : Signed, pitch : Signed]
         \cup [name : {"centre"}]

Idle == [name |-> "none"]

Init ==
    /\ call = Idle
    /\ buf = <<>> /\ next = 1 /\ crc = {} /\ sent = <<>> /\ quotient = {}
-----------------------------------------------------------------------------
(* Packing *)

\* The bytes of a 16-bit number as the processor stores it.
Swapped(n) == <<(n % 65536) \div 256, n % 256>>
Bytes16(n) == <<n % 256, (n % 65536) \div 256>>

\* siyi_cam_pack_common: two bytes of start, control, the length of the data,
\* a sequence number of 0, the command.
PackCommon(len, cmd) ==
    <<\h55, \h66, 1, Bytes16(len)[1], Bytes16(len)[2],
      Bytes16(0)[1], Bytes16(0)[2], cmd>>

\* siyi_cam_manual_zoom, siyi_cam_gimbal_rotate, siyi_cam_gimbal_centering
ManualZoom(ratio) == PackCommon(2, \h0f) \o <<ratio \div 10, ratio % 10>>
GimbalRotate(yaw, pitch) ==
    PackCommon(4, \h0e) \o Bytes16(yaw) \o Bytes16(pitch)
GimbalCentering == PackCommon(1, \h08) \o <<1>>

Frame(c) == CASE c.name = "zoom" -> ManualZoom(c.ratio)
              [] c.name = "rotate" -> GimbalRotate(c.yaw, c.pitch)
              [] c.name = "centre" -> GimbalCentering

Pack(c) ==
    /\ call = Idle
    /\ call' = c
    /\ buf' = Frame(c)
    /\ next' = 1 /\ crc' = {} /\ sent' = <<>> /\ quotient' = {}
-----------------------------------------------------------------------------
(* Words as polynomials *)

\* The bits of a byte, and the byte of these bits.
Weight == <<1, 2, 4, 8, 16, 32, 64, 128>>
Bits(n) == {i \in 0 .. 7 : (n \div Weight[i + 1]) % 2 = 1}
Bit(p, i) == IF i \in p THEN Weight[i + 1] ELSE 0
Value(p) == Bit(p, 0) + Bit(p, 1) + Bit(p, 2) + Bit(p, 3)
            + Bit(p, 4) + Bit(p, 5) + Bit(p, 6) + Bit(p, 7)

Plus(p, q) == (p \ q) \cup (q \ p)
Times(p, n) == {i + n : i \in p}

\* The two bytes of a 16-bit word, and the word of a number.
Low(w) == {i \in 0 .. 7 : i \in w}
High(w) == {i \in 0 .. 7 : i + 8 \in w}
Word(n) == Bits(n % 256) \cup Times(Bits(n \div 256), 8)

\* The product of q and x^16 + x^12 + x^5 + 1, and what it is to divide p by
\* that: the quotient is q, the remainder r.
Product(q) == Plus(Plus(Times(q, 16), Times(q, 12)), Plus(Times(q, 5), q))
Divides(p, q, r) == r \subseteq 0 .. 15 /\ p = Plus(Product(q), r)
-----------------------------------------------------------------------------
(* crc16_calculate *)

crc16_tab == <<
    \h0000, \h1021, \h2042, \h3063, \h4084, \h50A5, \h60C6, \h70E7, \h8108, \h9129,
    \hA14A, \hB16B, \hC18C, \hD1AD, \hE1CE, \hF1EF, \h1231, \h0210, \h3273, \h2252,
    \h52B5, \h4294, \h72F7, \h62D6, \h9339, \h8318, \hB37B, \hA35A, \hD3BD, \hC39C,
    \hF3FF, \hE3DE, \h2462, \h3443, \h0420, \h1401, \h64E6, \h74C7, \h44A4, \h5485,
    \hA56A, \hB54B, \h8528, \h9509, \hE5EE, \hF5CF, \hC5AC, \hD58D, \h3653, \h2672,
    \h1611, \h0630, \h76D7, \h66F6, \h5695, \h46B4, \hB75B, \hA77A, \h9719, \h8738,
    \hF7DF, \hE7FE, \hD79D, \hC7BC, \h48C4, \h58E5, \h6886, \h78A7, \h0840, \h1861,
    \h2802, \h3823, \hC9CC, \hD9ED, \hE98E, \hF9AF, \h8948, \h9969, \hA90A, \hB92B,
    \h5AF5, \h4AD4, \h7AB7, \h6A96, \h1A71, \h0A50, \h3A33, \h2A12, \hDBFD, \hCBDC,
    \hFBBF, \hEB9E, \h9B79, \h8B58, \hBB3B, \hAB1A, \h6CA6, \h7C87, \h4CE4, \h5CC5,
    \h2C22, \h3C03, \h0C60, \h1C41, \hEDAE, \hFD8F, \hCDEC, \hDDCD, \hAD2A, \hBD0B,
    \h8D68, \h9D49, \h7E97, \h6EB6, \h5ED5, \h4EF4, \h3E13, \h2E32, \h1E51, \h0E70,
    \hFF9F, \hEFBE, \hDFDD, \hCFFC, \hBF1B, \hAF3A, \h9F59, \h8F78, \h9188, \h81A9,
    \hB1CA, \hA1EB, \hD10C, \hC12D, \hF14E, \hE16F, \h1080, \h00A1, \h30C2, \h20E3,
    \h5004, \h4025, \h7046, \h6067, \h83B9, \h9398, \hA3FB, \hB3DA, \hC33D, \hD31C,
    \hE37F, \hF35E, \h02B1, \h1290, \h22F3, \h32D2, \h4235, \h5214, \h6277, \h7256,
    \hB5EA, \hA5CB, \h95A8, \h8589, \hF56E, \hE54F, \hD52C, \hC50D, \h34E2, \h24C3,
    \h14A0, \h0481, \h7466, \h6447, \h5424, \h4405, \hA7DB, \hB7FA, \h8799, \h97B8,
    \hE75F, \hF77E, \hC71D, \hD73C, \h26D3, \h36F2, \h0691, \h16B0, \h6657, \h7676,
    \h4615, \h5634, \hD94C, \hC96D, \hF90E, \hE92F, \h99C8, \h89E9, \hB98A, \hA9AB,
    \h5844, \h4865, \h7806, \h6827, \h18C0, \h08E1, \h3882, \h28A3, \hCB7D, \hDB5C,
    \hEB3F, \hFB1E, \h8BF9, \h9BD8, \hABBB, \hBB9A, \h4A75, \h5A54, \h6A37, \h7A16,
    \h0AF1, \h1AD0, \h2AB3, \h3A92, \hFD2E, \hED0F, \hDD6C, \hCD4D, \hBDAA, \hAD8B,
    \h9DE8, \h8DC9, \h7C26, \h6C07, \h5C64, \h4C45, \h3CA2, \h2C83, \h1CE0, \h0CC1,
    \hEF1F, \hFF3E, \hCF5D, \hDF7C, \hAF9B, \hBFBA, \h8FD9, \h9FF8, \h6E17, \h7E36,
    \h4E55, \h5E74, \h2E93, \h3EB2, \h0ED1, \h1EF0
>>

\* The entry of a byte, of which the index is a number.
Entry(byte) == Word(crc16_tab[Value(byte) + 1])

\* One round of the loop, on an unsigned 16-bit word.
CrcRound_noShift(c, byte) == Plus(Low(c), Entry(Plus(High(c), byte)))
CrcRound(c, byte) == Plus(Times(Low(c), 8), Entry(Plus(High(c), byte)))

\* The division that an entry is the remainder of.
Quotient(byte) ==
    CHOOSE q \in SUBSET (0 .. 7) : Divides(Times(byte, 16), q, Entry(byte))

CrcStep ==
    /\ call # Idle /\ next <= Len(buf)
    /\ LET byte == Bits(buf[next]) IN
         /\ crc' = CrcRound(crc, byte)
         /\ quotient' = Plus(Times(quotient, 8),
                             Quotient(Plus(High(crc), byte)))
    /\ next' = next + 1
    /\ UNCHANGED <<call, buf, sent>>

Send ==
    /\ call # Idle /\ next > Len(buf) /\ sent = <<>>
    /\ sent' = buf \o <<Value(Low(crc)), Value(High(crc))>>
    /\ UNCHANGED <<call, buf, next, crc, quotient>>

Return ==
    /\ sent # <<>>
    /\ call' = Idle
    /\ buf' = <<>> /\ next' = 1 /\ crc' = {} /\ sent' = <<>> /\ quotient' = {}

Next == (\E c \in Calls : Pack(c)) \/ CrcStep \/ Send \/ Return

Spec == Init /\ [][Next]_vars
-----------------------------------------------------------------------------
(* Properties *)

\* The polynomial of the first n bytes, of which the last comes lowest.
Polynomial(bytes, n) ==
    {i \in 0 .. 8 * n - 1 : i % 8 \in Bits(bytes[n - i \div 8])}

\* What the camera makes of a datagram: the fields by their offsets.
Number16(low, high) ==
    LET n == low + 256 * high IN IF n < 32768 THEN n ELSE n - 65536
Field(i) == Number16(sent[i], sent[i + 1])
Understood ==
    CASE sent[8] = \h0f ->
           [name |-> "zoom", ratio |-> 10 * sent[9] + sent[10]]
      [] sent[8] = \h0e ->
           [name |-> "rotate", yaw |-> Field(9), pitch |-> Field(11)]
      [] OTHER -> [name |-> "centre"]

\* The table and the loop compute the remainder of the bytes they have seen,
\* followed by 16 zeros (crc16_calculate).
CrcIsRemainder ==
    Divides(Times(Polynomial(buf, next - 1), 16), quotient, crc)

\* Every entry of the table is the remainder of one byte (crc16_tab): a fact
\* about the constants of the code, which TLC evaluates before the run.
ASSUME TableIsRemainders ==
    \A byte \in SUBSET (0 .. 7) :
        \E q \in SUBSET (0 .. 7) : Divides(Times(byte, 16), q, Entry(byte))

\* The camera understands the call that was made, and finds the remainder
\* behind it: negative angles, ratios and the length of the data survive the
\* packing (siyi_cam_gimbal_rotate, siyi_cam_manual_zoom).
CallUnderstood ==
    sent # <<>> =>
        /\ Understood = call
        /\ Len(sent) = 10 + Field(4)
        /\ Divides(Times(Polynomial(sent, Len(sent) - 2), 16), quotient,
                   Word(sent[Len(sent) - 1] + 256 * sent[Len(sent)]))

Byte == {n \in Nat : n < 256}

TypeOK ==
    /\ call \in Calls \cup {Idle}
    /\ buf \in Seq(Byte)
    /\ next \in 1 .. Len(buf) + 1
    /\ crc \in SUBSET (0 .. 15)
    /\ sent \in Seq(Byte)
    /\ quotient \in SUBSET (0 .. 8 * (next - 1) - 1)

\* The buffer holds the call, and the datagram the buffer and its CRC.
SentIsFrame ==
    /\ buf = IF call = Idle THEN <<>> ELSE Frame(call)
    /\ sent # <<>> => /\ call # Idle
                      /\ next = Len(buf) + 1
                      /\ sent = buf \o <<Value(Low(crc)), Value(High(crc))>>

\* The inductive invariant.
FrameInv == TypeOK /\ CrcIsRemainder /\ SentIsFrame
=============================================================================
