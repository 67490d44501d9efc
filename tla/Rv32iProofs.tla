---------------------------- MODULE Rv32iProofs ----------------------------
(***************************************************************************)
(* The decoder and the arithmetic of cpu.c for every instruction, register *)
(* number, immediate and word, and every width of a register from 21 to 32 *)
(* bits, the program's 32 among them.                                      *)
(*                                                                         *)
(* No property of Rv32i is inductive: each speaks of the end of an         *)
(* instruction.  InstrInv says what decode, execute and memory_access have *)
(* worked out when they are done, in terms of the instruction as its       *)
(* author wrote it.                                                        *)
(***************************************************************************)
EXTENDS Rv32i, TLAPS

----------------------------------------------------------------------------
(* Powers of two and bits.                                                 *)

(* The powers the program uses, where a register has n bits.               *)
Sized(n, m, h, u) ==
  XLEN = n /\ 2^XLEN = m /\ 2^(XLEN - 1) = h /\ 2^(XLEN - 12) = u

(* The width of a register is one of twelve: every power is a number.      *)
Widths ==
  \/ Sized(21, 2097152, 1048576, 512) \/ Sized(22, 4194304, 2097152, 1024)
  \/ Sized(23, 8388608, 4194304, 2048) \/ Sized(24, 16777216, 8388608, 4096)
  \/ Sized(25, 33554432, 16777216, 8192) \/ Sized(26, 67108864, 33554432, 16384)
  \/ Sized(27, 134217728, 67108864, 32768) \/ Sized(28, 268435456, 134217728, 65536)
  \/ Sized(29, 536870912, 268435456, 131072) \/ Sized(30, 1073741824, 536870912, 262144)
  \/ Sized(31, 2147483648, 1073741824, 524288) \/ Sized(32, 4294967296, 2147483648, 1048576)

(* The sizes of uint32_t and of its parts.                                 *)
LEMMA WidthsHold == Widths
<1>1. CASE XLEN = 21 BY <1>1, SMT DEF Widths, Sized
<1>2. CASE XLEN = 22 BY <1>2, SMT DEF Widths, Sized
<1>3. CASE XLEN = 23 BY <1>3, SMT DEF Widths, Sized
<1>4. CASE XLEN = 24 BY <1>4, SMT DEF Widths, Sized
<1>5. CASE XLEN = 25 BY <1>5, SMT DEF Widths, Sized
<1>6. CASE XLEN = 26 BY <1>6, SMT DEF Widths, Sized
<1>7. CASE XLEN = 27 BY <1>7, SMT DEF Widths, Sized
<1>8. CASE XLEN = 28 BY <1>8, SMT DEF Widths, Sized
<1>9. CASE XLEN = 29 BY <1>9, SMT DEF Widths, Sized
<1>10. CASE XLEN = 30 BY <1>10, SMT DEF Widths, Sized
<1>11. CASE XLEN = 31 BY <1>11, SMT DEF Widths, Sized
<1>12. CASE XLEN = 32 BY <1>12, SMT DEF Widths, Sized
<1> QED
  <2>1. XLEN \in 21 .. 32
    BY XlenAssumption
  <2>2. \/ XLEN = 21 \/ XLEN = 22 \/ XLEN = 23 \/ XLEN = 24 \/ XLEN = 25 \/ XLEN = 26
        \/ XLEN = 27 \/ XLEN = 28 \/ XLEN = 29 \/ XLEN = 30 \/ XLEN = 31 \/ XLEN = 32
    BY <2>1, SMT
  <2> QED
    BY <2>2, <1>1, <1>2, <1>3, <1>4, <1>5, <1>6, <1>7, <1>8, <1>9, <1>10, <1>11, <1>12, SMT

(* uint32_t: results are cut to the width, and what fits is kept.          *)
LEMMA WrapFacts ==
  /\ 0 \in Word /\ 1 \in Word /\ Word \subseteq Int
  /\ \A x \in Int : Wrap(x) \in Word
  /\ \A x \in Word : Wrap(x) = x
<1> QED
  BY WidthsHold, XlenAssumption, SMT DEF Widths, Sized, Word, Wrap

(* int32_t: a small negative number survives the way through uint32_t.     *)
LEMMA SignedInt == \A x \in Word : Signed(x) \in Int
BY WidthsHold, XlenAssumption, SMT DEF Widths, Sized, Word, Signed

(* So does a small positive one: Signed undoes Wrap on every immediate.    *)
LEMMA SignedWrap ==
  ASSUME NEW x \in Int, -1048576 =< x, x < 1048576
  PROVE  Signed(Wrap(x)) = x
BY WidthsHold, XlenAssumption, SMT DEF Widths, Sized, Wrap, Signed

(* The sign extension macros of execute undo the cut to 12 or 20 bits.     *)
LEMMA Extend12 ==
  ASSUME NEW x \in Int, -2048 =< x, x < 2048
  PROVE  SignExtend(x % 2^12, 12) = x
BY SMT DEF SignExtend

(* SIGN_EXTEND of execute, for 20 bits.                                    *)
LEMMA Extend20 ==
  ASSUME NEW x \in Int, -524288 =< x, x < 524288
  PROVE  SignExtend(x % 2^20, 20) = x
BY SMT DEF SignExtend

(* Its result has 20 bits and a sign.                                      *)
LEMMA Extend20Range ==
  ASSUME NEW x \in 0 .. 2^20 - 1
  PROVE  SignExtend(x, 20) \in Int /\ -524288 =< SignExtend(x, 20) /\ SignExtend(x, 20) < 524288
BY SMT DEF SignExtend

(* A branch keeps its offset halved, in 12 bits; a jump in 20.             *)
LEMMA Half12 ==
  ASSUME NEW x \in Int, -4096 =< x, x < 4096, x % 2 = 0
  PROVE  SignExtend((x % 2^13) \div 2, 12) * 2 = x
BY SMT DEF SignExtend

(* The offset of a jump, halved by decode and doubled by execute.          *)
LEMMA Half20 ==
  ASSUME NEW x \in Int, -1048576 =< x, x < 1048576, x % 2 = 0
  PROVE  SignExtend((x % 2^21) \div 2, 20) * 2 = x
BY SMT DEF SignExtend

(* A byte is at most eight bits, a word at most 32.                        *)
Bits(b) == b \in [0 .. 31 -> {0, 1}]

(* A bit of a number is 0 or 1.                                            *)
LEMMA BitType == \A x \in Int : \A k \in 0 .. 31 : Bit(x, k) \in {0, 1}
BY SMT DEF Bit

(* The number that four bytes make.                                        *)
Total(o0, o8, o16, o24) == o0 + 256 * o8 + 65536 * o16 + 16777216 * o24

(* The last bytes are cut to what is left of the width.                    *)
CutAtWidth(o16, o24) ==
  /\ XLEN = 21 => o16 < 32 /\ o24 = 0
  /\ XLEN = 22 => o16 < 64 /\ o24 = 0
  /\ XLEN = 23 => o16 < 128 /\ o24 = 0
  /\ XLEN = 24 => o24 = 0
  /\ XLEN = 25 => o24 < 2
  /\ XLEN = 26 => o24 < 4
  /\ XLEN = 27 => o24 < 8
  /\ XLEN = 28 => o24 < 16
  /\ XLEN = 29 => o24 < 32
  /\ XLEN = 30 => o24 < 64
  /\ XLEN = 31 => o24 < 128

(* A number so cut is a word.                                              *)
LEMMA TotalInWord ==
  ASSUME NEW o0 \in 0 .. 255, NEW o8 \in 0 .. 255, NEW o16 \in 0 .. 255, NEW o24 \in 0 .. 255,
         CutAtWidth(o16, o24)
  PROVE  Total(o0, o8, o16, o24) \in Word
BY WidthsHold, SMT DEF Widths, Sized, Word, Total, CutAtWidth

(* And, Or and Xor of words are words: & | ^ make no bit above the width.  *)
LEMMA NumberInWord ==
  ASSUME NEW b, Bits(b), \A k \in 0 .. 31 : k >= XLEN => b[k] = 0
  PROVE  Number(b) \in Word
<1>1. \A k \in 0 .. 31 : b[k] \in {0, 1}
  BY DEF Bits
<1>2. /\ Octet(b, 0) \in 0 .. 255 /\ Octet(b, 8) \in 0 .. 255
      /\ Octet(b, 16) \in 0 .. 255 /\ Octet(b, 24) \in 0 .. 255
  <2>1. Octet(b, 0) \in 0 .. 255 BY <1>1, SMT DEF Octet
  <2>2. Octet(b, 8) \in 0 .. 255 BY <1>1, SMT DEF Octet
  <2>3. Octet(b, 16) \in 0 .. 255 BY <1>1, SMT DEF Octet
  <2>4. Octet(b, 24) \in 0 .. 255 BY <1>1, SMT DEF Octet
  <2> QED
    BY <2>1, <2>2, <2>3, <2>4
<1>3. CutAtWidth(Octet(b, 16), Octet(b, 24))
  BY <1>1, SMT DEF Octet, CutAtWidth
<1>4. Number(b) = Total(Octet(b, 0), Octet(b, 8), Octet(b, 16), Octet(b, 24))
  BY <1>2, SMT DEF Number, Total
<1>5. Total(Octet(b, 0), Octet(b, 8), Octet(b, 16), Octet(b, 24)) \in Word
  BY <1>2, <1>3, TotalInWord, Zenon
<1> QED
  BY <1>4, <1>5, Zenon

(* The numbers that & | ^ of execute make are words.                       *)
LEMMA LogicInWord ==
  ASSUME NEW x, NEW y
  PROVE  And(x, y) \in Word /\ Or(x, y) \in Word /\ Xor(x, y) \in Word
<1>1. XLEN \in 21 .. 32
  BY XlenAssumption
<1> DEFINE and == [k \in 0 .. 31 |-> IF k < XLEN /\ (Bit(x, k) = 1 /\ Bit(y, k) = 1) THEN 1 ELSE 0]
           or  == [k \in 0 .. 31 |-> IF k < XLEN /\ (Bit(x, k) = 1 \/ Bit(y, k) = 1) THEN 1 ELSE 0]
           xor == [k \in 0 .. 31 |-> IF k < XLEN /\ Bit(x, k) # Bit(y, k) THEN 1 ELSE 0]
<1>2. And(x, y) = Number(and) /\ Or(x, y) = Number(or) /\ Xor(x, y) = Number(xor)
  BY DEF And, Or, Xor, BitsWhere
<1>3. /\ Bits(and) /\ \A k \in 0 .. 31 : k >= XLEN => and[k] = 0
      /\ Bits(or) /\ \A k \in 0 .. 31 : k >= XLEN => or[k] = 0
      /\ Bits(xor) /\ \A k \in 0 .. 31 : k >= XLEN => xor[k] = 0
  BY <1>1, SMT DEF Bits
<1> HIDE DEF and, or, xor
<1> QED
  BY <1>2, <1>3, NumberInWord

(* A number cut to k + 1 bits is the number cut to k bits, and bit k.      *)
NextBit(x, k) == x % 2^(k + 1) = (x % 2^k) + 2^k * Bit(x, k)

(* Such is every number, at each bit an immediate has.                     *)
LEMMA NextBits ==
  ASSUME NEW x \in Int
  PROVE  /\ NextBit(x, 0) /\ NextBit(x, 1) /\ NextBit(x, 2) /\ NextBit(x, 3)
         /\ NextBit(x, 4) /\ NextBit(x, 5) /\ NextBit(x, 6) /\ NextBit(x, 7)
         /\ NextBit(x, 8) /\ NextBit(x, 9) /\ NextBit(x, 10) /\ NextBit(x, 11)
         /\ NextBit(x, 12) /\ NextBit(x, 13) /\ NextBit(x, 14) /\ NextBit(x, 15)
         /\ NextBit(x, 16) /\ NextBit(x, 17) /\ NextBit(x, 18) /\ NextBit(x, 19)
         /\ NextBit(x, 20)
<1>1. NextBit(x, 0) BY SMT DEF NextBit, Bit
<1>2. NextBit(x, 1) BY SMT DEF NextBit, Bit
<1>3. NextBit(x, 2) BY SMT DEF NextBit, Bit
<1>4. NextBit(x, 3) BY SMT DEF NextBit, Bit
<1>5. NextBit(x, 4) BY SMT DEF NextBit, Bit
<1>6. NextBit(x, 5) BY SMT DEF NextBit, Bit
<1>7. NextBit(x, 6) BY SMT DEF NextBit, Bit
<1>8. NextBit(x, 7) BY SMT DEF NextBit, Bit
<1>9. NextBit(x, 8) BY SMT DEF NextBit, Bit
<1>10. NextBit(x, 9) BY SMT DEF NextBit, Bit
<1>11. NextBit(x, 10) BY SMT DEF NextBit, Bit
<1>12. NextBit(x, 11) BY SMT DEF NextBit, Bit
<1>13. NextBit(x, 12) BY SMT DEF NextBit, Bit
<1>14. NextBit(x, 13) BY SMT DEF NextBit, Bit
<1>15. NextBit(x, 14) BY SMT DEF NextBit, Bit
<1>16. NextBit(x, 15) BY SMT DEF NextBit, Bit
<1>17. NextBit(x, 16) BY SMT DEF NextBit, Bit
<1>18. NextBit(x, 17) BY SMT DEF NextBit, Bit
<1>19. NextBit(x, 18) BY SMT DEF NextBit, Bit
<1>20. NextBit(x, 19) BY SMT DEF NextBit, Bit
<1>21. NextBit(x, 20) BY SMT DEF NextBit, Bit
<1> QED
  BY <1>1, <1>2, <1>3, <1>4, <1>5, <1>6, <1>7, <1>8, <1>9, <1>10, <1>11, <1>12, <1>13, <1>14, <1>15,
     <1>16, <1>17, <1>18, <1>19, <1>20, <1>21

(* Two words that differ in bit k only, which is clear in the first.       *)
Differ(f, g, k) ==
  Bits(f) /\ Bits(g) /\ f[k] = 0 /\ \A j \in 0 .. 31 : j # k => g[j] = f[j]

(* The byte with that bit differs by it, and the other bytes are equal.    *)
OctetDiffers(f, g, o, c) ==
  /\ \A p \in {0, 8, 16, 24} : p # o => Octet(g, p) = Octet(f, p)
  /\ Octet(g, o) = Octet(f, o) + 2^c * g[o + c]

(* So do the bytes of two words that differ in one bit.                    *)
LEMMA OctetBit ==
  ASSUME NEW f, NEW g, NEW o \in {0, 8, 16, 24}, NEW c \in 0 .. 7, Differ(f, g, o + c)
  PROVE  OctetDiffers(f, g, o, c)
<1>1. \A j \in 0 .. 31 : f[j] \in {0, 1} /\ g[j] \in {0, 1}
  BY DEF Differ, Bits
<1>2. f[o + c] = 0 /\ \A j \in 0 .. 31 : j # o + c => g[j] = f[j]
  BY DEF Differ
<1>3. ASSUME NEW p \in {0, 8, 16, 24}, p # o PROVE Octet(g, p) = Octet(f, p)
  BY <1>1, <1>2, <1>3, SMT DEF Octet
<1>4. c = 0 => Octet(g, o) = Octet(f, o) + 2^c * g[o + c] BY <1>1, <1>2, SMT DEF Octet
<1>5. c = 1 => Octet(g, o) = Octet(f, o) + 2^c * g[o + c] BY <1>1, <1>2, SMT DEF Octet
<1>6. c = 2 => Octet(g, o) = Octet(f, o) + 2^c * g[o + c] BY <1>1, <1>2, SMT DEF Octet
<1>7. c = 3 => Octet(g, o) = Octet(f, o) + 2^c * g[o + c] BY <1>1, <1>2, SMT DEF Octet
<1>8. c = 4 => Octet(g, o) = Octet(f, o) + 2^c * g[o + c] BY <1>1, <1>2, SMT DEF Octet
<1>9. c = 5 => Octet(g, o) = Octet(f, o) + 2^c * g[o + c] BY <1>1, <1>2, SMT DEF Octet
<1>10. c = 6 => Octet(g, o) = Octet(f, o) + 2^c * g[o + c] BY <1>1, <1>2, SMT DEF Octet
<1>11. c = 7 => Octet(g, o) = Octet(f, o) + 2^c * g[o + c] BY <1>1, <1>2, SMT DEF Octet
<1>12. Octet(g, o) = Octet(f, o) + 2^c * g[o + c]
  BY <1>4, <1>5, <1>6, <1>7, <1>8, <1>9, <1>10, <1>11, SMT
<1> QED
  BY <1>3, <1>12 DEF OctetDiffers

(* So the numbers differ by its value.                                     *)
NumberDiffers(f, g, o, c) == Number(g) = Number(f) + 2^o * (2^c * g[o + c])

(* A bit more in a word adds its value to the number of the word.          *)
LEMMA NumberBit ==
  ASSUME NEW f, NEW g, NEW o \in {0, 8, 16}, NEW c \in 0 .. 7, Differ(f, g, o + c)
  PROVE  NumberDiffers(f, g, o, c)
<1> DEFINE d == 2^c * g[o + c]
<1>1. \A j \in 0 .. 31 : f[j] \in {0, 1} /\ g[j] \in {0, 1}
  BY DEF Differ, Bits
<1>2. \A p \in {0, 8, 16, 24} : Octet(f, p) \in Int /\ Octet(g, p) \in Int
  BY <1>1, SMT DEF Octet
<1>3. /\ \A p \in {0, 8, 16, 24} : p # o => Octet(g, p) = Octet(f, p)
      /\ Octet(g, o) = Octet(f, o) + d
  <2>1. o \in {0, 8, 16, 24}
    OBVIOUS
  <2>2. OctetDiffers(f, g, o, c)
    BY <2>1, OctetBit, Zenon
  <2> QED
    BY <2>2 DEF OctetDiffers
<1>4. d \in Int
  <2>1. c = 0 \/ c = 1 \/ c = 2 \/ c = 3 \/ c = 4 \/ c = 5 \/ c = 6 \/ c = 7
    BY SMT
  <2>2. g[o + c] \in Int
    BY <1>1, SMT
  <2> QED
    BY <2>1, <2>2, SMT
<1> HIDE DEF d
<1>5. \A a0, a8, a16, a24 \in Int :
        /\ Total(a0 + d, a8, a16, a24) = Total(a0, a8, a16, a24) + 2^0 * d
        /\ Total(a0, a8 + d, a16, a24) = Total(a0, a8, a16, a24) + 2^8 * d
        /\ Total(a0, a8, a16 + d, a24) = Total(a0, a8, a16, a24) + 2^16 * d
  BY <1>4, SMT DEF Total
<1>6. /\ Number(f) = Total(Octet(f, 0), Octet(f, 8), Octet(f, 16), Octet(f, 24))
      /\ Number(g) = Total(Octet(g, 0), Octet(g, 8), Octet(g, 16), Octet(g, 24))
  BY <1>2, SMT DEF Number, Total
<1>7. Number(g) = Number(f) + 2^o * d
  <2>1. CASE o = 0
    <3>1. /\ Octet(g, 0) = Octet(f, 0) + d /\ Octet(g, 8) = Octet(f, 8)
          /\ Octet(g, 16) = Octet(f, 16) /\ Octet(g, 24) = Octet(f, 24)
      BY <1>3, <2>1, SMT
    <3>2. Number(g) = Number(f) + 2^0 * d
      BY <1>2, <1>5, <1>6, <3>1, SMT
    <3> QED
      BY <2>1, <3>2, Zenon
  <2>2. CASE o = 8
    <3>1. /\ Octet(g, 0) = Octet(f, 0) /\ Octet(g, 8) = Octet(f, 8) + d
          /\ Octet(g, 16) = Octet(f, 16) /\ Octet(g, 24) = Octet(f, 24)
      BY <1>3, <2>2, SMT
    <3>2. Number(g) = Number(f) + 2^8 * d
      BY <1>2, <1>5, <1>6, <3>1, SMT
    <3> QED
      BY <2>2, <3>2, Zenon
  <2>3. CASE o = 16
    <3>1. /\ Octet(g, 0) = Octet(f, 0) /\ Octet(g, 8) = Octet(f, 8)
          /\ Octet(g, 16) = Octet(f, 16) + d /\ Octet(g, 24) = Octet(f, 24)
      BY <1>3, <2>3, SMT
    <3>2. Number(g) = Number(f) + 2^16 * d
      BY <1>2, <1>5, <1>6, <3>1, SMT
    <3> QED
      BY <2>3, <3>2, Zenon
  <2> QED
    BY <2>1, <2>2, <2>3
<1> QED
  BY <1>7 DEF d, NumberDiffers

(* A field of one more bit of the instruction: get_bits of decode.         *)
FieldGrows(i, lo, o, c) ==
  Field(i, lo, (o + c) + 1) = Field(i, lo, o + c) + 2^o * (2^c * i[lo + (o + c)])

(* So do the fields decode takes with get_bits.                            *)
LEMMA NextField ==
  ASSUME NEW i, Bits(i), NEW lo \in 0 .. 31, NEW o \in {0, 8, 16}, NEW c \in 0 .. 7,
         lo + (o + c) =< 31
  PROVE  FieldGrows(i, lo, o, c)
<1> DEFINE k == o + c
           f == [j \in 0 .. 31 |-> IF j < k THEN i[lo + j] ELSE 0]
           g == [j \in 0 .. 31 |-> IF j < k + 1 THEN i[lo + j] ELSE 0]
<1>1. \A j \in 0 .. 31 : i[j] \in {0, 1}
  BY DEF Bits
<1>2. k \in 0 .. 23 /\ lo + k =< 31
  BY SMT
<1> HIDE DEF k
<1>3. Bits(f) /\ Bits(g)
  BY <1>1, <1>2, SMT DEF Bits
<1>4. f[k] = 0 /\ g[k] = i[lo + k] /\ \A j \in 0 .. 31 : j # k => g[j] = f[j]
  BY <1>1, <1>2, SMT
<1>5. Differ(f, g, k)
  BY <1>3, <1>4 DEF Differ
<1>6. Field(i, lo, k) = Number(f) /\ Field(i, lo, k + 1) = Number(g)
  BY DEF Field
<1> HIDE DEF f, g
<1>7. NumberDiffers(f, g, o, c)
  BY <1>5, NumberBit, Zenon DEF k
<1> QED
  BY <1>4, <1>6, <1>7, Zenon DEF k, NumberDiffers, FieldGrows

(* Bits lo, lo + 1, .. of the instruction are the n low bits of x.         *)
Holds(i, lo, n, x) == \A k \in 0 .. n - 1 : i[lo + k] = Bit(x, k)

(* What is read from the first k of them.                                  *)
Reads(i, lo, k, x) == Field(i, lo, k) = x % 2^k

(* Such a field is x, cut to n bits.                                       *)
LEMMA FieldValue ==
  ASSUME NEW i, Bits(i), NEW lo \in 0 .. 31, NEW n \in 1 .. 20, lo + n =< 32,
         NEW x \in Int, Holds(i, lo, n, x)
  PROVE  Reads(i, lo, n, x)
<1>1. ASSUME NEW o \in {0, 8, 16}, NEW c \in 0 .. 7, o + c < n
      PROVE  FieldGrows(i, lo, o, c)
  <2>1. lo + (o + c) =< 31
    BY <1>1, SMT
  <2> QED
    BY <2>1, NextField, Zenon
<1>2. /\ x % 2^0 = 0
      /\ \A k \in 0 .. n - 1 : i[lo + k] \in {0, 1} /\ i[lo + k] = Bit(x, k)
  BY SMT DEF Holds, Bits
<1>3. Reads(i, lo, 0, x)
  BY <1>2, SMT DEF Reads, Field, Number, Octet
<1>4. 0 < n /\ Reads(i, lo, 0, x) => Reads(i, lo, 1, x)
  <2> SUFFICES ASSUME 0 < n, Reads(i, lo, 0, x) PROVE Reads(i, lo, 1, x)
    OBVIOUS
  <2>1. FieldGrows(i, lo, 0, 0) /\ NextBit(x, 0)
    BY <1>1, NextBits, SMT
  <2> QED
    BY <1>2, <2>1, SMT DEF FieldGrows, NextBit, Reads
<1>5. 1 < n /\ Reads(i, lo, 1, x) => Reads(i, lo, 2, x)
  <2> SUFFICES ASSUME 1 < n, Reads(i, lo, 1, x) PROVE Reads(i, lo, 2, x)
    OBVIOUS
  <2>1. FieldGrows(i, lo, 0, 1) /\ NextBit(x, 1)
    BY <1>1, NextBits, SMT
  <2> QED
    BY <1>2, <2>1, SMT DEF FieldGrows, NextBit, Reads
<1>6. 2 < n /\ Reads(i, lo, 2, x) => Reads(i, lo, 3, x)
  <2> SUFFICES ASSUME 2 < n, Reads(i, lo, 2, x) PROVE Reads(i, lo, 3, x)
    OBVIOUS
  <2>1. FieldGrows(i, lo, 0, 2) /\ NextBit(x, 2)
    BY <1>1, NextBits, SMT
  <2> QED
    BY <1>2, <2>1, SMT DEF FieldGrows, NextBit, Reads
<1>7. 3 < n /\ Reads(i, lo, 3, x) => Reads(i, lo, 4, x)
  <2> SUFFICES ASSUME 3 < n, Reads(i, lo, 3, x) PROVE Reads(i, lo, 4, x)
    OBVIOUS
  <2>1. FieldGrows(i, lo, 0, 3) /\ NextBit(x, 3)
    BY <1>1, NextBits, SMT
  <2> QED
    BY <1>2, <2>1, SMT DEF FieldGrows, NextBit, Reads
<1>8. 4 < n /\ Reads(i, lo, 4, x) => Reads(i, lo, 5, x)
  <2> SUFFICES ASSUME 4 < n, Reads(i, lo, 4, x) PROVE Reads(i, lo, 5, x)
    OBVIOUS
  <2>1. FieldGrows(i, lo, 0, 4) /\ NextBit(x, 4)
    BY <1>1, NextBits, SMT
  <2> QED
    BY <1>2, <2>1, SMT DEF FieldGrows, NextBit, Reads
<1>9. 5 < n /\ Reads(i, lo, 5, x) => Reads(i, lo, 6, x)
  <2> SUFFICES ASSUME 5 < n, Reads(i, lo, 5, x) PROVE Reads(i, lo, 6, x)
    OBVIOUS
  <2>1. FieldGrows(i, lo, 0, 5) /\ NextBit(x, 5)
    BY <1>1, NextBits, SMT
  <2> QED
    BY <1>2, <2>1, SMT DEF FieldGrows, NextBit, Reads
<1>10. 6 < n /\ Reads(i, lo, 6, x) => Reads(i, lo, 7, x)
  <2> SUFFICES ASSUME 6 < n, Reads(i, lo, 6, x) PROVE Reads(i, lo, 7, x)
    OBVIOUS
  <2>1. FieldGrows(i, lo, 0, 6) /\ NextBit(x, 6)
    BY <1>1, NextBits, SMT
  <2> QED
    BY <1>2, <2>1, SMT DEF FieldGrows, NextBit, Reads
<1>11. 7 < n /\ Reads(i, lo, 7, x) => Reads(i, lo, 8, x)
  <2> SUFFICES ASSUME 7 < n, Reads(i, lo, 7, x) PROVE Reads(i, lo, 8, x)
    OBVIOUS
  <2>1. FieldGrows(i, lo, 0, 7) /\ NextBit(x, 7)
    BY <1>1, NextBits, SMT
  <2> QED
    BY <1>2, <2>1, SMT DEF FieldGrows, NextBit, Reads
<1>12. 8 < n /\ Reads(i, lo, 8, x) => Reads(i, lo, 9, x)
  <2> SUFFICES ASSUME 8 < n, Reads(i, lo, 8, x) PROVE Reads(i, lo, 9, x)
    OBVIOUS
  <2>1. FieldGrows(i, lo, 8, 0) /\ NextBit(x, 8)
    BY <1>1, NextBits, SMT
  <2> QED
    BY <1>2, <2>1, SMT DEF FieldGrows, NextBit, Reads
<1>13. 9 < n /\ Reads(i, lo, 9, x) => Reads(i, lo, 10, x)
  <2> SUFFICES ASSUME 9 < n, Reads(i, lo, 9, x) PROVE Reads(i, lo, 10, x)
    OBVIOUS
  <2>1. FieldGrows(i, lo, 8, 1) /\ NextBit(x, 9)
    BY <1>1, NextBits, SMT
  <2> QED
    BY <1>2, <2>1, SMT DEF FieldGrows, NextBit, Reads
<1>14. 10 < n /\ Reads(i, lo, 10, x) => Reads(i, lo, 11, x)
  <2> SUFFICES ASSUME 10 < n, Reads(i, lo, 10, x) PROVE Reads(i, lo, 11, x)
    OBVIOUS
  <2>1. FieldGrows(i, lo, 8, 2) /\ NextBit(x, 10)
    BY <1>1, NextBits, SMT
  <2> QED
    BY <1>2, <2>1, SMT DEF FieldGrows, NextBit, Reads
<1>15. 11 < n /\ Reads(i, lo, 11, x) => Reads(i, lo, 12, x)
  <2> SUFFICES ASSUME 11 < n, Reads(i, lo, 11, x) PROVE Reads(i, lo, 12, x)
    OBVIOUS
  <2>1. FieldGrows(i, lo, 8, 3) /\ NextBit(x, 11)
    BY <1>1, NextBits, SMT
  <2> QED
    BY <1>2, <2>1, SMT DEF FieldGrows, NextBit, Reads
<1>16. 12 < n /\ Reads(i, lo, 12, x) => Reads(i, lo, 13, x)
  <2> SUFFICES ASSUME 12 < n, Reads(i, lo, 12, x) PROVE Reads(i, lo, 13, x)
    OBVIOUS
  <2>1. FieldGrows(i, lo, 8, 4) /\ NextBit(x, 12)
    BY <1>1, NextBits, SMT
  <2> QED
    BY <1>2, <2>1, SMT DEF FieldGrows, NextBit, Reads
<1>17. 13 < n /\ Reads(i, lo, 13, x) => Reads(i, lo, 14, x)
  <2> SUFFICES ASSUME 13 < n, Reads(i, lo, 13, x) PROVE Reads(i, lo, 14, x)
    OBVIOUS
  <2>1. FieldGrows(i, lo, 8, 5) /\ NextBit(x, 13)
    BY <1>1, NextBits, SMT
  <2> QED
    BY <1>2, <2>1, SMT DEF FieldGrows, NextBit, Reads
<1>18. 14 < n /\ Reads(i, lo, 14, x) => Reads(i, lo, 15, x)
  <2> SUFFICES ASSUME 14 < n, Reads(i, lo, 14, x) PROVE Reads(i, lo, 15, x)
    OBVIOUS
  <2>1. FieldGrows(i, lo, 8, 6) /\ NextBit(x, 14)
    BY <1>1, NextBits, SMT
  <2> QED
    BY <1>2, <2>1, SMT DEF FieldGrows, NextBit, Reads
<1>19. 15 < n /\ Reads(i, lo, 15, x) => Reads(i, lo, 16, x)
  <2> SUFFICES ASSUME 15 < n, Reads(i, lo, 15, x) PROVE Reads(i, lo, 16, x)
    OBVIOUS
  <2>1. FieldGrows(i, lo, 8, 7) /\ NextBit(x, 15)
    BY <1>1, NextBits, SMT
  <2> QED
    BY <1>2, <2>1, SMT DEF FieldGrows, NextBit, Reads
<1>20. 16 < n /\ Reads(i, lo, 16, x) => Reads(i, lo, 17, x)
  <2> SUFFICES ASSUME 16 < n, Reads(i, lo, 16, x) PROVE Reads(i, lo, 17, x)
    OBVIOUS
  <2>1. FieldGrows(i, lo, 16, 0) /\ NextBit(x, 16)
    BY <1>1, NextBits, SMT
  <2> QED
    BY <1>2, <2>1, SMT DEF FieldGrows, NextBit, Reads
<1>21. 17 < n /\ Reads(i, lo, 17, x) => Reads(i, lo, 18, x)
  <2> SUFFICES ASSUME 17 < n, Reads(i, lo, 17, x) PROVE Reads(i, lo, 18, x)
    OBVIOUS
  <2>1. FieldGrows(i, lo, 16, 1) /\ NextBit(x, 17)
    BY <1>1, NextBits, SMT
  <2> QED
    BY <1>2, <2>1, SMT DEF FieldGrows, NextBit, Reads
<1>22. 18 < n /\ Reads(i, lo, 18, x) => Reads(i, lo, 19, x)
  <2> SUFFICES ASSUME 18 < n, Reads(i, lo, 18, x) PROVE Reads(i, lo, 19, x)
    OBVIOUS
  <2>1. FieldGrows(i, lo, 16, 2) /\ NextBit(x, 18)
    BY <1>1, NextBits, SMT
  <2> QED
    BY <1>2, <2>1, SMT DEF FieldGrows, NextBit, Reads
<1>23. 19 < n /\ Reads(i, lo, 19, x) => Reads(i, lo, 20, x)
  <2> SUFFICES ASSUME 19 < n, Reads(i, lo, 19, x) PROVE Reads(i, lo, 20, x)
    OBVIOUS
  <2>1. FieldGrows(i, lo, 16, 3) /\ NextBit(x, 19)
    BY <1>1, NextBits, SMT
  <2> QED
    BY <1>2, <2>1, SMT DEF FieldGrows, NextBit, Reads
<1> QED
  BY <1>3, <1>4, <1>5, <1>6, <1>7, <1>8, <1>9, <1>10, <1>11, <1>12, <1>13, <1>14, <1>15, <1>16,
     <1>17, <1>18, <1>19, <1>20, <1>21, <1>22, <1>23, SMT

----------------------------------------------------------------------------
(* The fields of the word that an instruction is assembled to.             *)

(* The rows of the manual's table: the code of each kind of instruction.   *)
LEMMA OpRanges ==
  ASSUME NEW o \in Mnemonics \cup Others
  PROVE  /\ Format(o) \in {"R", "I", "S", "B", "U", "J"}
         /\ Opcode(o) \in 0 .. 127 /\ Funct3(o) \in 0 .. 7 /\ Funct7(o) \in {0, 1, 32, 64}
         /\ o \in ShiftI => Funct7(o) \in {0, 32}
<1>1. Format(o) \in {"R", "I", "S", "B", "U", "J"}
  BY DEF Format
<1>2. Opcode(o) \in {55, 23, 111, 103, 15, 115, 3, 35, 99, 51, 19}
  BY DEF Opcode
<1>3. Funct3(o) \in 0 .. 7
  BY SMT DEF Funct3
<1>4. Funct7(o) \in {0, 1, 32, 64} /\ (o \in ShiftI => Funct7(o) \in {0, 32})
  BY DEF Funct7, ShiftI
<1> QED
  BY <1>1, <1>2, <1>3, <1>4, SMT

(* Each bit is one of the opcode, a register number, a function code or    *)
(* the immediate.                                                          *)
Immediate(m) == IF m.op \in ShiftI THEN m.imm + 32 * Funct7(m.op) ELSE m.imm
Fixed(m, b) ==
  CASE b < 7 -> Bit(Opcode(m.op), b)
    [] b \in 7 .. 11 -> Bit(m.rd, b - 7)
    [] b \in 12 .. 14 -> Bit(Funct3(m.op), b - 12)
    [] b \in 15 .. 19 -> Bit(m.rs1, b - 15)
    [] b \in 20 .. 24 -> Bit(m.rs2, b - 20)
    [] b >= 25 -> Bit(Funct7(m.op), b - 25)

(* Assemble, with its immediate named.                                     *)
BitOf(m, b) ==
  LET k == ImmBit(Format(m.op), b)
  IN  CASE k >= 0 -> Bit(Immediate(m), k)
        [] k < 0 /\ b < 7 -> Bit(Opcode(m.op), b)
        [] k < 0 /\ b \in 7 .. 11 -> Bit(m.rd, b - 7)
        [] k < 0 /\ b \in 12 .. 14 -> Bit(Funct3(m.op), b - 12)
        [] k < 0 /\ b \in 15 .. 19 -> Bit(m.rs1, b - 15)
        [] k < 0 /\ b \in 20 .. 24 -> Bit(m.rs2, b - 20)
        [] k < 0 /\ b >= 25 -> Bit(Funct7(m.op), b - 25)

(* So is each bit of the word.                                             *)
LEMMA AssembledBit ==
  ASSUME NEW m, NEW b \in 0 .. 31
  PROVE  BitOf(m, b) = IF ImmBit(Format(m.op), b) >= 0
                       THEN Bit(Immediate(m), ImmBit(Format(m.op), b)) ELSE Fixed(m, b)
<1> DEFINE k == ImmBit(Format(m.op), b)
<1>1. k \in Int
  BY SMT DEF ImmBit
<1>2. BitOf(m, b) =
        CASE k >= 0 -> Bit(Immediate(m), k)
          [] k < 0 /\ b < 7 -> Bit(Opcode(m.op), b)
          [] k < 0 /\ b \in 7 .. 11 -> Bit(m.rd, b - 7)
          [] k < 0 /\ b \in 12 .. 14 -> Bit(Funct3(m.op), b - 12)
          [] k < 0 /\ b \in 15 .. 19 -> Bit(m.rs1, b - 15)
          [] k < 0 /\ b \in 20 .. 24 -> Bit(m.rs2, b - 20)
          [] k < 0 /\ b >= 25 -> Bit(Funct7(m.op), b - 25)
  BY DEF BitOf
<1> HIDE DEF k
<1>3. BitOf(m, b) = IF k >= 0 THEN Bit(Immediate(m), k) ELSE Fixed(m, b)
  BY <1>1, <1>2, SMT DEF Fixed
<1> QED
  BY <1>3 DEF k

(* The word is made of them.                                               *)
LEMMA Assembled == ASSUME NEW m PROVE Assemble(m) = [b \in 0 .. 31 |-> BitOf(m, b)]
BY DEF Assemble, BitOf, Immediate

(* The parts of an instruction, as numbers.                                *)
LEMMA Parts ==
  ASSUME NEW m, Encodable(m)
  PROVE  /\ m.op \in Mnemonics \cup Others
         /\ m.rd \in 0 .. 31 /\ m.rs1 \in 0 .. 31 /\ m.rs2 \in 0 .. 31
         /\ m.imm \in Int /\ Immediate(m) \in Int
         /\ Opcode(m.op) \in Int /\ Funct3(m.op) \in Int /\ Funct7(m.op) \in Int
<1>1. m \in [op : Mnemonics \cup Others, rd : 0 .. 31, rs1 : 0 .. 31, rs2 : 0 .. 31, imm : Int]
  BY DEF Encodable
<1>2. /\ m.op \in Mnemonics \cup Others
      /\ m.rd \in 0 .. 31 /\ m.rs1 \in 0 .. 31 /\ m.rs2 \in 0 .. 31 /\ m.imm \in Int
  BY <1>1
<1>3. Opcode(m.op) \in Int /\ Funct3(m.op) \in Int /\ Funct7(m.op) \in Int
  BY <1>2, OpRanges, SMT
<1> QED
  BY <1>2, <1>3, SMT DEF Immediate

(* The word consists of bits.                                              *)
LEMMA AssembledBits ==
  ASSUME NEW m, Encodable(m)
  PROVE  Bits(Assemble(m))
<1>1. ASSUME NEW b \in 0 .. 31 PROVE BitOf(m, b) \in {0, 1}
  <2> DEFINE k == ImmBit(Format(m.op), b)
  <2>1. k \in -1 .. 31
    BY SMT DEF ImmBit
  <2>2. Fixed(m, b) \in {0, 1}
    BY Parts, BitType, SMT DEF Fixed
  <2>3. k >= 0 => Bit(Immediate(m), k) \in {0, 1}
    <3> HIDE DEF k
    <3> QED
      BY <2>1, Parts, BitType, SMT
  <2> QED
    BY <2>2, <2>3, AssembledBit
<1> QED
  BY <1>1, Assembled DEF Bits

(* What every format but the upper-immediate ones holds in its low half.   *)
LEMMA FixedFields ==
  ASSUME NEW m, Encodable(m)
  PROVE  LET i == Assemble(m)
             f == Format(m.op)
         IN  /\ Holds(i, 0, 7, Opcode(m.op))
             /\ f \in {"R", "I", "U", "J"} => Holds(i, 7, 5, m.rd)
             /\ f \in {"R", "I", "S", "B"} => Holds(i, 12, 3, Funct3(m.op)) /\ Holds(i, 15, 5, m.rs1)
             /\ f \in {"R", "S", "B"} => Holds(i, 20, 5, m.rs2)
             /\ f = "R" => Holds(i, 25, 7, Funct7(m.op))
<1> DEFINE i == Assemble(m)
           f == Format(m.op)
<1>1. \A b \in 0 .. 31 :
        i[b] = IF ImmBit(f, b) >= 0 THEN Bit(Immediate(m), ImmBit(f, b)) ELSE Fixed(m, b)
  BY Assembled, AssembledBit
<1> HIDE DEF i
<1>2. \A b \in 0 .. 6 : ImmBit(f, b) = -1
  BY SMT DEF ImmBit
<1>3. f \in {"R", "I", "U", "J"} => \A b \in 7 .. 11 : ImmBit(f, b) = -1
  BY SMT DEF ImmBit
<1>4. f \in {"R", "I", "S", "B"} => \A b \in 12 .. 19 : ImmBit(f, b) = -1
  BY SMT DEF ImmBit
<1>5. f \in {"R", "S", "B"} => \A b \in 20 .. 24 : ImmBit(f, b) = -1
  BY SMT DEF ImmBit
<1>6. f = "R" => \A b \in 25 .. 31 : ImmBit(f, b) = -1
  BY SMT DEF ImmBit
<1> HIDE DEF f
<1>7. Holds(i, 0, 7, Opcode(m.op))
  BY <1>1, <1>2, SMT DEF Holds, Fixed
<1>8. f \in {"R", "I", "U", "J"} => Holds(i, 7, 5, m.rd)
  BY <1>1, <1>3, SMT DEF Holds, Fixed
<1>9. f \in {"R", "I", "S", "B"} => Holds(i, 12, 3, Funct3(m.op)) /\ Holds(i, 15, 5, m.rs1)
  BY <1>1, <1>4, SMT DEF Holds, Fixed
<1>10. f \in {"R", "S", "B"} => Holds(i, 20, 5, m.rs2)
  BY <1>1, <1>5, SMT DEF Holds, Fixed
<1>11. f = "R" => Holds(i, 25, 7, Funct7(m.op))
  BY <1>1, <1>6, SMT DEF Holds, Fixed
<1> QED
  BY <1>7, <1>8, <1>9, <1>10, <1>11 DEF i, f

(* Bit j + k of a number is bit k of the number shifted by j.              *)
Shifted(x, j, k) == Bit(x, j + k) = Bit(x \div 2^j, k)

(* So it is where a branch, a jump or a store splits its immediate.        *)
LEMMA ShiftedBits ==
  ASSUME NEW x \in Int
  PROVE  /\ \A k \in 0 .. 9 : Shifted(x, 1, k)
         /\ \A k \in 0 .. 6 : Shifted(x, 5, k)
         /\ \A k \in 0 .. 7 : Shifted(x, 12, k)
         /\ Shifted(x, 11, 0) /\ Shifted(x, 20, 0)
<1>1. Shifted(x, 1, 0) BY SMTT(30) DEF Shifted, Bit
<1>2. Shifted(x, 1, 1) BY SMTT(30) DEF Shifted, Bit
<1>3. Shifted(x, 1, 2) BY SMTT(30) DEF Shifted, Bit
<1>4. Shifted(x, 1, 3) BY SMTT(30) DEF Shifted, Bit
<1>5. Shifted(x, 1, 4) BY SMTT(30) DEF Shifted, Bit
<1>6. Shifted(x, 1, 5) BY SMTT(30) DEF Shifted, Bit
<1>7. Shifted(x, 1, 6) BY SMTT(30) DEF Shifted, Bit
<1>8. Shifted(x, 1, 7) BY SMTT(30) DEF Shifted, Bit
<1>9. Shifted(x, 1, 8) BY SMTT(30) DEF Shifted, Bit
<1>10. Shifted(x, 1, 9) BY SMTT(30) DEF Shifted, Bit
<1>11. Shifted(x, 5, 0) BY SMTT(30) DEF Shifted, Bit
<1>12. Shifted(x, 5, 1) BY SMTT(30) DEF Shifted, Bit
<1>13. Shifted(x, 5, 2) BY SMTT(30) DEF Shifted, Bit
<1>14. Shifted(x, 5, 3) BY SMTT(30) DEF Shifted, Bit
<1>15. Shifted(x, 5, 4) BY SMTT(30) DEF Shifted, Bit
<1>16. Shifted(x, 5, 5) BY SMTT(30) DEF Shifted, Bit
<1>17. Shifted(x, 5, 6) BY SMTT(30) DEF Shifted, Bit
<1>18. Shifted(x, 11, 0) BY SMTT(30) DEF Shifted, Bit
<1>19. Shifted(x, 12, 0) BY SMTT(30) DEF Shifted, Bit
<1>20. Shifted(x, 12, 1) BY SMTT(30) DEF Shifted, Bit
<1>21. Shifted(x, 12, 2) BY SMTT(30) DEF Shifted, Bit
<1>22. Shifted(x, 12, 3) BY SMTT(30) DEF Shifted, Bit
<1>23. Shifted(x, 12, 4) BY SMTT(30) DEF Shifted, Bit
<1>24. Shifted(x, 12, 5) BY SMTT(30) DEF Shifted, Bit
<1>25. Shifted(x, 12, 6) BY SMTT(30) DEF Shifted, Bit
<1>26. Shifted(x, 12, 7) BY SMTT(30) DEF Shifted, Bit
<1>27. Shifted(x, 20, 0) BY SMTT(30) DEF Shifted, Bit
<1>28. \A k \in 0 .. 9 : Shifted(x, 1, k)
  BY <1>1, <1>2, <1>3, <1>4, <1>5, <1>6, <1>7, <1>8, <1>9, <1>10, SMT
<1>29. \A k \in 0 .. 6 : Shifted(x, 5, k)
  BY <1>11, <1>12, <1>13, <1>14, <1>15, <1>16, <1>17, SMT
<1>30. \A k \in 0 .. 7 : Shifted(x, 12, k)
  BY <1>19, <1>20, <1>21, <1>22, <1>23, <1>24, <1>25, <1>26, SMT
<1> QED
  BY <1>28, <1>29, <1>30, <1>18, <1>27

(* Where the bits of an immediate are.                                     *)
LEMMA ImmediateFields ==
  ASSUME NEW m, Encodable(m)
  PROVE  LET i == Assemble(m)
             f == Format(m.op)
             x == Immediate(m)
         IN  /\ f = "I" => Holds(i, 20, 12, x)
             /\ f = "S" => Holds(i, 7, 5, x) /\ Holds(i, 25, 7, x \div 2^5)
             /\ f = "B" => /\ Holds(i, 8, 4, x \div 2^1) /\ Holds(i, 25, 6, x \div 2^5)
                           /\ Holds(i, 7, 1, x \div 2^11) /\ Holds(i, 31, 1, x \div 2^12)
             /\ f = "U" => Holds(i, 12, 20, x)
             /\ f = "J" => /\ Holds(i, 21, 10, x \div 2^1) /\ Holds(i, 12, 8, x \div 2^12)
                           /\ Holds(i, 20, 1, x \div 2^11) /\ Holds(i, 31, 1, x \div 2^20)
<1> DEFINE i == Assemble(m)
           f == Format(m.op)
           x == Immediate(m)
<1>1. \A b \in 0 .. 31 : ImmBit(f, b) >= 0 => i[b] = Bit(x, ImmBit(f, b))
  BY Assembled, AssembledBit
<1>2. x \in Int
  BY Parts
<1> HIDE DEF i, x
<1>3. f = "I" => \A k \in 0 .. 11 : ImmBit(f, 20 + k) = k
  BY SMT DEF ImmBit
<1>4. f = "S" => (\A k \in 0 .. 4 : ImmBit(f, 7 + k) = k) /\ (\A k \in 0 .. 6 : ImmBit(f, 25 + k) = 5 + k)
  BY SMT DEF ImmBit
<1>5. f = "B" => /\ \A k \in 0 .. 3 : ImmBit(f, 8 + k) = 1 + k
                 /\ \A k \in 0 .. 5 : ImmBit(f, 25 + k) = 5 + k
                 /\ ImmBit(f, 7) = 11 /\ ImmBit(f, 31) = 12
  BY SMT DEF ImmBit
<1>6. f = "U" => \A k \in 0 .. 19 : ImmBit(f, 12 + k) = k
  BY SMT DEF ImmBit
<1>7. f = "J" => /\ \A k \in 0 .. 9 : ImmBit(f, 21 + k) = 1 + k
                 /\ \A k \in 0 .. 7 : ImmBit(f, 12 + k) = 12 + k
                 /\ ImmBit(f, 20) = 11 /\ ImmBit(f, 31) = 20
  BY SMT DEF ImmBit
<1> HIDE DEF f
<1>8. /\ \A k \in 0 .. 9 : Bit(x, 1 + k) = Bit(x \div 2^1, k)
      /\ \A k \in 0 .. 6 : Bit(x, 5 + k) = Bit(x \div 2^5, k)
      /\ \A k \in 0 .. 7 : Bit(x, 12 + k) = Bit(x \div 2^12, k)
      /\ Bit(x, 11) = Bit(x \div 2^11, 0) /\ Bit(x, 12) = Bit(x \div 2^12, 0)
      /\ Bit(x, 20) = Bit(x \div 2^20, 0)
  BY <1>2, ShiftedBits, SMT DEF Shifted
<1>9. f = "I" => Holds(i, 20, 12, x)
  BY <1>1, <1>3, SMT DEF Holds
<1>10. f = "S" => Holds(i, 7, 5, x) /\ Holds(i, 25, 7, x \div 2^5)
  BY <1>1, <1>4, <1>8, SMT DEF Holds
<1>11. f = "B" => /\ Holds(i, 8, 4, x \div 2^1) /\ Holds(i, 25, 6, x \div 2^5)
                  /\ Holds(i, 7, 1, x \div 2^11) /\ Holds(i, 31, 1, x \div 2^12)
  BY <1>1, <1>5, <1>8, SMT DEF Holds
<1>12. f = "U" => Holds(i, 12, 20, x)
  BY <1>1, <1>6, SMT DEF Holds
<1>13. f = "J" => /\ Holds(i, 21, 10, x \div 2^1) /\ Holds(i, 12, 8, x \div 2^12)
                  /\ Holds(i, 20, 1, x \div 2^11) /\ Holds(i, 31, 1, x \div 2^20)
  BY <1>1, <1>7, <1>8, SMT DEF Holds
<1> QED
  BY <1>9, <1>10, <1>11, <1>12, <1>13 DEF i, f, x

(* Every field is within its width, whatever the instruction.              *)
LEMMA FieldRanges ==
  ASSUME NEW i, Bits(i)
  PROVE  /\ Field(i, 7, 5) \in 0 .. 31 /\ Field(i, 15, 5) \in 0 .. 31
         /\ Field(i, 20, 5) \in 0 .. 31 /\ Field(i, 12, 3) \in 0 .. 7
         /\ Field(i, 25, 7) \in 0 .. 127 /\ Field(i, 0, 7) \in 0 .. 127
<1>1. \A k \in 0 .. 31 : i[k] \in {0, 1}
  BY DEF Bits
<1>2. Field(i, 7, 5) \in 0 .. 31 /\ Field(i, 15, 5) \in 0 .. 31 /\ Field(i, 20, 5) \in 0 .. 31
  BY <1>1, SMT DEF Field, Number, Octet
<1>3. Field(i, 12, 3) \in 0 .. 7
  BY <1>1, SMT DEF Field, Number, Octet
<1>4. Field(i, 25, 7) \in 0 .. 127 /\ Field(i, 0, 7) \in 0 .. 127
  BY <1>1, SMT DEF Field, Number, Octet
<1> QED
  BY <1>2, <1>3, <1>4

(* get_bits of decode finds the codes and the registers the author wrote.  *)
LEMMA FixedDecoded ==
  ASSUME NEW m, Encodable(m)
  PROVE  LET i == Assemble(m)
             f == Format(m.op)
         IN  /\ Field(i, 0, 7) = Opcode(m.op)
             /\ f \in {"R", "I", "U", "J"} => Field(i, 7, 5) = m.rd
             /\ f \in {"R", "I", "S", "B"} => /\ Field(i, 12, 3) = Funct3(m.op)
                                              /\ Field(i, 15, 5) = m.rs1
             /\ f \in {"R", "S", "B"} => Field(i, 20, 5) = m.rs2
             /\ f = "R" => Field(i, 25, 7) = Funct7(m.op)
<1> DEFINE i == Assemble(m)
           f == Format(m.op)
<1>1. Bits(i)
  BY AssembledBits
<1>2. /\ Opcode(m.op) \in 0 .. 127 /\ Funct3(m.op) \in 0 .. 7 /\ Funct7(m.op) \in 0 .. 127
      /\ m.rd \in 0 .. 31 /\ m.rs1 \in 0 .. 31 /\ m.rs2 \in 0 .. 31
  BY Parts, OpRanges, SMT
<1>3. /\ Holds(i, 0, 7, Opcode(m.op))
      /\ f \in {"R", "I", "U", "J"} => Holds(i, 7, 5, m.rd)
      /\ f \in {"R", "I", "S", "B"} => Holds(i, 12, 3, Funct3(m.op)) /\ Holds(i, 15, 5, m.rs1)
      /\ f \in {"R", "S", "B"} => Holds(i, 20, 5, m.rs2)
      /\ f = "R" => Holds(i, 25, 7, Funct7(m.op))
  BY FixedFields
<1> HIDE DEF i, f
<1>4. Reads(i, 0, 7, Opcode(m.op))
  BY <1>1, <1>2, <1>3, FieldValue, SMT
<1>5. f \in {"R", "I", "U", "J"} => Reads(i, 7, 5, m.rd)
  BY <1>1, <1>2, <1>3, FieldValue, SMT
<1>6. f \in {"R", "I", "S", "B"} => Reads(i, 12, 3, Funct3(m.op)) /\ Reads(i, 15, 5, m.rs1)
  BY <1>1, <1>2, <1>3, FieldValue, SMT
<1>7. f \in {"R", "S", "B"} => Reads(i, 20, 5, m.rs2)
  BY <1>1, <1>2, <1>3, FieldValue, SMT
<1>8. f = "R" => Reads(i, 25, 7, Funct7(m.op))
  BY <1>1, <1>2, <1>3, FieldValue, SMT
<1>9. /\ Field(i, 0, 7) = Opcode(m.op)
      /\ f \in {"R", "I", "U", "J"} => Field(i, 7, 5) = m.rd
      /\ f \in {"R", "I", "S", "B"} => Field(i, 12, 3) = Funct3(m.op) /\ Field(i, 15, 5) = m.rs1
      /\ f \in {"R", "S", "B"} => Field(i, 20, 5) = m.rs2
      /\ f = "R" => Field(i, 25, 7) = Funct7(m.op)
  BY <1>2, <1>4, <1>5, <1>6, <1>7, <1>8, SMT DEF Reads
<1> QED
  BY <1>9 DEF i, f

(* A number cut at p * q consists of its parts below and above p.          *)
Joined(x, p, q) == x % (p * q) = (x % p) + p * ((x \div p) % q)

(* So do the immediates of stores, branches and jumps.                     *)
LEMMA JoinedParts ==
  ASSUME NEW x \in Int
  PROVE  /\ Joined(x, 2, 16) /\ Joined(x, 32, 64) /\ Joined(x, 32, 128) /\ Joined(x, 2048, 2)
         /\ Joined(x, 4096, 2) /\ Joined(x, 2, 1024) /\ Joined(x, 4096, 256)
         /\ Joined(x, 1048576, 2)
<1>1. Joined(x, 2, 16) BY SMT DEF Joined
<1>2. Joined(x, 32, 64) BY SMT DEF Joined
<1>3. Joined(x, 32, 128) BY SMT DEF Joined
<1>4. Joined(x, 2048, 2) BY SMT DEF Joined
<1>5. Joined(x, 4096, 2) BY SMT DEF Joined
<1>6. Joined(x, 2, 1024) BY SMT DEF Joined
<1>7. Joined(x, 4096, 256) BY SMT DEF Joined
<1>8. Joined(x, 1048576, 2) BY SMT DEF Joined
<1> QED
  BY <1>1, <1>2, <1>3, <1>4, <1>5, <1>6, <1>7, <1>8

(* It puts the parts of an immediate together, and halves an offset.       *)
LEMMA ImmediateDecoded ==
  ASSUME NEW m, Encodable(m)
  PROVE  LET i == Assemble(m)
             f == Format(m.op)
             x == Immediate(m)
         IN  /\ f = "I" => Field(i, 20, 12) = x % 2^12 /\ Field(i, 20, 5) = x % 2^5
             /\ f = "S" => ImmS(i) = x % 2^12
             /\ f = "B" /\ x % 2 = 0 => ImmB(i) = (x % 2^13) \div 2
             /\ f = "U" => Field(i, 12, 20) = x % 2^20
             /\ f = "J" /\ x % 2 = 0 => ImmJ(i) = (x % 2^21) \div 2
<1> DEFINE i == Assemble(m)
           f == Format(m.op)
           x == Immediate(m)
<1>1. Bits(i)
  BY AssembledBits
<1>2. x \in Int
  BY Parts
<1>3. /\ f = "I" => Holds(i, 20, 12, x)
      /\ f = "S" => Holds(i, 7, 5, x) /\ Holds(i, 25, 7, x \div 2^5)
      /\ f = "B" => /\ Holds(i, 8, 4, x \div 2^1) /\ Holds(i, 25, 6, x \div 2^5)
                    /\ Holds(i, 7, 1, x \div 2^11) /\ Holds(i, 31, 1, x \div 2^12)
      /\ f = "U" => Holds(i, 12, 20, x)
      /\ f = "J" => /\ Holds(i, 21, 10, x \div 2^1) /\ Holds(i, 12, 8, x \div 2^12)
                    /\ Holds(i, 20, 1, x \div 2^11) /\ Holds(i, 31, 1, x \div 2^20)
  BY ImmediateFields
<1> HIDE DEF i, f, x
<1>4. /\ x \div 2^1 \in Int /\ x \div 2^5 \in Int /\ x \div 2^11 \in Int
      /\ x \div 2^12 \in Int /\ x \div 2^20 \in Int
  BY <1>2, SMT
<1>5. Holds(i, 20, 12, x) => Holds(i, 20, 5, x)
  BY SMT DEF Holds
<1>6. f = "I" => Field(i, 20, 12) = x % 2^12 /\ Field(i, 20, 5) = x % 2^5
  <2>1. f = "I" => Reads(i, 20, 12, x) /\ Reads(i, 20, 5, x)
    BY <1>1, <1>2, <1>3, <1>5, FieldValue, SMT
  <2> QED
    BY <2>1, SMT DEF Reads
<1>7. f = "S" => ImmS(i) = x % 2^12
  <2>1. f = "S" => Reads(i, 7, 5, x) /\ Reads(i, 25, 7, x \div 2^5)
    BY <1>1, <1>2, <1>3, <1>4, FieldValue, SMT
  <2>2. x % 4096 = (x % 32) + 32 * ((x \div 32) % 128)
    BY <1>2, JoinedParts, SMT DEF Joined
  <2> QED
    BY <1>2, <2>1, <2>2, SMT DEF Reads, ImmS
<1>8. f = "B" /\ x % 2 = 0 => ImmB(i) = (x % 2^13) \div 2
  <2>1. f = "B" => /\ Reads(i, 8, 4, x \div 2^1) /\ Reads(i, 25, 6, x \div 2^5)
                   /\ Reads(i, 7, 1, x \div 2^11) /\ Reads(i, 31, 1, x \div 2^12)
    BY <1>1, <1>2, <1>3, <1>4, FieldValue, SMT
  <2>2. x % 8192 = (x % 2) + 2 * ((x \div 2) % 16) + 32 * ((x \div 32) % 64)
                     + 2048 * ((x \div 2048) % 2) + 4096 * ((x \div 4096) % 2)
    BY <1>2, JoinedParts, SMT DEF Joined
  <2> QED
    BY <1>2, <2>1, <2>2, SMT DEF Reads, ImmB
<1>9. f = "U" => Field(i, 12, 20) = x % 2^20
  <2>1. f = "U" => Reads(i, 12, 20, x)
    BY <1>1, <1>2, <1>3, FieldValue, SMT
  <2> QED
    BY <2>1, SMT DEF Reads
<1>10. f = "J" /\ x % 2 = 0 => ImmJ(i) = (x % 2^21) \div 2
  <2>1. f = "J" => /\ Reads(i, 21, 10, x \div 2^1) /\ Reads(i, 12, 8, x \div 2^12)
                   /\ Reads(i, 20, 1, x \div 2^11) /\ Reads(i, 31, 1, x \div 2^20)
    BY <1>1, <1>2, <1>3, <1>4, FieldValue, SMT
  <2>2. x % 2097152 = (x % 2) + 2 * ((x \div 2) % 1024) + 2048 * ((x \div 2048) % 2)
                        + 4096 * ((x \div 4096) % 256) + 1048576 * ((x \div 1048576) % 2)
    <3>1. x % 2048 = (x % 2) + 2 * ((x \div 2) % 1024)
      BY <1>2, JoinedParts, SMT DEF Joined
    <3>2. x % 4096 = (x % 2048) + 2048 * ((x \div 2048) % 2)
      BY <1>2, JoinedParts, SMT DEF Joined
    <3>3. x % 1048576 = (x % 4096) + 4096 * ((x \div 4096) % 256)
      BY <1>2, JoinedParts, SMT DEF Joined
    <3>4. x % 2097152 = (x % 1048576) + 1048576 * ((x \div 1048576) % 2)
      BY <1>2, JoinedParts, SMT DEF Joined
    <3> QED
      BY <1>2, <3>1, <3>2, <3>3, <3>4, SMT
  <2> QED
    BY <1>2, <2>1, <2>2, SMT DEF Reads, ImmJ
<1> QED
  BY <1>6, <1>7, <1>8, <1>9, <1>10 DEF i, f, x

----------------------------------------------------------------------------
(* The invariant of an instruction on its way through the stages.          *)

(* The widths of an access.                                                *)
Sizes == {8, 16, XLEN}

(* The fields of instr_t and their ranges.                                 *)
Types == {"R", "I", "S", "B", "U", "J", "C", "Unknown"}
Imm12 == 0 .. 2^12 - 1
Imm20 == 0 .. 2^20 - 1
Instr ==
  [optype : Types, opcode : 0 .. 127, rd : 0 .. 31, rs1v : Word, rs2v : Word,
   funct3 : 0 .. 7, funct7 : 0 .. 127, shamt : 0 .. 31,
   imm12 : Imm12, imm20 : Imm20,
   isJump : BOOLEAN, writeRd : BOOLEAN, readMem : BOOLEAN, writeMem : BOOLEAN,
   memOffset : Word, jumpTarget : Word, bits : Sizes]

(* What is fixed at the start of an instruction.                           *)
Begun ==
  /\ asm \in Programs /\ instruction = Assemble(asm)
  /\ before \in [registers : [0 .. 31 -> Word], pc : Word, mem : Word]

(* instr_t and the registers of core_t keep their ranges.                  *)
Typed ==
  /\ state \in {"DECODE", "EXECUTE", "MEMORY", "WRITEBACK", "FETCH", "TRAP", "ABORTED"}
  /\ dec \in Instr /\ aluOut \in Word /\ pc \in Word /\ mem \in Word
  /\ registers \in [0 .. 31 -> Word]

(* Nothing but writeback changes registers and pc.                         *)
Untouched == registers = before.registers /\ pc = before.pc

(* What decode found: every part of the instruction that its type has.     *)
Parsed ==
  LET o == asm.op
      t == dec.optype
  IN  /\ dec.opcode = Opcode(o) /\ t = decode_type_table[Opcode(o)] /\ t # "Unknown"
      /\ ~dec.isJump /\ ~dec.writeRd /\ ~dec.readMem /\ ~dec.writeMem
      /\ t \in {"R", "I", "S", "B"} => dec.funct3 = Funct3(o) /\ dec.rs1v = Rs1
      /\ t \in {"R", "S", "B"} => dec.rs2v = Rs2
      /\ t \in {"R", "I", "U", "J"} => dec.rd = asm.rd
      /\ dec.funct7 = IF t = "R" THEN Funct7(o) ELSE 0
      /\ o \in ShiftI => dec.shamt = asm.imm
      /\ t \in {"I", "S"} /\ o \notin ShiftI => se12 = asm.imm
      /\ t = "B" => se12 * 2 = asm.imm
      /\ t = "U" => dec.imm20 = asm.imm
      /\ t = "J" => se20 * 2 = asm.imm

(* The instructions that get through execute.                              *)
Completing == (Mnemonics \cup {"MUL", "BRANCH2"}) \ {"FENCE", "ECALL", "EBREAK"}

Width(o) == CASE o \in {"LB", "LBU", "SB"} -> 8 [] o \in {"LH", "LHU", "SH"} -> 16
              [] OTHER -> XLEN

(* The flags execute left, and the access.                                 *)
Flagged ==
  LET o == asm.op
  IN  /\ o \in Completing
      /\ dec.readMem = (o \in Loads) /\ dec.writeMem = (o \in Stores)
      /\ dec.writeRd = (o \in WritesRd \cup {"MUL"})
      /\ o \in WritesRd => dec.rd = asm.rd
      /\ o \in Loads \cup Stores =>
           dec.memOffset = Wrap(Rs1 + asm.imm) /\ dec.bits = Width(o)

(* Where the program goes on.                                              *)
Aimed ==
  LET t == IF dec.isJump THEN dec.jumpTarget ELSE Wrap(before.pc + 4)
  IN  \/ t = NextPc(asm, Rs1, Rs2, before.pc)
      \/ asm.op = "JALR" /\ Wrap(Rs1 + asm.imm) % 2 = 1

(* The result, in aluOut: of a load only after the access.                 *)
Resulted(ops) == asm.op \in ops /\ ~SignLost => aluOut = Value

(* What execute worked out, and what the access added.                     *)
Executed ==
  /\ Flagged /\ (asm.op \in Mnemonics => Aimed) /\ mem = before.mem
  /\ Resulted(WritesRd \ Loads)
  /\ asm.op \in Stores => aluOut = Rs2 % 2^dec.bits
Accessed ==
  /\ Flagged /\ (asm.op \in Mnemonics => Aimed)
  /\ mem = Stored(asm, Rs2, before.mem)
  /\ Resulted(WritesRd)

(* The trap of what is no instruction of this machine.                     *)
Trapped ==
  \/ asm.op \in {"FENCE", "RESERVED"} /\ cause = "ILLEGAL_INSTRUCTION"
  \/ asm.op \in {"ECALL", "EBREAK", "CSRRW"} /\ cause = "ENV_CALL_UMODE"

(* All this, at the stage where it holds.                                  *)
Staged ==
  /\ state # "TRAP" => cause = "none"
  /\ state = "DECODE" => Untouched /\ mem = before.mem
  /\ state = "EXECUTE" => Untouched /\ mem = before.mem /\ Parsed
  /\ state = "MEMORY" => Untouched /\ Executed
  /\ state = "WRITEBACK" => Untouched /\ Accessed
  /\ state = "FETCH" => asm.op \in Completing /\ Computes /\ Jumps /\ Accesses
  /\ state = "TRAP" => Trapped
  /\ state = "ABORTED" => asm.op = "LOAD3"

InstrInv == Begun /\ Typed /\ Staged

(* The instruction at hand is one an assembler takes.                      *)
LEMMA AsmEncodable == Begun => Encodable(asm) /\ asm.op \in Mnemonics \cup Others
BY Rv32iAssumption, Parts DEF Begun

(* The registers and words the instruction starts from are words.          *)
LEMMA Sources ==
  ASSUME Begun
  PROVE  /\ Rs1 \in Word /\ Rs2 \in Word
         /\ before.registers \in [0 .. 31 -> Word] /\ before.pc \in Word /\ before.mem \in Word
<1>1. before \in [registers : [0 .. 31 -> Word], pc : Word, mem : Word]
  BY DEF Begun
<1>2. asm.rs1 \in 0 .. 31 /\ asm.rs2 \in 0 .. 31
  BY AsmEncodable, Parts
<1>3. before.registers \in [0 .. 31 -> Word] /\ before.pc \in Word /\ before.mem \in Word
  BY <1>1
<1> QED
  BY <1>2, <1>3 DEF Rs1, Rs2

(* The word is decoded with nothing changed so far.                        *)
LEMMA InitInstr == Init => InstrInv
<1> SUFFICES ASSUME Init PROVE InstrInv
  OBVIOUS
<1>1. asm \in Programs /\ pc \in Word /\ mem \in Word
  BY Rv32iAssumption DEF Init
<1>2. registers \in [0 .. 31 -> Word]
  <2>1. PICK x \in Values, y \in Values : registers = Registers(asm, x, y)
    BY DEF Init
  <2>2. x \in Word /\ y \in Word /\ 0 \in Word
    BY Rv32iAssumption, WrapFacts
  <2> QED
    BY <2>1, <2>2 DEF Registers
<1>3. before = [registers |-> registers, pc |-> pc, mem |-> mem]
  BY DEF Init
<1>4. Begun
  BY <1>1, <1>2, <1>3 DEF Begun, Init
<1>5. dec \in Instr
  <2>1. 0 \in Word /\ 0 \in 0 .. 127 /\ 0 \in 0 .. 31 /\ 0 \in 0 .. 7
        /\ 0 \in Imm12 /\ 0 \in Imm20
    BY WrapFacts, SMT DEF Imm12, Imm20
  <2> QED
    BY <2>1, Zenon DEF Init, Instr, Types, Sizes
<1>6. Typed
  BY <1>1, <1>2, <1>5, WrapFacts DEF Typed, Init
<1>7. Untouched /\ mem = before.mem /\ state = "DECODE" /\ cause = "none"
  BY <1>3 DEF Untouched, Init
<1>8. Staged
  BY <1>7 DEF Staged
<1> QED
  BY <1>4, <1>6, <1>8 DEF InstrInv

----------------------------------------------------------------------------
(* decode.                                                                 *)

(* The opcode and the format of each group of instructions.                *)
LEMMA OpGroups ==
  ASSUME NEW o
  PROVE  /\ o \in AluR \cup {"MUL", "RESERVED"} => Opcode(o) = 51 /\ Format(o) = "R"
         /\ o \in AluI \cup ShiftI => Opcode(o) = 19 /\ Format(o) = "I"
         /\ o \in Loads \cup {"LOAD3"} => Opcode(o) = 3 /\ Format(o) = "I"
         /\ o \in Stores => Opcode(o) = 35 /\ Format(o) = "S"
         /\ o \in Branches \cup {"BRANCH2"} => Opcode(o) = 99 /\ Format(o) = "B"
         /\ o = "LUI" => Opcode(o) = 55 /\ Format(o) = "U"
         /\ o = "AUIPC" => Opcode(o) = 23 /\ Format(o) = "U"
         /\ o = "JAL" => Opcode(o) = 111 /\ Format(o) = "J"
         /\ o = "JALR" => Opcode(o) = 103 /\ Format(o) = "I"
         /\ o = "FENCE" => Opcode(o) = 15 /\ Format(o) = "I"
         /\ o \in {"ECALL", "EBREAK", "CSRRW"} => Opcode(o) = 115 /\ Format(o) = "I"
<1> USE DEF Opcode, Format, AluR, AluI, ShiftI, Loads, Stores, Branches
<1>1. o \in AluR \cup {"MUL", "RESERVED"} => Opcode(o) = 51 /\ Format(o) = "R" BY SMT
<1>2. o \in AluI \cup ShiftI => Opcode(o) = 19 /\ Format(o) = "I" BY SMT
<1>3. o \in Loads \cup {"LOAD3"} => Opcode(o) = 3 /\ Format(o) = "I" BY SMT
<1>4. o \in Stores => Opcode(o) = 35 /\ Format(o) = "S" BY SMT
<1>5. o \in Branches \cup {"BRANCH2"} => Opcode(o) = 99 /\ Format(o) = "B" BY SMT
<1>6. o = "LUI" => Opcode(o) = 55 /\ Format(o) = "U" BY SMT
<1>7. o = "AUIPC" => Opcode(o) = 23 /\ Format(o) = "U" BY SMT
<1>8. o = "JAL" => Opcode(o) = 111 /\ Format(o) = "J" BY SMT
<1>9. o = "JALR" => Opcode(o) = 103 /\ Format(o) = "I" BY SMT
<1>10. o = "FENCE" => Opcode(o) = 15 /\ Format(o) = "I" BY SMT
<1>11. o \in {"ECALL", "EBREAK", "CSRRW"} => Opcode(o) = 115 /\ Format(o) = "I" BY SMT
<1> QED
  <2> HIDE DEF Opcode, Format, AluR, AluI, ShiftI, Loads, Stores, Branches
  <2> QED
    BY <1>1, <1>2, <1>3, <1>4, <1>5, <1>6, <1>7, <1>8, <1>9, <1>10, <1>11

(* There are no others.                                                    *)
LEMMA OpKinds ==
  ASSUME NEW o \in Mnemonics \cup Others
  PROVE  \/ o \in AluR \cup {"MUL", "RESERVED"} \/ o \in AluI \cup ShiftI
         \/ o \in Loads \cup {"LOAD3"} \/ o \in Stores \/ o \in Branches \cup {"BRANCH2"}
         \/ o = "LUI" \/ o = "AUIPC" \/ o = "JAL" \/ o = "JALR" \/ o = "FENCE"
         \/ o \in {"ECALL", "EBREAK", "CSRRW"}
BY DEF Mnemonics, Others, WritesRd

(* decode_type_table has the format of every opcode but that of FENCE, and *)
(* a type of its own for the system instructions.                          *)
LEMMA OpTypes ==
  ASSUME NEW o \in Mnemonics \cup Others
  PROVE  decode_type_table[Opcode(o)] =
           IF o = "FENCE" THEN "Unknown"
           ELSE IF o \in {"ECALL", "EBREAK", "CSRRW"} THEN "C" ELSE Format(o)
<1> DEFINE t(c) ==
      CASE c \in {3, 19, 103} -> "I" [] c \in {23, 55} -> "U" [] c = 35 -> "S"
        [] c = 51 -> "R" [] c = 99 -> "B" [] c = 111 -> "J" [] c = 115 -> "C"
        [] OTHER -> "Unknown"
<1>1. \A c \in 0 .. 127 : decode_type_table[c] = t(c)
  BY SMT DEF decode_type_table
<1>2. decode_type_table[Opcode(o)] = t(Opcode(o))
  BY <1>1, OpRanges
<1>3. o = "FENCE" => o \notin {"ECALL", "EBREAK", "CSRRW"}
  OBVIOUS
<1>4. Format(o) \in {"R", "S", "B", "U", "J"} => o \notin {"FENCE", "ECALL", "EBREAK", "CSRRW"}
  BY OpGroups
<1>5. o \in AluI \cup ShiftI \cup Loads \cup {"LOAD3", "JALR"}
        => o \notin {"FENCE", "ECALL", "EBREAK", "CSRRW"}
  BY DEF AluI, ShiftI, Loads
<1>6. t(Opcode(o)) = IF o = "FENCE" THEN "Unknown"
                     ELSE IF o \in {"ECALL", "EBREAK", "CSRRW"} THEN "C" ELSE Format(o)
  BY OpGroups, OpKinds, <1>3, <1>4, <1>5, SMT
<1> QED
  BY <1>2, <1>6

(* The table has no other types.                                           *)
LEMMA TableTypes == \A c \in 0 .. 127 : decode_type_table[c] \in Types
BY SMT DEF decode_type_table, Types

(* The immediates an assembler takes.                                      *)
LEMMA ImmRanges ==
  ASSUME NEW m, Encodable(m)
  PROVE  LET f == Format(m.op)
         IN  /\ m.op \in ShiftI => f = "I" /\ m.imm \in 0 .. 31
             /\ f \in {"I", "S"} /\ m.op \notin ShiftI => -2048 =< m.imm /\ m.imm < 2048
             /\ f = "B" => -4096 =< m.imm /\ m.imm < 4096 /\ m.imm % 2 = 0
             /\ f = "U" => m.imm \in 0 .. 2^20 - 1
             /\ f = "J" => -1048576 =< m.imm /\ m.imm < 1048576 /\ m.imm % 2 = 0
<1>1. m.imm \in Int
  BY Parts
<1>2. m.op \in ShiftI => Format(m.op) = "I"
  BY DEF ShiftI, Format, AluR, Stores, Branches
<1> QED
  BY <1>1, <1>2, SMT DEF Encodable

(* The word at hand: its fields, as decode reads them.                     *)
WordFields ==
  LET o == asm.op
      f == Format(o)
  IN  /\ Field(instruction, 0, 7) = Opcode(o)
      /\ f \in {"R", "I", "U", "J"} => Field(instruction, 7, 5) = asm.rd
      /\ f \in {"R", "I", "S", "B"} => /\ Field(instruction, 12, 3) = Funct3(o)
                                       /\ Field(instruction, 15, 5) = asm.rs1
      /\ f \in {"R", "S", "B"} => Field(instruction, 20, 5) = asm.rs2
      /\ f = "R" => Field(instruction, 25, 7) = Funct7(o)

WordImmediates ==
  LET o == asm.op
      f == Format(o)
      s12(x) == SignExtend(x, 12)
      s20(x) == SignExtend(x, 20)
  IN  /\ f = "I" => /\ Field(instruction, 20, 12) \in Imm12
                    /\ o \notin ShiftI => s12(Field(instruction, 20, 12)) = asm.imm
                    /\ o \in ShiftI => Field(instruction, 20, 5) = asm.imm
      /\ f = "S" => ImmS(instruction) \in Imm12 /\ s12(ImmS(instruction)) = asm.imm
      /\ f = "B" => ImmB(instruction) \in Imm12 /\ s12(ImmB(instruction)) * 2 = asm.imm
      /\ f = "U" => Field(instruction, 12, 20) \in Imm20 /\ Field(instruction, 12, 20) = asm.imm
      /\ f = "J" => ImmJ(instruction) \in Imm20 /\ s20(ImmJ(instruction)) * 2 = asm.imm

(* They are the codes and registers of the instruction.                    *)
LEMMA WordFieldsHold == Begun => WordFields
BY AsmEncodable, FixedDecoded DEF Begun, WordFields

(* And its immediate.                                                      *)
LEMMA WordImmediatesHold ==
  ASSUME Begun
  PROVE  WordImmediates
<1> DEFINE x == asm.imm
           i == instruction
           f == Format(asm.op)
           y == Immediate(asm)
<1>1. Encodable(asm) /\ i = Assemble(asm)
  BY AsmEncodable DEF Begun
<1>2. x \in Int /\ y \in Int /\ asm.op \in Mnemonics \cup Others
  BY <1>1, Parts
<1>3. /\ f = "I" => Field(i, 20, 12) = y % 2^12 /\ Field(i, 20, 5) = y % 2^5
      /\ f = "S" => ImmS(i) = y % 2^12
      /\ f = "B" /\ y % 2 = 0 => ImmB(i) = (y % 2^13) \div 2
      /\ f = "U" => Field(i, 12, 20) = y % 2^20
      /\ f = "J" /\ y % 2 = 0 => ImmJ(i) = (y % 2^21) \div 2
  BY <1>1, ImmediateDecoded
<1>4. asm.op \notin ShiftI => y = x
  BY DEF Immediate
<1>5. asm.op \in ShiftI => f = "I" /\ x \in 0 .. 31 /\ (y = x \/ y = x + 1024)
  <2>1. asm.op \in ShiftI => f = "I" /\ x \in 0 .. 31 /\ Funct7(asm.op) \in {0, 32}
    BY <1>1, <1>2, ImmRanges, OpRanges
  <2> QED
    BY <1>2, <2>1, SMT DEF Immediate
<1>6. /\ f \in {"I", "S"} /\ asm.op \notin ShiftI => -2048 =< x /\ x < 2048
      /\ f = "B" => -4096 =< x /\ x < 4096 /\ x % 2 = 0
      /\ f = "U" => x \in 0 .. 2^20 - 1
      /\ f = "J" => -1048576 =< x /\ x < 1048576 /\ x % 2 = 0
  BY <1>1, ImmRanges
<1> HIDE DEF x, i, f, y
<1>7. f = "I" => /\ Field(i, 20, 12) \in Imm12
                 /\ asm.op \notin ShiftI => SignExtend(Field(i, 20, 12), 12) = x
                 /\ asm.op \in ShiftI => Field(i, 20, 5) = x
  <2>1. f = "I" => Field(i, 20, 12) \in Imm12
    BY <1>2, <1>3, SMT DEF Imm12
  <2>2. f = "I" /\ asm.op \notin ShiftI => SignExtend(Field(i, 20, 12), 12) = x
    BY <1>2, <1>3, <1>4, <1>6, Extend12, SMT
  <2>3. f = "I" /\ asm.op \in ShiftI => Field(i, 20, 5) = x
    BY <1>2, <1>3, <1>5, SMT
  <2> QED
    BY <2>1, <2>2, <2>3
<1>8. f # "I" => y = x
  BY <1>4, <1>5
<1>9. f = "S" => ImmS(i) \in Imm12 /\ SignExtend(ImmS(i), 12) = x
  <2>1. f = "S" => ImmS(i) = x % 2^12
    BY <1>3, <1>8
  <2>2. f = "S" => SignExtend(x % 2^12, 12) = x
    BY <1>2, <1>5, <1>6, Extend12, SMT
  <2> QED
    BY <1>2, <2>1, <2>2, SMT DEF Imm12
<1>10. f = "B" => ImmB(i) \in Imm12 /\ SignExtend(ImmB(i), 12) * 2 = x
  <2>1. f = "B" => ImmB(i) = (x % 2^13) \div 2
    BY <1>3, <1>6, <1>8
  <2>2. f = "B" => SignExtend((x % 2^13) \div 2, 12) * 2 = x
    BY <1>2, <1>6, Half12
  <2> QED
    BY <1>2, <2>1, <2>2, SMT DEF Imm12
<1>11. f = "U" => Field(i, 12, 20) \in Imm20 /\ Field(i, 12, 20) = x
  BY <1>2, <1>3, <1>6, <1>8, SMT DEF Imm20
<1>12. f = "J" => ImmJ(i) \in Imm20 /\ SignExtend(ImmJ(i), 20) * 2 = x
  <2>1. f = "J" => ImmJ(i) = (x % 2^21) \div 2
    BY <1>3, <1>6, <1>8
  <2>2. f = "J" => SignExtend((x % 2^21) \div 2, 20) * 2 = x
    BY <1>2, <1>6, Half20
  <2> QED
    BY <1>2, <2>1, <2>2, SMT DEF Imm20
<1> QED
  BY <1>7, <1>9, <1>10, <1>11, <1>12 DEF WordImmediates, x, i, f

(* instr_t, with what decode fills in.                                     *)
Filled(d, t, op, x, y, f3, sh, rd, f7, i12, i20) ==
  [d EXCEPT
     !.isJump = FALSE, !.writeRd = FALSE, !.readMem = FALSE, !.writeMem = FALSE,
     !.opcode = op, !.optype = t, !.rs1v = x, !.rs2v = y, !.funct3 = f3, !.shamt = sh,
     !.rd = rd, !.funct7 = f7, !.imm12 = i12, !.imm20 = i20]

(* The fields keep their ranges.                                           *)
LEMMA FilledInstr ==
  ASSUME NEW d \in Instr, NEW t \in Types, NEW op \in 0 .. 127, NEW x \in Word, NEW y \in Word,
         NEW f3 \in 0 .. 7, NEW sh \in 0 .. 31, NEW rd \in 0 .. 31, NEW f7 \in 0 .. 127,
         NEW i12 \in Imm12, NEW i20 \in Imm20
  PROVE  Filled(d, t, op, x, y, f3, sh, rd, f7, i12, i20) \in Instr
BY ZenonT(40) DEF Instr, Filled

(* decode fills in the fields its type has, and traps on FENCE only.       *)
LEMMA DecodeStep ==
  ASSUME Begun, Typed, Staged, decode
  PROVE  Typed' /\ Staged'
<1> DEFINE i == instruction
           o == asm.op
           f == Format(o)
           t == decode_type_table[Field(i, 0, 7)]
           i12 == CASE t = "I" -> Field(i, 20, 12) [] t = "S" -> ImmS(i)
                    [] t = "B" -> ImmB(i) [] OTHER -> dec.imm12
           i20 == CASE t = "U" -> Field(i, 12, 20) [] t = "J" -> ImmJ(i) [] OTHER -> dec.imm20
           f7 == IF t = "R" THEN Field(i, 25, 7) ELSE 0
<1>1. /\ dec \in Instr /\ registers \in [0 .. 31 -> Word] /\ aluOut \in Word
      /\ pc \in Word /\ mem \in Word
  BY DEF Typed
<1>2. /\ state = "DECODE" /\ cause = "none" /\ Untouched /\ mem = before.mem
      /\ UNCHANGED <<asm, before, instruction, aluOut, registers, pc, mem>>
  BY DEF decode, Staged
<1>3. dec' = Filled(dec, t, Field(i, 0, 7), registers[Field(i, 15, 5)],
                    registers[Field(i, 20, 5)], Field(i, 12, 3), Field(i, 20, 5),
                    Field(i, 7, 5), f7, i12, i20)
  BY DEF decode, Filled
<1>4. /\ t = "Unknown" => state' = "TRAP" /\ cause' = "ILLEGAL_INSTRUCTION"
      /\ t # "Unknown" => state' = "EXECUTE" /\ cause' = cause
  BY DEF decode, cause_trap, Stage
<1>5. /\ Field(i, 7, 5) \in 0 .. 31 /\ Field(i, 15, 5) \in 0 .. 31
      /\ Field(i, 20, 5) \in 0 .. 31 /\ Field(i, 12, 3) \in 0 .. 7
      /\ Field(i, 25, 7) \in 0 .. 127 /\ Field(i, 0, 7) \in 0 .. 127
  BY AsmEncodable, AssembledBits, FieldRanges DEF Begun
<1>6. WordFields /\ WordImmediates
  BY WordFieldsHold, WordImmediatesHold
<1>7. /\ o \in Mnemonics \cup Others /\ t = decode_type_table[Opcode(o)]
      /\ t = IF o = "FENCE" THEN "Unknown"
             ELSE IF o \in {"ECALL", "EBREAK", "CSRRW"} THEN "C" ELSE f
  BY <1>6, AsmEncodable, OpTypes DEF WordFields
<1>8. t \in Types /\ f7 \in 0 .. 127
  BY <1>5, TableTypes, SMT
<1>9. f \in {"R", "I", "S", "B", "U", "J"} /\ (t \in {"R", "I", "S", "B", "U", "J"} => f = t)
  BY <1>7, OpRanges, SMT
<1>10. /\ t = "I" => Field(i, 20, 12) \in Imm12
       /\ t = "S" => ImmS(i) \in Imm12
       /\ t = "B" => ImmB(i) \in Imm12
       /\ t = "U" => Field(i, 12, 20) \in Imm20
       /\ t = "J" => ImmJ(i) \in Imm20
  <2>1. f = "I" => Field(i, 20, 12) \in Imm12
    BY <1>6, Zenon DEF WordImmediates
  <2>2. f = "S" => ImmS(i) \in Imm12
    BY <1>6, Zenon DEF WordImmediates
  <2>3. f = "B" => ImmB(i) \in Imm12
    BY <1>6, Zenon DEF WordImmediates
  <2>4. f = "U" => Field(i, 12, 20) \in Imm20
    BY <1>6, Zenon DEF WordImmediates
  <2>5. f = "J" => ImmJ(i) \in Imm20
    BY <1>6, Zenon DEF WordImmediates
  <2> QED
    BY <1>9, <2>1, <2>2, <2>3, <2>4, <2>5, Zenon
<1>11. dec.imm12 \in Imm12 /\ dec.imm20 \in Imm20
  BY <1>1, Zenon DEF Instr
<1>12. i12 \in Imm12 /\ i20 \in Imm20
  BY <1>10, <1>11, Zenon
<1>13. /\ t = "I" => i12 = Field(i, 20, 12)
       /\ t = "S" => i12 = ImmS(i)
       /\ t = "B" => i12 = ImmB(i)
       /\ t = "U" => i20 = Field(i, 12, 20)
       /\ t = "J" => i20 = ImmJ(i)
  BY Zenon
<1>14. registers[Field(i, 15, 5)] \in Word /\ registers[Field(i, 20, 5)] \in Word
  BY <1>1, <1>5
<1> HIDE DEF t, i12, i20, f7
<1>15. dec' \in Instr
  BY <1>1, <1>3, <1>5, <1>8, <1>12, <1>14, FilledInstr, Zenon
<1>16. /\ dec'.opcode = Field(i, 0, 7) /\ dec'.optype = t
       /\ dec'.rs1v = registers[Field(i, 15, 5)] /\ dec'.rs2v = registers[Field(i, 20, 5)]
       /\ dec'.funct3 = Field(i, 12, 3) /\ dec'.shamt = Field(i, 20, 5)
       /\ dec'.rd = Field(i, 7, 5) /\ dec'.funct7 = f7 /\ dec'.imm12 = i12 /\ dec'.imm20 = i20
       /\ dec'.isJump = FALSE /\ dec'.writeRd = FALSE
       /\ dec'.readMem = FALSE /\ dec'.writeMem = FALSE
  BY <1>1, <1>3, SMT DEF Instr, Filled
<1>17. Typed'
  BY <1>1, <1>2, <1>4, <1>15, Zenon DEF Typed
<1>18. CASE t = "Unknown"
  <2>1. o = "FENCE"
    BY <1>7, <1>9, <1>18, SMT
  <2>2. Trapped'
    BY <1>2, <1>4, <1>18, <2>1 DEF Trapped
  <2> QED
    BY <1>4, <1>17, <1>18, <2>2 DEF Staged
<1>19. CASE t # "Unknown"
  <2>1. Untouched' /\ mem' = before'.mem /\ asm' = asm /\ Rs1' = Rs1 /\ Rs2' = Rs2
    BY <1>2 DEF Untouched, Rs1, Rs2
  <2>2. registers = before.registers
    BY <1>2 DEF Untouched
  <2>3. t \in {"R", "I", "S", "B"} => dec'.funct3 = Funct3(o) /\ dec'.rs1v = Rs1
    BY <1>6, <1>9, <1>16, <2>2 DEF WordFields, Rs1
  <2>4. t \in {"R", "S", "B"} => dec'.rs2v = Rs2
    BY <1>6, <1>9, <1>16, <2>2 DEF WordFields, Rs2
  <2>5. t \in {"R", "I", "U", "J"} => dec'.rd = asm.rd
    BY <1>6, <1>9, <1>16 DEF WordFields
  <2>6. dec'.funct7 = IF t = "R" THEN Funct7(o) ELSE 0
    BY <1>6, <1>9, <1>16 DEF WordFields, f7
  <2>7. o \in ShiftI => dec'.shamt = asm.imm
    <3>1. o \in ShiftI => f = "I"
      BY OpGroups
    <3> QED
      BY <1>6, <1>16, <3>1 DEF WordImmediates
  <2>8. t \in {"I", "S"} /\ o \notin ShiftI => SignExtend(dec'.imm12, 12) = asm.imm
    BY <1>6, <1>9, <1>13, <1>16 DEF WordImmediates
  <2>9. t = "B" => SignExtend(dec'.imm12, 12) * 2 = asm.imm
    BY <1>6, <1>9, <1>13, <1>16, Zenon DEF WordImmediates
  <2>10. t = "U" => dec'.imm20 = asm.imm
    BY <1>6, <1>9, <1>13, <1>16, Zenon DEF WordImmediates
  <2>11. t = "J" => SignExtend(dec'.imm20, 20) * 2 = asm.imm
    BY <1>6, <1>9, <1>13, <1>16, Zenon DEF WordImmediates
  <2>12. dec'.opcode = Opcode(o) /\ dec'.optype = t /\ t = decode_type_table[Opcode(o)]
    BY <1>6, <1>7, <1>16 DEF WordFields
  <2>13. ~dec'.isJump /\ ~dec'.writeRd /\ ~dec'.readMem /\ ~dec'.writeMem
    BY <1>16
  <2>14. Parsed'
    BY <1>19, <2>1, <2>3, <2>4, <2>5, <2>6, <2>7, <2>8, <2>9, <2>10, <2>11, <2>12, <2>13, Zenon
       DEF Parsed, se12, se20
  <2>15. state' = "EXECUTE" /\ cause' = "none"
    BY <1>2, <1>4, <1>19
  <2>16. Staged'
    BY <2>1, <2>14, <2>15 DEF Staged
  <2> QED
    BY <1>17, <2>16
<1> QED
  BY <1>17, <1>18, <1>19

----------------------------------------------------------------------------
(* execute.                                                                *)

(* opcode_t, number by number.                                             *)
LEMMA OpRows ==
  /\ OP.LUI = <<55, 0, 0>> /\ OP.AUIPC = <<23, 0, 0>> /\ OP.JAL = <<111, 0, 0>>
  /\ OP.JALR = <<103, 0, 0>> /\ OP.BEQ = <<99, 0, 0>> /\ OP.BNE = <<99, 1, 0>>
  /\ OP.BLT = <<99, 4, 0>> /\ OP.BGE = <<99, 5, 0>> /\ OP.BLTU = <<99, 6, 0>>
  /\ OP.BGEU = <<99, 7, 0>> /\ OP.LB = <<3, 0, 0>> /\ OP.LH = <<3, 1, 0>>
  /\ OP.LW = <<3, 2, 0>> /\ OP.LBU = <<3, 4, 0>> /\ OP.LHU = <<3, 5, 0>>
  /\ OP.SB = <<35, 0, 0>> /\ OP.SH = <<35, 1, 0>> /\ OP.SW = <<35, 2, 0>>
  /\ OP.ADDI = <<19, 0, 0>> /\ OP.SLTI = <<19, 2, 0>> /\ OP.SLTIU = <<19, 3, 0>>
  /\ OP.XORI = <<19, 4, 0>> /\ OP.ORI = <<19, 6, 0>> /\ OP.ANDI = <<19, 7, 0>>
  /\ OP.SLLI = <<19, 1, 0>> /\ OP.SRLI = <<19, 5, 0>> /\ OP.SRAI = <<19, 5, 1>>
  /\ OP.ADD = <<51, 0, 0>> /\ OP.SUB = <<51, 0, 1>> /\ OP.SLL = <<51, 1, 0>>
  /\ OP.SLT = <<51, 2, 0>> /\ OP.SLTU = <<51, 3, 0>> /\ OP.XOR = <<51, 4, 0>>
  /\ OP.SRL = <<51, 5, 0>> /\ OP.SRA = <<51, 5, 1>> /\ OP.OR = <<51, 6, 0>>
  /\ OP.AND = <<51, 7, 0>>
BY SMT DEF OP

(* No other codes are known.                                               *)
LEMMA OpNames == DOMAIN OP = AluR \cup AluI \cup ShiftI \cup Loads \cup Stores \cup Branches
                              \cup {"LUI", "AUIPC", "JAL", "JALR"}
BY DEF OP, AluR, AluI, ShiftI, Loads, Stores, Branches

(* The function codes of the manual's table, group by group.               *)
LEMMA FunctionCodes ==
  ASSUME NEW o
  PROVE  /\ o \in AluR \cup {"MUL", "RESERVED"} =>
              \/ o = "ADD" /\ Funct3(o) = 0 /\ Funct7(o) = 0
              \/ o = "SUB" /\ Funct3(o) = 0 /\ Funct7(o) = 32
              \/ o = "SLL" /\ Funct3(o) = 1 /\ Funct7(o) = 0
              \/ o = "SLT" /\ Funct3(o) = 2 /\ Funct7(o) = 0
              \/ o = "SLTU" /\ Funct3(o) = 3 /\ Funct7(o) = 0
              \/ o = "XOR" /\ Funct3(o) = 4 /\ Funct7(o) = 0
              \/ o = "SRL" /\ Funct3(o) = 5 /\ Funct7(o) = 0
              \/ o = "SRA" /\ Funct3(o) = 5 /\ Funct7(o) = 32
              \/ o = "OR" /\ Funct3(o) = 6 /\ Funct7(o) = 0
              \/ o = "AND" /\ Funct3(o) = 7 /\ Funct7(o) = 0
              \/ o = "MUL" /\ Funct3(o) = 0 /\ Funct7(o) = 1
              \/ o = "RESERVED" /\ Funct3(o) = 0 /\ Funct7(o) = 64
         /\ o \in AluI \cup ShiftI =>
              \/ o = "ADDI" /\ Funct3(o) = 0
              \/ o = "SLTI" /\ Funct3(o) = 2
              \/ o = "SLTIU" /\ Funct3(o) = 3
              \/ o = "XORI" /\ Funct3(o) = 4
              \/ o = "ORI" /\ Funct3(o) = 6
              \/ o = "ANDI" /\ Funct3(o) = 7
              \/ o = "SLLI" /\ Funct3(o) = 1
              \/ o = "SRLI" /\ Funct3(o) = 5
              \/ o = "SRAI" /\ Funct3(o) = 5
         /\ o \in Loads \cup {"LOAD3"} =>
              \/ o = "LB" /\ Funct3(o) = 0
              \/ o = "LH" /\ Funct3(o) = 1
              \/ o = "LW" /\ Funct3(o) = 2
              \/ o = "LBU" /\ Funct3(o) = 4
              \/ o = "LHU" /\ Funct3(o) = 5
              \/ o = "LOAD3" /\ Funct3(o) = 3
         /\ o \in Stores =>
              \/ o = "SB" /\ Funct3(o) = 0
              \/ o = "SH" /\ Funct3(o) = 1
              \/ o = "SW" /\ Funct3(o) = 2
         /\ o \in Branches \cup {"BRANCH2"} =>
              \/ o = "BEQ" /\ Funct3(o) = 0
              \/ o = "BNE" /\ Funct3(o) = 1
              \/ o = "BLT" /\ Funct3(o) = 4
              \/ o = "BGE" /\ Funct3(o) = 5
              \/ o = "BLTU" /\ Funct3(o) = 6
              \/ o = "BGEU" /\ Funct3(o) = 7
              \/ o = "BRANCH2" /\ Funct3(o) = 2
<1> USE DEF Funct3, Funct7, AluR, AluI, ShiftI, Loads, Stores, Branches
<1>1. o \in AluR \cup {"MUL", "RESERVED"} =>
        \/ o = "ADD" /\ Funct3(o) = 0 /\ Funct7(o) = 0
        \/ o = "SUB" /\ Funct3(o) = 0 /\ Funct7(o) = 32
        \/ o = "SLL" /\ Funct3(o) = 1 /\ Funct7(o) = 0
        \/ o = "SLT" /\ Funct3(o) = 2 /\ Funct7(o) = 0
        \/ o = "SLTU" /\ Funct3(o) = 3 /\ Funct7(o) = 0
        \/ o = "XOR" /\ Funct3(o) = 4 /\ Funct7(o) = 0
        \/ o = "SRL" /\ Funct3(o) = 5 /\ Funct7(o) = 0
        \/ o = "SRA" /\ Funct3(o) = 5 /\ Funct7(o) = 32
        \/ o = "OR" /\ Funct3(o) = 6 /\ Funct7(o) = 0
        \/ o = "AND" /\ Funct3(o) = 7 /\ Funct7(o) = 0
        \/ o = "MUL" /\ Funct3(o) = 0 /\ Funct7(o) = 1
        \/ o = "RESERVED" /\ Funct3(o) = 0 /\ Funct7(o) = 64
  BY SMT
<1>2. o \in AluI \cup ShiftI =>
        \/ o = "ADDI" /\ Funct3(o) = 0
        \/ o = "SLTI" /\ Funct3(o) = 2
        \/ o = "SLTIU" /\ Funct3(o) = 3
        \/ o = "XORI" /\ Funct3(o) = 4
        \/ o = "ORI" /\ Funct3(o) = 6
        \/ o = "ANDI" /\ Funct3(o) = 7
        \/ o = "SLLI" /\ Funct3(o) = 1
        \/ o = "SRLI" /\ Funct3(o) = 5
        \/ o = "SRAI" /\ Funct3(o) = 5
  BY SMT
<1>3. o \in Loads \cup {"LOAD3"} =>
        \/ o = "LB" /\ Funct3(o) = 0
        \/ o = "LH" /\ Funct3(o) = 1
        \/ o = "LW" /\ Funct3(o) = 2
        \/ o = "LBU" /\ Funct3(o) = 4
        \/ o = "LHU" /\ Funct3(o) = 5
        \/ o = "LOAD3" /\ Funct3(o) = 3
  BY SMT
<1>4. o \in Stores =>
        \/ o = "SB" /\ Funct3(o) = 0
        \/ o = "SH" /\ Funct3(o) = 1
        \/ o = "SW" /\ Funct3(o) = 2
  BY SMT
<1>5. o \in Branches \cup {"BRANCH2"} =>
        \/ o = "BEQ" /\ Funct3(o) = 0
        \/ o = "BNE" /\ Funct3(o) = 1
        \/ o = "BLT" /\ Funct3(o) = 4
        \/ o = "BGE" /\ Funct3(o) = 5
        \/ o = "BLTU" /\ Funct3(o) = 6
        \/ o = "BGEU" /\ Funct3(o) = 7
        \/ o = "BRANCH2" /\ Funct3(o) = 2
  BY SMT
<1> QED
  <2> HIDE DEF Funct3, Funct7, AluR, AluI, ShiftI, Loads, Stores, Branches
  <2> QED
    BY <1>1, <1>2, <1>3, <1>4, <1>5

(* The type decode found tells the group of the instruction.               *)
LEMMA TypeGroups ==
  ASSUME NEW o \in Mnemonics \cup Others, NEW t, t = decode_type_table[Opcode(o)]
  PROVE  /\ t = "R" => o \in AluR \cup {"MUL", "RESERVED"}
         /\ t = "I" => o \in AluI \cup ShiftI \cup Loads \cup {"LOAD3", "JALR"}
         /\ t = "S" => o \in Stores
         /\ t = "B" => o \in Branches \cup {"BRANCH2"}
         /\ t = "U" => o \in {"LUI", "AUIPC"}
         /\ t = "J" => o = "JAL"
         /\ t = "C" => o \in {"ECALL", "EBREAK", "CSRRW"}
BY OpTypes, OpGroups, OpKinds

(* Each power of two up to the width is a number.                          *)
Power(k, n, v) == k = n /\ 2^k = v
PowerIs(k) ==
  \/ Power(k, 0, 1) \/ Power(k, 1, 2) \/ Power(k, 2, 4) \/ Power(k, 3, 8)
  \/ Power(k, 4, 16) \/ Power(k, 5, 32) \/ Power(k, 6, 64) \/ Power(k, 7, 128)
  \/ Power(k, 8, 256) \/ Power(k, 9, 512) \/ Power(k, 10, 1024) \/ Power(k, 11, 2048)
  \/ Power(k, 12, 4096) \/ Power(k, 13, 8192) \/ Power(k, 14, 16384) \/ Power(k, 15, 32768)
  \/ Power(k, 16, 65536) \/ Power(k, 17, 131072) \/ Power(k, 18, 262144) \/ Power(k, 19, 524288)
  \/ Power(k, 20, 1048576) \/ Power(k, 21, 2097152) \/ Power(k, 22, 4194304) \/ Power(k, 23, 8388608)
  \/ Power(k, 24, 16777216) \/ Power(k, 25, 33554432) \/ Power(k, 26, 67108864) \/ Power(k, 27, 134217728)
  \/ Power(k, 28, 268435456) \/ Power(k, 29, 536870912) \/ Power(k, 30, 1073741824) \/ Power(k, 31, 2147483648)
  \/ Power(k, 32, 4294967296)

(* The powers of two by which the program shifts.                          *)
LEMMA PowersHold == ASSUME NEW k \in 0 .. 32 PROVE PowerIs(k)
<1>0. k = 0 => Power(k, 0, 1) BY SMT DEF Power
<1>1. k = 1 => Power(k, 1, 2) BY SMT DEF Power
<1>2. k = 2 => Power(k, 2, 4) BY SMT DEF Power
<1>3. k = 3 => Power(k, 3, 8) BY SMT DEF Power
<1>4. k = 4 => Power(k, 4, 16) BY SMT DEF Power
<1>5. k = 5 => Power(k, 5, 32) BY SMT DEF Power
<1>6. k = 6 => Power(k, 6, 64) BY SMT DEF Power
<1>7. k = 7 => Power(k, 7, 128) BY SMT DEF Power
<1>8. k = 8 => Power(k, 8, 256) BY SMT DEF Power
<1>9. k = 9 => Power(k, 9, 512) BY SMT DEF Power
<1>10. k = 10 => Power(k, 10, 1024) BY SMT DEF Power
<1>11. k = 11 => Power(k, 11, 2048) BY SMT DEF Power
<1>12. k = 12 => Power(k, 12, 4096) BY SMT DEF Power
<1>13. k = 13 => Power(k, 13, 8192) BY SMT DEF Power
<1>14. k = 14 => Power(k, 14, 16384) BY SMT DEF Power
<1>15. k = 15 => Power(k, 15, 32768) BY SMT DEF Power
<1>16. k = 16 => Power(k, 16, 65536) BY SMT DEF Power
<1>17. k = 17 => Power(k, 17, 131072) BY SMT DEF Power
<1>18. k = 18 => Power(k, 18, 262144) BY SMT DEF Power
<1>19. k = 19 => Power(k, 19, 524288) BY SMT DEF Power
<1>20. k = 20 => Power(k, 20, 1048576) BY SMT DEF Power
<1>21. k = 21 => Power(k, 21, 2097152) BY SMT DEF Power
<1>22. k = 22 => Power(k, 22, 4194304) BY SMT DEF Power
<1>23. k = 23 => Power(k, 23, 8388608) BY SMT DEF Power
<1>24. k = 24 => Power(k, 24, 16777216) BY SMT DEF Power
<1>25. k = 25 => Power(k, 25, 33554432) BY SMT DEF Power
<1>26. k = 26 => Power(k, 26, 67108864) BY SMT DEF Power
<1>27. k = 27 => Power(k, 27, 134217728) BY SMT DEF Power
<1>28. k = 28 => Power(k, 28, 268435456) BY SMT DEF Power
<1>29. k = 29 => Power(k, 29, 536870912) BY SMT DEF Power
<1>30. k = 30 => Power(k, 30, 1073741824) BY SMT DEF Power
<1>31. k = 31 => Power(k, 31, 2147483648) BY SMT DEF Power
<1>32. k = 32 => Power(k, 32, 4294967296) BY SMT DEF Power
<1> QED
  BY <1>0, <1>1, <1>2, <1>3, <1>4, <1>5, <1>6, <1>7, <1>8, <1>9, <1>10, <1>11, <1>12, <1>13, <1>14,
     <1>15, <1>16, <1>17, <1>18, <1>19, <1>20, <1>21, <1>22, <1>23, <1>24, <1>25, <1>26, <1>27, <1>28,
     <1>29, <1>30, <1>31, <1>32, SMT DEF PowerIs

(* Shifting by n and by the rest of the width makes the width.             *)
LEMMA PowerSplit ==
  ASSUME NEW n \in 0 .. 31, n < XLEN
  PROVE  /\ 2^n \in Nat \ {0} /\ 2^(XLEN - n) \in Nat \ {0}
         /\ 2^(XLEN - n) * 2^n = 2^XLEN
<1>1. XLEN \in 21 .. 32
  BY XlenAssumption
<1>2. n \in 0 .. 32 /\ XLEN - n \in 0 .. 32
  BY <1>1, SMT
<1>3. PowerIs(n) /\ PowerIs(XLEN - n)
  BY <1>2, PowersHold, Zenon
<1>4. PowerIs(XLEN)
  BY <1>1, PowersHold, SMT
<1> QED
  BY <1>1, <1>3, <1>4, SMTT(60) DEF PowerIs, Power

(* A number cut to p and scaled by q stays below p * q; a quotient does    *)
(* not grow.                                                               *)
LEMMA Scaled ==
  ASSUME NEW p \in Nat \ {0}, NEW q \in Nat \ {0}, NEW x \in Nat
  PROVE  /\ (x % p) * q \in Nat /\ (x % p) * q < p * q
         /\ x \div q \in Nat /\ x \div q =< x
<1>1. x % p \in 0 .. p - 1
  BY SMT
<1>2. \A r \in 0 .. p - 1 : r * q \in Nat /\ r * q < p * q
  BY SMT
<1>3. x \div q \in Nat /\ x \div q =< x
  BY SMT
<1> QED
  BY <1>1, <1>2, <1>3

(* << and >> of uint32_t.                                                  *)
LEMMA ShiftsInWord ==
  ASSUME NEW x \in Word, NEW n \in 0 .. 31
  PROVE  Shl(x, n) \in Word /\ Shr(x, n) \in Word
<1>1. CASE n < XLEN
  <2> DEFINE p == 2^(XLEN - n)
             q == 2^n
             m == 2^XLEN
  <2>1. p \in Nat \ {0} /\ q \in Nat \ {0} /\ p * q = m
    BY <1>1, PowerSplit
  <2>2. x \in Nat /\ x < m /\ m \in Nat /\ Word = 0 .. m - 1
    BY WidthsHold, SMT DEF Widths, Sized, Word
  <2>3. Shl(x, n) = (x % p) * q /\ Shr(x, n) = x \div q
    BY <1>1 DEF Shl, Shr
  <2> HIDE DEF p, q, m
  <2>4. /\ (x % p) * q \in Nat /\ (x % p) * q < p * q
        /\ x \div q \in Nat /\ x \div q =< x
    BY <2>1, <2>2, Scaled
  <2> QED
    BY <2>1, <2>2, <2>3, <2>4, SMT
<1>2. CASE ~(n < XLEN)
  BY <1>2, WrapFacts DEF Shl, Shr
<1> QED
  BY <1>1, <1>2

(* >> of uint32_t is the arithmetic shift where the sign is not set.       *)
LEMMA ArithmeticShift ==
  ASSUME NEW x \in Word, NEW n \in 0 .. 31, Signed(x) >= 0
  PROVE  Shr(x, n) = IF n < XLEN THEN Wrap(Signed(x) \div 2^n)
                     ELSE Wrap(Signed(x) \div 2^(XLEN - 1))
<1>1. Signed(x) = x /\ x \in Int /\ 0 =< x /\ x < 2^(XLEN - 1)
  BY WidthsHold, SMT DEF Widths, Sized, Word, Signed
<1>2. CASE n < XLEN
  BY <1>1, <1>2, ShiftsInWord, WrapFacts DEF Shr
<1>3. CASE ~(n < XLEN)
  <2>1. x \div 2^(XLEN - 1) = 0
    BY <1>1, WidthsHold, SMT DEF Widths, Sized
  <2> QED
    BY <1>1, <1>3, <2>1, WrapFacts DEF Shr
<1> QED
  BY <1>2, <1>3

(* What the manual says of each arithmetic instruction.                    *)
LEMMA ArithRows ==
  ASSUME NEW o, NEW x, NEW y
  PROVE  /\ o \in {"ADD", "ADDI"} => Arith(o, x, y) = Wrap(x + y)
         /\ o = "SUB" => Arith(o, x, y) = Wrap(x - y)
         /\ o \in {"SLT", "SLTI"} => Arith(o, x, y) = Flag(Signed(x) < Signed(y))
         /\ o \in {"SLTU", "SLTIU"} => Arith(o, x, y) = Flag(x < y)
         /\ o \in {"XOR", "XORI"} => Arith(o, x, y) = Xor(x, y)
         /\ o \in {"OR", "ORI"} => Arith(o, x, y) = Or(x, y)
         /\ o \in {"AND", "ANDI"} => Arith(o, x, y) = And(x, y)
         /\ o \in {"SLL", "SLLI"} => Arith(o, x, y) = Shl(x, y % 32)
         /\ o \in {"SRL", "SRLI"} => Arith(o, x, y) = Shr(x, y % 32)
         /\ o \in {"SRA", "SRAI"} =>
              Arith(o, x, y) = IF y % 32 < XLEN THEN Wrap(Signed(x) \div 2^(y % 32))
                               ELSE Wrap(Signed(x) \div 2^(XLEN - 1))
<1> USE DEF Arith
<1>1. o \in {"ADD", "ADDI"} => Arith(o, x, y) = Wrap(x + y)
  OBVIOUS
<1>2. o = "SUB" => Arith(o, x, y) = Wrap(x - y)
  OBVIOUS
<1>3. o \in {"SLT", "SLTI"} => Arith(o, x, y) = Flag(Signed(x) < Signed(y))
  BY DEF Flag
<1>4. o \in {"SLTU", "SLTIU"} => Arith(o, x, y) = Flag(x < y)
  BY DEF Flag
<1>5. o \in {"XOR", "XORI"} => Arith(o, x, y) = Xor(x, y)
  OBVIOUS
<1>6. o \in {"OR", "ORI"} => Arith(o, x, y) = Or(x, y)
  OBVIOUS
<1>7. o \in {"AND", "ANDI"} => Arith(o, x, y) = And(x, y)
  OBVIOUS
<1>8. o \in {"SLL", "SLLI"} => Arith(o, x, y) = Shl(x, y % 32)
  BY DEF Shl
<1>9. o \in {"SRL", "SRLI"} => Arith(o, x, y) = Shr(x, y % 32)
  BY DEF Shr
<1>10. o \in {"SRA", "SRAI"} =>
         Arith(o, x, y) = IF y % 32 < XLEN THEN Wrap(Signed(x) \div 2^(y % 32))
                          ELSE Wrap(Signed(x) \div 2^(XLEN - 1))
  OBVIOUS
<1> HIDE DEF Arith
<1> QED
  BY <1>1, <1>2, <1>3, <1>4, <1>5, <1>6, <1>7, <1>8, <1>9, <1>10

(* And of every other instruction that writes rd.                          *)
LEMMA ValueRows ==
  LET o == asm.op
      w == before.mem
  IN  /\ o \in AluR => Value = Arith(o, Rs1, Rs2)
      /\ o \in AluI \cup ShiftI => Value = Arith(o, Rs1, Wrap(asm.imm))
      /\ o = "LUI" => Value = Upper(asm.imm)
      /\ o = "AUIPC" => Value = Wrap(before.pc + Upper(asm.imm))
      /\ o \in {"JAL", "JALR"} => Value = Wrap(before.pc + 4)
      /\ o = "LW" => Value = w
      /\ o = "LHU" => Value = w % 2^16
      /\ o = "LBU" => Value = w % 2^8
      /\ o = "LH" => Value = Wrap(SignExtend(w % 2^16, 16))
      /\ o = "LB" => Value = Wrap(SignExtend(w % 2^8, 8))
<1> DEFINE o == asm.op
           w == before.mem
<1> USE DEF Value, RdValue, AluR, AluI, ShiftI
<1>1. o \in AluR => Value = Arith(o, Rs1, Rs2)
  BY SMT
<1>2. o \in AluI \cup ShiftI => Value = Arith(o, Rs1, Wrap(asm.imm))
  BY SMT
<1>3. o = "LUI" => Value = Upper(asm.imm)
  BY SMT
<1>4. o = "AUIPC" => Value = Wrap(before.pc + Upper(asm.imm))
  BY SMT
<1>5. o \in {"JAL", "JALR"} => Value = Wrap(before.pc + 4)
  BY SMT
<1>6. o = "LW" => Value = w
  BY SMT
<1>7. o = "LHU" => Value = w % 2^16
  BY SMT
<1>8. o = "LBU" => Value = w % 2^8
  BY SMT
<1>9. o = "LH" => Value = Wrap(SignExtend(w % 2^16, 16))
  BY SMT
<1>10. o = "LB" => Value = Wrap(SignExtend(w % 2^8, 8))
  BY SMT
<1> QED
  <2> HIDE DEF Value, RdValue, AluR, AluI, ShiftI
  <2> QED
    BY <1>1, <1>2, <1>3, <1>4, <1>5, <1>6, <1>7, <1>8, <1>9, <1>10, Zenon

(* What the manual says of where the program goes on.                      *)
LEMMA NextRows ==
  LET o == asm.op
      next == NextPc(asm, Rs1, Rs2, before.pc)
  IN  /\ o = "JAL" => next = Wrap(before.pc + asm.imm)
      /\ o = "JALR" => next = Wrap(Rs1 + asm.imm) - (Wrap(Rs1 + asm.imm) % 2)
      /\ o \in Branches => next = Wrap(before.pc + (IF Taken(o, Rs1, Rs2) THEN asm.imm ELSE 4))
      /\ o \notin Branches \cup {"JAL", "JALR"} => next = Wrap(before.pc + 4)
<1> DEFINE o == asm.op
           next == NextPc(asm, Rs1, Rs2, before.pc)
<1>1. o = "JAL" => next = Wrap(before.pc + asm.imm)
  BY SMT DEF NextPc, Branches
<1>2. o = "JALR" => next = Wrap(Rs1 + asm.imm) - (Wrap(Rs1 + asm.imm) % 2)
  BY SMT DEF NextPc, Branches
<1>3. o \in Branches => next = Wrap(before.pc + (IF Taken(o, Rs1, Rs2) THEN asm.imm ELSE 4))
  BY SMT DEF NextPc, Branches
<1>4. o \notin Branches \cup {"JAL", "JALR"} => next = Wrap(before.pc + 4)
  BY SMT DEF NextPc, Branches
<1> QED
  BY <1>1, <1>2, <1>3, <1>4

(* The groups have no instruction in common.                               *)
LEMMA GroupsApart ==
  ASSUME NEW o
  PROVE  /\ o \in AluR \cup AluI \cup ShiftI \cup {"LUI", "AUIPC"} =>
              /\ o \notin Loads \cup Stores \cup Branches \cup {"JAL", "JALR"}
              /\ o \in WritesRd /\ o \in Completing
         /\ o \in Loads => /\ o \notin Stores \cup Branches \cup {"JAL", "JALR"}
                           /\ o \in WritesRd /\ o \in Completing
         /\ o \in {"JAL", "JALR"} => /\ o \notin Loads \cup Stores \cup Branches
                                      /\ o \in WritesRd /\ o \in Completing
         /\ o \in Stores => /\ o \notin Loads \cup WritesRd \cup Branches \cup {"MUL", "JAL", "JALR"}
                            /\ o \in Completing
         /\ o \in Branches => /\ o \notin Loads \cup Stores \cup WritesRd \cup {"MUL", "JAL", "JALR"}
                              /\ o \in Completing
         /\ o = "MUL" => /\ o \notin Loads \cup Stores \cup WritesRd \cup Mnemonics
                         /\ o \in Completing
         /\ o = "BRANCH2" => /\ o \notin Loads \cup Stores \cup WritesRd \cup Mnemonics \cup {"MUL"}
                             /\ o \in Completing
<1> USE DEF AluR, AluI, ShiftI, Loads, Stores, Branches, WritesRd, Completing, Mnemonics
<1>1. o \in AluR \cup AluI \cup ShiftI \cup {"LUI", "AUIPC"} =>
        /\ o \notin Loads \cup Stores \cup Branches \cup {"JAL", "JALR"}
        /\ o \in WritesRd /\ o \in Completing
  BY SMT
<1>2. o \in Loads => /\ o \notin Stores \cup Branches \cup {"JAL", "JALR"}
                     /\ o \in WritesRd /\ o \in Completing
  BY SMT
<1>3. o \in {"JAL", "JALR"} => /\ o \notin Loads \cup Stores \cup Branches
                               /\ o \in WritesRd /\ o \in Completing
  BY SMT
<1>4. o \in Stores => /\ o \notin Loads \cup WritesRd \cup Branches \cup {"MUL", "JAL", "JALR"}
                      /\ o \in Completing
  BY SMT
<1>5. o \in Branches => /\ o \notin Loads \cup Stores \cup WritesRd \cup {"MUL", "JAL", "JALR"}
                        /\ o \in Completing
  BY SMT
<1>6. o = "MUL" => /\ o \notin Loads \cup Stores \cup WritesRd \cup Mnemonics
                   /\ o \in Completing
  BY SMT
<1>7. o = "BRANCH2" => /\ o \notin Loads \cup Stores \cup WritesRd \cup Mnemonics \cup {"MUL"}
                       /\ o \in Completing
  BY SMT
<1> QED
  <2> HIDE DEF AluR, AluI, ShiftI, Loads, Stores, Branches, WritesRd, Completing, Mnemonics
  <2> QED
    BY <1>1, <1>2, <1>3, <1>4, <1>5, <1>6, <1>7

(* What execute leaves for arithmetic.                                     *)
Computing(d) == [d EXCEPT !.writeRd = TRUE]

(* Nothing else in instr_t changes.                                        *)
LEMMA ComputingInstr ==
  ASSUME NEW d \in Instr
  PROVE  LET e == Computing(d)
         IN  /\ e \in Instr
             /\ e.writeRd = TRUE /\ e.isJump = d.isJump /\ e.readMem = d.readMem /\ e.writeMem = d.writeMem
             /\ e.rd = d.rd /\ e.memOffset = d.memOffset /\ e.bits = d.bits /\ e.jumpTarget = d.jumpTarget
<1>1. Computing(d) \in Instr
  BY ZenonT(40) DEF Instr, Computing
<1> DEFINE e == Computing(d)
<1>2. /\ e.writeRd = TRUE /\ e.isJump = d.isJump /\ e.readMem = d.readMem /\ e.writeMem = d.writeMem
      /\ e.rd = d.rd /\ e.memOffset = d.memOffset /\ e.bits = d.bits /\ e.jumpTarget = d.jumpTarget
  BY SMT DEF Instr, Computing
<1> QED
  BY <1>1, <1>2

(* What execute leaves for a load.                                         *)
Loading(d, a, b) == [d EXCEPT !.writeRd = TRUE, !.readMem = TRUE, !.memOffset = a, !.bits = b]

(* The fields it sets, and those it leaves alone.                          *)
LoadSet(e, d, a, b) ==
  /\ e \in Instr
  /\ e.writeRd = TRUE /\ e.readMem = TRUE /\ e.memOffset = a /\ e.bits = b
  /\ e.isJump = d.isJump /\ e.writeMem = d.writeMem /\ e.rd = d.rd /\ e.jumpTarget = d.jumpTarget

(* That is all it changes.                                                 *)
LEMMA LoadingInstr ==
  ASSUME NEW d \in Instr, NEW a \in Word, NEW b \in Sizes
  PROVE  LoadSet(Loading(d, a, b), d, a, b)
<1>1. Loading(d, a, b) \in Instr
  BY ZenonT(40) DEF Instr, Loading
<1> DEFINE e == Loading(d, a, b)
<1>2. /\ e.writeRd = TRUE /\ e.readMem = TRUE /\ e.memOffset = a /\ e.bits = b
      /\ e.isJump = d.isJump /\ e.writeMem = d.writeMem /\ e.rd = d.rd /\ e.jumpTarget = d.jumpTarget
  BY SMT DEF Instr, Loading
<1> QED
  BY <1>1, <1>2 DEF LoadSet

(* What execute leaves for a store.                                        *)
Storing(d, a, b) == [d EXCEPT !.writeMem = TRUE, !.memOffset = a, !.bits = b]

(* The fields it sets, and those it leaves alone.                          *)
StoreSet(e, d, a, b) ==
  /\ e \in Instr
  /\ e.writeMem = TRUE /\ e.memOffset = a /\ e.bits = b /\ e.isJump = d.isJump
  /\ e.writeRd = d.writeRd /\ e.readMem = d.readMem /\ e.rd = d.rd /\ e.jumpTarget = d.jumpTarget

(* That is all it changes.                                                 *)
LEMMA StoringInstr ==
  ASSUME NEW d \in Instr, NEW a \in Word, NEW b \in Sizes
  PROVE  StoreSet(Storing(d, a, b), d, a, b)
<1>1. Storing(d, a, b) \in Instr
  BY ZenonT(40) DEF Instr, Storing
<1> DEFINE e == Storing(d, a, b)
<1>2. /\ e.writeMem = TRUE /\ e.memOffset = a /\ e.bits = b /\ e.isJump = d.isJump
      /\ e.writeRd = d.writeRd /\ e.readMem = d.readMem /\ e.rd = d.rd /\ e.jumpTarget = d.jumpTarget
  BY SMT DEF Instr, Storing
<1> QED
  BY <1>1, <1>2 DEF StoreSet

(* What execute leaves for JAL and JALR.                                   *)
Jumping(d, a) == [d EXCEPT !.writeRd = TRUE, !.isJump = TRUE, !.jumpTarget = a]

(* Nothing else in instr_t changes.                                        *)
LEMMA JumpingInstr ==
  ASSUME NEW d \in Instr, NEW a \in Word
  PROVE  LET e == Jumping(d, a)
         IN  /\ e \in Instr
             /\ e.writeRd = TRUE /\ e.isJump = TRUE /\ e.jumpTarget = a /\ e.readMem = d.readMem
             /\ e.writeMem = d.writeMem /\ e.rd = d.rd /\ e.memOffset = d.memOffset /\ e.bits = d.bits
<1>1. Jumping(d, a) \in Instr
  BY ZenonT(40) DEF Instr, Jumping
<1> DEFINE e == Jumping(d, a)
<1>2. /\ e.writeRd = TRUE /\ e.isJump = TRUE /\ e.jumpTarget = a /\ e.readMem = d.readMem
      /\ e.writeMem = d.writeMem /\ e.rd = d.rd /\ e.memOffset = d.memOffset /\ e.bits = d.bits
  BY SMT DEF Instr, Jumping
<1> QED
  BY <1>1, <1>2

(* What execute leaves for a branch.                                       *)
Branching(d, a, j) == [d EXCEPT !.jumpTarget = a, !.isJump = j]

(* The fields it sets, and those it leaves alone.                          *)
BranchSet(e, d, a, j) ==
  /\ e \in Instr
  /\ e.jumpTarget = a /\ e.isJump = j /\ e.writeRd = d.writeRd /\ e.readMem = d.readMem
  /\ e.writeMem = d.writeMem /\ e.rd = d.rd /\ e.memOffset = d.memOffset /\ e.bits = d.bits

(* That is all it changes.                                                 *)
LEMMA BranchingInstr ==
  ASSUME NEW d \in Instr, NEW a \in Word, NEW j \in BOOLEAN
  PROVE  BranchSet(Branching(d, a, j), d, a, j)
<1>1. Branching(d, a, j) \in Instr
  BY ZenonT(40) DEF Instr, Branching
<1> DEFINE e == Branching(d, a, j)
<1>2. /\ e.jumpTarget = a /\ e.isJump = j /\ e.writeRd = d.writeRd /\ e.readMem = d.readMem
      /\ e.writeMem = d.writeMem /\ e.rd = d.rd /\ e.memOffset = d.memOffset /\ e.bits = d.bits
  BY SMT DEF Instr, Branching
<1> QED
  BY <1>1, <1>2 DEF BranchSet

(* execute, entered after decode.                                          *)
Ready ==
  /\ Begun /\ Typed /\ Parsed
  /\ Untouched /\ mem = before.mem /\ cause = "none"

(* What it leaves alone when it goes on to memory_access.                  *)
Passed ==
  /\ UNCHANGED <<asm, before, instruction, registers, pc, mem>>
  /\ state' = "MEMORY" /\ cause' = cause

(* The instruction and what it started from stay the same.                 *)
LEMMA SameInstruction ==
  ASSUME UNCHANGED <<asm, before>>
  PROVE  /\ Rs1' = Rs1 /\ Rs2' = Rs2 /\ Value' = Value /\ SignLost' = SignLost
         /\ (Aimed' <=> \/ (IF dec'.isJump THEN dec'.jumpTarget ELSE Wrap(before.pc + 4))
                             = NextPc(asm, Rs1, Rs2, before.pc)
                        \/ asm.op = "JALR" /\ Wrap(Rs1 + asm.imm) % 2 = 1)
<1>1. Rs1' = Rs1 /\ Rs2' = Rs2
  BY DEF Rs1, Rs2
<1>2. Value' = Value
  BY <1>1 DEF Value
<1>3. SignLost' = SignLost
  BY <1>1 DEF SignLost
<1> QED
  BY <1>1, <1>2, <1>3 DEF Aimed

(* What execute has to leave for the next stage.                           *)
LEMMA ToMemory ==
  ASSUME Ready, Passed, dec' \in Instr, aluOut' \in Word,
         Flagged', asm.op \in Mnemonics => Aimed',
         asm.op \in WritesRd \ Loads /\ ~SignLost => aluOut' = Value,
         asm.op \in Stores => aluOut' = Rs2 % 2^(dec'.bits)
  PROVE  Typed' /\ Staged'
<1>1. /\ asm' = asm /\ before' = before /\ registers' = registers /\ pc' = pc /\ mem' = mem
      /\ state' = "MEMORY" /\ cause' = "none"
  BY DEF Ready, Passed
<1>2. Typed'
  BY <1>1 DEF Ready, Typed
<1>3. Untouched' /\ mem' = before'.mem
  BY <1>1 DEF Ready, Untouched
<1>4. Rs2' = Rs2 /\ Value' = Value /\ SignLost' = SignLost
  BY <1>1, SameInstruction
<1>5. Resulted(WritesRd \ Loads)'
  BY <1>1, <1>4 DEF Resulted
<1>6. Executed'
  BY <1>1, <1>3, <1>4, <1>5 DEF Executed
<1> QED
  BY <1>1, <1>2, <1>3, <1>6 DEF Staged

(* decode cleared the flags.                                               *)
LEMMA ReadyFlags ==
  ASSUME Ready
  PROVE  /\ dec \in Instr /\ dec.isJump = FALSE /\ dec.writeRd = FALSE
         /\ dec.readMem = FALSE /\ dec.writeMem = FALSE
         /\ pc = before.pc /\ Rs1 \in Word /\ Rs2 \in Word /\ pc \in Word /\ aluOut \in Word
         /\ asm.op \in Mnemonics \cup Others /\ asm.imm \in Int /\ Encodable(asm)
<1>1. Begun /\ Typed /\ Parsed /\ Untouched
  BY DEF Ready
<1>2. dec \in Instr /\ pc \in Word /\ aluOut \in Word
  BY <1>1 DEF Typed
<1>3. dec.isJump \in BOOLEAN /\ dec.writeRd \in BOOLEAN /\ dec.readMem \in BOOLEAN /\ dec.writeMem \in BOOLEAN
  BY <1>2 DEF Instr
<1>4. ~dec.isJump /\ ~dec.writeRd /\ ~dec.readMem /\ ~dec.writeMem
  BY <1>1 DEF Parsed
<1>5. Encodable(asm) /\ asm.op \in Mnemonics \cup Others /\ asm.imm \in Int
  BY <1>1, AsmEncodable, Parts
<1> QED
  BY <1>1, <1>2, <1>3, <1>4, <1>5, Sources DEF Untouched

(* Arithmetic: the result is in aluOut, and pc goes to the next word.      *)
LEMMA AluDone ==
  ASSUME Ready, Passed, NEW v \in Word, aluOut' = v, dec' = Computing(dec),
         dec.optype \in {"R", "I", "U"},
         asm.op \in AluR \cup AluI \cup ShiftI \cup {"LUI", "AUIPC", "MUL"},
         asm.op # "MUL" /\ ~SignLost => v = Value
  PROVE  Typed' /\ Staged'
<1> DEFINE o == asm.op
<1>1. asm' = asm /\ before' = before
  BY DEF Passed
<1>2. /\ dec' \in Instr /\ dec'.isJump = FALSE /\ dec'.writeRd = TRUE
      /\ dec'.readMem = FALSE /\ dec'.writeMem = FALSE /\ dec'.rd = dec.rd
  BY ReadyFlags, ComputingInstr
<1>3. /\ o \notin Loads \cup Stores \cup Branches \cup {"JAL", "JALR"}
      /\ o \in WritesRd \cup {"MUL"} /\ o \in Completing
  BY GroupsApart
<1>4. dec.rd = asm.rd
  BY DEF Ready, Parsed
<1>5. Flagged'
  <2>1. /\ (o \in Loads) = FALSE /\ (o \in Stores) = FALSE
        /\ (o \in WritesRd \cup {"MUL"}) = TRUE /\ o \notin Loads \cup Stores
    BY <1>3
  <2> HIDE DEF o
  <2>2. /\ dec'.readMem = (o \in Loads) /\ dec'.writeMem = (o \in Stores)
        /\ dec'.writeRd = (o \in WritesRd \cup {"MUL"})
    BY <1>2, <2>1
  <2> QED
    BY <1>1, <1>2, <1>3, <1>4, <2>1, <2>2, Zenon DEF Flagged, o
<1>6. NextPc(asm, Rs1, Rs2, before.pc) = Wrap(before.pc + 4)
  BY <1>3, NextRows
<1>7. Aimed'
  BY <1>1, <1>2, <1>6, SameInstruction
<1>8. o \in WritesRd \ Loads /\ ~SignLost => aluOut' = Value
  BY GroupsApart
<1> QED
  BY <1>2, <1>3, <1>5, <1>7, <1>8, ToMemory

(* The cases of an R instruction; MUL, whose funct7 differs in a bit that  *)
(* is not looked at, adds.                                                 *)
LEMMA ExecuteRStep ==
  ASSUME Ready, ExecuteR, UNCHANGED <<asm, before, instruction, registers, pc, mem>>
  PROVE  Typed' /\ Staged'
<1> DEFINE o == asm.op
           x == dec.rs1v
           y == dec.rs2v
           alu(v) == aluOut' = v /\ Stage("MEMORY")
<1>1. /\ dec.optype = "R" /\ x = Rs1 /\ y = Rs2 /\ dec.opcode = Opcode(o)
      /\ dec.funct3 = Funct3(o) /\ dec.funct7 = Funct7(o) /\ "R" = decode_type_table[Opcode(o)]
  BY DEF ExecuteR, Ready, Parsed
<1>2. x \in Word /\ y \in Word /\ x \in Int /\ y \in Int /\ o \in Mnemonics \cup Others
  BY <1>1, ReadyFlags, WrapFacts
<1>3. o \in AluR \cup {"MUL", "RESERVED"}
  BY <1>1, <1>2, TypeGroups, Zenon
<1>4. Opcode(o) = 51
  BY <1>3, OpGroups
<1>5. \/ o \in {"ADD", "MUL"} /\ op3 = <<51, 0, 0>>
      \/ o = "SUB" /\ op3 = <<51, 0, 1>>
      \/ o = "SLL" /\ op3 = <<51, 1, 0>>
      \/ o = "SLT" /\ op3 = <<51, 2, 0>>
      \/ o = "SLTU" /\ op3 = <<51, 3, 0>>
      \/ o = "XOR" /\ op3 = <<51, 4, 0>>
      \/ o = "SRL" /\ op3 = <<51, 5, 0>>
      \/ o = "SRA" /\ op3 = <<51, 5, 1>>
      \/ o = "OR" /\ op3 = <<51, 6, 0>>
      \/ o = "AND" /\ op3 = <<51, 7, 0>>
      \/ o = "RESERVED" /\ op3 = <<51, 0, 2>>
  BY <1>1, <1>3, <1>4, FunctionCodes, SMT DEF op3
<1>6. dec' = Computing(dec)
  BY DEF ExecuteR, Computing
<1> HIDE DEF o, x, y
<1>7. /\ Wrap(x + y) \in Word /\ Wrap(x - y) \in Word
      /\ Flag(Signed(x) < Signed(y)) \in Word /\ Flag(x < y) \in Word
      /\ Shl(x, y % 32) \in Word /\ Shr(x, y % 32) \in Word
      /\ Xor(x, y) \in Word /\ Or(x, y) \in Word /\ And(x, y) \in Word
  <2>1. x + y \in Int /\ x - y \in Int /\ y % 32 \in 0 .. 31
    BY <1>2, SMT
  <2> QED
    BY <1>2, <2>1, WrapFacts, ShiftsInWord, LogicInWord DEF Flag
<1>8. \/ op3 = <<51, 0, 0>> /\ alu(Wrap(x + y))
      \/ op3 = <<51, 0, 1>> /\ alu(Wrap(x - y))
      \/ op3 = <<51, 1, 0>> /\ alu(Shl(x, y % 32))
      \/ op3 = <<51, 2, 0>> /\ alu(Flag(Signed(x) < Signed(y)))
      \/ op3 = <<51, 3, 0>> /\ alu(Flag(x < y))
      \/ op3 = <<51, 4, 0>> /\ alu(Xor(x, y))
      \/ op3 = <<51, 5, 0>> /\ alu(Shr(x, y % 32))
      \/ op3 = <<51, 5, 1>> /\ alu(Shr(x, y % 32))
      \/ op3 = <<51, 6, 0>> /\ alu(Or(x, y))
      \/ op3 = <<51, 7, 0>> /\ alu(And(x, y))
      \/ (\A n \in DOMAIN OP : op3 # OP[n]) /\ cause_trap("ILLEGAL_INSTRUCTION") /\ UNCHANGED aluOut
  <2>1. \/ op3 = OP.ADD /\ alu(Wrap(x + y))
        \/ op3 = OP.SUB /\ alu(Wrap(x - y))
        \/ op3 = OP.SLL /\ alu(Shl(x, y % 32))
        \/ op3 = OP.SLT /\ alu(Flag(Signed(x) < Signed(y)))
        \/ op3 = OP.SLTU /\ alu(Flag(x < y))
        \/ op3 = OP.XOR /\ alu(Xor(x, y))
        \/ op3 = OP.SRL /\ alu(Shr(x, y % 32))
        \/ op3 = OP.SRA /\ alu(Shr(x, y % 32))
        \/ op3 = OP.OR /\ alu(Or(x, y))
        \/ op3 = OP.AND /\ alu(And(x, y))
        \/ (\A n \in DOMAIN OP : op3 # OP[n]) /\ cause_trap("ILLEGAL_INSTRUCTION") /\ UNCHANGED aluOut
    BY Zenon DEF ExecuteR, x, y
  <2>2. /\ OP.ADD = <<51, 0, 0>> /\ OP.SUB = <<51, 0, 1>> /\ OP.SLL = <<51, 1, 0>>
        /\ OP.SLT = <<51, 2, 0>> /\ OP.SLTU = <<51, 3, 0>> /\ OP.XOR = <<51, 4, 0>>
        /\ OP.SRL = <<51, 5, 0>> /\ OP.SRA = <<51, 5, 1>> /\ OP.OR = <<51, 6, 0>>
        /\ OP.AND = <<51, 7, 0>>
    BY OpRows, Zenon
  <2> HIDE DEF alu
  <2> QED
    BY <2>1, <2>2
<1>9. ASSUME NEW v \in Word, o \in AluR \cup {"MUL"}, alu(v),
             o # "MUL" /\ ~SignLost => v = Arith(o, x, y)
      PROVE  Typed' /\ Staged'
  <2>1. asm.op # "MUL" => asm.op \in AluR
    BY <1>9 DEF o
  <2>2. asm.op # "MUL" => Value = Arith(o, x, y)
    BY <1>1, <2>1, ValueRows DEF o
  <2>3. asm.op \in AluR \cup AluI \cup ShiftI \cup {"LUI", "AUIPC", "MUL"}
    BY <1>9 DEF o
  <2>4. aluOut' = v /\ Passed
    BY <1>9 DEF Passed, Stage
  <2>5. asm.op # "MUL" /\ ~SignLost => v = Value
    BY <1>9, <2>2 DEF o
  <2> QED
    BY <1>1, <1>6, <2>3, <2>4, <2>5, AluDone
<1>10. CASE op3 = <<51, 0, 0>> /\ alu(Wrap(x + y))
  <2>1. o \in {"ADD", "MUL"}
    BY <1>5, <1>10, SMT
  <2> QED
    BY <1>7, <1>9, <1>10, <2>1, ArithRows DEF AluR
<1>11. CASE op3 = <<51, 0, 1>> /\ alu(Wrap(x - y))
  <2>1. o = "SUB"
    BY <1>5, <1>11, SMT
  <2> QED
    BY <1>7, <1>9, <1>11, <2>1, ArithRows DEF AluR
<1>12. CASE op3 = <<51, 1, 0>> /\ alu(Shl(x, y % 32))
  <2>1. o = "SLL"
    BY <1>5, <1>12, SMT
  <2> QED
    BY <1>7, <1>9, <1>12, <2>1, ArithRows DEF AluR
<1>13. CASE op3 = <<51, 2, 0>> /\ alu(Flag(Signed(x) < Signed(y)))
  <2>1. o = "SLT"
    BY <1>5, <1>13, SMT
  <2> QED
    BY <1>7, <1>9, <1>13, <2>1, ArithRows DEF AluR
<1>14. CASE op3 = <<51, 3, 0>> /\ alu(Flag(x < y))
  <2>1. o = "SLTU"
    BY <1>5, <1>14, SMT
  <2> QED
    BY <1>7, <1>9, <1>14, <2>1, ArithRows DEF AluR
<1>15. CASE op3 = <<51, 4, 0>> /\ alu(Xor(x, y))
  <2>1. o = "XOR"
    BY <1>5, <1>15, SMT
  <2> QED
    BY <1>7, <1>9, <1>15, <2>1, ArithRows DEF AluR
<1>16. CASE op3 = <<51, 5, 0>> /\ alu(Shr(x, y % 32))
  <2>1. o = "SRL"
    BY <1>5, <1>16, SMT
  <2> QED
    BY <1>7, <1>9, <1>16, <2>1, ArithRows DEF AluR
<1>17. CASE op3 = <<51, 5, 1>> /\ alu(Shr(x, y % 32))
  <2>1. o = "SRA"
    BY <1>5, <1>17, SMT
  <2>2. ~SignLost => Signed(x) >= 0
    <3>1. ~SignLost => ~(Signed(x) < 0)
      BY <1>1, <2>1 DEF SignLost, o
    <3> QED
      BY <1>2, <3>1, SignedInt, SMT
  <2>3. y % 32 \in 0 .. 31
    BY <1>2, SMT
  <2>4. ~SignLost => Shr(x, y % 32) = Arith(o, x, y)
    <3>1. ~SignLost => Shr(x, y % 32) = IF y % 32 < XLEN THEN Wrap(Signed(x) \div 2^(y % 32))
                                       ELSE Wrap(Signed(x) \div 2^(XLEN - 1))
      BY <1>2, <2>2, <2>3, ArithmeticShift
    <3>2. Arith(o, x, y) = IF y % 32 < XLEN THEN Wrap(Signed(x) \div 2^(y % 32))
                           ELSE Wrap(Signed(x) \div 2^(XLEN - 1))
      BY <2>1, ArithRows
    <3> QED
      BY <3>1, <3>2
  <2> QED
    BY <1>7, <1>9, <1>17, <2>1, <2>4 DEF AluR
<1>18. CASE op3 = <<51, 6, 0>> /\ alu(Or(x, y))
  <2>1. o = "OR"
    BY <1>5, <1>18, SMT
  <2> QED
    BY <1>7, <1>9, <1>18, <2>1, ArithRows DEF AluR
<1>19. CASE op3 = <<51, 7, 0>> /\ alu(And(x, y))
  <2>1. o = "AND"
    BY <1>5, <1>19, SMT
  <2> QED
    BY <1>7, <1>9, <1>19, <2>1, ArithRows DEF AluR
<1>20. CASE (\A n \in DOMAIN OP : op3 # OP[n]) /\ cause_trap("ILLEGAL_INSTRUCTION") /\ UNCHANGED aluOut
  <2>1. o = "RESERVED"
    <3>1. /\ op3 # OP["ADD"] /\ op3 # OP["SUB"] /\ op3 # OP["SLL"] /\ op3 # OP["SLT"]
          /\ op3 # OP["SLTU"] /\ op3 # OP["XOR"] /\ op3 # OP["SRL"] /\ op3 # OP["SRA"]
          /\ op3 # OP["OR"] /\ op3 # OP["AND"]
      BY <1>20, OpNames, Zenon DEF AluR
    <3>2. /\ op3 # <<51, 0, 0>> /\ op3 # <<51, 0, 1>> /\ op3 # <<51, 1, 0>> /\ op3 # <<51, 2, 0>>
          /\ op3 # <<51, 3, 0>> /\ op3 # <<51, 4, 0>> /\ op3 # <<51, 5, 0>> /\ op3 # <<51, 5, 1>>
          /\ op3 # <<51, 6, 0>> /\ op3 # <<51, 7, 0>>
      BY <3>1, OpRows, Zenon
    <3> QED
      BY <1>5, <3>2, Zenon
  <2>2. state' = "TRAP" /\ cause' = "ILLEGAL_INSTRUCTION" /\ aluOut' = aluOut
    BY <1>20 DEF cause_trap
  <2>3. dec' \in Instr
    BY <1>6, ReadyFlags, ComputingInstr
  <2>4. Typed'
    BY <2>2, <2>3 DEF Ready, Typed
  <2>5. Trapped'
    BY <2>1, <2>2 DEF Trapped, o
  <2> QED
    BY <2>2, <2>4, <2>5 DEF Staged
<1> QED
  BY <1>8, <1>10, <1>11, <1>12, <1>13, <1>14, <1>15, <1>16, <1>17, <1>18, <1>19, <1>20, Zenon

(* The codes execute compares, where funct7 is cleared.                    *)
LEMMA ClearedCodes ==
  ASSUME Ready, dec.optype \in {"I", "S", "B"}
  PROVE  /\ op3 = <<Opcode(asm.op), Funct3(asm.op), 0>>
         /\ op2 = <<Opcode(asm.op), Funct3(asm.op), 0>>
         /\ dec.rs1v = Rs1
         /\ dec.optype = "I" => asm.op \in AluI \cup ShiftI \cup Loads \cup {"LOAD3", "JALR"}
         /\ dec.optype = "S" => asm.op \in Stores
         /\ dec.optype = "B" => asm.op \in Branches \cup {"BRANCH2"}
<1>1. /\ dec.opcode = Opcode(asm.op) /\ dec.funct3 = Funct3(asm.op) /\ dec.rs1v = Rs1
      /\ dec.funct7 = (IF dec.optype = "R" THEN Funct7(asm.op) ELSE 0)
      /\ dec.optype = decode_type_table[Opcode(asm.op)]
  BY DEF Ready, Parsed
<1>2. dec.funct7 = 0
  BY <1>1
<1>3. dec.funct7 \div 32 = 0
  BY <1>2, SMT
<1>4. asm.op \in Mnemonics \cup Others
  BY ReadyFlags
<1>5. op3 = <<Opcode(asm.op), Funct3(asm.op), 0>> /\ op2 = <<Opcode(asm.op), Funct3(asm.op), 0>>
  BY <1>1, <1>3 DEF op3, op2
<1>6. /\ dec.optype = "I" => asm.op \in AluI \cup ShiftI \cup Loads \cup {"LOAD3", "JALR"}
      /\ dec.optype = "S" => asm.op \in Stores
      /\ dec.optype = "B" => asm.op \in Branches \cup {"BRANCH2"}
  BY <1>1, <1>4, TypeGroups, Zenon
<1> QED
  BY <1>1, <1>5, <1>6

(* A positive immediate of 12 bits.                                        *)
Small(i) == i \in Nat /\ i < 2048

(* It is a word, and the masks and shift counts of execute keep it.        *)
LEMMA SmallWord ==
  ASSUME NEW i, Small(i)
  PROVE  Wrap(i) = i /\ i % 2^12 = i /\ (i < 32 => i % 32 = i)
<1>1. i \in Nat /\ i < 2048
  BY DEF Small
<1>2. Wrap(i) = i
  <2>1. i \in Word
    BY <1>1, WidthsHold, SMT DEF Widths, Sized, Word
  <2> QED
    BY <2>1, WrapFacts
<1>3. i % 2^12 = i
  BY <1>1, SMT
<1>4. i < 32 => i % 32 = i
  BY <1>1, SMT
<1> QED
  BY <1>2, <1>3, <1>4

(* What the immediate of an I instruction is once in the register file's   *)
(* width.                                                                  *)
LEMMA ImmediateI ==
  ASSUME Ready, dec.optype = "I"
  PROVE  /\ asm.op \notin ShiftI => /\ se12 = asm.imm
                                    /\ Signed(Wrap(asm.imm)) = asm.imm
         /\ asm.op \in ShiftI => /\ dec.shamt = asm.imm /\ asm.imm \in 0 .. 31
                                 /\ Wrap(asm.imm) % 32 = asm.imm
         /\ asm.imm >= 0 /\ asm.op \notin ShiftI => Wrap(asm.imm) % 2^12 = Wrap(asm.imm)
<1>1. Encodable(asm) /\ asm.imm \in Int
  BY ReadyFlags
<1>2. asm.op \in AluI \cup ShiftI \cup Loads \cup {"LOAD3", "JALR"}
  BY ClearedCodes
<1>3. Format(asm.op) = "I"
  BY <1>2, OpGroups
<1>4. asm.op \notin ShiftI => -2048 =< asm.imm /\ asm.imm < 2048
  BY <1>1, <1>3, ImmRanges
<1>5. asm.op \notin ShiftI => se12 = asm.imm
  BY DEF Ready, Parsed
<1>6. asm.op \in ShiftI => asm.imm \in 0 .. 31 /\ dec.shamt = asm.imm
  BY <1>1, ImmRanges DEF Ready, Parsed
<1>7. ASSUME asm.op \notin ShiftI PROVE Signed(Wrap(asm.imm)) = asm.imm
  <2>1. -1048576 =< asm.imm /\ asm.imm < 1048576
    BY <1>1, <1>4, <1>7, SMT
  <2> QED
    BY <1>1, <2>1, SignedWrap
<1>8. ASSUME asm.op \notin ShiftI, asm.imm >= 0 PROVE Wrap(asm.imm) % 2^12 = Wrap(asm.imm)
  <2>1. Small(asm.imm)
    BY <1>1, <1>4, <1>8, SMT DEF Small
  <2> QED
    BY <2>1, SmallWord, Zenon
<1>9. ASSUME asm.op \in ShiftI PROVE Wrap(asm.imm) % 32 = asm.imm
  <2>1. Small(asm.imm) /\ asm.imm < 32
    BY <1>6, <1>9, SMT DEF Small
  <2>2. Wrap(asm.imm) = asm.imm /\ asm.imm % 32 = asm.imm
    BY <2>1, SmallWord, Zenon
  <2> QED
    BY <2>2
<1> QED
  BY <1>5, <1>6, <1>7, <1>8, <1>9

(* The cases of an I instruction that computes.                            *)
LEMMA ExecuteAluIStep ==
  ASSUME Ready, ExecuteAluI, UNCHANGED <<asm, before, instruction, registers, pc, mem>>
  PROVE  Typed' /\ Staged'
<1> DEFINE o == asm.op
           x == dec.rs1v
           i == Wrap(se12)
           w == Wrap(asm.imm)
<1>1. /\ dec.optype = "I" /\ x = Rs1 /\ op3 = <<Opcode(o), Funct3(o), 0>>
      /\ o \in AluI \cup ShiftI \cup Loads \cup {"LOAD3", "JALR"}
  BY ClearedCodes DEF ExecuteAluI
<1>2. /\ o \notin ShiftI => se12 = asm.imm /\ i = w /\ Signed(w) = asm.imm
      /\ o \in ShiftI => dec.shamt = asm.imm /\ asm.imm \in 0 .. 31 /\ w % 32 = asm.imm
      /\ asm.imm >= 0 /\ o \notin ShiftI => w % 2^12 = w
  BY <1>1, ImmediateI
<1>3. x \in Word /\ w \in Word /\ x \in Int /\ w \in Int /\ asm.imm \in Int
  BY <1>1, ReadyFlags, WrapFacts
<1>4. dec' = Computing(dec) /\ Passed
  BY DEF ExecuteAluI, Computing, Passed, Stage
<1> HIDE DEF o, x, i, w
<1>5. \/ op3 = <<19, 0, 0>> /\ aluOut' = Wrap(x + i)
      \/ op3 = <<19, 2, 0>> /\ aluOut' = Flag(Signed(x) < se12)
      \/ op3 = <<19, 3, 0>> /\ aluOut' = Flag(x < i)
      \/ op3 = <<19, 4, 0>> /\ aluOut' = Xor(x, i)
      \/ op3 = <<19, 6, 0>> /\ aluOut' = Or(x, i % 2^12)
      \/ op3 = <<19, 7, 0>> /\ aluOut' = And(x, i)
      \/ op3 = <<19, 1, 0>> /\ aluOut' = Shl(x, dec.shamt)
      \/ op3 = <<19, 5, 0>> /\ aluOut' = Shr(x, dec.shamt)
  <2>1. \/ op3 = OP.ADDI /\ aluOut' = Wrap(x + i)
        \/ op3 = OP.SLTI /\ aluOut' = Flag(Signed(x) < se12)
        \/ op3 = OP.SLTIU /\ aluOut' = Flag(x < i)
        \/ op3 = OP.XORI /\ aluOut' = Xor(x, i)
        \/ op3 = OP.ORI /\ aluOut' = Or(x, i % 2^12)
        \/ op3 = OP.ANDI /\ aluOut' = And(x, i)
        \/ op3 = OP.SLLI /\ aluOut' = Shl(x, dec.shamt)
        \/ op3 = OP.SRLI /\ aluOut' = Shr(x, dec.shamt)
    BY Zenon DEF ExecuteAluI, x, i
  <2>2. /\ OP.ADDI = <<19, 0, 0>> /\ OP.SLTI = <<19, 2, 0>> /\ OP.SLTIU = <<19, 3, 0>>
        /\ OP.XORI = <<19, 4, 0>> /\ OP.ORI = <<19, 6, 0>> /\ OP.ANDI = <<19, 7, 0>>
        /\ OP.SLLI = <<19, 1, 0>> /\ OP.SRLI = <<19, 5, 0>>
    BY OpRows, Zenon
  <2> QED
    BY <2>1, <2>2
<1>6. Opcode(o) = 19
  BY <1>1, <1>5, SMT
<1>7. o \in AluI \cup ShiftI
  BY <1>1, <1>6, OpGroups, SMT
<1>8. \/ o = "ADDI" /\ op3 = <<19, 0, 0>>
      \/ o = "SLTI" /\ op3 = <<19, 2, 0>>
      \/ o = "SLTIU" /\ op3 = <<19, 3, 0>>
      \/ o = "XORI" /\ op3 = <<19, 4, 0>>
      \/ o = "ORI" /\ op3 = <<19, 6, 0>>
      \/ o = "ANDI" /\ op3 = <<19, 7, 0>>
      \/ o = "SLLI" /\ op3 = <<19, 1, 0>>
      \/ o \in {"SRLI", "SRAI"} /\ op3 = <<19, 5, 0>>
  BY <1>1, <1>6, <1>7, FunctionCodes, SMT
<1>9. ASSUME NEW v \in Word, aluOut' = v, ~SignLost => v = Arith(o, x, w)
      PROVE  Typed' /\ Staged'
  <2>1. asm.op \in AluI \cup ShiftI
    BY <1>7 DEF o
  <2>2. Value = Arith(o, x, w)
    BY <1>1, <2>1, ValueRows DEF o, w
  <2>3. asm.op \in AluR \cup AluI \cup ShiftI \cup {"LUI", "AUIPC", "MUL"}
    BY <2>1
  <2>4. asm.op # "MUL" /\ ~SignLost => v = Value
    BY <1>9, <2>2
  <2> QED
    BY <1>1, <1>4, <1>9, <2>3, <2>4, AluDone
<1>10. CASE op3 = <<19, 0, 0>> /\ aluOut' = Wrap(x + i)
  <2>1. o = "ADDI" /\ o \notin ShiftI
    BY <1>8, <1>10, SMT DEF ShiftI
  <2>2. Wrap(x + w) \in Word
    BY <1>3, WrapFacts
  <2> QED
    BY <1>2, <1>9, <1>10, <2>1, <2>2, ArithRows
<1>11. CASE op3 = <<19, 2, 0>> /\ aluOut' = Flag(Signed(x) < se12)
  <2>1. o = "SLTI" /\ o \notin ShiftI
    BY <1>8, <1>11, SMT DEF ShiftI
  <2>2. Flag(Signed(x) < se12) \in Word
    BY WrapFacts DEF Flag
  <2>3. Arith(o, x, w) = Flag(Signed(x) < se12)
    BY <1>2, <2>1, ArithRows
  <2> QED
    BY <1>9, <1>11, <2>2, <2>3
<1>12. CASE op3 = <<19, 3, 0>> /\ aluOut' = Flag(x < i)
  <2>1. o = "SLTIU" /\ o \notin ShiftI
    BY <1>8, <1>12, SMT DEF ShiftI
  <2>2. Flag(x < w) \in Word
    BY WrapFacts DEF Flag
  <2> QED
    BY <1>2, <1>9, <1>12, <2>1, <2>2, ArithRows
<1>13. CASE op3 = <<19, 4, 0>> /\ aluOut' = Xor(x, i)
  <2>1. o = "XORI" /\ o \notin ShiftI
    BY <1>8, <1>13, SMT DEF ShiftI
  <2> QED
    BY <1>2, <1>9, <1>13, <2>1, LogicInWord, ArithRows
<1>14. CASE op3 = <<19, 6, 0>> /\ aluOut' = Or(x, i % 2^12)
  <2>1. o = "ORI" /\ o \notin ShiftI
    BY <1>8, <1>14, SMT DEF ShiftI
  <2>2. ~SignLost => asm.imm >= 0
    <3>1. ~SignLost => ~(asm.imm < 0)
      BY <2>1 DEF SignLost, o
    <3> QED
      BY <1>3, <3>1, SMT
  <2>3. ~SignLost => i % 2^12 = w
    BY <1>2, <2>1, <2>2
  <2>4. Or(x, i % 2^12) \in Word
    BY LogicInWord
  <2>5. Arith(o, x, w) = Or(x, w)
    BY <2>1, ArithRows
  <2> QED
    BY <1>9, <1>14, <2>3, <2>4, <2>5
<1>15. CASE op3 = <<19, 7, 0>> /\ aluOut' = And(x, i)
  <2>1. o = "ANDI" /\ o \notin ShiftI
    BY <1>8, <1>15, SMT DEF ShiftI
  <2> QED
    BY <1>2, <1>9, <1>15, <2>1, LogicInWord, ArithRows
<1>16. CASE op3 = <<19, 1, 0>> /\ aluOut' = Shl(x, dec.shamt)
  <2>1. o = "SLLI" /\ o \in ShiftI
    BY <1>8, <1>16, SMT DEF ShiftI
  <2>2. dec.shamt = w % 32 /\ w % 32 \in 0 .. 31
    BY <1>2, <2>1
  <2>3. Shl(x, dec.shamt) \in Word
    BY <1>3, <2>2, ShiftsInWord
  <2>4. Arith(o, x, w) = Shl(x, dec.shamt)
    BY <2>1, <2>2, ArithRows
  <2> QED
    BY <1>9, <1>16, <2>3, <2>4
<1>17. CASE op3 = <<19, 5, 0>> /\ aluOut' = Shr(x, dec.shamt)
  <2>1. o \in {"SRLI", "SRAI"} /\ o \in ShiftI
    BY <1>8, <1>17, SMT DEF ShiftI
  <2>2. dec.shamt = w % 32 /\ w % 32 \in 0 .. 31
    BY <1>2, <2>1
  <2>3. Shr(x, dec.shamt) \in Word
    BY <1>3, <2>2, ShiftsInWord
  <2>4. o = "SRLI" => Arith(o, x, w) = Shr(x, w % 32)
    BY ArithRows
  <2>5. o = "SRAI" /\ ~SignLost => Arith(o, x, w) = Shr(x, w % 32)
    <3>1. o = "SRAI" /\ ~SignLost => ~(Signed(x) < 0)
      BY <1>1 DEF SignLost, o
    <3>2. o = "SRAI" /\ ~SignLost => Signed(x) >= 0
      BY <1>3, <3>1, SignedInt, SMT
    <3>3. o = "SRAI" => Arith(o, x, w) = IF w % 32 < XLEN THEN Wrap(Signed(x) \div 2^(w % 32))
                                         ELSE Wrap(Signed(x) \div 2^(XLEN - 1))
      BY ArithRows
    <3>4. Signed(x) >= 0 => Shr(x, w % 32) = IF w % 32 < XLEN THEN Wrap(Signed(x) \div 2^(w % 32))
                                             ELSE Wrap(Signed(x) \div 2^(XLEN - 1))
      BY <1>3, <2>2, ArithmeticShift
    <3> QED
      BY <3>2, <3>3, <3>4
  <2> QED
    BY <1>9, <1>17, <2>1, <2>2, <2>3, <2>4, <2>5
<1> QED
  BY <1>5, <1>10, <1>11, <1>12, <1>13, <1>14, <1>15, <1>16, <1>17, Zenon

(* A byte and a halfword are words.                                        *)
LEMMA LowHalf ==
  ASSUME NEW y \in Nat
  PROVE  y % 2^8 \in Word /\ y % 2^16 \in Word
<1>1. y % 2^8 \in Word
  BY WidthsHold, SMT DEF Widths, Sized, Word
<1>2. y % 2^16 \in Word
  BY WidthsHold, SMT DEF Widths, Sized, Word
<1> QED
  BY <1>1, <1>2

(* The low bits of a word.                                                 *)
LEMMA LowBits ==
  ASSUME NEW x \in Word
  PROVE  /\ x % 2^8 \in Word /\ x % 2^16 \in Word
         /\ x % 2^XLEN = x
         /\ \A b \in Sizes : x % 2^b \in Word
<1>1. x % 2^8 \in Word /\ x % 2^16 \in Word
  <2>1. x \in Nat
    BY WidthsHold, SMT DEF Widths, Sized, Word
  <2> QED
    BY <2>1, LowHalf, Zenon
<1>2. x % 2^XLEN = x
  BY WrapFacts DEF Wrap
<1>3. ASSUME NEW b \in Sizes PROVE x % 2^b \in Word
  <2>1. b = 8 \/ b = 16 \/ b = XLEN
    BY DEF Sizes
  <2> QED
    BY <1>1, <1>2, <2>1
<1> QED
  BY <1>1, <1>2, <1>3

(* The widths of the accesses.                                             *)
LEMMA WidthRows ==
  ASSUME NEW o
  PROVE  /\ o \in {"LB", "LBU", "SB"} => Width(o) = 8
         /\ o \in {"LH", "LHU", "SH"} => Width(o) = 16
         /\ o \in {"LW", "SW"} => Width(o) = XLEN
BY DEF Width

(* The cases of a load.                                                    *)
LEMMA ExecuteLoadStep ==
  ASSUME Ready, ExecuteLoad, UNCHANGED <<asm, before, instruction, registers, pc, mem>>
  PROVE  Typed' /\ Staged'
<1> DEFINE o == asm.op
           a == Wrap(dec.rs1v + se12)
           b(n) == IF n = "LW" THEN XLEN ELSE IF n \in {"LH", "LHU"} THEN 16 ELSE 8
<1>1. PICK n \in {"LB", "LBU", "LH", "LHU", "LW"} : op3 = OP[n] /\ dec' = Loading(dec, a, b(n))
  BY Zenon DEF ExecuteLoad, Loading
<1>2. /\ dec.optype = "I" /\ dec.rs1v = Rs1 /\ op3 = <<Opcode(o), Funct3(o), 0>>
      /\ o \in AluI \cup ShiftI \cup Loads \cup {"LOAD3", "JALR"}
  BY ClearedCodes DEF ExecuteLoad
<1>3. \/ n = "LB" /\ op3 = <<3, 0, 0>>
      \/ n = "LBU" /\ op3 = <<3, 4, 0>>
      \/ n = "LH" /\ op3 = <<3, 1, 0>>
      \/ n = "LHU" /\ op3 = <<3, 5, 0>>
      \/ n = "LW" /\ op3 = <<3, 2, 0>>
  <2>1. /\ OP["LB"] = <<3, 0, 0>> /\ OP["LBU"] = <<3, 4, 0>> /\ OP["LH"] = <<3, 1, 0>>
        /\ OP["LHU"] = <<3, 5, 0>> /\ OP["LW"] = <<3, 2, 0>>
    BY OpRows, Zenon
  <2> QED
    BY <1>1, <2>1
<1> HIDE DEF o, a
<1>4. Opcode(o) = 3
  BY <1>2, <1>3, SMT
<1>5. o \in Loads \cup {"LOAD3"}
  BY <1>2, <1>4, OpGroups, SMT
<1>6. o = n
  <2>1. \/ o = "LB" /\ Funct3(o) = 0
        \/ o = "LH" /\ Funct3(o) = 1
        \/ o = "LW" /\ Funct3(o) = 2
        \/ o = "LBU" /\ Funct3(o) = 4
        \/ o = "LHU" /\ Funct3(o) = 5
        \/ o = "LOAD3" /\ Funct3(o) = 3
    BY <1>5, FunctionCodes
  <2> QED
    BY <1>2, <1>3, <2>1, SMT
<1>7. /\ o \in Loads /\ o \notin ShiftI /\ o \notin Stores \cup Branches \cup {"JAL", "JALR"}
      /\ o \in WritesRd /\ o \in Completing
  <2>1. o \in Loads /\ o \notin ShiftI
    BY <1>1, <1>6 DEF Loads, ShiftI
  <2> QED
    BY <2>1, GroupsApart
<1>8. b(n) = Width(o) /\ b(n) \in Sizes
  BY <1>1, <1>6, WidthRows DEF Sizes
<1>9. a = Wrap(Rs1 + asm.imm) /\ a \in Word
  <2>1. se12 = asm.imm
    BY <1>2, <1>7, ImmediateI DEF o
  <2>2. Rs1 \in Int /\ asm.imm \in Int
    BY ReadyFlags, WrapFacts
  <2>3. Rs1 + asm.imm \in Int
    BY <2>2, SMT
  <2> QED
    BY <1>2, <2>1, <2>3, WrapFacts DEF a
<1> HIDE DEF b
<1>10. /\ dec' \in Instr /\ dec'.writeRd = TRUE /\ dec'.readMem = TRUE /\ dec'.memOffset = a
       /\ dec'.bits = b(n) /\ dec'.isJump = FALSE /\ dec'.writeMem = FALSE /\ dec'.rd = asm.rd
  <2>1. dec.rd = asm.rd
    BY <1>2 DEF Ready, Parsed
  <2>2. dec \in Instr /\ dec.isJump = FALSE /\ dec.writeMem = FALSE
    BY ReadyFlags
  <2>3. LoadSet(Loading(dec, a, b(n)), dec, a, b(n))
    <3>1. dec \in Instr /\ a \in Word /\ b(n) \in Sizes
      BY <1>8, <1>9, <2>2
    <3> QED
      BY <3>1, LoadingInstr, Zenon
  <2> QED
    BY <1>1, <2>1, <2>2, <2>3 DEF LoadSet
<1>11. UNCHANGED <<asm, before>> /\ Passed /\ aluOut' \in Word
  BY ReadyFlags DEF ExecuteLoad, Passed, Stage
<1>12. Flagged'
  <2>1. /\ (o \in Loads) = TRUE /\ (o \in Stores) = FALSE /\ (o \in WritesRd \cup {"MUL"}) = TRUE
    BY <1>7
  <2>2. /\ dec'.readMem = (o \in Loads) /\ dec'.writeMem = (o \in Stores)
        /\ dec'.writeRd = (o \in WritesRd \cup {"MUL"})
    BY <1>10, <2>1, Zenon
  <2>3. asm' = asm /\ Rs1' = Rs1
    BY <1>11, SameInstruction
  <2>4. dec'.memOffset = Wrap(Rs1 + asm.imm) /\ dec'.bits = Width(o)
    BY <1>8, <1>9, <1>10
  <2> QED
    BY <1>7, <1>10, <2>2, <2>3, <2>4, Zenon DEF Flagged, o
<1>13. Aimed'
  <2>1. NextPc(asm, Rs1, Rs2, before.pc) = Wrap(before.pc + 4)
    BY <1>7, NextRows DEF o
  <2> QED
    BY <1>10, <1>11, <2>1, SameInstruction
<1> QED
  BY <1>7, <1>10, <1>11, <1>12, <1>13, ToMemory DEF o

(* Addresses: a register and an immediate, cut to the width.               *)
LEMMA Addressed ==
  ASSUME Ready, dec.optype \in {"I", "S"}, asm.op \notin ShiftI
  PROVE  Wrap(dec.rs1v + se12) = Wrap(Rs1 + asm.imm) /\ Wrap(Rs1 + asm.imm) \in Word
<1>1. se12 = asm.imm /\ dec.rs1v = Rs1
  BY DEF Ready, Parsed
<1>2. Rs1 \in Int /\ asm.imm \in Int
  BY ReadyFlags, WrapFacts
<1>3. Rs1 + asm.imm \in Int
  BY <1>2, SMT
<1> QED
  BY <1>1, <1>3, WrapFacts

(* The register that links is written, and the program goes on at a.       *)
LEMMA JumpDone ==
  ASSUME Ready, Passed, NEW a \in Word, dec' = Jumping(dec, a), aluOut' = Wrap(pc + 4),
         dec.optype \in {"I", "J"}, asm.op \in {"JAL", "JALR"},
         \/ a = NextPc(asm, Rs1, Rs2, before.pc)
         \/ asm.op = "JALR" /\ Wrap(Rs1 + asm.imm) % 2 = 1
  PROVE  Typed' /\ Staged'
<1> DEFINE o == asm.op
<1>1. /\ o \notin Loads \cup Stores /\ o \in WritesRd /\ o \in Completing
  BY GroupsApart
<1>2. pc = before.pc /\ dec.rd = asm.rd
  BY ReadyFlags DEF Ready, Parsed
<1>3. /\ dec' \in Instr /\ dec'.writeRd = TRUE /\ dec'.isJump = TRUE /\ dec'.jumpTarget = a
      /\ dec'.readMem = FALSE /\ dec'.writeMem = FALSE /\ dec'.rd = asm.rd
  BY <1>2, ReadyFlags, JumpingInstr
<1>4. UNCHANGED <<asm, before>>
  BY DEF Passed
<1>5. Wrap(pc + 4) \in Word
  <2>1. pc + 4 \in Int
    <3>1. pc \in Int
      BY ReadyFlags, WrapFacts
    <3> QED
      BY <3>1, SMT
  <2> QED
    BY <2>1, WrapFacts
<1>6. Flagged'
  <2>1. /\ (o \in Loads) = FALSE /\ (o \in Stores) = FALSE /\ (o \in WritesRd \cup {"MUL"}) = TRUE
    BY <1>1
  <2> HIDE DEF o
  <2>2. /\ dec'.readMem = (o \in Loads) /\ dec'.writeMem = (o \in Stores)
        /\ dec'.writeRd = (o \in WritesRd \cup {"MUL"})
    BY <1>3, <2>1, Zenon
  <2> QED
    BY <1>1, <1>3, <1>4, <2>2, Zenon DEF Flagged, o
<1>7. Aimed'
  BY <1>3, <1>4, SameInstruction
<1>8. Value = Wrap(pc + 4)
  BY <1>2, ValueRows
<1> QED
  BY <1>1, <1>3, <1>5, <1>6, <1>7, <1>8, ToMemory

(* The case of JALR, which keeps bit 0 of its target.                      *)
LEMMA ExecuteJalrStep ==
  ASSUME Ready, ExecuteJalr, UNCHANGED <<asm, before, instruction, registers, pc, mem>>
  PROVE  Typed' /\ Staged'
<1> DEFINE o == asm.op
           a == Wrap(Rs1 + asm.imm)
<1>1. /\ dec.optype = "I" /\ op3 = <<Opcode(o), Funct3(o), 0>>
      /\ o \in AluI \cup ShiftI \cup Loads \cup {"LOAD3", "JALR"}
  BY ClearedCodes DEF ExecuteJalr
<1>2. op3 = <<103, 0, 0>>
  BY OpRows, Zenon DEF ExecuteJalr
<1>3. Opcode(o) = 103
  BY <1>1, <1>2, SMT
<1>4. o = "JALR"
  BY <1>1, <1>3, OpGroups, SMT
<1>5. o \notin ShiftI
  BY <1>4 DEF ShiftI
<1>6. Wrap(dec.rs1v + se12) = a /\ a \in Word
  BY <1>1, <1>5, Addressed
<1>7. dec' = Jumping(dec, a) /\ aluOut' = Wrap(pc + 4) /\ Passed
  BY <1>6 DEF ExecuteJalr, Jumping, Passed, Stage
<1>8. NextPc(asm, Rs1, Rs2, before.pc) = a - (a % 2)
  BY <1>4, NextRows
<1> HIDE DEF a
<1>9. a - (a % 2) = a \/ a % 2 = 1
  <2>1. a \in Int
    BY <1>6, WrapFacts
  <2> QED
    BY <2>1, SMT
<1> QED
  BY <1>1, <1>4, <1>6, <1>7, <1>8, <1>9, JumpDone DEF a

(* The cases of a store.                                                   *)
LEMMA ExecuteSStep ==
  ASSUME Ready, ExecuteS, UNCHANGED <<asm, before, instruction, registers, pc, mem>>
  PROVE  Typed' /\ Staged'
<1> DEFINE o == asm.op
           a == Wrap(dec.rs1v + se12)
           b(n) == CASE n = "SB" -> 8 [] n = "SH" -> 16 [] n = "SW" -> XLEN
<1>1. PICK n \in {"SB", "SH", "SW"} : op2 = OP[n] /\ dec' = Storing(dec, a, b(n))
  BY Zenon DEF ExecuteS, Storing
<1>2. dec.optype = "S" /\ op2 = <<Opcode(o), Funct3(o), 0>> /\ o \in Stores
  BY ClearedCodes DEF ExecuteS
<1>3. \/ n = "SB" /\ op2 = <<35, 0, 0>>
      \/ n = "SH" /\ op2 = <<35, 1, 0>>
      \/ n = "SW" /\ op2 = <<35, 2, 0>>
  <2>1. OP["SB"] = <<35, 0, 0>> /\ OP["SH"] = <<35, 1, 0>> /\ OP["SW"] = <<35, 2, 0>>
    BY OpRows, Zenon
  <2> QED
    BY <1>1, <2>1
<1> HIDE DEF o, a
<1>4. o = n
  <2>1. \/ o = "SB" /\ Funct3(o) = 0
        \/ o = "SH" /\ Funct3(o) = 1
        \/ o = "SW" /\ Funct3(o) = 2
    BY <1>2, FunctionCodes
  <2> QED
    BY <1>2, <1>3, <2>1, SMT
<1>5. o \notin ShiftI /\ o \notin Loads \cup WritesRd \cup Branches \cup {"MUL", "JAL", "JALR"} /\ o \in Completing
  <2>1. o \notin ShiftI
    BY <1>1, <1>4 DEF ShiftI
  <2> QED
    BY <1>2, <2>1, GroupsApart
<1>6. b(n) = Width(o) /\ b(n) \in Sizes
  BY <1>1, <1>4, WidthRows DEF Sizes
<1>7. a = Wrap(Rs1 + asm.imm) /\ a \in Word
  BY <1>2, <1>5, Addressed DEF a, o
<1> HIDE DEF b
<1>8. /\ dec' \in Instr /\ dec'.writeMem = TRUE /\ dec'.memOffset = a /\ dec'.bits = b(n)
      /\ dec'.isJump = FALSE /\ dec'.writeRd = FALSE /\ dec'.readMem = FALSE
  <2>1. dec \in Instr /\ dec.isJump = FALSE /\ dec.writeRd = FALSE /\ dec.readMem = FALSE
    BY ReadyFlags
  <2>2. StoreSet(Storing(dec, a, b(n)), dec, a, b(n))
    <3>1. dec \in Instr /\ a \in Word /\ b(n) \in Sizes
      BY <1>6, <1>7, <2>1
    <3> QED
      BY <3>1, StoringInstr, Zenon
  <2> QED
    BY <1>1, <2>1, <2>2 DEF StoreSet
<1>9. UNCHANGED <<asm, before>> /\ Passed /\ aluOut' = dec.rs2v % 2^(dec'.bits)
  BY DEF ExecuteS, Passed, Stage
<1>10. aluOut' = Rs2 % 2^(dec'.bits) /\ aluOut' \in Word
  <2>1. dec.rs2v = Rs2 /\ Rs2 \in Word
    BY <1>2, ReadyFlags DEF Ready, Parsed
  <2>2. dec'.bits \in Sizes
    BY <1>6, <1>8
  <2> QED
    BY <1>9, <2>1, <2>2, LowBits
<1>11. Flagged'
  <2>1. /\ (o \in Loads) = FALSE /\ (o \in Stores) = TRUE /\ (o \in WritesRd \cup {"MUL"}) = FALSE
    BY <1>2, <1>5
  <2>2. /\ dec'.readMem = (o \in Loads) /\ dec'.writeMem = (o \in Stores)
        /\ dec'.writeRd = (o \in WritesRd \cup {"MUL"})
    BY <1>8, <2>1, Zenon
  <2>3. asm' = asm /\ Rs1' = Rs1
    BY <1>9, SameInstruction
  <2>4. dec'.memOffset = Wrap(Rs1 + asm.imm) /\ dec'.bits = Width(o)
    BY <1>6, <1>7, <1>8
  <2> QED
    BY <1>5, <1>8, <2>2, <2>3, <2>4, Zenon DEF Flagged, o
<1>12. Aimed'
  <2>1. NextPc(asm, Rs1, Rs2, before.pc) = Wrap(before.pc + 4)
    BY <1>5, NextRows DEF o
  <2> QED
    BY <1>8, <1>9, <2>1, SameInstruction
<1> QED
  BY <1>5, <1>8, <1>9, <1>10, <1>11, <1>12, ToMemory DEF o

(* The assertions fail for the load with the function code 3 alone.        *)
LEMMA ExecuteAssertsStep ==
  ASSUME Ready, ExecuteAsserts, UNCHANGED <<asm, before, instruction, registers, pc, mem>>
  PROVE  Typed' /\ Staged'
<1> DEFINE o == asm.op
           c == <<Opcode(o), Funct3(o), 0>>
<1>1. \A n \in DOMAIN OP : c # OP[n]
  <2>1. c \notin {OP[n] : n \in DOMAIN OP}
    BY ClearedCodes DEF ExecuteAsserts
  <2> QED
    BY <2>1
<1> HIDE DEF c
<1>2. o \in AluI \cup ShiftI \cup Loads \cup Stores \cup {"LOAD3", "JALR"}
  BY ClearedCodes DEF ExecuteAsserts
<1>3. /\ c # <<19, 0, 0>> /\ c # <<19, 2, 0>> /\ c # <<19, 3, 0>> /\ c # <<19, 4, 0>>
      /\ c # <<19, 6, 0>> /\ c # <<19, 7, 0>> /\ c # <<19, 1, 0>> /\ c # <<19, 5, 0>>
  <2>1. /\ c # OP["ADDI"] /\ c # OP["SLTI"] /\ c # OP["SLTIU"] /\ c # OP["XORI"]
        /\ c # OP["ORI"] /\ c # OP["ANDI"] /\ c # OP["SLLI"] /\ c # OP["SRLI"]
    BY <1>1, OpNames, Zenon DEF AluI, ShiftI
  <2> QED
    BY <2>1, OpRows, Zenon
<1>4. /\ c # <<3, 0, 0>> /\ c # <<3, 1, 0>> /\ c # <<3, 2, 0>> /\ c # <<3, 4, 0>>
      /\ c # <<3, 5, 0>>
  <2>1. /\ c # OP["LB"] /\ c # OP["LH"] /\ c # OP["LW"] /\ c # OP["LBU"] /\ c # OP["LHU"]
    BY <1>1, OpNames, Zenon DEF Loads
  <2> QED
    BY <2>1, OpRows, Zenon
<1>5. c # <<35, 0, 0>> /\ c # <<35, 1, 0>> /\ c # <<35, 2, 0>>
  <2>1. c # OP["SB"] /\ c # OP["SH"] /\ c # OP["SW"]
    BY <1>1, OpNames, Zenon DEF Stores
  <2> QED
    BY <2>1, OpRows, Zenon
<1>6. Opcode("JALR") = 103 /\ Funct3("JALR") = 0
  BY OpGroups DEF Funct3
<1>7. c # <<103, 0, 0>>
  <2>1. c # OP["JALR"]
    BY <1>1, OpNames, Zenon
  <2> QED
    BY <2>1, OpRows, Zenon
<1>8. o \notin AluI \cup ShiftI
  <2> SUFFICES ASSUME o \in AluI \cup ShiftI PROVE FALSE
    OBVIOUS
  <2>1. Opcode(o) = 19 /\ Funct3(o) \in {0, 1, 2, 3, 4, 5, 6, 7}
    BY OpGroups, FunctionCodes
  <2> QED
    BY <1>3, <2>1 DEF c
<1>9. o \in Loads \cup {"LOAD3"} => o = "LOAD3"
  <2> SUFFICES ASSUME o \in Loads \cup {"LOAD3"}, o # "LOAD3" PROVE FALSE
    OBVIOUS
  <2>1. Opcode(o) = 3 /\ Funct3(o) \in {0, 1, 2, 4, 5}
    BY OpGroups, FunctionCodes
  <2> QED
    BY <1>4, <2>1 DEF c
<1>10. o \notin Stores
  <2> SUFFICES ASSUME o \in Stores PROVE FALSE
    OBVIOUS
  <2>1. Opcode(o) = 35 /\ Funct3(o) \in {0, 1, 2}
    BY OpGroups, FunctionCodes
  <2> QED
    BY <1>5, <2>1 DEF c
<1>11. o = "LOAD3"
  BY <1>2, <1>6, <1>7, <1>8, <1>9, <1>10 DEF c
<1>12. state' = "ABORTED" /\ dec' = dec /\ aluOut' = aluOut /\ cause' = cause
  BY DEF ExecuteAsserts
<1>13. Typed'
  BY <1>12 DEF Ready, Typed
<1> QED
  BY <1>11, <1>12, <1>13 DEF Ready, Staged

(* When a branch is taken, in execute's terms.                             *)
LEMMA TakenRows ==
  ASSUME NEW o, NEW x, NEW y
  PROVE  /\ o = "BEQ" => (Taken(o, x, y) <=> x = y)
         /\ o = "BNE" => (Taken(o, x, y) <=> x # y)
         /\ o = "BLT" => (Taken(o, x, y) <=> Signed(x) < Signed(y))
         /\ o = "BGE" => (Taken(o, x, y) <=> Signed(x) >= Signed(y))
         /\ o = "BLTU" => (Taken(o, x, y) <=> x < y)
         /\ o = "BGEU" => (Taken(o, x, y) <=> x >= y)
<1>1. o = "BEQ" => (Taken(o, x, y) <=> x = y)
  BY DEF Taken
<1>2. o = "BNE" => (Taken(o, x, y) <=> x # y)
  BY DEF Taken
<1>3. o = "BLT" => (Taken(o, x, y) <=> Signed(x) < Signed(y))
  BY DEF Taken
<1>4. o = "BGE" => (Taken(o, x, y) <=> Signed(x) >= Signed(y))
  BY DEF Taken
<1>5. o = "BLTU" => (Taken(o, x, y) <=> x < y)
  BY DEF Taken
<1>6. o = "BGEU" => (Taken(o, x, y) <=> x >= y)
  BY DEF Taken
<1> QED
  BY <1>1, <1>2, <1>3, <1>4, <1>5, <1>6, Zenon

(* The cases of a branch.                                                  *)
LEMMA ExecuteBStep ==
  ASSUME Ready, ExecuteB, UNCHANGED <<asm, before, instruction, registers, pc, mem>>
  PROVE  Typed' /\ Staged'
<1> DEFINE o == asm.op
           x == dec.rs1v
           y == dec.rs2v
           a == Wrap(pc + se12 * 2)
<1>1. /\ dec.optype = "B" /\ op2 = <<Opcode(o), Funct3(o), 0>> /\ x = Rs1
      /\ o \in Branches \cup {"BRANCH2"}
  BY ClearedCodes DEF ExecuteB
<1>2. y = Rs2 /\ se12 * 2 = asm.imm /\ pc = before.pc
  BY <1>1, ReadyFlags DEF Ready, Parsed
<1>3. a = Wrap(before.pc + asm.imm) /\ a \in Word
  <2>1. pc \in Int /\ asm.imm \in Int
    BY ReadyFlags, WrapFacts
  <2>2. pc + asm.imm \in Int
    BY <2>1, SMT
  <2> QED
    BY <1>2, <2>2, WrapFacts
<1>4. dec' = Branching(dec, a, aluOut' = 1) /\ Passed
  BY DEF ExecuteB, Branching, Passed, Stage
<1> HIDE DEF o, x, y, a
<1>5. \/ op2 = <<99, 0, 0>> /\ aluOut' = Flag(x = y)
      \/ op2 = <<99, 1, 0>> /\ aluOut' = Flag(x # y)
      \/ op2 = <<99, 4, 0>> /\ aluOut' = Flag(Signed(x) < Signed(y))
      \/ op2 = <<99, 6, 0>> /\ aluOut' = Flag(x < y)
      \/ op2 = <<99, 5, 0>> /\ aluOut' = Flag(Signed(x) >= Signed(y))
      \/ op2 = <<99, 7, 0>> /\ aluOut' = Flag(x >= y)
      \/ (\A n \in DOMAIN OP : op2 # OP[n]) /\ aluOut' = aluOut
  <2>1. \/ op2 = OP.BEQ /\ aluOut' = Flag(x = y)
        \/ op2 = OP.BNE /\ aluOut' = Flag(x # y)
        \/ op2 = OP.BLT /\ aluOut' = Flag(Signed(x) < Signed(y))
        \/ op2 = OP.BLTU /\ aluOut' = Flag(x < y)
        \/ op2 = OP.BGE /\ aluOut' = Flag(Signed(x) >= Signed(y))
        \/ op2 = OP.BGEU /\ aluOut' = Flag(x >= y)
        \/ (\A n \in DOMAIN OP : op2 # OP[n]) /\ aluOut' = aluOut
    BY Zenon DEF ExecuteB, x, y
  <2>2. /\ OP.BEQ = <<99, 0, 0>> /\ OP.BNE = <<99, 1, 0>> /\ OP.BLT = <<99, 4, 0>>
        /\ OP.BLTU = <<99, 6, 0>> /\ OP.BGE = <<99, 5, 0>> /\ OP.BGEU = <<99, 7, 0>>
    BY OpRows, Zenon
  <2> QED
    BY <2>1, <2>2
<1>6. \/ o = "BEQ" /\ op2 = <<99, 0, 0>>
      \/ o = "BNE" /\ op2 = <<99, 1, 0>>
      \/ o = "BLT" /\ op2 = <<99, 4, 0>>
      \/ o = "BGE" /\ op2 = <<99, 5, 0>>
      \/ o = "BLTU" /\ op2 = <<99, 6, 0>>
      \/ o = "BGEU" /\ op2 = <<99, 7, 0>>
      \/ o = "BRANCH2" /\ op2 = <<99, 2, 0>>
  BY <1>1, OpGroups, FunctionCodes, SMT
<1>7. aluOut' \in Word
  <2>1. \A b \in BOOLEAN : Flag(b) \in Word
    BY WrapFacts DEF Flag
  <2>2. aluOut \in Word
    BY ReadyFlags
  <2> QED
    BY <1>5, <2>1, <2>2 DEF Flag
<1>8. o \in Branches => /\ Taken(o, x, y) => aluOut' = 1
                        /\ ~Taken(o, x, y) => aluOut' = 0
  <2>1. (\A n \in DOMAIN OP : op2 # OP[n]) => o \notin Branches
    <3> SUFFICES ASSUME \A n \in DOMAIN OP : op2 # OP[n], o \in Branches PROVE FALSE
      OBVIOUS
    <3>1. /\ op2 # OP["BEQ"] /\ op2 # OP["BNE"] /\ op2 # OP["BLT"] /\ op2 # OP["BGE"]
          /\ op2 # OP["BLTU"] /\ op2 # OP["BGEU"]
      BY OpNames, Zenon DEF Branches
    <3>2. /\ op2 # <<99, 0, 0>> /\ op2 # <<99, 1, 0>> /\ op2 # <<99, 4, 0>>
          /\ op2 # <<99, 5, 0>> /\ op2 # <<99, 6, 0>> /\ op2 # <<99, 7, 0>>
      BY <3>1, OpRows, Zenon
    <3>3. o = "BRANCH2"
      BY <1>6, <3>2, Zenon
    <3> QED
      BY <3>3 DEF Branches
  <2>2. CASE op2 = <<99, 0, 0>> /\ aluOut' = Flag(x = y)
    <3>1. o = "BEQ"
      BY <1>6, <2>2, SMT
    <3>2. Taken(o, x, y) <=> x = y
      BY <3>1, TakenRows, Zenon
    <3> QED
      BY <2>2, <3>2 DEF Flag
  <2>3. CASE op2 = <<99, 1, 0>> /\ aluOut' = Flag(x # y)
    <3>1. o = "BNE"
      BY <1>6, <2>3, SMT
    <3>2. Taken(o, x, y) <=> x # y
      BY <3>1, TakenRows, Zenon
    <3> QED
      BY <2>3, <3>2 DEF Flag
  <2>4. CASE op2 = <<99, 4, 0>> /\ aluOut' = Flag(Signed(x) < Signed(y))
    <3>1. o = "BLT"
      BY <1>6, <2>4, SMT
    <3>2. Taken(o, x, y) <=> Signed(x) < Signed(y)
      BY <3>1, TakenRows, Zenon
    <3> QED
      BY <2>4, <3>2 DEF Flag
  <2>5. CASE op2 = <<99, 6, 0>> /\ aluOut' = Flag(x < y)
    <3>1. o = "BLTU"
      BY <1>6, <2>5, SMT
    <3>2. Taken(o, x, y) <=> x < y
      BY <3>1, TakenRows, Zenon
    <3> QED
      BY <2>5, <3>2 DEF Flag
  <2>6. CASE op2 = <<99, 5, 0>> /\ aluOut' = Flag(Signed(x) >= Signed(y))
    <3>1. o = "BGE"
      BY <1>6, <2>6, SMT
    <3>2. Taken(o, x, y) <=> Signed(x) >= Signed(y)
      BY <3>1, TakenRows, Zenon
    <3> QED
      BY <2>6, <3>2 DEF Flag
  <2>7. CASE op2 = <<99, 7, 0>> /\ aluOut' = Flag(x >= y)
    <3>1. o = "BGEU"
      BY <1>6, <2>7, SMT
    <3>2. Taken(o, x, y) <=> x >= y
      BY <3>1, TakenRows, Zenon
    <3> QED
      BY <2>7, <3>2 DEF Flag
  <2> QED
    BY <1>5, <2>1, <2>2, <2>3, <2>4, <2>5, <2>6, <2>7, Zenon
<1>9. /\ dec' \in Instr /\ dec'.jumpTarget = a /\ dec'.isJump = (aluOut' = 1)
      /\ dec'.writeRd = FALSE /\ dec'.readMem = FALSE /\ dec'.writeMem = FALSE
  <2> DEFINE j == (aluOut' = 1)
  <2>1. j \in BOOLEAN
    OBVIOUS
  <2> HIDE DEF j
  <2>2. dec' = Branching(dec, a, j)
    BY <1>4 DEF j
  <2>3. dec \in Instr /\ dec.writeRd = FALSE /\ dec.readMem = FALSE /\ dec.writeMem = FALSE
    BY ReadyFlags
  <2>4. BranchSet(Branching(dec, a, j), dec, a, j)
    <3>1. dec \in Instr /\ a \in Word /\ j \in BOOLEAN
      BY <1>3, <2>1, <2>3
    <3> QED
      BY <3>1, BranchingInstr, Zenon
  <2> QED
    BY <2>2, <2>3, <2>4 DEF BranchSet, j
<1>10. UNCHANGED <<asm, before>>
  BY DEF Passed
<1>11. o \notin Loads \cup Stores \cup WritesRd \cup {"MUL"} /\ o \in Completing
  BY <1>1, GroupsApart
<1>12. Flagged'
  <2>1. /\ (o \in Loads) = FALSE /\ (o \in Stores) = FALSE /\ (o \in WritesRd \cup {"MUL"}) = FALSE
    BY <1>11
  <2>2. /\ dec'.readMem = (o \in Loads) /\ dec'.writeMem = (o \in Stores)
        /\ dec'.writeRd = (o \in WritesRd \cup {"MUL"})
    BY <1>9, <2>1, Zenon
  <2> QED
    BY <1>10, <1>11, <2>2, Zenon DEF Flagged, o
<1>13. o \in Branches => Aimed'
  <2> SUFFICES ASSUME o \in Branches PROVE Aimed'
    OBVIOUS
  <2>1. NextPc(asm, Rs1, Rs2, before.pc) = Wrap(before.pc + (IF Taken(o, x, y) THEN asm.imm ELSE 4))
    BY <1>1, <1>2, NextRows DEF o
  <2>2. Taken(o, x, y) => dec'.isJump
    BY <1>8, <1>9
  <2>3. ~Taken(o, x, y) => ~dec'.isJump
    <3>1. ~Taken(o, x, y) => ~(aluOut' = 1)
      BY <1>8, SMT
    <3> QED
      BY <1>9, <3>1, Zenon
  <2>4. (IF dec'.isJump THEN dec'.jumpTarget ELSE Wrap(before.pc + 4)) = NextPc(asm, Rs1, Rs2, before.pc)
    BY <1>3, <1>9, <2>1, <2>2, <2>3, Zenon
  <2> QED
    BY <1>10, <2>4, SameInstruction
<1>14. o \notin Branches => o \notin Mnemonics
  BY <1>1, GroupsApart
<1> QED
  BY <1>4, <1>7, <1>9, <1>11, <1>12, <1>13, <1>14, ToMemory DEF o

(* The sign that AUIPC extends is shifted out again.                       *)
LEMMA UpperKept ==
  ASSUME NEW i \in 0 .. 2^20 - 1
  PROVE  /\ i \in Word /\ Wrap(SignExtend(i, 20)) \in Word
         /\ Wrap(SignExtend(i, 20)) % 2^(XLEN - 12) = i % 2^(XLEN - 12)
<1> DEFINE s == SignExtend(i, 20)
<1>1. s = i \/ s = i - 1048576
  BY SMT DEF SignExtend
<1>2. i \in Word
  BY WidthsHold, SMT DEF Widths, Sized, Word
<1>3. s \in Int
  BY <1>1, SMT
<1> HIDE DEF s
<1>4. Wrap(s) % 2^(XLEN - 12) = i % 2^(XLEN - 12)
  <2>1. CASE Sized(21, 2097152, 1048576, 512)
    BY <1>1, <2>1, SMT DEF Sized, Wrap
  <2>2. CASE Sized(22, 4194304, 2097152, 1024)
    BY <1>1, <2>2, SMT DEF Sized, Wrap
  <2>3. CASE Sized(23, 8388608, 4194304, 2048)
    BY <1>1, <2>3, SMT DEF Sized, Wrap
  <2>4. CASE Sized(24, 16777216, 8388608, 4096)
    BY <1>1, <2>4, SMT DEF Sized, Wrap
  <2>5. CASE Sized(25, 33554432, 16777216, 8192)
    BY <1>1, <2>5, SMT DEF Sized, Wrap
  <2>6. CASE Sized(26, 67108864, 33554432, 16384)
    BY <1>1, <2>6, SMT DEF Sized, Wrap
  <2>7. CASE Sized(27, 134217728, 67108864, 32768)
    BY <1>1, <2>7, SMT DEF Sized, Wrap
  <2>8. CASE Sized(28, 268435456, 134217728, 65536)
    BY <1>1, <2>8, SMT DEF Sized, Wrap
  <2>9. CASE Sized(29, 536870912, 268435456, 131072)
    BY <1>1, <2>9, SMT DEF Sized, Wrap
  <2>10. CASE Sized(30, 1073741824, 536870912, 262144)
    BY <1>1, <2>10, SMT DEF Sized, Wrap
  <2>11. CASE Sized(31, 2147483648, 1073741824, 524288)
    BY <1>1, <2>11, SMT DEF Sized, Wrap
  <2>12. CASE Sized(32, 4294967296, 2147483648, 1048576)
    BY <1>1, <2>12, SMT DEF Sized, Wrap
  <2> QED
    BY WidthsHold, <2>1, <2>2, <2>3, <2>4, <2>5, <2>6, <2>7, <2>8, <2>9, <2>10, <2>11, <2>12 DEF
       Widths
<1> QED
  BY <1>2, <1>3, <1>4, WrapFacts DEF s

(* The cases of LUI and AUIPC.                                             *)
LEMMA ExecuteUStep ==
  ASSUME Ready, ExecuteU, UNCHANGED <<asm, before, instruction, registers, pc, mem>>
  PROVE  Typed' /\ Staged'
<1> DEFINE o == asm.op
           i == dec.imm20
<1>1. /\ dec.optype = "U" /\ o \in {"LUI", "AUIPC"} /\ i = asm.imm /\ i \in 0 .. 2^20 - 1
      /\ dec.opcode = Opcode(o)
  <2>1. /\ dec.optype = "U" /\ i = asm.imm /\ dec.opcode = Opcode(o)
        /\ dec.optype = decode_type_table[Opcode(o)]
    BY DEF ExecuteU, Ready, Parsed
  <2>2. o \in {"LUI", "AUIPC"}
    BY <2>1, ReadyFlags, TypeGroups, Zenon
  <2>3. asm.imm \in 0 .. 2^20 - 1
    <3>1. Encodable(asm) /\ Format(asm.op) = "U"
      BY <2>2, ReadyFlags, OpGroups
    <3> QED
      BY <3>1, ImmRanges, SMT
  <2> QED
    BY <2>1, <2>2, <2>3
<1>2. pc = before.pc /\ pc \in Int
  BY ReadyFlags, WrapFacts
<1>3. dec' = Computing(dec) /\ Passed
  BY DEF ExecuteU, Computing, Passed, Stage
<1>4. OP.LUI[1] = 55 /\ OP.AUIPC[1] = 23
  BY OpRows
<1>5. (o = "LUI" => Opcode(o) = 55) /\ (o = "AUIPC" => Opcode(o) = 23)
  BY OpGroups
<1>6. /\ i \in Word /\ Wrap(se20) \in Word
      /\ Wrap(se20) % 2^(XLEN - 12) = i % 2^(XLEN - 12)
  BY <1>1, UpperKept DEF se20
<1>7. \A v : Shl(v, 12) = (v % 2^(XLEN - 12)) * 2^12
  <2>1. 12 < XLEN
    BY XlenAssumption, SMT
  <2> QED
    BY <2>1 DEF Shl
<1>8. /\ Shl(i, 12) = Upper(asm.imm) /\ Shl(Wrap(se20), 12) = Upper(asm.imm)
      /\ Upper(asm.imm) \in Word
  <2>1. 12 \in 0 .. 31
    BY SMT
  <2>2. Shl(i, 12) \in Word
    BY <1>6, <2>1, ShiftsInWord, Zenon
  <2>3. Shl(i, 12) = Upper(i) /\ Shl(Wrap(se20), 12) = Upper(i)
    BY <1>6, <1>7, Zenon DEF Upper
  <2> QED
    BY <1>1, <2>2, <2>3, Zenon
<1>9. ASSUME NEW v \in Word, aluOut' = v, v = Value PROVE Typed' /\ Staged'
  <2>1. asm.op \in AluR \cup AluI \cup ShiftI \cup {"LUI", "AUIPC", "MUL"}
    BY <1>1
  <2> QED
    BY <1>1, <1>3, <1>9, <2>1, AluDone
<1>10. CASE dec.opcode = OP.LUI[1] /\ aluOut' = Shl(dec.imm20, 12)
  <2>1. o = "LUI"
    BY <1>1, <1>4, <1>5, <1>10, SMT
  <2>2. Value = Upper(asm.imm)
    BY <2>1, ValueRows
  <2> QED
    BY <1>8, <1>9, <1>10, <2>2
<1>11. CASE dec.opcode = OP.AUIPC[1] /\ aluOut' = Wrap(Shl(Wrap(se20), 12) + pc)
  <2>1. o = "AUIPC"
    BY <1>1, <1>4, <1>5, <1>11, SMT
  <2>2. Value = Wrap(pc + Upper(asm.imm))
    BY <1>2, <2>1, ValueRows
  <2>3. Upper(asm.imm) \in Int
    BY <1>8, WrapFacts
  <2>4. Upper(asm.imm) + pc = pc + Upper(asm.imm) /\ pc + Upper(asm.imm) \in Int
    BY <1>2, <2>3, SMT
  <2>5. aluOut' = Value /\ Value \in Word
    BY <1>8, <1>11, <2>2, <2>4, WrapFacts
  <2> QED
    BY <1>9, <2>5
<1> QED
  BY <1>10, <1>11 DEF ExecuteU

(* The case of JAL.                                                        *)
LEMMA ExecuteJStep ==
  ASSUME Ready, ExecuteJ, UNCHANGED <<asm, before, instruction, registers, pc, mem>>
  PROVE  Typed' /\ Staged'
<1> DEFINE a == Wrap(se20 * 2 + pc)
<1>1. /\ dec.optype = "J" /\ se20 * 2 = asm.imm /\ pc = before.pc
      /\ dec.optype = decode_type_table[Opcode(asm.op)]
  BY ReadyFlags DEF ExecuteJ, Ready, Parsed
<1>2. asm.op = "JAL"
  BY <1>1, ReadyFlags, TypeGroups, Zenon
<1>3. pc \in Int /\ asm.imm \in Int
  BY ReadyFlags, WrapFacts
<1>4. asm.imm + pc = pc + asm.imm /\ pc + asm.imm \in Int
  BY <1>3, SMT
<1>5. a = Wrap(before.pc + asm.imm) /\ a \in Word
  BY <1>1, <1>4, WrapFacts
<1>6. NextPc(asm, Rs1, Rs2, before.pc) = Wrap(before.pc + asm.imm)
  BY <1>2, NextRows
<1>7. dec' = Jumping(dec, a) /\ aluOut' = Wrap(pc + 4) /\ Passed
  BY DEF ExecuteJ, Jumping, Passed, Stage
<1> HIDE DEF a
<1> QED
  BY <1>1, <1>2, <1>5, <1>6, <1>7, JumpDone

(* Every system instruction traps as ECALL.                                *)
LEMMA ExecuteCStep ==
  ASSUME Ready, ExecuteC, UNCHANGED <<asm, before, instruction, registers, pc, mem>>
  PROVE  Typed' /\ Staged'
<1>1. dec.optype = "C" /\ dec.optype = decode_type_table[Opcode(asm.op)]
  BY DEF ExecuteC, Ready, Parsed
<1>2. asm.op \in {"ECALL", "EBREAK", "CSRRW"}
  BY <1>1, ReadyFlags, TypeGroups, Zenon
<1>3. state' = "TRAP" /\ cause' = "ENV_CALL_UMODE" /\ dec' = dec /\ aluOut' = aluOut
  BY DEF ExecuteC, cause_trap
<1>4. Typed'
  BY <1>3 DEF Ready, Typed
<1>5. Trapped'
  BY <1>2, <1>3 DEF Trapped
<1> QED
  BY <1>3, <1>4, <1>5 DEF Staged

(* execute works out what the manual says of the instruction, or traps.    *)
LEMMA ExecuteStep ==
  ASSUME Begun, Typed, Staged, execute
  PROVE  Typed' /\ Staged'
<1>1. Ready
  BY DEF execute, Staged, Ready
<1>2. UNCHANGED <<asm, before, instruction, registers, pc, mem>>
  BY DEF execute
<1> QED
  BY <1>1, <1>2, ExecuteRStep, ExecuteAluIStep, ExecuteLoadStep, ExecuteJalrStep, ExecuteSStep,
     ExecuteAssertsStep, ExecuteBStep, ExecuteUStep, ExecuteJStep, ExecuteCStep DEF execute

----------------------------------------------------------------------------
(* memory_access and writeback.                                            *)

(* A store merges its bits into the word.                                  *)
LEMMA Merged ==
  ASSUME NEW w \in Word, NEW v \in Word
  PROVE  /\ (w - (w % 2^8)) + (v % 2^8) \in Word
         /\ (w - (w % 2^16)) + (v % 2^16) \in Word
         /\ (w - (w % 2^XLEN)) + (v % 2^XLEN) = v
<1>1. (w - (w % 2^8)) + (v % 2^8) \in Word
  BY WidthsHold, SMT DEF Widths, Sized, Word
<1>2. (w - (w % 2^16)) + (v % 2^16) \in Word
  BY WidthsHold, SMT DEF Widths, Sized, Word
<1>3. (w - (w % 2^XLEN)) + (v % 2^XLEN) = v
  <2>1. w % 2^XLEN = w /\ v % 2^XLEN = v /\ w \in Int /\ v \in Int
    BY LowBits, WrapFacts
  <2>2. (w - w) + v = v
    BY <2>1, SMT
  <2> QED
    BY <2>1, <2>2
<1> QED
  BY <1>1, <1>2, <1>3

(* Bits that were cut once are not cut again.                              *)
LEMMA CutTwice ==
  ASSUME NEW v \in Word
  PROVE  (v % 2^8) % 2^8 = v % 2^8 /\ (v % 2^16) % 2^16 = v % 2^16
<1>1. v \in Nat
  BY WidthsHold, SMT DEF Widths, Sized, Word
<1>2. ASSUME NEW y \in Nat
      PROVE  (y % 2^8) % 2^8 = y % 2^8 /\ (y % 2^16) % 2^16 = y % 2^16
  BY SMT
<1> QED
  BY <1>1, <1>2, Zenon

(* A loaded byte or halfword whose sign is clear is not extended.          *)
LEMMA SignClear ==
  ASSUME NEW w \in Word
  PROVE  /\ Bit(w, 7) # 1 => Wrap(SignExtend(w % 2^8, 8)) = w % 2^8
         /\ Bit(w, 15) # 1 => Wrap(SignExtend(w % 2^16, 16)) = w % 2^16
<1>1. w \in Nat
  BY WidthsHold, SMT DEF Widths, Sized, Word
<1>2. ASSUME NEW y \in Nat, Bit(y, 7) # 1 PROVE SignExtend(y % 2^8, 8) = y % 2^8
  BY <1>2, SMT DEF Bit, SignExtend
<1>3. ASSUME NEW y \in Nat, Bit(y, 15) # 1 PROVE SignExtend(y % 2^16, 16) = y % 2^16
  BY <1>3, SMT DEF Bit, SignExtend
<1>4. Wrap(w % 2^8) = w % 2^8 /\ Wrap(w % 2^16) = w % 2^16
  BY LowBits, WrapFacts
<1> QED
  BY <1>1, <1>2, <1>3, <1>4, Zenon

(* The word in memory after a store, by its width.                         *)
LEMMA StoredRows ==
  ASSUME NEW m, NEW y, NEW w
  PROVE  /\ m.op = "SW" => Stored(m, y, w) = y
         /\ m.op = "SH" => Stored(m, y, w) = (w - (w % 2^16)) + (y % 2^16)
         /\ m.op = "SB" => Stored(m, y, w) = (w - (w % 2^8)) + (y % 2^8)
         /\ m.op \notin Stores => Stored(m, y, w) = w
BY DEF Stored, Stores

(* The access does what the manual says of a load and of a store.          *)
LEMMA MemoryStep ==
  ASSUME Begun, Typed, Staged, memory_access
  PROVE  Typed' /\ Staged'
<1> DEFINE o == asm.op
           w == before.mem
           b == dec.bits
<1>1. /\ Untouched /\ Flagged /\ (o \in Mnemonics => Aimed) /\ mem = w
      /\ Resulted(WritesRd \ Loads) /\ (o \in Stores => aluOut = Rs2 % 2^b) /\ cause = "none"
  BY DEF memory_access, Staged, Executed
<1>2. /\ UNCHANGED <<asm, before, instruction, dec, registers, pc>>
      /\ state' = "WRITEBACK" /\ cause' = "none"
      /\ aluOut' = (IF dec.readMem THEN mem % 2^b ELSE aluOut)
      /\ mem' = IF dec.writeMem THEN (mem - (mem % 2^b)) + (aluOut % 2^b) ELSE mem
  BY <1>1 DEF memory_access, Stage
<1>3. /\ dec \in Instr /\ b \in Sizes /\ mem \in Word /\ aluOut \in Word /\ w \in Word
      /\ Rs2 \in Word
  <2>1. dec \in Instr /\ mem \in Word /\ aluOut \in Word
    BY DEF Typed
  <2>2. b \in Sizes
    BY <2>1 DEF Instr
  <2> QED
    BY <2>1, <2>2, Sources
<1>4. /\ dec.readMem = (o \in Loads) /\ dec.writeMem = (o \in Stores)
      /\ o \in Loads \cup Stores => b = Width(o)
  BY <1>1 DEF Flagged
<1>5. /\ Rs1' = Rs1 /\ Rs2' = Rs2 /\ Value' = Value /\ SignLost' = SignLost
      /\ (Aimed' <=> Aimed) /\ Flagged'
  <2>1. UNCHANGED <<asm, before>>
    BY <1>2
  <2>2. /\ Rs1' = Rs1 /\ Rs2' = Rs2 /\ Value' = Value /\ SignLost' = SignLost
    BY <2>1, SameInstruction
  <2>3. Aimed' <=> Aimed
    BY <1>2, <2>2 DEF Aimed
  <2>4. Flagged'
    BY <1>1, <1>2, <2>2 DEF Flagged
  <2> QED
    BY <2>2, <2>3, <2>4
<1> HIDE DEF b, w, o
<1>6. aluOut' \in Word /\ mem' \in Word
  <2>1. mem % 2^b \in Word
    BY <1>3, LowBits, Zenon
  <2>2. (mem - (mem % 2^b)) + (aluOut % 2^b) \in Word
    <3>1. /\ (mem - (mem % 2^8)) + (aluOut % 2^8) \in Word
          /\ (mem - (mem % 2^16)) + (aluOut % 2^16) \in Word
          /\ (mem - (mem % 2^XLEN)) + (aluOut % 2^XLEN) \in Word
      BY <1>3, Merged
    <3>2. b = 8 \/ b = 16 \/ b = XLEN
      BY <1>3 DEF Sizes
    <3> QED
      BY <3>1, <3>2, Zenon
  <2> QED
    BY <1>2, <1>3, <2>1, <2>2
<1>7. Typed'
  BY <1>2, <1>3, <1>6 DEF Typed
<1>8. mem' = Stored(asm, Rs2, w)
  <2>1. CASE o \in Stores
    <3>1. mem' = (w - (w % 2^b)) + ((Rs2 % 2^b) % 2^b) /\ b = Width(o)
      BY <1>1, <1>2, <1>4, <2>1
    <3>2. o = "SB" \/ o = "SH" \/ o = "SW"
      BY <2>1 DEF Stores
    <3>3. CASE o = "SB"
      <4>1. b = 8
        BY <3>1, <3>3, WidthRows
      <4>2. (Rs2 % 2^8) % 2^8 = Rs2 % 2^8
        BY <1>3, CutTwice
      <4>3. Stored(asm, Rs2, w) = (w - (w % 2^8)) + (Rs2 % 2^8)
        BY <3>3, StoredRows DEF o
      <4> QED
        BY <3>1, <4>1, <4>2, <4>3, Zenon
    <3>4. CASE o = "SH"
      <4>1. b = 16
        BY <3>1, <3>4, WidthRows
      <4>2. (Rs2 % 2^16) % 2^16 = Rs2 % 2^16
        BY <1>3, CutTwice
      <4>3. Stored(asm, Rs2, w) = (w - (w % 2^16)) + (Rs2 % 2^16)
        BY <3>4, StoredRows DEF o
      <4> QED
        BY <3>1, <4>1, <4>2, <4>3, Zenon
    <3>5. CASE o = "SW"
      <4>1. b = XLEN
        BY <3>1, <3>5, WidthRows
      <4>2. Rs2 % 2^XLEN = Rs2
        BY <1>3, LowBits
      <4>3. (w - (w % 2^XLEN)) + (Rs2 % 2^XLEN) = Rs2
        BY <1>3, Merged
      <4>4. Stored(asm, Rs2, w) = Rs2
        BY <3>5, StoredRows DEF o
      <4> QED
        BY <3>1, <4>1, <4>2, <4>3, <4>4
    <3> QED
      BY <3>2, <3>3, <3>4, <3>5
  <2>2. CASE o \notin Stores
    <3>1. Stored(asm, Rs2, w) = w
      BY <2>2, StoredRows DEF o
    <3> QED
      BY <1>1, <1>2, <1>4, <2>2, <3>1
  <2> QED
    BY <2>1, <2>2
<1>9. Resulted(WritesRd)'
  <2> SUFFICES ASSUME o \in WritesRd, ~SignLost PROVE aluOut' = Value
    BY <1>2, <1>5 DEF Resulted, o
  <2>1. CASE o \in Loads
    <3>1. aluOut' = w % 2^b /\ b = Width(o)
      BY <1>1, <1>2, <1>4, <2>1
    <3>2. \/ o = "LB" \/ o = "LH" \/ o = "LW" \/ o = "LBU" \/ o = "LHU"
      BY <2>1 DEF Loads
    <3>3. CASE o = "LB"
      <4>1. Bit(w, 7) # 1
        BY <3>3 DEF SignLost, o, w
      <4>2. Value = Wrap(SignExtend(w % 2^8, 8))
        BY <3>3, ValueRows DEF o, w
      <4>3. Wrap(SignExtend(w % 2^8, 8)) = w % 2^8
        BY <1>3, <4>1, SignClear
      <4> QED
        BY <3>1, <3>3, <4>2, <4>3, WidthRows
    <3>4. CASE o = "LH"
      <4>1. Bit(w, 15) # 1
        BY <3>4 DEF SignLost, o, w
      <4>2. Value = Wrap(SignExtend(w % 2^16, 16))
        BY <3>4, ValueRows DEF o, w
      <4>3. Wrap(SignExtend(w % 2^16, 16)) = w % 2^16
        BY <1>3, <4>1, SignClear
      <4> QED
        BY <3>1, <3>4, <4>2, <4>3, WidthRows
    <3>5. CASE o = "LW"
      <4>1. w % 2^XLEN = w
        BY <1>3, LowBits
      <4>2. Value = w
        BY <3>5, ValueRows DEF o, w
      <4> QED
        BY <3>1, <3>5, <4>1, <4>2, WidthRows
    <3>6. CASE o = "LBU"
      <4>1. Value = w % 2^8
        BY <3>6, ValueRows DEF o, w
      <4> QED
        BY <3>1, <3>6, <4>1, WidthRows
    <3>7. CASE o = "LHU"
      <4>1. Value = w % 2^16
        BY <3>7, ValueRows DEF o, w
      <4> QED
        BY <3>1, <3>7, <4>1, WidthRows
    <3> QED
      BY <3>2, <3>3, <3>4, <3>5, <3>6, <3>7
  <2>2. CASE o \notin Loads
    BY <1>1, <1>2, <1>4, <2>2 DEF Resulted, o
  <2> QED
    BY <2>1, <2>2
<1>10. Accessed'
  <2>1. mem' = Stored(asm', Rs2', before'.mem)
    BY <1>2, <1>5, <1>8 DEF w
  <2>2. (asm.op \in Mnemonics => Aimed)'
    BY <1>1, <1>2, <1>5 DEF o
  <2> QED
    BY <1>5, <1>9, <2>1, <2>2 DEF Accessed
<1>11. Untouched'
  BY <1>1, <1>2 DEF Untouched
<1> QED
  BY <1>2, <1>7, <1>10, <1>11 DEF Staged

(* writeback brings the result to rd, and pc to the next instruction.      *)
LEMMA WritebackStep ==
  ASSUME Begun, Typed, Staged, writeback
  PROVE  Typed' /\ Staged'
<1> DEFINE o == asm.op
<1>1. /\ Untouched /\ Flagged /\ (o \in Mnemonics => Aimed)
      /\ mem = Stored(asm, Rs2, before.mem) /\ Resulted(WritesRd) /\ cause = "none"
  BY DEF writeback, Staged, Accessed
<1>2. /\ registers' = (IF dec.writeRd /\ dec.rd # 0 THEN [registers EXCEPT ![dec.rd] = aluOut] ELSE registers)
      /\ pc' = IF dec.isJump THEN dec.jumpTarget ELSE Wrap(pc + 4)
      /\ state' = "FETCH" /\ cause' = "none"
      /\ UNCHANGED <<asm, before, instruction, dec, aluOut, mem>>
  BY <1>1 DEF writeback, Stage
<1>3. /\ dec \in Instr /\ aluOut \in Word /\ pc \in Word /\ mem \in Word
      /\ registers \in [0 .. 31 -> Word]
  BY DEF Typed
<1>4. dec.rd \in 0 .. 31 /\ dec.jumpTarget \in Word
  BY <1>3 DEF Instr
<1>5. Typed'
  <2>1. registers' \in [0 .. 31 -> Word]
    BY <1>2, <1>3, <1>4
  <2>2. Wrap(pc + 4) \in Word
    <3>1. pc \in Int
      BY <1>3, WrapFacts
    <3>2. pc + 4 \in Int
      BY <3>1, SMT
    <3> QED
      BY <3>2, WrapFacts
  <2>3. pc' \in Word
    BY <1>2, <1>4, <2>2
  <2> QED
    BY <1>2, <1>3, <2>1, <2>3 DEF Typed
<1>6. Rs1' = Rs1 /\ Rs2' = Rs2 /\ Value' = Value /\ SignLost' = SignLost
  BY <1>2, SameInstruction
<1>7. Computes'
  <2> SUFFICES ASSUME o \in Mnemonics, ~SignLost PROVE Computed'
    BY <1>2, <1>6 DEF Computes, o
  <2>1. o # "MUL"
    BY GroupsApart
  <2>2. dec.writeRd = (o \in WritesRd) /\ (o \in WritesRd => dec.rd = asm.rd /\ aluOut = Value)
    BY <1>1, <2>1 DEF Flagged, Resulted
  <2>3. registers = before.registers
    BY <1>1 DEF Untouched
  <2>4. registers' = IF o \in WritesRd /\ asm.rd # 0
                     THEN [before.registers EXCEPT ![asm.rd] = Value] ELSE before.registers
    BY <1>2, <2>2, <2>3
  <2> QED
    BY <1>2, <1>6, <2>4 DEF Computed
<1>8. Jumps'
  <2> SUFFICES ASSUME o \in Mnemonics
               PROVE  \/ pc' = NextPc(asm, Rs1, Rs2, before.pc)
                      \/ asm.op = "JALR" /\ Wrap(Rs1 + asm.imm) % 2 = 1
    BY <1>2, <1>6 DEF Jumps, o
  <2>1. pc' = IF dec.isJump THEN dec.jumpTarget ELSE Wrap(before.pc + 4)
    BY <1>1, <1>2 DEF Untouched
  <2> QED
    BY <1>1, <2>1 DEF Aimed
<1>9. Accesses'
  <2>1. /\ dec.readMem = (o \in Loads) /\ dec.writeMem = (o \in Stores)
        /\ o \in Loads \cup Stores => dec.memOffset = Wrap(Rs1 + asm.imm)
    BY <1>1 DEF Flagged
  <2>2. mem' = Stored(asm', Rs2', before'.mem)
    BY <1>1, <1>2, <1>6
  <2> QED
    BY <1>2, <1>6, <2>1, <2>2 DEF Accesses
<1>10. o \in Completing
  BY <1>1 DEF Flagged
<1> QED
  BY <1>2, <1>5, <1>7, <1>8, <1>9, <1>10 DEF Staged

----------------------------------------------------------------------------
(* The invariant, and the properties of Rv32i.                             *)

(* Every stage keeps InstrInv: what each of them worked out is enough for  *)
(* the next.                                                               *)
THEOREM InstrInvariant == Spec => []InstrInv
<1>1. Init => InstrInv
  BY InitInstr
<1>2. InstrInv /\ [Next]_vars => InstrInv'
  <2> SUFFICES ASSUME InstrInv, [Next]_vars PROVE InstrInv'
    OBVIOUS
  <2>1. Begun /\ Typed /\ Staged
    BY DEF InstrInv
  <2>2. UNCHANGED <<asm, before, instruction>>
    BY DEF Next, vars, decode, execute, memory_access, writeback
  <2>3. Begun'
    BY <2>1, <2>2 DEF Begun
  <2>4. CASE decode
    BY <2>1, <2>3, <2>4, DecodeStep DEF InstrInv
  <2>5. CASE execute
    BY <2>1, <2>3, <2>5, ExecuteStep DEF InstrInv
  <2>6. CASE memory_access
    BY <2>1, <2>3, <2>6, MemoryStep DEF InstrInv
  <2>7. CASE writeback
    BY <2>1, <2>3, <2>7, WritebackStep DEF InstrInv
  <2>8. CASE UNCHANGED vars
    <3>1. /\ asm' = asm /\ before' = before /\ state' = state /\ dec' = dec /\ aluOut' = aluOut
          /\ registers' = registers /\ pc' = pc /\ mem' = mem /\ cause' = cause
      BY <2>8 DEF vars
    <3>2. Rs1' = Rs1 /\ Rs2' = Rs2 /\ Value' = Value /\ SignLost' = SignLost
      BY <3>1, SameInstruction
    <3>3. Typed'
      BY <2>1, <3>1 DEF Typed
    <3>4. /\ Untouched' = Untouched /\ Parsed' = Parsed /\ Flagged' = Flagged /\ Aimed' = Aimed
          /\ Trapped' = Trapped /\ Accesses' = Accesses /\ Jumps' = Jumps
      BY <3>1, <3>2 DEF Untouched, Parsed, Flagged, Aimed, Trapped, Accesses, Jumps, Done, se12,
         se20
    <3>5. Computes' = Computes
      BY <3>1, <3>2 DEF Computes, Computed, Done
    <3>6. Executed' = Executed /\ Accessed' = Accessed
      BY <3>1, <3>2, <3>4 DEF Executed, Accessed, Resulted
    <3>7. Staged'
      BY <2>1, <3>1, <3>4, <3>5, <3>6 DEF Staged
    <3> QED
      BY <2>3, <3>3, <3>7 DEF InstrInv
  <2> QED
    BY <2>4, <2>5, <2>6, <2>7, <2>8 DEF Next
<1> QED
  BY <1>1, <1>2, PTL DEF Spec

(* No field of instr_t loses a bit of what decode and execute put into it. *)
THEOREM TypeCorrect == Spec => []TypeOK
<1>1. InstrInv => TypeOK
  <2> SUFFICES ASSUME Typed PROVE TypeOK
    BY DEF InstrInv
  <2>1. dec \in Instr
    BY DEF Typed
  <2>2. /\ dec.opcode \in 0 .. 127 /\ dec.rd \in 0 .. 31 /\ dec.shamt \in 0 .. 31
        /\ dec.funct3 \in 0 .. 7 /\ dec.funct7 \in 0 .. 127
        /\ dec.memOffset \in Word /\ dec.jumpTarget \in Word
    BY <2>1 DEF Instr
  <2>3. dec.imm12 \in Imm12 /\ dec.imm20 \in Imm20
    BY <2>1 DEF Instr
  <2>4. \A r \in 0 .. 31 : registers[r] \in Word
    BY DEF Typed
  <2> QED
    BY <2>2, <2>3, <2>4 DEF TypeOK, Typed, Imm12, Imm20
<1> QED
  BY <1>1, InstrInvariant, PTL

(* What execute, memory_access and writeback leave in the registers is     *)
(* what the manual says of the instruction, where no sign is lost.         *)
THEOREM ComputesAlways == Spec => []Computes
<1>1. InstrInv => Computes
  BY DEF InstrInv, Staged, Computes, Done
<1> QED
  BY <1>1, InstrInvariant, PTL

(* writeback sets pc where the manual says: the targets of JAL, JALR and   *)
(* the branches, which decode halves and execute doubles and extends, and  *)
(* the next word otherwise.                                                *)
THEOREM JumpsAlways == Spec => []Jumps
<1>1. InstrInv => Jumps
  BY DEF InstrInv, Staged, Jumps, Done
<1> QED
  BY <1>1, InstrInvariant, PTL

(* memory_access reads for loads and writes for stores only, at the        *)
(* address and the width of the instruction, and a store keeps the rest of *)
(* the word.                                                               *)
THEOREM AccessesAlways == Spec => []Accesses
<1>1. InstrInv => Accesses
  BY DEF InstrInv, Staged, Accesses, Done
<1> QED
  BY <1>1, InstrInvariant, PTL

(* cause_trap is reached for ECALL and for what is no instruction, each    *)
(* with its cause, and by no instruction that completes.                   *)
THEOREM TrapsAlways == Spec => []Traps
<1>1. InstrInv => Traps
  <2> SUFFICES ASSUME InstrInv, Ended, asm.op \in (Mnemonics \cup {"RESERVED"}) \ {"FENCE", "EBREAK"}
               PROVE  cause = CASE asm.op = "ECALL" -> "ENV_CALL_UMODE"
                                [] asm.op = "RESERVED" -> "ILLEGAL_INSTRUCTION"
                                [] OTHER -> "none"
    BY DEF Traps
  <2>1. CASE state = "FETCH"
    <3>1. asm.op \in Completing /\ cause = "none"
      BY <2>1 DEF InstrInv, Staged
    <3>2. asm.op # "ECALL" /\ asm.op # "RESERVED"
      BY <3>1 DEF Completing, Mnemonics, WritesRd, Loads, Stores, Branches, AluI, ShiftI, AluR
    <3> QED
      BY <3>1, <3>2
  <2>2. CASE state = "TRAP"
    <3>1. \/ asm.op = "RESERVED" /\ cause = "ILLEGAL_INSTRUCTION"
          \/ asm.op = "ECALL" /\ cause = "ENV_CALL_UMODE"
      <4>1. asm.op # "CSRRW"
        BY DEF Mnemonics, WritesRd, Loads, Stores, Branches, AluI, ShiftI, AluR
      <4> QED
        BY <2>2, <4>1 DEF InstrInv, Staged, Trapped
    <3> QED
      BY <3>1
  <2>3. state # "ABORTED"
    <3>1. asm.op # "LOAD3"
      BY DEF Mnemonics, WritesRd, Loads, Stores, Branches, AluI, ShiftI, AluR
    <3> QED
      BY <3>1 DEF InstrInv, Staged
  <2> QED
    BY <2>1, <2>2, <2>3 DEF Ended, Done
<1> QED
  BY <1>1, InstrInvariant, PTL
=============================================================================
