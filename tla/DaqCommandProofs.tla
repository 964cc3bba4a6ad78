-------------------------- MODULE DaqCommandProofs --------------------------
(***************************************************************************)
(* Theorems about DaqCommands, for all settings: what is sent to the board *)
(* are bytes, and the version 1 board reads the settings out of them.      *)
(***************************************************************************)
EXTENDS DaqCommands, WellFoundedInduction, TLAPS

-----------------------------------------------------------------------------
(* What is sent to the board are bytes.                                    *)

LEMMA Powers ==
    /\ 2 ^ 0 = 1 /\ 2 ^ 1 = 2 /\ 2 ^ 2 = 4 /\ 2 ^ 3 = 8 /\ 2 ^ 4 = 16 /\ 2 ^ 5 = 32
    /\ 2 ^ 6 = 64 /\ 2 ^ 7 = 128 /\ 2 ^ 8 = 256 /\ 2 ^ 9 = 512 /\ 2 ^ 10 = 1024
    /\ 2 ^ 11 = 2048 /\ 2 ^ 12 = 4096 /\ 2 ^ 13 = 8192 /\ 2 ^ 14 = 16384
    /\ 2 ^ 15 = 32768 /\ 2 ^ 16 = 65536
OBVIOUS

LEMMA SendType ==
    ASSUME NEW command \in Int, NEW arg \in Int
    PROVE  daqv1_send_command(command, arg) \in 0..255
<1>1. arg % 8 \in Int
  OBVIOUS
<1>2. 8 * command + (arg % 8) \in Int
  BY <1>1
<1>3. QED
  BY <1>2 DEF daqv1_send_command, Byte

LEMMA ThreeBitsType ==
    ASSUME NEW from \in Int, NEW first_bit \in {0, 3, 6, 9, 12, 15}
    PROVE  three_bits(from, first_bit) \in Int
<1>1. /\ from \div 1 \in Int /\ from \div 8 \in Int /\ from \div 64 \in Int
      /\ from \div 512 \in Int /\ from \div 4096 \in Int /\ from \div 32768 \in Int
  OBVIOUS
<1>2. from \div (2 ^ first_bit) \in Int
  <2>1. 2 ^ first_bit \in {1, 8, 64, 512, 4096, 32768}
    <3>1. first_bit = 0 => 2 ^ first_bit = 1
      OBVIOUS
    <3>2. first_bit = 3 => 2 ^ first_bit = 8
      OBVIOUS
    <3>3. first_bit = 6 => 2 ^ first_bit = 64
      OBVIOUS
    <3>4. first_bit = 9 => 2 ^ first_bit = 512
      OBVIOUS
    <3>5. first_bit = 12 => 2 ^ first_bit = 4096
      OBVIOUS
    <3>6. first_bit = 15 => 2 ^ first_bit = 32768
      OBVIOUS
    <3> DEFINE p == 2 ^ first_bit
    <3> HIDE DEF p
    <3>7. p \in {1, 8, 64, 512, 4096, 32768}
      BY <3>1, <3>2, <3>3, <3>4, <3>5, <3>6 DEF p
    <3>8. QED
      BY <3>7 DEF p
  <2>2. QED
    BY <1>1, <2>1
<1> DEFINE n == from \div (2 ^ first_bit)
<1> HIDE DEF n
<1>3. n % 8 \in Int
  BY <1>2 DEF n
<1>4. QED
  BY <1>3 DEF three_bits, n

\* k is the logarithm of n.
Fits(n, k) == 2 ^ k <= n /\ n < 2 ^ (k + 1)

LEMMA Log2Fits ==
    ASSUME NEW n, n # 0
    PROVE  log2(n) = CHOOSE k \in 0..15 : Fits(n, k)
BY Zenon DEF log2, Fits

LEMMA Log2Type ==
    ASSUME NEW n \in Nat, n < 65536
    PROVE  log2(n) \in Int
<1>1. CASE n = 0
  BY <1>1 DEF log2
<1>2. CASE n # 0
  <2>1. /\ 0 + 1 = 1 /\ 1 + 1 = 2 /\ 2 + 1 = 3 /\ 3 + 1 = 4 /\ 4 + 1 = 5 /\ 5 + 1 = 6
        /\ 6 + 1 = 7 /\ 7 + 1 = 8 /\ 8 + 1 = 9 /\ 9 + 1 = 10 /\ 10 + 1 = 11
        /\ 11 + 1 = 12 /\ 12 + 1 = 13 /\ 13 + 1 = 14 /\ 14 + 1 = 15 /\ 15 + 1 = 16
    OBVIOUS
  <2>2. \/ Fits(n, 0) \/ Fits(n, 1) \/ Fits(n, 2) \/ Fits(n, 3) \/ Fits(n, 4)
        \/ Fits(n, 5) \/ Fits(n, 6) \/ Fits(n, 7) \/ Fits(n, 8) \/ Fits(n, 9)
        \/ Fits(n, 10) \/ Fits(n, 11) \/ Fits(n, 12) \/ Fits(n, 13) \/ Fits(n, 14)
        \/ Fits(n, 15)
    BY <1>2, <2>1, Powers DEF Fits
  <2>3. \E k \in 0..15 : Fits(n, k)
    BY <2>2
  <2>4. log2(n) = CHOOSE k \in 0..15 : Fits(n, k)
    BY <1>2, Log2Fits
  <2>5. log2(n) \in 0..15
    BY <2>3, <2>4
  <2>6. QED
    BY <2>5
<1>3. QED
  BY <1>1, <1>2

LEMMA UInt16Nat ==
    ASSUME NEW n \in UInt16
    PROVE  n \in Nat /\ n < 65536
BY DEF UInt16

LEMMA ByteUInt32 ==
    ASSUME NEW n \in Nat
    PROVE  Byte(n) \in 0..255 /\ Byte(n) \in UInt32
<1>1. n % 256 \in 0..255
  OBVIOUS
<1>2. \A m \in 0..255 : m \in UInt32
  BY DEF UInt32
<1>3. QED
  BY <1>1, <1>2 DEF Byte

LEMMA SettingsFields ==
    ASSUME NEW s \in SettingsType
    PROVE  /\ s.number_of_asics \in Nat /\ s.ms_buff \in Nat /\ s.buffer_size \in Nat
           /\ s.sample_time \in Nat /\ s.sample_time < 65536
BY UInt16Nat DEF SettingsType, UInt32

\* A command with one digit of a number is a byte.
LEMMA DigitType ==
    ASSUME NEW c \in Int, NEW n \in Int, NEW k \in {0, 3, 6, 9, 12, 15}
    PROVE  daqv1_send_command(c, three_bits(n, k)) \in 0..255
BY SendType, ThreeBitsType

LEMMA SizeDigitType ==
    ASSUME NEW last \in Int, NEW i \in 1..6
    PROVE  daqv1_send_command(ADDCNT, three_bits(last, 3 * (6 - i))) \in 0..255
<1>1. 3 * (6 - i) \in {0, 3, 6, 9, 12, 15}
  OBVIOUS
<1>2. ADDCNT \in Int
  BY DEF ADDCNT
<1>3. ASSUME NEW k \in {0, 3, 6, 9, 12, 15}
      PROVE  daqv1_send_command(ADDCNT, three_bits(last, k)) \in 0..255
  <2>1. three_bits(last, k) \in Int
    BY ThreeBitsType
  <2>2. QED
    BY <1>2, <2>1, SendType
<1>4. QED
  BY <1>1, <1>3

LEMMA FourInSeq ==
    ASSUME NEW S, NEW a \in S, NEW b \in S, NEW c \in S, NEW d \in S
    PROVE  <<a, b, c, d>> \in Seq(S) /\ <<a, b>> \in Seq(S) /\ <<a>> \in Seq(S)
OBVIOUS

LEMMA PiecesType ==
    ASSUME NEW s \in SettingsType
    PROVE  /\ daqv1_set_number_of_asics(s.number_of_asics) \in Seq(0..255)
           /\ daqv1_set_array_mask(1) \in Seq(0..255)
           /\ daqv1_set_buffer_size(s.buffer_size) \in Seq(0..255)
           /\ daqv1_set_array_a_timing(s.sample_time) \in Seq(0..255)
           /\ daqv1_reset \in Seq(0..255)
<1> DEFINE B == 0..255
           asics == daqv1_set_number_of_asics(s.number_of_asics)
           mask == daqv1_set_array_mask(1)
           size == daqv1_set_buffer_size(s.buffer_size)
           timing == daqv1_set_array_a_timing(s.sample_time)
           reset == daqv1_reset
           n == s.number_of_asics - 1
           last == s.buffer_size - 1
<1>1. /\ n \in Int /\ last \in Int
      /\ s.sample_time \in Nat /\ s.sample_time < 65536
  BY SettingsFields
<1> HIDE DEF n, last
<1>2. ASSUME NEW a \in 0..255, NEW b \in 0..255, NEW c \in 0..255, NEW d \in 0..255
      PROVE  <<a, b, c, d>> \in Seq(B) /\ <<a, b>> \in Seq(B) /\ <<a>> \in Seq(B)
  BY FourInSeq
<1>3. asics \in Seq(B)
  <2> DEFINE a == daqv1_send_command(ASICNUM, three_bits(n, 3))
             b == daqv1_send_command(ASICNUM, three_bits(n, 0))
  <2>1. ASICNUM \in Int /\ n \in Int
    BY <1>1 DEF ASICNUM
  <2>2. a \in 0..255 /\ b \in 0..255
    BY <2>1, DigitType
  <2>3. asics = <<a, b>>
    BY DEF daqv1_set_number_of_asics, n
  <2> HIDE DEF a, b, asics
  <2>4. QED
    BY <1>2, <2>2, <2>3
<1>4. mask \in Seq(B)
  <2> DEFINE inverted == 2 ^ 12 - 1 - 1
             a == daqv1_send_command(ARRAY_MASK20, three_bits(inverted, 0))
             b == daqv1_send_command(ARRAY_MASK53, three_bits(inverted, 3))
             c == daqv1_send_command(ARRAY_MASK86, three_bits(inverted, 6))
             d == daqv1_send_command(ARRAY_MASK119, three_bits(inverted, 9))
  <2>1. mask = <<a, b, c, d>>
    BY DEF daqv1_set_array_mask
  <2>2. inverted \in Int
    BY Powers
  <2> HIDE DEF inverted
  <2>3. /\ ARRAY_MASK20 \in Int /\ ARRAY_MASK53 \in Int
        /\ ARRAY_MASK86 \in Int /\ ARRAY_MASK119 \in Int
    BY DEF ARRAY_MASK20, ARRAY_MASK53, ARRAY_MASK86, ARRAY_MASK119
  <2>4. a \in 0..255 /\ b \in 0..255 /\ c \in 0..255 /\ d \in 0..255
    <3>1. a \in 0..255
      BY <2>2, <2>3, DigitType
    <3>2. b \in 0..255
      BY <2>2, <2>3, DigitType
    <3>3. c \in 0..255
      BY <2>2, <2>3, DigitType
    <3>4. d \in 0..255
      BY <2>2, <2>3, DigitType
    <3>5. QED
      BY <3>1, <3>2, <3>3, <3>4
  <2> HIDE DEF a, b, c, d, mask
  <2>5. QED
    BY <1>2, <2>1, <2>4
<1>5. size \in Seq(B)
  <2> DEFINE f(i) == daqv1_send_command(ADDCNT, three_bits(last, 3 * (6 - i)))
  <2>1. ASSUME NEW i \in 1..6
        PROVE  f(i) \in B
    BY <1>1, SizeDigitType
  <2>2. size = [i \in 1..6 |-> f(i)]
    BY DEF daqv1_set_buffer_size, last
  <2> HIDE DEF f, size, B
  <2>3. QED
    BY <2>1, <2>2
<1>6. timing \in Seq(B)
  <2> DEFINE k == log2(s.sample_time) - 1
             a == daqv1_send_command(TA, three_bits(k, 0))
  <2>1. log2(s.sample_time) \in Int
    BY <1>1, Log2Type
  <2>2. k \in Int /\ TA \in Int
    BY <2>1 DEF TA
  <2>3. timing = <<a>>
    BY DEF daqv1_set_array_a_timing
  <2> HIDE DEF k
  <2>4. a \in 0..255
    BY <2>2, DigitType
  <2> HIDE DEF a, timing
  <2>5. QED
    BY <1>2, <2>3, <2>4
<1>7. reset \in Seq(B)
  <2> DEFINE a == daqv1_send_command(SOFT_RESET, 0)
  <2>1. SOFT_RESET \in Int /\ 0 \in Int
    BY DEF SOFT_RESET
  <2>2. a \in 0..255
    BY <2>1, SendType
  <2>3. reset = <<a>>
    BY DEF daqv1_reset
  <2> HIDE DEF a, reset
  <2>4. QED
    BY <1>2, <2>2, <2>3
<1> HIDE DEF B
<1> HIDE DEF asics, mask, size, timing, reset
<1>8. /\ asics \in Seq(B) /\ mask \in Seq(B) /\ size \in Seq(B)
      /\ timing \in Seq(B) /\ reset \in Seq(B)
  BY <1>3, <1>4, <1>5, <1>6, <1>7
<1>9. QED
  BY <1>8 DEF B, asics, mask, size, timing, reset

LEMMA CommandType ==
    ASSUME NEW s \in SettingsType
    PROVE  CommandData(s) \in Seq(0..255)
<1> DEFINE asics == daqv1_set_number_of_asics(s.number_of_asics)
           mask == daqv1_set_array_mask(1)
           size == daqv1_set_buffer_size(s.buffer_size)
           timing == daqv1_set_array_a_timing(s.sample_time)
           reset == daqv1_reset
<1>1. /\ asics \in Seq(0..255) /\ mask \in Seq(0..255) /\ size \in Seq(0..255)
      /\ timing \in Seq(0..255) /\ reset \in Seq(0..255)
  BY PiecesType
<1>2. CommandData(s) = asics \o mask \o size \o timing \o reset
  BY DEF CommandData
<1> HIDE DEF asics, mask, size, timing, reset
<1>3. QED
  BY <1>1, <1>2

\* The byte meant for a register is one, unless it is PAREG and the sample time has none.
LEMMA MeantType ==
    ASSUME NEW s \in SettingsType, NEW r \in Registers,
           r = "PAREG" => s.sample_time \in SampleTimes
    PROVE  Meant(s, r) \in 0..255
<1>1. s.number_of_asics - 1 \in Int /\ s.ms_buff \in Int
  BY SettingsFields
<1>2. CASE r = "ASICNUM"
  BY <1>1, <1>2 DEF Meant, Byte
<1>3. CASE r = "MSBUFF"
  BY <1>1, <1>3 DEF Meant, Byte
<1>4. CASE r = "PAREG"
  <2>1. get_pareg(s.sample_time) \in 0..4
    BY <1>4 DEF get_pareg, SampleTimes
  <2>2. QED
    BY <1>4, <2>1 DEF Meant
<1>5. CASE r \in {"CONFIG", "STRT_RST"}
  BY <1>5 DEF Meant
<1>6. QED
  BY <1>2, <1>3, <1>4, <1>5 DEF Registers

-----------------------------------------------------------------------------
(* Induction, for what can be said with a set.                             *)

LEMMA LeastOfNat ==
    ASSUME NEW T, T \subseteq Nat, T # {}
    PROVE  \E x \in T : \A y \in T : x <= y
<1> DEFINE R == OpToRel(<, Nat)
<1>1. IsWellFoundedOn(R, Nat)
  BY NatLessThanWellFounded
<1>2. \A x, y \in T : y < x => <<y, x>> \in R
  BY DEF OpToRel
<1> HIDE DEF R
<1>3. PICK x \in T : \A y \in T : ~ (<<y, x>> \in R)
  BY <1>1, WFMin
<1>4. \A y \in T : ~(y < x)
  BY <1>2, <1>3
<1>5. \A y \in T : y \in Nat /\ x \in Nat /\ (~(y < x) => x <= y)
  OBVIOUS
<1>6. \A y \in T : x <= y
  BY <1>4, <1>5
<1>7. QED
  BY <1>6

LEMMA SetInduction ==
    ASSUME NEW T, 0 \in T, \A n \in Nat : n \in T => n + 1 \in T
    PROVE  Nat \subseteq T
<1> SUFFICES ASSUME Nat \ T # {} PROVE FALSE
  OBVIOUS
<1>1. PICK x \in Nat \ T : \A y \in Nat \ T : x <= y
  BY LeastOfNat
<1>2. x # 0 /\ x - 1 \in Nat /\ x - 1 \notin Nat \ T /\ (x - 1) + 1 = x
  BY <1>1
<1>3. QED
  BY <1>1, <1>2

-----------------------------------------------------------------------------
(* What the version 1 board reads.                                         *)

\* m is what is read of the commands up to k.
ReadsTo(bytes, command, m, k) ==
    m = [i \in 0..k |->
            IF i = 0 THEN 0
            ELSE IF bytes[i] \div 8 = command THEN 8 * m[i - 1] + (bytes[i] % 8)
            ELSE m[i - 1]]

LEMMA ArgumentReads ==
    ASSUME NEW bytes, NEW command
    PROVE  Argument(bytes, command)
             = (CHOOSE m : ReadsTo(bytes, command, m, Len(bytes)))[Len(bytes)]
BY DEF Argument, ReadsTo

\* Some number is read of any commands.
LEMMA SomethingIsRead ==
    ASSUME NEW bytes, NEW command, NEW n \in Nat
    PROVE  \E m : ReadsTo(bytes, command, m, n)
<1> DEFINE T == {k \in Nat : \E m : ReadsTo(bytes, command, m, k)}
<1>1. 0 \in T
  <2> DEFINE m == [i \in 0..0 |-> 0]
  <2>1. ReadsTo(bytes, command, m, 0)
    BY DEF ReadsTo
  <2>2. QED
    BY <2>1
<1>2. ASSUME NEW k \in Nat, k \in T
      PROVE  k + 1 \in T
  <2>1. PICK m : ReadsTo(bytes, command, m, k)
    BY <1>2
  <2> DEFINE next == IF bytes[k + 1] \div 8 = command
                     THEN 8 * m[k] + (bytes[k + 1] % 8) ELSE m[k]
             t == [i \in 0..(k + 1) |-> IF i = k + 1 THEN next ELSE m[i]]
  <2>2. /\ \A i \in 0..k : t[i] = m[i]
        /\ t[k + 1] = next
    OBVIOUS
  <2>3. /\ m[0] = 0
        /\ \A i \in 1..k : m[i] = IF bytes[i] \div 8 = command
                                  THEN 8 * m[i - 1] + (bytes[i] % 8) ELSE m[i - 1]
    BY <2>1 DEF ReadsTo
  <2>4. ASSUME NEW i \in 0..(k + 1)
        PROVE  t[i] = IF i = 0 THEN 0
                      ELSE IF bytes[i] \div 8 = command
                      THEN 8 * t[i - 1] + (bytes[i] % 8) ELSE t[i - 1]
    <3>1. CASE i = 0
      BY <2>2, <2>3, <3>1
    <3>2. CASE i \in 1..k
      <4>1. i \in 0..k /\ i - 1 \in 0..k /\ i # 0
        BY <3>2
      <4>2. t[i] = m[i] /\ t[i - 1] = m[i - 1]
        BY <2>2, <4>1
      <4> HIDE DEF t
      <4>3. QED
        BY <2>3, <3>2, <4>1, <4>2
    <3>3. CASE i = k + 1
      <4>1. t[i - 1] = m[k] /\ i # 0
        BY <2>2, <3>3
      <4>2. QED
        BY <2>2, <3>3, <4>1
    <3>4. QED
      BY <3>1, <3>2, <3>3
  <2>5. t = [i \in 0..(k + 1) |-> t[i]]
    OBVIOUS
  <2> HIDE DEF t
  <2>6. ReadsTo(bytes, command, t, k + 1)
    BY <2>4, <2>5 DEF ReadsTo
  <2>7. QED
    BY <2>6
<1> HIDE DEF T
<1>3. Nat \subseteq T
  BY <1>1, <1>2, SetInduction
<1>4. QED
  BY <1>3 DEF T

\* The number that is read, command by command.
Stepwise(bytes, command, n, m) ==
    /\ Argument(bytes, command) = m[n]
    /\ m[0] = 0
    /\ \A i \in 1..n :
          /\ bytes[i] \div 8 = command => m[i] = 8 * m[i - 1] + (bytes[i] % 8)
          /\ bytes[i] \div 8 # command => m[i] = m[i - 1]

LEMMA ArgumentStepwise ==
    ASSUME NEW bytes, NEW n \in Nat, Len(bytes) = n, NEW command
    PROVE  \E m : Stepwise(bytes, command, n, m)
<1> DEFINE m == CHOOSE f : ReadsTo(bytes, command, f, n)
<1>1. ReadsTo(bytes, command, m, n)
  BY SomethingIsRead
<1>2. Argument(bytes, command) = m[n]
  BY ArgumentReads
<1> HIDE DEF m
<1>3. /\ m[0] = 0
      /\ \A i \in 1..n : m[i] = IF bytes[i] \div 8 = command
                                THEN 8 * m[i - 1] + (bytes[i] % 8) ELSE m[i - 1]
  BY <1>1 DEF ReadsTo
<1>4. QED
  BY <1>2, <1>3 DEF Stepwise

\* A command keeps its opcode and its digit apart.
LEMMA CommandDigits ==
    ASSUME NEW command \in 0..31, NEW arg \in 0..7
    PROVE  /\ daqv1_send_command(command, arg) \div 8 = command
           /\ daqv1_send_command(command, arg) % 8 = arg
<1>1. arg % 8 = arg /\ (8 * command + arg) % 256 = 8 * command + arg
  OBVIOUS
<1>2. (8 * command + arg) \div 8 = command /\ (8 * command + arg) % 8 = arg
  OBVIOUS
<1>3. QED
  BY <1>1, <1>2 DEF daqv1_send_command, Byte

\* The digits of a number, in octal.
LEMMA DigitRange ==
    ASSUME NEW n \in Int
    PROVE  /\ three_bits(n, 0) \in 0..7 /\ three_bits(n, 3) \in 0..7
           /\ three_bits(n, 6) \in 0..7 /\ three_bits(n, 9) \in 0..7
           /\ three_bits(n, 12) \in 0..7 /\ three_bits(n, 15) \in 0..7
<1>1. \A k \in Int : k % 8 \in 0..7
  OBVIOUS
<1> DEFINE a == n \div 8
           b == n \div 64
           c == n \div 512
           d == n \div 4096
           e == n \div 32768
<1>2. a \in Int /\ b \in Int /\ c \in Int /\ d \in Int /\ e \in Int
  OBVIOUS
<1>3. /\ three_bits(n, 0) = n % 8 /\ three_bits(n, 3) = a % 8
      /\ three_bits(n, 6) = b % 8 /\ three_bits(n, 9) = c % 8
      /\ three_bits(n, 12) = d % 8 /\ three_bits(n, 15) = e % 8
  <2>1. n \div 1 = n
    OBVIOUS
  <2>2. QED
    BY <2>1, Powers DEF three_bits
<1> HIDE DEF a, b, c, d, e
<1>4. n % 8 \in 0..7 /\ a % 8 \in 0..7 /\ b % 8 \in 0..7
      /\ c % 8 \in 0..7 /\ d % 8 \in 0..7 /\ e % 8 \in 0..7
  BY <1>1, <1>2
<1>5. QED
  BY <1>3, <1>4

\* Two digits make a number below 64, six one below 2^18.
LEMMA DigitsMakeNumber ==
    ASSUME NEW n \in Nat
    PROVE  /\ n < 64 => 8 * three_bits(n, 3) + three_bits(n, 0) = n
           /\ n < 262144 =>
                8 * (8 * (8 * (8 * (8 * three_bits(n, 15) + three_bits(n, 12))
                  + three_bits(n, 9)) + three_bits(n, 6)) + three_bits(n, 3))
                  + three_bits(n, 0) = n
<1>1. 8 * (n \div 8) + (n % 8) = n
  OBVIOUS
<1>2. 8 * (n \div 64) + ((n \div 8) % 8) = n \div 8
  OBVIOUS
<1>3. 8 * (n \div 512) + ((n \div 64) % 8) = n \div 64
  OBVIOUS
<1>4. 8 * (n \div 4096) + ((n \div 512) % 8) = n \div 512
  OBVIOUS
<1>5. 8 * (n \div 32768) + ((n \div 4096) % 8) = n \div 4096
  OBVIOUS
<1>6. n < 262144 => (n \div 32768) % 8 = n \div 32768
  OBVIOUS
<1>7. n < 64 => (n \div 8) % 8 = n \div 8
  OBVIOUS
<1> DEFINE a == n \div 8
           b == n \div 64
           c == n \div 512
           d == n \div 4096
           e == n \div 32768
           z == n % 8
           y == a % 8
           x == b % 8
           w == c % 8
           v == d % 8
           u == e % 8
<1>8. /\ a \in Int /\ b \in Int /\ c \in Int /\ d \in Int /\ e \in Int
      /\ 8 * a + z = n /\ 8 * b + y = a /\ 8 * c + x = b /\ 8 * d + w = c
      /\ 8 * e + v = d
      /\ (n < 262144 => u = e) /\ (n < 64 => y = a)
  BY <1>1, <1>2, <1>3, <1>4, <1>5, <1>6, <1>7
<1>9. /\ three_bits(n, 0) = z /\ three_bits(n, 3) = y /\ three_bits(n, 6) = x
      /\ three_bits(n, 9) = w /\ three_bits(n, 12) = v /\ three_bits(n, 15) = u
  <2>1. n \div 1 = n
    OBVIOUS
  <2>2. QED
    BY <2>1, Powers DEF three_bits
<1> HIDE DEF a, b, c, d, e, u, v, w, x, y, z
<1>10. n < 64 => 8 * y + z = n
  BY <1>8
<1>11. n < 262144 => 8 * (8 * (8 * (8 * (8 * u + v) + w) + x) + y) + z = n
  BY <1>8
<1>12. QED
  BY <1>9, <1>10, <1>11

LEMMA ConcatAt ==
    ASSUME NEW S, NEW p \in Seq(S), NEW q \in Seq(S)
    PROVE  /\ p \o q \in Seq(S) /\ Len(p \o q) = Len(p) + Len(q)
           /\ Len(p) \in Nat /\ Len(q) \in Nat
           /\ \A i \in 1..Len(p) : (p \o q)[i] = p[i]
           /\ \A i \in 1..Len(q) : (p \o q)[Len(p) + i] = q[i]
OBVIOUS

\* d is the five sequences in a row.
InRow(d, a, m, z, t, r) ==
    /\ Len(d) = Len(a) + Len(m) + Len(z) + Len(t) + Len(r)
    /\ \A i \in 1..Len(a) : d[i] = a[i]
    /\ \A i \in 1..Len(m) : d[Len(a) + i] = m[i]
    /\ \A i \in 1..Len(z) : d[Len(a) + Len(m) + i] = z[i]
    /\ \A i \in 1..Len(t) : d[Len(a) + Len(m) + Len(z) + i] = t[i]
    /\ \A i \in 1..Len(r) : d[Len(a) + Len(m) + Len(z) + Len(t) + i] = r[i]

LEMMA ConcatFive ==
    ASSUME NEW S,
           NEW a \in Seq(S), NEW m \in Seq(S), NEW z \in Seq(S), NEW t \in Seq(S),
           NEW r \in Seq(S), NEW d, d = a \o m \o z \o t \o r
    PROVE  InRow(d, a, m, z, t, r)
<1> DEFINE f == a \o m
           g == f \o z
           h == g \o t
<1>1. /\ f \in Seq(S) /\ Len(f) = Len(a) + Len(m)
      /\ Len(a) \in Nat /\ Len(m) \in Nat
      /\ \A i \in 1..Len(a) : f[i] = a[i]
      /\ \A i \in 1..Len(m) : f[Len(a) + i] = m[i]
  BY ConcatAt
<1> HIDE DEF f
<1>2. f \in Seq(S)
  BY <1>1
<1>3. /\ g \in Seq(S) /\ Len(g) = Len(f) + Len(z) /\ Len(z) \in Nat
      /\ \A i \in 1..Len(f) : g[i] = f[i]
      /\ \A i \in 1..Len(z) : g[Len(f) + i] = z[i]
  BY <1>2, ConcatAt
<1> HIDE DEF g
<1>4. g \in Seq(S)
  BY <1>3
<1>5. /\ h \in Seq(S) /\ Len(h) = Len(g) + Len(t) /\ Len(t) \in Nat
      /\ \A i \in 1..Len(g) : h[i] = g[i]
      /\ \A i \in 1..Len(t) : h[Len(g) + i] = t[i]
  BY <1>4, ConcatAt
<1>6. d = h \o r
  BY DEF f, g
<1> HIDE DEF h
<1>7. h \in Seq(S)
  BY <1>5
<1>8. /\ Len(d) = Len(h) + Len(r) /\ Len(r) \in Nat
      /\ \A i \in 1..Len(h) : d[i] = h[i]
      /\ \A i \in 1..Len(r) : d[Len(h) + i] = r[i]
  BY <1>6, <1>7, ConcatAt
<1> DEFINE la == Len(a)
           lm == Len(m)
           lz == Len(z)
           lt == Len(t)
           lr == Len(r)
<1>9. /\ la \in Nat /\ lm \in Nat /\ lz \in Nat /\ lt \in Nat /\ lr \in Nat
      /\ Len(d) = la + lm + lz + lt + lr
      /\ (\A i \in 1..la : f[i] = a[i]) /\ (\A i \in 1..lm : f[la + i] = m[i])
      /\ (\A i \in 1..(la + lm) : g[i] = f[i])
      /\ (\A i \in 1..lz : g[la + lm + i] = z[i])
      /\ (\A i \in 1..(la + lm + lz) : h[i] = g[i])
      /\ (\A i \in 1..lt : h[la + lm + lz + i] = t[i])
      /\ (\A i \in 1..(la + lm + lz + lt) : d[i] = h[i])
      /\ (\A i \in 1..lr : d[la + lm + lz + lt + i] = r[i])
  BY <1>1, <1>3, <1>5, <1>8
<1> HIDE DEF la, lm, lz, lt, lr
<1>10. ASSUME NEW i \in 1..la
       PROVE  d[i] = a[i]
  <2>1. i \in 1..(la + lm) /\ i \in 1..(la + lm + lz) /\ i \in 1..(la + lm + lz + lt)
    BY <1>9
  <2>2. QED
    BY <1>9, <2>1
<1>11. ASSUME NEW i \in 1..lm
       PROVE  d[la + i] = m[i]
  <2>1. la + i \in 1..(la + lm) /\ la + i \in 1..(la + lm + lz) /\ la + i \in 1..(la + lm + lz + lt)
    BY <1>9
  <2>2. QED
    BY <1>9, <2>1
<1>12. ASSUME NEW i \in 1..lz
       PROVE  d[la + lm + i] = z[i]
  <2>1. la + lm + i \in 1..(la + lm + lz) /\ la + lm + i \in 1..(la + lm + lz + lt)
    BY <1>9
  <2>2. QED
    BY <1>9, <2>1
<1>13. ASSUME NEW i \in 1..lt
       PROVE  d[la + lm + lz + i] = t[i]
  <2>1. la + lm + lz + i \in 1..(la + lm + lz + lt)
    BY <1>9
  <2>2. QED
    BY <1>9, <2>1
<1>14. QED
  BY <1>9, <1>10, <1>11, <1>12, <1>13 DEF InRow, la, lm, lz, lt, lr

\* The logarithms of the sample times.
LEMMA Log2Of ==
    ASSUME NEW n \in {4, 8, 16, 32, 64}
    PROVE  log2(n) \in 2..6 /\ 2 ^ log2(n) = n
<1>1. /\ 0 + 1 = 1 /\ 1 + 1 = 2 /\ 2 + 1 = 3 /\ 3 + 1 = 4 /\ 4 + 1 = 5 /\ 5 + 1 = 6
      /\ 6 + 1 = 7 /\ 7 + 1 = 8 /\ 8 + 1 = 9 /\ 9 + 1 = 10 /\ 10 + 1 = 11
      /\ 11 + 1 = 12 /\ 12 + 1 = 13 /\ 13 + 1 = 14 /\ 14 + 1 = 15 /\ 15 + 1 = 16
  OBVIOUS
<1>2. log2(n) = CHOOSE k \in 0..15 : Fits(n, k)
  BY Log2Fits
<1>3. /\ ~Fits(n, 0) /\ ~Fits(n, 1) /\ ~Fits(n, 7) /\ ~Fits(n, 8) /\ ~Fits(n, 9)
      /\ ~Fits(n, 10) /\ ~Fits(n, 11) /\ ~Fits(n, 12) /\ ~Fits(n, 13) /\ ~Fits(n, 14)
      /\ ~Fits(n, 15)
  BY <1>1, Powers DEF Fits
<1>4. /\ Fits(n, 2) <=> n = 4
      /\ Fits(n, 3) <=> n = 8
      /\ Fits(n, 4) <=> n = 16
      /\ Fits(n, 5) <=> n = 32
      /\ Fits(n, 6) <=> n = 64
  BY <1>1, Powers DEF Fits
<1>5. \E k \in 0..15 : Fits(n, k)
  BY <1>4
<1> DEFINE l == log2(n)
<1>6. l \in 0..15 /\ Fits(n, l)
  BY <1>2, <1>5
<1> HIDE DEF l
<1>7. l \in {2, 3, 4, 5, 6}
  BY <1>3, <1>6
<1>8. 2 ^ l = n
  <2>1. CASE l = 2
    BY <1>4, <1>6, <2>1, Powers
  <2>2. CASE l = 3
    BY <1>4, <1>6, <2>2, Powers
  <2>3. CASE l = 4
    BY <1>4, <1>6, <2>3, Powers
  <2>4. CASE l = 5
    BY <1>4, <1>6, <2>4, Powers
  <2>5. CASE l = 6
    BY <1>4, <1>6, <2>5, Powers
  <2>6. QED
    BY <1>7, <2>1, <2>2, <2>3, <2>4, <2>5
<1>9. QED
  BY <1>7, <1>8 DEF l

\* The commands, one by one.
LEMMA CommandBytes ==
    ASSUME NEW s \in SettingsType, NEW d, d = CommandData(s)
    PROVE  /\ Len(d) = 14
           /\ d[1] = daqv1_send_command(ASICNUM, three_bits(s.number_of_asics - 1, 3))
           /\ d[2] = daqv1_send_command(ASICNUM, three_bits(s.number_of_asics - 1, 0))
           /\ d[3] = daqv1_send_command(ARRAY_MASK20, three_bits(4094, 0))
           /\ d[4] = daqv1_send_command(ARRAY_MASK53, three_bits(4094, 3))
           /\ d[5] = daqv1_send_command(ARRAY_MASK86, three_bits(4094, 6))
           /\ d[6] = daqv1_send_command(ARRAY_MASK119, three_bits(4094, 9))
           /\ d[7] = daqv1_send_command(ADDCNT, three_bits(s.buffer_size - 1, 15))
           /\ d[8] = daqv1_send_command(ADDCNT, three_bits(s.buffer_size - 1, 12))
           /\ d[9] = daqv1_send_command(ADDCNT, three_bits(s.buffer_size - 1, 9))
           /\ d[10] = daqv1_send_command(ADDCNT, three_bits(s.buffer_size - 1, 6))
           /\ d[11] = daqv1_send_command(ADDCNT, three_bits(s.buffer_size - 1, 3))
           /\ d[12] = daqv1_send_command(ADDCNT, three_bits(s.buffer_size - 1, 0))
           /\ d[13] = daqv1_send_command(TA, three_bits(log2(s.sample_time) - 1, 0))
           /\ d[14] = daqv1_send_command(SOFT_RESET, 0)
<1> DEFINE asics == daqv1_set_number_of_asics(s.number_of_asics)
           mask == daqv1_set_array_mask(1)
           size == daqv1_set_buffer_size(s.buffer_size)
           timing == daqv1_set_array_a_timing(s.sample_time)
           reset == daqv1_reset
           x1 == daqv1_send_command(ASICNUM, three_bits(s.number_of_asics - 1, 3))
           x2 == daqv1_send_command(ASICNUM, three_bits(s.number_of_asics - 1, 0))
           x3 == daqv1_send_command(ARRAY_MASK20, three_bits(4094, 0))
           x4 == daqv1_send_command(ARRAY_MASK53, three_bits(4094, 3))
           x5 == daqv1_send_command(ARRAY_MASK86, three_bits(4094, 6))
           x6 == daqv1_send_command(ARRAY_MASK119, three_bits(4094, 9))
           f(i) == daqv1_send_command(ADDCNT, three_bits(s.buffer_size - 1, 3 * (6 - i)))
           g(i) == daqv1_send_command(ADDCNT, three_bits(s.buffer_size - 1, i))
           x13 == daqv1_send_command(TA, three_bits(log2(s.sample_time) - 1, 0))
           x14 == daqv1_send_command(SOFT_RESET, 0)
<1>1. /\ asics \in Seq(0..255) /\ mask \in Seq(0..255) /\ size \in Seq(0..255)
      /\ timing \in Seq(0..255) /\ reset \in Seq(0..255)
  BY PiecesType
<1>2. d = asics \o mask \o size \o timing \o reset
  BY DEF CommandData
<1>3. asics = <<x1, x2>>
  BY DEF daqv1_set_number_of_asics
<1>4. mask = <<x3, x4, x5, x6>>
  <2>1. 2 ^ 12 - 1 - 1 = 4094
    BY Powers
  <2>2. QED
    BY <2>1 DEF daqv1_set_array_mask
<1>5. size = [i \in 1..6 |-> f(i)]
  BY DEF daqv1_set_buffer_size
<1>6. timing = <<x13>>
  BY DEF daqv1_set_array_a_timing
<1>7. reset = <<x14>>
  BY DEF daqv1_reset
<1>8. f(1) = g(15) /\ f(2) = g(12) /\ f(3) = g(9) /\ f(4) = g(6) /\ f(5) = g(3) /\ f(6) = g(0)
  <2>1. /\ 3 * (6 - 1) = 15 /\ 3 * (6 - 2) = 12 /\ 3 * (6 - 3) = 9 /\ 3 * (6 - 4) = 6
        /\ 3 * (6 - 5) = 3 /\ 3 * (6 - 6) = 0
    OBVIOUS
  <2>2. QED
    BY <2>1
<1> HIDE DEF asics, mask, size, timing, reset, x1, x2, x3, x4, x5, x6, f, g, x13, x14
<1>9. /\ Len(d) = Len(asics) + Len(mask) + Len(size) + Len(timing) + Len(reset)
      /\ \A i \in 1..Len(asics) : d[i] = asics[i]
      /\ \A i \in 1..Len(mask) : d[Len(asics) + i] = mask[i]
      /\ \A i \in 1..Len(size) : d[Len(asics) + Len(mask) + i] = size[i]
      /\ \A i \in 1..Len(timing) : d[Len(asics) + Len(mask) + Len(size) + i] = timing[i]
      /\ \A i \in 1..Len(reset) :
            d[Len(asics) + Len(mask) + Len(size) + Len(timing) + i] = reset[i]
  <2>1. InRow(d, asics, mask, size, timing, reset)
    BY <1>1, <1>2, ConcatFive
  <2>2. QED
    BY <2>1 DEF InRow
<1>10. Len(asics) = 2 /\ asics[1] = x1 /\ asics[2] = x2
  BY <1>3
<1>11. Len(mask) = 4 /\ mask[1] = x3 /\ mask[2] = x4 /\ mask[3] = x5 /\ mask[4] = x6
  BY <1>4
<1>12. /\ Len(size) = 6
       /\ size[1] = g(15) /\ size[2] = g(12) /\ size[3] = g(9)
       /\ size[4] = g(6) /\ size[5] = g(3) /\ size[6] = g(0)
  <2>1. Len(size) = 6
    BY <1>1, <1>5
  <2>2. \A i \in 1..6 : size[i] = f(i)
    BY <1>5
  <2>3. QED
    BY <1>8, <2>1, <2>2
<1>13. Len(timing) = 1 /\ timing[1] = x13
  BY <1>6
<1>14. Len(reset) = 1 /\ reset[1] = x14
  BY <1>7
<1>15. Len(d) = 14
  BY <1>9, <1>10, <1>11, <1>12, <1>13, <1>14
<1>16. d[1] = x1 /\ d[2] = x2
  BY <1>9, <1>10
<1>17. d[3] = x3 /\ d[4] = x4 /\ d[5] = x5 /\ d[6] = x6
  BY <1>9, <1>10, <1>11
<1>18. /\ d[7] = g(15) /\ d[8] = g(12) /\ d[9] = g(9)
       /\ d[10] = g(6) /\ d[11] = g(3) /\ d[12] = g(0)
  BY <1>9, <1>10, <1>11, <1>12
<1>19. d[13] = x13
  BY <1>9, <1>10, <1>11, <1>12, <1>13
<1>20. d[14] = x14
  BY <1>9, <1>10, <1>11, <1>12, <1>13, <1>14
<1>21. QED
  BY <1>15, <1>16, <1>17, <1>18, <1>19, <1>20
     DEF x1, x2, x3, x4, x5, x6, g, x13, x14

\* The opcode and the digit of each.
LEMMA CommandsApart ==
    ASSUME NEW s \in SettingsType, InRange(s), NEW d, d = CommandData(s)
    PROVE  /\ d[1] \div 8 = 20 /\ d[2] \div 8 = 20
           /\ d[3] \div 8 = 13 /\ d[4] \div 8 = 14 /\ d[5] \div 8 = 15 /\ d[6] \div 8 = 16
           /\ d[7] \div 8 = 19 /\ d[8] \div 8 = 19 /\ d[9] \div 8 = 19
           /\ d[10] \div 8 = 19 /\ d[11] \div 8 = 19 /\ d[12] \div 8 = 19
           /\ d[13] \div 8 = 17 /\ d[14] \div 8 = 21
           /\ d[1] % 8 = three_bits(s.number_of_asics - 1, 3)
           /\ d[2] % 8 = three_bits(s.number_of_asics - 1, 0)
           /\ d[7] % 8 = three_bits(s.buffer_size - 1, 15)
           /\ d[8] % 8 = three_bits(s.buffer_size - 1, 12)
           /\ d[9] % 8 = three_bits(s.buffer_size - 1, 9)
           /\ d[10] % 8 = three_bits(s.buffer_size - 1, 6)
           /\ d[11] % 8 = three_bits(s.buffer_size - 1, 3)
           /\ d[12] % 8 = three_bits(s.buffer_size - 1, 0)
           /\ d[13] % 8 = three_bits(log2(s.sample_time) - 1, 0)
<1> DEFINE n == s.number_of_asics - 1
           b == s.buffer_size - 1
           k == log2(s.sample_time) - 1
<1>1. n \in Int /\ b \in Int /\ k \in Int
  <2>1. s.number_of_asics \in Nat /\ s.buffer_size \in Nat
    BY SettingsFields
  <2>2. log2(s.sample_time) \in Int
    BY SettingsFields, Log2Type
  <2>3. QED
    BY <2>1, <2>2
<1>2. /\ d[1] = daqv1_send_command(20, three_bits(n, 3))
      /\ d[2] = daqv1_send_command(20, three_bits(n, 0))
      /\ d[3] = daqv1_send_command(13, three_bits(4094, 0))
      /\ d[4] = daqv1_send_command(14, three_bits(4094, 3))
      /\ d[5] = daqv1_send_command(15, three_bits(4094, 6))
      /\ d[6] = daqv1_send_command(16, three_bits(4094, 9))
      /\ d[7] = daqv1_send_command(19, three_bits(b, 15))
      /\ d[8] = daqv1_send_command(19, three_bits(b, 12))
      /\ d[9] = daqv1_send_command(19, three_bits(b, 9))
      /\ d[10] = daqv1_send_command(19, three_bits(b, 6))
      /\ d[11] = daqv1_send_command(19, three_bits(b, 3))
      /\ d[12] = daqv1_send_command(19, three_bits(b, 0))
      /\ d[13] = daqv1_send_command(17, three_bits(k, 0))
      /\ d[14] = daqv1_send_command(21, 0)
  BY CommandBytes DEF ASICNUM, ARRAY_MASK20, ARRAY_MASK53, ARRAY_MASK86, ARRAY_MASK119,
                      ADDCNT, TA, SOFT_RESET
<1> HIDE DEF n, b, k
<1>3. /\ three_bits(n, 0) \in 0..7 /\ three_bits(n, 3) \in 0..7
      /\ three_bits(k, 0) \in 0..7
  BY <1>1, DigitRange
<1>4. /\ three_bits(b, 0) \in 0..7 /\ three_bits(b, 3) \in 0..7
      /\ three_bits(b, 6) \in 0..7 /\ three_bits(b, 9) \in 0..7
      /\ three_bits(b, 12) \in 0..7 /\ three_bits(b, 15) \in 0..7
  BY <1>1, DigitRange
<1>5. /\ three_bits(4094, 0) \in 0..7 /\ three_bits(4094, 3) \in 0..7
      /\ three_bits(4094, 6) \in 0..7 /\ three_bits(4094, 9) \in 0..7
  BY DigitRange
<1>6. /\ 13 \in 0..31 /\ 14 \in 0..31 /\ 15 \in 0..31 /\ 16 \in 0..31 /\ 17 \in 0..31
      /\ 19 \in 0..31 /\ 20 \in 0..31 /\ 21 \in 0..31 /\ 0 \in 0..7
  OBVIOUS
<1>7. d[1] \div 8 = 20 /\ d[1] % 8 = three_bits(n, 3)
  BY <1>2, <1>3, <1>6, CommandDigits
<1>8. d[2] \div 8 = 20 /\ d[2] % 8 = three_bits(n, 0)
  BY <1>2, <1>3, <1>6, CommandDigits
<1>9. d[3] \div 8 = 13 /\ d[4] \div 8 = 14 /\ d[5] \div 8 = 15 /\ d[6] \div 8 = 16
  BY <1>2, <1>5, <1>6, CommandDigits
<1>10. d[7] \div 8 = 19 /\ d[7] % 8 = three_bits(b, 15)
  BY <1>2, <1>4, <1>6, CommandDigits
<1>11. d[8] \div 8 = 19 /\ d[8] % 8 = three_bits(b, 12)
  BY <1>2, <1>4, <1>6, CommandDigits
<1>12. d[9] \div 8 = 19 /\ d[9] % 8 = three_bits(b, 9)
  BY <1>2, <1>4, <1>6, CommandDigits
<1>13. d[10] \div 8 = 19 /\ d[10] % 8 = three_bits(b, 6)
  BY <1>2, <1>4, <1>6, CommandDigits
<1>14. d[11] \div 8 = 19 /\ d[11] % 8 = three_bits(b, 3)
  BY <1>2, <1>4, <1>6, CommandDigits
<1>15. d[12] \div 8 = 19 /\ d[12] % 8 = three_bits(b, 0)
  BY <1>2, <1>4, <1>6, CommandDigits
<1>16. d[13] \div 8 = 17 /\ d[13] % 8 = three_bits(k, 0)
  BY <1>2, <1>3, <1>6, CommandDigits
<1>17. d[14] \div 8 = 21
  BY <1>2, <1>6, CommandDigits
<1>18. QED
  BY <1>7, <1>8, <1>9, <1>10, <1>11, <1>12, <1>13, <1>14, <1>15, <1>16, <1>17 DEF n, b, k

\* A board of version 1 makes of the commands the settings they were built from, if
\* the settings have room in them. (daqv1_*)
THEOREM CommandsRead ==
    ASSUME NEW s \in SettingsType, InRange(s)
    PROVE  Understood(CommandData(s)) = [number_of_asics |-> s.number_of_asics,
                                         buffer_size     |-> s.buffer_size,
                                         sample_time     |-> s.sample_time]
<1> DEFINE d == CommandData(s)
           n == s.number_of_asics - 1
           b == s.buffer_size - 1
           l == log2(s.sample_time)
           n0 == three_bits(n, 0)
           n3 == three_bits(n, 3)
           b0 == three_bits(b, 0)
           b3 == three_bits(b, 3)
           b6 == three_bits(b, 6)
           b9 == three_bits(b, 9)
           b12 == three_bits(b, 12)
           b15 == three_bits(b, 15)
           t == three_bits(l - 1, 0)
<1>1. Len(d) = 14
  BY CommandBytes
<1>2. /\ d[1] \div 8 = 20 /\ d[2] \div 8 = 20
      /\ d[3] \div 8 = 13 /\ d[4] \div 8 = 14 /\ d[5] \div 8 = 15 /\ d[6] \div 8 = 16
      /\ d[7] \div 8 = 19 /\ d[8] \div 8 = 19 /\ d[9] \div 8 = 19
      /\ d[10] \div 8 = 19 /\ d[11] \div 8 = 19 /\ d[12] \div 8 = 19
      /\ d[13] \div 8 = 17 /\ d[14] \div 8 = 21
  BY CommandsApart
<1>3. /\ d[1] % 8 = n3 /\ d[2] % 8 = n0
      /\ d[7] % 8 = b15 /\ d[8] % 8 = b12 /\ d[9] % 8 = b9
      /\ d[10] % 8 = b6 /\ d[11] % 8 = b3 /\ d[12] % 8 = b0
      /\ d[13] % 8 = t
  BY CommandsApart
<1>4. n \in Nat /\ n < 64 /\ b \in Nat /\ b < 262144
  <2>1. 2 ^ 18 = 262144
    OBVIOUS
  <2>2. QED
    BY <2>1 DEF InRange
<1>5. l \in 2..6 /\ 2 ^ l = s.sample_time
  BY Log2Of DEF InRange
<1>6. 8 * n3 + n0 = n
  BY <1>4, DigitsMakeNumber
<1>7. 8 * (8 * (8 * (8 * (8 * b15 + b12) + b9) + b6) + b3) + b0 = b
  BY <1>4, DigitsMakeNumber
<1> HIDE DEF l
<1>8. t = l - 1 /\ t + 1 = l
  <2>1. (l - 1) \div 1 = l - 1 /\ (l - 1) % 8 = l - 1
    BY <1>5
  <2>2. QED
    BY <1>5, <2>1, Powers DEF three_bits
<1>9. /\ n0 \in 0..7 /\ n3 \in 0..7 /\ b0 \in 0..7 /\ b3 \in 0..7 /\ b6 \in 0..7
      /\ b9 \in 0..7 /\ b12 \in 0..7 /\ b15 \in 0..7 /\ t \in 0..7
  <2>1. n \in Int /\ b \in Int /\ l - 1 \in Int
    BY <1>4, <1>5
  <2> HIDE DEF n, b
  <2>2. n0 \in 0..7 /\ n3 \in 0..7
    BY <2>1, DigitRange
  <2>3. b0 \in 0..7 /\ b3 \in 0..7 /\ b6 \in 0..7 /\ b9 \in 0..7 /\ b12 \in 0..7 /\ b15 \in 0..7
    BY <2>1, DigitRange
  <2>4. t \in 0..7
    BY <2>1, DigitRange
  <2>5. QED
    BY <2>2, <2>3, <2>4
<1> HIDE DEF d, n, b, n0, n3, b0, b3, b6, b9, b12, b15, t
<1>10. Argument(d, 20) = n
  <2>1. PICK m : Stepwise(d, 20, 14, m)
    BY <1>1, ArgumentStepwise
  <2>2. /\ Argument(d, 20) = m[14]
        /\ m[0] = 0
        /\ \A i \in 1..14 :
              /\ d[i] \div 8 = 20 => m[i] = 8 * m[i - 1] + (d[i] % 8)
              /\ d[i] \div 8 # 20 => m[i] = m[i - 1]
    BY <2>1 DEF Stepwise
  <2>3. m[1] = n3
    BY <1>2, <1>3, <1>9, <2>2
  <2>4. m[2] = 8 * n3 + n0
    BY <1>2, <1>3, <2>2, <2>3
  <2>5. m[14] = m[2]
    BY <1>2, <2>2
  <2>6. QED
    BY <1>6, <2>2, <2>4, <2>5
<1>11. Argument(d, 19) = b
  <2>1. PICK m : Stepwise(d, 19, 14, m)
    BY <1>1, ArgumentStepwise
  <2>2. /\ Argument(d, 19) = m[14]
        /\ m[0] = 0
        /\ \A i \in 1..14 :
              /\ d[i] \div 8 = 19 => m[i] = 8 * m[i - 1] + (d[i] % 8)
              /\ d[i] \div 8 # 19 => m[i] = m[i - 1]
    BY <2>1 DEF Stepwise
  <2>3. m[6] = 0
    BY <1>2, <2>2
  <2>4. m[7] = b15
    BY <1>2, <1>3, <1>9, <2>2, <2>3
  <2>5. m[8] = 8 * m[7] + b12
    BY <1>2, <1>3, <2>2
  <2>6. m[9] = 8 * m[8] + b9
    BY <1>2, <1>3, <2>2
  <2>7. m[10] = 8 * m[9] + b6
    BY <1>2, <1>3, <2>2
  <2>8. m[11] = 8 * m[10] + b3
    BY <1>2, <1>3, <2>2
  <2>9. m[12] = 8 * m[11] + b0
    BY <1>2, <1>3, <2>2
  <2>10. m[14] = m[12]
    BY <1>2, <2>2
  <2>11. QED
    BY <1>7, <2>2, <2>4, <2>5, <2>6, <2>7, <2>8, <2>9, <2>10
<1>12. Argument(d, 17) = t
  <2>1. PICK m : Stepwise(d, 17, 14, m)
    BY <1>1, ArgumentStepwise
  <2>2. /\ Argument(d, 17) = m[14]
        /\ m[0] = 0
        /\ \A i \in 1..14 :
              /\ d[i] \div 8 = 17 => m[i] = 8 * m[i - 1] + (d[i] % 8)
              /\ d[i] \div 8 # 17 => m[i] = m[i - 1]
    BY <2>1 DEF Stepwise
  <2>3. m[12] = 0
    BY <1>2, <2>2
  <2>4. m[13] = t
    BY <1>2, <1>3, <1>9, <2>2, <2>3
  <2>5. m[14] = m[13]
    BY <1>2, <2>2
  <2>6. QED
    BY <2>2, <2>4, <2>5
<1>13. n + 1 = s.number_of_asics /\ b + 1 = s.buffer_size
  BY DEF n, b, InRange
<1>14. Understood(d) = [number_of_asics |-> n + 1, buffer_size |-> b + 1,
                        sample_time |-> 2 ^ l]
  BY <1>8, <1>10, <1>11, <1>12 DEF Understood, ASICNUM, ADDCNT, TA
<1>15. QED
  BY <1>5, <1>13, <1>14 DEF d
=============================================================================
