---------------------------- MODULE DaqCommands ----------------------------
(***************************************************************************)
(* What src/servers/daqsrv/controller.cpp sends to the board: the commands *)
(* of the version 1 board, one byte each, and the register values of the   *)
(* version 2 board; and, external, what the boards make of them.           *)
(***************************************************************************)
EXTENDS Integers, Sequences, SequencesExt

UInt16 == 0..65535
UInt32 == Nat                                   \* TLC does not count that far

\* The settings both versions of the board need.
SettingsType ==
    [number_of_asics : UInt32, ms_buff : UInt32, buffer_size : UInt32, sample_time : UInt16]

Byte(n) == n % 256                              \* what a char leaves of an int
AsChar(b) == IF b < 128 THEN b ELSE b - 256     \* a signed char, as on x86

-----------------------------------------------------------------------------
(* Version 1: a command is five bits of opcode and three of argument.      *)

ARRAY_MASK20  == 13
ARRAY_MASK53  == 14
ARRAY_MASK86  == 15
ARRAY_MASK119 == 16
TA            == 17
ADDCNT        == 19
ASICNUM       == 20
SOFT_RESET    == 21

three_bits(from, first_bit) == (from \div (2 ^ first_bit)) % 8

daqv1_send_command(command, arg) == Byte(8 * command + (arg % 8))

daqv1_set_number_of_asics(n) ==
    << daqv1_send_command(ASICNUM, three_bits(n - 1, 3)),
       daqv1_send_command(ASICNUM, three_bits(n - 1, 0)) >>

\* The bits that are set mask an array out: the argument is inverted first.
daqv1_set_array_mask(mask) ==
    LET inverted == 2 ^ 12 - 1 - mask
    IN  << daqv1_send_command(ARRAY_MASK20, three_bits(inverted, 0)),
           daqv1_send_command(ARRAY_MASK53, three_bits(inverted, 3)),
           daqv1_send_command(ARRAY_MASK86, three_bits(inverted, 6)),
           daqv1_send_command(ARRAY_MASK119, three_bits(inverted, 9)) >>

\* MUTANT of daqv1_set_buffer_size: the groups are sent from the low end.
bufferSizeLowFirst(size) ==
    [i \in 1..6 |-> daqv1_send_command(ADDCNT, three_bits(size - 1, 3 * (i - 1)))]

daqv1_set_buffer_size(size) ==
    [i \in 1..6 |-> daqv1_send_command(ADDCNT, three_bits(size - 1, 3 * (6 - i)))]

\* log2l(0) is -infinity, of which an int on x86 is the least one: it ends in the
\* octal digit 0, and no more of it is used.
log2(n) == IF n = 0 THEN 0 ELSE CHOOSE k \in 0..15 : 2 ^ k <= n /\ n < 2 ^ (k + 1)

daqv1_set_array_a_timing(ms) ==
    << daqv1_send_command(TA, three_bits(log2(ms) - 1, 0)) >>

daqv1_reset == << daqv1_send_command(SOFT_RESET, 0) >>

\* mo_command_data when initialize_daq_version_1 has built it.
CommandData(s) ==
    daqv1_set_number_of_asics(s.number_of_asics)
    \o daqv1_set_array_mask(1)
    \o daqv1_set_buffer_size(s.buffer_size)
    \o daqv1_set_array_a_timing(s.sample_time)
    \o daqv1_reset

\* The version 1 board: the arguments of a command, in the order they come,
\* are the digits of a number to the base 8.
Argument(bytes, command) ==
    LET number[i \in 0..Len(bytes)] ==
            IF i = 0 THEN 0
            ELSE IF bytes[i] \div 8 = command THEN 8 * number[i - 1] + (bytes[i] % 8)
            ELSE number[i - 1]
    IN  number[Len(bytes)]

Understood(bytes) ==
    [number_of_asics |-> Argument(bytes, ASICNUM) + 1,
     buffer_size     |-> Argument(bytes, ADDCNT) + 1,
     sample_time     |-> 2 ^ (Argument(bytes, TA) + 1)]

\* What the digits of the commands have room for.
InRange(s) ==
    /\ s.number_of_asics \in 1..64
    /\ s.buffer_size \in 1..2 ^ 18
    /\ s.sample_time \in {4, 8, 16, 32, 64}

-----------------------------------------------------------------------------
(* Version 2: registers of the FPGA.                                       *)

Registers == {"ASICNUM", "MSBUFF", "PAREG", "CONFIG", "STRT_RST"}

SampleTimes == {4, 8, 16, 32, 64}       \* SAMPLE_TIME_MAP

get_pareg(sample_time) ==               \* SAMPLE_TIME_MAP, too
    CASE sample_time = 4  -> 0
      [] sample_time = 8  -> 1
      [] sample_time = 16 -> 2
      [] sample_time = 32 -> 3
      [] sample_time = 64 -> 4

\* The byte that is meant for a register. PAREG needs a sample time of the map.
Meant(s, register) ==
    CASE register = "ASICNUM"  -> Byte(s.number_of_asics - 1)
      [] register = "MSBUFF"   -> Byte(s.ms_buff)
      [] register = "PAREG"    -> get_pareg(s.sample_time)
      [] register = "CONFIG"   -> 0
      [] register = "STRT_RST" -> 2
=============================================================================
