------------------------------- MODULE MCDaq -------------------------------
(* A small instance of Daq for TLC.                                        *)
EXTENDS Daq

SettingsOf(asics, ms, sample, size) ==
    [number_of_asics |-> asics, ms_buff |-> ms, sample_time |-> sample, buffer_size |-> size]

\* The defaults of defines.hpp.
MCOptions == {SettingsOf(16, 119, 4, 122880)}

\* One that any board takes, one whose ASICNUM is 0 and whose ms_buff is wider than
\* a char, one whose ms_buff is a negative char and whose buffer is larger than a
\* stack, and one whose sample time has no PAREG and no logarithm.
MCSettings ==
    {SettingsOf(2, 60, 8, 262144), SettingsOf(1, 300, 64, 1024),
     SettingsOf(16, 200, 4, 16777216), SettingsOf(16, 119, 0, 1024)}

\* Two builds at once leave the commands of either, or bytes of both: some of them
\* lost, or all of them one after the other.
MCMixed ==
    LET built == {CommandData(Stored(s)) : s \in MCOptions \cup MCSettings}
        one   == CommandData(SettingsOf(2, 60, 8, 262144))
    IN  built \cup {Tail(one), one \o one}

\* A stack of eight megabytes and a read_multiple of 1.
MCStackRoom == 0..8388607

\* The one stands for any byte that is neither 0 nor meant.
MCJunk == {255}
=============================================================================
