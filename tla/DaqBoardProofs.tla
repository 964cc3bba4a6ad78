--------------------------- MODULE DaqBoardProofs ---------------------------
(***************************************************************************)
(* Theorems about Daq, for any settings, any junk and any bounds: its type *)
(* invariant, and that the board has the settings it was asked for.        *)
(***************************************************************************)
EXTENDS DaqProofs, DaqCommandProofs

-----------------------------------------------------------------------------
(* The types: what IInv does not say of them.                              *)

LEMMA StoredType ==
    ASSUME NEW s \in SettingsType
    PROVE  /\ Stored(s) \in SettingsType
           /\ Stored(s).number_of_asics \in 0..255 /\ Stored(s).ms_buff \in 0..255
<1> DEFINE n == Byte(s.number_of_asics)
           m == Byte(s.ms_buff)
<1>1. n \in 0..255 /\ m \in 0..255 /\ n \in UInt32 /\ m \in UInt32
  BY SettingsFields, ByteUInt32
<1>2. Stored(s) = [s EXCEPT !.number_of_asics = n, !.ms_buff = m]
  BY DEF Stored
<1> HIDE DEF n, m
<1>3. Stored(s) \in SettingsType /\ Stored(s).number_of_asics = n /\ Stored(s).ms_buff = m
  BY <1>1, <1>2 DEF SettingsType
<1>4. QED
  BY <1>1, <1>3

MembersType ==
    /\ members \in SettingsType
    /\ members.number_of_asics \in 0..255 /\ members.ms_buff \in 0..255

Bytes == 0..255

BoardType == [registers : [Registers -> Bytes], command : Seq(Bytes)]

Typed ==
    /\ setting \in [version : {1, 2}, open : BOOLEAN, listens : BOOLEAN, loops : BOOLEAN]
    /\ main \in {"start", "run", "lambda", "join"}
    /\ worker \in {"start", "assigned", "running"}
    /\ steps \in [Thread -> Seq(Step)]
    /\ value \in [Thread -> Bytes]
    /\ mixed \subseteq Thread
    /\ Len(messages) <= MaxUpdates
    /\ MembersType
    /\ connected \in BOOLEAN
    /\ board \in BoardType

LEMMA FourteenInSeq ==
    ASSUME NEW S, NEW a \in S, NEW b \in S, NEW c \in S, NEW d \in S, NEW e \in S,
           NEW f \in S, NEW g \in S, NEW h \in S, NEW i \in S, NEW j \in S, NEW k \in S,
           NEW l \in S, NEW m \in S, NEW n \in S
    PROVE  <<a, b, c, d, e, f, g, h, i, j, k, l, m, n>> \in Seq(S)
OBVIOUS

LEMMA SetUpType == SetUp \in Seq(Step)
<1>1. /\ <<"settings", "">> \in Step /\ <<"commands", "">> \in Step
      /\ <<"build", "">> \in Step
      /\ <<"asics", "">> \in Step /\ <<"scan", "">> \in Step /\ <<"rearm", "">> \in Step
      /\ \A r \in Registers : <<"write", r>> \in Step /\ <<"check", r>> \in Step
  BY DEF Step
<1>2. /\ "ASICNUM" \in Registers /\ "MSBUFF" \in Registers /\ "PAREG" \in Registers
      /\ "CONFIG" \in Registers /\ "STRT_RST" \in Registers
  BY DEF Registers
<1> DEFINE se == <<"settings", "">>
           bu == <<"build", "">>
           co == <<"commands", "">>
           as == <<"asics", "">>
           sc == <<"scan", "">>
           re == <<"rearm", "">>
           w1 == <<"write", "ASICNUM">>    c1 == <<"check", "ASICNUM">>
           w2 == <<"write", "MSBUFF">>     c2 == <<"check", "MSBUFF">>
           w3 == <<"write", "PAREG">>      c3 == <<"check", "PAREG">>
           w4 == <<"write", "CONFIG">>     c4 == <<"check", "CONFIG">>
           w5 == <<"write", "STRT_RST">>   c5 == <<"check", "STRT_RST">>
<1>3. /\ se \in Step /\ bu \in Step /\ co \in Step /\ as \in Step /\ sc \in Step /\ re \in Step
      /\ w1 \in Step /\ w2 \in Step /\ w3 \in Step /\ w4 \in Step /\ w5 \in Step
      /\ c1 \in Step /\ c2 \in Step /\ c3 \in Step /\ c4 \in Step /\ c5 \in Step
  BY <1>1, <1>2
<1>4. SetUp = IF setting.version = 1 THEN <<se, bu, co, sc, re>>
              ELSE <<se, as, w1, c1, w2, c2, w3, c3, w4, c4, w5, c5, sc, re>>
  BY DEF SetUp
<1> HIDE DEF se, bu, co, as, sc, re, w1, c1, w2, c2, w3, c3, w4, c4, w5, c5
<1>5. <<se, bu, co, sc, re>> \in Seq(Step)
  BY <1>3
<1>6. <<se, as, w1, c1, w2, c2, w3, c3, w4, c4, w5, c5, sc, re>> \in Seq(Step)
  BY <1>3, FourteenInSeq
<1>7. QED
  BY <1>4, <1>5, <1>6

LEMMA InitTyped == Init => Typed
<1> SUFFICES ASSUME Init PROVE Typed
  OBVIOUS
<1>1. MembersType
  BY DaqAssumption, StoredType DEF Init, MembersType
<1>2. board \in BoardType
  BY DEF Init, BoardType, Bytes
<1>3. steps \in [Thread -> Seq(Step)] /\ value \in [Thread -> Bytes]
  BY DEF Init, Bytes
<1>4. Len(messages) <= MaxUpdates
  <2>1. messages = <<>> /\ MaxUpdates \in Nat
    BY DaqAssumption DEF Init
  <2>2. QED
    BY <2>1
<1>5. QED
  BY <1>1, <1>2, <1>3, <1>4 DEF Init, Typed

\* What the steps of a set-up leave alone.
LEMMA DoneTyped ==
    ASSUME Typed, NEW t \in Thread, steps[t] # <<>>, Done(t)
    PROVE  steps' \in [Thread -> Seq(Step)]
<1>1. steps[t] \in Seq(Step)
  BY DEF Typed
<1>2. Tail(steps[t]) \in Seq(Step)
  BY <1>1
<1>3. QED
  BY <1>2 DEF Typed, Done

LEMMA SetUpTyped ==
    ASSUME Typed, IInv, NEW t \in Thread, SetUpStep(t)
    PROVE  Typed'
<1>1. UNCHANGED <<setting, main, worker, messages, members>>
  BY DEF SetUpStep, set_default_quickusb_settings, daqv1_start_commanding,
     initialize_daq_version_1, read_asics,
     write_fpga, read_fpga, verify_truth, overflow_stack, finish_setup, rearm, unchangedAll
<1>2. steps' \in [Thread -> Seq(Step)]
  <2>1. CASE verify_truth(t) \/ overflow_stack(t)
    <3>1. steps' = [u \in Thread |-> <<>>]
      BY <2>1 DEF verify_truth, overflow_stack, Exit
    <3>2. <<>> \in Seq(Step)
      OBVIOUS
    <3>3. QED
      BY <3>1, <3>2
  <2>2. CASE ~verify_truth(t) /\ ~overflow_stack(t)
    <3>1. steps[t] # <<>> /\ Done(t)
      BY <2>2 DEF SetUpStep, set_default_quickusb_settings, daqv1_start_commanding,
         initialize_daq_version_1, read_asics, write_fpga, read_fpga, finish_setup, rearm, At
    <3>2. QED
      BY <3>1, DoneTyped
  <2>3. QED
    BY <2>1, <2>2
<1>3. connected' \in BOOLEAN
  BY DEF SetUpStep, set_default_quickusb_settings, daqv1_start_commanding,
     initialize_daq_version_1, read_asics,
     write_fpga, read_fpga, verify_truth, overflow_stack, finish_setup, rearm, Typed
<1>4. value' \in [Thread -> Bytes] /\ board' \in BoardType
  <2>1. CASE read_asics(t)
    <3>1. Meant(members, "ASICNUM") \in Bytes
      BY MeantType DEF Typed, MembersType, Registers, Bytes
    <3>2. QED
      BY <2>1, <3>1 DEF read_asics, Typed
  <2>2. ASSUME NEW r \in Registers, write_fpga(t, r)
        PROVE  value' \in [Thread -> Bytes] /\ board' \in BoardType
    <3>1. value[t] \in Bytes /\ Meant(members, r) \in Bytes
      BY <2>2, MeantType DEF write_fpga, Typed, MembersType, Bytes
    <3>2. value' \in [Thread -> Bytes] /\ value'[t] \in Bytes
      BY <2>2, <3>1 DEF write_fpga, Typed
    <3>3. PICK byte \in Junk \cup {value'[t]} :
             board' = [board EXCEPT !.registers[r] = byte]
      BY <2>2 DEF write_fpga
    <3>4. byte \in Bytes
      BY <3>2, <3>3, DaqAssumption DEF Bytes
    <3>5. QED
      BY <3>2, <3>3, <3>4 DEF Typed, BoardType
  <2>3. CASE initialize_daq_version_1(t)
    <3>1. CommandData(members) \in Seq(Bytes) /\ Mixed \subseteq Seq(Bytes)
      BY CommandType, DaqAssumption DEF Typed, MembersType, Bytes
    <3>2. PICK data \in Seq(Bytes) : board' \in {board, [board EXCEPT !.command = data]}
      BY <2>3, <3>1 DEF initialize_daq_version_1
    <3>3. QED
      BY <2>3, <3>2 DEF initialize_daq_version_1, Typed, BoardType
  <2>4. ASSUME NEW r \in Registers, read_fpga(t, r)
        PROVE  value' \in [Thread -> Bytes] /\ board' \in BoardType
    BY <2>4 DEF read_fpga, Typed, Bytes
  <2>5. CASE verify_truth(t) \/ overflow_stack(t)
    BY <2>5 DEF verify_truth, overflow_stack, Exit, Typed, Bytes
  <2>6. CASE \/ set_default_quickusb_settings(t) \/ daqv1_start_commanding(t)
             \/ finish_setup(t) \/ rearm(t)
    BY <2>6 DEF set_default_quickusb_settings, daqv1_start_commanding, finish_setup,
                rearm, Typed
  <2>7. QED
    BY <2>1, <2>2, <2>3, <2>4, <2>5, <2>6 DEF SetUpStep
<1>5. mixed' \subseteq Thread
  BY DEF SetUpStep, set_default_quickusb_settings, daqv1_start_commanding,
     initialize_daq_version_1, read_asics, write_fpga, read_fpga, verify_truth,
     overflow_stack, Exit, finish_setup, rearm, Typed
<1>6. QED
  BY <1>1, <1>2, <1>3, <1>4, <1>5 DEF Typed, MembersType

LEMMA UpdateTyped ==
    ASSUME Typed, NEW t \in Thread, NEW s \in Settings, NEW q, update_settings(t, s, q)
    PROVE  MembersType' /\ steps' \in [Thread -> Seq(Step)]
<1>1. MembersType'
  BY DaqAssumption, StoredType DEF update_settings, MembersType
<1>2. steps' \in [Thread -> Seq(Step)]
  BY SetUpType DEF update_settings, Typed
<1>3. QED
  BY <1>1, <1>2

LEMMA OthersTyped ==
    ASSUME Typed, IInv,
           \/ MakeController \/ RunService \/ RunUpdate \/ RunScan \/ RunAborted
           \/ RunReactor \/ StartMain \/ RunPosted \/ EndMain
           \/ \E s \in Settings : SettingsCallback(s)
    PROVE  Typed'
<1>1. UNCHANGED <<setting, value, connected, board>>
  BY DEF MakeController, RunService, RunUpdate, RunScan, RunAborted, RunReactor, StartMain,
     RunPosted, EndMain, SettingsCallback, unchangedAll
<1>2. /\ main' \in {"start", "run", "lambda", "join"}
      /\ worker' \in {"start", "assigned", "running"}
      /\ mixed' \subseteq Thread
  BY DEF MakeController, RunService, RunUpdate, RunScan, RunAborted, RunReactor, StartMain,
     RunPosted, EndMain, SettingsCallback, unchangedAll, Typed, update_settings, Building
<1>3. Len(messages') <= MaxUpdates
  <2>1. messages \in Seq(Settings) /\ MaxUpdates \in Nat /\ Len(messages) <= MaxUpdates
    BY DaqAssumption DEF IInv, Types, Typed
  <2>2. ASSUME NEW s \in Settings, SettingsCallback(s)
        PROVE  Len(messages') <= MaxUpdates
    <3>1. messages' = Append(messages, s) /\ Len(messages) < MaxUpdates
      BY <2>2 DEF SettingsCallback
    <3>2. QED
      BY <2>1, <3>1
  <2>3. CASE ~\E s \in Settings : SettingsCallback(s)
    <3>1. UNCHANGED messages
      BY <2>3 DEF MakeController, RunService, RunUpdate, RunScan, RunAborted, RunReactor,
         StartMain, RunPosted, EndMain, unchangedAll
    <3>2. QED
      BY <2>1, <3>1
  <2>4. QED
    BY <2>2, <2>3
<1>4. MembersType' /\ steps' \in [Thread -> Seq(Step)]
  <2>1. CASE RunUpdate
    <3>1. tasks \in Seq(Tasks) /\ tasks # <<>>
      BY DEF IInv, Types, Ordered
    <3>2. Head(tasks) \in Tasks /\ Head(tasks).op = "update"
      BY <2>1, <3>1 DEF RunUpdate
    <3>3. Head(tasks).settings \in Settings
      BY <3>2, KindsDiffer DEF Tasks
    <3>4. update_settings("worker", Head(tasks).settings, Tail(tasks)) /\ "worker" \in Thread
      BY <2>1 DEF RunUpdate, Thread
    <3>5. QED
      BY <3>3, <3>4, UpdateTyped
  <2>2. CASE RunPosted /\ messages # <<>>
    <3>1. messages \in Seq(Settings)
      BY DEF IInv, Types
    <3>2. Last(messages) \in Settings
      BY <2>2, <3>1 DEF Last
    <3>3. update_settings("main", Last(messages), tasks) /\ "main" \in Thread
      BY <2>2 DEF RunPosted, Thread
    <3>4. QED
      BY <3>2, <3>3, UpdateTyped
  <2>3. CASE ~RunUpdate /\ ~(RunPosted /\ messages # <<>>)
    <3>1. UNCHANGED <<members, steps>>
      BY <2>3 DEF MakeController, RunService, RunScan, RunAborted, RunReactor, StartMain,
         RunPosted, EndMain, SettingsCallback
    <3>2. QED
      BY <3>1 DEF Typed, MembersType
  <2>4. QED
    BY <2>1, <2>2, <2>3
<1>5. QED
  BY <1>1, <1>2, <1>3, <1>4 DEF Typed

LEMMA NextTyped == Typed /\ IInv /\ [Next]_vars => Typed'
<1> SUFFICES ASSUME Typed, IInv, [Next]_vars PROVE Typed'
  OBVIOUS
<1>1. CASE UNCHANGED vars
  BY <1>1 DEF vars, Typed, MembersType
<1>2. CASE SetUpStep("worker") \/ SetUpStep("main")
  BY <1>2, SetUpTyped DEF Thread
<1>3. CASE Next /\ ~SetUpStep("worker") /\ ~SetUpStep("main")
  BY <1>3, OthersTyped DEF Next, Worker, Main
<1>4. QED
  BY <1>1, <1>2, <1>3

\* Every variable of the two threads stays what it is meant to be, and what is sent
\* to the board are bytes: a command, whose opcode and digits have room in one, and
\* the value of a register, for any settings a message can bring.
THEOREM DaqTypeCorrect == Spec => []DaqTypeOK
<1>1. Typed /\ IInv => DaqTypeOK
  <2> SUFFICES ASSUME Typed, IInv PROVE DaqTypeOK
    OBVIOUS
  <2>1. timer.waits \in 0..1 /\ timer.soon \in BOOLEAN
    BY DEF IInv, Types, Timers
  <2>2. board.registers \in [Registers -> 0..255] /\ board.command \in Seq(0..255)
    BY DEF Typed, BoardType, Bytes
  <2>3. value \in [Thread -> 0..255]
    BY DEF Typed, Bytes
  <2>4. QED
    BY <2>1, <2>2, <2>3 DEF DaqTypeOK, Typed, MembersType, IInv, Types
<1>2. QED
  BY <1>1, InitTyped, NextTyped, SettingsOnTheirWay, PTL DEF Spec

-----------------------------------------------------------------------------
(* What a set-up still has to do to a register.                            *)

WriteAhead(s, r) == \E i \in DOMAIN s : s[i] = <<"write", r>>

\* A write is followed by the check of the same register, and by no other write of it.
Shape(s) ==
    \A r \in Registers :
        /\ \A i \in DOMAIN s :
              s[i] = <<"write", r>> => i + 1 \in DOMAIN s /\ s[i + 1] = <<"check", r>>
        /\ \A i, j \in DOMAIN s :
              s[i] = <<"check", r>> /\ s[j] = <<"write", r>> => j < i

\* The set-up of a version 2 board writes, and then checks, the register r at w.
LEMMA SetUpAt ==
    ASSUME setting.version # 1, NEW r \in Registers
    PROVE  /\ DOMAIN SetUp = 1..14
           /\ \E w \in 3..11 :
                 /\ SetUp[w] = <<"write", r>> /\ SetUp[w + 1] = <<"check", r>>
                 /\ \A i \in 1..14 : SetUp[i] = <<"write", r>> => i = w
                 /\ \A i \in 1..14 : SetUp[i] = <<"check", r>> => i = w + 1
<1> DEFINE se == <<"settings", "">>        as == <<"asics", "">>
           sc == <<"scan", "">>            re == <<"rearm", "">>
           w1 == <<"write", "ASICNUM">>    c1 == <<"check", "ASICNUM">>
           w2 == <<"write", "MSBUFF">>     c2 == <<"check", "MSBUFF">>
           w3 == <<"write", "PAREG">>      c3 == <<"check", "PAREG">>
           w4 == <<"write", "CONFIG">>     c4 == <<"check", "CONFIG">>
           w5 == <<"write", "STRT_RST">>   c5 == <<"check", "STRT_RST">>
           q == SetUp
<1>1. /\ se[1] = "settings" /\ as[1] = "asics" /\ sc[1] = "scan" /\ re[1] = "rearm"
      /\ w1[1] = "write" /\ w2[1] = "write" /\ w3[1] = "write"
      /\ w4[1] = "write" /\ w5[1] = "write"
      /\ c1[1] = "check" /\ c2[1] = "check" /\ c3[1] = "check"
      /\ c4[1] = "check" /\ c5[1] = "check"
      /\ w1[2] = "ASICNUM" /\ w2[2] = "MSBUFF" /\ w3[2] = "PAREG"
      /\ w4[2] = "CONFIG" /\ w5[2] = "STRT_RST"
      /\ c1[2] = "ASICNUM" /\ c2[2] = "MSBUFF" /\ c3[2] = "PAREG"
      /\ c4[2] = "CONFIG" /\ c5[2] = "STRT_RST"
  OBVIOUS
<1>2. \/ r = "ASICNUM" /\ w1 = <<"write", r>> /\ c1 = <<"check", r>>
      \/ r = "MSBUFF" /\ w2 = <<"write", r>> /\ c2 = <<"check", r>>
      \/ r = "PAREG" /\ w3 = <<"write", r>> /\ c3 = <<"check", r>>
      \/ r = "CONFIG" /\ w4 = <<"write", r>> /\ c4 = <<"check", r>>
      \/ r = "STRT_RST" /\ w5 = <<"write", r>> /\ c5 = <<"check", r>>
  BY DEF Registers
<1>3. q = <<se, as, w1, c1, w2, c2, w3, c3, w4, c4, w5, c5, sc, re>>
  BY DEF SetUp
<1> HIDE DEF se, as, sc, re, w1, c1, w2, c2, w3, c3, w4, c4, w5, c5, q
<1>4. /\ DOMAIN q = 1..14 /\ q[1] = se /\ q[2] = as /\ q[3] = w1 /\ q[4] = c1
      /\ q[5] = w2 /\ q[6] = c2 /\ q[7] = w3 /\ q[8] = c3 /\ q[9] = w4 /\ q[10] = c4
      /\ q[11] = w5 /\ q[12] = c5 /\ q[13] = sc /\ q[14] = re
  BY <1>3
<1> DEFINE w == CASE r = "ASICNUM" -> 3 [] r = "MSBUFF" -> 5 [] r = "PAREG" -> 7
                  [] r = "CONFIG" -> 9 [] r = "STRT_RST" -> 11
<1>5. /\ w \in 3..11 /\ q[w] = <<"write", r>> /\ q[w + 1] = <<"check", r>>
  BY <1>2, <1>4
<1>6. ASSUME NEW i \in 1..14
      PROVE  /\ q[i] = <<"write", r>> => i = w
             /\ q[i] = <<"check", r>> => i = w + 1
  <2>1. /\ q[i] = <<"write", r>> => q[i][1] = "write" /\ q[i][2] = r
        /\ q[i] = <<"check", r>> => q[i][1] = "check" /\ q[i][2] = r
    OBVIOUS
  <2> DEFINE e == q[i]
  <2>2. i \in {1, 2, 3, 4, 5, 6, 7, 8, 9, 10, 11, 12, 13, 14}
    OBVIOUS
  <2>3. \/ e \in {se, as, sc, re}
        \/ (i = 3 /\ e = w1) \/ (i = 4 /\ e = c1)
        \/ (i = 5 /\ e = w2) \/ (i = 6 /\ e = c2)
        \/ (i = 7 /\ e = w3) \/ (i = 8 /\ e = c3)
        \/ (i = 9 /\ e = w4) \/ (i = 10 /\ e = c4)
        \/ (i = 11 /\ e = w5) \/ (i = 12 /\ e = c5)
    <3>1. CASE i \in {1, 2, 13, 14}
      BY <1>4, <3>1
    <3>2. CASE i \in {3, 4, 5, 6}
      BY <1>4, <3>2
    <3>3. CASE i \in {7, 8, 9, 10}
      BY <1>4, <3>3
    <3>4. CASE i \in {11, 12}
      BY <1>4, <3>4
    <3>5. QED
      BY <2>2, <3>1, <3>2, <3>3, <3>4
  <2> HIDE DEF e
  <2>4. e[1] = "write" => \/ (i = 3 /\ e[2] = "ASICNUM") \/ (i = 5 /\ e[2] = "MSBUFF")
                          \/ (i = 7 /\ e[2] = "PAREG") \/ (i = 9 /\ e[2] = "CONFIG")
                          \/ (i = 11 /\ e[2] = "STRT_RST")
    BY <1>1, <2>3
  <2>5. e[1] = "check" => \/ (i = 4 /\ e[2] = "ASICNUM") \/ (i = 6 /\ e[2] = "MSBUFF")
                          \/ (i = 8 /\ e[2] = "PAREG") \/ (i = 10 /\ e[2] = "CONFIG")
                          \/ (i = 12 /\ e[2] = "STRT_RST")
    BY <1>1, <2>3
  <2>6. (e[1] = "write" /\ e[2] = r => i = w) /\ (e[1] = "check" /\ e[2] = r => i = w + 1)
    BY <1>2, <2>4, <2>5
  <2>7. QED
    BY <2>1, <2>6 DEF e
<1> HIDE DEF w
<1>7. QED
  BY <1>4, <1>5, <1>6 DEF q

LEMMA SetUpShape ==
    /\ Shape(SetUp)
    /\ setting.version = 2 => \A r \in Registers : WriteAhead(SetUp, r)
<1>1. CASE setting.version = 1
  <2> DEFINE se == <<"settings", "">>    bu == <<"build", "">>
             co == <<"commands", "">>
             sc == <<"scan", "">>        re == <<"rearm", "">>
             q == SetUp
  <2>1. q = <<se, bu, co, sc, re>>
    BY <1>1, Zenon DEF SetUp
  <2>2. ASSUME NEW r, NEW e \in {se, bu, co, sc, re}
        PROVE  e # <<"write", r>> /\ e # <<"check", r>>
    <3>1. e = se \/ e = bu \/ e = co \/ e = sc \/ e = re
      OBVIOUS
    <3>2. se[1] = "settings" /\ bu[1] = "build" /\ co[1] = "commands" /\ sc[1] = "scan" /\ re[1] = "rearm"
      OBVIOUS
    <3>3. <<"write", r>>[1] = "write" /\ <<"check", r>>[1] = "check"
      OBVIOUS
    <3> HIDE DEF se, bu, co, sc, re
    <3>4. QED
      BY <3>1, <3>2, <3>3
  <2> HIDE DEF se, bu, co, sc, re, q
  <2>3. DOMAIN q = 1..5 /\ \A i \in 1..5 : q[i] \in {se, bu, co, sc, re}
    BY <2>1
  <2>4. QED
    BY <1>1, <2>2, <2>3 DEF Shape, q
<1>2. CASE setting.version # 1
  <2>1. ASSUME NEW r \in Registers
        PROVE  /\ \A i \in DOMAIN SetUp : SetUp[i] = <<"write", r>> =>
                      i + 1 \in DOMAIN SetUp /\ SetUp[i + 1] = <<"check", r>>
               /\ \A i, j \in DOMAIN SetUp :
                      SetUp[i] = <<"check", r>> /\ SetUp[j] = <<"write", r>> => j < i
               /\ WriteAhead(SetUp, r)
    <3>1. PICK w \in 3..11 :
             /\ SetUp[w] = <<"write", r>> /\ SetUp[w + 1] = <<"check", r>>
             /\ \A i \in 1..14 : SetUp[i] = <<"write", r>> => i = w
             /\ \A i \in 1..14 : SetUp[i] = <<"check", r>> => i = w + 1
      BY <1>2, SetUpAt
    <3>2. DOMAIN SetUp = 1..14
      BY <1>2, SetUpAt
    <3>3. QED
      BY <3>1, <3>2 DEF WriteAhead
  <2>2. QED
    BY <2>1 DEF Shape
<1>3. QED
  BY <1>1, <1>2

LEMMA TailShape ==
    ASSUME NEW s \in Seq(Step), s # <<>>, Shape(s)
    PROVE  /\ Shape(Tail(s))
           /\ \A r \in Registers :
                 /\ WriteAhead(s, r) /\ Head(s) # <<"write", r>> => WriteAhead(Tail(s), r)
                 /\ Head(s) = <<"write", r>> =>
                       Tail(s) # <<>> /\ Head(Tail(s)) = <<"check", r>>
                 /\ Head(s) = <<"check", r>> => ~WriteAhead(s, r)
<1> DEFINE t == Tail(s)
           n == Len(s)
<1>1. /\ n \in Nat \ {0} /\ DOMAIN s = 1..n /\ DOMAIN t = 1..(n - 1)
      /\ t \in Seq(Step) /\ Len(t) = n - 1
      /\ \A i \in 1..(n - 1) : t[i] = s[i + 1]
      /\ Head(s) = s[1]
  OBVIOUS
<1> HIDE DEF t, n
<1>2. Shape(t)
  <2> SUFFICES ASSUME NEW r \in Registers
               PROVE  /\ \A i \in DOMAIN t : t[i] = <<"write", r>> =>
                            i + 1 \in DOMAIN t /\ t[i + 1] = <<"check", r>>
                      /\ \A i, j \in DOMAIN t :
                            t[i] = <<"check", r>> /\ t[j] = <<"write", r>> => j < i
    BY DEF Shape
  <2> DEFINE w == <<"write", r>>
             c == <<"check", r>>
  <2>1. /\ \A i \in DOMAIN s : s[i] = w => i + 1 \in DOMAIN s /\ s[i + 1] = c
        /\ \A i, j \in DOMAIN s : s[i] = c /\ s[j] = w => j < i
    BY DEF Shape
  <2> HIDE DEF w, c
  <2>2. ASSUME NEW i \in DOMAIN t, t[i] = w
        PROVE  i + 1 \in DOMAIN t /\ t[i + 1] = c
    <3>1. i + 1 \in DOMAIN s /\ s[i + 1] = w
      BY <1>1, <2>2
    <3>2. (i + 1) + 1 \in DOMAIN s /\ s[(i + 1) + 1] = c
      BY <2>1, <3>1
    <3>3. i + 1 \in 1..(n - 1)
      BY <1>1, <3>2
    <3>4. QED
      BY <1>1, <3>2, <3>3
  <2>3. ASSUME NEW i \in DOMAIN t, NEW j \in DOMAIN t, t[i] = c, t[j] = w
        PROVE  j < i
    <3>1. /\ i + 1 \in DOMAIN s /\ s[i + 1] = c /\ j + 1 \in DOMAIN s /\ s[j + 1] = w
          /\ i \in Nat /\ j \in Nat
      BY <1>1, <2>3
    <3>2. j + 1 < i + 1
      BY <2>1, <3>1
    <3>3. QED
      BY <3>1, <3>2
  <2>4. QED
    BY <2>2, <2>3 DEF w, c
<1>3. ASSUME NEW r \in Registers
      PROVE  /\ WriteAhead(s, r) /\ Head(s) # <<"write", r>> => WriteAhead(t, r)
             /\ Head(s) = <<"write", r>> => t # <<>> /\ Head(t) = <<"check", r>>
             /\ Head(s) = <<"check", r>> => ~WriteAhead(s, r)
  <2> DEFINE w == <<"write", r>>
             c == <<"check", r>>
  <2>1. /\ \A i \in DOMAIN s : s[i] = w => i + 1 \in DOMAIN s /\ s[i + 1] = c
        /\ \A i, j \in DOMAIN s : s[i] = c /\ s[j] = w => j < i
    BY DEF Shape
  <2>2. (WriteAhead(s, r) <=> \E i \in DOMAIN s : s[i] = w)
        /\ (WriteAhead(t, r) <=> \E i \in DOMAIN t : t[i] = w)
    BY DEF WriteAhead
  <2> HIDE DEF w, c
  <2>3. ASSUME WriteAhead(s, r), Head(s) # w
        PROVE  WriteAhead(t, r)
    <3>1. PICK i \in DOMAIN s : s[i] = w
      BY <2>2, <2>3
    <3>2. i \in 1..n /\ i # 1
      BY <1>1, <2>3, <3>1
    <3>3. i - 1 \in 1..(n - 1) /\ (i - 1) + 1 = i
      BY <1>1, <3>2
    <3>4. t[i - 1] = w
      BY <1>1, <3>1, <3>3
    <3>5. QED
      BY <1>1, <2>2, <3>3, <3>4
  <2>4. ASSUME Head(s) = w
        PROVE  t # <<>> /\ Head(t) = c
    <3>1. 1 \in DOMAIN s /\ s[1] = w
      BY <1>1, <2>4
    <3>2. 1 + 1 \in DOMAIN s /\ s[1 + 1] = c
      BY <2>1, <3>1
    <3>3. 1 \in 1..(n - 1)
      BY <1>1, <3>2
    <3>4. t # <<>> /\ t[1] = c /\ Head(t) = t[1]
      BY <1>1, <3>2, <3>3
    <3>5. QED
      BY <3>4
  <2>5. ASSUME Head(s) = c, WriteAhead(s, r)
        PROVE  FALSE
    <3>1. PICK i \in DOMAIN s : s[i] = w
      BY <2>2, <2>5
    <3>2. i \in 1..n /\ 1 \in DOMAIN s /\ s[1] = c
      BY <1>1, <2>5, <3>1
    <3>3. i < 1
      BY <2>1, <3>1, <3>2
    <3>4. QED
      BY <1>1, <3>2, <3>3
  <2>6. QED
    BY <2>3, <2>4, <2>5 DEF w, c
<1>4. QED
  BY <1>2, <1>3 DEF t

-----------------------------------------------------------------------------
(* The version 2 board.                                                    *)

\* Thread t is still to compare the register r with what is meant for it: it is to
\* write it first, or has written it and holds the byte.
WillCheck(t, r) ==
    \/ WriteAhead(steps[t], r)
    \/ /\ steps[t] # <<>> /\ Head(steps[t]) = <<"check", r>>
       /\ r # "MSBUFF" => value[t] = Meant(members, r)

Compared == Registers \ {"ASICNUM"}

InUse ==
    /\ process = "running" /\ setting.version = 2
    /\ connected \/ \E t \in Thread : steps[t] # <<>>

\* A register holds what is meant for it, or a thread is to see to it.
BoardInv ==
    /\ \A t \in Thread : Shape(steps[t])
    /\ InUse => \A r \in Compared :
                   \/ board.registers[r] = Meant(members, r)
                   \/ \E t \in Thread : WillCheck(t, r)

LEMMA StepsDiffer ==
    /\ \A r : <<"write", r>> # <<"check", r>>
    /\ \A r, q : <<"write", q>> = <<"write", r>> => q = r
    /\ \A r, q : <<"check", q>> = <<"check", r>> => q = r
    /\ \A r, q : <<"check", q>> # <<"write", r>>
    /\ \A r, q, op : op \notin {"write", "check"} =>
          <<op, q>> # <<"write", r>> /\ <<op, q>> # <<"check", r>>
<1>1. \A a, b : <<a, b>>[1] = a /\ <<a, b>>[2] = b
  OBVIOUS
<1>2. QED
  BY <1>1

LEMMA EmptyShape == Shape(<<>>)
BY DEF Shape

LEMMA InitBoard == Init => BoardInv
<1> SUFFICES ASSUME Init PROVE BoardInv
  OBVIOUS
<1>1. \A t \in Thread : steps[t] = <<>>
  BY DEF Init
<1>2. connected = FALSE
  BY DEF Init
<1>3. QED
  BY <1>1, <1>2, EmptyShape DEF BoardInv, InUse

\* A step of a set-up keeps the form of what is left of it.
LEMMA DoneShape ==
    ASSUME Typed, BoardInv, NEW t \in Thread, steps[t] # <<>>, Done(t)
    PROVE  /\ \A u \in Thread : Shape(steps'[u])
           /\ steps'[t] = Tail(steps[t])
           /\ \A u \in Thread \ {t} : steps'[u] = steps[u]
<1>1. steps \in [Thread -> Seq(Step)] /\ Shape(steps[t])
  BY DEF Typed, BoardInv
<1>2. Shape(Tail(steps[t]))
  BY <1>1, TailShape
<1>3. QED
  BY <1>1, <1>2 DEF Done, BoardInv

\* A step that neither writes nor compares r leaves r seen to.
LEMMA OtherRegister ==
    ASSUME Typed, BoardInv, NEW t \in Thread, steps[t] # <<>>, Done(t),
           NEW r \in Registers,
           Head(steps[t]) # <<"write", r>>, Head(steps[t]) # <<"check", r>>,
           UNCHANGED members,
           \A u \in Thread \ {t} : value'[u] = value[u],
           \E u \in Thread : WillCheck(u, r)
    PROVE  \E u \in Thread : WillCheck(u, r)'
<1>1. PICK u \in Thread : WillCheck(u, r)
  OBVIOUS
<1>2. /\ steps'[t] = Tail(steps[t])
      /\ \A v \in Thread \ {t} : steps'[v] = steps[v]
  BY DoneShape
<1>3. CASE u = t
  <2>1. WriteAhead(steps[t], r)
    BY <1>1, <1>3 DEF WillCheck
  <2>2. steps[t] \in Seq(Step) /\ Shape(steps[t])
    BY DEF Typed, BoardInv
  <2>3. WriteAhead(Tail(steps[t]), r)
    BY <2>1, <2>2, TailShape
  <2>4. WillCheck(t, r)'
    BY <1>2, <2>3 DEF WillCheck
  <2>5. QED
    BY <2>4
<1>4. CASE u # t
  <2>1. steps'[u] = steps[u] /\ value'[u] = value[u]
    BY <1>2, <1>4
  <2>2. WillCheck(u, r)'
    BY <1>1, <2>1 DEF WillCheck
  <2>3. QED
    BY <2>2
<1>5. QED
  BY <1>3, <1>4

\* A register that was written is to be compared with the byte that was meant.
LEMMA WrittenRegister ==
    ASSUME Typed, BoardInv, NEW t \in Thread, NEW r \in Compared, write_fpga(t, r)
    PROVE  WillCheck(t, r)'
<1>1. steps[t] # <<>> /\ Head(steps[t]) = <<"write", r>> /\ Done(t)
  BY DEF write_fpga, At
<1>2. steps[t] \in Seq(Step) /\ Shape(steps[t]) /\ r \in Registers /\ r # "ASICNUM"
  BY DEF Typed, BoardInv, Compared
<1>3. steps'[t] = Tail(steps[t])
  BY <1>1, DoneShape
<1>4. Tail(steps[t]) # <<>> /\ Head(Tail(steps[t])) = <<"check", r>>
  BY <1>1, <1>2, TailShape
<1>5. value'[t] = Meant(members, r) /\ members' = members
  BY <1>2 DEF write_fpga, Typed
<1>6. QED
  BY <1>3, <1>4, <1>5 DEF WillCheck

\* A register that was compared holds what is meant, or another thread is to see to it.
LEMMA ComparedRegister ==
    ASSUME Typed, BoardInv, NEW t \in Thread, NEW r \in Compared, read_fpga(t, r),
           \/ board.registers[r] = Meant(members, r)
           \/ \E u \in Thread : WillCheck(u, r)
    PROVE  \/ board'.registers[r] = Meant(members', r)
           \/ \E u \in Thread : WillCheck(u, r)'
<1>1. /\ steps[t] # <<>> /\ Head(steps[t]) = <<"check", r>> /\ Done(t)
      /\ Verified(t, r, board.registers[r])
      /\ UNCHANGED <<members, board>>
      /\ value' = [value EXCEPT ![t] = 0]
  BY DEF read_fpga, At
<1>2. /\ steps[t] \in Seq(Step) /\ Shape(steps[t]) /\ r \in Registers /\ r # "ASICNUM"
      /\ value \in [Thread -> Bytes]
  BY DEF Typed, BoardInv, Compared
<1>3. CASE WillCheck(t, r)
  <2>1. ~WriteAhead(steps[t], r)
    BY <1>1, <1>2, TailShape
  <2>2. r # "MSBUFF" => value[t] = Meant(members, r)
    BY <1>3, <2>1 DEF WillCheck
  <2>3. CASE r = "MSBUFF"
    <3>1. board.registers[r] = AsChar(members.ms_buff)
      BY <1>1, <2>3 DEF Verified
    <3>2. board.registers[r] \in Bytes /\ members.ms_buff \in Bytes
      BY <1>2 DEF Typed, MembersType, BoardType, Bytes
    <3>3. Meant(members, r) = members.ms_buff % 256
      BY <2>3 DEF Meant, Byte
    <3> DEFINE b == board.registers[r]
               n == members.ms_buff
    <3> HIDE DEF b, n
    <3>4. b \in 0..255 /\ n \in 0..255 /\ b = (IF n < 128 THEN n ELSE n - 256)
      BY <3>1, <3>2 DEF Bytes, AsChar, b, n
    <3>5. b = n % 256
      BY <3>4
    <3>6. QED
      BY <1>1, <3>3, <3>5 DEF b, n
  <2>4. CASE r # "MSBUFF"
    <3>1. board.registers[r] = value[t]
      BY <1>1, <1>2, <2>4 DEF Verified
    <3>2. QED
      BY <1>1, <2>2, <2>4, <3>1
  <2>5. QED
    BY <2>3, <2>4
<1>4. ASSUME NEW u \in Thread, u # t, WillCheck(u, r)
      PROVE  WillCheck(u, r)'
  <2>1. steps'[u] = steps[u] /\ value'[u] = value[u]
    BY <1>1, <1>2, <1>4, DoneShape
  <2>2. QED
    BY <1>1, <1>4, <2>1 DEF WillCheck
<1>5. QED
  BY <1>1, <1>3, <1>4

LEMMA SetUpBoard ==
    ASSUME Typed, BoardInv, NEW t \in Thread, SetUpStep(t)
    PROVE  BoardInv'
<1>1. CASE verify_truth(t) \/ overflow_stack(t)
  <2>1. process' = "exited" /\ \A u \in Thread : steps'[u] = <<>>
    BY <1>1 DEF verify_truth, overflow_stack, Exit
  <2>2. QED
    BY <2>1, EmptyShape DEF BoardInv, InUse
<1>2. CASE ~verify_truth(t) /\ ~overflow_stack(t)
  <2>1. /\ steps[t] # <<>> /\ Done(t) /\ process = "running"
        /\ UNCHANGED <<setting, members>>
    BY <1>2 DEF SetUpStep, set_default_quickusb_settings,
       daqv1_start_commanding, initialize_daq_version_1,
       read_asics, write_fpga, read_fpga, finish_setup, rearm, At, unchangedAll
  <2>2. \A u \in Thread : Shape(steps'[u])
    BY <2>1, DoneShape
  <2>3. \A u \in Thread \ {t} : value'[u] = value[u]
    BY <1>2 DEF SetUpStep, set_default_quickusb_settings,
       daqv1_start_commanding, initialize_daq_version_1,
       read_asics, write_fpga, read_fpga, finish_setup, rearm, Typed
  <2>4. ASSUME InUse', NEW r \in Compared
        PROVE  \/ board'.registers[r] = Meant(members', r)
               \/ \E u \in Thread : WillCheck(u, r)'
    <3>1. r \in Registers
      BY DEF Compared
    <3>2. \/ board.registers[r] = Meant(members, r)
          \/ \E u \in Thread : WillCheck(u, r)
      BY <2>1, <2>4 DEF InUse, BoardInv
    <3>3. CASE write_fpga(t, r)
      BY <3>3, WrittenRegister
    <3>4. CASE read_fpga(t, r)
      BY <3>2, <3>4, ComparedRegister
    <3>5. CASE ~write_fpga(t, r) /\ ~read_fpga(t, r)
      <4>1. \/ \E op \in {"settings", "build", "commands", "asics", "scan", "rearm"} :
                  Head(steps[t]) = <<op, "">>
            \/ \E q \in Registers \ {r} :
                  Head(steps[t]) = <<"write", q>> \/ Head(steps[t]) = <<"check", q>>
        BY <1>2, <3>5 DEF SetUpStep, set_default_quickusb_settings,
           daqv1_start_commanding,
     initialize_daq_version_1, read_asics, write_fpga, read_fpga, finish_setup,
           rearm, At
      <4>2. Head(steps[t]) # <<"write", r>> /\ Head(steps[t]) # <<"check", r>>
        BY <4>1, StepsDiffer
      <4>3. board'.registers[r] = board.registers[r]
        <5>1. board \in BoardType
          BY DEF Typed
        <5>2. ASSUME NEW q \in Registers, write_fpga(t, q)
              PROVE  board'.registers[r] = board.registers[r]
          <6>1. q # r
            BY <3>5, <5>2
          <6>2. \E byte : board' = [board EXCEPT !.registers[q] = byte]
            BY <5>2 DEF write_fpga
          <6>3. QED
            BY <5>1, <6>1, <6>2 DEF BoardType
        <5>3. CASE initialize_daq_version_1(t)
          BY <5>1, <5>3 DEF initialize_daq_version_1, BoardType
        <5>4. CASE ~initialize_daq_version_1(t) /\ ~\E q \in Registers : write_fpga(t, q)
          <6>1. board' = board
            BY <1>2, <5>4 DEF SetUpStep, set_default_quickusb_settings, daqv1_start_commanding,
               read_asics,
               read_fpga, finish_setup, rearm
          <6>2. QED
            BY <6>1
        <5>5. QED
          BY <5>2, <5>3, <5>4
      <4>4. QED
        BY <2>1, <2>3, <3>1, <3>2, <4>2, <4>3, OtherRegister
    <3>6. QED
      BY <3>3, <3>4, <3>5
  <2>5. QED
    BY <2>2, <2>4 DEF BoardInv
<1>3. QED
  BY <1>1, <1>2

LEMMA UpdateBoard ==
    ASSUME Typed, BoardInv, NEW t \in Thread, NEW s, NEW q, update_settings(t, s, q),
           UNCHANGED setting
    PROVE  BoardInv'
<1>1. steps' = [steps EXCEPT ![t] = SetUp] /\ steps \in [Thread -> Seq(Step)]
  BY DEF update_settings, Typed
<1>2. \A u \in Thread : Shape(steps'[u])
  BY <1>1, SetUpShape DEF BoardInv
<1>3. ASSUME InUse', NEW r \in Registers
      PROVE  WillCheck(t, r)'
  <2>1. steps'[t] = SetUp /\ setting.version = 2
    BY <1>1, <1>3 DEF InUse
  <2>2. WriteAhead(steps'[t], r)
    BY <2>1, SetUpShape
  <2>3. QED
    BY <2>2 DEF WillCheck
<1>4. QED
  BY <1>2, <1>3 DEF BoardInv, Compared

LEMMA NextBoard == Typed /\ BoardInv /\ [Next]_vars => BoardInv'
<1> SUFFICES ASSUME Typed, BoardInv, [Next]_vars PROVE BoardInv'
  OBVIOUS
<1>1. CASE SetUpStep("worker") \/ SetUpStep("main")
  BY <1>1, SetUpBoard DEF Thread
<1>2. CASE RunUpdate
  BY <1>2, UpdateBoard DEF RunUpdate, Thread, unchangedAll
<1>3. CASE RunPosted /\ messages # <<>>
  BY <1>3, UpdateBoard DEF RunPosted, Thread
<1>4. CASE /\ ~SetUpStep("worker") /\ ~SetUpStep("main")
           /\ ~RunUpdate /\ ~(RunPosted /\ messages # <<>>)
  <2>1. /\ UNCHANGED <<setting, steps, value, members, connected, board>>
        /\ process' = process \/ process' = "exited"
    BY <1>4 DEF Next, Worker, Main, MakeController, RunService, RunScan, RunAborted,
       RunReactor, StartMain, RunPosted, EndMain, SettingsCallback, unchangedAll, vars
  <2>2. InUse' => InUse
    BY <2>1 DEF InUse
  <2>3. \A t \in Thread, r \in Registers : WillCheck(t, r) => WillCheck(t, r)'
    BY <2>1 DEF WillCheck
  <2>4. QED
    BY <2>1, <2>2, <2>3 DEF BoardInv, Compared
<1>5. QED
  BY <1>1, <1>2, <1>3, <1>4

\* When both threads are done with their set-ups, every register of a version 2 board
\* that is compared at all holds what the settings of the Controller ask for, whatever
\* write_fpga sent and however the accesses of the two threads were interleaved.
\* (initialize_daq_version_2)
THEOREM BoardIsConfigured == Spec => []BoardConfigured
<1>1. Typed /\ BoardInv => BoardConfigured
  <2> SUFFICES ASSUME BoardInv, Quiet, connected, setting.version = 2,
                      NEW r \in Compared
               PROVE  board.registers[r] = Meant(members, r)
    BY DEF BoardConfigured, Compared
  <2>1. \A t \in Thread : steps[t] = <<>>
    BY DEF Quiet
  <2>2. \A t \in Thread : ~WillCheck(t, r)
    BY <2>1 DEF WillCheck, WriteAhead
  <2>3. QED
    BY <2>2 DEF BoardInv, InUse, Quiet
<1>2. Typed /\ BoardInv /\ IInv /\ [Next]_vars => Typed' /\ BoardInv'
  BY NextTyped, NextBoard
<1>3. QED
  BY <1>1, <1>2, InitTyped, InitBoard, SettingsOnTheirWay, PTL DEF Spec

\* What a build that was not disturbed sends is made from the members.
LEMMA CommandStep ==
    ASSUME Typed, NEW t \in Thread \ mixed, initialize_daq_version_1(t), board' # board
    PROVE  members \in SettingsType /\ board'.command = CommandData(members)
<1>1. members \in SettingsType
  BY DEF Typed, MembersType
<1>2. board' = [board EXCEPT !.command = CommandData(members)]
  BY DEF initialize_daq_version_1
<1>3. board'.command = CommandData(members)
  BY <1>2 DEF Typed, BoardType
<1>4. QED
  BY <1>1, <1>3

\* Whenever a version 1 board gets commands whose build no set-up of the other thread
\* came into, it reads out of them the settings the Controller has, if these have room
\* in them. (initialize_daq_version_1, daqv1_*)
THEOREM BoardUnderstands == Spec => CommandsUnderstood
<1>1. Typed =>
        [\A t \in Thread \ mixed :
            initialize_daq_version_1(t) /\ board' # board /\ InRange(members) =>
                Understood(board'.command) = [number_of_asics |-> members.number_of_asics,
                                              buffer_size     |-> members.buffer_size,
                                              sample_time     |-> members.sample_time]]_vars
  BY CommandStep, CommandsRead
<1>2. Typed /\ IInv /\ [Next]_vars => Typed'
  BY NextTyped
<1>3. QED
  BY <1>1, <1>2, InitTyped, SettingsOnTheirWay, PTL DEF Spec, CommandsUnderstood
=============================================================================
