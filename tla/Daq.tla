-------------------------------- MODULE Daq --------------------------------
(***************************************************************************)
(* DAQ and Controller of src/servers/daqsrv on their two threads, with the *)
(* accesses to the board they make through src/servers/sis_quick_usb: the  *)
(* main thread runs the callback of the Server and the function that the   *)
(* worker posts to it, the worker runs controller_service.                 *)
(*                                                                         *)
(* The Server and the board are the environment. Init leaves open whether  *)
(* a Server listens and whether the device is open: in the program as it   *)
(* stands neither is so (nothing calls Server::start_async_accept or       *)
(* Controller::connect_to_daq), and then all that is left is the end, for  *)
(* which see DestructorReturns. What a settings message does is for a      *)
(* Server that is started, what a set-up does for a device that is open.   *)
(* No option sets daq_version (main.cpp, l.196, names it without a value): *)
(* it is what memory holds, of which the check of l.252 lets 1 and 2 pass. *)
(*                                                                         *)
(* The two threads interleave at every access to the FPGA of version 2 and *)
(* around the commands of version 1, which both build in one array of the  *)
(* Controller without a lock: what mixed builds leave there is any of      *)
(* Mixed. The six accesses of set_default_quickusb_settings, to nothing    *)
(* that is modelled, are one step. The operations of the timer, which both *)
(* use without a lock, and the copying of the settings are atomic.         *)
(***************************************************************************)
EXTENDS DaqCommands, FiniteSets

CONSTANTS
    Options,    \* the settings a command line gives
    Settings,   \* the settings a message brings
    Junk,       \* bytes found where write_fpga reads the value it writes
    Mixed,      \* what two builds at once may leave in mo_command_data
    StackRoom,  \* the sizes of a read, with read_multiple, that a stack has room for
    MaxUpdates, \* bound: settings messages
    MaxTasks    \* bound: tasks of the worker when settings come in

ASSUME DaqAssumption ==
    /\ Options \subseteq SettingsType /\ Settings \subseteq SettingsType
    /\ \A s \in Options : s.sample_time \in SampleTimes     \* main.cpp, l.250
    /\ Junk \subseteq 0..255 /\ Mixed \subseteq Seq(0..255) /\ StackRoom \subseteq UInt32
    /\ MaxUpdates \in Nat /\ MaxTasks \in Nat

VARIABLES
    setting,    \* of the run: daq_version, a device that is open, a Server that
                \* listens, a build that keeps the loop of l.265 of controller.cpp
    process,    \* the process
    main,       \* what the main thread does
    worker,     \* how far worker_thread has got
    steps,      \* of each thread: what is left of the set-up it is in
    value,      \* of each thread: the local variable of the set-up
    mixed,      \* the threads whose commands were disturbed as they were built
    messages,   \* the settings that came in: the last one is daq_settings
    members,    \* the settings of the Controller
    connected,  \* Controller::connected
    timer,      \* Controller::timer: pending waits, and whether they end at once
    tasks,      \* the queue of controller_service
    board       \* the registers of the board, and the commands it got last

vars == <<setting, process, main, worker, steps, value, mixed, messages, members,
          connected, timer, tasks, board>>

Thread == {"main", "worker"}
Step == {"settings", "build", "commands", "asics", "scan", "rearm"} \X {""}
        \cup {"write", "check"} \X Registers

Reactor == [op |-> "reactor"]   \* asio's own entry: collects what is due
Aborted == [op |-> "aborted"]   \* a wait that was cancelled
Scan == [op |-> "scan"]         \* a wait that ended
Update(s) == [op |-> "update", settings |-> s]
Tasks == {Reactor, Aborted, Scan} \cup {Update(s) : s \in Settings}

\* MUTANT of Stored: the numbers of a message keep their width.
storedWhole(s) == s

\* number_of_asics and ms_buff of the Controller are chars.
Stored(s) == [s EXCEPT !.number_of_asics = Byte(@), !.ms_buff = Byte(@)]

DaqTypeOK ==
    /\ setting \in [version : {1, 2}, open : BOOLEAN, listens : BOOLEAN, loops : BOOLEAN]
    /\ process \in {"running", "exited"}
    /\ main \in {"start", "run", "lambda", "join"}
    /\ worker \in {"start", "assigned", "running"}
    /\ steps \in [Thread -> Seq(Step)]
    /\ value \in [Thread -> 0..255]
    /\ mixed \subseteq Thread
    /\ messages \in Seq(Settings) /\ Len(messages) <= MaxUpdates
    /\ members \in SettingsType
    /\ members.number_of_asics \in 0..255 /\ members.ms_buff \in 0..255
    /\ connected \in BOOLEAN
    /\ timer.waits \in 0..1 /\ timer.soon \in BOOLEAN
    /\ tasks \in Seq(Tasks)
    /\ board.registers \in [Registers -> 0..255]
    /\ board.command \in Seq(0..255)

Init ==
    /\ setting \in [version : {1, 2}, open : BOOLEAN, listens : BOOLEAN, loops : BOOLEAN]
    /\ process = "running" /\ main = "start" /\ worker = "start"
    /\ steps = [t \in Thread |-> <<>>] /\ value = [t \in Thread |-> 0]
    /\ mixed = {} /\ messages = <<>>
    /\ members \in {Stored(s) : s \in Options}
    /\ connected = FALSE
    /\ timer = [waits |-> 0, soon |-> FALSE]
    /\ tasks = <<Reactor>>
    /\ board = [registers |-> [r \in Registers |-> 0], command |-> <<>>]

-----------------------------------------------------------------------------
(* The timer of the Controller, on the queue q of controller_service.      *)

Cancelled(q, waits) == q \o [i \in 1..waits |-> Aborted]

\* MUTANT of start_scan_timer: the wait that is pending is not cancelled.
startTimerAgain(soon, q) ==
    /\ timer' = [waits |-> timer.waits + 1, soon |-> soon]
    /\ tasks' = q

\* expires_after cancels the wait that is pending, if there is one.
start_scan_timer(soon, q) ==
    /\ timer' = [waits |-> 1, soon |-> soon]
    /\ tasks' = Cancelled(q, timer.waits)

\* MUTANT of start_scanning: after a failed read no timer is started.
scanStopsOnError(q) ==
    \/ start_scan_timer(TRUE, q)
    \/ tasks' = q /\ UNCHANGED timer

\* Scanning goes on at once after a read, in a second after a failed one or in the
\* test mode. (It begins with `connected` set.)
start_scanning(q) == \E soon \in BOOLEAN : start_scan_timer(soon, q)

-----------------------------------------------------------------------------
(* A set-up of the board, which update_settings does on either thread.     *)

\* What initialize_daq_version_1 and _2 do, between the settings of the device and
\* the first scan.
SetUp ==
    IF setting.version = 1
    THEN << <<"settings", "">>, <<"build", "">>, <<"commands", "">>,
            <<"scan", "">>, <<"rearm", "">> >>
    ELSE << <<"settings", "">>, <<"asics", "">>,
            <<"write", "ASICNUM">>, <<"check", "ASICNUM">>,
            <<"write", "MSBUFF">>, <<"check", "MSBUFF">>,
            <<"write", "PAREG">>, <<"check", "PAREG">>,
            <<"write", "CONFIG">>, <<"check", "CONFIG">>,
            <<"write", "STRT_RST">>, <<"check", "STRT_RST">>,
            <<"scan", "">>, <<"rearm", "">> >>

At(t, op, r) == process = "running" /\ steps[t] # <<>> /\ Head(steps[t]) = <<op, r>>

\* The threads but t that are between the start and the end of their commands.
Building(t) == {u \in Thread \ {t} : At(u, "commands", "")}

\* The start of update_settings on thread t, where q is left in the queue. The
\* members change under a thread that builds its commands from them.
update_settings(t, s, q) ==
    /\ tasks' = Cancelled(q, timer.waits)
    /\ timer' = [timer EXCEPT !.waits = 0]
    /\ members' = Stored(s)
    /\ mixed' = mixed \cup Building(t)
    /\ steps' = [steps EXCEPT ![t] = SetUp]

Done(t) == steps' = [steps EXCEPT ![t] = Tail(@)]

unchangedAll == <<setting, main, worker, messages>>

\* Nothing is left to do when the process has ended.
Exit ==
    /\ process' = "exited"
    /\ steps' = [t \in Thread |-> <<>>] /\ value' = [t \in Thread |-> 0]
    /\ mixed' = {}
    /\ timer' = [waits |-> 0, soon |-> FALSE]
    /\ tasks' = <<Reactor>>

\* The settings of the device are put right: only one that is open has any. Of the
\* first one what is read back is not compared (l.90 assigns).
set_default_quickusb_settings(t) ==
    /\ At(t, "settings", "") /\ setting.open
    /\ Done(t)
    /\ UNCHANGED <<unchangedAll, process, value, mixed, members, connected, timer, tasks, board>>

\* mi_data_len is set back. A thread that is at its commands goes on in the same
\* array, and what both of them get is mixed.
daqv1_start_commanding(t) ==
    /\ At(t, "build", "")
    /\ Done(t)
    /\ mixed' = IF Building(t) = {} THEN mixed ELSE Thread
    /\ UNCHANGED <<unchangedAll, process, value, members, connected, timer, tasks, board>>

\* The commands are built, unless the program kept the loop that never ends, and
\* written, with success or not.
initialize_daq_version_1(t) ==
    /\ At(t, "commands", "") /\ ~setting.loops
    /\ Done(t)
    /\ mixed' = mixed \ {t}
    /\ \E data \in {CommandData(members)} \cup (IF t \in mixed THEN Mixed ELSE {}) :
          board' \in {board, [board EXCEPT !.command = data]}
    /\ UNCHANGED <<unchangedAll, process, value, members, connected, timer, tasks>>

\* The first read of initialize_daq_version_2, after the local is computed.
read_asics(t) ==
    /\ At(t, "asics", "")
    /\ Done(t)
    /\ value' = [value EXCEPT ![t] = Meant(members, "ASICNUM")]
    /\ UNCHANGED <<unchangedAll, process, mixed, members, connected, timer, tasks, board>>

\* write_fpga(r): the byte the device gets is not the one that was given but the
\* first of an array whose second one was assigned to.
write_fpga(t, r) ==
    /\ At(t, "write", r)
    /\ r = "PAREG" => members.sample_time \in SampleTimes
    /\ Done(t)
    /\ value' = [value EXCEPT ![t] = IF r = "ASICNUM" THEN @ ELSE Meant(members, r)]
    /\ \E byte \in Junk \cup {value'[t]} : board' = [board EXCEPT !.registers[r] = byte]
    /\ UNCHANGED <<unchangedAll, process, mixed, members, connected, timer, tasks>>

\* MUTANT of Verified: PAREG is written and not compared.
verifiedNotPareg(t, r, byte) ==
    CASE r = "ASICNUM" -> byte # 0
      [] r = "MSBUFF" -> byte = AsChar(members.ms_buff)
      [] r = "PAREG" -> TRUE
      [] OTHER -> byte = value[t]

\* What initialize_daq_version_2 asks of the byte it reads back: of ASICNUM only
\* that it is not 0, of MSBUFF that it is the member as it is by now.
Verified(t, r, byte) ==
    CASE r = "ASICNUM" -> byte # 0
      [] r = "MSBUFF" -> byte = AsChar(members.ms_buff)
      [] OTHER -> byte = value[t]

read_fpga(t, r) ==
    /\ At(t, "check", r)
    /\ Verified(t, r, board.registers[r])
    /\ Done(t)
    /\ value' = [value EXCEPT ![t] = 0]
    /\ UNCHANGED <<unchangedAll, process, mixed, members, connected, timer, tasks, board>>

\* verify_truth: an access that fails, a byte that is not the one expected and a
\* sample time without a PAREG all end the process.
verify_truth(t) ==
    /\ process = "running"
    /\ steps[t] # <<>>
    /\ Head(steps[t])[1] \notin {"build", "commands", "scan", "rearm"}
    /\ Exit
    /\ UNCHANGED <<setting, main, worker, messages, members, connected, board>>

Free == process = "running" /\ worker = "running" /\ steps["worker"] = <<>>

\* A scan begins, at the end of a set-up or when the wait for it has ended.
Scans(t) == At(t, "scan", "") \/ (t = "worker" /\ Free /\ Head(tasks) = Scan)

\* A settings message asks for more than the stack of a thread has room for, and a
\* scan reads into an array that is on it.
overflow_stack(t) ==
    /\ Scans(t)
    /\ members.buffer_size \notin StackRoom
    /\ Exit
    /\ UNCHANGED <<setting, main, worker, messages, members, connected, board>>

\* The end of setup_daq.
finish_setup(t) ==
    /\ At(t, "scan", "") /\ members.buffer_size \in StackRoom
    /\ Done(t)
    /\ connected' = TRUE
    /\ start_scanning(tasks)
    /\ UNCHANGED <<unchangedAll, process, value, mixed, members, board>>

\* The end of update_settings.
rearm(t) ==
    /\ At(t, "rearm", "")
    /\ Done(t)
    /\ start_scan_timer(TRUE, tasks)
    /\ UNCHANGED <<unchangedAll, process, value, mixed, members, connected, board>>

SetUpStep(t) ==
    \/ set_default_quickusb_settings(t) \/ daqv1_start_commanding(t)
    \/ initialize_daq_version_1(t) \/ read_asics(t)
    \/ \E r \in Registers : write_fpga(t, r) \/ read_fpga(t, r)
    \/ verify_truth(t) \/ overflow_stack(t) \/ finish_setup(t) \/ rearm(t)

-----------------------------------------------------------------------------
(* The worker.                                                             *)

\* The Controller is made, if there is a data.dat, and assigned to `controller`;
\* the main thread, which reads that without a lock, sees it from now on.
MakeController ==
    /\ process = "running" /\ worker = "start" /\ main # "start"
    /\ \/ worker' = "assigned" /\ UNCHANGED process
       \/ process' = "exited" /\ UNCHANGED worker
    /\ UNCHANGED <<setting, main, steps, value, mixed, messages, members, connected,
                   timer, tasks, board>>

\* The function for the main thread is posted, and controller_service run: its work
\* guard keeps it from ever returning.
RunService ==
    /\ process = "running" /\ worker = "assigned"
    /\ worker' = "running"
    /\ UNCHANGED <<setting, process, main, steps, value, mixed, messages, members, connected,
                   timer, tasks, board>>

\* The worker takes the next task. The wait of a timer that has ended becomes a
\* task when the reactor's turn comes; without other tasks it waits for that.
RunUpdate ==
    /\ Free /\ Head(tasks).op = "update"
    /\ update_settings("worker", Head(tasks).settings, Tail(tasks))
    /\ UNCHANGED <<unchangedAll, process, value, connected, board>>

RunScan ==
    /\ Free /\ Head(tasks) = Scan /\ members.buffer_size \in StackRoom
    /\ start_scanning(Tail(tasks))
    /\ UNCHANGED <<unchangedAll, process, steps, value, mixed, members, connected, board>>

RunAborted ==
    /\ Free /\ Head(tasks) = Aborted
    /\ tasks' = Tail(tasks)
    /\ UNCHANGED <<unchangedAll, process, steps, value, mixed, members, connected, timer, board>>

RunReactor ==
    /\ Free /\ Head(tasks) = Reactor
    /\ \E ended \in BOOLEAN :
          /\ ended => timer.waits > 0
          /\ ended \/ (Len(tasks) > 1 /\ (timer.soon => timer.waits = 0))
          /\ timer' = [timer EXCEPT !.waits = IF ended THEN 0 ELSE @]
          /\ tasks' = Tail(tasks)
                      \o (IF ended THEN [i \in 1..timer.waits |-> Scan] ELSE <<>>)
                      \o <<Reactor>>
    /\ UNCHANGED <<unchangedAll, process, steps, value, mixed, members, connected, board>>

-----------------------------------------------------------------------------
(* The main thread.                                                        *)

\* DAQ's constructor has started the worker; io_service.run() begins.
StartMain ==
    /\ process = "running" /\ main = "start"
    /\ main' = "run"
    /\ UNCHANGED <<setting, process, worker, steps, value, mixed, messages, members, connected,
                   timer, tasks, board>>

\* MUTANT of SettingsCallback: the update is posted before daq_settings is assigned.
callbackPostsFirst(s) ==
    /\ process = "running" /\ main \in {"run", "lambda"} /\ steps["main"] = <<>>
    /\ setting.listens
    /\ Len(messages) < MaxUpdates /\ Len(tasks) <= MaxTasks
    /\ messages' = Append(messages, s)
    /\ tasks' = IF worker = "start" \/ messages = <<>> THEN tasks
                ELSE Append(tasks, Update(Last(messages)))
    /\ UNCHANGED <<setting, process, main, worker, steps, value, mixed, members, connected,
                   timer, board>>

\* The callback of DAQ for settings that have come in: the worker is told when
\* `controller` is seen to be set.
SettingsCallback(s) ==
    /\ process = "running" /\ main \in {"run", "lambda"} /\ steps["main"] = <<>>
    /\ setting.listens
    /\ Len(messages) < MaxUpdates /\ Len(tasks) <= MaxTasks
    /\ messages' = Append(messages, s)
    /\ tasks' = IF worker = "start" THEN tasks ELSE Append(tasks, Update(s))
    /\ UNCHANGED <<setting, process, main, worker, steps, value, mixed, members, connected,
                   timer, board>>

\* The function the worker posted: settings that came in before it are applied here,
\* on the main thread.
RunPosted ==
    /\ process = "running" /\ main = "run" /\ worker = "running"
    /\ main' = "lambda"
    /\ IF messages = <<>> THEN UNCHANGED <<steps, mixed, members, timer, tasks>>
       ELSE update_settings("main", Last(messages), tasks)
    /\ UNCHANGED <<setting, process, worker, value, messages, connected, board>>

\* io_service.run() returns when it has nothing left, which is at once when no
\* Server listens; then ~DAQ joins the worker before it stops its service.
EndMain ==
    /\ process = "running" /\ main \in {"run", "lambda"} /\ steps["main"] = <<>>
    /\ ~setting.listens /\ (main = "run" => worker # "running")
    /\ main' = "join"
    /\ UNCHANGED <<setting, process, worker, steps, value, mixed, messages, members, connected,
                   timer, tasks, board>>

-----------------------------------------------------------------------------
Worker ==
    \/ MakeController \/ RunService \/ RunUpdate \/ RunScan \/ RunAborted \/ RunReactor
    \/ SetUpStep("worker")

Main ==
    \/ StartMain \/ RunPosted \/ EndMain
    \/ SetUpStep("main")

Next == Worker \/ Main \/ \E s \in Settings : SettingsCallback(s)

Spec == Init /\ [][Next]_vars

\* Both threads go on, accesses to the board return and a wait of a second ends.
\* Nothing makes a message come.
FairSpec == Spec /\ WF_vars(Worker) /\ WF_vars(Main)

-----------------------------------------------------------------------------
\* Nothing more is to happen to the settings that have come in.
Quiet ==
    /\ process = "running"
    /\ main = "lambda" /\ worker = "running"
    /\ \A t \in Thread : steps[t] = <<>>
    /\ \A i \in DOMAIN tasks : tasks[i].op # "update"

\* "if we ever have a situation where the server object were to be created and
\* connected and sent a settings update before we create our controller object in
\* a different thread, we'd know to update" (daq.hpp:36): no settings are lost and
\* none replace later ones, though two threads apply them.
LastSettingsApplied ==
    Quiet /\ messages # <<>> => members = Stored(Last(messages))

\* A version 2 board that is scanned has in its registers what the settings of the
\* Controller ask for, however the set-ups of two threads mingle and whatever
\* write_fpga sent; all but ASICNUM, which is not compared.
\* (initialize_daq_version_2)
BoardConfigured ==
    Quiet /\ connected /\ setting.version = 2 =>
        \A r \in Registers \ {"ASICNUM"} : board.registers[r] = Meant(members, r)

\* A version 1 board makes of the commands it gets the settings they were built
\* from, if these have room in them and no set-up of the other thread came in
\* between. (daqv1_*)
CommandsUnderstood ==
    [][\A t \in Thread \ mixed :
         initialize_daq_version_1(t) /\ board' # board /\ InRange(members) =>
             Understood(board'.command) = [number_of_asics |-> members.number_of_asics,
                                           buffer_size     |-> members.buffer_size,
                                           sample_time     |-> members.sample_time]]_vars

\* A Controller never has two chains of scans, however often it is set up: one wait
\* is pending at most, and one that has ended to be handled. (start_scan_timer)
OneScanChain ==
    /\ timer.waits <= 1
    /\ \A i, j \in DOMAIN tasks : tasks[i] = Scan /\ tasks[j] = Scan => i = j

\* "immediately post", "hold off a bit": a Controller that is connected scans again
\* and again, whatever the reads give and however often it is set up.
ScansGoOn ==
    connected ~> process = "exited" \/ (Free /\ Head(tasks) = Scan)

\* ~DAQ stops the service of the worker (daq.cpp:18), and so comes to its end: the
\* worker, which only that ends, can be joined.
DestructorReturns == main = "join" ~> process = "exited"
=============================================================================
