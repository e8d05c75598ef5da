----------------------------- MODULE CommandLine -----------------------------
(***************************************************************************)
(* process_arguments_and_run up to run_for_device: the arguments are read  *)
(* one by one, some of them act at once, and a device is chosen if none is *)
(* named.  What the run does with the configuration is FlashSession's; how *)
(* devices are found is UsbOpen's.                                         *)
(***************************************************************************)
EXTENDS Integers, Sequences, FiniteSets, FiniteSetsExt

CONSTANTS
    CommandLines, \* sequences of words
    HexOf,        \* the words parse_hex_u16 accepts, with their values
    IntOf,        \* the words parse_int accepts, with their values
    Dashed,       \* words that begin with a dash and name no option
    Buses         \* sets of devices [path, vid, pid, interfaces, known]

\* The options: those that answer at once, the switches, and those with a value and
\* its place in the configuration.
Questions == {"-h", "-v", "-w", "-l"}
Switches ==
    {"--quiet", "--verbose", "--debug", "--reboot", "--redownload", "--check-only", "--allow-unknown"}
FieldOf ==
    [w \in {"-b", "-a", "-c", "-s", "-u", "-d", "--vid", "--pid", "--usb-interface"} |->
        CASE w = "-b" -> "bootloader" [] w = "-a" -> "ap" [] w = "-c" -> "cp" [] w = "-s" -> "csc"
          [] w = "-u" -> "ums" [] w = "-d" -> "device_path"
          [] w = "--vid" -> "vid" [] w = "--pid" -> "pid" [] w = "--usb-interface" -> "usb_interface"]

\* A field without a value.
Empty == ""

CommandLineAssumption ==
    /\ CommandLines \subseteq Seq(STRING)
    /\ \A w \in DOMAIN HexOf : w # Empty /\ HexOf[w] \in 0..(2^16 - 1)
    /\ \A w \in DOMAIN IntOf : w # Empty /\ IntOf[w] \in Int
    /\ Dashed \cap (Questions \cup Switches \cup DOMAIN FieldOf) = {}
    /\ \A b \in Buses : IsFiniteSet(b)

VARIABLES
    args,    \* argv without the program's name
    bus,     \* what is plugged in
    i,       \* the next argument
    cfg,     \* OdinConfig
    level,   \* g_level
    devices, \* what list_download_devices returned
    pc,      \* "parse", "checks", "select", "run" for run_for_device, "exit"
    rc

vars == <<args, bus, i, cfg, level, devices, pc, rc>>

Unset == -1
SamsungVid == 1256
Archives == {"bootloader", "ap", "cp", "csc", "ums"}

Default ==
    [bootloader |-> Empty, ap |-> Empty, cp |-> Empty, csc |-> Empty, ums |-> Empty, device_path |-> Empty,
     reboot |-> FALSE, redownload |-> FALSE, dry_run |-> FALSE, allow_unknown |-> FALSE,
     quiet |-> FALSE, verbose |-> FALSE, debug |-> FALSE,
     vid |-> Unset, pid |-> Unset, usb_interface |-> Unset]

Init ==
    /\ args \in CommandLines
    /\ bus \in Buses
    /\ i = 1 /\ cfg = Default /\ level = "Info" /\ devices = {}
    /\ pc = "parse" /\ rc = "none"

Arg == args[i]
Parsing == pc = "parse" /\ i <= Len(args)
Exit(code) == pc' = "exit" /\ rc' = code
HasFirmware(c) == \E a \in Archives : c[a] # Empty

\* list_download_devices with criteria_from_config.  "interfaces" are the numbers of
\* those with bulk endpoints both ways, "known" is a known product or CDC data.
Wanted(d, vid, pid, interface) ==
    /\ d.vid = IF vid = Unset THEN SamsungVid ELSE vid
    /\ pid # Unset => d.pid = pid
    /\ d.interfaces # {} /\ (interface # Unset => interface \in d.interfaces)
    /\ vid = Unset /\ pid = Unset => d.known
Found(c) == {d \in bus : Wanted(d, c.vid, c.pid, c.usb_interface)}

LevelOf(c) ==
    IF c.debug THEN "Debug" ELSE IF c.verbose THEN "Verbose" ELSE IF c.quiet THEN "Error" ELSE "Info"

-----------------------------------------------------------------------------
(* Arguments.                                                              *)

\* -h, -v and -w answer at once.
Inform ==
    /\ Parsing /\ Arg \in {"-h", "-v", "-w"}
    /\ Exit("Success")
    /\ UNCHANGED <<args, bus, i, cfg, level, devices>>

Quieter(c) == [c EXCEPT !.quiet = TRUE, !.verbose = FALSE, !.debug = FALSE]

Flags ==
    [w \in Switches |->
        CASE w = "--quiet" -> Quieter(cfg)
          [] w = "--verbose" -> [cfg EXCEPT !.verbose = TRUE, !.quiet = FALSE]
          [] w = "--debug" -> [cfg EXCEPT !.debug = TRUE, !.verbose = TRUE, !.quiet = FALSE]
          [] w = "--reboot" -> [cfg EXCEPT !.reboot = TRUE]
          [] w = "--redownload" -> [cfg EXCEPT !.redownload = TRUE]
          [] w = "--check-only" -> [cfg EXCEPT !.dry_run = TRUE]
          [] w = "--allow-unknown" -> [cfg EXCEPT !.allow_unknown = TRUE]]

SetFlag ==
    /\ Parsing /\ Arg \in Switches
    /\ cfg' = Flags[Arg] /\ i' = i + 1
    /\ UNCHANGED <<args, bus, level, devices, pc, rc>>

ValueOk(option, w) ==
    CASE option \in {"--vid", "--pid"} -> w \in DOMAIN HexOf
      [] option = "--usb-interface" -> w \in DOMAIN IntOf /\ IntOf[w] \in 0..255
      [] OTHER -> TRUE

ValueOf(option, w) ==
    CASE option \in {"--vid", "--pid"} -> HexOf[w]
      [] option = "--usb-interface" -> IntOf[w]
      [] OTHER -> w

\* Mutant of AfterValue: the value is read again as an option.
AfterValueAgain == i + 1

AfterValue == i + 2

\* The next argument is the value, whatever it looks like.
SetValue ==
    /\ Parsing /\ Arg \in DOMAIN FieldOf
    /\ IF i + 1 <= Len(args) /\ ValueOk(Arg, args[i + 1])
       THEN /\ cfg' = [cfg EXCEPT ![FieldOf[Arg]] = ValueOf(Arg, args[i + 1])]
            /\ i' = AfterValue /\ UNCHANGED <<pc, rc>>
       ELSE Exit("Usage") /\ UNCHANGED <<cfg, i>>
    /\ UNCHANGED <<args, bus, level, devices>>

\* -l lists with the selection of the arguments before it.
ListDevices ==
    /\ Parsing /\ Arg = "-l"
    /\ level' = LevelOf(cfg)
    /\ devices' = Found(cfg)
    /\ Exit("Success")
    /\ UNCHANGED <<args, bus, i, cfg>>

UnknownOption ==
    /\ Parsing /\ Arg \in Dashed
    /\ Exit("Usage")
    /\ UNCHANGED <<args, bus, i, cfg, level, devices>>

Options == Questions \cup Switches \cup DOMAIN FieldOf \cup Dashed

\* Any other word is passed over.
PassOver ==
    /\ Parsing /\ Arg \notin Options
    /\ i' = i + 1
    /\ UNCHANGED <<args, bus, cfg, level, devices, pc, rc>>

-----------------------------------------------------------------------------
(* Checks and the choice of the device.                                    *)

EndOfArguments ==
    /\ pc = "parse" /\ i > Len(args)
    /\ level' = LevelOf(cfg) /\ pc' = "checks"
    /\ UNCHANGED <<args, bus, i, cfg, devices, rc>>

Senseless ==
    \/ ~HasFirmware(cfg) /\ ~cfg.reboot /\ ~cfg.redownload
    \/ cfg.dry_run /\ ~HasFirmware(cfg)

CheckConfig ==
    /\ pc = "checks"
    /\ IF Senseless THEN Exit("Usage")
       ELSE pc' = (IF cfg.device_path = Empty THEN "select" ELSE "run") /\ UNCHANGED rc
    /\ UNCHANGED <<args, bus, i, cfg, level, devices>>

Ambiguous(found) == Cardinality(found) > 1

SelectDevice ==
    /\ pc = "select"
    /\ devices' = Found(cfg)
    /\ IF devices' = {} \/ Ambiguous(devices')
       THEN Exit("Usb") /\ UNCHANGED cfg
       ELSE /\ \E d \in devices' : cfg' = [cfg EXCEPT !.device_path = d.path]
            /\ pc' = "run" /\ UNCHANGED rc
    /\ UNCHANGED <<args, bus, i, level>>

Next ==
    \/ Inform \/ SetFlag \/ SetValue \/ ListDevices \/ UnknownOption \/ PassOver
    \/ EndOfArguments \/ CheckConfig \/ SelectDevice

Spec == Init /\ [][Next]_vars

-----------------------------------------------------------------------------
(* Properties.                                                             *)

\* In front of argument k stand n words in a row that would take a value, no more.
Behind(k, n) ==
    /\ \A j \in (k - n)..(k - 1) : args[j] \in DOMAIN FieldOf
    /\ k - n > 1 => args[k - n - 1] \notin DOMAIN FieldOf

\* Argument k is the value of the option before it: every second of the words in a
\* row is one, and so is what follows them if their number is odd.
IsValue(k) == \E n \in 1..(k - 1) : n % 2 = 1 /\ Behind(k, n)
Uses(words) == {k \in 1..Len(args) : args[k] \in words /\ ~IsValue(k)}
LastValue(option) ==
    IF Uses({option}) # {} THEN ValueOf(option, args[Max(Uses({option})) + 1]) ELSE Default[FieldOf[option]]

\* The run gets what the arguments say, whatever their order: of each option the
\* last value, and a switch if and only if it stands where an option is read.
ConfigIsTheArguments ==
    pc = "run" =>
        /\ \A w \in DOMAIN FieldOf \ {"-d"} : cfg[FieldOf[w]] = LastValue(w)
        /\ cfg.dry_run = (Uses({"--check-only"}) # {})
        /\ cfg.allow_unknown = (Uses({"--allow-unknown"}) # {})
        /\ cfg.reboot = (Uses({"--reboot"}) # {})
        /\ cfg.redownload = (Uses({"--redownload"}) # {})

\* A run has something to do, checks only if there is an archive to check, and is
\* not begun after an argument that is not understood or asks for something else.
RunIsSensible ==
    pc = "run" =>
        /\ HasFirmware(cfg) \/ (~cfg.dry_run /\ (cfg.reboot \/ cfg.redownload))
        /\ Uses(Questions \cup Dashed) = {}

\* The device is the one named, or the only one there is of those asked for.
DeviceIsChosen ==
    LET fits == {d \in bus :
            Wanted(d, LastValue("--vid"), LastValue("--pid"), LastValue("--usb-interface"))}
    IN  pc = "run" =>
            IF LastValue("-d") # Empty THEN cfg.device_path = LastValue("-d")
            ELSE {d.path : d \in fits} = {cfg.device_path}

\* README, "Core Features": "Supports flashing multiple devices sequentially when no
\* specific device is targeted with `-d`" - a run ends for want of a device only
\* when none of those asked for is there.
SeveralAreServed == pc = "exit" /\ rc = "Usb" => devices = {}

\* Only errors are shown if and only if --quiet is the last word on it.
QuietIsLast ==
    LET said == Uses({"--quiet", "--verbose", "--debug"})
    IN  pc = "run" => (level = "Error" <=> said # {} /\ args[Max(said)] = "--quiet")
=============================================================================
