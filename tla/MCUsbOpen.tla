------------------------------- MODULE MCUsbOpen -------------------------------
(***************************************************************************)
(* A small bus, command lines and names of archives for Opening.           *)
(***************************************************************************)
EXTENDS Opening, TLC

-----------------------------------------------------------------------------
(* A bus with two places and the devices odin4 has to tell apart.          *)
Endpoint(in) == [bulk |-> TRUE, in |-> in]
Interrupt == [bulk |-> FALSE, in |-> TRUE]
Pair == <<Endpoint(TRUE), Endpoint(FALSE)>>
Setting(n, class, eps) == [number |-> n, class |-> class, endpoints |-> eps]
Device(vid, pid, settings) ==
    [vid |-> vid, pid |-> pid, settings |-> settings, drivers |-> {s.number : s \in {settings[n] : n \in 1..Len(settings)}}]

\* Download Mode: the modem interface of CDC and its data interface.
Download == Device("04e8", "685d", <<Setting(0, 2, <<Interrupt>>), Setting(1, 10, Pair)>>)
\* Download Mode with an unknown product id.
NewModel == Device("04e8", "1234", <<Setting(0, 10, Pair)>>)
\* A running phone: bulk endpoints for file transfer, and more of them.
Phone == Device("04e8", "6860", <<Setting(0, 6, Pair \o <<Interrupt>>), Setting(1, 255, Pair \o Pair)>>)
\* Another vendor's serial adapter.
Other == Device("0403", "6001", <<Setting(0, 255, Pair)>>)

MCDevices == {Download, NewModel, Phone, Other}

MCCriteria == {NoWish, [NoWish EXCEPT !.vid = {"0403"}], [NoWish EXCEPT !.pid = {"6860"}], [NoWish EXCEPT !.interface = {1}]}

-----------------------------------------------------------------------------
(* Every command line of up to three of all the words and of up to four of *)
(* some of them, with none, one, two and three devices in download mode.   *)
AllWords == {"-h", "-v", "-w", "-l", "--quiet", "--verbose", "--debug", "--reboot", "--redownload",
    "--check-only", "--allow-unknown", "--vid", "--pid", "--usb-interface", "-a", "-b", "-c", "-s",
    "-u", "-d", "--bad", "04e8", "0x4E8", "7", "300", ""}
FewWords == {"--quiet", "--debug", "--reboot", "--vid", "-a", "-d", "04e8"}
UpTo(n, words) == UNION {[1..m -> words] : m \in 0..n}
AllLines == UpTo(3, AllWords) \cup UpTo(4, FewWords)
Hex == [w \in {"04e8", "0x4E8", "7", "300"} |->
    CASE w = "7" -> 7 [] w = "300" -> 768 [] OTHER -> 1256]
Ints == [w \in {"7", "300"} |-> IF w = "7" THEN 7 ELSE 300]
Plugged(p, vid, pid, faces, known) ==
    [path |-> p, vid |-> vid, pid |-> pid, interfaces |-> faces, known |-> known]
AllBuses == {{}, {Plugged("p1", 1256, 26113, {0}, TRUE)},
    {Plugged("p1", 768, 26113, {7}, TRUE), Plugged("p2", 1256, 7, {1, 7}, FALSE),
     Plugged("p3", 1256, 768, {1}, TRUE)},
    {Plugged("p1", 1256, 26113, {0}, TRUE), Plugged("p2", 1256, 768, {7}, TRUE)}}

\* Every device type of four characters and some of five, some with slashes or
\* ended by a NUL, and names of archives
\* of three models, one the beginning of the other, in the ways they are written.
AllReported ==
    [1..4 -> {"S", "M", "m", "9", "8", "-"}] \cup [1..5 -> {"S", "M", "9", "-"}]
        \cup [1..3 -> {"9", "8", "/", "\\", "0"}]
AllNames == {<<"9", "8">>, <<"m", "9", "-", "8", "M">>, <<"S", "-", "M", "9", "8">>,
    <<"S", "M", "9", "S", "8">>, <<"S", "M", "9", ".">>, <<"8", "9", " ", "-">>,
    <<"9", "8", "s">>, <<"S", "M", "-", "9", " ", "8", "S">>}

ASSUME Line!CommandLineAssumption
ASSUME Model!ModelMatchAssumption
=============================================================================
