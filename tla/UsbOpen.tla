-------------------------------- MODULE UsbOpen --------------------------------
(***************************************************************************)
(* Finding a device in Download Mode and holding it: list_download_devices,*)
(* open_device and the destructor of UsbDevice, against a bus on which     *)
(* devices come and go between any two calls and every libusb call may     *)
(* fail.  What is at stake is what the process holds: the device list, the *)
(* handle, the claimed interface and the kernel driver it has detached.    *)
(***************************************************************************)
EXTENDS Naturals, Sequences, FiniteSets

CONSTANTS
    Paths,      \* bus and address of a device: /dev/bus/usb/BBB/AAA
    Devices,    \* the devices that may be plugged in
    Criteria,   \* --vid, --pid and --usb-interface, as UsbSelectionCriteria
    NoDevice,   \* an empty place on the bus
    NoInterface, \* nothing selected yet
    Replugs,    \* bound: how often the bus changes
    Opens       \* bound: calls of open_device on one UsbDevice (odin4 makes one)

(***************************************************************************)
(* A device is [vid, pid, settings, drivers]: settings are its alternate   *)
(* settings in descriptor order, [number, class, endpoints], where an      *)
(* endpoint is [bulk, in] and its position stands for its address; drivers *)
(* are the interfaces a kernel driver is bound to.  A criterion is the set *)
(* of the one value it asks for, empty if it is not given.                 *)
(***************************************************************************)
Samsung == "04e8"
DownloadPids == {"6601", "685d", "68c3"}
CdcData == 10

ASSUME UsbAssumption ==
    /\ NoDevice \notin Devices
    /\ Replugs \in Nat /\ Opens \in Nat \ {0}
    /\ "" \notin Paths /\ "none" \notin Paths
    /\ \A d \in Devices : DOMAIN d = {"vid", "pid", "settings", "drivers"}
    /\ \A c \in Criteria : DOMAIN c = {"vid", "pid", "interface"}

VARIABLES
    bus,        \* the device at each path, or NoDevice
    replugs,    \* how often the bus has changed
    stale,      \* paths that have changed since open_device enumerated them
    drivers,    \* interfaces a kernel driver is bound to: {<<path, number>>}
    crit,       \* the selection criteria of this run
    path,       \* cfg.device_path, "" until one is given or chosen
    listed,     \* value of replugs when list_download_devices returned path
    pc,         \* what the process does next
    context,    \* g_libusb_ctx: "unset", "ready" or "failed"
    list,       \* device_list is held
    chosen,     \* device, interface and endpoints selected by open_device
    handle,     \* a libusb handle is open
    claimed,    \* the interface is claimed
    detached,   \* kernel_driver_detached
    error,      \* last_open_error
    opens,      \* calls of open_device
    readable,   \* what open_device could read of the device at path, see Readings
    astray      \* history: attaching a driver again has failed

world == <<bus, replugs>>
held == <<list, handle, claimed, detached>>
run == <<crit, path, listed>>
vars == <<world, stale, drivers, run, pc, context, chosen, held, error, opens, readable, astray>>

-----------------------------------------------------------------------------
(* Selection, a function of the descriptors and of what can be read of     *)
(* them: libusb_get_device_descriptor may fail, and so may                 *)
(* libusb_get_active_config_descriptor, when there is no best interface.   *)
(* The device with the highest score is not modelled: open_device is given *)
(* a path, and one device at most has it.                                  *)

Readings == {"none", "device", "both"}

Matches(field, want) == want = {} \/ field \in want

BulkOf(s, in) == {k \in 1..Len(s.endpoints) : s.endpoints[k].bulk /\ s.endpoints[k].in = in}
Bulk(s) == BulkOf(s, TRUE) \cup BulkOf(s, FALSE)

MaxOf(S) == CHOOSE k \in S : \A j \in S : j <= k
MinOf(S) == CHOOSE k \in S : \A j \in S : k <= j

\* The alternate settings find_best_interface may take.
Usable(d, c) ==
    {i \in 1..Len(d.settings) :
        /\ Matches(d.settings[i].number, c.interface)
        /\ BulkOf(d.settings[i], TRUE) # {} /\ BulkOf(d.settings[i], FALSE) # {}}

Score(s) ==
    50 + (IF s.class = CdcData /\ Len(s.endpoints) = 2 THEN 100 ELSE 0)
       + (IF Cardinality(Bulk(s)) = 2 THEN 10 ELSE 0)

\* The first of the best ones; of several bulk endpoints the last.
FindBestInterface(d, c) ==
    LET best == MaxOf({Score(d.settings[i]) : i \in Usable(d, c)})
        i == MinOf({j \in Usable(d, c) : Score(d.settings[j]) = best})
    IN  [number |-> d.settings[i].number, class |-> d.settings[i].class,
         ep_in |-> MaxOf(BulkOf(d.settings[i], TRUE)),
         ep_out |-> MaxOf(BulkOf(d.settings[i], FALSE))]

\* Mutant of LooksLikeDownload: an explicit vendor counts as no criterion.
LooksLikeDownloadStrict(d, c) ==
    \/ c.pid # {}
    \/ d.pid \in DownloadPids
    \/ FindBestInterface(d, c).class = CdcData

\* Without --vid and --pid only what looks like Download Mode is matched.
LooksLikeDownload(d, c) ==
    \/ c.pid # {} \/ c.vid # {}
    \/ d.pid \in DownloadPids
    \/ FindBestInterface(d, c).class = CdcData

OfVendor(d, c) == IF c.vid = {} THEN d.vid = Samsung ELSE d.vid \in c.vid

\* What counts for saw_candidate_vendor.
IsCandidate(d, c, reading) == d # NoDevice /\ reading # "none" /\ OfVendor(d, c)

\* The filter of open_device.
Eligible(d, c, reading) ==
    /\ IsCandidate(d, c, reading)
    /\ Matches(d.pid, c.pid)
    /\ reading = "both" /\ Usable(d, c) # {}
    /\ LooksLikeDownload(d, c)

\* The filter of list_download_devices, which is written out a second time.
Listed(d, c, reading) ==
    /\ d # NoDevice /\ reading # "none"
    /\ OfVendor(d, c)
    /\ Matches(d.pid, c.pid)
    /\ reading = "both" /\ Usable(d, c) # {}
    /\ (c.pid = {} /\ c.vid = {}) =>
          d.pid \in DownloadPids \/ FindBestInterface(d, c).class = CdcData

-----------------------------------------------------------------------------
Bound(p, d) == IF d = NoDevice THEN {} ELSE {p} \X d.drivers
DriversOf(b) == UNION {Bound(p, b[p]) : p \in Paths}

NoChoice == [path |-> "", device |-> NoDevice, interface |-> NoInterface]

OpenErrors == {"None", "NoDevice", "NotDownloadMode", "AccessDenied", "Busy", "Other"}

BusOK ==
    /\ bus \in [Paths -> Devices \cup {NoDevice}]
    /\ stale \subseteq Paths
    /\ \A x \in drivers : x[1] \in Paths
    /\ crit \in Criteria
    /\ path \in Paths \cup {""}
    /\ replugs \in 0..Replugs /\ listed \in Nat /\ opens \in 0..Opens

ControlOK ==
    /\ pc \in {"list_download_devices", "open_device", "libusb_open", "kernel_driver",
              "claim_interface", "opened", "failed", "destroyed", "exit"}
    /\ context \in {"unset", "ready", "failed"}
    /\ chosen.path \in Paths \cup {""} /\ chosen.device \in Devices \cup {NoDevice}
    /\ error \in OpenErrors
    /\ readable \in Readings

HoldingOK ==
    /\ {list, handle, claimed, detached, astray} \subseteq BOOLEAN
    /\ claimed \/ detached => handle

TypeOK == BusOK /\ ControlOK /\ HoldingOK

Init ==
    /\ bus \in [Paths -> Devices \cup {NoDevice}]
    /\ replugs = 0 /\ stale = {}
    /\ drivers = DriversOf(bus)
    /\ crit \in Criteria
    /\ path \in Paths \cup {""}
    /\ listed = Replugs + 1
    /\ pc = IF path = "" THEN "list_download_devices" ELSE "open_device"
    /\ context = "unset"
    /\ list = FALSE /\ handle = FALSE /\ claimed = FALSE /\ detached = FALSE
    /\ chosen = NoChoice
    /\ error = "None"
    /\ opens = 0 /\ readable = "both"
    /\ astray = FALSE

\* A device is unplugged, plugged in or exchanged; what the process has
\* claimed or detached there is gone with it.
Replug ==
    /\ pc # "exit"
    /\ replugs < Replugs
    /\ \E p \in Paths, d \in Devices \cup {NoDevice} :
        /\ bus' = [bus EXCEPT ![p] = d]
        /\ drivers' = {x \in drivers : x[1] # p} \cup Bound(p, d)
        /\ stale' = stale \cup {p}
    /\ replugs' = replugs + 1
    /\ UNCHANGED <<run, pc, context, chosen, held, error, opens, readable, astray>>

\* libusb_init is called once; a failure is final.
EnsureLibusbInitialized ==
    IF context = "unset" THEN context' \in {"ready", "failed"} ELSE UNCHANGED context

\* odin4 goes on with the device if it is the only one (process_arguments_and_run);
\* the enumeration may fail, and so may reading any descriptor.
ListDownloadDevices ==
    /\ pc = "list_download_devices"
    /\ EnsureLibusbInitialized
    /\ \/ \E readings \in [Paths -> Readings] :
              LET found == {p \in Paths : Listed(bus[p], crit, readings[p])}
              IN  /\ context' = "ready" /\ Cardinality(found) = 1
                  /\ path' \in found
                  /\ listed' = replugs
                  /\ pc' = "open_device"
       \/ pc' = "destroyed" /\ UNCHANGED <<path, listed>>
    /\ UNCHANGED <<world, stale, drivers, crit, chosen, held, error, opens, readable, astray>>

-----------------------------------------------------------------------------
(* What is given up, and how.                                              *)

Number == chosen.interface.number
Present == chosen.path \notin stale

\* libusb_attach_kernel_driver may fail, and nobody looks.
AttachKernelDriver ==
    \/ ~Present /\ UNCHANGED <<drivers, astray>>
    \/ Present /\ drivers' = drivers \cup {<<chosen.path, Number>>} /\ UNCHANGED astray
    \/ Present /\ astray' = TRUE /\ UNCHANGED drivers

\* Mutant of CloseHandle: the driver is left detached.
CloseHandleOnly ==
    /\ handle' = FALSE /\ claimed' = FALSE /\ detached' = FALSE
    /\ UNCHANGED <<drivers, astray>>

\* The interface is released, the driver attached again, the handle closed.
CloseHandle ==
    /\ handle' = FALSE /\ claimed' = FALSE /\ detached' = FALSE
    /\ IF handle /\ detached THEN AttachKernelDriver ELSE UNCHANGED <<drivers, astray>>

Failed(why) == error' = why /\ pc' = "failed"

AccessOr(others) == \E why \in {"AccessDenied"} \cup others : Failed(why)

-----------------------------------------------------------------------------
(* open_device: enumeration and selection, then one libusb call at a time. *)

\* The device of the wanted path, the path being unique on the bus.
Target(readings) == {p \in {path} : Eligible(bus[p], crit, readings[p])}

\* Mutant of Select: the path is not compared.
SelectAnywhere(readings) ==
    \E p \in {q \in Paths : Eligible(bus[q], crit, readings[q])} :
        /\ chosen' = [path |-> p, device |-> bus[p],
                      interface |-> FindBestInterface(bus[p], crit)]
        /\ error' = "None" /\ pc' = "libusb_open"

Select(readings) ==
    \E p \in Target(readings) :
        /\ chosen' = [path |-> p, device |-> bus[p],
                      interface |-> FindBestInterface(bus[p], crit)]
        /\ error' = "None" /\ pc' = "libusb_open"

NoTarget(readings) ==
    /\ Target(readings) = {}
    /\ Failed(IF \E p \in Paths : IsCandidate(bus[p], crit, readings[p])
              THEN "NotDownloadMode" ELSE "NoDevice")
    /\ UNCHANGED chosen

OpenDevice ==
    /\ pc = "open_device"
    /\ CloseHandle
    /\ EnsureLibusbInitialized
    /\ \/ Failed("Other") /\ list' = FALSE /\ UNCHANGED <<chosen, stale, readable>>
       \/ \E readings \in [Paths -> Readings] :
             /\ context' = "ready"
             /\ list' = TRUE /\ stale' = {}
             /\ Select(readings) \/ NoTarget(readings)
             /\ readable' = readings[path]
    /\ opens' = opens + 1
    /\ UNCHANGED <<world, run>>

LibusbOpen ==
    /\ pc = "libusb_open"
    /\ \/ Present /\ handle' = TRUE /\ pc' = "kernel_driver" /\ UNCHANGED error
       \/ AccessOr({"Busy", "Other"}) /\ UNCHANGED handle
    /\ UNCHANGED <<world, stale, drivers, run, context, chosen, list, claimed, detached, opens, readable, astray>>

\* libusb_kernel_driver_active and libusb_detach_kernel_driver.
KernelDriver ==
    /\ pc = "kernel_driver"
    /\ \/ /\ Present /\ pc' = "claim_interface"
          /\ detached' = (<<chosen.path, Number>> \in drivers)
          /\ drivers' = drivers \ {<<chosen.path, Number>>}
          /\ UNCHANGED <<handle, error>>
       \/ AccessOr({"Other"}) /\ handle' = FALSE /\ UNCHANGED <<drivers, detached>>
    /\ UNCHANGED <<world, stale, run, context, chosen, list, claimed, opens, readable, astray>>

ClaimInterface ==
    /\ pc = "claim_interface"
    /\ \/ /\ Present /\ claimed' = TRUE /\ pc' = "opened"
          /\ UNCHANGED <<handle, detached, drivers, astray, error>>
       \/ AccessOr({"Other"}) /\ CloseHandle
    /\ UNCHANGED <<world, stale, run, context, chosen, list, opens, readable>>

\* The class lets open_device be called again on the same object.
Reopen ==
    /\ pc \in {"opened", "failed"}
    /\ opens < Opens
    /\ pc' = "open_device"
    /\ UNCHANGED <<world, stale, drivers, run, context, chosen, held, error, opens, readable, astray>>

\* Mutant of Destroy: the list is freed only with a handle.
DestroyWithHandle ==
    /\ pc \in {"opened", "failed"}
    /\ CloseHandle
    /\ list' = (list /\ ~handle)
    /\ pc' = "destroyed"
    /\ UNCHANGED <<world, stale, run, context, chosen, error, opens, readable>>

\* ~UsbDevice, when run_for_device returns.
Destroy ==
    /\ pc \in {"opened", "failed"}
    /\ CloseHandle
    /\ list' = FALSE
    /\ pc' = "destroyed"
    /\ UNCHANGED <<world, stale, run, context, chosen, error, opens, readable>>

\* cleanup_libusb_context, registered with atexit.
Exit ==
    /\ pc = "destroyed"
    /\ context' = "unset"
    /\ pc' = "exit"
    /\ UNCHANGED <<world, stale, drivers, run, chosen, held, error, opens, readable, astray>>

Host ==
    \/ ListDownloadDevices \/ OpenDevice \/ LibusbOpen \/ KernelDriver
    \/ ClaimInterface \/ Reopen \/ Destroy \/ Exit

Next == Host \/ Replug

Spec == Init /\ [][Next]_vars

-----------------------------------------------------------------------------
(* Properties.                                                             *)

\* Whenever no handle is open, on every path out of open_device and after the
\* destructor, each kernel driver is bound as it was, unless attaching it has
\* failed: odin4 never leaves a device without its driver.
DriversGivenBack == ~handle /\ ~astray => drivers = DriversOf(bus)

\* At exit nothing is held, and while libusb is not initialised nothing is:
\* libusb_exit never runs under an open handle or a device list.
NothingOutlivesLibusb ==
    context # "ready" \/ pc = "exit" => ~list /\ ~handle /\ ~claimed /\ ~detached

\* open_device returns true only with an interface of the device at the path
\* that was asked for, as selected by the criteria, claimed and without a
\* kernel driver bound to it, whatever was exchanged on the bus meanwhile.
OpenedIsWanted ==
    pc = "opened" =>
        /\ handle /\ claimed /\ error = "None"
        /\ chosen.path = path /\ Listed(chosen.device, crit, "both")
        /\ Present => <<path, Number>> \notin drivers

\* The two filters agree: as long as the bus has not changed, open_device misses
\* a device that list_download_devices has returned only because its descriptors
\* cannot be read, and says that there is none only if it could read nothing of it.
ListedIsFound ==
    pc = "failed" /\ listed = replugs =>
        /\ error = "NoDevice" => readable = "none"
        /\ error = "NotDownloadMode" => readable # "both"
=============================================================================
