----------------------------- MODULE OpeningProofs -----------------------------
(***************************************************************************)
(* What UsbOpen promises, for any bus, any devices and criteria, and any   *)
(* number of changes of the bus and of calls of open_device; that what     *)
(* reaches a run is what the command line says, for command lines of any   *)
(* length, with any words and values, and any devices on the bus; and that *)
(* archives are compared with the type of the device, for names of any     *)
(* length, in any characters.                                              *)
(***************************************************************************)
EXTENDS Opening, SequenceTheorems, FiniteSetTheorems, Inductions, TLAPS

-----------------------------------------------------------------------------
(* Finding and opening: the inductive invariant of UsbOpen.                *)

Selected == {"libusb_open", "kernel_driver", "claim_interface", "opened"}
WithHandle == {"kernel_driver", "claim_interface", "opened"}

\* A handle is open exactly from libusb_open to the destructor or the next call of
\* open_device, and nothing is held without a libusb context.
HeldInv ==
    /\ pc \in WithHandle => handle
    /\ handle => pc \in WithHandle \cup {"open_device"}
    /\ list => pc \in Selected \cup {"open_device", "failed"}
    /\ list \/ handle => context = "ready"
    /\ pc \in Selected => context = "ready"
    /\ detached => chosen.path \in Paths
    /\ pc = "kernel_driver" => ~claimed /\ ~detached
    /\ pc = "opened" => claimed
    /\ pc \in {"list_download_devices", "open_device"} => opens < Opens

\* The one driver that may be missing is the detached one of a device still there.
Mine == <<chosen.path, Number>>
DriverInv ==
    /\ ~astray =>
          IF detached /\ Present
          THEN Mine \in DriversOf(bus) /\ drivers = DriversOf(bus) \ {Mine}
          ELSE drivers = DriversOf(bus)
    /\ pc \in {"claim_interface", "opened"} /\ Present => Mine \notin drivers

\* What was selected is what was asked for.
ChosenInv ==
    /\ pc \in Selected \cup {"open_device", "failed"} => path \in Paths
    /\ pc \in Selected =>
          /\ chosen.path = path
          /\ chosen.device # NoDevice /\ Eligible(chosen.device, crit, "both")
          /\ error = "None"

\* What was listed is there until the bus changes.
ListedInv ==
    /\ listed = Replugs + 1 \/ listed <= replugs
    /\ listed = replugs => path \in Paths /\ Listed(bus[path], crit, "both")
    /\ ListedIsFound

OpenInv == TypeOK /\ HeldInv /\ DriverInv /\ ChosenInv /\ ListedInv
-----------------------------------------------------------------------------

\* Drivers are bound where devices with drivers are.
LEMMA DriversOfPaths ==
    ASSUME NEW b, NEW x \in DriversOf(b)
    PROVE  x[1] \in Paths
  <1>1. PICK p \in Paths : x \in Bound(p, b[p])
    BY DEF DriversOf
  <1>2. x \in {p} \X b[p].drivers
    BY <1>1 DEF Bound
  <1> QED
    BY <1>2

\* A change at one path of the bus changes the drivers at that path.
LEMMA DriversAfterReplug ==
    ASSUME NEW b \in [Paths -> Devices \cup {NoDevice}], NEW p \in Paths, NEW d
    PROVE  DriversOf([b EXCEPT ![p] = d]) = {x \in DriversOf(b) : x[1] # p} \cup Bound(p, d)
  <1> DEFINE c == [b EXCEPT ![p] = d]
  <1>1. \A q \in Paths : c[q] = IF q = p THEN d ELSE b[q]
    OBVIOUS
  <1>2. \A q, e : \A x \in Bound(q, e) : x[1] = q
    BY DEF Bound
  <1>3. ASSUME NEW x \in DriversOf(c)
        PROVE  x \in {y \in DriversOf(b) : y[1] # p} \cup Bound(p, d)
    <2>1. PICK q \in Paths : x \in Bound(q, c[q])
      BY <1>3 DEF DriversOf
    <2>2. CASE q = p
      BY <1>1, <2>1, <2>2
    <2>3. CASE q # p
      BY <1>1, <1>2, <2>1, <2>3 DEF DriversOf
    <2> QED
      BY <2>2, <2>3
  <1>4. ASSUME NEW x \in DriversOf(b), x[1] # p
        PROVE  x \in DriversOf(c)
    <2>1. PICK q \in Paths : x \in Bound(q, b[q])
      BY DEF DriversOf
    <2>2. q # p
      BY <1>2, <1>4, <2>1
    <2> QED
      BY <1>1, <2>1, <2>2 DEF DriversOf
  <1>5. Bound(p, d) \subseteq DriversOf(c)
    BY <1>1 DEF DriversOf
  <1>6. DriversOf(c) \subseteq {x \in DriversOf(b) : x[1] # p} \cup Bound(p, d)
    BY <1>3
  <1>7. {x \in DriversOf(b) : x[1] # p} \subseteq DriversOf(c)
    BY <1>4
  <1> QED
    BY <1>5, <1>6, <1>7

\* The two filters are the same condition.
LEMMA FiltersAgree ==
    ASSUME NEW d, NEW c, NEW got
    PROVE  /\ Eligible(d, c, got) <=> Listed(d, c, got)
           /\ Listed(d, c, got) => got = "both"
           /\ Listed(d, c, "both") /\ got # "none" => IsCandidate(d, c, got)
  BY DEF Eligible, Listed, LooksLikeDownload, IsCandidate

-----------------------------------------------------------------------------

\* CloseHandle gives up the handle and attaches the driver again, or records
\* that it could not.
LEMMA Closed ==
    ASSUME OpenInv, CloseHandle
    PROVE  /\ ~handle' /\ ~claimed' /\ ~detached'
           /\ astray' \in BOOLEAN
           /\ \A x \in drivers' : x[1] \in Paths
           /\ ~astray' => drivers' = DriversOf(bus)
  <1>1. ~handle' /\ ~claimed' /\ ~detached'
    BY DEF CloseHandle
  <1>2. CASE ~(handle /\ detached)
    <2>1. UNCHANGED <<drivers, astray>>
      BY <1>2 DEF CloseHandle
    <2>2. ~detached
      BY <1>2 DEF OpenInv, TypeOK, HoldingOK
    <2> QED
      BY <1>1, <2>1, <2>2 DEF OpenInv, TypeOK, BusOK, HoldingOK, DriverInv
  <1>3. CASE handle /\ detached
    <2>1. AttachKernelDriver
      BY <1>3 DEF CloseHandle
    <2>2. CASE ~Present /\ UNCHANGED <<drivers, astray>>
      BY <1>1, <2>2 DEF OpenInv, TypeOK, BusOK, HoldingOK, DriverInv
    <2>3. CASE Present /\ drivers' = drivers \cup {Mine} /\ UNCHANGED astray
      <3>1. chosen.path \in Paths
        BY <1>3 DEF OpenInv, HeldInv
      <3>2. Mine[1] = chosen.path
        BY DEF Mine
      <3> QED
        BY <1>1, <1>3, <2>3, <3>1, <3>2 DEF OpenInv, TypeOK, BusOK, HoldingOK, DriverInv
    <2>4. CASE Present /\ astray' = TRUE /\ UNCHANGED drivers
      BY <1>1, <2>4 DEF OpenInv, TypeOK, BusOK
    <2> QED
      BY <2>1, <2>2, <2>3, <2>4 DEF AttachKernelDriver, Mine
  <1> QED
    BY <1>2, <1>3

-----------------------------------------------------------------------------

LEMMA InitOpen == Init => OpenInv
  <1> SUFFICES ASSUME Init PROVE OpenInv
    OBVIOUS
  <1>1. Replugs \in Nat /\ Opens \in Nat \ {0}
    BY UsbAssumption
  <1>2. TypeOK
    <2>1. BusOK
      <3>1. replugs = 0 /\ listed = Replugs + 1 /\ opens = 0
        BY DEF Init
      <3>2. \A x \in drivers : x[1] \in Paths
        BY DriversOfPaths DEF Init
      <3>3. replugs \in 0..Replugs /\ listed \in Nat /\ opens \in 0..Opens
        BY <1>1, <3>1
      <3> QED
        BY <3>2, <3>3 DEF Init, BusOK
    <2>2. ControlOK
      BY DEF Init, NoChoice, ControlOK, OpenErrors, Readings
    <2>3. HoldingOK
      BY DEF Init, HoldingOK
    <2> QED
      BY <2>1, <2>2, <2>3 DEF TypeOK
  <1>3. HeldInv
    <2>1. ~list /\ ~handle /\ ~claimed /\ ~detached
      BY DEF Init
    <2>2. pc \in {"list_download_devices", "open_device"}
      BY DEF Init
    <2>3. opens < Opens
      <3>1. opens = 0
        BY DEF Init
      <3> QED
        BY <1>1, <3>1
    <2> QED
      BY <2>1, <2>2, <2>3 DEF HeldInv, WithHandle, Selected
  <1>4. DriverInv
    BY DEF Init, DriverInv
  <1>5. ChosenInv
    BY DEF Init, ChosenInv, Selected
  <1>6. ListedInv
    <2>1. listed = Replugs + 1 /\ replugs = 0
      BY DEF Init
    <2>2. listed # replugs
      BY <1>1, <2>1
    <2> QED
      BY <2>1, <2>2 DEF ListedInv, ListedIsFound
  <1> QED
    BY <1>2, <1>3, <1>4, <1>5, <1>6 DEF OpenInv

\* A step that does not touch the bus keeps what is said of it.
LEMMA DriversStay ==
    ASSUME OpenInv, UNCHANGED <<bus, stale, drivers, chosen, detached, astray>>,
           pc' \in {"claim_interface", "opened"} => pc \in {"claim_interface", "opened"}
    PROVE  DriverInv'
  BY DEF OpenInv, DriverInv, Mine, Present, Number, DriversOf, Bound

LEMMA ReplugStep == OpenInv /\ Replug => OpenInv'
  <1> SUFFICES ASSUME OpenInv, Replug PROVE OpenInv'
    OBVIOUS
  <1>1. Replugs \in Nat
    BY UsbAssumption
  <1>2. PICK p \in Paths, d \in Devices \cup {NoDevice} :
          /\ bus' = [bus EXCEPT ![p] = d]
          /\ drivers' = {x \in drivers : x[1] # p} \cup Bound(p, d)
          /\ stale' = stale \cup {p}
    BY DEF Replug
  <1>3. replugs' = replugs + 1 /\ replugs \in 0..Replugs /\ replugs < Replugs
        /\ UNCHANGED <<run, pc, context, chosen, held, error, opens, readable, astray>>
    BY DEF Replug, OpenInv, TypeOK, BusOK
  <1>4. bus \in [Paths -> Devices \cup {NoDevice}]
    BY DEF OpenInv, TypeOK, BusOK
  <1>5. \A x \in Bound(p, d) : x[1] = p
    BY DEF Bound
  <1>6. TypeOK'
    <2>1. replugs' \in 0..Replugs
      BY <1>1, <1>3
    <2>2. \A x \in drivers' : x[1] \in Paths
      BY <1>2, <1>5 DEF OpenInv, TypeOK, BusOK
    <2>3. BusOK'
      BY <1>2, <1>3, <1>4, <2>1, <2>2 DEF OpenInv, TypeOK, BusOK, run
    <2>4. ControlOK'
      BY <1>3 DEF OpenInv, TypeOK, ControlOK
    <2>5. HoldingOK'
      BY <1>3 DEF OpenInv, TypeOK, HoldingOK, held
    <2> QED
      BY <2>3, <2>4, <2>5 DEF TypeOK
  <1>7. HeldInv'
    BY <1>3 DEF OpenInv, HeldInv, run, held
  <1>8. DriverInv'
    <2>0. ASSUME NEW q \in Paths, NEW e
          PROVE  DriversOf([bus EXCEPT ![q] = e]) = {x \in DriversOf(bus) : x[1] # q} \cup Bound(q, e)
      BY Zenon, <1>4, DriversAfterReplug
    <2>1. DriversOf(bus') = {x \in DriversOf(bus) : x[1] # p} \cup Bound(p, d)
      BY <1>2, <2>0
    <2>2. Mine' = Mine /\ Mine[1] = chosen.path /\ detached' = detached /\ astray' = astray /\ pc' = pc
      BY <1>3 DEF Mine, Number, held
    <2>3. Present' <=> Present /\ chosen.path # p
      BY <1>2, <1>3 DEF Present
    <2>4. CASE chosen.path = p
      BY <1>2, <2>1, <2>2, <2>3, <2>4 DEF OpenInv, DriverInv
    <2>5. CASE chosen.path # p
      BY <1>2, <1>5, <2>1, <2>2, <2>3, <2>5 DEF OpenInv, DriverInv
    <2> QED
      BY <2>4, <2>5
  <1>9. ChosenInv'
    BY <1>3 DEF OpenInv, ChosenInv, Eligible, run
  <1>10. ListedInv'
    <2>1. listed' = listed /\ listed \in Nat
      BY <1>3 DEF run, OpenInv, TypeOK, BusOK
    <2>2. listed = Replugs + 1 \/ listed <= replugs
      BY DEF OpenInv, ListedInv
    <2>3. listed' # replugs' /\ (listed' = Replugs + 1 \/ listed' <= replugs')
      BY <1>1, <1>3, <2>1, <2>2
    <2> QED
      BY <2>3 DEF ListedInv, ListedIsFound
  <1> QED
    BY <1>6, <1>7, <1>8, <1>9, <1>10 DEF OpenInv

LEMMA ListStep == OpenInv /\ ListDownloadDevices => OpenInv'
  <1> SUFFICES ASSUME OpenInv, ListDownloadDevices PROVE OpenInv'
    OBVIOUS
  <1>0. Replugs \in Nat
    BY UsbAssumption
  <1>1. /\ pc = "list_download_devices"
        /\ UNCHANGED <<bus, replugs, stale, drivers, crit, chosen, list, handle, claimed, detached, error, opens, readable, astray>>
    BY DEF ListDownloadDevices, world, held
  <1>2. context' \in {"unset", "ready", "failed"}
    BY DEF ListDownloadDevices, EnsureLibusbInitialized, OpenInv, TypeOK, ControlOK
  <1>3. \/ pc' = "open_device" /\ path' \in {p \in Paths : Listed(bus[p], crit, "both")} /\ listed' = replugs
        \/ pc' = "destroyed" /\ path' = path /\ listed' = listed
    BY FiltersAgree DEF ListDownloadDevices
  <1>4. ~handle /\ ~list
    BY <1>1 DEF OpenInv, HeldInv, WithHandle, Selected
  <1>5. opens < Opens
    BY <1>1 DEF OpenInv, HeldInv
  <1>6. TypeOK'
    <2>1. BusOK'
      <3>1. /\ bus' \in [Paths -> Devices \cup {NoDevice}] /\ stale' \subseteq Paths
            /\ \A x \in drivers' : x[1] \in Paths
            /\ crit' \in Criteria /\ path' \in Paths \cup {""}
            /\ replugs' \in 0..Replugs /\ opens' \in 0..Opens
        BY <1>1, <1>3 DEF OpenInv, TypeOK, BusOK
      <3>2. replugs \in 0..Replugs /\ listed \in Nat
        BY DEF OpenInv, TypeOK, BusOK
      <3>3. listed' \in Nat
        BY <1>0, <1>3, <3>2
      <3> QED
        BY <3>1, <3>3 DEF BusOK
    <2>2. ControlOK'
      BY <1>1, <1>2, <1>3 DEF OpenInv, TypeOK, ControlOK
    <2>3. HoldingOK'
      BY <1>1 DEF OpenInv, TypeOK, HoldingOK
    <2> QED
      BY <2>1, <2>2, <2>3 DEF TypeOK
  <1>7. HeldInv'
    BY <1>1, <1>3, <1>4, <1>5 DEF OpenInv, HeldInv, WithHandle, Selected
  <1>8. DriverInv'
    BY <1>1, <1>3, DriversStay
  <1>9. ChosenInv'
    BY <1>1, <1>3 DEF ChosenInv, Selected
  <1>10. ListedInv'
    <2>1. listed' = Replugs + 1 \/ listed' <= replugs'
      <3>1. replugs \in 0..Replugs
        BY DEF OpenInv, TypeOK, BusOK
      <3> QED
        BY <1>0, <1>1, <1>3, <3>1 DEF OpenInv, ListedInv
    <2>2. listed' = replugs' => path' \in Paths /\ Listed(bus[path], crit, "both")'
      BY <1>1, <1>3 DEF OpenInv, ListedInv
    <2> QED
      BY <1>3, <2>1, <2>2 DEF ListedInv, ListedIsFound
  <1> QED
    BY <1>6, <1>7, <1>8, <1>9, <1>10 DEF OpenInv

-----------------------------------------------------------------------------

\* The drivers a step binds are bound where there are paths.
LEMMA BusStays ==
    ASSUME OpenInv, UNCHANGED <<bus, replugs, crit, path, listed>>,
           stale' \subseteq Paths, opens' \in 0..Opens,
           \A x \in drivers' : x[1] \in Paths
    PROVE  BusOK'
  BY DEF OpenInv, TypeOK, BusOK

\* What was listed is there as long as nothing fails for want of a device.
LEMMA ListedStays ==
    ASSUME OpenInv, UNCHANGED <<bus, replugs, crit, path, listed>>,
           pc' = "failed" /\ listed = replugs =>
               /\ error' = "NoDevice" => readable' = "none"
               /\ error' = "NotDownloadMode" => readable' # "both"
    PROVE  ListedInv'
  <1>1. ListedIsFound'
    BY DEF ListedIsFound
  <1> QED
    BY <1>1 DEF OpenInv, ListedInv, Listed

LEMMA OpenDeviceStep == OpenInv /\ OpenDevice => OpenInv'
  <1> SUFFICES ASSUME OpenInv, OpenDevice PROVE OpenInv'
    OBVIOUS
  <1>1. /\ pc = "open_device" /\ CloseHandle /\ opens' = opens + 1
        /\ UNCHANGED <<bus, replugs, crit, path, listed>>
    BY DEF OpenDevice, world, run
  <1>2. /\ ~handle' /\ ~claimed' /\ ~detached' /\ astray' \in BOOLEAN
        /\ \A x \in drivers' : x[1] \in Paths
        /\ ~astray' => drivers' = DriversOf(bus)
    BY <1>1, Closed
  <1>3. handle' = FALSE /\ claimed' = FALSE /\ detached' = FALSE
    BY <1>1 DEF CloseHandle
  <1>4. opens' \in 0..Opens
    <2>1. opens < Opens
      BY <1>1 DEF OpenInv, HeldInv
    <2>2. opens \in 0..Opens /\ Opens \in Nat
      BY UsbAssumption DEF OpenInv, TypeOK, BusOK
    <2> QED
      BY <1>1, <2>1, <2>2
  <1>5. context' \in {"unset", "ready", "failed"}
    BY DEF OpenDevice, EnsureLibusbInitialized, OpenInv, TypeOK, ControlOK
  <1>6. CASE Failed("Other") /\ list' = FALSE /\ UNCHANGED <<chosen, stale, readable>>
    <2>1. pc' = "failed" /\ error' = "Other" /\ ~list'
      BY <1>6 DEF Failed
    <2>2. TypeOK'
      <3>1. BusOK'
        BY <1>1, <1>2, <1>4, <1>6, BusStays DEF OpenInv, TypeOK, BusOK
      <3>2. ControlOK'
        BY <1>5, <1>6, <2>1 DEF OpenInv, TypeOK, ControlOK, OpenErrors
      <3>3. HoldingOK'
        BY <1>2, <1>3, <1>6 DEF HoldingOK
      <3> QED
        BY <3>1, <3>2, <3>3 DEF TypeOK
    <2>3. HeldInv'
      BY <1>2, <2>1 DEF HeldInv, WithHandle, Selected
    <2>4. DriverInv'
      BY <1>1, <1>2, <2>1 DEF DriverInv
    <2>5. ChosenInv'
      BY <1>1, <2>1 DEF OpenInv, ChosenInv, Selected
    <2>6. ListedInv'
      BY <1>1, <2>1, ListedStays
    <2> QED
      BY <2>2, <2>3, <2>4, <2>5, <2>6 DEF OpenInv
  <1>0. path \in Paths
    BY <1>1 DEF OpenInv, ChosenInv
  <1>7. ASSUME NEW readings \in [Paths -> Readings],
               context' = "ready" /\ list' = TRUE /\ stale' = {} /\ readable' = readings[path],
               Select(readings)
        PROVE  OpenInv'
    <2>1. PICK p \in Target(readings) :
            chosen' = [path |-> p, device |-> bus[p], interface |-> FindBestInterface(bus[p], crit)]
      BY <1>7 DEF Select
    <2>2. pc' = "libusb_open" /\ error' = "None"
      BY <1>7 DEF Select
    <2>3. p = path /\ Eligible(bus[p], crit, "both")
      BY <2>1, FiltersAgree DEF Target
    <2>4. path \in Paths /\ readable' \in Readings
      BY <1>0, <1>7
    <2>5. chosen'.path = path /\ chosen'.device = bus[path]
      BY <2>1, <2>3
    <2>6. TypeOK'
      <3>1. BusOK'
        BY <1>1, <1>2, <1>4, <1>7, BusStays
      <3>2. bus[path] \in Devices \cup {NoDevice}
        BY <2>4 DEF OpenInv, TypeOK, BusOK
      <3>3. ControlOK'
        BY <1>5, <2>2, <2>4, <2>5, <3>2 DEF ControlOK, OpenErrors
      <3>4. HoldingOK'
        BY <1>2, <1>3, <1>7 DEF HoldingOK
      <3> QED
        BY <3>1, <3>3, <3>4 DEF TypeOK
    <2>7. HeldInv'
      BY <1>2, <1>7, <2>2 DEF HeldInv, WithHandle, Selected
    <2>8. DriverInv'
      BY <1>1, <1>2, <2>2 DEF DriverInv
    <2>9. ChosenInv'
      BY <1>1, <2>2, <2>3, <2>4, <2>5 DEF ChosenInv, Eligible, IsCandidate
    <2>10. ListedInv'
      BY <1>1, <2>2, ListedStays
    <2> QED
      BY <2>6, <2>7, <2>8, <2>9, <2>10 DEF OpenInv
  <1>8. ASSUME NEW readings \in [Paths -> Readings],
               context' = "ready" /\ list' = TRUE /\ stale' = {} /\ readable' = readings[path],
               NoTarget(readings)
        PROVE  OpenInv'
    <2>1. /\ pc' = "failed" /\ error' \in OpenErrors /\ chosen' = chosen
          /\ readable' \in Readings
      BY <1>0, <1>8 DEF NoTarget, Failed, OpenErrors
    <2>2. TypeOK'
      <3>1. BusOK'
        BY <1>1, <1>2, <1>4, <1>8, BusStays
      <3>2. ControlOK'
        BY <1>5, <2>1 DEF OpenInv, TypeOK, ControlOK
      <3>3. HoldingOK'
        BY <1>2, <1>3, <1>8 DEF HoldingOK
      <3> QED
        BY <3>1, <3>2, <3>3 DEF TypeOK
    <2>3. HeldInv'
      BY <1>2, <1>8, <2>1 DEF HeldInv, WithHandle, Selected
    <2>4. DriverInv'
      BY <1>1, <1>2, <2>1 DEF DriverInv
    <2>5. ChosenInv'
      BY <1>1, <2>1 DEF OpenInv, ChosenInv, Selected
    <2>6. ASSUME listed = replugs
          PROVE  /\ error' = "NoDevice" => readable' = "none"
                 /\ error' = "NotDownloadMode" => readable' # "both"
      <3>1. ~Eligible(bus[path], crit, readings[path])
        BY <1>8 DEF NoTarget, Target
      <3>2. Listed(bus[path], crit, "both")
        BY <2>6 DEF OpenInv, ListedInv
      <3>3. readings[path] # "both"
        BY <3>1, <3>2, FiltersAgree
      <3>4. readings[path] # "none" => error' = "NotDownloadMode"
        BY <1>0, <1>8, <3>2, FiltersAgree DEF NoTarget, Failed
      <3> QED
        BY <1>8, <3>3, <3>4
    <2>7. ListedInv'
      BY <1>1, <2>6, ListedStays
    <2> QED
      BY <2>2, <2>3, <2>4, <2>5, <2>7 DEF OpenInv
  <1> QED
    BY <1>6, <1>7, <1>8 DEF OpenDevice

LEMMA LibusbOpenStep == OpenInv /\ LibusbOpen => OpenInv'
  <1> SUFFICES ASSUME OpenInv, LibusbOpen PROVE OpenInv'
    OBVIOUS
  <1>1. /\ pc = "libusb_open"
        /\ UNCHANGED <<bus, replugs, stale, drivers, crit, path, listed>>
        /\ UNCHANGED <<context, chosen, list, claimed, detached, opens, readable, astray>>
    BY DEF LibusbOpen, world, run
  <1>2. \/ Present /\ handle' = TRUE /\ pc' = "kernel_driver" /\ error' = error
        \/ handle' = handle /\ pc' = "failed" /\ error' \in {"AccessDenied", "Busy", "Other"}
    BY DEF LibusbOpen, AccessOr, Failed
  <1>3. ~handle /\ ~claimed /\ ~detached
    BY <1>1 DEF OpenInv, TypeOK, HoldingOK, HeldInv, WithHandle
  <1>4. TypeOK'
    <2>1. BusOK'
      BY <1>1, BusStays DEF OpenInv, TypeOK, BusOK
    <2>2. ControlOK'
      BY <1>1, <1>2 DEF OpenInv, TypeOK, ControlOK, OpenErrors
    <2>3. HoldingOK'
      BY <1>1, <1>2, <1>3 DEF OpenInv, TypeOK, HoldingOK
    <2> QED
      BY <2>1, <2>2, <2>3 DEF TypeOK
  <1>5. HeldInv'
    BY <1>1, <1>2, <1>3 DEF OpenInv, HeldInv, WithHandle, Selected
  <1>6. DriverInv'
    BY <1>1, <1>2, DriversStay
  <1>7. ChosenInv'
    BY <1>1, <1>2 DEF OpenInv, ChosenInv, Selected, Eligible
  <1>8. ListedInv'
    BY <1>1, <1>2, ListedStays
  <1> QED
    BY <1>4, <1>5, <1>6, <1>7, <1>8 DEF OpenInv

LEMMA KernelDriverStep == OpenInv /\ KernelDriver => OpenInv'
  <1> SUFFICES ASSUME OpenInv, KernelDriver PROVE OpenInv'
    OBVIOUS
  <1>1. /\ pc = "kernel_driver"
        /\ UNCHANGED <<bus, replugs, stale, crit, path, listed>>
        /\ UNCHANGED <<context, chosen, list, claimed, opens, readable, astray>>
    BY DEF KernelDriver, world, run
  <1>2. handle /\ ~detached
    BY <1>1 DEF OpenInv, HeldInv, WithHandle
  <1>3. CASE /\ Present /\ pc' = "claim_interface"
             /\ detached' = (Mine \in drivers) /\ drivers' = drivers \ {Mine}
             /\ UNCHANGED <<handle, error>>
    <2>1. chosen.path \in Paths
      BY <1>1 DEF OpenInv, ChosenInv, Selected
    <2>2. TypeOK'
      <3>1. \A x \in drivers' : x[1] \in Paths
        BY <1>3 DEF OpenInv, TypeOK, BusOK
      <3>2. BusOK'
        BY <1>1, <3>1, BusStays DEF OpenInv, TypeOK, BusOK
      <3>3. ControlOK'
        BY <1>1, <1>3 DEF OpenInv, TypeOK, ControlOK
      <3>4. HoldingOK'
        BY <1>1, <1>2, <1>3 DEF OpenInv, TypeOK, HoldingOK
      <3> QED
        BY <3>2, <3>3, <3>4 DEF TypeOK
    <2>3. HeldInv'
      BY <1>1, <1>2, <1>3, <2>1 DEF OpenInv, HeldInv, WithHandle, Selected
    <2>4. DriverInv'
      <3>1. Mine' = Mine /\ (Present' <=> Present)
        BY <1>1 DEF Mine, Number, Present
      <3>2. ~astray => drivers = DriversOf(bus)
        BY <1>2 DEF OpenInv, DriverInv
      <3> QED
        BY <1>1, <1>3, <3>1, <3>2 DEF DriverInv
    <2>5. ChosenInv'
      BY <1>1, <1>3 DEF OpenInv, ChosenInv, Selected, Eligible
    <2>6. ListedInv'
      BY <1>1, <1>3, ListedStays
    <2> QED
      BY <2>2, <2>3, <2>4, <2>5, <2>6 DEF OpenInv
  <1>4. CASE /\ pc' = "failed" /\ error' \in {"AccessDenied", "Other"}
             /\ handle' = FALSE /\ UNCHANGED <<drivers, detached>>
    <2>1. ~claimed
      BY <1>1 DEF OpenInv, HeldInv
    <2>2. TypeOK'
      <3>1. BusOK'
        BY <1>1, <1>4, BusStays DEF OpenInv, TypeOK, BusOK
      <3>2. ControlOK'
        BY <1>1, <1>4 DEF OpenInv, TypeOK, ControlOK, OpenErrors
      <3>3. HoldingOK'
        BY <1>1, <1>2, <1>4, <2>1 DEF OpenInv, TypeOK, HoldingOK
      <3> QED
        BY <3>1, <3>2, <3>3 DEF TypeOK
    <2>3. HeldInv'
      BY <1>1, <1>2, <1>4 DEF OpenInv, HeldInv, WithHandle, Selected
    <2>4. DriverInv'
      BY <1>1, <1>4, DriversStay
    <2>5. ChosenInv'
      BY <1>1, <1>4 DEF OpenInv, ChosenInv, Selected
    <2>6. ListedInv'
      BY <1>1, <1>4, ListedStays
    <2> QED
      BY <2>2, <2>3, <2>4, <2>5, <2>6 DEF OpenInv
  <1> QED
    BY <1>3, <1>4 DEF KernelDriver, AccessOr, Failed, Mine

\* A handle is closed on the way out, and nothing is selected any more.
LEMMA CloseStep ==
    ASSUME OpenInv, CloseHandle, pc' \in {"failed", "destroyed"}, UNCHANGED <<opens, readable>>,
           UNCHANGED <<bus, replugs, stale, crit, path, listed, context, chosen>>,
           list' = FALSE \/ list' = list, pc' = "destroyed" => ~list',
           pc \in Selected \cup {"failed"},
           error' = error \/ error' \in {"AccessDenied", "Other"},
           pc' = "failed" => error' \in {"AccessDenied", "Other"}
    PROVE  OpenInv'
  <1>1. /\ ~handle' /\ ~claimed' /\ ~detached' /\ astray' \in BOOLEAN
        /\ \A x \in drivers' : x[1] \in Paths
        /\ ~astray' => drivers' = DriversOf(bus)
    BY Closed
  <1>2. handle' = FALSE /\ claimed' = FALSE /\ detached' = FALSE
    BY DEF CloseHandle
  <1>3. TypeOK'
    <2>1. BusOK'
      BY <1>1, BusStays DEF OpenInv, TypeOK, BusOK
    <2>2. ControlOK'
      BY DEF OpenInv, TypeOK, ControlOK, OpenErrors
    <2>3. HoldingOK'
      BY <1>1, <1>2 DEF OpenInv, TypeOK, HoldingOK
    <2> QED
      BY <2>1, <2>2, <2>3 DEF TypeOK
  <1>4. HeldInv'
    BY <1>1 DEF OpenInv, HeldInv, WithHandle, Selected
  <1>5. DriverInv'
    BY <1>1 DEF DriverInv
  <1>6. ChosenInv'
    BY DEF OpenInv, ChosenInv, Selected
  <1>7. ListedInv'
    BY ListedStays
  <1> QED
    BY <1>3, <1>4, <1>5, <1>6, <1>7 DEF OpenInv

LEMMA ClaimInterfaceStep == OpenInv /\ ClaimInterface => OpenInv'
  <1> SUFFICES ASSUME OpenInv, ClaimInterface PROVE OpenInv'
    OBVIOUS
  <1>1. /\ pc = "claim_interface"
        /\ UNCHANGED <<bus, replugs, stale, crit, path, listed>>
        /\ UNCHANGED <<context, chosen, list, opens, readable>>
    BY DEF ClaimInterface, world, run
  <1>2. handle
    BY <1>1 DEF OpenInv, HeldInv, WithHandle
  <1>3. CASE /\ Present /\ claimed' = TRUE /\ pc' = "opened"
             /\ UNCHANGED <<handle, detached, drivers, astray, error>>
    <2>1. TypeOK'
      <3>1. BusOK'
        BY <1>1, <1>3, BusStays DEF OpenInv, TypeOK, BusOK
      <3>2. ControlOK'
        BY <1>1, <1>3 DEF OpenInv, TypeOK, ControlOK
      <3>3. HoldingOK'
        BY <1>1, <1>2, <1>3 DEF OpenInv, TypeOK, HoldingOK
      <3> QED
        BY <3>1, <3>2, <3>3 DEF TypeOK
    <2>2. HeldInv'
      BY <1>1, <1>2, <1>3 DEF OpenInv, HeldInv, WithHandle, Selected
    <2>3. DriverInv'
      BY <1>1, <1>3, DriversStay
    <2>4. ChosenInv'
      BY <1>1, <1>3 DEF OpenInv, ChosenInv, Selected, Eligible
    <2>5. ListedInv'
      BY <1>1, <1>3, ListedStays
    <2> QED
      BY <2>1, <2>2, <2>3, <2>4, <2>5 DEF OpenInv
  <1>4. CASE AccessOr({"Other"}) /\ CloseHandle
    BY <1>1, <1>4, CloseStep DEF AccessOr, Failed, Selected
  <1> QED
    BY <1>3, <1>4 DEF ClaimInterface

LEMMA ReopenStep == OpenInv /\ Reopen => OpenInv'
  <1> SUFFICES ASSUME OpenInv, Reopen PROVE OpenInv'
    OBVIOUS
  <1>1. /\ pc \in {"opened", "failed"} /\ pc' = "open_device" /\ opens < Opens
        /\ UNCHANGED <<bus, replugs, stale, drivers, crit, path, listed>>
        /\ UNCHANGED <<context, chosen, list, handle, claimed, detached, error, opens, readable, astray>>
    BY DEF Reopen, world, run, held
  <1>2. TypeOK'
    <2>1. BusOK'
      BY <1>1, BusStays DEF OpenInv, TypeOK, BusOK
    <2>2. ControlOK'
      BY <1>1 DEF OpenInv, TypeOK, ControlOK
    <2>3. HoldingOK'
      BY <1>1 DEF OpenInv, TypeOK, HoldingOK
    <2> QED
      BY <2>1, <2>2, <2>3 DEF TypeOK
  <1>3. HeldInv'
    BY <1>1 DEF OpenInv, HeldInv, WithHandle, Selected
  <1>4. DriverInv'
    BY <1>1, DriversStay
  <1>5. ChosenInv'
    BY <1>1 DEF OpenInv, ChosenInv, Selected
  <1>6. ListedInv'
    BY <1>1, ListedStays
  <1> QED
    BY <1>2, <1>3, <1>4, <1>5, <1>6 DEF OpenInv

LEMMA DestroyStep == OpenInv /\ Destroy => OpenInv'
  BY CloseStep DEF Destroy, world, run, Selected

LEMMA ExitStep == OpenInv /\ Exit => OpenInv'
  <1> SUFFICES ASSUME OpenInv, Exit PROVE OpenInv'
    OBVIOUS
  <1>1. /\ pc = "destroyed" /\ pc' = "exit" /\ context' = "unset"
        /\ UNCHANGED <<bus, replugs, stale, drivers, crit, path, listed>>
        /\ UNCHANGED <<chosen, list, handle, claimed, detached, error, opens, readable, astray>>
    BY DEF Exit, world, run, held
  <1>2. ~handle /\ ~list
    BY <1>1 DEF OpenInv, HeldInv, WithHandle, Selected
  <1>3. TypeOK'
    <2>1. BusOK'
      BY <1>1, BusStays DEF OpenInv, TypeOK, BusOK
    <2>2. ControlOK'
      BY <1>1 DEF OpenInv, TypeOK, ControlOK
    <2>3. HoldingOK'
      BY <1>1 DEF OpenInv, TypeOK, HoldingOK
    <2> QED
      BY <2>1, <2>2, <2>3 DEF TypeOK
  <1>4. HeldInv'
    BY <1>1, <1>2 DEF OpenInv, HeldInv, WithHandle, Selected
  <1>5. DriverInv'
    BY <1>1, DriversStay
  <1>6. ChosenInv'
    BY <1>1 DEF ChosenInv, Selected
  <1>7. ListedInv'
    BY <1>1, ListedStays
  <1> QED
    BY <1>3, <1>4, <1>5, <1>6, <1>7 DEF OpenInv

LEMMA StutterOpen == OpenInv /\ UNCHANGED vars => OpenInv'
  <1> SUFFICES ASSUME OpenInv, UNCHANGED vars PROVE OpenInv'
    OBVIOUS
  <1>1. /\ UNCHANGED <<bus, replugs, stale, drivers, crit, path, listed>>
        /\ UNCHANGED <<pc, context, chosen, list, handle, claimed, detached, error, opens, readable, astray>>
    BY DEF vars, world, run, held
  <1>2. BusOK'
    BY <1>1, BusStays DEF OpenInv, TypeOK, BusOK
  <1>3. ControlOK'
    BY <1>1 DEF OpenInv, TypeOK, ControlOK
  <1>4. HoldingOK'
    BY <1>1 DEF OpenInv, TypeOK, HoldingOK
  <1>5. HeldInv'
    BY <1>1 DEF OpenInv, HeldInv
  <1>6. DriverInv'
    BY <1>1, DriversStay
  <1>7. ChosenInv'
    BY <1>1 DEF OpenInv, ChosenInv, Eligible
  <1>8. ListedInv'
    BY <1>1 DEF OpenInv, ListedInv, ListedIsFound, Listed
  <1> QED
    BY <1>2, <1>3, <1>4, <1>5, <1>6, <1>7, <1>8 DEF OpenInv, TypeOK

\* A run is one of the parts; the others stand still.
LEMMA PartSteps ==
    ASSUME [AnyNext]_all
    PROVE  [Next]_vars /\ [Line!Next]_(Line!vars)
  BY DEF AnyNext, all, vars, line_vars, Line!vars

\* The invariant holds in every state, whatever is plugged in and whatever fails.
THEOREM OpenInvariant == AnySpec => []OpenInv
  <1>1. OpenInv /\ [Next]_vars => OpenInv'
    BY ReplugStep, ListStep, OpenDeviceStep, LibusbOpenStep, KernelDriverStep,
       ClaimInterfaceStep, ReopenStep, DestroyStep, ExitStep, StutterOpen DEF Next, Host
  <1>2. AnyInit => OpenInv
    BY InitOpen DEF AnyInit
  <1> QED
    BY <1>1, <1>2, PartSteps, PTL DEF AnySpec

\* Every variable of the process and of the bus keeps its type.
THEOREM UsbTypes == AnySpec => []TypeOK
  BY OpenInvariant, PTL DEF OpenInv

\* While no handle is open each kernel driver is bound as it was (open_device and
\* the destructor attach what they have detached), unless attaching has failed.
THEOREM DriversAreGivenBack == AnySpec => []DriversGivenBack
  <1>1. OpenInv => DriversGivenBack
    BY DEF OpenInv, TypeOK, HoldingOK, DriverInv, DriversGivenBack
  <1> QED
    BY OpenInvariant, <1>1, PTL

\* libusb_exit never runs under a device list or an open handle.
THEOREM NothingIsLeftOpen == AnySpec => []NothingOutlivesLibusb
  <1>1. OpenInv => NothingOutlivesLibusb
    BY DEF OpenInv, TypeOK, HoldingOK, HeldInv, WithHandle, Selected, NothingOutlivesLibusb
  <1> QED
    BY OpenInvariant, <1>1, PTL

\* What open_device opens is the device asked for, and no driver has it.
THEOREM OpenedAsWanted == AnySpec => []OpenedIsWanted
  <1>1. OpenInv => OpenedIsWanted
    <2> SUFFICES ASSUME OpenInv, pc = "opened"
                 PROVE  /\ handle /\ claimed /\ error = "None"
                        /\ chosen.path = path /\ Listed(chosen.device, crit, "both")
                        /\ Present => <<path, Number>> \notin drivers
      BY DEF OpenedIsWanted
    <2>1. handle /\ claimed
      BY DEF OpenInv, HeldInv, WithHandle
    <2>2. error = "None" /\ chosen.path = path /\ Eligible(chosen.device, crit, "both")
      BY DEF OpenInv, ChosenInv, Selected
    <2>3. Present => Mine \notin drivers
      BY DEF OpenInv, DriverInv
    <2> QED
      BY <2>1, <2>2, <2>3, FiltersAgree DEF Mine
  <1> QED
    BY OpenInvariant, <1>1, PTL

\* open_device finds what list_download_devices has found, if the bus is the same.
THEOREM ListedAreFound == AnySpec => []ListedIsFound
  BY OpenInvariant, PTL DEF OpenInv, ListedInv

-----------------------------------------------------------------------------
(* Arguments: the inductive invariant of CommandLine.                      *)

\* The options that take a value.
WithValue == DOMAIN Line!FieldOf

\* Argument n is not a value: an even number of such options stands in front of it.
Stands(n) == \E m \in 0..(n - 1) : m % 2 = 0 /\ Line!Behind(n, m)

\* Where one of the words is used in front of argument n, and the last such place.
Before(words, n) == {q \in Line!Uses(words) : q < n}
IsLast(q, words, n) == q \in Before(words, n) /\ \A r \in Before(words, n) : r <= q

Levels == {"--quiet", "--verbose", "--debug"}

\* The option w is as the last use of it says.
ValueRead(w, n) ==
    \/ Before({w}, n) = {} /\ cfg[Line!FieldOf[w]] = Line!Default[Line!FieldOf[w]]
    \/ \E q \in Before({w}, n) :
          IsLast(q, {w}, n) /\ q < Len(args) /\ cfg[Line!FieldOf[w]] = Line!ValueOf(w, args[q + 1])

SwitchesRead(n) ==
    /\ cfg.dry_run = (Before({"--check-only"}, n) # {})
    /\ cfg.allow_unknown = (Before({"--allow-unknown"}, n) # {})
    /\ cfg.reboot = (Before({"--reboot"}, n) # {})
    /\ cfg.redownload = (Before({"--redownload"}, n) # {})

LevelRead(n) ==
    /\ cfg.quiet \in BOOLEAN /\ cfg.verbose \in BOOLEAN /\ cfg.debug \in BOOLEAN
    /\ cfg.quiet <=> \E q \in Before(Levels, n) : IsLast(q, Levels, n) /\ args[q] = "--quiet"
    /\ cfg.quiet => ~cfg.verbose /\ ~cfg.debug
    /\ Before(Levels, n) # {} => \E q \in Before(Levels, n) : IsLast(q, Levels, n)

\* The configuration is that of the arguments in front of n.
ReadOK(n) ==
    /\ \A w \in WithValue : w # "-d" \/ reading # "run" => ValueRead(w, n)
    /\ SwitchesRead(n)
    /\ LevelRead(n)
    /\ Before(Line!Questions \cup Dashed, n) = {}

Chosen ==
    IF Line!LastValue("-d") # Line!Empty THEN cfg.device_path = Line!LastValue("-d")
    ELSE \E d \in Line!Found(cfg) : Line!Found(cfg) = {d} /\ cfg.device_path = d.path

(***************************************************************************)
(* The properties speak of a run; before there is one, what was read up to *)
(* argument i is what stands there, and argument i is read as an option    *)
(* and not as a value.                                                     *)
(***************************************************************************)
LineInv ==
    /\ args \in CommandLines /\ plugged \in Buses
    /\ i \in 1..(Len(args) + 1)
    /\ DOMAIN cfg = DOMAIN Line!Default
    /\ reading \in {"parse", "checks", "select", "run", "exit"}
    /\ reading = "parse" => Stands(i)
    /\ reading \in {"checks", "select", "run"} => i = Len(args) + 1 /\ level = Line!LevelOf(cfg)
    /\ reading # "exit" => ReadOK(i)
    /\ reading \in {"select", "run"} => ~Line!Senseless
    /\ reading = "select" => cfg.device_path = Line!Empty
    /\ reading = "run" => Chosen

-----------------------------------------------------------------------------
(* Options and values.                                                     *)

\* An argument is read as an option or as a value, never as both.
LEMMA NotValue ==
    ASSUME NEW n \in Nat, Stands(n)
    PROVE  ~Line!IsValue(n)
  <1> SUFFICES ASSUME NEW l \in 1..(n - 1), l % 2 = 1, Line!Behind(n, l) PROVE FALSE
    BY DEF Line!IsValue
  <1>1. PICK m \in 0..(n - 1) : m % 2 = 0 /\ Line!Behind(n, m)
    BY DEF Stands
  <1>2. CASE l < m
    <2>1. n - l > 1 /\ n - l - 1 \in (n - m)..(n - 1)
      BY <1>1, <1>2
    <2>2. QED  BY <1>1, <2>1 DEF Line!Behind
  <1>3. CASE m < l
    <2>1. n - m > 1 /\ n - m - 1 \in (n - l)..(n - 1)
      BY <1>1, <1>3
    <2>2. QED  BY <1>1, <2>1 DEF Line!Behind
  <1>4. l # m
    BY <1>1
  <1>5. QED  BY <1>2, <1>3, <1>4

\* What is in front of the next argument if this one takes no value.
LEMMA ReadOne ==
    ASSUME NEW n \in Nat, n \in 1..Len(args), Stands(n), args[n] \notin WithValue,
           NEW words
    PROVE  /\ Stands(n + 1)
           /\ Before(words, n + 1) = Before(words, n) \cup (IF args[n] \in words THEN {n} ELSE {})
  <1>1. Len(args) \in Nat /\ ~Line!IsValue(n)
    BY NotValue
  <1>2. Stands(n + 1)
    <2>1. Line!Behind(n + 1, 0)
      BY DEF Line!Behind, WithValue
    <2>2. 0 \in 0..(n + 1 - 1) /\ 0 % 2 = 0
      BY SMT
    <2>3. QED  BY <2>1, <2>2 DEF Stands
  <1>3. \A q \in 1..Len(args) : q < n + 1 <=> q < n \/ q = n
    BY <1>1
  <1>4. n \in Line!Uses(words) <=> args[n] \in words
    BY <1>1 DEF Line!Uses
  <1>5. QED  BY <1>2, <1>3, <1>4 DEF Before, Line!Uses

\* What is in front of the argument behind the value if this one takes a value.
LEMMA ReadTwo ==
    ASSUME NEW n \in Nat, n \in 1..Len(args), Stands(n), args[n] \in WithValue,
           n + 1 <= Len(args), NEW words
    PROVE  /\ Stands(n + 2)
           /\ Before(words, n + 2) = Before(words, n) \cup (IF args[n] \in words THEN {n} ELSE {})
  <1>1. Len(args) \in Nat /\ ~Line!IsValue(n)
    BY NotValue
  <1>2. PICK m \in 0..(n - 1) : m % 2 = 0 /\ Line!Behind(n, m)
    BY DEF Stands
  <1>3. Line!Behind(n + 1, m + 1)
    <2>1. \A j \in (n + 1 - (m + 1))..(n + 1 - 1) : j \in (n - m)..(n - 1) \/ j = n
      BY <1>2
    <2>2. n + 1 - (m + 1) = n - m
      BY <1>2
    <2>3. QED  BY <1>2, <2>1, <2>2 DEF Line!Behind, WithValue
  <1>4. Line!IsValue(n + 1)
    <2>1. m + 1 \in 1..(n + 1 - 1) /\ (m + 1) % 2 = 1
      BY <1>2
    <2>2. QED  BY <1>3, <2>1 DEF Line!IsValue
  <1>5. Stands(n + 2)
    <2>1. CASE args[n + 1] \in WithValue
      <3>1. Line!Behind(n + 2, m + 2)
        <4>1. \A j \in (n + 2 - (m + 2))..(n + 2 - 1) : j \in (n + 1 - (m + 1))..(n + 1 - 1) \/ j = n + 1
          BY <1>2
        <4>2. n + 2 - (m + 2) = n + 1 - (m + 1)
          BY <1>2
        <4>3. QED  BY <1>3, <2>1, <4>1, <4>2 DEF Line!Behind, WithValue
      <3>2. m + 2 \in 0..(n + 2 - 1) /\ (m + 2) % 2 = 0
        BY <1>2
      <3>3. QED  BY <3>1, <3>2 DEF Stands
    <2>2. CASE args[n + 1] \notin WithValue
      <3>1. n + 2 - 0 - 1 = n + 1 /\ ~(\E j \in Int : j \in (n + 2 - 0)..(n + 2 - 1))
        OBVIOUS
      <3>2. Line!Behind(n + 2, 0)
        BY <2>2, <3>1 DEF Line!Behind, WithValue
      <3>3. 0 \in 0..(n + 2 - 1) /\ 0 % 2 = 0
        BY SMT
      <3>4. QED  BY <3>2, <3>3 DEF Stands
    <2>3. QED  BY <2>1, <2>2
  <1>6. \A q \in 1..Len(args) : q < n + 2 <=> q < n \/ q = n \/ q = n + 1
    BY <1>1
  <1>7. (n \in Line!Uses(words) <=> args[n] \in words) /\ n + 1 \notin Line!Uses(words)
    BY <1>1, <1>4 DEF Line!Uses
  <1>8. QED  BY <1>5, <1>6, <1>7 DEF Before, Line!Uses

-----------------------------------------------------------------------------
(* The configuration.                                                      *)

LEMMA FieldNames ==
    /\ WithValue = {"-b", "-a", "-c", "-s", "-u", "-d", "--vid", "--pid", "--usb-interface"}
    /\ \A w \in WithValue :
          /\ Line!FieldOf[w] \in DOMAIN Line!Default
          /\ Line!FieldOf[w] \notin {"reboot", "redownload", "dry_run", "allow_unknown", "quiet", "verbose", "debug"}
          /\ Line!FieldOf[w] \in Line!Archives \/ w \in {"-d", "--vid", "--pid", "--usb-interface"}
          /\ w # "-d" => Line!FieldOf[w] # "device_path"
    /\ \A w, x \in WithValue : Line!FieldOf[w] = Line!FieldOf[x] => w = x
    /\ Line!FieldOf["-d"] = "device_path" /\ Line!FieldOf["--vid"] = "vid" /\ Line!FieldOf["--pid"] = "pid"
    /\ Line!FieldOf["--usb-interface"] = "usb_interface"
  <1>1. WithValue = {"-b", "-a", "-c", "-s", "-u", "-d", "--vid", "--pid", "--usb-interface"}
    BY DEF WithValue, Line!FieldOf
  <1>2. /\ Line!FieldOf["-b"] = "bootloader" /\ Line!FieldOf["-a"] = "ap" /\ Line!FieldOf["-c"] = "cp"
        /\ Line!FieldOf["-s"] = "csc" /\ Line!FieldOf["-u"] = "ums" /\ Line!FieldOf["-d"] = "device_path"
        /\ Line!FieldOf["--vid"] = "vid" /\ Line!FieldOf["--pid"] = "pid"
        /\ Line!FieldOf["--usb-interface"] = "usb_interface"
    BY DEF Line!FieldOf
  <1>3. DOMAIN Line!Default =
            {"bootloader", "ap", "cp", "csc", "ums", "device_path", "reboot", "redownload", "dry_run",
             "allow_unknown", "quiet", "verbose", "debug", "vid", "pid", "usb_interface"}
    BY DEF Line!Default
  <1>4. QED  BY <1>1, <1>2, <1>3 DEF Line!Archives

\* An option in front of which nothing new was read keeps what was read.
LEMMA KeepValue ==
    ASSUME NEW x \in WithValue, ValueRead(x, i), Before({x}, i)' = Before({x}, i),
           args' = args, cfg'[Line!FieldOf[x]] = cfg[Line!FieldOf[x]]
    PROVE  ValueRead(x, i)'
  BY DEF ValueRead, IsLast

\* An option that has just been read has the value behind it.
LEMMA NewValue ==
    ASSUME NEW x \in WithValue, i \in Nat, i < Len(args), Before({x}, i)' = Before({x}, i) \cup {i},
           args' = args, cfg'[Line!FieldOf[x]] = Line!ValueOf(x, args[i + 1])
    PROVE  ValueRead(x, i)'
  <1>1. \A r \in Before({x}, i) : r <= i
    BY DEF Before, Line!Uses
  <1>2. i \in Before({x}, i)' /\ \A r \in Before({x}, i)' : r \in Before({x}, i) \/ r = i
    OBVIOUS
  <1>3. \A r \in Before({x}, i)' : r <= i
    <2> SUFFICES ASSUME NEW r, r \in Before({x}, i)' PROVE r <= i
      OBVIOUS
    <2>1. r \in Before({x}, i) \/ r = i
      BY <1>2
    <2>2. CASE r \in Before({x}, i)
      BY <1>1, <2>2, Zenon
    <2>3. CASE r = i
      BY <2>3
    <2>4. QED  BY <2>1, <2>2, <2>3
  <1>4. QED  BY <1>2, <1>3 DEF ValueRead, IsLast

SwitchFields == {"reboot", "redownload", "dry_run", "allow_unknown", "quiet", "verbose", "debug"}

\* The level is that of the last word on it.
LEMMA KeepLevel ==
    ASSUME LevelRead(i), Before(Levels, i)' = Before(Levels, i), args' = args,
           cfg'.quiet = cfg.quiet, cfg'.verbose = cfg.verbose, cfg'.debug = cfg.debug
    PROVE  LevelRead(i)'
  BY DEF LevelRead, IsLast

LEMMA NewLevel ==
    ASSUME i \in Nat, Before(Levels, i)' = Before(Levels, i) \cup {i}, args' = args,
           cfg'.quiet \in BOOLEAN, cfg'.verbose \in BOOLEAN, cfg'.debug \in BOOLEAN,
           cfg'.quiet <=> args[i] = "--quiet", cfg'.quiet => ~cfg'.verbose /\ ~cfg'.debug
    PROVE  LevelRead(i)'
  <1>1. \A r \in Before(Levels, i) : r \in Nat /\ r < i
    BY DEF Before, Line!Uses
  <1>2. \A q : IsLast(q, Levels, i)' <=> q = i
    BY <1>1 DEF IsLast
  <1>3. i \in Before(Levels, i)'
    OBVIOUS
  <1>4. (\E q \in Before(Levels, i) : IsLast(q, Levels, i) /\ args[q] = "--quiet")' <=> args[i] = "--quiet"
    BY <1>2, <1>3
  <1>5. (\E q \in Before(Levels, i) : IsLast(q, Levels, i))'
    BY <1>2, <1>3
  <1>6. QED  BY <1>4, <1>5 DEF LevelRead

-----------------------------------------------------------------------------
(* Sets of one element, and the largest of a set of numbers.               *)

LEMMA LargestIsMax ==
    ASSUME NEW S, S \subseteq Int, NEW q \in S, \A r \in S : r <= q
    PROVE  Line!Max(S) = q
  <1> DEFINE Largest(x) == x \in S /\ \A y \in S : x >= y
  <1>1. q \in Int /\ Largest(q)
    OBVIOUS
  <1>2. Line!Max(S) = CHOOSE x : Largest(x)
    BY DEF Line!Max
  <1> HIDE DEF Largest
  <1>3. Largest(Line!Max(S))
    BY <1>1, <1>2, Zenon
  <1>4. Line!Max(S) \in S /\ Line!Max(S) >= q
    BY <1>3 DEF Largest
  <1>5. Line!Max(S) \in Int /\ Line!Max(S) <= q
    BY <1>4
  <1>6. QED  BY <1>1, <1>4, <1>5

LEMMA SameAsLibrary ==
    ASSUME NEW S
    PROVE  Line!Cardinality(S) = Cardinality(S) /\ (Line!IsFiniteSet(S) <=> IsFiniteSet(S))
  BY DEF Line!Cardinality, Cardinality, Line!IsFiniteSet, IsFiniteSet

LEMMA AtMostOne ==
    ASSUME NEW S, IsFiniteSet(S), Cardinality(S) <= 1, NEW d \in S
    PROVE  S = {d}
  <1> SUFFICES ASSUME NEW e \in S, e # d PROVE FALSE
    OBVIOUS
  <1>1. {d, e} \subseteq S /\ Cardinality({d, e}) = 2
    <2>1. IsFiniteSet({d}) /\ Cardinality({d}) = 1
      BY FS_Singleton
    <2>2. Cardinality({d} \cup {e}) = 1 + 1
      BY <2>1, FS_AddElement
    <2>3. {d} \cup {e} = {d, e}
      OBVIOUS
    <2>4. QED  BY <2>2, <2>3
  <1>2. Cardinality({d, e}) <= Cardinality(S)
    BY <1>1, FS_Subset
  <1>3. Cardinality(S) \in Nat
    BY FS_CardinalityType
  <1>4. QED  BY <1>1, <1>2, <1>3

-----------------------------------------------------------------------------
(* The invariant.                                                          *)

LEMMA Reading ==
    ASSUME Line!CommandLineAssumption, LineInv, Line!Parsing
    PROVE  i \in Nat /\ i \in 1..Len(args) /\ Len(args) \in Nat /\ Stands(i) /\ ReadOK(i)
  <1>1. /\ args \in CommandLines /\ i \in 1..(Len(args) + 1) /\ i <= Len(args)
        /\ Stands(i) /\ ReadOK(i)
    BY DEF LineInv, Line!Parsing
  <1>2. args \in Seq(STRING)
    BY <1>1 DEF Line!CommandLineAssumption
  <1>3. Len(args) \in Nat
    BY <1>2
  <1>4. QED  BY <1>1, <1>3

LEMMA OneStep ==
    ASSUME Line!CommandLineAssumption, LineInv, Line!Parsing, Line!Arg \notin WithValue, i' = i + 1, args' = args, NEW words
    PROVE  /\ Stands(i)' /\ i' \in 1..(Len(args) + 1)'
           /\ Before(words, i)' = Before(words, i) \cup (IF Line!Arg \in words THEN {i} ELSE {})
  <1>1. i \in Nat /\ i \in 1..Len(args) /\ Stands(i)
    BY Reading
  <1>2. Stands(i + 1) /\ Before(words, i + 1) = Before(words, i) \cup (IF Line!Arg \in words THEN {i} ELSE {})
    BY <1>1, ReadOne DEF Line!Arg
  <1>3. Stands(i)' /\ Before(words, i)' = Before(words, i + 1)
    BY <1>2 DEF Stands, Before, Line!Behind, Line!Uses, Line!IsValue
  <1>4. QED  BY <1>1, <1>2, <1>3

LEMMA TwoSteps ==
    ASSUME Line!CommandLineAssumption, LineInv, Line!Parsing, Line!Arg \in WithValue, i + 1 <= Len(args),
           i' = i + 2, args' = args, NEW words
    PROVE  /\ Stands(i)' /\ i' \in 1..(Len(args) + 1)'
           /\ Before(words, i)' = Before(words, i) \cup (IF Line!Arg \in words THEN {i} ELSE {})
  <1>1. i \in Nat /\ i \in 1..Len(args) /\ Stands(i)
    BY Reading
  <1>2. Stands(i + 2) /\ Before(words, i + 2) = Before(words, i) \cup (IF Line!Arg \in words THEN {i} ELSE {})
    BY <1>1, ReadTwo DEF Line!Arg
  <1>3. Stands(i)' /\ Before(words, i)' = Before(words, i + 2)
    BY <1>2 DEF Stands, Before, Line!Behind, Line!Uses, Line!IsValue
  <1>4. QED  BY <1>1, <1>2, <1>3

LEMMA KeepSwitches ==
    ASSUME SwitchesRead(i),
           Before({"--check-only"}, i)' = Before({"--check-only"}, i),
           Before({"--allow-unknown"}, i)' = Before({"--allow-unknown"}, i),
           Before({"--reboot"}, i)' = Before({"--reboot"}, i),
           Before({"--redownload"}, i)' = Before({"--redownload"}, i),
           \A f \in SwitchFields : cfg'[f] = cfg[f]
    PROVE  SwitchesRead(i)'
  BY DEF SwitchesRead, SwitchFields

\* A word that is not this argument is used no more than before.
LEMMA OneStepOther ==
    ASSUME Line!CommandLineAssumption, LineInv, Line!Parsing, Line!Arg \notin WithValue, i' = i + 1, args' = args,
           NEW words, Line!Arg \notin words
    PROVE  Before(words, i)' = Before(words, i)
  <1>1. Before(words, i)' = Before(words, i) \cup (IF Line!Arg \in words THEN {i} ELSE {})
    BY OneStep
  <1>2. QED  BY <1>1

LEMMA TwoStepsOther ==
    ASSUME Line!CommandLineAssumption, LineInv, Line!Parsing, Line!Arg \in WithValue, i + 1 <= Len(args),
           i' = i + 2, args' = args, NEW words, Line!Arg \notin words
    PROVE  Before(words, i)' = Before(words, i)
  <1>1. Before(words, i)' = Before(words, i) \cup (IF Line!Arg \in words THEN {i} ELSE {})
    BY TwoSteps
  <1>2. QED  BY <1>1

LEMMA Switched ==
    ASSUME DOMAIN cfg = DOMAIN Line!Default, cfg.quiet \in BOOLEAN, cfg.verbose \in BOOLEAN,
           cfg.debug \in BOOLEAN, Line!Arg \in Line!Switches, cfg' = Line!Flags[Line!Arg]
    PROVE  /\ DOMAIN cfg' = DOMAIN Line!Default
           /\ \A f \in DOMAIN Line!Default \ SwitchFields : cfg'[f] = cfg[f]
           /\ cfg'.dry_run = IF Line!Arg = "--check-only" THEN TRUE ELSE cfg.dry_run
           /\ cfg'.allow_unknown = IF Line!Arg = "--allow-unknown" THEN TRUE ELSE cfg.allow_unknown
           /\ cfg'.reboot = IF Line!Arg = "--reboot" THEN TRUE ELSE cfg.reboot
           /\ cfg'.redownload = IF Line!Arg = "--redownload" THEN TRUE ELSE cfg.redownload
           /\ Line!Arg \notin Levels =>
                 cfg'.quiet = cfg.quiet /\ cfg'.verbose = cfg.verbose /\ cfg'.debug = cfg.debug
           /\ Line!Arg \in Levels =>
                 /\ cfg'.quiet \in BOOLEAN /\ cfg'.verbose \in BOOLEAN /\ cfg'.debug \in BOOLEAN
                 /\ cfg'.quiet <=> Line!Arg = "--quiet"
                 /\ cfg'.quiet => ~cfg'.verbose /\ ~cfg'.debug
  <1>1. SwitchFields \subseteq DOMAIN cfg
    BY DEF SwitchFields, Line!Default
  <1>2. CASE Line!Arg = "--quiet"
    <2>1. cfg' = [cfg EXCEPT !.quiet = TRUE, !.verbose = FALSE, !.debug = FALSE]
      BY <1>2 DEF Line!Flags, Line!Quieter, Line!Switches
    <2>2. QED  BY <1>1, <1>2, <2>1 DEF SwitchFields, Levels
  <1>3. CASE Line!Arg = "--verbose"
    <2>1. cfg' = [cfg EXCEPT !.verbose = TRUE, !.quiet = FALSE]
      BY <1>3 DEF Line!Flags, Line!Switches
    <2>2. QED  BY <1>1, <1>3, <2>1 DEF SwitchFields, Levels
  <1>4. CASE Line!Arg = "--debug"
    <2>1. cfg' = [cfg EXCEPT !.debug = TRUE, !.verbose = TRUE, !.quiet = FALSE]
      BY <1>4 DEF Line!Flags, Line!Switches
    <2>2. QED  BY <1>1, <1>4, <2>1 DEF SwitchFields, Levels
  <1>5. CASE Line!Arg = "--reboot"
    <2>1. cfg' = [cfg EXCEPT !.reboot = TRUE]
      BY <1>5 DEF Line!Flags, Line!Switches
    <2>2. QED  BY <1>1, <1>5, <2>1 DEF SwitchFields, Levels
  <1>6. CASE Line!Arg = "--redownload"
    <2>1. cfg' = [cfg EXCEPT !.redownload = TRUE]
      BY <1>6 DEF Line!Flags, Line!Switches
    <2>2. QED  BY <1>1, <1>6, <2>1 DEF SwitchFields, Levels
  <1>7. CASE Line!Arg = "--check-only"
    <2>1. cfg' = [cfg EXCEPT !.dry_run = TRUE]
      BY <1>7 DEF Line!Flags, Line!Switches
    <2>2. QED  BY <1>1, <1>7, <2>1 DEF SwitchFields, Levels
  <1>8. CASE Line!Arg = "--allow-unknown"
    <2>1. cfg' = [cfg EXCEPT !.allow_unknown = TRUE]
      BY <1>8 DEF Line!Flags, Line!Switches
    <2>2. QED  BY <1>1, <1>8, <2>1 DEF SwitchFields, Levels
  <1>9. QED  BY <1>2, <1>3, <1>4, <1>5, <1>6, <1>7, <1>8 DEF Line!Switches

\* An option is not a switch, and only switches are looked for in front of the run.
LEMMA Disjoint ==
    ASSUME Line!CommandLineAssumption
    PROVE  /\ WithValue \cap Line!Switches = {} /\ (Line!Questions \cup Dashed) \cap (WithValue \cup Line!Switches) = {}
           /\ Levels \subseteq Line!Switches
           /\ {"--check-only", "--allow-unknown", "--reboot", "--redownload"} \subseteq Line!Switches
  <1>1. Dashed \cap (Line!Questions \cup Line!Switches \cup WithValue) = {}
    BY DEF Line!CommandLineAssumption, WithValue
  <1>2. Line!Questions \cap (WithValue \cup Line!Switches) = {} /\ WithValue \cap Line!Switches = {}
    BY FieldNames DEF Line!Questions, Line!Switches
  <1>3. /\ Levels \subseteq Line!Switches
        /\ {"--check-only", "--allow-unknown", "--reboot", "--redownload"} \subseteq Line!Switches
    BY DEF Levels, Line!Switches
  <1>4. QED  BY <1>1, <1>2, <1>3

LEMMA SwitchStep ==
    ASSUME Line!CommandLineAssumption, LineInv, Line!SetFlag
    PROVE  LineInv'
  <1>1. /\ Line!Parsing /\ Line!Arg \in Line!Switches /\ cfg' = Line!Flags[Line!Arg] /\ i' = i + 1
        /\ UNCHANGED <<args, plugged, level, devices, reading, rc>> /\ reading = "parse"
    BY DEF Line!SetFlag, Line!Parsing
  <1>2. /\ ReadOK(i) /\ i \in Nat /\ DOMAIN cfg = DOMAIN Line!Default
    BY <1>1, Reading DEF LineInv
  <1>3. Line!Arg \notin WithValue /\ Line!Arg \notin Line!Questions \cup Dashed
    BY <1>1, Disjoint
  <1>4. Stands(i)' /\ i' \in 1..(Len(args) + 1)'
    BY <1>1, <1>3, OneStep
  <1>5. \A w \in WithValue : ValueRead(w, i)'
    <2> SUFFICES ASSUME NEW w \in WithValue PROVE ValueRead(w, i)'
      OBVIOUS
    <2>1. Before({w}, i)' = Before({w}, i)
      <3>1. Line!Arg \notin {w}
        BY <1>3
      <3>2. QED  BY <1>1, <1>3, <3>1, OneStepOther
    <2>2. cfg'[Line!FieldOf[w]] = cfg[Line!FieldOf[w]]
      <3>1. Line!FieldOf[w] \in DOMAIN Line!Default \ SwitchFields
        BY FieldNames DEF SwitchFields
      <3>2. QED  BY <1>1, <1>2, <3>1, Switched DEF ReadOK, LevelRead
    <2>3. ValueRead(w, i)
      BY <1>1, <1>2 DEF ReadOK
    <2>4. QED  BY <1>1, <2>1, <2>2, <2>3, KeepValue
  <1>6. SwitchesRead(i)'
    <2>1. /\ Before({"--check-only"}, i)' = Before({"--check-only"}, i) \cup (IF Line!Arg \in {"--check-only"} THEN {i} ELSE {})
          /\ Before({"--allow-unknown"}, i)' = Before({"--allow-unknown"}, i) \cup (IF Line!Arg \in {"--allow-unknown"} THEN {i} ELSE {})
          /\ Before({"--reboot"}, i)' = Before({"--reboot"}, i) \cup (IF Line!Arg \in {"--reboot"} THEN {i} ELSE {})
          /\ Before({"--redownload"}, i)' = Before({"--redownload"}, i) \cup (IF Line!Arg \in {"--redownload"} THEN {i} ELSE {})
      BY <1>1, <1>3, OneStep
    <2>2. /\ cfg'.dry_run = IF Line!Arg = "--check-only" THEN TRUE ELSE cfg.dry_run
          /\ cfg'.allow_unknown = IF Line!Arg = "--allow-unknown" THEN TRUE ELSE cfg.allow_unknown
          /\ cfg'.reboot = IF Line!Arg = "--reboot" THEN TRUE ELSE cfg.reboot
          /\ cfg'.redownload = IF Line!Arg = "--redownload" THEN TRUE ELSE cfg.redownload
      BY <1>1, <1>2, Switched DEF ReadOK, LevelRead
    <2>3. SwitchesRead(i)
      BY <1>2 DEF ReadOK
    <2>4. QED  BY <2>1, <2>2, <2>3 DEF SwitchesRead
  <1>7. LevelRead(i)'
    <2>1. Before(Levels, i)' = Before(Levels, i) \cup (IF Line!Arg \in Levels THEN {i} ELSE {})
      BY <1>1, <1>3, OneStep
    <2>2. CASE Line!Arg \in Levels
      BY <1>1, <1>2, <2>1, <2>2, Switched, NewLevel DEF ReadOK, LevelRead, Line!Arg
    <2>3. CASE Line!Arg \notin Levels
      BY <1>1, <1>2, <2>1, <2>3, Switched, KeepLevel DEF ReadOK, LevelRead
    <2>4. QED  BY <2>2, <2>3
  <1>8. Before(Line!Questions \cup Dashed, i)' = {}
    BY <1>1, <1>2, <1>3, OneStep DEF ReadOK
  <1>9. DOMAIN cfg' = DOMAIN Line!Default
    BY <1>1, <1>2, Switched DEF ReadOK, LevelRead
  <1>10. ReadOK(i)'
    BY <1>5, <1>6, <1>7, <1>8 DEF ReadOK
  <1>11. args' = args /\ plugged' = plugged /\ args \in CommandLines /\ plugged \in Buses /\ reading' = "parse"
    BY <1>1 DEF LineInv
  <1>12. QED  BY <1>4, <1>9, <1>10, <1>11 DEF LineInv

LEMMA ValueStep ==
    ASSUME Line!CommandLineAssumption, LineInv, Line!SetValue, reading' # "exit"
    PROVE  LineInv'
  <1> DEFINE v == Line!ValueOf(Line!Arg, args[i + 1])
  <1>1. /\ Line!Parsing /\ Line!Arg \in WithValue /\ reading = "parse"
        /\ i + 1 <= Len(args) /\ cfg' = [cfg EXCEPT ![Line!FieldOf[Line!Arg]] = v] /\ i' = i + 2
        /\ UNCHANGED <<args, plugged, level, devices, reading, rc>>
    BY DEF Line!SetValue, Line!Parsing, Line!Exit, Line!AfterValue, WithValue
  <1> HIDE DEF v
  <1>2. /\ ReadOK(i) /\ i \in Nat /\ Len(args) \in Nat /\ DOMAIN cfg = DOMAIN Line!Default
    BY <1>1, Reading DEF LineInv
  <1>3. Line!Arg \notin Line!Switches /\ Line!Arg \notin Line!Questions \cup Dashed
    BY <1>1, Disjoint
  <1>4. Stands(i)' /\ i' \in 1..(Len(args) + 1)'
    BY <1>1, TwoSteps
  <1>5. Line!FieldOf[Line!Arg] \in DOMAIN cfg /\ Line!FieldOf[Line!Arg] \notin SwitchFields
    BY <1>1, <1>2, FieldNames DEF SwitchFields
  <1>6. /\ DOMAIN cfg' = DOMAIN Line!Default /\ cfg'[Line!FieldOf[Line!Arg]] = v
        /\ \A f \in DOMAIN Line!Default : f # Line!FieldOf[Line!Arg] => cfg'[f] = cfg[f]
    BY <1>1, <1>2, <1>5
  <1>7. \A w \in WithValue : ValueRead(w, i)'
    <2> SUFFICES ASSUME NEW w \in WithValue PROVE ValueRead(w, i)'
      OBVIOUS
    <2>1. CASE w = Line!Arg
      <3>1. Before({w}, i)' = Before({w}, i) \cup {i}
        BY <1>1, <2>1, TwoSteps
      <3>2. i < Len(args)
        BY <1>1, <1>2
      <3>3. QED  BY <1>1, <1>2, <1>6, <2>1, <3>1, <3>2, NewValue DEF v
    <2>2. CASE w # Line!Arg
      <3>1. Line!Arg \notin {w}
        BY <2>2
      <3>2. Before({w}, i)' = Before({w}, i)
        BY <1>1, <3>1, TwoStepsOther
      <3>3. Line!FieldOf[w] \in DOMAIN Line!Default /\ Line!FieldOf[w] # Line!FieldOf[Line!Arg]
        BY <1>1, <2>2, FieldNames
      <3>4. cfg'[Line!FieldOf[w]] = cfg[Line!FieldOf[w]]
        BY <1>6, <3>3
      <3>5. ValueRead(w, i)
        BY <1>1, <1>2 DEF ReadOK
      <3>6. QED  BY <1>1, <3>2, <3>4, <3>5, KeepValue
    <2>3. QED  BY <2>1, <2>2
  <1>8. SwitchFields \subseteq DOMAIN Line!Default
    BY DEF SwitchFields, Line!Default
  <1>9. \A f \in SwitchFields : cfg'[f] = cfg[f]
    BY <1>5, <1>6, <1>8
  <1>10. SwitchesRead(i)'
    <2>1. Line!Arg \notin {"--check-only"} /\ Line!Arg \notin {"--allow-unknown"} /\ Line!Arg \notin {"--reboot"}
          /\ Line!Arg \notin {"--redownload"}
      BY <1>3, Disjoint
    <2>2. /\ Before({"--check-only"}, i)' = Before({"--check-only"}, i)
          /\ Before({"--allow-unknown"}, i)' = Before({"--allow-unknown"}, i)
          /\ Before({"--reboot"}, i)' = Before({"--reboot"}, i)
          /\ Before({"--redownload"}, i)' = Before({"--redownload"}, i)
      BY <1>1, <2>1, TwoStepsOther
    <2>3. QED  BY <1>2, <1>9, <2>2, KeepSwitches DEF ReadOK
  <1>11. LevelRead(i)'
    <2>0. Line!Arg \notin Levels
      BY <1>3, Disjoint
    <2>1. Before(Levels, i)' = Before(Levels, i)
      BY <1>1, <2>0, TwoStepsOther
    <2>2. cfg'.quiet = cfg.quiet /\ cfg'.verbose = cfg.verbose /\ cfg'.debug = cfg.debug
      BY <1>9 DEF SwitchFields
    <2>3. QED  BY <1>1, <1>2, <2>1, <2>2, KeepLevel DEF ReadOK
  <1>12. Before(Line!Questions \cup Dashed, i)' = {}
    BY <1>1, <1>2, <1>3, TwoSteps DEF ReadOK
  <1>13. ReadOK(i)'
    BY <1>7, <1>10, <1>11, <1>12 DEF ReadOK
  <1>14. args' = args /\ plugged' = plugged /\ args \in CommandLines /\ plugged \in Buses /\ reading' = "parse"
    BY <1>1 DEF LineInv
  <1>15. QED  BY <1>4, <1>6, <1>13, <1>14 DEF LineInv

\* What was read stays if nothing new is.
LEMMA NothingRead ==
    ASSUME ReadOK(i), cfg' = cfg, args' = args, reading' = "run" \/ reading # "run",
           \A words : words \in SUBSET Line!Options => Before(words, i)' = Before(words, i)
    PROVE  ReadOK(i)'
  <1>1. \A w \in WithValue : w # "-d" \/ reading # "run" => ValueRead(w, i)'
    <2> SUFFICES ASSUME NEW w \in WithValue, w # "-d" \/ reading # "run" PROVE ValueRead(w, i)'
      OBVIOUS
    <2>1. {w} \in SUBSET Line!Options
      BY DEF Line!Options, WithValue
    <2>2. Before({w}, i)' = Before({w}, i)
      BY <2>1
    <2>3. ValueRead(w, i)
      BY DEF ReadOK
    <2>4. QED  BY <2>2, <2>3, KeepValue
  <1>2. SwitchesRead(i)'
    <2>1. {"--check-only"} \in SUBSET Line!Options /\ {"--allow-unknown"} \in SUBSET Line!Options
          /\ {"--reboot"} \in SUBSET Line!Options /\ {"--redownload"} \in SUBSET Line!Options
      BY DEF Line!Options, Line!Switches
    <2>2. /\ Before({"--check-only"}, i)' = Before({"--check-only"}, i)
          /\ Before({"--allow-unknown"}, i)' = Before({"--allow-unknown"}, i)
          /\ Before({"--reboot"}, i)' = Before({"--reboot"}, i)
          /\ Before({"--redownload"}, i)' = Before({"--redownload"}, i)
      BY <2>1
    <2>3. QED  BY <2>2, KeepSwitches DEF ReadOK
  <1>3. LevelRead(i)'
    <2>1. Levels \in SUBSET Line!Options
      BY DEF Levels, Line!Options, Line!Switches
    <2>2. QED  BY <2>1, KeepLevel DEF ReadOK
  <1>4. Before(Line!Questions \cup Dashed, i)' = {}
    <2>1. Line!Questions \cup Dashed \in SUBSET Line!Options
      BY DEF Line!Options
    <2>2. QED  BY <2>1 DEF ReadOK
  <1>5. QED  BY <1>1, <1>2, <1>3, <1>4 DEF ReadOK

LEMMA PassStep ==
    ASSUME Line!CommandLineAssumption, LineInv, Line!PassOver
    PROVE  LineInv'
  <1>1. /\ Line!Parsing /\ Line!Arg \notin Line!Options /\ i' = i + 1
        /\ UNCHANGED <<args, plugged, cfg, level, devices, reading, rc>> /\ reading = "parse"
    BY DEF Line!PassOver, Line!Parsing
  <1>2. ReadOK(i)
    BY <1>1, Reading
  <1>3. Line!Arg \notin WithValue
    BY <1>1 DEF Line!Options, WithValue
  <1>4. Stands(i)' /\ i' \in 1..(Len(args) + 1)'
    BY <1>1, <1>3, OneStep
  <1>5. ASSUME NEW words \in SUBSET Line!Options PROVE Before(words, i)' = Before(words, i)
    <2>1. Line!Arg \notin words
      BY <1>1
    <2>2. QED  BY <1>1, <1>3, <2>1, OneStepOther
  <1>6. ReadOK(i)'
    BY <1>1, <1>2, <1>5, NothingRead
  <1>7. QED  BY <1>1, <1>4, <1>6 DEF LineInv

\* The arguments stand still from here on.
LEMMA Still ==
    ASSUME args' = args, i' = i, NEW words
    PROVE  Before(words, i)' = Before(words, i)
  BY DEF Before, Line!Uses, Line!IsValue, Line!Behind

LEMMA EndStep ==
    ASSUME Line!CommandLineAssumption, LineInv, Line!EndOfArguments
    PROVE  LineInv'
  <1>1. /\ reading = "parse" /\ reading' = "checks" /\ i > Len(args) /\ level' = Line!LevelOf(cfg)
        /\ UNCHANGED <<args, plugged, i, cfg, devices, rc>>
    BY DEF Line!EndOfArguments
  <1>2. ReadOK(i)'
    <2>1. ReadOK(i)
      BY <1>1 DEF LineInv
    <2>2. QED  BY <1>1, <2>1, Still, NothingRead
  <1>3. i = Len(args) + 1
    <2>1. args \in Seq(STRING)
      BY DEF LineInv, Line!CommandLineAssumption
    <2>2. i \in 1..(Len(args) + 1) /\ Len(args) \in Nat
      BY <2>1 DEF LineInv
    <2>3. QED  BY <1>1, <2>2
  <1>4. level' = Line!LevelOf(cfg)'
    BY <1>1 DEF Line!LevelOf
  <1>5. QED  BY <1>1, <1>2, <1>3, <1>4 DEF LineInv

\* At the end an option has the value behind its last use.
LEMMA ReadWhole ==
    ASSUME Line!CommandLineAssumption, args \in CommandLines, i = Len(args) + 1
    PROVE  /\ \A words : Before(words, i) = Line!Uses(words)
           /\ \A w \in WithValue : ValueRead(w, i) => cfg[Line!FieldOf[w]] = Line!LastValue(w)
  <1>1. Len(args) \in Nat
    <2>1. args \in Seq(STRING)
      BY DEF Line!CommandLineAssumption
    <2>2. QED  BY <2>1
  <1>2. ASSUME NEW words PROVE Before(words, i) = Line!Uses(words)
    BY <1>1 DEF Before, Line!Uses
  <1>3. ASSUME NEW w \in WithValue, ValueRead(w, i) PROVE cfg[Line!FieldOf[w]] = Line!LastValue(w)
    <2>1. Before({w}, i) = Line!Uses({w})
      BY <1>2
    <2>2. CASE Line!Uses({w}) = {}
      BY <1>3, <2>1, <2>2 DEF ValueRead, Line!LastValue
    <2>3. CASE Line!Uses({w}) # {}
      <3>1. PICK q \in Line!Uses({w}) :
               (\A r \in Line!Uses({w}) : r <= q) /\ cfg[Line!FieldOf[w]] = Line!ValueOf(w, args[q + 1])
        BY <1>3, <2>1, <2>3 DEF ValueRead, IsLast
      <3>2. Line!Max(Line!Uses({w})) = q
        <4>1. Line!Uses({w}) \subseteq Int
          BY <1>1 DEF Line!Uses
        <4>2. QED  BY <3>1, <4>1, LargestIsMax
      <3>3. QED  BY <2>3, <3>1, <3>2 DEF Line!LastValue
    <2>4. QED  BY <2>2, <2>3
  <1>4. QED  BY <1>2, <1>3

LEMMA CheckStep ==
    ASSUME Line!CommandLineAssumption, LineInv, Line!CheckConfig, reading' # "exit"
    PROVE  LineInv'
  <1>1. /\ reading = "checks" /\ ~Line!Senseless /\ reading' = IF cfg.device_path = Line!Empty THEN "select" ELSE "run"
        /\ UNCHANGED <<args, plugged, i, cfg, level, devices, rc>>
    BY DEF Line!CheckConfig, Line!Exit
  <1>2. i = Len(args) + 1 /\ level = Line!LevelOf(cfg) /\ ReadOK(i)
    BY <1>1 DEF LineInv
  <1>3. ReadOK(i)'
    BY <1>1, <1>2, Still, NothingRead
  <1>4. ~Line!Senseless' /\ level' = Line!LevelOf(cfg)'
    BY <1>1, <1>2 DEF Line!Senseless, Line!HasFirmware, Line!LevelOf
  <1>5. CASE cfg.device_path = Line!Empty
    BY <1>1, <1>2, <1>3, <1>4, <1>5 DEF LineInv
  <1>6. CASE cfg.device_path # Line!Empty
    <2>1. cfg.device_path = Line!LastValue("-d")
      <3>1. "-d" \in WithValue /\ Line!FieldOf["-d"] = "device_path" /\ args \in CommandLines
        BY FieldNames DEF LineInv
      <3>2. ValueRead("-d", i)
        BY <1>1, <1>2, <3>1 DEF ReadOK
      <3>3. QED  BY <1>2, <3>1, <3>2, ReadWhole
    <2>2. Line!LastValue("-d")' = Line!LastValue("-d")
      BY <1>1 DEF Line!LastValue, Line!Uses, Line!IsValue, Line!Behind
    <2>3. Chosen'
      BY <1>1, <1>6, <2>1, <2>2 DEF Chosen
    <2>4. QED  BY <1>1, <1>2, <1>3, <1>4, <1>6, <2>3 DEF LineInv
  <1>7. QED  BY <1>5, <1>6

LEMMA SelectStep ==
    ASSUME Line!CommandLineAssumption, LineInv, Line!SelectDevice, reading' # "exit"
    PROVE  LineInv'
  <1>1. /\ reading = "select" /\ reading' = "run" /\ devices' = Line!Found(cfg) /\ devices' # {} /\ ~Line!Ambiguous(devices')
        /\ \E d \in devices' : cfg' = [cfg EXCEPT !.device_path = d.path]
        /\ UNCHANGED <<args, plugged, i, level>>
    BY DEF Line!SelectDevice, Line!Exit
  <1>2. /\ i = Len(args) + 1 /\ level = Line!LevelOf(cfg) /\ ReadOK(i) /\ ~Line!Senseless
        /\ cfg.device_path = Line!Empty /\ args \in CommandLines /\ plugged \in Buses /\ DOMAIN cfg = DOMAIN Line!Default
    BY <1>1 DEF LineInv
  <1>3. PICK d \in Line!Found(cfg) : cfg' = [cfg EXCEPT !.device_path = d.path]
    BY <1>1
  <1>4. /\ DOMAIN cfg' = DOMAIN Line!Default /\ cfg'.device_path = d.path
        /\ \A f \in DOMAIN Line!Default : f # "device_path" => cfg'[f] = cfg[f]
    BY <1>2, <1>3 DEF Line!Default
  <1>5. Line!Found(cfg) = {d}
    <2>1. IsFiniteSet(Line!Found(cfg))
      <3>1. Line!IsFiniteSet(plugged) /\ Line!Found(cfg) \subseteq plugged
        BY <1>2 DEF Line!CommandLineAssumption, Line!Found
      <3>2. QED  BY <3>1, FS_Subset, SameAsLibrary
    <2>2. Cardinality(Line!Found(cfg)) <= 1
      <3>1. Cardinality(Line!Found(cfg)) \in Nat
        BY <2>1, FS_CardinalityType
      <3>2. QED  BY <1>1, <3>1, SameAsLibrary DEF Line!Ambiguous
    <2>3. QED  BY <1>3, <2>1, <2>2, AtMostOne
  <1>6. Line!Found(cfg)' = Line!Found(cfg)
    <2>1. cfg'.vid = cfg.vid /\ cfg'.pid = cfg.pid /\ cfg'.usb_interface = cfg.usb_interface
      BY <1>4 DEF Line!Default
    <2>2. QED  BY <1>1, <2>1 DEF Line!Found, Line!Wanted
  <1>7. Line!LastValue("-d")' = Line!LastValue("-d")
    BY <1>1 DEF Line!LastValue, Line!Uses, Line!IsValue, Line!Behind
  <1>8. Line!LastValue("-d") = Line!Empty
    <2>1. "-d" \in WithValue /\ Line!FieldOf["-d"] = "device_path"
      BY FieldNames
    <2>2. ValueRead("-d", i)
      BY <1>1, <1>2, <2>1 DEF ReadOK
    <2>3. QED  BY <1>2, <2>1, <2>2, ReadWhole
  <1>9. Chosen'
    BY <1>4, <1>5, <1>6, <1>7, <1>8 DEF Chosen
  <1>10. /\ cfg'.quiet = cfg.quiet /\ cfg'.verbose = cfg.verbose /\ cfg'.debug = cfg.debug
         /\ cfg'.dry_run = cfg.dry_run /\ cfg'.reboot = cfg.reboot /\ cfg'.redownload = cfg.redownload
         /\ cfg'.allow_unknown = cfg.allow_unknown /\ \A a \in Line!Archives : cfg'[a] = cfg[a]
    BY <1>4 DEF Line!Default, Line!Archives
  <1>11. ~Line!Senseless' /\ level' = Line!LevelOf(cfg)'
    <2>1. Line!HasFirmware(cfg)' <=> Line!HasFirmware(cfg)
      BY <1>10 DEF Line!HasFirmware
    <2>2. QED  BY <1>1, <1>2, <1>10, <2>1 DEF Line!Senseless, Line!LevelOf
  <1>12. ReadOK(i)'
    <2>1. ASSUME NEW w \in WithValue, w # "-d" PROVE ValueRead(w, i)'
      <3>1. Line!FieldOf[w] \in DOMAIN Line!Default /\ Line!FieldOf[w] # "device_path"
        BY <2>1, FieldNames
      <3>2. cfg'[Line!FieldOf[w]] = cfg[Line!FieldOf[w]]
        BY <1>4, <3>1
      <3>3. Before({w}, i)' = Before({w}, i)
        BY <1>1, Still
      <3>4. ValueRead(w, i)
        BY <1>2, <2>1 DEF ReadOK
      <3>5. QED  BY <1>1, <3>2, <3>3, <3>4, KeepValue
    <2>2. SwitchesRead(i)'
      <3>1. \A f \in SwitchFields : cfg'[f] = cfg[f]
        BY <1>10 DEF SwitchFields
      <3>2. SwitchesRead(i)
        BY <1>2 DEF ReadOK
      <3>3. /\ Before({"--check-only"}, i)' = Before({"--check-only"}, i)
            /\ Before({"--allow-unknown"}, i)' = Before({"--allow-unknown"}, i)
            /\ Before({"--reboot"}, i)' = Before({"--reboot"}, i)
            /\ Before({"--redownload"}, i)' = Before({"--redownload"}, i)
        BY <1>1, Still
      <3>4. QED  BY <3>1, <3>2, <3>3, KeepSwitches
    <2>3. LevelRead(i)'
      <3>1. Before(Levels, i)' = Before(Levels, i) /\ LevelRead(i)
        BY <1>1, <1>2, Still DEF ReadOK
      <3>2. QED  BY <1>1, <1>10, <3>1, KeepLevel
    <2>4. Before(Line!Questions \cup Dashed, i)' = {}
      <3>1. Before(Line!Questions \cup Dashed, i) = {}
        BY <1>2 DEF ReadOK
      <3>2. QED  BY <1>1, <3>1, Still
    <2>5. QED  BY <1>1, <2>1, <2>2, <2>3, <2>4 DEF ReadOK
  <1>13. QED  BY <1>1, <1>2, <1>4, <1>9, <1>11, <1>12 DEF LineInv

\* Nothing is said of a command line after the process has ended.
LEMMA Exited ==
    ASSUME LineInv, reading' = "exit", UNCHANGED <<args, plugged, i, cfg>>
    PROVE  LineInv'
  BY DEF LineInv

LEMMA Unchanged ==
    ASSUME Line!CommandLineAssumption, LineInv, UNCHANGED Line!vars
    PROVE  LineInv'
  <1>1. UNCHANGED <<args, plugged, i, cfg, level, reading>>
    BY DEF Line!vars
  <1>2. reading # "exit" => ReadOK(i)'
    <2> SUFFICES ASSUME reading # "exit" PROVE ReadOK(i)'
      OBVIOUS
    <2>1. ReadOK(i)
      BY DEF LineInv
    <2>2. QED  BY <1>1, <2>1, Still, NothingRead
  <1>3. /\ Stands(i)' <=> Stands(i)
        /\ Line!Senseless' <=> Line!Senseless
        /\ Chosen' <=> Chosen
        /\ Line!LevelOf(cfg)' = Line!LevelOf(cfg)
    BY <1>1 DEF Stands, Line!Behind, Line!Senseless, Line!HasFirmware, Chosen, Line!Found, Line!Wanted, Line!LastValue, Line!Uses, Line!IsValue, Line!LevelOf
  <1>4. QED  BY <1>1, <1>2, <1>3 DEF LineInv

LEMMA LineStep ==
    ASSUME Line!CommandLineAssumption, LineInv, [Line!Next]_(Line!vars)
    PROVE  LineInv'
  <1>1. CASE Line!Inform \/ Line!ListDevices \/ Line!UnknownOption
    <2>1. reading' = "exit" /\ UNCHANGED <<args, plugged, i, cfg>>
      BY <1>1 DEF Line!Inform, Line!ListDevices, Line!UnknownOption, Line!Exit
    <2>2. QED  BY <2>1, Exited
  <1>2. CASE Line!SetFlag
    BY <1>2, SwitchStep
  <1>3. CASE Line!SetValue
    <2>1. CASE reading' = "exit"
      <3>1. UNCHANGED <<args, plugged, i, cfg>>
        BY <1>3, <2>1 DEF Line!SetValue, Line!Parsing
      <3>2. QED  BY <2>1, <3>1, Exited
    <2>2. QED  BY <1>3, <2>1, ValueStep
  <1>4. CASE Line!PassOver
    BY <1>4, PassStep
  <1>5. CASE Line!EndOfArguments
    BY <1>5, EndStep
  <1>6. CASE Line!CheckConfig
    <2>1. CASE reading' = "exit"
      BY <1>6, <2>1, Exited DEF Line!CheckConfig
    <2>2. QED  BY <1>6, <2>1, CheckStep
  <1>7. CASE Line!SelectDevice
    <2>1. CASE reading' = "exit"
      <3>1. UNCHANGED <<args, plugged, i, cfg>>
        BY <1>7, <2>1 DEF Line!SelectDevice
      <3>2. QED  BY <2>1, <3>1, Exited
    <2>2. QED  BY <1>7, <2>1, SelectStep
  <1>8. CASE UNCHANGED Line!vars
    BY <1>8, Unchanged
  <1>9. QED
    BY <1>1, <1>2, <1>3, <1>4, <1>5, <1>6, <1>7, <1>8 DEF Line!Next

LEMMA LineInit ==
    ASSUME Line!CommandLineAssumption, Line!Init
    PROVE  LineInv
  <1>1. /\ args \in CommandLines /\ plugged \in Buses /\ i = 1 /\ cfg = Line!Default /\ reading = "parse"
    BY DEF Line!Init
  <1>2. Len(args) \in Nat
    <2>1. args \in Seq(STRING)
      BY <1>1 DEF Line!CommandLineAssumption
    <2>2. QED  BY <2>1
  <1>3. Stands(i)
    <2>1. 0 \in 0..(1 - 1) /\ 0 % 2 = 0 /\ ~(\E j \in Int : j \in (1 - 0)..(1 - 1)) /\ ~(1 - 0 > 1)
      BY SMT
    <2>2. Line!Behind(1, 0)
      BY <2>1 DEF Line!Behind
    <2>3. QED  BY <1>1, <2>1, <2>2 DEF Stands
  <1>4. ASSUME NEW words PROVE Before(words, i) = {}
    BY <1>1, <1>2 DEF Before, Line!Uses
  <1>5. ASSUME NEW w \in WithValue PROVE ValueRead(w, i)
    BY <1>1, <1>4 DEF ValueRead
  <1>6. SwitchesRead(i)
    BY <1>1, <1>4 DEF SwitchesRead, Line!Default
  <1>7. LevelRead(i)
    BY <1>1, <1>4 DEF LevelRead, Line!Default
  <1>8. ReadOK(i)
    BY <1>4, <1>5, <1>6, <1>7 DEF ReadOK
  <1>9. QED  BY <1>1, <1>2, <1>3, <1>8 DEF LineInv

\* The inductive invariant of the command line holds.
LEMMA LineInvariant ==
    ASSUME Line!CommandLineAssumption
    PROVE  AnySpec => []LineInv
  <1>1. AnyInit => LineInv
    BY LineInit DEF AnyInit
  <1>2. LineInv /\ [Line!Next]_(Line!vars) => LineInv'
    BY LineStep
  <1>3. QED  BY <1>1, <1>2, PartSteps, PTL DEF AnySpec

-----------------------------------------------------------------------------
(* What it is good for.                                                    *)

\* What is known of a run.
LEMMA AtTheRun ==
    ASSUME Line!CommandLineAssumption, LineInv, reading = "run"
    PROVE  /\ \A words : Before(words, i) = Line!Uses(words)
           /\ \A w \in WithValue \ {"-d"} : cfg[Line!FieldOf[w]] = Line!LastValue(w)
           /\ ReadOK(i) /\ ~Line!Senseless /\ level = Line!LevelOf(cfg) /\ Chosen
           /\ \A words : Line!Uses(words) \subseteq Int
  <1>1. /\ args \in CommandLines /\ i = Len(args) + 1 /\ ReadOK(i) /\ ~Line!Senseless
        /\ level = Line!LevelOf(cfg) /\ Chosen
    BY DEF LineInv
  <1>2. \A w \in WithValue \ {"-d"} : ValueRead(w, i)
    BY <1>1 DEF ReadOK
  <1>3. Len(args) \in Nat
    <2>1. args \in Seq(STRING)
      BY <1>1 DEF Line!CommandLineAssumption
    <2>2. QED  BY <2>1
  <1>4. \A words : Line!Uses(words) \subseteq Int
    BY <1>3 DEF Line!Uses
  <1>5. QED  BY <1>1, <1>2, <1>4, ReadWhole

LEMMA ConfigKnown ==
    ASSUME Line!CommandLineAssumption, LineInv
    PROVE  Line!ConfigIsTheArguments
  <1> SUFFICES ASSUME reading = "run"
               PROVE  /\ \A w \in DOMAIN Line!FieldOf \ {"-d"} : cfg[Line!FieldOf[w]] = Line!LastValue(w)
                      /\ cfg.dry_run = (Line!Uses({"--check-only"}) # {})
                      /\ cfg.allow_unknown = (Line!Uses({"--allow-unknown"}) # {})
                      /\ cfg.reboot = (Line!Uses({"--reboot"}) # {})
                      /\ cfg.redownload = (Line!Uses({"--redownload"}) # {})
    BY DEF Line!ConfigIsTheArguments
  <1>1. \A w \in DOMAIN Line!FieldOf \ {"-d"} : cfg[Line!FieldOf[w]] = Line!LastValue(w)
    BY AtTheRun DEF WithValue
  <1>2. /\ Before({"--check-only"}, i) = Line!Uses({"--check-only"})
        /\ Before({"--allow-unknown"}, i) = Line!Uses({"--allow-unknown"})
        /\ Before({"--reboot"}, i) = Line!Uses({"--reboot"})
        /\ Before({"--redownload"}, i) = Line!Uses({"--redownload"})
    BY AtTheRun
  <1>3. SwitchesRead(i)
    BY AtTheRun DEF ReadOK
  <1>4. QED  BY <1>1, <1>2, <1>3 DEF SwitchesRead

LEMMA SensibleKnown ==
    ASSUME Line!CommandLineAssumption, LineInv
    PROVE  Line!RunIsSensible
  <1> SUFFICES ASSUME reading = "run"
               PROVE  /\ Line!HasFirmware(cfg) \/ (~cfg.dry_run /\ (cfg.reboot \/ cfg.redownload))
                      /\ Line!Uses(Line!Questions \cup Dashed) = {}
    BY DEF Line!RunIsSensible
  <1>1. Line!Uses(Line!Questions \cup Dashed) = {}
    BY AtTheRun DEF ReadOK
  <1>2. ~Line!Senseless
    BY AtTheRun
  <1>3. QED  BY <1>1, <1>2 DEF Line!Senseless

LEMMA QuietKnown ==
    ASSUME Line!CommandLineAssumption, LineInv
    PROVE  Line!QuietIsLast
  <1> DEFINE said == Line!Uses(Levels)
  <1>1. Line!QuietIsLast <=> (reading = "run" => (level = "Error" <=> said # {} /\ args[Line!Max(said)] = "--quiet"))
    BY DEF Line!QuietIsLast, Levels
  <1> HIDE DEF said
  <1>2. SUFFICES ASSUME reading = "run"
                 PROVE  level = "Error" <=> said # {} /\ args[Line!Max(said)] = "--quiet"
    BY <1>1
  <1>3. said \subseteq Int /\ Before(Levels, i) = said /\ LevelRead(i) /\ level = Line!LevelOf(cfg)
    BY <1>2, AtTheRun DEF ReadOK, said
  <1>4. level = "Error" <=> cfg.quiet
    BY <1>3 DEF Line!LevelOf, LevelRead
  <1>5. cfg.quiet <=> \E q \in said : (\A r \in said : r <= q) /\ args[q] = "--quiet"
    BY <1>3 DEF LevelRead, IsLast
  <1>6. \A q \in said : (\A r \in said : r <= q) => Line!Max(said) = q
    BY <1>3, LargestIsMax
  <1>7. said # {} => \E q \in said : \A r \in said : r <= q
    BY <1>3 DEF LevelRead, IsLast
  <1>8. QED  BY <1>4, <1>5, <1>6, <1>7

LEMMA DeviceKnown ==
    ASSUME Line!CommandLineAssumption, LineInv
    PROVE  Line!DeviceIsChosen
  <1> DEFINE fits == {d \in plugged :
                 Line!Wanted(d, Line!LastValue("--vid"), Line!LastValue("--pid"), Line!LastValue("--usb-interface"))}
  <1>1. Line!DeviceIsChosen <=>
            (reading = "run" => IF Line!LastValue("-d") # Line!Empty THEN cfg.device_path = Line!LastValue("-d")
                           ELSE {d.path : d \in fits} = {cfg.device_path})
    BY DEF Line!DeviceIsChosen
  <1>2. SUFFICES ASSUME reading = "run"
                 PROVE  IF Line!LastValue("-d") # Line!Empty THEN cfg.device_path = Line!LastValue("-d")
                        ELSE {d.path : d \in fits} = {cfg.device_path}
    BY <1>1
  <1>3. fits = Line!Found(cfg)
    <2>1. cfg.vid = Line!LastValue("--vid") /\ cfg.pid = Line!LastValue("--pid")
          /\ cfg.usb_interface = Line!LastValue("--usb-interface")
      BY <1>2, AtTheRun, FieldNames
    <2>2. QED  BY <2>1 DEF Line!Found
  <1> HIDE DEF fits
  <1>4. CASE Line!LastValue("-d") # Line!Empty
    BY <1>2, <1>4, AtTheRun DEF Chosen
  <1>5. CASE Line!LastValue("-d") = Line!Empty
    <2>1. PICK d \in Line!Found(cfg) : Line!Found(cfg) = {d} /\ cfg.device_path = d.path
      BY <1>2, <1>5, AtTheRun DEF Chosen
    <2>2. {e.path : e \in fits} = {cfg.device_path}
      BY <1>3, <2>1
    <2>3. QED  BY <1>5, <2>2
  <1>6. QED  BY <1>4, <1>5

\* The run gets what the arguments say, has something to do, and its device is the
\* one named or the only one there is.
THEOREM RunsAreTheArguments ==
    ASSUME Line!CommandLineAssumption
    PROVE  AnySpec => []RunIsTheArguments
  <1>1. LineInv => RunIsTheArguments
    BY ConfigKnown, QuietKnown, SensibleKnown, DeviceKnown DEF RunIsTheArguments
  <1>2. QED  BY <1>1, LineInvariant, PTL
-----------------------------------------------------------------------------
(* The device type: what dropping characters leaves of a name.             *)

\* All characters that can be met.
CharsOf(t) == {t[q] : q \in DOMAIN t}
Letters == {"S", "M", "F"} \cup UNION {CharsOf(t) : t \in Reported \cup ArchiveNames}
Texts == Seq(Letters)

\* f[q] is what is left of the first q characters of s.
Leaves(f, s, d) ==
    /\ f \in [0..Len(s) -> Texts] /\ f[0] = <<>>
    /\ \A q \in 1..Len(s) : f[q] = IF s[q] \in d THEN f[q - 1] ELSE Append(f[q - 1], s[q])

LEMMA LeavesExist ==
    ASSUME NEW s \in Texts, NEW d
    PROVE  \E f : Leaves(f, s, d)
  <1> DEFINE G == [p \in (1..Len(s)) \X Texts |-> IF s[p[1]] \in d THEN p[2] ELSE Append(p[2], s[p[1]])]
  <1>1. G \in [(1..Len(s)) \X Texts -> Texts]
    <2>1. ASSUME NEW p \in (1..Len(s)) \X Texts
          PROVE  (IF s[p[1]] \in d THEN p[2] ELSE Append(p[2], s[p[1]])) \in Texts
      <3>1. s[p[1]] \in Letters /\ p[2] \in Seq(Letters)
        BY DEF Texts
      <3>2. Append(p[2], s[p[1]]) \in Seq(Letters)
        BY <3>1
      <3>3. QED  BY <3>1, <3>2 DEF Texts
    <2>2. QED  BY <2>1
  <1>2. <<>> \in Texts /\ Len(s) \in Nat
    BY DEF Texts
  <1>3. PICK f : Follows(f, Len(s), Texts, <<>>, G)
    <2> HIDE DEF G
    <2>1. QED  BY <1>1, <1>2, Recursion
  <1>4. f \in [0..Len(s) -> Texts] /\ f[0] = <<>> /\ \A q \in 1..Len(s) : f[q] = G[<<q, f[q - 1]>>]
    BY <1>3 DEF Follows
  <1>5. ASSUME NEW q \in 1..Len(s)
        PROVE  f[q] = IF s[q] \in d THEN f[q - 1] ELSE Append(f[q - 1], s[q])
    <2>1. q - 1 \in 0..Len(s)
      BY <1>2
    <2>2. f[q - 1] \in Texts
      BY <1>4, <2>1
    <2>3. <<q, f[q - 1]>> \in (1..Len(s)) \X Texts
      BY <2>2
    <2>4. QED  BY <1>4, <2>3
  <1>6. QED  BY <1>4, <1>5 DEF Leaves

\* A function that is defined that way has these values.
LEMMA LeavesAre ==
    ASSUME NEW s \in Texts, NEW d, NEW f,
           f = [j \in 0..Len(s) |->
                   IF j = 0 THEN <<>> ELSE IF s[j] \in d THEN f[j - 1] ELSE Append(f[j - 1], s[j])]
    PROVE  Leaves(f, s, d)
  <1> DEFINE T == {n \in Nat : n <= Len(s) => f[n] \in Texts}
  <1>0. Len(s) \in Nat /\ \A q \in 1..Len(s) : s[q] \in Letters
    BY DEF Texts
  <1>1. \A q \in 0..Len(s) :
            f[q] = IF q = 0 THEN <<>> ELSE IF s[q] \in d THEN f[q - 1] ELSE Append(f[q - 1], s[q])
    OBVIOUS
  <1>2. 0 \in T
    BY <1>0, <1>1 DEF Texts
  <1>3. ASSUME NEW n \in Nat, n \in T PROVE n + 1 \in T
    <2> SUFFICES ASSUME n + 1 <= Len(s) PROVE f[n + 1] \in Texts
      OBVIOUS
    <2>1. f[n] \in Texts /\ n + 1 \in 0..Len(s) /\ n + 1 \in 1..Len(s) /\ (n + 1) - 1 = n /\ n + 1 # 0
      BY <1>0, <1>3
    <2>2. f[n + 1] = IF s[n + 1] \in d THEN f[n] ELSE Append(f[n], s[n + 1])
      BY <1>1, <2>1
    <2>3. Append(f[n], s[n + 1]) \in Texts
      BY <1>0, <2>1 DEF Texts
    <2>4. QED  BY <2>1, <2>2, <2>3
  <1>4. \A n \in Nat : n \in T
    <2> HIDE DEF T
    <2>1. QED  BY <1>2, <1>3, SetInduction
  <1>5. ASSUME NEW q \in 0..Len(s) PROVE f[q] \in Texts
    <2>1. q \in Nat /\ q <= Len(s)
      BY <1>0
    <2>2. q \in T
      BY <1>4, <2>1
    <2>3. QED  BY <2>1, <2>2
  <1>6. f \in [0..Len(s) -> Texts]
    BY <1>5
  <1>7. f[0] = <<>>
    BY <1>0, <1>1
  <1>8. ASSUME NEW q \in 1..Len(s) PROVE f[q] = IF s[q] \in d THEN f[q - 1] ELSE Append(f[q - 1], s[q])
    <2>1. q \in 0..Len(s) /\ q # 0
      BY <1>0
    <2>2. QED  BY <1>1, <2>1
  <1>9. QED  BY <1>6, <1>7, <1>8 DEF Leaves

LEMMA WithoutIs ==
    ASSUME NEW s \in Texts, NEW d
    PROVE  \E f : Leaves(f, s, d) /\ Model!Without(s, d) = f[Len(s)]
  <1> DEFINE Rec(f) == [j \in 0..Len(s) |->
                   IF j = 0 THEN <<>> ELSE IF s[j] \in d THEN f[j - 1] ELSE Append(f[j - 1], s[j])]
             kept == CHOOSE f : f = Rec(f)
  <1>1. PICK g : Leaves(g, s, d)
    BY LeavesExist
  <1>2. g \in [0..Len(s) -> Texts] /\ g[0] = <<>>
        /\ \A q \in 1..Len(s) : g[q] = IF s[q] \in d THEN g[q - 1] ELSE Append(g[q - 1], s[q])
    BY <1>1 DEF Leaves
  <1>3. g = Rec(g)
    <2>1. ASSUME NEW q \in 0..Len(s)
          PROVE  g[q] = IF q = 0 THEN <<>> ELSE IF s[q] \in d THEN g[q - 1] ELSE Append(g[q - 1], s[q])
      <3>1. Len(s) \in Nat
        BY DEF Texts
      <3>2. q # 0 => q \in 1..Len(s)
        BY <3>1
      <3>3. QED  BY <1>2, <3>2
    <2>2. QED  BY <1>2, <2>1
  <1>4. kept = Rec(kept)
    BY <1>3
  <1>5. Model!Without(s, d) = kept[Len(s)]
    BY DEF Model!Without
  <1>6. Leaves(kept, s, d)
    <2> HIDE DEF kept
    <2>1. QED  BY <1>4, LeavesAre
  <1> HIDE DEF kept
  <1>7. QED  BY <1>5, <1>6

\* The same characters leave the same.
LEMMA LeavesAgree ==
    ASSUME NEW s \in Texts, NEW t \in Texts, NEW d, NEW e, NEW f, NEW g, Leaves(f, s, d), Leaves(g, t, e),
           NEW m \in Nat, m <= Len(s), m <= Len(t),
           \A q \in 1..m : s[q] = t[q] /\ (s[q] \in d <=> t[q] \in e)
    PROVE  f[m] = g[m]
  <1> DEFINE T == {n \in Nat : n <= m => f[n] = g[n]}
  <1>1. Len(s) \in Nat /\ Len(t) \in Nat
    BY DEF Texts
  <1>2. 0 \in T
    BY DEF Leaves
  <1>3. ASSUME NEW n \in Nat, n \in T PROVE n + 1 \in T
    <2> SUFFICES ASSUME n + 1 <= m PROVE f[n + 1] = g[n + 1]
      OBVIOUS
    <2>1. f[n] = g[n] /\ n + 1 \in 1..m /\ n + 1 \in 1..Len(s) /\ n + 1 \in 1..Len(t) /\ (n + 1) - 1 = n
      BY <1>1, <1>3
    <2>2. f[n + 1] = IF s[n + 1] \in d THEN f[n] ELSE Append(f[n], s[n + 1])
      BY <2>1 DEF Leaves
    <2>3. g[n + 1] = IF t[n + 1] \in e THEN g[n] ELSE Append(g[n], t[n + 1])
      BY <2>1 DEF Leaves
    <2>4. s[n + 1] = t[n + 1] /\ (s[n + 1] \in d <=> t[n + 1] \in e)
      BY <2>1
    <2>5. QED  BY <2>1, <2>2, <2>3, <2>4
  <1>4. \A n \in Nat : n \in T
    <2> HIDE DEF T
    <2>1. QED  BY <1>2, <1>3, SetInduction
  <1>5. m \in T
    BY <1>4
  <1>6. QED  BY <1>5

LEMMA WithoutInTexts ==
    ASSUME NEW s \in Texts, NEW d
    PROVE  Model!Without(s, d) \in Texts
  <1>1. PICK f : Leaves(f, s, d) /\ Model!Without(s, d) = f[Len(s)]
    BY WithoutIs
  <1>2. Len(s) \in 0..Len(s) /\ f \in [0..Len(s) -> Texts]
    BY <1>1 DEF Leaves, Texts
  <1>3. QED  BY <1>1, <1>2

AppendsLast(a, b, x) == Append(a \o b, x) = a \o Append(b, x)

LEMMA AppendConcat ==
    ASSUME NEW S, NEW a \in Seq(S), NEW b \in Seq(S), NEW x \in S
    PROVE  AppendsLast(a, b, x)
  <1>1. /\ Append(a \o b, x) \in Seq(S) /\ a \o Append(b, x) \in Seq(S)
        /\ Len(Append(a \o b, x)) = Len(a \o Append(b, x))
    OBVIOUS
  <1>2. ASSUME NEW q \in 1..Len(a \o Append(b, x))
        PROVE  Append(a \o b, x)[q] = (a \o Append(b, x))[q]
    OBVIOUS
  <1>3. QED  BY <1>1, <1>2, SeqEqual DEF AppendsLast

\* What is left of a piece of s is a piece of what is left of s.
LEMMA LeavesOfPiece ==
    ASSUME NEW s \in Texts, NEW d, NEW f, Leaves(f, s, d), NEW u \in 0..Len(s), NEW j \in u..Len(s)
    PROVE  f[j] = f[u] \o Model!Without(SubSeq(s, u + 1, j), d)
  <1> DEFINE t == SubSeq(s, u + 1, j)
  <1>1. Len(s) \in Nat /\ u \in Nat /\ j \in Nat /\ u <= j /\ j <= Len(s) /\ s \in Seq(Letters)
    BY DEF Texts
  <1>2. /\ t \in Texts /\ Len(t) = j - u
        /\ \A q \in 1..(j - u) : t[q] = s[u + q]
    <2>1. u + 1 \in 1..(Len(s) + 1) /\ j \in u..Len(s)
      BY <1>1
    <2>2. \A q \in 1..Len(s) : s[q] \in Letters
      BY <1>1
    <2>3. t = [q \in 1..(j - u) |-> s[u + q]]
      <3>1. j - (u + 1) + 1 = j - u
        BY <1>1
      <3>2. \A q \in 1..(j - u) : (u + 1) + q - 1 = u + q
        BY <1>1
      <3>3. t = [q \in 1..(j - (u + 1) + 1) |-> s[(u + 1) + q - 1]]
        BY <1>1
      <3>4. QED  BY <3>1, <3>2, <3>3
    <2> HIDE DEF t
    <2>4. \A q \in 1..(j - u) : s[u + q] \in Letters
      BY <1>1, <2>2
    <2>5. j - u \in Nat
      BY <1>1
    <2>6. t \in Seq(Letters) /\ Len(t) = j - u
      BY <2>3, <2>4, <2>5
    <2>7. QED  BY <2>3, <2>6 DEF Texts
  <1> HIDE DEF t
  <1>3. PICK g : Leaves(g, t, d) /\ Model!Without(t, d) = g[Len(t)]
    BY <1>2, WithoutIs
  <1>4. /\ g \in [0..(j - u) -> Texts] /\ g[0] = <<>>
        /\ \A q \in 1..(j - u) : g[q] = IF t[q] \in d THEN g[q - 1] ELSE Append(g[q - 1], t[q])
    BY <1>2, <1>3 DEF Leaves
  <1>5. /\ f \in [0..Len(s) -> Texts]
        /\ \A q \in 1..Len(s) : f[q] = IF s[q] \in d THEN f[q - 1] ELSE Append(f[q - 1], s[q])
    BY DEF Leaves
  <1> DEFINE Holds(n) == n <= j - u => f[u + n] = f[u] \o g[n]
             T == {n \in Nat : Holds(n)}
  <1>6. 0 \in T
    <2>1. f[u] \in Seq(Letters) /\ u + 0 = u
      BY <1>1, <1>5 DEF Texts
    <2>2. f[u] \o <<>> = f[u]
      BY <2>1, ConcatEmptySeq
    <2>3. QED  BY <1>4, <2>1, <2>2
  <1>7. ASSUME NEW n \in Nat, n \in T PROVE n + 1 \in T
    <2>0. SUFFICES Holds(n + 1)
      <3> HIDE DEF Holds
      <3>1. QED  BY <2>0
    <2> SUFFICES ASSUME n + 1 <= j - u PROVE f[u + (n + 1)] = f[u] \o g[n + 1]
      OBVIOUS
    <2>1. /\ n <= j - u /\ n \in 0..(j - u) /\ n + 1 \in 1..(j - u) /\ (n + 1) - 1 = n
          /\ u + (n + 1) \in 1..Len(s) /\ (u + (n + 1)) - 1 = u + n
      BY <1>1
    <2>2. f[u + n] = f[u] \o g[n]
      BY <1>7, <2>1
    <2> DEFINE x == s[u + (n + 1)]
    <2>3. f[u + (n + 1)] = IF x \in d THEN f[u + n] ELSE Append(f[u + n], x)
      BY <1>5, <2>1
    <2>4. t[n + 1] = x
      BY <1>2, <2>1
    <2>5. g[n + 1] = IF x \in d THEN g[n] ELSE Append(g[n], x)
      BY <1>4, <2>1, <2>4
    <2>6. x \in Letters
      BY <1>1, <2>1
    <2>7. f[u] \in Seq(Letters) /\ g[n] \in Seq(Letters)
      BY <1>4, <1>5, <2>1 DEF Texts
    <2> HIDE DEF x
    <2>8. Append(f[u] \o g[n], x) = f[u] \o Append(g[n], x)
      <3> DEFINE a == f[u]
                 b == g[n]
      <3>1. a \in Seq(Letters) /\ b \in Seq(Letters)
        BY <2>7
      <3> HIDE DEF a, b
      <3>2. AppendsLast(a, b, x)
        BY <2>6, <3>1, AppendConcat
      <3>3. QED  BY <3>2 DEF a, b, AppendsLast
    <2>9. QED  BY <2>2, <2>3, <2>5, <2>8
  <1>8. \A n \in Nat : n \in T
    <2> HIDE DEF T
    <2>1. QED  BY <1>6, <1>7, SetInduction
  <1>9. f[u + (j - u)] = f[u] \o g[j - u]
    <2>1. j - u \in Nat /\ j - u <= j - u
      BY <1>1
    <2>2. Holds(j - u)
      <3> HIDE DEF Holds
      <3>1. QED  BY <1>8, <2>1
    <2>3. QED  BY <2>1, <2>2
  <1>10. u + (j - u) = j
    BY <1>1
  <1>11. QED  BY <1>2, <1>3, <1>9, <1>10 DEF t

\* Any number of characters up to all that are left are left of some beginning.
LEMMA LeavesAny ==
    ASSUME NEW s \in Texts, NEW d, NEW f, Leaves(f, s, d), NEW v \in 0..Len(f[Len(s)])
    PROVE  \E u \in 0..Len(s) : Len(f[u]) = v
  <1> DEFINE T == {n \in Nat : n <= Len(s) => \A w \in 0..Len(f[n]) : \E u \in 0..n : Len(f[u]) = w}
  <1>1. Len(s) \in Nat /\ f \in [0..Len(s) -> Texts] /\ f[0] = <<>> /\ \A q \in 1..Len(s) : s[q] \in Letters
    BY DEF Leaves, Texts
  <1>2. 0 \in T
    BY <1>1
  <1>3. ASSUME NEW n \in Nat, n \in T PROVE n + 1 \in T
    <2> SUFFICES ASSUME n + 1 <= Len(s), NEW w \in 0..Len(f[n + 1])
                 PROVE  \E u \in 0..(n + 1) : Len(f[u]) = w
      OBVIOUS
    <2>1. n <= Len(s) /\ n \in 0..Len(s) /\ n + 1 \in 1..Len(s) /\ (n + 1) - 1 = n /\ n + 1 \in 0..(n + 1)
      BY <1>1
    <2>2. f[n + 1] = IF s[n + 1] \in d THEN f[n] ELSE Append(f[n], s[n + 1])
      BY <2>1 DEF Leaves
    <2>3. f[n] \in Seq(Letters) /\ s[n + 1] \in Letters
      BY <1>1, <2>1 DEF Texts
    <2>4. Len(f[n + 1]) = Len(f[n]) \/ Len(f[n + 1]) = Len(f[n]) + 1
      BY <2>2, <2>3
    <2>5. CASE w = Len(f[n + 1])
      BY <2>1, <2>5
    <2>6. CASE w # Len(f[n + 1])
      <3>1. w \in 0..Len(f[n])
        BY <2>3, <2>4, <2>6
      <3>2. PICK u \in 0..n : Len(f[u]) = w
        BY <1>3, <2>1, <3>1
      <3>3. u \in 0..(n + 1)
        OBVIOUS
      <3>4. QED  BY <3>2, <3>3
    <2>7. QED  BY <2>5, <2>6
  <1>4. \A n \in Nat : n \in T
    <2> HIDE DEF T
    <2>1. QED  BY <1>2, <1>3, SetInduction
  <1>5. Len(s) \in T
    BY <1>1, <1>4
  <1>6. QED  BY <1>1, <1>5

LEMMA UpperIs ==
    ASSUME NEW c \in Letters
    PROVE  Model!Upper(c) \in Letters
  <1> DEFINE L == Model!Lower
  <1>1. DOMAIN L = {"s", "m", "f"} /\ L["s"] = "S" /\ L["m"] = "M" /\ L["f"] = "F"
    BY DEF Model!Lower
  <1>2. Model!Upper(c) = IF c \in DOMAIN L THEN L[c] ELSE c
    BY DEF Model!Upper
  <1> HIDE DEF L
  <1>3. Model!Upper(c) \in {"S", "M", "F"} \/ Model!Upper(c) = c
    BY <1>1, <1>2
  <1>4. "S" \in Letters /\ "M" \in Letters /\ "F" \in Letters
    BY DEF Letters
  <1>5. QED  BY <1>3, <1>4

\* What is reported and what the archives are called.
LEMMA GivenTexts ==
    ASSUME Model!ModelMatchAssumption, NEW t \in Reported \cup ArchiveNames
    PROVE  t \in Texts /\ t # <<>>
  <1>1. t \in Seq(CharsOf(t)) /\ t # <<>>
    BY DEF Model!ModelMatchAssumption, Model!Range, CharsOf
  <1>2. CharsOf(t) \subseteq Letters
    BY DEF Letters
  <1>3. t \in Seq(Letters)
    BY <1>1, <1>2
  <1>4. QED  BY <1>1, <1>3 DEF Texts

LEMMA UpperAllIs ==
    ASSUME NEW s \in Texts
    PROVE  /\ Model!UpperAll(s) \in Texts /\ Len(Model!UpperAll(s)) = Len(s)
           /\ \A q \in 1..Len(s) : Model!UpperAll(s)[q] = Model!Upper(s[q])
  <1>1. Len(s) \in Nat /\ \A q \in 1..Len(s) : s[q] \in Letters
    BY DEF Texts
  <1>2. \A q \in 1..Len(s) : Model!Upper(s[q]) \in Letters
    BY <1>1, UpperIs
  <1>3. Model!UpperAll(s) = [q \in 1..Len(s) |-> Model!Upper(s[q])]
    BY DEF Model!UpperAll
  <1>4. QED  BY <1>1, <1>2, <1>3 DEF Texts

\* A text that occurs in another is there character by character.
LEMMA OccursIs ==
    ASSUME NEW s \in Texts, NEW t \in Texts
    PROVE  Model!Occurs(s, t) <=>
             \E p \in 0..(Len(t) - Len(s)) : \A q \in 1..Len(s) : s[q] = t[p + q]
  <1>0. Len(s) \in Nat /\ Len(t) \in Nat /\ s \in Seq(Letters) /\ t \in Seq(Letters)
    BY DEF Texts
  <1>1. ASSUME NEW p \in 0..(Len(t) - Len(s))
        PROVE  s = SubSeq(t, p + 1, p + Len(s)) <=> \A q \in 1..Len(s) : s[q] = t[p + q]
    <2> DEFINE r == SubSeq(t, p + 1, p + Len(s))
               n == Len(s)
    <2>1. n \in Nat /\ p \in Nat /\ p + n <= Len(t) /\ p + 1 \in 1..(Len(t) + 1) /\ p + n \in p..Len(t)
      BY <1>0
    <2>2. r \in Seq(Letters) /\ Len(r) = n /\ \A q \in 1..n : r[q] = t[p + q]
      <3> HIDE DEF n
      <3>1. (p + n) - (p + 1) + 1 = n /\ \A q \in 1..n : (p + 1) + q - 1 = p + q
        BY <2>1
      <3>2. r = [q \in 1..((p + n) - (p + 1) + 1) |-> t[(p + 1) + q - 1]]
        BY <1>0, <2>1 DEF n
      <3>3. r = [q \in 1..n |-> t[p + q]]
        BY <3>1, <3>2
      <3>4. \A q \in 1..n : t[p + q] \in Letters
        BY <1>0, <2>1
      <3> HIDE DEF r
      <3>5. QED  BY <2>1, <3>3, <3>4
    <2> HIDE DEF r
    <2>3. (\A q \in 1..n : s[q] = t[p + q]) => s = r
      BY <1>0, <2>2, SeqEqual
    <2>4. QED  BY <2>2, <2>3 DEF r
  <1>2. QED  BY <1>1 DEF Model!Occurs

\* What begins a type is not looked for.
LEMMA DropOccurs ==
    ASSUME NEW s \in Texts, NEW t \in Texts
    PROVE  /\ Model!DropSM(s) \in Texts
           /\ Model!Occurs(s, t) => Model!Occurs(Model!DropSM(s), t)
  <1>1. CASE Model!IsPrefix(<<"S", "M">>, s)
    <2> DEFINE r == SubSeq(s, 3, Len(s))
    <2>0. Model!DropSM(s) = r
      BY <1>1 DEF Model!DropSM
    <2>1. Len(s) \in Nat /\ Len(s) >= 2 /\ s \in Seq(Letters) /\ \A q \in 1..Len(s) : s[q] \in Letters
      BY <1>1 DEF Model!IsPrefix, Texts
    <2>2. r = [q \in 1..(Len(s) - 2) |-> s[2 + q]]
      <3>1. Len(s) - 3 + 1 = Len(s) - 2 /\ \A q \in 1..(Len(s) - 2) : 3 + q - 1 = 2 + q
        BY <2>1
      <3>2. r = [q \in 1..(Len(s) - 3 + 1) |-> s[3 + q - 1]]
        BY <2>1
      <3>3. QED  BY <3>1, <3>2
    <2> HIDE DEF r
    <2>3. r \in Texts /\ Len(r) = Len(s) - 2 /\ \A q \in 1..Len(r) : r[q] = s[2 + q]
      <3>1. Len(s) - 2 \in Nat /\ \A q \in 1..(Len(s) - 2) : s[2 + q] \in Letters
        BY <2>1
      <3>2. QED  BY <2>2, <3>1 DEF Texts
    <2>4. ASSUME Model!Occurs(s, t) PROVE Model!Occurs(r, t)
      <3>1. PICK p \in 0..(Len(t) - Len(s)) : \A q \in 1..Len(s) : s[q] = t[p + q]
        BY <2>4, OccursIs
      <3>2. Len(t) \in Nat
        BY DEF Texts
      <3>3. p + 2 \in 0..(Len(t) - Len(r))
        BY <2>1, <2>3, <3>2
      <3>4. ASSUME NEW q \in 1..Len(r) PROVE r[q] = t[(p + 2) + q]
        <4>1. 2 + q \in 1..Len(s) /\ (p + 2) + q = p + (2 + q)
          BY <2>1, <2>3
        <4>2. QED  BY <2>3, <3>1, <4>1
      <3>5. QED  BY <2>3, <3>3, <3>4, OccursIs
    <2>5. QED  BY <2>0, <2>3, <2>4
  <1>2. CASE ~Model!IsPrefix(<<"S", "M">>, s)
    BY <1>2 DEF Model!DropSM
  <1>3. QED  BY <1>1, <1>2

\* A text that occurs in the folded name is all there is in some piece of the name.
LEMMA OccursInPiece ==
    ASSUME NEW name \in Texts, NEW t \in Texts, Model!Occurs(t, Model!Folded(name))
    PROVE  \E a \in 1..(Len(name) + 1), b \in 0..Len(name) : Model!Folded(SubSeq(name, a, b)) = t
  <1> DEFINE d == Model!Spaces \cup {"-"}
             n == Len(t)
  <1>1. \A s : Model!Folded(s) = Model!UpperAll(Model!Without(s, d))
    BY DEF Model!Folded
  <1> HIDE DEF d
  <1>2. PICK f : Leaves(f, name, d) /\ Model!Without(name, d) = f[Len(name)]
    BY WithoutIs
  <1> DEFINE L == Len(name)
             full == f[L]
  <1>3. /\ L \in Nat /\ n \in Nat /\ t \in Seq(Letters) /\ f \in [0..L -> Texts]
        /\ \A q \in 0..L : f[q] \in Seq(Letters)
    <2>1. L \in Nat /\ n \in Nat /\ t \in Seq(Letters) /\ f \in [0..L -> Texts]
      BY <1>2 DEF Leaves, Texts
    <2>2. \A q \in 0..L : f[q] \in Texts
      BY <2>1
    <2>3. QED  BY <2>1, <2>2 DEF Texts
  <1>4. full \in Texts /\ full \in Seq(Letters) /\ Model!Folded(name) = Model!UpperAll(full)
    BY <1>1, <1>2, <1>3
  <1>5. PICK p \in 0..(Len(Model!UpperAll(full)) - n) : \A q \in 1..n : t[q] = Model!UpperAll(full)[p + q]
    <2> HIDE DEF full
    <2>1. Model!UpperAll(full) \in Texts
      BY <1>4, UpperAllIs
    <2>2. QED  BY <1>4, <2>1, OccursIs
  <1>6. p \in Nat /\ p + n <= Len(full) /\ \A q \in 1..n : t[q] = Model!Upper(full[p + q])
    <2> HIDE DEF full
    <2>1. /\ Len(Model!UpperAll(full)) = Len(full) /\ Len(full) \in Nat
          /\ \A q \in 1..Len(full) : Model!UpperAll(full)[q] = Model!Upper(full[q])
      BY <1>4, UpperAllIs
    <2>2. \A q \in 1..n : p + q \in 1..Len(full)
      BY <1>3, <2>1
    <2>3. p \in Nat /\ p + n <= Len(full)
      BY <1>3, <1>5, <2>1
    <2>4. QED  BY <1>5, <2>1, <2>2, <2>3
  <1>7. PICK u \in 0..L : Len(f[u]) = p
    <2>1. p \in 0..Len(f[Len(name)])
      BY <1>3, <1>4, <1>6
    <2>2. \E u \in 0..Len(name) : Len(f[u]) = p
      BY <1>2, <2>1, LeavesAny
    <2>3. QED  BY <2>2
  <1>8. PICK w \in 0..L : Len(f[w]) = p + n
    <2> DEFINE z == p + n
    <2>1. z \in 0..Len(f[Len(name)])
      BY <1>3, <1>4, <1>6
    <2> HIDE DEF z
    <2>2. \E w \in 0..Len(name) : Len(f[w]) = z
      BY <1>2, <2>1, LeavesAny
    <2>3. QED  BY <2>2 DEF z
  <1>9. PICK v \in u..L : Len(f[v]) = p + n
    <2>1. CASE u <= w
      BY <1>8, <2>1
    <2>2. CASE w < u
      <3>1. w \in 0..Len(name) /\ u \in w..Len(name)
        BY <1>3, <2>2
      <3>2. f[u] = f[w] \o Model!Without(SubSeq(name, w + 1, u), d)
        BY <1>2, <3>1, LeavesOfPiece
      <3>3. SubSeq(name, w + 1, u) \in Texts
        BY <3>1 DEF Texts
      <3>4. Model!Without(SubSeq(name, w + 1, u), d) \in Seq(Letters)
        BY <3>3, WithoutInTexts DEF Texts
      <3>5. Len(f[u]) >= Len(f[w])
        BY <1>3, <3>1, <3>2, <3>4
      <3>6. Len(f[u]) = p + n
        BY <1>3, <1>6, <1>7, <1>8, <3>5
      <3>7. u \in u..L
        BY <1>3
      <3>8. QED  BY <3>6, <3>7
    <2>3. QED  BY <1>3, <2>1, <2>2
  <1> DEFINE piece == SubSeq(name, u + 1, v)
             W == Model!Without(piece, d)
             rest == Model!Without(SubSeq(name, v + 1, L), d)
  <1>10. f[v] = f[u] \o W /\ full = f[v] \o rest
    <2>1. v \in 0..Len(name) /\ Len(name) \in v..Len(name)
      BY <1>3
    <2>2. f[v] = f[u] \o W
      BY <1>2, LeavesOfPiece
    <2>3. f[Len(name)] = f[v] \o rest
      BY <1>2, <2>1, LeavesOfPiece
    <2>4. QED  BY <2>2, <2>3
  <1>11. W \in Texts /\ rest \in Texts
    <2>1. piece \in Texts /\ SubSeq(name, v + 1, L) \in Texts
      BY <1>3 DEF Texts
    <2>2. QED  BY <2>1, WithoutInTexts
  <1>12. Len(W) = n /\ \A q \in 1..n : W[q] = full[p + q]
    <2> DEFINE x == f[u]
               y == f[v]
    <2>1. /\ x \in Seq(Letters) /\ Len(x) = p /\ Len(y) = p + n /\ y = x \o W /\ full = y \o rest
          /\ W \in Seq(Letters) /\ rest \in Seq(Letters)
      BY <1>3, <1>7, <1>9, <1>10, <1>11 DEF Texts
    <2> HIDE DEF x, y, W, rest, full
    <2>2. Len(W) = n
      BY <1>3, <1>6, <2>1
    <2>3. ASSUME NEW q \in 1..n PROVE W[q] = full[p + q]
      <3>1. p + q \in 1..Len(y) /\ q \in 1..Len(W) /\ p + q > Len(x) /\ (p + q) - Len(x) = q
        BY <1>3, <1>6, <2>1, <2>2
      <3>2. y[p + q] = W[q]
        BY <2>1, <3>1
      <3>3. full[p + q] = y[p + q]
        BY <2>1, <3>1
      <3>4. QED  BY <3>2, <3>3
    <2>4. QED  BY <2>2, <2>3
  <1>13. Model!UpperAll(W) = t
    <2> HIDE DEF W, full
    <2>1. /\ Model!UpperAll(W) \in Seq(Letters) /\ Len(Model!UpperAll(W)) = n
          /\ \A q \in 1..n : Model!UpperAll(W)[q] = Model!Upper(W[q])
      BY <1>11, <1>12, UpperAllIs DEF Texts
    <2>2. \A q \in 1..n : Model!UpperAll(W)[q] = t[q]
      BY <1>6, <1>12, <2>1
    <2>3. QED  BY <1>3, <2>1, <2>2, SeqEqual
  <1>14. Model!Folded(piece) = t
    BY <1>1, <1>13
  <1>15. u + 1 \in 1..(Len(name) + 1) /\ v \in 0..Len(name)
    BY <1>3
  <1>16. QED  BY <1>14, <1>15

\* In a plain type there is nothing else to drop than in a name.
LEMMA PlainDrop ==
    ASSUME NEW t \in Texts, \A q \in 1..Len(t) : t[q] \notin {"\\", "/"}
    PROVE  Model!UpperAll(Model!Without(t, {" ", "\\", "/", "-"})) = Model!Folded(t)
  <1> DEFINE d == {" ", "\\", "/", "-"}
             e == Model!Spaces \cup {"-"}
  <1>1. Model!Folded(t) = Model!UpperAll(Model!Without(t, e))
    BY DEF Model!Folded
  <1>2. \A q \in 1..Len(t) : t[q] = t[q] /\ (t[q] \in d <=> t[q] \in e)
    BY DEF Model!Spaces
  <1> HIDE DEF d, e
  <1>3. PICK f : Leaves(f, t, d) /\ Model!Without(t, d) = f[Len(t)]
    BY WithoutIs
  <1>4. PICK g : Leaves(g, t, e) /\ Model!Without(t, e) = g[Len(t)]
    BY WithoutIs
  <1>5. Len(t) \in Nat /\ Len(t) <= Len(t)
    BY DEF Texts
  <1>6. f[Len(t)] = g[Len(t)]
    BY <1>2, <1>3, <1>4, <1>5, LeavesAgree
  <1>7. Model!Without(t, d) = Model!Without(t, e)
    BY <1>3, <1>4, <1>6
  <1>8. Model!UpperAll(Model!Without(t, d)) = Model!Folded(t)
    BY <1>1, <1>7
  <1>9. QED  BY <1>8 DEF d

-----------------------------------------------------------------------------
(* The device type: the inductive invariant of ModelMatch.                 *)

InName(d, name) == Model!Occurs(d, Model!Folded(name))

\* What is compared has been made of the reported type, and every archive that has
\* been looked at matches it.
ModelInv ==
    /\ field \in Reported \cup {<<>>}
    /\ Len(names) \in Nat /\ \A j \in 1..Len(names) : names[j] \in ArchiveNames
    /\ matching \in {"ask", "strip", "files", "true", "false"}
    /\ k \in Nat \ {0} /\ (matching \in {"ask", "strip"} => k = 1)
    /\ matching = "strip" => dt = Model!Type
    /\ matching \in {"files", "false"} => dt = Model!Number
    /\ matching = "files" => \A j \in 1..Len(names) : j < k => InName(dt, names[j])
    /\ matching = "true" => \/ Model!Type = <<>>
                            \/ \A j \in 1..Len(names) : InName(Model!Number, names[j])
    /\ matching = "false" => k \in 1..Len(names) /\ ~InName(dt, names[k])

\* The reported type ends at a NUL or where the field ends.
LEMMA TypeIs ==
    ASSUME field \in Texts
    PROVE  Model!Type \in Texts
  <1> DEFINE I == {q \in 1..Len(field) : field[q] = Model!Nul}
             n == Model!UpToNul
  <1>0. Len(field) \in Nat /\ field \in Seq(Letters)
    BY DEF Texts
  <1>1. n = IF I # {} THEN CHOOSE x \in I : \A y \in I : x <= y ELSE 0
    BY DEF Model!UpToNul, Model!SelectInSeq, Model!Min
  <1>2. I # {} => n \in I
    <2> SUFFICES ASSUME I # {} PROVE n \in I
      OBVIOUS
    <2>1. I \in SUBSET Nat
      BY <1>0
    <2>2. n = CHOOSE x \in I : \A y \in I : x <= y
      BY <1>1
    <2> HIDE DEF I, n
    <2>3. \E x \in I : \A y \in I : x <= y
      BY <2>1, Least
    <2>4. QED  BY <2>2, <2>3
  <1>3. n = 0 \/ n \in 1..Len(field)
    BY <1>1, <1>2
  <1>4. Model!Type = IF n = 0 THEN field ELSE SubSeq(field, 1, n - 1)
    BY DEF Model!Type
  <1> HIDE DEF n, I
  <1>5. CASE n = 0
    BY <1>4, <1>5
  <1>6. CASE n \in 1..Len(field)
    <2>1. SubSeq(field, 1, n - 1) \in Seq(Letters)
      BY <1>0, <1>6
    <2>2. n # 0
      BY <1>0, <1>6
    <2>3. QED  BY <1>4, <2>1, <2>2 DEF Texts
  <1>7. QED  BY <1>3, <1>5, <1>6

LEMMA TypeStays ==
    ASSUME field' = field
    PROVE  Model!Type' = Model!Type /\ Model!Number' = Model!Number
  <1>1. Model!UpToNul' = Model!UpToNul
    BY DEF Model!UpToNul, Model!SelectInSeq, Model!Min
  <1>2. Model!Type' = Model!Type
    BY <1>1 DEF Model!Type
  <1>3. QED  BY <1>2 DEF Model!Number

LEMMA FileMatchesIs == \A name : Model!FileMatches(name) <=> InName(dt, name)
  BY DEF Model!FileMatches, Model!Folded, InName

LEMMA ModelInit ==
    ASSUME Model!Init
    PROVE  ModelInv
  <1>1. names \in UNION {[1..m -> ArchiveNames] : m \in 0..2}
    BY DEF Model!Init, Model!SeqOf
  <1>2. PICK m \in 0..2 : names \in [1..m -> ArchiveNames]
    BY <1>1
  <1>3. Len(names) = m /\ \A j \in 1..m : names[j] \in ArchiveNames
    BY <1>2
  <1>4. QED  BY <1>3 DEF ModelInv, Model!Init

LEMMA ModelStep ==
    ASSUME ModelInv, Model!Next
    PROVE  ModelInv'
  <1>0. field' = field /\ names' = names
    BY DEF Model!Next, Model!RequestDeviceType, Model!StripType, Model!CheckFile, Model!AllMatch
  <1>a. Model!Type' = Model!Type /\ Model!Number' = Model!Number
    BY <1>0, TypeStays
  <1>b. \A d, name : InName(d, name) \in BOOLEAN
    BY DEF InName, Model!Occurs
  <1>1. CASE Model!RequestDeviceType
    <2>1. /\ matching = "ask" /\ dt' = Model!Type /\ k' = k
          /\ matching' = IF dt' = <<>> THEN "true" ELSE "strip"
      BY <1>1 DEF Model!RequestDeviceType, Model!Type
    <2>2. QED  BY <1>0, <1>a, <2>1 DEF ModelInv
  <1>2. CASE Model!StripType
    <2>1. Model!Spaces \cup {"\\", "/", "-"} = {" ", "\\", "/", "-"}
      BY DEF Model!Spaces
    <2>2. matching = "strip" /\ matching' = "files" /\ k' = k
          /\ dt' = Model!DropSM(Model!UpperAll(Model!Without(dt, {" ", "\\", "/", "-"})))
      BY <1>2, <2>1 DEF Model!StripType
    <2>3. dt' = Model!Number /\ k = 1
      BY <2>2 DEF ModelInv, Model!Number
    <2>4. \A j \in 1..Len(names) : ~(j < k)
      BY <2>3 DEF ModelInv
    <2>5. QED  BY <1>0, <1>a, <2>2, <2>3, <2>4 DEF ModelInv
  <1>3. CASE Model!CheckFile
    <2>1. /\ matching = "files" /\ k <= Len(names) /\ dt' = dt
          /\ IF InName(dt, names[k]) THEN k' = k + 1 /\ matching' = matching
             ELSE matching' = "false" /\ k' = k
      BY <1>3, FileMatchesIs DEF Model!CheckFile
    <2>2. k \in 1..Len(names)
      BY <2>1 DEF ModelInv
    <2>3. CASE InName(dt, names[k])
      <3>1. \A j \in 1..Len(names) : j < k + 1 => j < k \/ j = k
        BY DEF ModelInv
      <3>2. \A j \in 1..Len(names) : j < k + 1 => InName(dt, names[j])
        BY <2>1, <2>3, <3>1 DEF ModelInv
      <3>3. k + 1 \in Nat \ {0}
        BY DEF ModelInv
      <3>4. QED  BY <1>0, <1>a, <2>1, <2>3, <3>2, <3>3 DEF ModelInv
    <2>4. CASE ~InName(dt, names[k])
      BY <1>0, <1>a, <2>1, <2>2, <2>4 DEF ModelInv
    <2>5. QED  BY <2>3, <2>4
  <1>4. CASE Model!AllMatch
    <2>1. matching = "files" /\ k > Len(names) /\ matching' = "true" /\ dt' = dt /\ k' = k
      BY <1>4 DEF Model!AllMatch
    <2>2. \A j \in 1..Len(names) : j < k
      BY <2>1 DEF ModelInv
    <2>3. \A j \in 1..Len(names) : InName(Model!Number, names[j])
      BY <2>1, <2>2 DEF ModelInv
    <2>4. QED  BY <1>0, <1>a, <2>1, <2>3 DEF ModelInv
  <1>5. QED  BY <1>1, <1>2, <1>3, <1>4 DEF Model!Next

LEMMA ModelStays == ModelInv /\ UNCHANGED model_vars => ModelInv'
  <1> SUFFICES ASSUME ModelInv, UNCHANGED model_vars PROVE ModelInv'
    OBVIOUS
  <1>1. field' = field /\ names' = names /\ dt' = dt /\ k' = k /\ matching' = matching
    BY DEF model_vars
  <1>2. Model!Type' = Model!Type /\ Model!Number' = Model!Number
    BY <1>1, TypeStays
  <1>3. QED  BY <1>1, <1>2 DEF ModelInv

LEMMA ModelInvariant == AnySpec => []ModelInv
  <1>1. AnyInit => ModelInv
    BY ModelInit DEF AnyInit
  <1>2. ModelInv /\ [AnyNext]_all => ModelInv'
    <2>1. AnyNext => Model!Next \/ UNCHANGED model_vars
      BY DEF AnyNext
    <2>2. UNCHANGED all => UNCHANGED model_vars
      BY DEF all
    <2>3. QED  BY <2>1, <2>2, ModelStep, ModelStays
  <1>3. QED  BY <1>1, <1>2, PTL DEF AnySpec

\* What is known of an invocation of the comparison.
LEMMA ModelTexts ==
    ASSUME Model!ModelMatchAssumption, ModelInv
    PROVE  /\ field \in Texts /\ Model!Type \in Texts
           /\ \A j \in 1..Len(names) : names[j] \in Texts
           /\ Model!UpperAll(Model!Without(Model!Type, {" ", "\\", "/", "-"})) \in Texts
           /\ Model!Number \in Texts
  <1>1. field \in Texts
    <2>1. field \in Reported \cup ArchiveNames \/ field = <<>>
      BY DEF ModelInv
    <2>2. CASE field = <<>>
      BY <2>2 DEF Texts
    <2>3. QED  BY <2>1, <2>2, GivenTexts
  <1>2. Model!Type \in Texts
    BY <1>1, TypeIs
  <1>3. ASSUME NEW j \in 1..Len(names) PROVE names[j] \in Texts
    <2>1. names[j] \in Reported \cup ArchiveNames
      BY DEF ModelInv
    <2>2. QED  BY <2>1, GivenTexts
  <1>4. Model!UpperAll(Model!Without(Model!Type, {" ", "\\", "/", "-"})) \in Texts
    BY <1>2, WithoutInTexts, UpperAllIs
  <1>5. Model!Number \in Texts
    BY <1>4, DropOccurs DEF Model!Number
  <1>6. QED  BY <1>1, <1>2, <1>3, <1>4, <1>5

LEMMA SameModelIsAccepted ==
    ASSUME Model!ModelMatchAssumption, ModelInv
    PROVE  Model!SameModelAccepted
  <1> SUFFICES ASSUME matching = "false", Model!PlainType
               PROVE  \E j \in 1..Len(names) : ~Model!Occurs(Model!Folded(Model!Type), Model!Folded(names[j]))
    BY DEF Model!SameModelAccepted
  <1> DEFINE t == Model!Type
             name == names[k]
             made == Model!UpperAll(Model!Without(t, {" ", "\\", "/", "-"}))
  <1>1. k \in 1..Len(names) /\ dt = Model!Number /\ ~Model!Occurs(dt, Model!Folded(name))
    BY DEF ModelInv, InName
  <1>2. t \in Texts /\ name \in Texts /\ made \in Texts
    BY <1>1, ModelTexts
  <1>3. Model!Folded(name) \in Texts
    BY <1>2, WithoutInTexts, UpperAllIs DEF Model!Folded
  <1>4. made = Model!Folded(t)
    <2>1. \A q \in 1..Len(t) : t[q] \notin {"\\", "/"}
      BY DEF Model!PlainType
    <2> HIDE DEF t
    <2>2. QED  BY <1>2, <2>1, PlainDrop
  <1>5. dt = Model!DropSM(made)
    BY <1>1 DEF Model!Number
  <1> HIDE DEF t, name, made
  <1>6. ~Model!Occurs(made, Model!Folded(name))
    <2>1. Model!Occurs(made, Model!Folded(name)) => Model!Occurs(Model!DropSM(made), Model!Folded(name))
      BY <1>2, <1>3, DropOccurs
    <2>2. QED  BY <1>1, <1>5, <2>1
  <1>7. ~Model!Occurs(Model!Folded(t), Model!Folded(name))
    BY <1>4, <1>6
  <1>8. QED  BY <1>1, <1>7 DEF t, name

LEMMA AcceptedIsSpelled ==
    ASSUME Model!ModelMatchAssumption, ModelInv
    PROVE  Model!AcceptedNamesTheModel
  <1> SUFFICES ASSUME matching = "true", Model!Type # <<>>, NEW j \in 1..Len(names)
               PROVE  Model!Spelled(names[j])
    BY DEF Model!AcceptedNamesTheModel
  <1> DEFINE t == Model!Number
             name == names[j]
  <1>1. t \in Texts /\ name \in Texts
    BY ModelTexts
  <1>2. Model!Occurs(t, Model!Folded(name))
    BY DEF ModelInv, InName
  <1>3. \E a \in 1..(Len(name) + 1), b \in 0..Len(name) : Model!Folded(SubSeq(name, a, b)) = t
    <2> HIDE DEF t, name
    <2>1. QED  BY <1>1, <1>2, OccursInPiece
  <1>4. QED  BY <1>3 DEF Model!Spelled

\* An archive that has the reported type in its name is accepted, however case, spaces
\* and dashes differ, and archives that are accepted all name the model in one piece.
THEOREM ModelsAreCompared ==
    ASSUME Model!ModelMatchAssumption
    PROVE  AnySpec => []ModelCompared
  <1>1. ModelInv => ModelCompared
    BY SameModelIsAccepted, AcceptedIsSpelled DEF ModelCompared
  <1>2. QED  BY <1>1, ModelInvariant, PTL
=============================================================================
