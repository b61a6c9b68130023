------------------------------ MODULE UsbProbe ------------------------------
(***************************************************************************)
(* storage_probe() of kernel/usb_mass_storage/usb.c: the device, the       *)
(* "quirks=" parameter and the table entry decide flags, transport and     *)
(* protocol, then pipes, URB and control thread are set up and the host is *)
(* added.  Several results are not looked at.  The label BadDevice is not  *)
(* in the file, and what it would undo is not modelled; the body of the    *)
(* last if of get_pipes() is empty, and its block follows in any case.     *)
(***************************************************************************)
EXTENDS Naturals, Sequences, SequencesExt

CONSTANTS
  Devices,  \* what can be plugged in: a descriptor, its endpoints, the table's entry
  Quirks,   \* values of the parameter: sequences of entries
  Flags     \* the flags of interest

VARIABLES intf, quirks, at, us, threads

probeVars == <<intf, quirks, at, us, threads>>

\* Flags that the parameter replaces; GO_SLOW, SCM_MULT_TARG and the others
\* of the table are out of its reach.
Mask == {"SINGLE_LUN", "IGNORE_DEVICE", "INITIAL_READ10"}

Unset == [fflags |-> {}, subclass |-> "", protocol |-> "", transport |-> "", handler |-> "",
          max_lun |-> 0, iobuf |-> FALSE, current_urb |-> FALSE, redo |-> FALSE]

Init ==
  /\ intf \in Devices /\ quirks \in Quirks
  /\ at = "storage_probe" /\ us = Unset /\ threads = 0

Go(from, to) == at = from /\ at' = to

-----------------------------------------------------------------------------

\* A device of a subdriver is refused by usb_usual_ignore_device(); a host
\* that scsi_host_alloc() has no memory for is written to all the same.
StorageProbe ==
  /\ at = "storage_probe"
  /\ at' \in IF intf.subdriver THEN {"refused"} ELSE {"associate_dev", "oops: host"}
  /\ UNCHANGED <<intf, quirks, us, threads>>

\* The result is lost: a device without its buffer is probed on
AssociateDev ==
  /\ Go("associate_dev", "get_device_info")
  /\ \E allocated \in BOOLEAN : us' = [us EXCEPT !.iobuf = allocated]
  /\ UNCHANGED <<intf, quirks, threads>>

adjust_quirks_or(fflags) ==                 \* mutant: flags are added only
  LET i == SelectInSeq(quirks, LAMBDA e : e.vid = intf.vid) IN
  IF i = 0 THEN fflags ELSE fflags \cup quirks[i].flags

\* The first entry for the device replaces the flags under the mask
adjust_quirks(fflags) ==
  LET i == SelectInSeq(quirks, LAMBDA e : e.vid = intf.vid) IN
  IF i = 0 THEN fflags ELSE (fflags \ Mask) \cup quirks[i].flags

\* A dynamic ID uses Bulk-Only and transparent SCSI.  IGNORE_DEVICE makes it
\* return -ENODEV, which usb_stor_probe1() does not look at; GO_SLOW is kept
\* for it whatever the speed.
GetDeviceInfo ==
  /\ Go("get_device_info", "get_transport")
  /\ LET fflags == adjust_quirks(intf.driver_info) IN
     us' = [us EXCEPT
       !.subclass = IF ~intf.known THEN "SCSI"
                    ELSE IF intf.useProtocol = "DEVICE" THEN intf.subclass ELSE intf.useProtocol,
       !.protocol = IF ~intf.known THEN "BULK"
                    ELSE IF intf.useTransport = "DEVICE" THEN intf.protocol ELSE intf.useTransport,
       !.fflags = IF "IGNORE_DEVICE" \in fflags \/ intf.high THEN fflags ELSE fflags \ {"GO_SLOW"}]
  /\ UNCHANGED <<intf, quirks, threads>>

GetTransport ==
  /\ Go("get_transport", "get_protocol")
  /\ us' = CASE us.protocol \in {"CB", "CBI"} -> [us EXCEPT !.transport = "CB", !.max_lun = 7]
             [] us.protocol = "BULK" -> [us EXCEPT !.transport = "Bulk"]
             [] OTHER -> us
  /\ UNCHANGED <<intf, quirks, threads>>

GetProtocol ==
  /\ Go("get_protocol", "usb_stor_probe2")
  /\ us' = CASE us.subclass \in {"RBC", "SCSI"} -> [us EXCEPT !.handler = "transparent"]
             [] us.subclass \in {"8020", "QIC", "8070"} ->
                  [us EXCEPT !.handler = "pad12", !.max_lun = 0]
             [] us.subclass = "UFI" -> [us EXCEPT !.handler = "ufi"]
             [] OTHER -> us
  /\ UNCHANGED <<intf, quirks, threads>>

Settled_either == us.transport # "" \/ us.handler # ""   \* mutant: one is enough

Settled == us.transport # "" /\ us.handler # ""

\* get_pipes() reads the number of each endpoint, found or not
Probe2 ==
  /\ Go("usb_stor_probe2",
        IF ~Settled THEN "BadDevice"
        ELSE IF intf.endpoints # {"in", "out", "int"} THEN "oops: endpoint" ELSE "acquire")
  /\ us' = [us EXCEPT
       !.max_lun = IF Settled /\ "SINGLE_LUN" \in us.fflags THEN 0 ELSE @,
       !.redo = at' = "acquire" /\ "INITIAL_READ10" \in us.fflags]
  /\ UNCHANGED <<intf, quirks, threads>>

\* usb_alloc_urb() and kthread_run() may fail, which is not looked at
AcquireResources ==
  /\ Go("acquire", "scsi_add_host")
  /\ \E urb \in BOOLEAN : us' = [us EXCEPT !.current_urb = urb]
  /\ threads' \in {threads, threads + 1}
  /\ UNCHANGED <<intf, quirks>>

\* After this the scan is queued: UsbStorage begins
AddHost ==
  /\ at = "scsi_add_host"
  /\ at' \in {"added", "BadDevice"}
  /\ UNCHANGED <<intf, quirks, us, threads>>

Next ==
  \/ StorageProbe \/ AssociateDev \/ GetDeviceInfo \/ GetTransport \/ GetProtocol
  \/ Probe2 \/ AcquireResources \/ AddHost

Spec == Init /\ [][Next]_probeVars

-----------------------------------------------------------------------------
(* Properties *)

\* Each variable has its type.
TypeOK ==
  /\ intf \in Devices /\ quirks \in Quirks /\ threads \in 0 .. 1
  /\ us.fflags \subseteq Flags /\ us.max_lun \in {0, 7}

Unread == {"storage_probe", "refused", "oops: host", "associate_dev", "get_device_info"}

\* adjust_quirks(): under the mask the flags are those of the first entry for
\* the device, or the table's without one; outside it the table's, or none.
QuirksDecide ==
  at \notin Unread =>
    /\ us.fflags \ Mask \subseteq intf.driver_info
    /\ LET mine == {i \in DOMAIN quirks : quirks[i].vid = intf.vid} IN
       us.fflags \cap Mask =
         IF mine = {} THEN intf.driver_info \cap Mask
         ELSE quirks[CHOOSE i \in mine : \A j \in mine : i <= j].flags

\* get_transport(), get_protocol(), usb_stor_probe2(): three of them set the
\* highest LUN of a host, and the last that has a say wins: one LUN for a flag,
\* a padding protocol or Bulk-Only, eight else.  A first READ(10) is repeated
\* as the flags say.  Nothing is said of buffer, URB and thread: a host is added
\* without them.
HostAsAsked ==
  at = "added" =>
    /\ us.transport # "" /\ us.handler # ""
    /\ us.max_lun = IF \/ "SINGLE_LUN" \in us.fflags
                        \/ us.handler = "pad12" \/ us.transport = "Bulk" THEN 0 ELSE 7
    /\ us.redo <=> "INITIAL_READ10" \in us.fflags

\* get_pipes(), "We are expecting a minimum of 2 endpoints - in and out (bulk).
\* An optional interrupt-in is OK".
InterruptIsOptional == at = "oops: endpoint" => ~({"in", "out"} \subseteq intf.endpoints)
=============================================================================
