----------------------------- MODULE VirtioMmio -----------------------------
(***************************************************************************)
(* The registry of trapping guest-physical windows (mmio.c), the table of  *)
(* virtio devices behind them and their registers (virtio.c).              *)
(*                                                                         *)
(* Addresses are counted in pages.  A register access is one action: the   *)
(* code holds dev->reg_lock for all of it.  Device backends are external:  *)
(* they register and unregister devices, and answer a notification with a  *)
(* failure, nothing, or completed requests.  Reads change nothing and are  *)
(* left out, with DeviceFeaturesSel that only chooses what one returns.    *)
(***************************************************************************)
EXTENDS Integers, Sequences, FiniteSets

CONSTANTS
    Devs,         \* virtio devices of the VM
    Pages,        \* guest-physical pages, integers
    RamPages,     \* the pages of the RAM regions
    QueueCount,   \* dev->queue_count
    QueueSels,    \* values the guest writes to QueueSel
    FeatureSels,  \* values the guest writes to DriverFeaturesSel
    Features,     \* values of the low word of DriverFeatures
    Statuses,     \* values the guest writes to Status, as sets of bits; "high"
                  \* stands for any bit above the low eight
    Rings,        \* the areas of a virtqueue: descriptors, avail, used
    Halves,       \* the 32-bit halves of their addresses
    MaxRegions,   \* RELM_MAX_MMIO_REGIONS
    MaxDevices    \* RELM_VIRTIO_MMIO_MAX_DEVICES

ASSUME VirtioAssumption ==
    /\ RamPages \subseteq Pages /\ Pages \subseteq Nat /\ 0 \in Pages
    /\ {} \in Statuses /\ QueueCount \in Nat \ {0} /\ MaxRegions \in Nat /\ MaxDevices \in Nat

VARIABLES
    regions,   \* vm->memory.mmio_regions, up to mmio_region_count
    registry,  \* g_registered_devices, up to g_registered_count
    base,      \* dev->mmio_base_gpa
    selectors, \* g_selector_state, by index in the registry
    dev,       \* status, isr, guest_features and queues of each device
    vcpu,      \* "running", or how an access that cannot be emulated ended it
    started,   \* history: devices that saw DRIVER_OK since zero was last written
    lost       \* history: pages whose window and device a second registration
               \* of one device has parted

vars == <<regions, registry, base, selectors, dev, vcpu, started, lost>>

Queues == 0 .. QueueCount - 1
Virtqueue == [addr : [Rings \X Halves -> {0, 1}], sized : BOOLEAN, ready : BOOLEAN]
Selector == [queue : QueueSels \cup {0}, features : FeatureSels \cup {0}]

\* dev->status has eight bits of the value written.
uint8_t(s) == s \ {"high"}

\* Type invariant. The tables of windows and devices, and the registers.
TypeOK ==
    /\ regions \in Seq([start : Pages, size : 1 .. 2]) /\ Len(regions) <= MaxRegions
    /\ registry \in Seq(Devs) /\ Len(registry) <= MaxDevices
    /\ base \in [Devs -> Pages]
    /\ selectors \in [1 .. MaxDevices -> Selector]
    /\ dev \in [Devs -> [status : {uint8_t(s) : s \in Statuses}, isr : BOOLEAN,
                         features : Features \cup {0}, q : [Queues -> Virtqueue]]]
    /\ vcpu \in {"running", "error", "stopped"}
    /\ started \in SUBSET Devs /\ lost \in SUBSET Pages

NoAddr == [x \in Rings \X Halves |-> 0]

Init ==
    /\ regions = <<>> /\ registry = <<>>
    /\ base = [d \in Devs |-> 0]
    /\ selectors = [k \in 1 .. MaxDevices |-> [queue |-> 0, features |-> 0]]
    /\ dev = [d \in Devs |-> [status |-> {}, isr |-> FALSE, features |-> 0,
                q |-> [k \in Queues |->
                         [addr |-> NoAddr, sized |-> FALSE, ready |-> FALSE]]]]
    /\ vcpu = "running" /\ started = {} /\ lost = {}

----------------------------------------------------------------------------
(* The registry of windows. *)

RegionSet == {regions[k] : k \in DOMAIN regions}
PagesOf(start, size) == start .. start + size - 1

relm_vm_gpa_is_mmio_region(p) == \E r \in RegionSet : p \in PagesOf(r.start, r.size)

\* Mutant: room is tested with <=.
CanReserve_MutFull(start, size) ==
    /\ PagesOf(start, size) \cap RamPages = {}
    /\ \A r \in RegionSet : PagesOf(start, size) \cap PagesOf(r.start, r.size) = {}
    /\ Len(regions) <= MaxRegions

\* The checks of relm_vm_reserve_mmio_region: no RAM, no other window, room.
CanReserve(start, size) ==
    /\ PagesOf(start, size) \cap RamPages = {}
    /\ \A r \in RegionSet : PagesOf(start, size) \cap PagesOf(r.start, r.size) = {}
    /\ Len(regions) < MaxRegions

Reserved(start, size) == Append(regions, [start |-> start, size |-> size])

\* Table s without entry k: the later ones move down.
Closed(s, k) == [j \in 1 .. Len(s) - 1 |-> IF j < k THEN s[j] ELSE s[j + 1]]

\* relm_vm_release_mmio_region: the first window that starts there goes.
Released(start) ==
    LET at == {k \in DOMAIN regions : regions[k].start = start}
    IN  IF at = {} THEN regions
        ELSE Closed(regions, CHOOSE k \in at : \A x \in at : k <= x)

\* A window of two pages reserved by other code, and its release.
relm_vm_reserve_mmio_region(start) ==
    /\ CanReserve(start, 2)
    /\ regions' = Reserved(start, 2)
    /\ UNCHANGED <<registry, base, selectors, dev, vcpu, started, lost>>

relm_vm_release_mmio_region(start) ==
    /\ \E r \in RegionSet : r.start = start /\ r.size = 2
    /\ regions' = Released(start)
    /\ UNCHANGED <<registry, base, selectors, dev, vcpu, started, lost>>

----------------------------------------------------------------------------
(* The table of devices. *)

Registered == {registry[k] : k \in DOMAIN registry}

\* The first entry of device d.
IndexOf(d) == CHOOSE k \in DOMAIN registry :
                registry[k] = d /\ \A x \in 1 .. k - 1 : registry[x] # d

\* Neither the device nor the selector slot it takes over is reset, and
\* nothing looks whether it is registered: one that is gets a second entry
\* and a second window, and its first window stays reserved without it.
relm_virtio_mmio_register_device(d, p) ==
    /\ Len(registry) < MaxDevices
    /\ CanReserve(p, 1)
    /\ regions' = Reserved(p, 1)
    /\ base' = [base EXCEPT ![d] = p]
    /\ registry' = Append(registry, d)
    /\ lost' = IF d \in Registered THEN lost \cup {base[d]} ELSE lost
    /\ UNCHANGED <<selectors, dev, vcpu, started>>

\* Mutant: the window of the last device is released.
relm_virtio_mmio_unregister_device_Mut(d) ==
    /\ d \in Registered
    /\ registry' = Closed(registry, IndexOf(d))
    /\ regions' = Released(base[registry[Len(registry)]])
    /\ lost' = IF d \in Registered' THEN lost \cup {base[d]} ELSE lost
    /\ UNCHANGED <<base, selectors, dev, vcpu, started>>

\* A device registered twice keeps its other entry, now without a window.
relm_virtio_mmio_unregister_device(d) ==
    /\ d \in Registered
    /\ registry' = Closed(registry, IndexOf(d))
    /\ regions' = Released(base[d])
    /\ lost' = IF d \in Registered' THEN lost \cup {base[d]} ELSE lost
    /\ UNCHANGED <<base, selectors, dev, vcpu, started>>

\* The devices that have their registers at page p; the code takes the first.
Owners(p) == {d \in Registered : base[d] = p}

----------------------------------------------------------------------------
(* Accesses. *)

\* relm_virtio_find_device_for_gpa and selector_state_for: an access to the
\* window of device d uses the slot of its index.
relm_virtio_find_device_for_gpa(p) ==
    registry[CHOOSE k \in DOMAIN registry :
               base[registry[k]] = p /\ \A x \in 1 .. k - 1 : base[registry[x]] # p]

selector_state_for(d) == IndexOf(d)

Sel(d) == selectors[selector_state_for(d)]

\* A write of device d's registers: handle_ept_violation asks for a window
\* first, then for the device.
Access(d) ==
    /\ vcpu = "running"
    /\ \E p \in Pages : /\ relm_vm_gpa_is_mmio_region(p)
                        /\ Owners(p) # {} /\ d = relm_virtio_find_device_for_gpa(p)

\* handle_ept_violation when nothing emulates the access: a page that is not
\* a window stops the vCPU; a window without a device, or an instruction that
\* cannot be fetched, decoded or emulated, is an error.
UnhandledAccess(p) ==
    /\ vcpu = "running" /\ p \notin RamPages
    /\ vcpu' = IF relm_vm_gpa_is_mmio_region(p) THEN "error" ELSE "stopped"
    /\ UNCHANGED <<regions, registry, base, selectors, dev, started, lost>>

SetDev(d, v) == dev' = [dev EXCEPT ![d] = v]
SetQueue(d, k, v) == dev' = [dev EXCEPT ![d].q[k] = v]
Table == <<regions, registry, base, lost>>

QueueSel(d, v) ==
    /\ Access(d)
    /\ selectors' = [selectors EXCEPT ![selector_state_for(d)].queue = v]
    /\ UNCHANGED <<Table, dev, vcpu, started>>

DriverFeaturesSel(d, v) ==
    /\ Access(d)
    /\ selectors' = [selectors EXCEPT ![selector_state_for(d)].features = v]
    /\ UNCHANGED <<Table, dev, vcpu, started>>

\* Only the low word is kept.
DriverFeatures(d, v) ==
    /\ Access(d) /\ Sel(d).features = 0
    /\ SetDev(d, [dev[d] EXCEPT !.features = v])
    /\ UNCHANGED <<Table, selectors, vcpu, started>>

\* A size other than the maximum is refused.
QueueNum(d) ==
    /\ Access(d) /\ Sel(d).queue \in Queues
    /\ SetQueue(d, Sel(d).queue, [dev[d].q[Sel(d).queue] EXCEPT !.sized = TRUE])
    /\ UNCHANGED <<Table, selectors, vcpu, started>>

\* One 32-bit half of a ring address.
QueueAddr(d, ring, half, v) ==
    /\ Access(d) /\ Sel(d).queue \in Queues
    /\ SetQueue(d, Sel(d).queue, [dev[d].q[Sel(d).queue] EXCEPT !.addr[<<ring, half>>] = v])
    /\ UNCHANGED <<Table, selectors, vcpu, started>>

HasRings(vq) == \A r \in Rings : \E h \in Halves : vq.addr[<<r, h>>] # 0

\* Mutant: a queue becomes ready whatever the status.
QueueReady_Mut(d, v) ==
    /\ Access(d) /\ Sel(d).queue \in Queues
    /\ LET k == Sel(d).queue
           vq == dev[d].q[k]
       IN  SetQueue(d, k, [vq EXCEPT !.ready = v = 1 /\ HasRings(vq)])
    /\ UNCHANGED <<Table, selectors, vcpu, started>>

QueueReady(d, v) ==
    /\ Access(d) /\ Sel(d).queue \in Queues
    /\ LET k == Sel(d).queue
           vq == dev[d].q[k]
           ready == IF v = 0 THEN FALSE
                    ELSE IF ~HasRings(vq) THEN vq.ready
                    ELSE "DRIVER_OK" \in dev[d].status
       IN  SetQueue(d, k, [vq EXCEPT !.ready = ready])
    /\ UNCHANGED <<Table, selectors, vcpu, started>>

\* The backend completes requests: the used-buffer bit is set and the vCPU's
\* IRQ raised.  When it fails or finds nothing, nothing changes.
QueueNotify(d) ==
    /\ Access(d)
    /\ SetDev(d, [dev[d] EXCEPT !.isr = TRUE])
    /\ UNCHANGED <<Table, selectors, vcpu, started>>

InterruptAck(d) ==
    /\ Access(d)
    /\ SetDev(d, [dev[d] EXCEPT !.isr = FALSE])
    /\ UNCHANGED <<Table, selectors, vcpu, started>>

\* The low byte is stored.  The tests are on the value written: zero or FAILED
\* clears every queue; DRIVER_OK makes the queues with ring addresses ready;
\* anything else, high bits over a zero byte too, only stores.  A reset keeps
\* isr, guest_features, the queue sizes and the selectors.
WriteStatus(d, s) ==
    /\ Access(d)
    /\ LET clear(vq) == [vq EXCEPT !.addr = NoAddr, !.ready = FALSE]
           enable(vq) == [vq EXCEPT !.ready = HasRings(vq)]
           new(vq) == IF s = {} \/ "FAILED" \in s THEN clear(vq)
                      ELSE IF "DRIVER_OK" \in s THEN enable(vq)
                      ELSE vq
       IN  SetDev(d, [dev[d] EXCEPT !.status = uint8_t(s),
                                    !.q = [k \in Queues |-> new(dev[d].q[k])]])
    /\ started' = IF s = {} THEN started \ {d}
                  ELSE IF "DRIVER_OK" \in s THEN started \cup {d} ELSE started
    /\ UNCHANGED <<Table, selectors, vcpu>>

Register(d) ==
    \/ \E v \in QueueSels : QueueSel(d, v)
    \/ \E v \in FeatureSels : DriverFeaturesSel(d, v)
    \/ \E v \in Features : DriverFeatures(d, v)
    \/ QueueNum(d)
    \/ \E r \in Rings, h \in Halves, v \in {0, 1} : QueueAddr(d, r, h, v)
    \/ \E v \in {0, 1} : QueueReady(d, v)
    \/ QueueNotify(d) \/ InterruptAck(d)
    \/ \E s \in Statuses : WriteStatus(d, s)

Next ==
    \/ \E p \in Pages : relm_vm_reserve_mmio_region(p) \/ relm_vm_release_mmio_region(p)
    \/ \E d \in Devs, p \in Pages : relm_virtio_mmio_register_device(d, p)
    \/ \E d \in Devs : relm_virtio_mmio_unregister_device(d)
    \/ \E p \in Pages : UnhandledAccess(p)
    \/ \E d \in Devs : Register(d)

Spec == Init /\ [][Next]_vars

----------------------------------------------------------------------------
(* Properties. *)

\* Windows stay apart from each other and from RAM, whatever is reserved and
\* released: an overlap with RAM would not trap, one with another window
\* would be served by the wrong device.
WindowsDisjoint ==
    /\ \A j, k \in DOMAIN regions : j # k =>
          PagesOf(regions[j].start, regions[j].size)
            \cap PagesOf(regions[k].start, regions[k].size) = {}
    /\ \A p \in RamPages : ~relm_vm_gpa_is_mmio_region(p)

\* The two tables agree in both directions: a page is the window of a device
\* exactly when some entry claims it, and then the lookup of an access that
\* traps there gives the one device that does.  Registering a device again
\* parts a window from its device; pages this happened to are left out, and
\* windows are disjoint all the same.
DevicesOwnWindows ==
    /\ WindowsDisjoint
    /\ \A p \in Pages \ lost :
          /\ [start |-> p, size |-> 1] \in RegionSet <=> Owners(p) # {}
          /\ \A d \in Owners(p) : relm_virtio_find_device_for_gpa(p) = d

\* A queue is used only in a life of the device in which the driver reported
\* DRIVER_OK: writing zero to Status ends it, and no register write revives it
\* before.
ReadyOnlyWhenStarted ==
    \A d \in Devs, k \in Queues : dev[d].q[k].ready => d \in started

----------------------------------------------------------------------------
(* Claims the code does not meet. *)

\* virtio.h: a queue is ready once "Device status has reached DRIVER_OK".  A
\* later Status without it, 0x100 with its zero byte too, leaves it ready.
ReadyMeansDriverOk ==
    \A d \in Devs, k \in Queues : dev[d].q[k].ready => "DRIVER_OK" \in dev[d].status

\* mmio.c: an access in a reserved window is "guest touched an emulated device".
\* The first window of a device that is registered twice has no device.
WindowsServed == \A r \in RegionSet : r.size = 1 => Owners(r.start) # {}

=============================================================================
