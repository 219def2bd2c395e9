---------------------------- MODULE VirtioProofs ----------------------------
(***************************************************************************)
(* Proofs about the virtio-mmio registry and registers (VirtioMmio) and    *)
(* the emulation of the instruction that accesses one (InsnEmulate), for   *)
(* every set of devices, pages, windows, queues, registers and             *)
(* instructions that meets VirtioAssumption and InsnAssumption.            *)
(***************************************************************************)
EXTENDS MCVirtioMmio, WellFoundedInduction, TLAPS

\* An entry goes, the others stay in their order.
LEMMA ClosedProperties ==
    ASSUME NEW S, NEW s \in Seq(S), NEW k \in DOMAIN s
    PROVE  /\ Closed(s, k) \in Seq(S)
           /\ Len(Closed(s, k)) = Len(s) - 1
           /\ \A j \in 1 .. Len(s) - 1 :
                 Closed(s, k)[j] = IF j < k THEN s[j] ELSE s[j + 1]
  BY DEF Closed

----------------------------------------------------------------------------
(* Type correctness. *)

Window == [start : Pages, size : 1 .. 2]
DevState == [status : {uint8_t(s) : s \in Statuses}, isr : BOOLEAN,
             features : Features \cup {0}, q : [Queues -> Virtqueue]]

LEMMA PagesAreIntegers == \A p \in Pages : p \in Int
  <1>1. Pages \subseteq Nat
    BY Zenon, VirtioAssumption
  <1> QED
    BY <1>1

LEMMA WindowTyped ==
    ASSUME TypeOK
    PROVE  regions \in Seq(Window) /\ \A k \in DOMAIN regions : regions[k] \in Window
  <1>1. regions \in Seq(Window)
    BY Zenon DEF TypeOK, Window
  <1> QED
    BY <1>1

\* What Reserved and Released make of the table of windows.
LEMMA ReservedProperties ==
    ASSUME TypeOK, NEW start \in Pages, NEW size \in 1 .. 2, Len(regions) < MaxRegions
    PROVE  LET t == Reserved(start, size)
           IN  /\ t \in Seq(Window) /\ Len(t) = Len(regions) + 1 /\ Len(t) <= MaxRegions
               /\ \A k \in DOMAIN regions : t[k] = regions[k]
               /\ t[Len(regions) + 1] = [start |-> start, size |-> size]
  <1>1. [start |-> start, size |-> size] \in Window
    BY Zenon DEF Window
  <1>2. regions \in Seq(Window)
    BY Zenon DEF TypeOK, Window
  <1> QED
    BY <1>1, <1>2, VirtioAssumption DEF Reserved

\* Windows that are disjoint start at different pages.
LEMMA StartsDiffer ==
    ASSUME TypeOK, WindowsDisjoint, NEW j \in DOMAIN regions, NEW k \in DOMAIN regions,
           regions[j].start = regions[k].start
    PROVE  j = k
  <1>1. ASSUME NEW x \in DOMAIN regions
        PROVE  regions[x].start \in PagesOf(regions[x].start, regions[x].size)
    <2>1. regions[x] \in Window
      BY Zenon, WindowTyped
    <2>2. regions[x].start \in Pages /\ regions[x].size \in 1 .. 2
      BY Zenon, <2>1 DEF Window
    <2>3. regions[x].start \in Int
      BY Zenon, <2>2, PagesAreIntegers
    <2> QED
      BY <2>2, <2>3 DEF PagesOf
  <1> QED
    BY Zenon, <1>1 DEF WindowsDisjoint

\* Releasing a reserved start takes exactly its window out.
LEMMA ReleasedProperties ==
    ASSUME TypeOK, WindowsDisjoint, NEW a \in DOMAIN regions
    PROVE  LET t == Released(regions[a].start)
           IN  /\ t \in Seq(Window) /\ Len(t) = Len(regions) - 1
               /\ \A j \in 1 .. Len(regions) - 1 :
                     t[j] = IF j < a THEN regions[j] ELSE regions[j + 1]
  <1> DEFINE hits == {k \in DOMAIN regions : regions[k].start = regions[a].start}
  <1>1. hits = {a}
    BY Zenon, StartsDiffer
  <1>2. (CHOOSE k \in hits : \A x \in hits : k <= x) = a
    <2>1. a <= a
      BY DEF TypeOK
    <2> QED
      BY Zenon, <1>1, <2>1
  <1>3. Released(regions[a].start) = Closed(regions, a)
    BY Zenon, <1>1, <1>2 DEF Released
  <1>4. regions \in Seq(Window)
    BY Zenon DEF TypeOK, Window
  <1> QED
    BY Zenon, <1>3, <1>4, ClosedProperties

----------------------------------------------------------------------------
(* The registers of a device. *)

LEMMA SetQueueTyped ==
    ASSUME TypeOK, NEW d \in Devs, NEW k \in Queues, NEW v \in Virtqueue, SetQueue(d, k, v)
    PROVE  /\ dev' \in [Devs -> DevState]
           /\ \A x \in Devs : dev'[x].status = dev[x].status
           /\ \A x \in Devs, y \in Queues :
                 dev'[x].q[y] = IF x = d /\ y = k THEN v ELSE dev[x].q[y]
  <1>1. dev \in [Devs -> DevState]
    BY Zenon DEF TypeOK, DevState
  <1>2. \A x \in Devs : dev[x].q \in [Queues -> Virtqueue]
    BY Zenon, <1>1 DEF DevState
  <1>3. dev' = [dev EXCEPT ![d].q[k] = v]
    BY Zenon DEF SetQueue
  <1>4. [dev[d].q EXCEPT ![k] = v] \in [Queues -> Virtqueue]
    BY Zenon, <1>2
  <1>5. [dev[d] EXCEPT !.q[k] = v] \in DevState
    BY Zenon, <1>1, <1>4 DEF DevState
  <1>6. dev' \in [Devs -> DevState]
    BY Zenon, <1>1, <1>3, <1>5
  <1>7. \A x \in Devs : dev'[x].status = dev[x].status
    BY Zenon, <1>1, <1>3 DEF DevState
  <1>8. \A x \in Devs : dev'[x].q = IF x = d THEN [dev[d].q EXCEPT ![k] = v] ELSE dev[x].q
    BY Zenon, <1>1, <1>3 DEF DevState
  <1>9. \A x \in Devs, y \in Queues :
           dev'[x].q[y] = IF x = d /\ y = k THEN v ELSE dev[x].q[y]
    BY Zenon, <1>2, <1>8
  <1> QED
    BY Zenon, <1>6, <1>7, <1>9

LEMMA SetDevTyped ==
    ASSUME TypeOK, NEW d \in Devs, NEW v \in DevState, SetDev(d, v)
    PROVE  /\ dev' \in [Devs -> DevState]
           /\ \A x \in Devs : dev'[x] = IF x = d THEN v ELSE dev[x]
  BY Zenon DEF TypeOK, DevState, SetDev

\* QueueReady and Status: what they make of the queues.
LEMMA QueueReadyTyped ==
    ASSUME TypeOK, NEW d \in Devs, NEW v \in {0, 1}, QueueReady(d, v)
    PROVE  /\ dev' \in [Devs -> DevState]
           /\ UNCHANGED <<Table, selectors, vcpu, started>>
           /\ \A x \in Devs : dev'[x].status = dev[x].status
           /\ \A x \in Devs, y \in Queues :
                 dev'[x].q[y].ready => dev[x].q[y].ready \/ "DRIVER_OK" \in dev[x].status
  <1> DEFINE k == Sel(d).queue
             vq == dev[d].q[k]
             ready == IF v = 0 THEN FALSE
                      ELSE IF ~HasRings(vq) THEN vq.ready
                      ELSE "DRIVER_OK" \in dev[d].status
             new == [vq EXCEPT !.ready = ready]
  <1>1. k \in Queues /\ SetQueue(d, k, new)
    BY Zenon DEF QueueReady
  <1>2. vq \in Virtqueue
    BY Zenon, <1>1 DEF TypeOK
  <1>3. ready \in BOOLEAN
    <2>1. vq.ready \in BOOLEAN
      BY Zenon, <1>2 DEF Virtqueue
    <2> HIDE DEF vq
    <2>2. ("DRIVER_OK" \in dev[d].status) \in BOOLEAN
      OBVIOUS
    <2> QED
      BY ONLY Zenon, <2>1, <2>2
  <1>4. new \in Virtqueue /\ new.ready = ready
    BY Zenon, <1>2, <1>3 DEF Virtqueue
  <1>5. ready => vq.ready \/ "DRIVER_OK" \in dev[d].status
    BY Zenon
  <1> HIDE DEF ready, new, k
  <1> QED
    BY <1>1, <1>4, <1>5, SetQueueTyped DEF QueueReady

LEMMA WriteStatusTyped ==
    ASSUME TypeOK, NEW d \in Devs, NEW s \in Statuses, WriteStatus(d, s)
    PROVE  /\ dev' \in [Devs -> DevState]
           /\ dev'[d].status = uint8_t(s)
           /\ \A x \in Devs : x # d => dev'[x] = dev[x]
           /\ \A y \in Queues : dev'[d].q[y].ready =>
                 s # {} /\ (dev[d].q[y].ready \/ "DRIVER_OK" \in s)
  <1> DEFINE clear(vq) == [vq EXCEPT !.addr = NoAddr, !.ready = FALSE]
             enable(vq) == [vq EXCEPT !.ready = HasRings(vq)]
             new(vq) == IF s = {} \/ "FAILED" \in s THEN clear(vq)
                        ELSE IF "DRIVER_OK" \in s THEN enable(vq)
                        ELSE vq
             q == [k \in Queues |-> new(dev[d].q[k])]
             v == [dev[d] EXCEPT !.status = uint8_t(s), !.q = q]
  <1>1. SetDev(d, v)
    BY Zenon DEF WriteStatus
  <1>2. dev[d] \in DevState /\ \A k \in Queues : dev[d].q[k] \in Virtqueue
    BY Zenon DEF TypeOK, DevState
  <1>3. ASSUME NEW vq \in Virtqueue
        PROVE  /\ new(vq) \in Virtqueue
               /\ new(vq).ready => s # {} /\ (vq.ready \/ "DRIVER_OK" \in s)
    <2>1. NoAddr \in [Rings \X Halves -> {0, 1}]
      BY Zenon DEF NoAddr
    <2>2. clear(vq) \in Virtqueue /\ ~clear(vq).ready
      BY Zenon, <2>1 DEF Virtqueue
    <2>3. HasRings(vq) \in BOOLEAN
      BY Zenon DEF HasRings
    <2>4. enable(vq) \in Virtqueue
      BY Zenon, <2>3 DEF Virtqueue
    <2> QED
      BY Zenon, <2>2, <2>4
  <1> HIDE DEF new
  <1>4. /\ q \in [Queues -> Virtqueue]
        /\ \A y \in Queues : q[y].ready => s # {} /\ (dev[d].q[y].ready \/ "DRIVER_OK" \in s)
    BY Zenon, <1>2, <1>3
  <1> HIDE DEF q
  <1>5. v \in DevState /\ v.status = uint8_t(s) /\ v.q = q
    BY Zenon, <1>2, <1>4 DEF DevState
  <1> HIDE DEF v
  <1> QED
    BY <1>1, <1>4, <1>5, SetDevTyped

\* The tables of windows and devices are left alone by a register write.
LEMMA RegisterTyped ==
    ASSUME TypeOK, NEW d \in Devs, Register(d)
    PROVE  /\ TypeOK'
           /\ UNCHANGED <<regions, registry, base, vcpu, lost>>
  <1>0. /\ dev \in [Devs -> DevState] /\ dev[d] \in DevState
        /\ \A k \in Queues : dev[d].q[k] \in Virtqueue
        /\ selectors \in [1 .. MaxDevices -> Selector]
    BY Zenon DEF TypeOK, DevState
  <1>a. ASSUME dev' \in [Devs -> DevState], UNCHANGED <<Table, selectors, vcpu, started>>
        PROVE  TypeOK' /\ UNCHANGED <<regions, registry, base, vcpu, lost>>
    BY Zenon, <1>a DEF TypeOK, DevState, Table
  <1>b. ASSUME selectors' \in [1 .. MaxDevices -> Selector],
               UNCHANGED <<Table, dev, vcpu, started>>
        PROVE  TypeOK' /\ UNCHANGED <<regions, registry, base, vcpu, lost>>
    BY Zenon, <1>b DEF TypeOK, Table
  <1>1. ASSUME NEW v \in QueueSels, QueueSel(d, v)
        PROVE  TypeOK' /\ UNCHANGED <<regions, registry, base, vcpu, lost>>
    BY Zenon, <1>0, <1>1, <1>b DEF QueueSel, Selector
  <1>2. ASSUME NEW v \in FeatureSels, DriverFeaturesSel(d, v)
        PROVE  TypeOK' /\ UNCHANGED <<regions, registry, base, vcpu, lost>>
    BY Zenon, <1>0, <1>2, <1>b DEF DriverFeaturesSel, Selector
  <1>3. ASSUME NEW v \in Features, DriverFeatures(d, v)
        PROVE  TypeOK' /\ UNCHANGED <<regions, registry, base, vcpu, lost>>
    <2>1. [dev[d] EXCEPT !.features = v] \in DevState
      BY Zenon, <1>0 DEF DevState
    <2> QED
      BY Zenon, <2>1, <1>3, <1>a, SetDevTyped DEF DriverFeatures
  <1>4. CASE QueueNum(d)
    <2>1. [dev[d].q[Sel(d).queue] EXCEPT !.sized = TRUE] \in Virtqueue
      BY Zenon, <1>0, <1>4 DEF QueueNum, Virtqueue
    <2> QED
      BY Zenon, <2>1, <1>4, <1>a, SetQueueTyped DEF QueueNum
  <1>5. ASSUME NEW r \in Rings, NEW h \in Halves, NEW v \in {0, 1}, QueueAddr(d, r, h, v)
        PROVE  TypeOK' /\ UNCHANGED <<regions, registry, base, vcpu, lost>>
    <2>1. [dev[d].q[Sel(d).queue] EXCEPT !.addr[<<r, h>>] = v] \in Virtqueue
      BY Zenon, <1>0, <1>5 DEF QueueAddr, Virtqueue
    <2> QED
      BY Zenon, <2>1, <1>5, <1>a, SetQueueTyped DEF QueueAddr
  <1>6. ASSUME NEW v \in {0, 1}, QueueReady(d, v)
        PROVE  TypeOK' /\ UNCHANGED <<regions, registry, base, vcpu, lost>>
    BY Zenon, <1>6, <1>a, QueueReadyTyped
  <1>7. CASE QueueNotify(d)
    <2>1. [dev[d] EXCEPT !.isr = TRUE] \in DevState
      BY Zenon, <1>0 DEF DevState
    <2> QED
      BY Zenon, <2>1, <1>7, <1>a, SetDevTyped DEF QueueNotify
  <1>8. CASE InterruptAck(d)
    <2>1. [dev[d] EXCEPT !.isr = FALSE] \in DevState
      BY Zenon, <1>0 DEF DevState
    <2> QED
      BY Zenon, <2>1, <1>8, <1>a, SetDevTyped DEF InterruptAck
  <1>9. ASSUME NEW s \in Statuses, WriteStatus(d, s)
        PROVE  TypeOK' /\ UNCHANGED <<regions, registry, base, vcpu, lost>>
    <2>1. dev' \in [Devs -> DevState]
      BY Zenon, <1>9, WriteStatusTyped
    <2>2. started' \in SUBSET Devs /\ UNCHANGED <<regions, registry, base, lost, selectors, vcpu>>
      BY Zenon, <1>9 DEF TypeOK, Table, WriteStatus
    <2> QED
      BY Zenon, <2>1, <2>2 DEF TypeOK, DevState
  <1> QED
    BY Zenon, <1>1, <1>2, <1>3, <1>4, <1>5, <1>6, <1>7, <1>8, <1>9 DEF Register

----------------------------------------------------------------------------
(* The tables of windows and devices. *)

\* What makes DevicesOwnWindows inductive: away from the pages that a second
\* registration parted, windows and entries claim the same pages, and no two
\* devices the same one.
HasWindow(p) == \E w \in DOMAIN regions : regions[w] = [start |-> p, size |-> 1]
OneOwner(p) == \A d, e \in Owners(p) : d = e

Owned ==
    /\ WindowsDisjoint
    /\ \A p \in Pages \ lost : (HasWindow(p) <=> Owners(p) # {}) /\ OneOwner(p)

LEMMA LeastIndex ==
    ASSUME NEW T \in SUBSET Nat, T # {}
    PROVE  \E m \in T : \A n \in T : m <= n
  <1>1. PICK m \in T : \A n \in T : ~ (<<n, m>> \in OpToRel(<, Nat))
    BY Zenon, NatLessThanWellFounded, WFMin
  <1>2. \A n \in T : ~ (n < m)
    BY Zenon, <1>1 DEF OpToRel
  <1> QED
    BY <1>2

\* The first entry of a table with some quality.
LEMMA FirstEntry ==
    ASSUME NEW S, NEW s \in Seq(S), NEW T \in SUBSET DOMAIN s, T # {}
    PROVE  \E k \in T : \A x \in 1 .. k - 1 : x \in DOMAIN s /\ x \notin T
  <1>1. /\ T \in SUBSET Nat
        /\ DOMAIN s = 1 .. Len(s) /\ Len(s) \in Nat
    OBVIOUS
  <1>2. PICK k \in T : \A n \in T : k <= n
    BY Zenon, <1>1, LeastIndex
  <1>3. \A x \in 1 .. k - 1 : x \in DOMAIN s /\ x \notin T
    BY <1>1, <1>2
  <1> QED
    BY Zenon, <1>3

\* The lookup of the code finds a device at the page, hence the only one.
LEMMA LookupFinds ==
    ASSUME TypeOK, NEW p \in Pages, Owners(p) # {}
    PROVE  relm_virtio_find_device_for_gpa(p) \in Owners(p)
  <1> DEFINE T == {k \in DOMAIN registry : base[registry[k]] = p}
  <1>1. registry \in Seq(Devs)
    BY Zenon DEF TypeOK
  <1>2. T # {}
    BY Zenon DEF Owners, Registered
  <1>3. PICK k \in T : \A x \in 1 .. k - 1 : x \in DOMAIN registry /\ x \notin T
    BY Zenon, <1>1, <1>2, FirstEntry
  <1>4. /\ k \in DOMAIN registry
        /\ base[registry[k]] = p /\ \A x \in 1 .. k - 1 : base[registry[x]] # p
    BY Zenon, <1>3
  <1> DEFINE c == CHOOSE j \in DOMAIN registry :
                    base[registry[j]] = p /\ \A x \in 1 .. j - 1 : base[registry[x]] # p
  <1>5. c \in DOMAIN registry /\ base[registry[c]] = p
    BY Zenon, <1>4
  <1>6. relm_virtio_find_device_for_gpa(p) = registry[c]
    BY Zenon DEF relm_virtio_find_device_for_gpa
  <1> HIDE DEF c
  <1> QED
    BY Zenon, <1>5, <1>6 DEF Owners, Registered

LEMMA OwnedSuffices ==
    ASSUME TypeOK, Owned
    PROVE  DevicesOwnWindows
  <1>1. \A p : [start |-> p, size |-> 1] \in RegionSet <=> HasWindow(p)
    BY Zenon DEF RegionSet, HasWindow
  <1>2. ASSUME NEW p \in Pages \ lost, NEW d \in Owners(p)
        PROVE  relm_virtio_find_device_for_gpa(p) = d
    BY Zenon, <1>2, LookupFinds DEF Owned, OneOwner
  <1> QED
    BY Zenon, <1>1, <1>2 DEF DevicesOwnWindows, Owned

\* A window that relm_vm_reserve_mmio_region may add leaves them disjoint.
LEMMA ReserveKeepsDisjoint ==
    ASSUME TypeOK, WindowsDisjoint, NEW start \in Pages, NEW size \in 1 .. 2,
           CanReserve(start, size), regions' = Reserved(start, size)
    PROVE  WindowsDisjoint'
  <1> DEFINE n == Len(regions) + 1
             P(r) == PagesOf(r.start, r.size)
             w == [start |-> start, size |-> size]
  <1>1. /\ DOMAIN regions = 1 .. Len(regions) /\ Len(regions) \in Nat
        /\ DOMAIN regions' = 1 .. n
        /\ \A k \in DOMAIN regions : regions'[k] = regions[k]
        /\ regions'[n] = w
    <2>1. regions \in Seq(Window)
      BY Zenon, WindowTyped
    <2>2. /\ regions' \in Seq(Window) /\ Len(regions') = n
          /\ \A k \in DOMAIN regions : regions'[k] = regions[k]
          /\ regions'[n] = w
      BY ZenonT(30), ReservedProperties DEF CanReserve
    <2> QED
      BY <2>1, <2>2
  <1>2. /\ P(w) \cap RamPages = {}
        /\ \A k \in DOMAIN regions : P(w) \cap P(regions[k]) = {}
    BY Zenon DEF CanReserve, RegionSet
  <1>3. /\ \A j, k \in DOMAIN regions : j # k => P(regions[j]) \cap P(regions[k]) = {}
        /\ \A k \in DOMAIN regions : P(regions[k]) \cap RamPages = {}
    BY Zenon DEF WindowsDisjoint, relm_vm_gpa_is_mmio_region, RegionSet
  <1> HIDE DEF P, w
  <1>4. \A k \in DOMAIN regions' : k \in DOMAIN regions \/ k = n
    BY <1>1
  <1>5. \A j, k \in DOMAIN regions' : j # k => P(regions'[j]) \cap P(regions'[k]) = {}
    BY <1>1, <1>2, <1>3, <1>4
  <1>6. \A k \in DOMAIN regions' : P(regions'[k]) \cap RamPages = {}
    BY Zenon, <1>1, <1>2, <1>3, <1>4
  <1> QED
    BY Zenon, <1>5, <1>6 DEF P, WindowsDisjoint, relm_vm_gpa_is_mmio_region, RegionSet, PagesOf

LEMMA ReleaseKeepsDisjoint ==
    ASSUME TypeOK, WindowsDisjoint, NEW a \in DOMAIN regions,
           regions' = Released(regions[a].start)
    PROVE  /\ WindowsDisjoint'
           /\ \A w \in DOMAIN regions : w # a => \E x \in DOMAIN regions' : regions'[x] = regions[w]
           /\ \A x \in DOMAIN regions' : \E w \in DOMAIN regions : w # a /\ regions'[x] = regions[w]
  <1> DEFINE P(r) == PagesOf(r.start, r.size)
             from(j) == IF j < a THEN j ELSE j + 1
  <1>1. /\ DOMAIN regions = 1 .. Len(regions) /\ Len(regions) \in Nat
        /\ DOMAIN regions' = 1 .. Len(regions) - 1
        /\ \A j \in DOMAIN regions' : regions'[j] = regions[from(j)]
    <2>1. regions \in Seq(Window)
      BY Zenon, WindowTyped
    <2>2. /\ regions' \in Seq(Window) /\ Len(regions') = Len(regions) - 1
          /\ \A j \in 1 .. Len(regions) - 1 :
                regions'[j] = IF j < a THEN regions[j] ELSE regions[j + 1]
      BY Zenon, ReleasedProperties
    <2>3. \A j \in 1 .. Len(regions) - 1 : regions'[j] = regions[from(j)]
      BY Zenon, <2>2
    <2> HIDE DEF from
    <2> QED
      BY <2>1, <2>2, <2>3
  <1>2. /\ \A j \in DOMAIN regions' : from(j) \in DOMAIN regions /\ from(j) # a
        /\ \A j, k \in DOMAIN regions' : j # k => from(j) # from(k)
    BY <1>1
  <1>3. \A w \in DOMAIN regions : w # a => \E x \in DOMAIN regions' : from(x) = w
    <2> TAKE w \in DOMAIN regions
    <2> HAVE w # a
    <2>1. CASE w < a
      BY <1>1, <2>1
    <2>2. CASE w > a
      <3>1. w - 1 \in DOMAIN regions' /\ from(w - 1) = w
        BY <1>1, <2>2
      <3> QED
        BY Zenon, <3>1
    <2> QED
      BY <1>1, <2>1, <2>2
  <1> HIDE DEF from
  <1>4. /\ \A j, k \in DOMAIN regions : j # k => P(regions[j]) \cap P(regions[k]) = {}
        /\ \A k \in DOMAIN regions : P(regions[k]) \cap RamPages = {}
    BY Zenon DEF WindowsDisjoint, relm_vm_gpa_is_mmio_region, RegionSet
  <1> HIDE DEF P
  <1>5. \A j, k \in DOMAIN regions' : j # k => P(regions'[j]) \cap P(regions'[k]) = {}
    BY <1>1, <1>2, <1>4
  <1>6. \A k \in DOMAIN regions' : P(regions'[k]) \cap RamPages = {}
    BY Zenon, <1>1, <1>2, <1>4
  <1>7. WindowsDisjoint'
    BY Zenon, <1>5, <1>6 DEF P, WindowsDisjoint, relm_vm_gpa_is_mmio_region, RegionSet, PagesOf
  <1> QED
    BY ONLY Zenon, <1>1, <1>2, <1>3, <1>7

\* A window of two pages that comes or goes leaves Owned alone.
LEMMA OtherWindow ==
    ASSUME Owned, WindowsDisjoint', \A p : HasWindow(p)' <=> HasWindow(p),
           UNCHANGED <<registry, base, lost>>
    PROVE  Owned'
  <1>1. \A p : Owners(p)' = Owners(p)
    BY Zenon DEF Owners, Registered
  <1> QED
    BY Zenon, <1>1 DEF Owned, OneOwner

LEMMA ReserveStep ==
    ASSUME TypeOK, Owned, NEW p \in Pages, relm_vm_reserve_mmio_region(p)
    PROVE  TypeOK' /\ Owned'
  <1>1. /\ regions' = Reserved(p, 2) /\ CanReserve(p, 2) /\ Len(regions) < MaxRegions
        /\ 2 \in 1 .. 2
    BY DEF relm_vm_reserve_mmio_region, CanReserve
  <1>2. /\ regions' \in Seq(Window) /\ Len(regions') <= MaxRegions
        /\ \A k \in DOMAIN regions : k \in DOMAIN regions' /\ regions'[k] = regions[k]
        /\ \A k \in DOMAIN regions' : k \in DOMAIN regions \/ regions'[k].size = 2
    <2>1. regions \in Seq(Window)
      BY Zenon, WindowTyped
    <2>2. /\ regions' \in Seq(Window) /\ Len(regions') = Len(regions) + 1
          /\ Len(regions') <= MaxRegions
          /\ \A k \in DOMAIN regions : regions'[k] = regions[k]
          /\ regions'[Len(regions) + 1] = [start |-> p, size |-> 2]
      BY Zenon, <1>1, ReservedProperties
    <2> QED
      BY <2>1, <2>2
  <1>3. TypeOK'
    BY Zenon, <1>2 DEF TypeOK, Window, relm_vm_reserve_mmio_region
  <1>4. WindowsDisjoint'
    BY Zenon, <1>1, ReserveKeepsDisjoint DEF Owned
  <1>5. \A q : HasWindow(q)' <=> HasWindow(q)
    BY <1>2 DEF HasWindow
  <1> QED
    BY Zenon, <1>3, <1>4, <1>5, OtherWindow DEF relm_vm_reserve_mmio_region

LEMMA ReleaseStep ==
    ASSUME TypeOK, Owned, NEW p \in Pages, relm_vm_release_mmio_region(p)
    PROVE  TypeOK' /\ Owned'
  <1>1. PICK a \in DOMAIN regions : regions[a].start = p /\ regions[a].size = 2
    BY Zenon DEF relm_vm_release_mmio_region, RegionSet
  <1>2. regions' = Released(regions[a].start)
    BY Zenon, <1>1 DEF relm_vm_release_mmio_region
  <1>3. regions' \in Seq(Window) /\ Len(regions') <= MaxRegions
    <2>1. regions' \in Seq(Window) /\ Len(regions') = Len(regions) - 1
      BY Zenon, <1>2, ReleasedProperties DEF Owned
    <2> QED
      BY <2>1, VirtioAssumption DEF TypeOK
  <1>4. TypeOK'
    BY Zenon, <1>3 DEF TypeOK, Window, relm_vm_release_mmio_region
  <1>5. /\ WindowsDisjoint'
        /\ \A w \in DOMAIN regions : w # a => \E x \in DOMAIN regions' : regions'[x] = regions[w]
        /\ \A x \in DOMAIN regions' : \E w \in DOMAIN regions : w # a /\ regions'[x] = regions[w]
    BY Zenon, <1>2, ReleaseKeepsDisjoint DEF Owned
  <1>6. ASSUME NEW q
        PROVE  HasWindow(q)' <=> HasWindow(q)
    <2> DEFINE r == [start |-> q, size |-> 1]
    <2>1. regions[a] # r
      BY <1>1
    <2>2. /\ HasWindow(q) <=> \E w \in DOMAIN regions : regions[w] = r
          /\ HasWindow(q)' <=> \E x \in DOMAIN regions' : regions'[x] = r
      BY Zenon DEF HasWindow
    <2> HIDE DEF r
    <2> QED
      BY ONLY <1>5, <2>1, <2>2
  <1> QED
    BY Zenon, <1>4, <1>5, <1>6, OtherWindow DEF relm_vm_release_mmio_region

LEMMA RegisterDeviceStep ==
    ASSUME TypeOK, Owned, NEW d \in Devs, NEW p \in Pages,
           relm_virtio_mmio_register_device(d, p)
    PROVE  TypeOK' /\ Owned'
  <1> DEFINE n == Len(registry) + 1
  <1>1. /\ regions' = Reserved(p, 1) /\ CanReserve(p, 1) /\ Len(regions) < MaxRegions
        /\ 1 \in 1 .. 2
    BY DEF relm_virtio_mmio_register_device, CanReserve
  <1>2. /\ regions' \in Seq(Window) /\ Len(regions') <= MaxRegions
        /\ \A k \in DOMAIN regions : k \in DOMAIN regions' /\ regions'[k] = regions[k]
        /\ \A k \in DOMAIN regions' : k \in DOMAIN regions \/ regions'[k] = [start |-> p, size |-> 1]
        /\ \E k \in DOMAIN regions' : regions'[k] = [start |-> p, size |-> 1]
    <2>1. regions \in Seq(Window)
      BY Zenon, WindowTyped
    <2>2. /\ regions' \in Seq(Window) /\ Len(regions') = Len(regions) + 1
          /\ Len(regions') <= MaxRegions
          /\ \A k \in DOMAIN regions : regions'[k] = regions[k]
          /\ regions'[Len(regions) + 1] = [start |-> p, size |-> 1]
      BY Zenon, <1>1, ReservedProperties
    <2>3. Len(regions) + 1 \in DOMAIN regions'
      BY <2>1, <2>2
    <2>4. \A k \in DOMAIN regions' : k \in DOMAIN regions \/ k = Len(regions) + 1
      BY <2>1, <2>2
    <2>5. \A k \in DOMAIN regions : k \in DOMAIN regions'
      BY <2>1, <2>2
    <2> QED
      BY Zenon, <2>2, <2>3, <2>4, <2>5
  <1>3. \A q : HasWindow(q)' <=> HasWindow(q) \/ q = p
    BY <1>2 DEF HasWindow
  <1>4. /\ registry \in Seq(Devs) /\ registry' \in Seq(Devs) /\ Len(registry') = n
        /\ DOMAIN registry = 1 .. Len(registry) /\ Len(registry) \in Nat
        /\ DOMAIN registry' = 1 .. n
        /\ \A k \in DOMAIN registry : registry'[k] = registry[k]
        /\ registry'[n] = d
    BY DEF TypeOK, relm_virtio_mmio_register_device
  <1>5. Registered' = Registered \cup {d} /\ Registered \subseteq Devs
    <2>1. /\ \A k \in DOMAIN registry' : k \in DOMAIN registry \/ k = n
          /\ \A k \in DOMAIN registry : k \in DOMAIN registry' /\ registry[k] \in Devs
          /\ n \in DOMAIN registry'
      BY <1>4
    <2> HIDE DEF n
    <2> QED
      BY Zenon, <1>4, <2>1 DEF Registered
  <1>6. base' \in [Devs -> Pages] /\ base'[d] = p /\ \A x \in Devs : x # d => base'[x] = base[x]
    BY Zenon DEF TypeOK, relm_virtio_mmio_register_device
  <1>7. TypeOK'
    <2>1. Len(registry') <= MaxDevices
      BY <1>4, VirtioAssumption DEF relm_virtio_mmio_register_device
    <2>2. lost' \in SUBSET Pages
      BY Zenon DEF TypeOK, relm_virtio_mmio_register_device
    <2> QED
      BY Zenon, <1>2, <1>4, <1>6, <2>1, <2>2 DEF TypeOK, Window, relm_virtio_mmio_register_device
  <1>8. WindowsDisjoint'
    BY Zenon, <1>1, ReserveKeepsDisjoint DEF Owned
  <1>9. lost \subseteq lost' /\ (d \in Registered => base[d] \in lost')
    BY Zenon DEF relm_virtio_mmio_register_device
  <1>10. ~HasWindow(p)
    <2>1. p \in PagesOf(p, 1)
      BY PagesAreIntegers DEF PagesOf
    <2>2. \A w \in DOMAIN regions :
             PagesOf(p, 1) \cap PagesOf(regions[w].start, regions[w].size) = {}
      BY Zenon, <1>1 DEF CanReserve, RegionSet
    <2> QED
      BY <2>1, <2>2 DEF HasWindow
  <1>11. ASSUME NEW q \in Pages \ lost'
         PROVE  (HasWindow(q)' <=> Owners(q)' # {}) /\ OneOwner(q)'
    <2>1. (HasWindow(q) <=> Owners(q) # {}) /\ OneOwner(q)
      BY Zenon, <1>9, <1>11 DEF Owned
    <2>2. d \in Owners(q) => FALSE
      BY Zenon, <1>9, <1>11 DEF Owners
    <2>3. Owners(q)' = IF q = p THEN Owners(q) \cup {d} ELSE Owners(q)
      BY <1>5, <1>6, <2>2 DEF Owners
    <2>4. q = p => Owners(q) = {}
      BY Zenon, <1>10, <2>1
    <2>5. HasWindow(q)' <=> Owners(q)' # {}
      BY Zenon, <1>3, <2>1, <2>3
    <2>6. OneOwner(q)'
      BY Zenon, <2>1, <2>3, <2>4 DEF OneOwner
    <2> QED
      BY Zenon, <2>5, <2>6
  <1> QED
    BY Zenon, <1>7, <1>8, <1>11 DEF Owned

LEMMA UnregisterDeviceStep ==
    ASSUME TypeOK, Owned, NEW d \in Devs, relm_virtio_mmio_unregister_device(d)
    PROVE  TypeOK' /\ Owned'
  <1> DEFINE i == IndexOf(d)
             from(j) == IF j < i THEN j ELSE j + 1
  <1>1. i \in DOMAIN registry /\ registry[i] = d
    <2> DEFINE T == {k \in DOMAIN registry : registry[k] = d}
    <2>1. registry \in Seq(Devs) /\ T # {}
      BY Zenon DEF TypeOK, relm_virtio_mmio_unregister_device, Registered
    <2>2. PICK k \in T : \A x \in 1 .. k - 1 : x \in DOMAIN registry /\ x \notin T
      BY Zenon, <2>1, FirstEntry
    <2>3. k \in DOMAIN registry /\ registry[k] = d /\ \A x \in 1 .. k - 1 : registry[x] # d
      BY Zenon, <2>2
    <2> QED
      BY Zenon, <2>3 DEF IndexOf
  <1> HIDE DEF i
  <1>2. /\ base[d] \in Pages /\ d \in Registered /\ base' = base
        /\ regions' = Released(base[d])
        /\ lost \subseteq lost' /\ lost' \in SUBSET Pages
        /\ d \in Registered' => base[d] \in lost'
    BY Zenon DEF relm_virtio_mmio_unregister_device, TypeOK
  \* What is left of the windows: those that do not start at base[d].
  <1>3. /\ regions' \in Seq(Window) /\ Len(regions') <= MaxRegions
        /\ WindowsDisjoint'
        /\ \A q : HasWindow(q)' <=> HasWindow(q) /\ q # base[d]
    <2>1. CASE \E a \in DOMAIN regions : regions[a].start = base[d]
      <3>1. PICK a \in DOMAIN regions : regions[a].start = base[d]
        BY Zenon, <2>1
      <3>2. regions' = Released(regions[a].start)
        BY Zenon, <1>2, <3>1
      <3>3. regions' \in Seq(Window) /\ Len(regions') <= MaxRegions
        <4>1. regions' \in Seq(Window) /\ Len(regions') = Len(regions) - 1
          BY Zenon, <3>2, ReleasedProperties DEF Owned
        <4> QED
          BY <4>1, VirtioAssumption DEF TypeOK
      <3>4. /\ WindowsDisjoint'
            /\ \A w \in DOMAIN regions : w # a => \E x \in DOMAIN regions' : regions'[x] = regions[w]
            /\ \A x \in DOMAIN regions' :
                  \E w \in DOMAIN regions : w # a /\ regions'[x] = regions[w]
        BY Zenon, <3>2, ReleaseKeepsDisjoint DEF Owned
      <3>5. \A w \in DOMAIN regions : regions[w].start = base[d] => w = a
        BY Zenon, <3>1, StartsDiffer DEF Owned
      <3>6. ASSUME NEW q
            PROVE  HasWindow(q)' <=> HasWindow(q) /\ q # base[d]
        <4> DEFINE r == [start |-> q, size |-> 1]
        <4>1. \A w \in DOMAIN regions : regions[w] = r => (w = a <=> q = base[d])
          BY <3>1, <3>5
        <4>2. /\ HasWindow(q) <=> \E w \in DOMAIN regions : regions[w] = r
              /\ HasWindow(q)' <=> \E x \in DOMAIN regions' : regions'[x] = r
          BY Zenon DEF HasWindow
        <4> HIDE DEF r
        <4> QED
          BY ONLY <3>4, <4>1, <4>2
      <3> QED
        BY Zenon, <3>3, <3>4, <3>6
    <2>2. CASE ~ \E a \in DOMAIN regions : regions[a].start = base[d]
      <3>1. regions' = regions
        BY Zenon, <1>2, <2>2 DEF Released
      <3>2. ~HasWindow(base[d])
        BY <2>2 DEF HasWindow
      <3>3. \A q : HasWindow(q)' <=> HasWindow(q)
        BY Zenon, <3>1 DEF HasWindow
      <3>4. WindowsDisjoint'
        BY Zenon, <3>1 DEF Owned, WindowsDisjoint, relm_vm_gpa_is_mmio_region, RegionSet, PagesOf
      <3> QED
        BY Zenon, <3>1, <3>2, <3>3, <3>4 DEF TypeOK, Window
    <2> QED
      BY Zenon, <2>1, <2>2
  <1>4. /\ registry \in Seq(Devs) /\ registry' \in Seq(Devs) /\ Len(registry') = Len(registry) - 1
        /\ \A j \in DOMAIN registry' : registry'[j] = registry[from(j)]
    <2>1. registry \in Seq(Devs) /\ registry' = Closed(registry, i)
      BY Zenon DEF TypeOK, relm_virtio_mmio_unregister_device, i
    <2>2. /\ registry' \in Seq(Devs) /\ Len(registry') = Len(registry) - 1
          /\ \A j \in 1 .. Len(registry) - 1 :
                registry'[j] = IF j < i THEN registry[j] ELSE registry[j + 1]
      BY Zenon, <1>1, <2>1, ClosedProperties
    <2> QED
      BY <2>1, <2>2
  <1>5. /\ \A j \in DOMAIN registry' : from(j) \in DOMAIN registry
        /\ \A k \in DOMAIN registry : k # i => \E j \in DOMAIN registry' : from(j) = k
    <2>1. /\ DOMAIN registry = 1 .. Len(registry) /\ Len(registry) \in Nat
          /\ DOMAIN registry' = 1 .. Len(registry) - 1
      BY <1>4
    <2>2. \A j \in DOMAIN registry' : from(j) \in DOMAIN registry
      BY <1>1, <2>1
    <2>3. ASSUME NEW k \in DOMAIN registry, k # i
          PROVE  \E j \in DOMAIN registry' : from(j) = k
      <3>1. CASE k < i
        BY <1>1, <2>1, <3>1
      <3>2. CASE k > i
        <4>1. k - 1 \in DOMAIN registry' /\ from(k - 1) = k
          BY <1>1, <2>1, <3>2
        <4> QED
          BY Zenon, <4>1
      <3> QED
        BY <1>1, <2>1, <2>3, <3>1, <3>2
    <2> QED
      BY Zenon, <2>2, <2>3
  <1> HIDE DEF from
  <1>6. Registered' \subseteq Registered /\ Registered \subseteq Registered' \cup {d}
    <2>1. \A j \in DOMAIN registry' : registry'[j] \in Registered
      BY Zenon, <1>4, <1>5 DEF Registered
    <2>2. \A k \in DOMAIN registry : k # i => registry[k] \in Registered'
      BY ONLY <1>4, <1>5 DEF Registered
    <2> QED
      BY Zenon, <1>1, <2>1, <2>2 DEF Registered
  <1>7. TypeOK'
    <2>1. Len(registry') <= MaxDevices
      BY <1>4, VirtioAssumption DEF TypeOK
    <2> QED
      BY Zenon, <1>2, <1>3, <1>4, <2>1 DEF TypeOK, Window, relm_virtio_mmio_unregister_device
  <1>8. ASSUME NEW q \in Pages \ lost'
        PROVE  (HasWindow(q)' <=> Owners(q)' # {}) /\ OneOwner(q)'
    <2>1. (HasWindow(q) <=> Owners(q) # {}) /\ OneOwner(q)
      BY Zenon, <1>2, <1>8 DEF Owned
    <2>2. CASE q # base[d]
      <3>1. Owners(q)' = Owners(q)
        BY Zenon, <1>2, <1>6, <2>2 DEF Owners
      <3> QED
        BY Zenon, <1>3, <2>1, <2>2, <3>1 DEF OneOwner
    <2>3. CASE q = base[d]
      <3>1. Owners(q) \subseteq {d} /\ d \notin Registered'
        BY Zenon, <1>2, <1>8, <2>1, <2>3 DEF OneOwner, Owners
      <3>2. Owners(q)' = {}
        BY Zenon, <1>2, <1>6, <3>1 DEF Owners
      <3> QED
        BY Zenon, <1>3, <2>3, <3>2 DEF OneOwner
    <2> QED
      BY Zenon, <2>2, <2>3
  <1> QED
    BY Zenon, <1>3, <1>7, <1>8 DEF Owned

----------------------------------------------------------------------------
(* The life of a device. *)

\* What makes ReadyOnlyWhenStarted inductive: QueueReady looks at the status.
StartedTracked == \A d \in Devs : "DRIVER_OK" \in dev[d].status => d \in started

Lives == ReadyOnlyWhenStarted /\ StartedTracked

LEMMA RegisterKeepsLives ==
    ASSUME TypeOK, Lives, NEW d \in Devs, Register(d)
    PROVE  Lives'
  <1>0. /\ dev \in [Devs -> DevState] /\ dev[d] \in DevState
        /\ \A k \in Queues : dev[d].q[k] \in Virtqueue
    BY Zenon DEF TypeOK, DevState
  \* A write that makes no queue ready and changes no status.
  <1>a. ASSUME started' = started, \A x \in Devs : dev'[x].status = dev[x].status,
               \A x \in Devs, y \in Queues :
                  dev'[x].q[y].ready => dev[x].q[y].ready \/ "DRIVER_OK" \in dev[x].status
        PROVE  Lives'
    BY Zenon, <1>a DEF Lives, ReadyOnlyWhenStarted, StartedTracked, Queues
  <1>b. ASSUME NEW v \in DevState, SetDev(d, v), v.status = dev[d].status, v.q = dev[d].q,
               started' = started
        PROVE  Lives'
    <2>1. /\ \A x \in Devs : dev'[x].status = dev[x].status
          /\ \A x \in Devs, y \in Queues : dev'[x].q[y] = dev[x].q[y]
      BY <1>b, SetDevTyped
    <2> QED
      BY Zenon, <1>a, <1>b, <2>1
  <1>c. ASSUME NEW k \in Queues, NEW v \in Virtqueue, SetQueue(d, k, v),
               v.ready = dev[d].q[k].ready, started' = started
        PROVE  Lives'
    <2>1. /\ \A x \in Devs : dev'[x].status = dev[x].status
          /\ \A x \in Devs, y \in Queues : dev'[x].q[y].ready = dev[x].q[y].ready
      BY <1>c, SetQueueTyped
    <2> QED
      BY Zenon, <1>a, <1>c, <2>1
  <1>1. ASSUME NEW v, QueueSel(d, v) \/ DriverFeaturesSel(d, v)
        PROVE  Lives'
    BY Zenon, <1>1 DEF QueueSel, DriverFeaturesSel, Lives, ReadyOnlyWhenStarted, StartedTracked, Queues
  <1>2. ASSUME NEW v \in Features, DriverFeatures(d, v)
        PROVE  Lives'
    <2>1. LET x == [dev[d] EXCEPT !.features = v]
          IN  x \in DevState /\ x.status = dev[d].status /\ x.q = dev[d].q
      BY Zenon, <1>0 DEF DevState
    <2> QED
      BY Zenon, <2>1, <1>2, <1>b DEF DriverFeatures
  <1>3. CASE QueueNum(d)
    <2>1. LET k == Sel(d).queue
              x == [dev[d].q[k] EXCEPT !.sized = TRUE]
          IN  k \in Queues /\ x \in Virtqueue /\ x.ready = dev[d].q[k].ready
      BY ONLY Zenon, <1>0, <1>3 DEF QueueNum, Virtqueue
    <2> QED
      BY Zenon, <2>1, <1>3, <1>c DEF QueueNum
  <1>4. ASSUME NEW r \in Rings, NEW h \in Halves, NEW v \in {0, 1}, QueueAddr(d, r, h, v)
        PROVE  Lives'
    <2>1. LET k == Sel(d).queue
              x == [dev[d].q[k] EXCEPT !.addr[<<r, h>>] = v]
          IN  k \in Queues /\ x \in Virtqueue /\ x.ready = dev[d].q[k].ready
      BY ONLY Zenon, <1>0, <1>4 DEF QueueAddr, Virtqueue
    <2> QED
      BY Zenon, <2>1, <1>4, <1>c DEF QueueAddr
  <1>5. ASSUME NEW v \in {0, 1}, QueueReady(d, v)
        PROVE  Lives'
    BY Zenon, <1>5, <1>a, QueueReadyTyped
  <1>6. ASSUME NEW b \in BOOLEAN, SetDev(d, [dev[d] EXCEPT !.isr = b]), started' = started
        PROVE  Lives'
    <2>1. LET x == [dev[d] EXCEPT !.isr = b]
          IN  x \in DevState /\ x.status = dev[d].status /\ x.q = dev[d].q
      BY Zenon, <1>0 DEF DevState
    <2> QED
      BY Zenon, <2>1, <1>6, <1>b
  <1>7. CASE QueueNotify(d) \/ InterruptAck(d)
    BY Zenon, <1>6, <1>7 DEF QueueNotify, InterruptAck
  <1>8. ASSUME NEW s \in Statuses, WriteStatus(d, s)
        PROVE  Lives'
    <2>1. /\ dev'[d].status = uint8_t(s)
          /\ \A x \in Devs : x # d => dev'[x] = dev[x]
          /\ \A y \in Queues : dev'[d].q[y].ready =>
                s # {} /\ (dev[d].q[y].ready \/ "DRIVER_OK" \in s)
      BY Zenon, <1>8, WriteStatusTyped
    <2>2. started' = IF s = {} THEN started \ {d}
                     ELSE IF "DRIVER_OK" \in s THEN started \cup {d} ELSE started
      BY Zenon, <1>8 DEF WriteStatus
    <2>3. \A y \in Queues : dev'[d].q[y].ready => d \in started'
      BY Zenon, <2>1, <2>2 DEF Lives, ReadyOnlyWhenStarted, StartedTracked
    <2>4. "DRIVER_OK" \in uint8_t(s) => d \in started'
      BY Zenon, <2>2 DEF uint8_t
    <2>5. \A x \in Devs : x # d => (x \in started' <=> x \in started)
      BY Zenon, <2>2
    <2>6. ReadyOnlyWhenStarted'
      BY Zenon, <2>1, <2>3, <2>5 DEF Lives, ReadyOnlyWhenStarted, Queues
    <2>7. StartedTracked'
      BY Zenon, <2>1, <2>4, <2>5 DEF Lives, StartedTracked
    <2> QED
      BY Zenon, <2>6, <2>7 DEF Lives
  <1> QED
    BY Zenon, <1>1, <1>2, <1>3, <1>4, <1>5, <1>7, <1>8 DEF Register

----------------------------------------------------------------------------
(* The invariant. *)

IInv == TypeOK /\ Owned /\ Lives

LEMMA InitIInv ==
    ASSUME Init
    PROVE  IInv
  <1>1. TypeOK
    <2>1. NoAddr \in [Rings \X Halves -> {0, 1}]
      BY Zenon DEF NoAddr
    <2>2. [addr |-> NoAddr, sized |-> FALSE, ready |-> FALSE] \in Virtqueue
      BY Zenon, <2>1 DEF Virtqueue
    <2>3. {} \in {uint8_t(s) : s \in Statuses}
      <3>1. uint8_t({}) = {}
        BY Zenon DEF uint8_t
      <3> QED
        BY Zenon, <3>1, VirtioAssumption
    <2>4. dev \in [Devs -> DevState]
      BY Zenon, <2>2, <2>3 DEF Init, DevState
    <2>5. base \in [Devs -> Pages]
      BY Zenon, VirtioAssumption DEF Init
    <2>6. selectors \in [1 .. MaxDevices -> Selector]
      BY Zenon DEF Init, Selector
    <2>7. /\ regions \in Seq(Window) /\ Len(regions) <= MaxRegions
          /\ registry \in Seq(Devs) /\ Len(registry) <= MaxDevices
      <3>1. MaxRegions \in Nat /\ MaxDevices \in Nat
        BY Zenon, VirtioAssumption
      <3> QED
        BY <3>1 DEF Init
    <2> QED
      BY Zenon, <2>4, <2>5, <2>6, <2>7 DEF Init, TypeOK, DevState, Window
  <1>2. DOMAIN regions = {} /\ DOMAIN registry = {}
    BY DEF Init
  <1>3. Owned
    <2>1. \A p : ~HasWindow(p) /\ Owners(p) = {}
      BY Zenon, <1>2 DEF HasWindow, Owners, Registered
    <2> QED
      BY Zenon, <1>2, <2>1
         DEF Owned, OneOwner, WindowsDisjoint, relm_vm_gpa_is_mmio_region, RegionSet
  <1>4. Lives
    BY Zenon DEF Init, Lives, ReadyOnlyWhenStarted, StartedTracked
  <1> QED
    BY Zenon, <1>1, <1>3, <1>4 DEF IInv

LEMMA NextIInv ==
    ASSUME IInv, [Next]_vars
    PROVE  IInv'
  <1> USE DEF IInv
  <1>a. ASSUME UNCHANGED <<dev, started>>
        PROVE  Lives'
    BY Zenon, <1>a DEF Lives, ReadyOnlyWhenStarted, StartedTracked, Queues
  <1>b. ASSUME UNCHANGED <<regions, registry, base, lost>>
        PROVE  Owned'
    <2>1. WindowsDisjoint'
      BY Zenon, <1>b DEF Owned, WindowsDisjoint, relm_vm_gpa_is_mmio_region, RegionSet, PagesOf
    <2>2. \A p : (HasWindow(p)' <=> HasWindow(p)) /\ Owners(p)' = Owners(p)
      BY Zenon, <1>b DEF HasWindow, Owners, Registered
    <2> QED
      BY Zenon, <1>b, <2>1, <2>2 DEF Owned, OneOwner
  <1>1. ASSUME NEW p \in Pages, relm_vm_reserve_mmio_region(p)
        PROVE  IInv'
    BY Zenon, <1>1, <1>a, ReserveStep DEF relm_vm_reserve_mmio_region
  <1>2. ASSUME NEW p \in Pages, relm_vm_release_mmio_region(p)
        PROVE  IInv'
    BY Zenon, <1>2, <1>a, ReleaseStep DEF relm_vm_release_mmio_region
  <1>3. ASSUME NEW d \in Devs, NEW p \in Pages, relm_virtio_mmio_register_device(d, p)
        PROVE  IInv'
    BY Zenon, <1>3, <1>a, RegisterDeviceStep DEF relm_virtio_mmio_register_device
  <1>4. ASSUME NEW d \in Devs, relm_virtio_mmio_unregister_device(d)
        PROVE  IInv'
    BY Zenon, <1>4, <1>a, UnregisterDeviceStep DEF relm_virtio_mmio_unregister_device
  <1>5. ASSUME NEW p \in Pages, UnhandledAccess(p)
        PROVE  IInv'
    <2>1. TypeOK'
      BY Zenon, <1>5 DEF TypeOK, UnhandledAccess
    <2> QED
      BY Zenon, <1>5, <1>a, <1>b, <2>1 DEF UnhandledAccess
  <1>6. ASSUME NEW d \in Devs, Register(d)
        PROVE  IInv'
    BY Zenon, <1>6, <1>b, RegisterTyped, RegisterKeepsLives
  <1>7. CASE UNCHANGED vars
    <2>1. TypeOK'
      BY Zenon, <1>7 DEF TypeOK, vars
    <2> QED
      BY Zenon, <1>7, <1>a, <1>b, <2>1 DEF vars
  <1> QED
    BY Zenon, <1>1, <1>2, <1>3, <1>4, <1>5, <1>6, <1>7 DEF Next

\* For every number of devices, windows and pages: windows stay disjoint, and
\* away from the pages that a second registration of one device parted from
\* it, the table of windows and the table of devices claim the same pages and
\* a trapping access reaches the one device at its page, also when other code
\* reserves and releases windows in between.
THEOREM DevicesOwnWindowsAlways == Spec => []DevicesOwnWindows
  <1>1. Init => IInv
    BY Zenon, InitIInv
  <1>2. IInv /\ [Next]_vars => IInv'
    BY Zenon, NextIInv
  <1>3. IInv => DevicesOwnWindows
    BY Zenon, OwnedSuffices DEF IInv
  <1> QED
    BY <1>1, <1>2, <1>3, PTL DEF Spec

\* For every number of devices and queues and every status a driver writes: a
\* queue is ready only while the device's driver has reported DRIVER_OK since
\* the last reset.
THEOREM QueuesWaitForDriver == Spec => []ReadyOnlyWhenStarted
  <1>1. Init => IInv
    BY Zenon, InitIInv
  <1>2. IInv /\ [Next]_vars => IInv'
    BY Zenon, NextIInv
  <1>3. IInv => ReadyOnlyWhenStarted
    BY Zenon DEF IInv, Lives
  <1> QED
    BY <1>1, <1>2, <1>3, PTL DEF Spec

----------------------------------------------------------------------------
(* The decoder's lanes. *)

LEMMA InsnFacts ==
    ASSUME NEW i \in Insns
    PROVE  /\ i.len \in Nat /\ i.high \in BOOLEAN /\ i.imm \in Word
           /\ i.value = "gpr" => i.reg \in Gprs /\ i.reg \in 0 .. 15 /\ (i.high => i.width = 1)
  <1>1. /\ i.len \in Nat /\ i.high \in BOOLEAN /\ i.imm \in Word
        /\ i.value = "gpr" => i.reg \in Gprs /\ (i.high => i.width = 1)
    BY Zenon, InsnAssumption
  <1>2. Gprs \subseteq 0 .. 15
    BY Zenon, InsnAssumption
  <1> QED
    BY Zenon, <1>1, <1>2

\* What relm_decode_x86 reports of a MOV between memory and a register.
LEMMA DecodedGpr ==
    ASSUME NEW i \in Insns, i.value = "gpr", relm_width_mask(i.width) # {}
    PROVE  LET d == relm_decode_x86(i)
           IN  /\ d.operand_kind = "gpr" /\ d.gpr_index = i.reg /\ d.gpr_width = i.width
               /\ d.gpr_bit_offset = (IF i.high THEN 8 ELSE 0)
               /\ i.action = "read" =>
                     d.gpr_write_semantics = relm_zydis_set_load_semantics(i.width)
               /\ relm_decoded_has_valid_gpr(d)
  <1>1. LET d == relm_decode_x86(i)
        IN  /\ d.operand_kind = "gpr" /\ d.gpr_index = i.reg /\ d.gpr_width = i.width
            /\ d.gpr_bit_offset = (IF i.high THEN 8 ELSE 0)
            /\ i.action = "read" =>
                  d.gpr_write_semantics = relm_zydis_set_load_semantics(i.width)
    BY Zenon DEF relm_decode_x86
  <1>2. i.reg \in 0 .. 15 /\ (i.high => i.width = 1) /\ i.high \in BOOLEAN
    BY Zenon, InsnFacts
  <1> QED
    BY Zenon, <1>1, <1>2 DEF relm_decoded_has_valid_gpr

LEMMA WidthMasks ==
    ASSUME NEW w, relm_width_mask(w) # {}
    PROVE  \/ w = 1 /\ relm_width_mask(w) = {0} /\ relm_zydis_set_load_semantics(w) = "merge"
           \/ w = 2 /\ relm_width_mask(w) = {0, 1} /\ relm_zydis_set_load_semantics(w) = "merge"
           \/ w = 4 /\ relm_width_mask(w) = {0, 1, 2}
              /\ relm_zydis_set_load_semantics(w) = "zero_extend"
           \/ w = 8 /\ relm_width_mask(w) = Lanes /\ relm_zydis_set_load_semantics(w) = "replace"
  BY DEF relm_width_mask, relm_zydis_set_load_semantics

\* The value a store takes from a register.
LEMMA ExtractMatches ==
    ASSUME NEW i \in Insns, i.value = "gpr", relm_width_mask(i.width) # {}, NEW x \in Word
    PROVE  relm_decoded_gpr_extract(relm_decode_x86(i), x) = Stored(i, x)
  <1> DEFINE d == relm_decode_x86(i)
             mask == relm_width_mask(i.width)
  <1>1. d.gpr_width = i.width /\ d.gpr_bit_offset = (IF i.high THEN 8 ELSE 0)
    BY Zenon, DecodedGpr
  <1>2. (i.high => i.width = 1) /\ i.high \in BOOLEAN
    BY Zenon, InsnFacts
  <1>3. relm_decoded_gpr_extract(d, x) =
           [l \in Lanes |-> IF l \in mask THEN Shifted(x, d.gpr_bit_offset)[l] ELSE 0]
    BY Zenon, <1>1 DEF relm_decoded_gpr_extract, Masked
  <1>4. \A l \in Lanes : l \in mask =>
           Shifted(x, d.gpr_bit_offset)[l] = x[IF i.high THEN 1 ELSE l]
    <2>1. CASE i.high
      <3>1. mask = {0} /\ d.gpr_bit_offset = 8
        BY <1>1, <1>2, <2>1, WidthMasks
      <3> QED
        BY <3>1, <2>1 DEF Shifted, Lanes
    <2>2. CASE ~i.high
      BY Zenon, <1>1, <2>2 DEF Shifted, Lanes
    <2> QED
      BY Zenon, <1>2, <2>1, <2>2
  <1> QED
    BY Zenon, <1>3, <1>4 DEF Stored

\* The value a load leaves in a register.
LEMMA CommitMatches ==
    ASSUME NEW i \in Insns, i.value = "gpr", i.action = "read", relm_width_mask(i.width) # {},
           NEW old \in Word, NEW x \in Word
    PROVE  relm_decoded_gpr_commit(relm_decode_x86(i), old, x) = Loaded(i, old, x)
  <1> DEFINE d == relm_decode_x86(i)
             mask == relm_width_mask(i.width)
             moved == ShiftedUp(Masked(x, mask), d.gpr_bit_offset)
             lanes == IF d.gpr_bit_offset = 0 THEN mask ELSE {1}
  <1>1. /\ d.gpr_width = i.width /\ d.gpr_bit_offset = (IF i.high THEN 8 ELSE 0)
        /\ d.gpr_write_semantics = relm_zydis_set_load_semantics(i.width)
    BY Zenon, DecodedGpr
  <1>2. (i.high => i.width = 1) /\ i.high \in BOOLEAN
    BY Zenon, InsnFacts
  <1>3. CASE i.width \in {1, 2}
    <2>1. relm_decoded_gpr_commit(d, old, x) =
             [l \in Lanes |-> IF l \in lanes THEN moved[l] ELSE old[l]]
      BY <1>1, <1>3, WidthMasks DEF relm_decoded_gpr_commit
    <2>2. lanes = LaneOf(i)
      BY <1>1, <1>2 DEF LaneOf
    <2>3. \A l \in Lanes : l \in lanes => moved[l] = x[IF i.high THEN 0 ELSE l]
      <3>1. CASE i.high
        <4>1. mask = {0} /\ d.gpr_bit_offset = 8 /\ lanes = {1}
          BY <1>1, <1>2, <3>1, WidthMasks
        <4>2. moved[1] = x[0]
          BY <4>1 DEF ShiftedUp, Masked, Lanes
        <4> QED
          BY Zenon, <4>1, <4>2, <3>1
      <3>2. CASE ~i.high
        <4>1. d.gpr_bit_offset = 0 /\ lanes = mask
          BY Zenon, <1>1, <3>2
        <4> QED
          BY Zenon, <4>1, <3>2 DEF ShiftedUp, Masked
      <3> QED
        BY Zenon, <1>2, <3>1, <3>2
    <2>4. i.width # 4
      BY <1>3
    <2> HIDE DEF lanes, moved, d
    <2> QED
      BY Zenon, <2>1, <2>2, <2>3, <2>4 DEF Loaded, d
  <1>4. CASE i.width \in {4, 8}
    <2>1. ~i.high
      BY <1>2, <1>4
    <2>2. relm_decoded_gpr_commit(d, old, x) = Masked(x, mask)
      BY <1>1, <1>4, WidthMasks DEF relm_decoded_gpr_commit
    <2>3. Masked(x, mask) = Loaded(i, old, x)
      BY <1>4, <2>1, WidthMasks DEF Masked, Loaded, LaneOf, Lanes
    <2> QED
      BY Zenon, <2>2, <2>3
  <1> QED
    BY Zenon, <1>3, <1>4, WidthMasks

LEMMA LanesAlwaysMatch ==
    ASSUME EmuTypeOK, NEW i \in Insns
    PROVE  LanesMatch(i)
  <1> SUFFICES ASSUME Decodes(i, i.len), i.value = "gpr"
               PROVE  LET d == relm_decode_x86(i)
                          x == regs.gpr[i.reg]
                      IN  /\ relm_decoded_has_valid_gpr(d)
                          /\ relm_decoded_gpr_extract(d, x) = Stored(i, x)
                          /\ i.action = "read" =>
                                relm_decoded_gpr_commit(d, x, device) = Loaded(i, x, device)
    BY Zenon DEF LanesMatch
  <1>1. relm_width_mask(i.width) # {}
    BY Zenon DEF Decodes
  <1>2. regs.gpr[i.reg] \in Word /\ device \in Word
    BY Zenon, InsnFacts DEF EmuTypeOK
  <1> QED
    BY Zenon, <1>1, <1>2, DecodedGpr, ExtractMatches, CommitMatches

----------------------------------------------------------------------------
(* The emulator. *)

\* What the guest will see when it is entered.
Resumed == [gpr |-> [g \in Gprs |-> IF g = RSP THEN vmcs.rsp ELSE regs.gpr[g]],
            rip |-> vmcs.rip, dev |-> device]

ExitOK ==
    /\ exit.path \in {"virtio", "apic", "hlt", "none"}
    /\ exit.path \in {"virtio", "apic"} => exit.insn \in Insns

\* The registers are imported, and nothing is emulated yet.
AtExit ==
    /\ exit.path # "none"
    /\ regs.rip = vmcs.rip /\ regs.gpr[RSP] = vmcs.rsp
    /\ before = [gpr |-> regs.gpr, rip |-> vmcs.rip, dev |-> device]

AfterHlt == Resumed = [before EXCEPT !.rip = (@ + 1) % RipSpan]

\* What the handler's answer means: 0 with nothing done, or the instruction
\* executed, or not touched.
AtHandled ==
    /\ exit.path # "none"
    /\ block = [g \in Gprs \ {RSP} |-> regs.gpr[g]]
    /\ exit.path = "hlt" => AfterHlt /\ ret = 0
    /\ exit.path # "hlt" =>
          /\ ret = 0 => regs.gpr = before.gpr /\ device = before.dev /\ vmcs.rip = before.rip
          /\ ~LoadsRsp /\ ~ReservedPhysical => Resumed \in {before, Executed(before, exit)}

EmuInv ==
    /\ EmuTypeOK /\ ExitOK
    /\ at = "exit" => AtExit
    /\ at = "handled" => AtHandled
    /\ at = "host" => (exit.path = "hlt" => AfterHlt) /\ exit.path \in {"hlt", "none"}

LEMMA WordClosed ==
    /\ Zero \in Word
    /\ \A x \in Word : \A m : Masked(x, m) \in Word
    /\ \A x \in Word : \A o : Shifted(x, o) \in Word /\ ShiftedUp(x, o) \in Word
  <1>1. 0 \in Lanes01
    BY Zenon, InsnAssumption
  <1> QED
    BY <1>1 DEF Word, Zero, Masked, Shifted, ShiftedUp, Lanes

LEMMA AdvanceTyped ==
    ASSUME EmuTypeOK, NEW n \in Nat
    PROVE  Advance(n) \in 0 .. RipSpan - 1
  <1>1. RipSpan \in Nat \ {0}
    BY Zenon, InsnAssumption
  <1>2. vmcs.rip \in 0 .. RipSpan - 1
    BY Zenon DEF EmuTypeOK
  <1> QED
    BY <1>1, <1>2 DEF Advance

LEMMA InitEmuInv ==
    ASSUME EmuInit
    PROVE  EmuInv
  <1>1. PICK f \in Contents : /\ regs = [gpr |-> f, rip |-> 0]
                              /\ vmcs = [rip |-> 0, rsp |-> f[RSP]]
    BY Zenon DEF EmuInit
  <1>2. f \in [Gprs -> Word] /\ RSP \in Gprs /\ 0 \in 0 .. RipSpan - 1
    <2>1. Contents \subseteq [Gprs -> Word] /\ RSP \in Gprs /\ RipSpan \in Nat \ {0}
      BY Zenon, InsnAssumption
    <2> QED
      BY <2>1
  <1>3. EmuTypeOK
    <2>1. Zero \in Word /\ Zero[3] = 0
      BY WordClosed DEF Zero, Lanes
    <2> QED
      BY Zenon, <1>1, <1>2, <2>1 DEF EmuInit, EmuTypeOK
  <1>4. exit.path = "none" /\ at = "host"
    BY Zenon DEF EmuInit, NoExit
  <1> QED
    BY Zenon, <1>3, <1>4 DEF EmuInv, ExitOK

\* What Emulate does for instruction i at an offset: a load changes one
\* register, a store the device; all stays well formed.
EmulatedAs(i, off) ==
    /\ vmcs' \in [rip : 0 .. RipSpan - 1, rsp : Word] /\ vmcs'.rsp = vmcs.rsp
    /\ vmcs'.rip = Advance(i.len)
    /\ regs' \in [gpr : [Gprs -> Word], rip : 0 .. RipSpan - 1]
    /\ device' \in Word /\ device'[3] = 0
    /\ ret' = 1
    /\ i.action = "read" =>
          /\ device' = device
          /\ regs'.gpr = [regs.gpr EXCEPT ![i.reg] = Loaded(i, @, DeviceRead(off))]
    /\ i.action = "write" =>
          /\ regs'.gpr = regs.gpr
          /\ device' = IF off # "register" THEN device
                       ELSE IF i.value = "imm" THEN Masked(i.imm, relm_width_mask(i.width))
                       ELSE Stored(i, regs.gpr[i.reg])

LEMMA EmulateTyped ==
    ASSUME EmuTypeOK, NEW i \in Insns, NEW off, Decodes(i, i.len),
           Supported(relm_decode_x86(i), off), Emulate(relm_decode_x86(i), off)
    PROVE  EmulatedAs(i, off)
  <1> USE DEF EmulatedAs
  <1> DEFINE d == relm_decode_x86(i)
  <1>1. /\ d.length = i.len /\ d.memory_access = i.action /\ d.memory_width = i.width
        /\ d.operand_kind = i.value
        /\ i.value = "imm" => d.immediate = i.imm
    BY Zenon DEF relm_decode_x86
  <1>2. /\ i.width = 4 /\ relm_width_mask(i.width) = {0, 1, 2}
        /\ i.action \in {"read", "write"} /\ i.value \in {"gpr", "imm"}
        /\ i.action = "read" => i.value = "gpr"
    BY SMTT(30), <1>1, WidthMasks DEF Supported, Decodes
  <1>3. /\ i.len \in Nat /\ i.imm \in Word
        /\ i.value = "gpr" => i.reg \in Gprs /\ regs.gpr[i.reg] \in Word
    BY Zenon, InsnFacts DEF EmuTypeOK
  <1>4. Advance(i.len) \in 0 .. RipSpan - 1
    BY Zenon, <1>3, AdvanceTyped
  <1>5. /\ vmcs' \in [rip : 0 .. RipSpan - 1, rsp : Word] /\ vmcs'.rsp = vmcs.rsp
        /\ vmcs'.rip = Advance(i.len) /\ ret' = 1
    BY Zenon, <1>1, <1>4 DEF Emulate, EmuTypeOK
  <1>6. CASE i.action = "read"
    <2>1. DeviceRead(off) \in Word
      BY Zenon, WordClosed DEF DeviceRead, EmuTypeOK
    <2>2. relm_decoded_gpr_commit(d, regs.gpr[i.reg], DeviceRead(off))
             = Loaded(i, regs.gpr[i.reg], DeviceRead(off))
      BY Zenon, <1>2, <1>3, <1>6, <2>1, CommitMatches
    <2>3. d.gpr_index = i.reg
      BY Zenon, <1>2, <1>6, DecodedGpr
    <2>4. /\ device' = device
          /\ regs' = [rip |-> Advance(i.len),
                      gpr |-> [regs.gpr EXCEPT ![i.reg] = Loaded(i, @, DeviceRead(off))]]
      BY Zenon, <1>1, <1>6, <2>2, <2>3 DEF Emulate
    <2>5. Loaded(i, regs.gpr[i.reg], DeviceRead(off)) \in Word
      BY ONLY <1>2, <1>3, <1>6, <2>1, InsnFacts, InsnAssumption DEF Loaded, LaneOf, Word, Lanes
    <2> QED
      BY ZenonT(30), <1>2, <1>4, <1>5, <1>6, <2>4, <2>5 DEF EmuTypeOK
  <1>7. CASE i.action = "write"
    <2>1. StoreValue(d) = IF i.value = "imm" THEN Masked(i.imm, relm_width_mask(i.width))
                          ELSE Stored(i, regs.gpr[i.reg])
      <3>1. CASE i.value = "imm"
        BY Zenon, <1>1, <3>1 DEF StoreValue
      <3>2. CASE i.value = "gpr"
        <4>1. d.gpr_index = i.reg
          BY Zenon, <1>2, <3>2, DecodedGpr
        <4> QED
          BY ZenonT(30), <1>1, <1>2, <1>3, <3>2, <4>1, ExtractMatches DEF StoreValue
      <3> QED
        BY Zenon, <1>2, <3>1, <3>2
    <2>2. StoreValue(d) \in Word /\ StoreValue(d)[3] = 0
      <3>1. PICK x \in Word : StoreValue(d) = Masked(x, {0, 1, 2})
        BY Zenon, <1>1, <1>2, <1>3, WordClosed, DecodedGpr
           DEF StoreValue, relm_decoded_gpr_extract
      <3>2. Masked(x, {0, 1, 2}) \in Word
        BY Zenon, WordClosed
      <3>3. Masked(x, {0, 1, 2})[3] = 0
        BY DEF Masked, Lanes
      <3> QED
        BY Zenon, <3>1, <3>2, <3>3
    <2>3. /\ device' = IF off = "register" THEN StoreValue(d) ELSE device
          /\ regs' = [regs EXCEPT !.rip = Advance(i.len)]
      BY Zenon, <1>1, <1>7 DEF Emulate, DeviceWritten
    <2> QED
      BY Zenon, <1>4, <1>5, <1>7, <2>1, <2>2, <2>3 DEF EmuTypeOK
  <1> QED
    BY Zenon, <1>2, <1>6, <1>7

\* An instruction that is emulated does what the processor would.
LEMMA EmulateExecutes ==
    ASSUME EmuTypeOK, AtExit, exit.path \in {"virtio", "apic"}, exit.insn \in Insns,
           Decodes(exit.insn, exit.insn.len), ~LoadsRsp,
           Supported(relm_decode_x86(exit.insn), exit.offset),
           Emulate(relm_decode_x86(exit.insn), exit.offset)
    PROVE  Resumed' = Executed(before, exit)
  <1> DEFINE i == exit.insn
             off == exit.offset
             value == IF i.value = "imm" THEN Masked(i.imm, relm_width_mask(i.width))
                      ELSE Stored(i, before.gpr[i.reg])
             read == IF off = "register" THEN before.dev ELSE Zero
  <1>1. Executed(before, exit) =
           [gpr |-> IF i.action = "read" THEN [before.gpr EXCEPT ![i.reg] = Loaded(i, @, read)]
                    ELSE before.gpr,
            rip |-> (before.rip + i.len) % RipSpan,
            dev |-> IF i.action = "write" /\ off = "register" THEN value ELSE before.dev]
    BY Zenon DEF Executed
  <1>2. /\ before.gpr = regs.gpr /\ before.rip = vmcs.rip /\ before.dev = device
        /\ regs.gpr[RSP] = vmcs.rsp /\ regs.gpr \in [Gprs -> Word]
    BY Zenon DEF AtExit, EmuTypeOK
  <1>3. i.action \in {"read", "write"} /\ (i.action = "read" => i.value = "gpr")
    BY Zenon DEF Decodes
  <1>4. i.action = "read" => i.reg # RSP
    BY Zenon, <1>3 DEF LoadsRsp
  <1>5. EmulatedAs(i, off)
    BY Zenon, EmulateTyped
  <1>6. read = DeviceRead(off)
    BY Zenon, <1>2 DEF DeviceRead
  <1>7. vmcs'.rip = (before.rip + i.len) % RipSpan
    BY Zenon, <1>2, <1>5 DEF Advance, EmulatedAs
  <1>8. RSP \in Gprs
    BY Zenon, InsnAssumption
  <1>9. Resumed' = [gpr |-> [g \in Gprs |-> IF g = RSP THEN vmcs'.rsp ELSE regs'.gpr[g]],
                    rip |-> vmcs'.rip, dev |-> device']
    BY Zenon DEF Resumed
  <1> HIDE DEF read
  <1>10. CASE i.action = "read"
    <2>1. regs'.gpr[RSP] = vmcs'.rsp
      BY ZenonT(30), <1>2, <1>4, <1>5, <1>8, <1>10 DEF EmulatedAs
    <2>2. [g \in Gprs |-> IF g = RSP THEN vmcs'.rsp ELSE regs'.gpr[g]] = regs'.gpr
      <3>1. regs'.gpr \in [Gprs -> Word]
        BY ZenonT(30), <1>5 DEF EmulatedAs
      <3> QED
        BY Zenon, <2>1, <3>1
    <2>4. device' = before.dev
      BY ZenonT(30), <1>2, <1>5, <1>10 DEF EmulatedAs
    <2>3. regs'.gpr = [before.gpr EXCEPT ![i.reg] = Loaded(i, @, read)]
      BY ZenonT(30), <1>2, <1>5, <1>6, <1>10 DEF EmulatedAs
    <2> QED
      BY ZenonT(30), <1>1, <1>2, <1>7, <1>9, <1>10, <2>2, <2>3, <2>4
  <1>11. CASE i.action = "write"
    <2>1. [g \in Gprs |-> IF g = RSP THEN vmcs'.rsp ELSE regs'.gpr[g]] = before.gpr
      BY ZenonT(30), <1>2, <1>5, <1>8, <1>11 DEF EmulatedAs
    <2>2. device' = IF off = "register" THEN value ELSE before.dev
      BY Zenon, <1>2, <1>5, <1>11 DEF EmulatedAs
    <2> QED
      BY ZenonT(30), <1>1, <1>7, <1>9, <1>11, <2>1, <2>2
  <1> QED
    BY Zenon, <1>3, <1>10, <1>11

\* A handler that does nothing.
LEMMA LeaveTyped ==
    ASSUME EmuTypeOK, AtExit, NEW r \in {-1, 0}, Leave(r)
    PROVE  /\ vmcs' = vmcs /\ regs' = regs /\ device' = device /\ ret' = r
           /\ Resumed' = before
  <1>1. vmcs' = vmcs /\ regs' = regs /\ device' = device /\ ret' = r
    BY Zenon DEF Leave
  <1>2. Resumed' = Resumed
    BY Zenon, <1>1 DEF Resumed
  <1>3. [g \in Gprs |-> IF g = RSP THEN vmcs.rsp ELSE regs.gpr[g]] = regs.gpr
    BY Zenon, InsnAssumption DEF EmuTypeOK, AtExit
  <1> QED
    BY Zenon, <1>1, <1>2, <1>3 DEF Resumed, AtExit

HandledTyped ==
    /\ vmcs' \in [rip : 0 .. RipSpan - 1, rsp : Word]
    /\ regs' \in [gpr : [Gprs -> Word], rip : 0 .. RipSpan - 1]
    /\ device' \in Word /\ device'[3] = 0 /\ ret' \in {-1, 0, 1}

\* What the two handlers of accesses do to the guest.
HandledRight ==
    /\ HandledTyped
    /\ ret' = 0 => regs'.gpr = before.gpr /\ device' = before.dev /\ vmcs'.rip = before.rip
    /\ ~LoadsRsp /\ ~ReservedPhysical => Resumed' \in {before, Executed(before, exit)}

LEMMA LeaveRight ==
    ASSUME EmuTypeOK, AtExit, NEW r \in {-1, 0}, Leave(r)
    PROVE  HandledRight
  <1>1. /\ vmcs' = vmcs /\ regs' = regs /\ device' = device /\ ret' = r
        /\ Resumed' = before
    BY Zenon, LeaveTyped
  <1>2. HandledTyped
    BY Zenon, <1>1 DEF EmuTypeOK, HandledTyped
  <1>3. before.gpr = regs.gpr /\ before.rip = vmcs.rip /\ before.dev = device
    BY Zenon DEF AtExit
  <1> QED
    BY Zenon, <1>1, <1>2, <1>3 DEF HandledRight

LEMMA EmulateRight ==
    ASSUME EmuTypeOK, AtExit, exit.path \in {"virtio", "apic"}, exit.insn \in Insns,
           Decodes(exit.insn, exit.insn.len),
           Supported(relm_decode_x86(exit.insn), exit.offset),
           Emulate(relm_decode_x86(exit.insn), exit.offset)
    PROVE  HandledRight
  <1>1. HandledTyped /\ ret' = 1
    BY Zenon, EmulateTyped DEF HandledTyped, EmulatedAs
  <1>2. ~LoadsRsp => Resumed' = Executed(before, exit)
    BY Zenon, EmulateExecutes
  <1> QED
    BY <1>1, <1>2 DEF HandledRight

LEMMA DecodesAll ==
    ASSUME NEW i \in Insns, NEW n, Decodes(i, n)
    PROVE  Decodes(i, i.len)
  BY InsnFacts DEF Decodes

LEMMA VirtioRight ==
    ASSUME EmuTypeOK, AtExit, exit.path = "virtio", exit.insn \in Insns,
           relm_virtio_mmio_handle_ept_violation
    PROVE  HandledRight
  BY Zenon, DecodesAll, LeaveRight, EmulateRight DEF relm_virtio_mmio_handle_ept_violation

LEMMA ApicRight ==
    ASSUME EmuTypeOK, AtExit, exit.path = "apic", exit.insn \in Insns,
           relm_apic_handle_access
    PROVE  HandledRight
  <1> DEFINE d == relm_decode_x86(exit.insn)
  <1>1. \/ \E r \in {-1, 0} : Leave(r)
        \/ /\ Decodes(exit.insn, exit.vmx_len) /\ Supported(d, exit.offset)
           /\ Emulate(d, exit.offset)
        \/ /\ exit.type = "physical" /\ exit.offset = "reserved"
           /\ ret' = 1 /\ UNCHANGED device
           /\ vmcs' = [vmcs EXCEPT !.rip = Advance(d.length)]
           /\ regs' = [regs EXCEPT !.rip = Advance(d.length)]
    BY Zenon DEF relm_apic_handle_access
  <1>2. ASSUME NEW r \in {-1, 0}, Leave(r)
        PROVE  HandledRight
    BY Zenon, <1>2, LeaveRight
  <1>3. CASE /\ Decodes(exit.insn, exit.vmx_len) /\ Supported(d, exit.offset)
             /\ Emulate(d, exit.offset)
    BY Zenon, <1>3, DecodesAll, EmulateRight
  <1>4. CASE /\ exit.type = "physical" /\ exit.offset = "reserved"
             /\ ret' = 1 /\ UNCHANGED device
             /\ vmcs' = [vmcs EXCEPT !.rip = Advance(d.length)]
             /\ regs' = [regs EXCEPT !.rip = Advance(d.length)]
    <2>1. d.length = exit.insn.len
      BY Zenon DEF relm_decode_x86
    <2>2. Advance(d.length) \in 0 .. RipSpan - 1
      BY Zenon, <2>1, InsnFacts, AdvanceTyped
    <2>3. HandledTyped
      BY Zenon, <1>4, <2>2 DEF EmuTypeOK, HandledTyped
    <2> QED
      BY <1>4, <2>3 DEF HandledRight, ReservedPhysical
  <1> QED
    BY Zenon, <1>1, <1>2, <1>3, <1>4

LEMMA HandleStep ==
    ASSUME EmuInv, handle_vmexit
    PROVE  EmuInv'
  <1>1. /\ EmuTypeOK /\ ExitOK /\ AtExit /\ at' = "handled"
        /\ block' = [g \in Gprs \ {RSP} |-> regs'.gpr[g]]
        /\ UNCHANGED <<cpu, exit, before>>
    BY Zenon DEF EmuInv, handle_vmexit
  <1>2. CASE exit.path \in {"virtio", "apic"}
    <2>1. exit.insn \in Insns
      BY Zenon, <1>1, <1>2 DEF ExitOK
    <2>2. HandledRight
      BY Zenon, <1>1, <1>2, <2>1, VirtioRight, ApicRight DEF handle_vmexit
    <2>3. EmuTypeOK'
      BY Zenon, <1>1, <2>2 DEF EmuTypeOK, HandledRight, HandledTyped
    <2>4. (Executed(before, exit))' = Executed(before, exit) /\ LoadsRsp' = LoadsRsp
          /\ ReservedPhysical' = ReservedPhysical
      BY ZenonT(30), <1>1 DEF Executed, LoadsRsp, ReservedPhysical, Stored, Loaded, LaneOf, Masked
    <2>5. AtHandled'
      BY Zenon, <1>1, <1>2, <2>2, <2>4 DEF AtHandled, HandledRight
    <2> QED
      BY Zenon, <1>1, <2>3, <2>5 DEF EmuInv, ExitOK
  <1>3. CASE exit.path = "hlt"
    <2>1. /\ ret' = 0 /\ vmcs' = [vmcs EXCEPT !.rip = Advance(1)]
          /\ UNCHANGED <<device, regs>>
      BY Zenon, <1>3 DEF handle_vmexit, handle_hlt
    <2>2. Advance(1) \in 0 .. RipSpan - 1
      BY Zenon, <1>1, AdvanceTyped
    <2>3. EmuTypeOK'
      BY Zenon, <1>1, <2>1, <2>2 DEF EmuTypeOK
    <2>4. [g \in Gprs |-> IF g = RSP THEN vmcs.rsp ELSE regs.gpr[g]] = regs.gpr
      BY Zenon, <1>1, InsnAssumption DEF EmuTypeOK, AtExit
    <2>5. /\ before = [gpr |-> regs.gpr, rip |-> vmcs.rip, dev |-> device]
          /\ vmcs'.rsp = vmcs.rsp /\ vmcs'.rip = (vmcs.rip + 1) % RipSpan
      BY Zenon, <1>1, <2>1 DEF AtExit, EmuTypeOK, Advance
    <2>6. [before EXCEPT !.rip = (@ + 1) % RipSpan] =
             [gpr |-> regs.gpr, rip |-> (vmcs.rip + 1) % RipSpan, dev |-> device]
      BY <2>5
    <2>7. Resumed' = [gpr |-> regs.gpr, rip |-> (vmcs.rip + 1) % RipSpan, dev |-> device]
      BY Zenon, <2>1, <2>4, <2>5 DEF Resumed
    <2>8. AfterHlt'
      BY Zenon, <1>1, <2>6, <2>7 DEF AfterHlt
    <2> QED
      BY Zenon, <1>1, <1>3, <2>1, <2>3, <2>8 DEF EmuInv, ExitOK, AtHandled
  <1> QED
    BY Zenon, <1>1, <1>2, <1>3 DEF ExitOK, AtExit

LEMMA ExitsStep ==
    ASSUME EmuInv, NEW x, Exits(x), x.path \in {"virtio", "apic", "hlt"},
           x.path \in {"virtio", "apic"} => x.insn \in Insns
    PROVE  EmuInv'
  <1>1. EmuTypeOK
    BY Zenon DEF EmuInv
  <1> DEFINE file == [g \in Gprs |-> IF g = RSP THEN vmcs.rsp ELSE cpu[g]]
  <1>2. /\ at' = "exit" /\ exit' = x /\ block' = cpu /\ UNCHANGED <<cpu, vmcs, device, ret>>
        /\ regs' = [gpr |-> file, rip |-> vmcs.rip]
        /\ before' = [gpr |-> file, rip |-> vmcs.rip, dev |-> device]
    BY Zenon DEF Exits, Visible
  <1>3. file \in [Gprs -> Word] /\ file[RSP] = vmcs.rsp
    <2>1. vmcs.rsp \in Word /\ cpu \in [Gprs \ {RSP} -> Word]
      BY Zenon, <1>1 DEF EmuTypeOK
    <2> QED
      BY Zenon, <2>1, InsnAssumption
  <1> HIDE DEF file
  <1>4. EmuTypeOK'
    BY Zenon, <1>1, <1>2, <1>3 DEF EmuTypeOK
  <1>5. AtExit'
    BY Zenon, <1>2, <1>3 DEF AtExit
  <1> QED
    BY Zenon, <1>2, <1>4, <1>5 DEF EmuInv, ExitOK

LEMMA NextEmuInv ==
    ASSUME EmuInv, [EmuNext]_ieVars
    PROVE  EmuInv'
  <1>0. EmuTypeOK /\ ExitOK
    BY Zenon DEF EmuInv
  <1>1. CASE GuestRuns
    <2>1. PICK f \in Contents : /\ cpu' = [g \in Gprs \ {RSP} |-> f[g]]
                                /\ vmcs' = [vmcs EXCEPT !.rsp = f[RSP]]
      BY Zenon, <1>1 DEF GuestRuns
    <2>2. f \in [Gprs -> Word] /\ RSP \in Gprs
      BY Zenon, InsnAssumption
    <2>3. EmuTypeOK'
      BY Zenon, <1>0, <1>1, <2>1, <2>2 DEF EmuTypeOK, GuestRuns
    <2> QED
      BY Zenon, <1>0, <1>1, <2>3 DEF EmuInv, ExitOK, GuestRuns
  <1>2. CASE VirtioExit
    BY Zenon, <1>2, ExitsStep DEF VirtioExit
  <1>3. CASE ApicExit
    BY Zenon, <1>3, ExitsStep DEF ApicExit
  <1>4. CASE HltExit
    BY Zenon, <1>4, ExitsStep DEF HltExit
  <1>5. CASE handle_vmexit
    BY Zenon, <1>5, HandleStep
  <1>6. CASE Resume
    <2>1. /\ at' = "guest" /\ cpu' = block /\ exit' = [path |-> "none"]
          /\ UNCHANGED <<vmcs, block, regs, device, ret>>
      BY Zenon, <1>6 DEF Resume, NoExit
    <2> QED
      BY Zenon, <1>0, <2>1 DEF EmuInv, EmuTypeOK, ExitOK
  <1>7. CASE Unwind
    <2>1. EmuTypeOK' /\ ExitOK'
      BY Zenon, <1>0, <1>7 DEF Unwind, EmuTypeOK, ExitOK
    <2>2. AtHandled /\ at' \in {"host", "stopped"} /\ (at' = "host" => exit.path = "hlt")
      BY Zenon, <1>7 DEF Unwind, EmuInv
    <2>3. at' = "host" => AfterHlt' /\ exit'.path = "hlt"
      BY Zenon, <1>7, <2>2 DEF Unwind, AtHandled, AfterHlt, Resumed
    <2> QED
      BY Zenon, <2>1, <2>2, <2>3 DEF EmuInv
  <1>8. CASE relm_vmentry_asm
    <2>1. /\ at' = "guest" /\ cpu' = [g \in Gprs \ {RSP} |-> regs.gpr[g]]
          /\ exit' = [path |-> "none"]
          /\ UNCHANGED <<vmcs, block, regs, device, ret>>
      BY Zenon, <1>8 DEF relm_vmentry_asm, NoExit
    <2> QED
      BY Zenon, <1>0, <2>1 DEF EmuInv, EmuTypeOK, ExitOK
  <1>9. CASE UNCHANGED ieVars
    <2>1. EmuTypeOK' /\ ExitOK'
      BY Zenon, <1>0, <1>9 DEF ieVars, EmuTypeOK, ExitOK
    <2>2. /\ (at = "exit" => AtExit)'
          /\ (at = "host" => (exit.path = "hlt" => AfterHlt) /\ exit.path \in {"hlt", "none"})'
      BY Zenon, <1>9 DEF ieVars, EmuInv, AtExit, AfterHlt, Resumed
    <2>3. (at = "handled" => AtHandled)'
      BY Zenon, <1>9 DEF ieVars, EmuInv, AtHandled, AfterHlt, Resumed, LoadsRsp, ReservedPhysical,
         Executed
    <2> QED
      BY Zenon, <2>1, <2>2, <2>3 DEF EmuInv
  <1> QED
    BY Zenon, <1>1, <1>2, <1>3, <1>4, <1>5, <1>6, <1>7, <1>8, <1>9 DEF EmuNext

LEMMA StepsExact ==
    ASSUME EmuInv, [EmuNext]_ieVars
    PROVE  [EmulatedStep]_ieVars
  <1> SUFFICES ASSUME EmuNext
               PROVE  EmulatedStep
    BY Zenon
  <1>1. at = "exit" /\ exit.path # "hlt" => LanesMatch(exit.insn)
    BY Zenon, LanesAlwaysMatch DEF EmuInv, ExitOK, AtExit
  <1>2. ASSUME at = "handled", at' = "guest"
        PROVE  AtHandled /\ Visible' = Resumed
    <2>1. AtHandled
      BY Zenon, <1>2 DEF EmuInv
    <2>2. Resume
      BY Zenon, <1>2 DEF EmuNext, GuestRuns, VirtioExit, ApicExit, HltExit, Exits, handle_vmexit, Unwind,
                  relm_vmentry_asm
    <2>3. cpu' = [g \in Gprs \ {RSP} |-> regs.gpr[g]] /\ UNCHANGED <<vmcs, device>>
      BY Zenon, <2>1, <2>2 DEF Resume, AtHandled
    <2> QED
      BY Zenon, <2>1, <2>3 DEF Visible, Resumed
  <1>3. ASSUME at = "host", at' = "guest"
        PROVE  Visible' = Resumed
    <2>1. relm_vmentry_asm
      BY Zenon, <1>3 DEF EmuNext, GuestRuns, VirtioExit, ApicExit, HltExit, Exits, handle_vmexit, Unwind,
                  Resume
    <2> QED
      BY Zenon, <2>1 DEF relm_vmentry_asm, Visible, Resumed
  <1>4. ASSUME at' = "stopped"
        PROVE  regs.gpr = before.gpr /\ device = before.dev /\ vmcs.rip = before.rip
    <2>1. Unwind
      BY Zenon, <1>4 DEF EmuNext, GuestRuns, VirtioExit, ApicExit, HltExit, Exits, handle_vmexit, Resume,
                  relm_vmentry_asm
    <2> QED
      BY Zenon, <1>4, <2>1 DEF Unwind, EmuInv, AtHandled
  <1>5. at = "handled" /\ at' = "guest" /\ ~LoadsRsp /\ ~ReservedPhysical =>
           Visible' \in {before, Executed(before, exit)}
    <2> SUFFICES ASSUME at = "handled", at' = "guest", ~LoadsRsp, ~ReservedPhysical
                 PROVE  Visible' \in {before, Executed(before, exit)}
      BY Zenon
    <2>1. AtHandled /\ Visible' = Resumed
      BY Zenon, <1>2
    <2>2. exit.path # "hlt"
      <3>1. ret # 0
        BY Zenon DEF EmuNext, GuestRuns, VirtioExit, ApicExit, HltExit, Exits, handle_vmexit, Unwind,
               relm_vmentry_asm, Resume
      <3> QED
        BY Zenon, <2>1, <3>1 DEF AtHandled
    <2> QED
      BY Zenon, <2>1, <2>2 DEF AtHandled
  <1>6. at = "host" /\ at' = "guest" /\ exit.path = "hlt" =>
           Visible' = [before EXCEPT !.rip = (@ + 1) % RipSpan]
    BY Zenon, <1>3 DEF EmuInv, AfterHlt
  <1> QED
    BY Zenon, <1>1, <1>4, <1>5, <1>6 DEF EmulatedStep

\* For every set of instructions and registers: whatever the guest executes, a
\* trapped access has, when the guest goes on, done to its registers, RIP and
\* the device what the processor would have done, or nothing.
THEOREM EmulationExact == EmuSpec => EmulatedExactly
  <1>1. EmuInit => EmuInv
    BY Zenon, InitEmuInv
  <1>2. EmuInv /\ [EmuNext]_ieVars => EmuInv'
    BY Zenon, NextEmuInv
  <1>3. EmuInv /\ [EmuNext]_ieVars => [EmulatedStep]_ieVars
    BY Zenon, StepsExact
  <1> QED
    BY <1>1, <1>2, <1>3, PTL DEF EmuSpec, EmulatedExactly

\* The type invariant of the device model and the emulator together.
THEOREM TypesCorrect == MCSpec => []TypesOK
  <1>1. MCInit => IInv /\ EmuInv
    BY Zenon, InitIInv, InitEmuInv DEF MCInit
  <1>2. IInv /\ EmuInv /\ [MCNext]_<<part, vars, ieVars>> => IInv' /\ EmuInv'
    <2>1. [MCNext]_<<part, vars, ieVars>> => [Next]_vars /\ [EmuNext]_ieVars
      BY Zenon DEF MCNext
    <2> QED
      BY Zenon, <2>1, NextIInv, NextEmuInv
  <1>3. IInv /\ EmuInv => TypesOK
    BY Zenon DEF IInv, EmuInv, TypesOK
  <1> QED
    BY <1>1, <1>2, <1>3, PTL DEF MCSpec
=============================================================================
