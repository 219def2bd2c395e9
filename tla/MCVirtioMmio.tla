---------------------------- MODULE MCVirtioMmio ----------------------------
(***************************************************************************)
(* The registers of virtio devices (VirtioMmio), in two instances, and the *)
(* emulation of the instruction that accesses one (InsnEmulate).           *)
(* "pair" has two devices, at pages 1 and 2, another window and tables that *)
(* fill up; its drivers leave features, queue sizes and high halves of     *)
(* addresses alone, make no access that ends the vCPU and write nothing in *)
(* a life in which a device is registered twice.  "single" has one device, *)
(* whose driver writes everything in every order.  "insn" runs             *)
(* instructions against one register that reads as it was written.         *)
(***************************************************************************)
EXTENDS VirtioMmio, InsnEmulate, TLC

VARIABLE part

MCStatuses == {{}, {"DRIVER"}, {"DRIVER_OK"}, {"FAILED"}, {"FAILED", "DRIVER_OK"}, {"high"}}
Symmetry == Permutations(Devs)

\* Loads and stores of every width and lane, of RSP, an immediate, a segment
\* register, and two instructions that are no plain MOV.
Mov(action, width, value, reg, high, len) ==
    [mnemonic |-> "mov", lock |-> FALSE, action |-> action, width |-> width, value |-> value,
     reg |-> reg, high |-> high, imm |-> [l \in Lanes |-> 1], len |-> len]
MCInsns ==
    {Mov("write", 4, "gpr", 1, FALSE, 2), Mov("write", 4, "imm", 0, FALSE, 3),
     Mov("read", 4, "gpr", 0, FALSE, 2), Mov("read", 8, "gpr", 1, FALSE, 3),
     Mov("read", 2, "gpr", 0, FALSE, 3), Mov("read", 1, "gpr", 0, TRUE, 2),
     Mov("write", 1, "gpr", 0, TRUE, 2), Mov("read", 4, "gpr", 4, FALSE, 2),
     Mov("write", 2, "seg", 0, FALSE, 2), Mov("none", 4, "gpr", 0, FALSE, 2),
     [Mov("readwrite", 4, "gpr", 1, FALSE, 2) EXCEPT !.mnemonic = "xchg"]}
MCContents == {[g \in Gprs |-> [l \in Lanes |-> IF g \in S THEN 1 ELSE 0]] : S \in {{1}, {0, 4}}}

MCInit ==
    /\ part \in {"pair", "single", "insn"} /\ Init /\ EmuInit
    /\ part # "insn" => regs.gpr = CHOOSE f \in Contents : TRUE

\* No register has been written.
Untouched ==
    /\ \A k \in DOMAIN selectors : selectors'[k].queue = 0
    /\ \A d \in Devs : dev'[d].status = {} /\ ~dev'[d].isr
                       /\ \A k \in Queues : dev'[d].q[k].addr = NoAddr

PairStep ==
    /\ vcpu' = "running"
    /\ lost' # {} => Untouched
    /\ \A k \in DOMAIN selectors : selectors'[k].features = 0
    /\ \A d \in Devs :
        /\ base'[d] <= 2
        /\ dev'[d].features = 0 /\ dev'[d].status = (IF d \in started' THEN {"DRIVER_OK"} ELSE {})
        /\ \A k \in Queues : /\ ~dev'[d].q[k].sized
                             /\ \A r \in Rings : dev'[d].q[k].addr[<<r, "high">>] = 0

\* One window at a time, a device's at page 1; base is 0 until it is registered.
SingleStep ==
    /\ Len(regions') <= 1
    /\ \A d \in Devs : base'[d] <= 1
    /\ Cardinality({x \in Devs : base'[x] = 1}) <= 1

MCNext ==
    /\ UNCHANGED part
    /\ \/ part = "pair" /\ Next /\ PairStep /\ UNCHANGED ieVars
       \/ part = "single" /\ Next /\ SingleStep /\ UNCHANGED ieVars
       \/ part = "insn" /\ EmuNext /\ UNCHANGED vars

MCSpec == MCInit /\ [][MCNext]_<<part, vars, ieVars>>

\* Type invariant of the two.
TypesOK == TypeOK /\ EmuTypeOK
=============================================================================
