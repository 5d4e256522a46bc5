-------------------------------- MODULE VmLoad --------------------------------
(***************************************************************************)
(* Loading and unloading of a VM: vm_load of vm_loader.c, and around it    *)
(* vm_system_load_vm_with_mailbox with its unwinding and                   *)
(* vm_system_unload_vm, as users of the local slab.                        *)
(*                                                                         *)
(* An ELF image is what the loader looks at: the header checks it fails,   *)
(* its entry point and its program headers. Bytes are abstracted to where  *)
(* they come from: segment i of the image, zero, or left as they were.     *)
(***************************************************************************)
EXTENDS Integers, Sequences, FiniteSets, FiniteSetsExt

CONSTANTS
    Slots,        \* vm ids
    Blk,          \* blocks of the local slab, of one size
    Images,       \* ELF images
    DataSize,     \* region_data_size
    RegionCap     \* 2^30: the offsets of one region

VARIABLES
    inuse,        \* blocks not on the slab's free list
    vms,          \* vm id -> its blocks and regions, or NoVm
    out           \* the last load: its image and what it returned

ldvars == <<inuse, vms, out>>

NoVm == [cpu |-> 0]
InElf == -1          \* a base pointer into the image (execute in place)
RamRegions == {"code", "rodata", "data"}
NoRegion == [base |-> 0, len |-> 0, seg |-> 0, at |-> 0, writable |-> FALSE]
Live == {v \in Slots : vms[v] # NoVm}

\* A program header: where its bytes are and where they go. region is the top two
\* bits of the address, at the rest; even says whether they lie 2-byte aligned.
Phdr == [type : STRING, region : RamRegions \cup {"shared"}, at : Nat, filesz : Nat, memsz : Nat,
         writable : BOOLEAN, infile : BOOLEAN, even : BOOLEAN]

\* Blocks are addresses, region_data_size is not zero (vm_load returns at once if it is).
ASSUME BlkAssumption == Blk \subseteq Nat \ {0}
ASSUME SlotsAssumption == Slots \subseteq Nat
ASSUME DataSizeAssumption == DataSize \in Nat \ {0}
ASSUME ImageAssumption == \A img \in Images : img.ph \in Seq(Phdr)

-----------------------------------------------------------------------------
\* Pass 1 and the checks before it; the first that fails is the result.

HeaderChecks == <<"truncated", "bad_magic", "not_rv32", "not_little_endian", "bad_version",
                  "not_riscv", "not_executable", "bad_ehdr_version", "invalid_phentsize",
                  "entry_region", "entry_aligned", "no_phdrs", "phdrs_truncated">>

validate_pt_load(p) ==
    CASE p.region = "shared" -> "out_of_range"
      [] p.region # "shared" /\ (p.memsz > RegionCap \/ p.at > RegionCap - p.memsz) -> "too_large"
      [] p.memsz < p.filesz -> "out_of_range"
      [] p.region \in {"code", "rodata"} /\ p.writable -> "region_mismatch"
      [] p.region \in {"code", "rodata"} /\ p.memsz > p.filesz -> "bss_in_ro"
      [] OTHER -> "ok"

Loadable(p) == p.type = "load" /\ ~(p.filesz = 0 /\ p.memsz = 0)

CheckPhdr(p) ==
    CASE p.type = "dynamic" -> "dynamic_forbidden"
      [] p.type = "interp"  -> "interp_forbidden"
      [] ~Loadable(p)       -> "ok"
      [] Loadable(p) /\ p.filesz > 0 /\ ~p.infile -> "truncated"
      [] OTHER -> IF p.type = "load" THEN validate_pt_load(p) ELSE "ok"

Validate(img) ==
    LET h == {i \in DOMAIN HeaderChecks : HeaderChecks[i] \in img.bad}
        bad == {i \in DOMAIN img.ph : CheckPhdr(img.ph[i]) # "ok"}
    IN CASE h # {} -> HeaderChecks[Min(h)]
         [] h = {} /\ bad # {} -> CheckPhdr(img.ph[Min(bad)])
         [] OTHER -> "ok"

-----------------------------------------------------------------------------
(***************************************************************************)
(* Pass 2. s is the state of a load: the blocks in use, the regions filled *)
(* in so far, and the result. slab_alloc gives any block that is free.     *)
(***************************************************************************)
slab_alloc(used) == IF Blk \subseteq used THEN 0 ELSE Min(Blk \ used)

Filled(block, p, i) ==
    [base |-> block, len |-> IF p.region = "data" THEN DataSize ELSE p.filesz,
     seg |-> i, at |-> 0, writable |-> p.region = "data"]

apply_pt_load(s, p, i, xip) ==
    LET b == slab_alloc(s.used)
        ro == p.region \in {"code", "rodata"}
    IN CASE ~Loadable(p) -> s
         [] Loadable(p) /\ ro /\ xip[p.region] /\ ~p.even /\ p.region = "code" ->
                [s EXCEPT !.res = "invalid_arg"]
         [] Loadable(p) /\ ro /\ xip[p.region] /\ (p.even \/ p.region = "rodata") ->
                [s EXCEPT !.regions[p.region] = Filled(InElf, p, i)]
         [] Loadable(p) /\ ~ro /\ DataSize < p.memsz -> [s EXCEPT !.res = "data_size_too_small"]
         [] OTHER -> IF b = 0 THEN [s EXCEPT !.res = "out_of_ram"]
                     ELSE [s EXCEPT !.used = @ \cup {b}, !.regions[p.region] = Filled(b, p, i)]

\* Every VM needs a stack: region 2 is allocated when no segment did.
DefaultData(s) ==
    LET b == slab_alloc(s.used)
    IN CASE s.res # "ok" \/ s.regions["data"].len # 0 -> s
         [] OTHER -> IF b = 0 THEN [s EXCEPT !.res = "out_of_ram"]
                     ELSE [s EXCEPT !.used = @ \cup {b},
                               !.regions["data"] = [base |-> b, len |-> DataSize, seg |-> 0,
                                                     at |-> 0, writable |-> TRUE]]

\* What the image asks for before anything is taken.
Start(used, img) ==
    [used |-> used, regions |-> [r \in RamRegions |-> NoRegion], res |-> Validate(img)]

\* The program headers are applied in order, up to the first that fails.
Applying(s, img, i, xip) == IF s.res = "ok" THEN apply_pt_load(s, img.ph[i], i, xip) ELSE s

Applied(start, img, xip) ==
    LET after[i \in 0 .. Len(img.ph)] ==
            IF i = 0 THEN start ELSE Applying(after[i - 1], img, i, xip)
    IN after[Len(img.ph)]

vm_load(used, img, xip) == DefaultData(Applied(Start(used, img), img, xip))

-----------------------------------------------------------------------------
\* The caller: cpu, slot and mailbox are taken in this order and given back on failure.
\* slab_free of a block frees it; of a pointer into the image it does nothing.

BlocksOf(vm) == ({vm.cpu, vm.mbox} \cup {vm.regions[r].base : r \in RamRegions}) \cap Blk

NoneLeft(img, why) == out' = [img |-> img, res |-> why, vm |-> -1] /\ UNCHANGED <<inuse, vms>>

\* A mutant: the unwinding gives back the cpu and the mailbox only.
Unwind_KeepRegions(s, cpu, mbox) == s.used \ {cpu, mbox}

Unwind(s, cpu, mbox) == s.used \ BlocksOf([cpu |-> cpu, mbox |-> mbox, regions |-> s.regions])

vm_system_load_vm(img, xip) ==
    LET cpu == slab_alloc(inuse)
        free == Slots \ Live
        mbox == slab_alloc(inuse \cup {cpu})
        s == vm_load(inuse \cup {cpu, mbox}, img, xip)
    IN CASE cpu = 0 -> NoneLeft(img, "no_arena_space")
         [] cpu # 0 /\ free = {} -> NoneLeft(img, "full")
         [] cpu # 0 /\ free # {} /\ mbox = 0 -> NoneLeft(img, "no_arena_space")
         [] OTHER ->
            IF s.res = "ok"
            THEN /\ vms' = [vms EXCEPT ![Min(free)] =
                                [cpu |-> cpu, mbox |-> mbox, regions |-> s.regions, img |-> img]]
                 /\ inuse' = s.used
                 /\ out' = [img |-> img, res |-> "ok", vm |-> Min(free)]
            ELSE /\ inuse' = Unwind(s, cpu, mbox)
                 /\ out' = [img |-> img, res |-> s.res, vm |-> -1]
                 /\ UNCHANGED vms

vm_system_unload_vm(v) ==
    /\ v \in Live
    /\ inuse' = inuse \ BlocksOf(vms[v])
    /\ vms' = [vms EXCEPT ![v] = NoVm]
    /\ out' = [out EXCEPT !.vm = IF @ = v THEN -1 ELSE @]

LoadInit == inuse = {} /\ vms = [v \in Slots |-> NoVm] /\ out = [img |-> {}, res |-> "none", vm |-> -1]

LoadVm == \E img \in Images, x, y \in BOOLEAN :
              vm_system_load_vm(img, [r \in {"code", "rodata"} |-> IF r = "code" THEN x ELSE y])
UnloadVm == \E v \in Slots : vm_system_unload_vm(v)
LoadNext == LoadVm \/ UnloadVm
LoadSpec == LoadInit /\ [][LoadNext]_ldvars

-----------------------------------------------------------------------------
\* Blocks of the local slab and the VMs that hold them agree: a load that fails at
\* any of its steps gives back what it took and an unload everything the VM had, so
\* no block is leaked and none belongs to two VMs.
LocalBlocksAccounted ==
    /\ inuse = UNION {BlocksOf(vms[v]) : v \in Live}
    /\ \A v, w \in Live : v # w => BlocksOf(vms[v]) \cap BlocksOf(vms[w]) = {}

\* A loaded VM's regions hold the segments of its image: what validation let through,
\* loading put where its address says, and nothing in read-only memory is missing.
LoadedImageExact ==
    \A v \in Live : \A i \in DOMAIN vms[v].img.ph :
        LET p == vms[v].img.ph[i]
        IN Loadable(p) =>
            LET r == vms[v].regions[p.region]
            IN r.seg = i /\ r.at = p.at /\ p.memsz <= r.len /\ r.writable = (p.region = "data")

\* Both: what a load takes is what the VM's memory holds, and it is all given back
\* (vm_load, and vm_system_load_vm_with_mailbox with its unwinding).
LoadExact == LocalBlocksAccounted /\ LoadedImageExact

\* Images as the linker script of vm_loader.h makes them: of those that pass the
\* validation, no two segments share a region and each starts at its region's origin.
LinkedImages ==
    \A img \in Images : Validate(img) = "ok" =>
        \A i \in DOMAIN img.ph : Loadable(img.ph[i]) =>
            /\ img.ph[i].at = 0
            /\ \A j \in DOMAIN img.ph : Loadable(img.ph[j]) /\ img.ph[j].region = img.ph[i].region => j = i

\* What holds of any image: whichever way a load ends, a block that a VM holds is in
\* use, and none belongs to two VMs.
NoBlockShared ==
    /\ \A v \in Live : BlocksOf(vms[v]) \subseteq inuse
    /\ \A v, w \in Live : v # w => BlocksOf(vms[v]) \cap BlocksOf(vms[w]) = {}
==============================================================================
