------------------------------ MODULE MCMachine ------------------------------
(***************************************************************************)
(* The interpreter, the loader and the small services around them, a part  *)
(* at a time: every halfword through the expander, operand pairs through   *)
(* the arithmetic, programs of one 32-bit word and one halfword through    *)
(* vm_step, ELF images through load and unload, divisors and fixed-point   *)
(* operands, format strings, configuration files, and the reload timer.    *)
(***************************************************************************)
EXTENDS RvCore, VmLoad, Numeric, Platform, ReloadTimer

CONSTANTS
    AluA, AluB,        \* operands of the arithmetic part
    X8s, X9s,          \* initial values of the two registers programs use
    Halves             \* the halfwords that follow the word

VARIABLES part, in

vars == <<rvvars, ldvars, num, platformvars, ini, reloadvars, part, in>>

MCRegionLen == [r \in Regions |-> CASE r = "code" -> 6 [] r = "rodata" -> 4
                                    [] r = "data" -> 7 [] r = "shared" -> 5 [] r = "l2" -> 0]

\* One word per opcode, funct3 and funct7 the decoder looks at, with registers that
\* include x0 and the case rd = rs1. Opcode 107 is undefined.
MCWords ==
    {mk_r(f7, rs2, rs1, f3, rd, op) :
        f7 \in {0, 1, 32, 127}, rs2 \in {0, 1, 9}, rs1 \in {0, 8}, f3 \in 0 .. 7,
        rd \in {0, 8}, op \in {19, 51, 3, 35, 99, 103, 115}}
    \cup {mk_r(f7, rs2, 8, f3, 8, op) :
        f7 \in {0, 127}, rs2 \in {0, 1}, f3 \in {0, 1, 4}, op \in {55, 23, 111, 15, 107}}

Bytes(w, h) ==
    LET lo == (w.rs1 % 2) * 2^15 + w.f3 * 2^12 + w.rd * 2^7 + w.op
        hi == w.f7 * 2^9 + w.rs2 * 2^4 + w.rs1 \div 2
        b == <<lo % 256, lo \div 256, hi % 256, hi \div 256, h % 256, h \div 256>>
    IN [o \in 0 .. 5 |-> b[o + 1]]

Seg(region, filesz, memsz, w, even) ==
    [type |-> "load", region |-> region, at |-> 0, filesz |-> filesz, memsz |-> memsz,
     writable |-> w, infile |-> TRUE, even |-> even]
Elf(bad, ph) == [bad |-> bad, ph |-> ph]
Code == Seg("code", 2, 2, FALSE, TRUE)
Data == Seg("data", 1, 3, TRUE, TRUE)
NoteSeg == [Code EXCEPT !.type = "note"]

\* One segment per region at the region's origin, which is what the linker script of
\* vm_loader.h produces, and images with one thing wrong each.
MCImages ==
    {Elf({}, <<Code>>), Elf({}, <<Code, Seg("rodata", 1, 1, FALSE, TRUE), Data>>),
     Elf({}, <<Seg("code", 2, 2, FALSE, FALSE), NoteSeg, Data>>), Elf({}, <<Data, Code>>),
     Elf({}, <<Code, Seg("data", 0, 2, FALSE, TRUE)>>), Elf({}, <<NoteSeg, Seg("data", 0, 0, TRUE, TRUE)>>),
     Elf({}, <<Code, Seg("rodata", 1, 2, FALSE, TRUE)>>), Elf({}, <<Code, Seg("code", 2, 2, TRUE, TRUE)>>),
     Elf({}, <<Code, Seg("data", 2, 1, TRUE, TRUE)>>), Elf({}, <<Code, Seg("data", 1, DataSize + 1, TRUE, TRUE)>>),
     Elf({}, <<Seg("shared", 1, 1, TRUE, TRUE)>>), Elf({}, <<[Data EXCEPT !.at = RegionCap]>>),
     Elf({}, <<Code, [Data EXCEPT !.infile = FALSE]>>), Elf({}, <<[Code EXCEPT !.type = "interp"]>>),
     Elf({}, <<Code, [Code EXCEPT !.type = "dynamic"]>>)}
    \cup {Elf({c}, <<Code>>) : c \in {HeaderChecks[i] : i \in DOMAIN HeaderChecks}}

\* Images the validation accepts as well: two segments for one region, and a segment
\* that does not start at its region's origin.
MCLooseImages ==
    {Elf({}, <<Code, Data>>), Elf({}, <<Code, Data, Data>>), Elf({}, <<Code, [Data EXCEPT !.at = 1]>>)}

Zero == [r \in 0 .. 31 |-> 0]

Directive(c, fl, w, p) == [conv |-> c, flags |-> fl, width |-> w, prec |-> p, text |-> <<>>]
Literal == [Directive("text", {}, 0, -1) EXCEPT !.text = <<97, 98>>]
\* Every combination of flags, width and precision on one number, and formats that mix
\* text with conversions, with too few arguments too.
MCFormats ==
    {<<Directive(c, fl, w, p)>> : c \in {"d", "x", "o"}, fl \in SUBSET {"-", "0", "+", "#"},
                                  w \in {0, 4, Star}, p \in {-1, 0, 3, Star}}
    \cup {<<Literal, Directive(c, fl, 3, 1), Directive("d", {" "}, 0, -1), Directive("%", {}, 0, -1)>> :
            c \in {"c", "s", "u", "X", "p", "?", "d"}, fl \in {{}, {"-"}}}
MCArgLists == {<<>>, <<0>>, <<1>>, <<11, 59>>, <<61, 1, 12>>}
MCStrings == [p \in 1 .. 63 |-> IF p = 1 THEN <<104, 105>> ELSE <<120, 121, 122, 119>>]

Init ==
    /\ LoadInit /\ NumInit /\ IniInit /\ ReloadInit
    /\ pc = 0 /\ trap = NoTrap /\ retired = 0 /\ ecalls = 0 /\ traps = 0 /\ halted = FALSE
    /\ run = "idle" /\ steps = 0 /\ budget = 0 /\ acc = NoAcc
    /\ slots = [n \in Calls |-> "none"] /\ fallback = "enosys"
    /\ \/ /\ part = "expand" /\ in \in {c \in 0 .. 65535 : c % 4 # 3}
          /\ regs = Zero /\ mem = [r \in Regions |-> <<>>]
       \/ /\ part = "alu" /\ in \in AluA \X AluB
          /\ regs = Zero /\ mem = [r \in Regions |-> <<>>]
       \/ /\ part \in {"load", "numbers", "format", "config", "reload"} /\ in = 0
          /\ regs = Zero /\ mem = [r \in Regions |-> <<>>]
       \/ /\ part = "exec" /\ in = 0
          /\ \E w \in MCWords, h \in Halves, x \in X8s, y \in X9s :
                /\ regs = [Zero EXCEPT ![8] = x, ![9] = y, ![11] = y]
                /\ mem = [r \in Regions |-> IF r = "code" THEN Bytes(w, h)
                                            ELSE [o \in 0 .. MCRegionLen[r] - 1 |-> o % 4]]
       \/ \* a system call and the calls of its handler
          /\ part = "host" /\ in = 0
          /\ regs = [Zero EXCEPT ![A7] = 2, ![11] = 0]
          /\ mem = [r \in Regions |-> IF r = "code" THEN Bytes(mk_i(0, 0, 0, 0, 115), 36866)
                                      ELSE [o \in 0 .. MCRegionLen[r] - 1 |-> o % 4]]
    /\ IF part = "format" THEN PlatformInit ELSE PlatformStart({"none"})

Exec ==
    /\ part \in {"exec", "host"}
    /\ \/ retired = 0 /\ ecalls = 0 /\ traps = 0 /\ vm_step
       \/ FetchFault \/ ExecFault \/ Retire \/ QuantumExpired
       \/ vm_ecall_dispatch

Addrs == 0 .. Word - 1
Host ==
    /\ part = "host"
    /\ \/ (run = "expired" \/ halted) /\ vm_step
       \/ vm_reset
       \/ acc = NoAcc /\ \E a \in Addrs : vm_read_u32(a) \/ vm_write_u32(a, 3)
       \/ acc = NoAcc /\ \E a \in {0, 7, 64, 127, 129, 134, 135, 191, 192, 196, 224}, n \in {1, 2, 7, Word - 1} :
              vm_copy_from_guest(a, n) \/ vm_copy_to_guest(a, n, 1)
       \/ \E n \in Calls, h \in Handlers : vm_ecall_register(n, h)
       \/ \E n \in Calls : vm_ecall_unregister(n)
       \/ \E h \in Handlers \cup {"none"} : vm_ecall_set_fallback(h)

Machine == (Exec \/ Host) /\ UNCHANGED <<ldvars, num, platformvars, ini, reloadvars>>
Loading == part = "load" /\ LoadNext /\ UNCHANGED <<rvvars, num, platformvars, ini, reloadvars>>
Numbers == part = "numbers" /\ NumNext /\ UNCHANGED <<rvvars, ldvars, platformvars, ini, reloadvars>>
Formatting == part = "format" /\ PlatformNext /\ UNCHANGED <<rvvars, ldvars, num, ini, reloadvars>>
Configuration == part = "config" /\ IniNext /\ UNCHANGED <<rvvars, ldvars, num, platformvars, reloadvars>>
Reload == part = "reload" /\ ReloadNext /\ UNCHANGED <<rvvars, ldvars, num, platformvars, ini>>

Next ==
    /\ Machine \/ Loading \/ Numbers \/ Formatting \/ Configuration \/ Reload
    /\ UNCHANGED <<part, in>>

Spec == Init /\ [][Next]_vars

-----------------------------------------------------------------------------
\* Every 16-bit instruction means what the tables of the C extension say, after it
\* went through the expander, an encoder and the decoder (expand_compressed, mk_*,
\* imm_*, execute_one): register, immediate with its sign, and the reserved encodings.
ExpandMatchesRvc == part = "expand" => Meaning(expand_compressed(in)) = RefExpand(in)

\* AluIsRv32 on every pair of operands; x0 is zero in every reachable state.
ArithmeticExact == (part = "alu" => AluIsRv32(in[1], in[2])) /\ regs[0] = 0

\* What the machine and its helpers compute is what it is defined to be: instructions,
\* none of whose accesses leaves its region (vm_core.c), divisions and fixed-point
\* numbers (math/), formatted text (vm_host_platform.c) and configuration lookups
\* (inicfg.c).
ComputationsExact ==
    /\ ExpandMatchesRvc /\ ArithmeticExact /\ AccessInBounds
    /\ part = "numbers" => DivisionExact /\ FixedPointExact
    /\ part = "format" => FormatExact
    /\ part = "config" => ConfigExact

View == <<part, CASE part \in {"expand", "alu", "exec", "host"} -> <<rvvars, in>>
                  [] part = "load" -> ldvars
                  [] part = "numbers" -> num
                  [] part = "format" -> platformvars
                  [] part = "config" -> ini
                  [] part = "reload" -> reloadvars>>
==============================================================================
