------------------------------ MODULE Platform ------------------------------
(***************************************************************************)
(* The small platform services of src/src/vm/vm_host_platform.c: the       *)
(* printf-style formatter and its two sinks, the clock, allocation-size    *)
(* and random-number calls, and their installation with its roll-back; and *)
(* the call table they are installed in (src/src/vm/vm_ecall.c).           *)
(*                                                                         *)
(* A format string is a sequence of directives, already split at the '%'s: *)
(* a literal run, or a conversion with its flags, width, precision.        *)
(* Characters are their ASCII codes; a word is FmtBits wide.               *)
(***************************************************************************)
EXTENDS Integers, Sequences, FiniteSets, TLC, SequencesExt

CONSTANTS
    FmtBits,        \* width of a guest word
    Formats,        \* the format strings: sequences of directives
    ArgLists,       \* the argument arrays: sequences of words
    Strings,        \* guest strings, by pointer; pointer 0 is NULL
    MaxStr,         \* VM_FORMAT_MAX_STR_ARG
    BufCaps,        \* capacities passed to SYS_FORMAT_TO_BUF
    FdAccepts,      \* bytes the host takes before a write fails
    MaxPlatformInstalls

ASSUME PlatformAssumption ==
    /\ FmtBits \in Nat \ {0} /\ MaxStr \in Nat /\ MaxPlatformInstalls \in Nat
    /\ BufCaps \subseteq Nat /\ FdAccepts \subseteq Nat

\* The six numbers the module installs, in the order it registers them.
Syscalls == <<"FORMAT_AND_WRITE", "FORMAT_TO_BUF", "REALTIME_NOW", "ALLOC_SIZE",
              "RAND", "DEADLINE_REMAINING">>

VARIABLES
    fmtCall,        \* the formatter call just made
    fmtBuf,         \* the guest's buffer: a sequence of codes, 0 where untouched is Fill
    fmtHost,        \* what reached the host's stdout
    fmtResult,      \* the guest's a0
    ecallTable,     \* number -> who is registered ("none", "platform", "other")
    platformInstalls

platformvars == <<fmtCall, fmtBuf, fmtHost, fmtResult, ecallTable, platformInstalls>>
formatvars == <<fmtCall, fmtBuf, fmtHost, fmtResult>>

Fill == 255
FmtEFAULT == -14
FmtEBADF == -9
FmtEIO == -5

-----------------------------------------------------------------------------
(* The formatter.  A directive's text is built as format_va emits it.       *)

Chars(c, n) == [i \in 1 .. (IF n > 0 THEN n ELSE 0) |-> c]

\* fmt_pad: n characters c; none when n is not positive.
fmt_pad(c, n) == Chars(c, n)

Digit(d, upper) == IF d < 10 THEN 48 + d ELSE IF upper THEN 55 + d ELSE 87 + d

\* fmt_uint: digits from the least significant one back; 0 is one digit.
fmt_uint[v \in 0 .. (2^FmtBits - 1), base \in {8, 10, 16}, upper \in BOOLEAN] ==
    IF v < base THEN <<Digit(v, upper)>>
    ELSE Append(fmt_uint[v \div base, base, upper], Digit(v % base, upper))

ToSigned(v) == IF v >= 2^(FmtBits - 1) THEN v - 2^FmtBits ELSE v

Space == 32

\* %c and %s: spaces on the left, or on the right with '-'.
Aligned(d, w, text) ==
    IF "-" \in d.flags THEN text \o fmt_pad(Space, w - Len(text))
    ELSE fmt_pad(Space, w - Len(text)) \o text

NullText == <<40, 110, 117, 108, 108, 41>>

\* The characters %s takes: to the terminator, the limit or the precision.
StringArg(ptr, prec) ==
    LET s == IF ptr = 0 THEN NullText ELSE Strings[ptr]
        room == IF ptr = 0 THEN Len(s) ELSE MaxStr
        n == IF prec >= 0 /\ prec < room THEN prec ELSE room
    IN SubSeq(s, 1, IF n < Len(s) THEN n ELSE Len(s))

\* %d %i %u %x %X %o once the sign or prefix and the digits are known.
FormatNumber(d, w, prec, prefix, digits) ==
    LET zeros == IF prec > Len(digits) THEN prec - Len(digits) ELSE 0
        pad == w - (Len(prefix) + Len(digits)) - zeros
        left == "-" \in d.flags
        zero == "0" \in d.flags
    IN (IF ~left /\ ~zero THEN fmt_pad(Space, pad) ELSE <<>>)
       \o prefix
       \o (IF zeros > 0 THEN fmt_pad(48, zeros)
           ELSE IF ~left /\ zero /\ prec < 0 THEN fmt_pad(48, pad) ELSE <<>>)
       \o digits
       \o (IF left THEN fmt_pad(Space, pad) ELSE <<>>)

SignOf(d, v) ==
    IF ToSigned(v) < 0 THEN <<45>>
    ELSE IF "+" \in d.flags THEN <<43>>
    ELSE IF " " \in d.flags THEN <<Space>> ELSE <<>>

FormatSigned(d, w, prec, v) ==
    LET s == ToSigned(v)
    IN FormatNumber(d, w, prec, SignOf(d, v),
                    fmt_uint[IF s < 0 THEN -s ELSE s, 10, FALSE])

BaseOf(conv) == CASE conv \in {"x", "X"} -> 16 [] conv = "o" -> 8 [] OTHER -> 10

PrefixOf(d, v) ==
    IF "#" \notin d.flags \/ v = 0 THEN <<>>
    ELSE CASE d.conv = "x" -> <<48, 120>> [] d.conv = "X" -> <<48, 88>>
           [] d.conv = "o" -> <<48>> [] OTHER -> <<>>

FormatUnsigned(d, w, prec, v) ==
    FormatNumber(d, w, prec, PrefixOf(d, v), fmt_uint[v, BaseOf(d.conv), d.conv = "X"])

FormatPointer(v) ==
    LET digits == fmt_uint[v, 16, FALSE] IN fmt_pad(48, 8 - Len(digits)) \o digits

\* '*' takes the next argument as a signed number; without one it is as if
\* nothing was written.
Star == 1000

WidthOf(d, args, i) ==
    IF d.width # Star THEN [val |-> d.width, next |-> i]
    ELSE IF i <= Len(args) THEN [val |-> ToSigned(args[i]), next |-> i + 1]
    ELSE [val |-> 0, next |-> i]

PrecisionOf(d, args, i) ==
    IF d.prec # Star THEN [val |-> d.prec, next |-> i]
    ELSE IF i <= Len(args) THEN [val |-> ToSigned(args[i]), next |-> i + 1]
    ELSE [val |-> 0, next |-> i]

\* One directive: its text and the index of the next argument.
FormatOne(d, args, i) ==
    LET w == WidthOf(d, args, i)
        p == PrecisionOf(d, args, w.next)
        more == p.next <= Len(args)
        a == args[p.next]
        taken(text) == [text |-> text, next |-> p.next + 1]
    IN CASE d.conv = "text" -> [text |-> d.text, next |-> i]
         [] d.conv = "%" -> [text |-> <<37>>, next |-> p.next]
         [] d.conv = "?" -> [text |-> <<37, 63>>, next |-> p.next]
         [] d.conv \notin {"text", "%", "?"} /\ ~more ->
                [text |-> IF d.conv = "s" THEN NullText ELSE <<63>>, next |-> p.next]
         [] d.conv = "c" /\ more -> taken(Aligned(d, w.val, <<a>>))
         [] d.conv = "s" /\ more -> taken(Aligned(d, w.val, StringArg(a, p.val)))
         [] d.conv = "d" /\ more -> taken(FormatSigned(d, w.val, p.val, a))
         [] d.conv \in {"u", "x", "X", "o"} /\ more ->
                taken(FormatUnsigned(d, w.val, p.val, a))
         [] d.conv = "p" /\ more -> taken(FormatPointer(a))

\* format_va: the pieces it hands to the sink, in order.
format_va(fmt, args) ==
    FoldLeft(LAMBDA acc, d :
                LET r == FormatOne(d, args, acc.next)
                IN [text |-> acc.text \o r.text, next |-> r.next],
             [text |-> <<>>, next |-> 1], fmt).text

-----------------------------------------------------------------------------
(* The two sinks and their calls.                                           *)

Shorter(a, b) == IF a < b THEN a ELSE b

\* buf_emit and the terminator: at most cap - 1 characters, then a NUL; the
\* buffer the guest gave is cap bytes, one more is kept to see it untouched.
buf_emit(text, cap) ==
    LET n == IF cap = 0 THEN 0 ELSE Shorter(Len(text), cap - 1)
    IN [i \in 1 .. cap + 1 |->
            IF i <= n THEN text[i] ELSE IF i = n + 1 /\ cap > 0 THEN 0 ELSE Fill]

copy_guest_args(args, argc) == argc <= Len(args)

handle_format_to_buf(fmt, args, argc, cap) ==
    /\ fmtCall' = [kind |-> "buf", fmt |-> fmt, args |-> args, argc |-> argc, cap |-> cap]
    /\ IF copy_guest_args(args, argc)
       THEN LET text == format_va(fmt, SubSeq(args, 1, argc)) IN
            fmtBuf' = buf_emit(text, cap) /\ fmtResult' = Len(text)
       ELSE fmtBuf' = <<Fill>> /\ fmtResult' = FmtEFAULT
    /\ fmtHost' = <<>>

\* fd_emit: write(2) until all is out; a failure ends the formatting.
fd_emit(text, accepts) == SubSeq(text, 1, Shorter(Len(text), accepts))

handle_format_and_write(fd, fmt, args, argc, accepts) ==
    /\ fmtCall' = [kind |-> "fd", fmt |-> fmt, args |-> args, argc |-> argc, cap |-> accepts]
    /\ fmtBuf' = <<Fill>>
    /\ LET text == format_va(fmt, SubSeq(args, 1, Shorter(argc, Len(args)))) IN
       IF fd \notin {1, 2} THEN fmtHost' = <<>> /\ fmtResult' = FmtEBADF
       ELSE IF ~copy_guest_args(args, argc) THEN fmtHost' = <<>> /\ fmtResult' = FmtEFAULT
       ELSE /\ fmtHost' = fd_emit(text, accepts)
            /\ fmtResult' = IF accepts < Len(text) THEN FmtEIO ELSE Len(text)

\* A call reaches its handler once the module is installed.
Format ==
    /\ fmtCall.kind = "none" /\ \A n \in DOMAIN ecallTable : ecallTable[n] = "platform"
    /\ \E fmt \in Formats, args \in ArgLists : \E argc \in {Len(args), Len(args) + 1} :
        \/ \E cap \in BufCaps : handle_format_to_buf(fmt, args, argc, cap)
        \/ \E fd \in {1, 5}, n \in FdAccepts : handle_format_and_write(fd, fmt, args, argc, n)
    /\ UNCHANGED <<ecallTable, platformInstalls>>

-----------------------------------------------------------------------------
(* Installation.                                                            *)

RegisterCall(t, n) == IF t[n] = "none" THEN [t EXCEPT ![n] = "platform"] ELSE t

\* fail_rand .. fail_faw: the registrations before the k-th are taken back.
Unregister(t, k) ==
    [n \in DOMAIN t |-> IF \E i \in 1 .. (k - 1) : Syscalls[i] = n THEN "none" ELSE t[n]]

\* The first number someone else holds; past the end when there is none.
FirstTaken(t) ==
    LET taken == {i \in 1 .. Len(Syscalls) : t[Syscalls[i]] # "none"}
    IN IF taken = {} THEN Len(Syscalls) + 1 ELSE CHOOSE i \in taken : \A j \in taken : i <= j

vm_host_install_platform ==
    /\ platformInstalls < MaxPlatformInstalls /\ fmtCall.kind = "none"
    /\ platformInstalls' = platformInstalls + 1
    /\ LET k == FirstTaken(ecallTable)
           reached == FoldLeft(LAMBDA t, n : RegisterCall(t, n),
                               ecallTable, SubSeq(Syscalls, 1, k - 1))
       IN ecallTable' = IF k > Len(Syscalls) THEN reached ELSE Unregister(reached, k)
    /\ UNCHANGED formatvars

NoCall == [kind |-> "none", fmt |-> <<>>, args |-> <<>>, argc |-> 0, cap |-> 0]

\* Another bridge may have taken some of the numbers before.
Tables(who) == [{Syscalls[i] : i \in 1 .. Len(Syscalls)} -> who]

\* Numbers may have been taken by others before the installation.
PlatformStart(who) ==
    /\ fmtCall = NoCall /\ fmtBuf = <<Fill>> /\ fmtHost = <<>> /\ fmtResult = 0
    /\ ecallTable \in Tables(who)
    /\ platformInstalls = 0
PlatformInit == PlatformStart({"none", "other"})

PlatformNext == Format \/ vm_host_install_platform

-----------------------------------------------------------------------------
(* Reference: what C's printf prints for a directive.                       *)

CNumber(d, w, prec, prefix, digits, v) ==
    LET base == IF v = 0 /\ prec = 0 THEN <<>> ELSE digits
        zeroed == Chars(48, prec - Len(base)) \o base
        body == IF d.conv = "o" /\ "#" \in d.flags /\ (zeroed = <<>> \/ Head(zeroed) # 48)
                THEN <<48>> \o zeroed ELSE zeroed
        pre == IF d.conv = "o" THEN <<>> ELSE prefix
        gap == w - Len(pre) - Len(body)
    IN IF "-" \in d.flags THEN pre \o body \o Chars(Space, gap)
       ELSE IF "0" \in d.flags /\ prec < 0 THEN pre \o Chars(48, gap) \o body
       ELSE Chars(Space, gap) \o pre \o body

CDirective(d0, w0, prec, v) ==
    LET d == IF w0 < 0 THEN [d0 EXCEPT !.flags = @ \cup {"-"}] ELSE d0
        w == IF w0 < 0 THEN -w0 ELSE w0
        s == ToSigned(v)
    IN IF d.conv = "d"
       THEN CNumber(d, w, prec, SignOf(d, v), fmt_uint[IF s < 0 THEN -s ELSE s, 10, FALSE], v)
       ELSE CNumber(d, w, prec, PrefixOf(d, v), fmt_uint[v, BaseOf(d.conv), d.conv = "X"], v)

IsNumeric(d) == d.conv \in {"d", "u", "x", "X", "o"}

\* Where the formatter departs from C: '0' with a precision drops the padding,
\* a zero printed with precision 0 keeps its digit, '#' with %o and a precision
\* adds a digit too many, and a negative '*' width is ignored.
Departs(d, w, prec, v) ==
    \/ "0" \in d.flags /\ prec >= 0
    \/ v = 0 /\ prec = 0
    \/ "#" \in d.flags /\ d.conv = "o" /\ prec > 0
    \/ w < 0

\* One numeric directive prints what C's printf prints for every combination
\* of flags, width and precision other than those.
PrintsLikeC(strict) ==
    LET f == fmtCall.fmt
        d == f[1]
        args == SubSeq(fmtCall.args, 1, fmtCall.argc)
        w == WidthOf(d, args, 1)
        p == PrecisionOf(d, args, w.next)
        v == args[p.next]
    IN (fmtResult >= 0 /\ fmtCall.kind # "none" /\ Len(f) = 1 /\ IsNumeric(d)
            /\ p.next <= Len(args) /\ (strict \/ ~Departs(d, w.val, p.val, v)))
       => format_va(f, args) = CDirective(d, w.val, IF p.val < 0 THEN -1 ELSE p.val, v)

\* SYS_FORMAT_TO_BUF never writes past the guest's buffer, always terminates
\* what it wrote, keeps the longest prefix that fits, and reports the length
\* the whole text has; SYS_FORMAT_AND_WRITE reports the length of what went
\* out, and an error as soon as the host took less.
SinksExact ==
    (fmtResult >= 0 /\ fmtCall.kind # "none") =>
        LET text == format_va(fmtCall.fmt, SubSeq(fmtCall.args, 1, fmtCall.argc))
            cap == fmtCall.cap
        IN /\ fmtResult = Len(text)
           /\ fmtCall.kind = "fd" => fmtHost = text
           /\ fmtCall.kind = "buf" =>
                /\ fmtBuf[cap + 1] = Fill
                /\ cap > 0 => \E n \in 0 .. (cap - 1) :
                        /\ fmtBuf[n + 1] = 0
                        /\ SubSeq(fmtBuf, 1, n) = SubSeq(text, 1, n)
                        /\ n < Len(text) => n = cap - 1

\* A failed installation leaves the call table as it found it: no handler of
\* the module stays behind and nobody else's is taken away.
InstallAllOrNothing ==
    LET mine == {n \in DOMAIN ecallTable : ecallTable[n] = "platform"}
    IN mine = {} \/ mine = DOMAIN ecallTable

FormatExact == PrintsLikeC(FALSE) /\ SinksExact /\ InstallAllOrNothing

\* vm_host_platform.h lists the flags, width and precision of C's printf as
\* supported: the exceptions above show where they are not.
PrintfExact == PrintsLikeC(TRUE)

\* vm_host_platform.h: "a1 = buffer capacity in bytes (excluding null)".
CapExcludesNull ==
    (fmtCall.kind = "buf" /\ fmtResult >= 0 /\ fmtResult <= fmtCall.cap /\ fmtCall.cap > 0) =>
        SubSeq(fmtBuf, 1, fmtResult) = format_va(fmtCall.fmt, SubSeq(fmtCall.args, 1, fmtCall.argc))

-----------------------------------------------------------------------------
(***************************************************************************)
(* The configuration parser (util/inicfg.c). A line is what the parser     *)
(* tells apart after trimming: blank or comment, a section header, a       *)
(* key/value pair whose value may be followed by an inline comment, or one *)
(* of the malformed lines. Memory is the set of live allocations; any      *)
(* allocation may fail.                                                    *)
(***************************************************************************)

CONSTANTS Sections, Keys, Values, MaxLines, FirstCap

VARIABLE ini    \* [text, pos, entries, section, cap, heap, state, err]

Line == [k : {"blank", "noRb", "emptySection", "noEq", "emptyKey"}]
            \cup [k : {"section"}, s : Sections]
            \cup [k : {"pair"}, key : Keys, val : Values]
Malformed == {"noRb", "emptySection", "noEq", "emptyKey"}
NoSection == ""

IniInit == ini = [text |-> <<>>, pos |-> 0, entries |-> <<>>, section |-> NoSection, cap |-> 0,
                  heap |-> {}, state |-> "new", err |-> 0]

\* inicfg_parse_file reads the file into a buffer of its own and frees it whatever the parse
\* says; it fails on its own before anything is allocated for the result.
inicfg_parse_file ==
    /\ ini.state = "new"
    /\ \/ ini' = [ini EXCEPT !.state = "failed"]
       \/ \E n \in 0 .. MaxLines : \E t \in [1 .. n -> Line] :
             ini' = [ini EXCEPT !.text = t, !.heap = {"arena"}, !.state = "parsing"]

\* Frees the entries and the arena.
inicfg_destroy(c) == [c EXCEPT !.heap = {}, !.entries = <<>>]
Fail(c) == [inicfg_destroy(c) EXCEPT !.state = "failed", !.err = c.pos + 1]

\* Doubles the capacity when one more entry does not fit.
grow_entries(c) == IF Len(c.entries) + 1 > c.cap
                   THEN [c EXCEPT !.cap = IF @ = 0 THEN FirstCap ELSE 2 * @, !.heap = @ \cup {"entries"}]
                   ELSE c

inicfg_parse_string ==
    /\ ini.state = "parsing"
    /\ IF ini.pos = Len(ini.text) THEN ini' = [ini EXCEPT !.state = "parsed"]
       ELSE LET l == ini.text[ini.pos + 1]
                next == [ini EXCEPT !.pos = @ + 1]
            IN \/ l.k = "blank" /\ ini' = next
               \/ l.k \in Malformed /\ ini' = Fail(ini)
               \/ l.k = "section" /\ ini' = [next EXCEPT !.section = l.s]
               \/ /\ l.k = "pair"
                  /\ \/ Len(ini.entries) + 1 > ini.cap /\ ini' = Fail(ini)         \* out of memory
                     \/ ini' = [grow_entries(next) EXCEPT
                                  !.entries = Append(@, [section |-> ini.section, key |-> l.key,
                                                         value |-> l.val, line |-> ini.pos + 1])]

\* The first entry of the section and key.
inicfg_get(c, s, k) == LET hits == SelectSeq(c.entries, LAMBDA e : e.section = s /\ e.key = k)
                       IN IF hits = <<>> THEN {} ELSE {hits[1].value}

Close == ini.state = "parsed" /\ ini' = [inicfg_destroy(ini) EXCEPT !.state = "closed"]

IniNext == inicfg_parse_file \/ inicfg_parse_string \/ Close

\* The section a line belongs to, by the definition of the format.
SectionAt(t, i) == LET h == {j \in 1 .. i : t[j].k = "section"}
                   IN IF h = {} THEN NoSection ELSE t[CHOOSE j \in h : \A m \in h : m <= j].s

\* A parsed file answers every lookup with the first value given for the key in that section,
\* in however many pieces the section comes; a file is refused at its first malformed line, or
\* for lack of memory before it, and a refused or closed file leaves no allocation behind.
ConfigExact ==
    /\ ini.state = "parsed" =>
         /\ \A i \in DOMAIN ini.text : ini.text[i].k \notin Malformed
         /\ Len(ini.entries) <= ini.cap
         /\ \A s \in Sections \cup {NoSection} : \A k \in Keys :
              LET at == {i \in DOMAIN ini.text : /\ ini.text[i].k = "pair" /\ ini.text[i].key = k
                                                 /\ SectionAt(ini.text, i) = s}
              IN inicfg_get(ini, s, k) = IF at = {} THEN {}
                                         ELSE {ini.text[CHOOSE i \in at : \A j \in at : i <= j].val}
    /\ ini.state \in {"failed", "closed"} => ini.heap = {}
    /\ ini.state = "failed" /\ ini.err > 0 => \A i \in 1 .. ini.err - 1 : ini.text[i].k \notin Malformed
=============================================================================
