------------------------------ MODULE Console ------------------------------
(***************************************************************************)
(* The console of a guest: the host's stdio bridge (src/vm/                *)
(* vm_host_stdio.c: the tty's raw mode, the per-VM transport table, the    *)
(* read and write handlers) and the TCP transport of the embedding API     *)
(* (src/mgapi/tcp_listen.c: accept, the telnet filter, the newline         *)
(* translation, Ctrl-C).                                                   *)
(*                                                                         *)
(* Bytes are strings: "iac", "se", "sb", "will", "do" and "dont" are the   *)
(* telnet bytes (WONT behaves as DONT), "cr" and "lf" the line ends, "etx" *)
(* is 0x03.  A call that changes nothing (a read of an idle transport, a   *)
(* write to the stub, -EBADF, -EFAULT) is not an action.                   *)
(***************************************************************************)
EXTENDS Naturals, Sequences, FiniteSets, SequencesExt

CONSTANTS
    Shell, Other,   \* two VM ids; programs of the shell run in Other
    Sends,          \* what a client may send, sequences of bytes
    Writes,         \* what a guest may write, sequences of bytes
    ReadCaps,       \* the sizes of the guest's reads
    PeekCap,        \* how far check_for_ctrlc_kill looks (32 in the code)
    MaxClients,     \* bound on the connections
    MaxWritten,     \* bound on the bytes written to one client
    MaxInstalls,    \* bound on the installs of the stdio bridge
    ShellMayExit    \* the shell VM may exit and its id be reused

ASSUME ConsoleAssumption ==
    /\ Shell # Other /\ PeekCap \in Nat \ {0} /\ ReadCaps \subseteq Nat \ {0}
    /\ {MaxClients, MaxWritten, MaxInstalls} \subseteq Nat /\ ShellMayExit \in BOOLEAN

VARIABLES
    tty,            \* external: the mode of the host's terminal
    g_termios,      \* [saved, orig]
    installed,      \* the handlers are registered with the router
    installs,       \* ghost: number of installs
    transport,      \* g_transport_by_vm: "none", "stub" or "tcp" per VM
    runs,           \* what each VM id runs: "none", "shell", "child", "stranger"
    ctx,            \* TcpCtx: [listening, client, iac_state, iac_verb, prev_was_cr]
    sock,           \* external: the client's end, [toSend, in, closed, out, replies]
    clients,        \* ghost: number of connections so far
    consumed,       \* ghost: raw bytes of this client the filter has seen
    got,            \* ghost: bytes of this client guests have read
    wrote,          \* ghost: bytes guests wrote to this client
    told,           \* ghost: the last write, <<bytes asked, result>>
    killedBy        \* ghost: the raw bytes drained by the last kill, after consumed

ttyvars == <<tty, g_termios, installed, installs>>
ghostvars == <<clients, consumed, got, wrote, told, killedBy>>
consolevars == <<ttyvars, transport, runs, ctx, sock, ghostvars>>

ConsoleVms == {Shell, Other}
NoSocket == [toSend |-> <<>>, in |-> <<>>, closed |-> TRUE, out |-> <<>>, replies |-> <<>>]

ConsoleInit ==
    /\ tty = "cooked" /\ g_termios = [saved |-> FALSE, orig |-> "cooked"]
    /\ installed = FALSE /\ installs = 0
    /\ transport = [v \in ConsoleVms |-> "none"]
    /\ runs = [v \in ConsoleVms |-> IF v = Shell THEN "shell" ELSE "none"]
    /\ ctx = [listening |-> FALSE, client |-> FALSE, iac_state |-> 0, iac_verb |-> "", prev_was_cr |-> FALSE]
    /\ sock = NoSocket
    /\ clients = 0 /\ consumed = <<>> /\ got = <<>> /\ wrote = <<>> /\ told = <<0, 0>> /\ killedBy = <<>>

-----------------------------------------------------------------------------
(* The tty. *)

\* Saves the mode it finds, whatever it is.
enable_raw_mode ==
    /\ g_termios' = [saved |-> TRUE, orig |-> tty]
    /\ tty' = "raw"

\* Raw mode is applied before the handlers are registered; a second bridge
\* on the same router fails there.
vm_host_install_stdio_ex ==
    /\ installs < MaxInstalls
    /\ installs' = installs + 1
    /\ \/ enable_raw_mode
       \/ UNCHANGED <<tty, g_termios>>
    /\ installed' = TRUE
    /\ UNCHANGED <<transport, runs, ctx, sock, ghostvars>>

disable_raw_mode ==
    /\ g_termios.saved
    /\ tty' = g_termios.orig
    /\ g_termios' = [g_termios EXCEPT !.saved = FALSE]

\* SYS_TTY_SET_RAW and the TUI, for a host with no default transport.
vm_host_stdio_set_raw_mode ==
    /\ installed
    /\ \/ ~g_termios.saved /\ enable_raw_mode
       \/ disable_raw_mode
    /\ UNCHANGED <<installed, installs, transport, runs, ctx, sock, ghostvars>>

-----------------------------------------------------------------------------
(* The listener. *)

mgapi_tcp_listen_init ==
    /\ ~ctx.listening /\ runs[Shell] # "none"
    /\ ctx' = [ctx EXCEPT !.listening = TRUE, !.client = FALSE]
    /\ transport' = [transport EXCEPT ![Shell] = "stub"]
    /\ UNCHANGED <<ttyvars, runs, sock, ghostvars>>

mgapi_tcp_listen_shutdown ==
    /\ ctx.listening
    /\ ctx' = [ctx EXCEPT !.listening = FALSE, !.client = FALSE]
    /\ sock' = NoSocket
    /\ UNCHANGED <<ttyvars, transport, runs, ghostvars>>

\* The next client; the one before it is gone.
try_accept ==
    /\ ctx.listening /\ ~ctx.client /\ clients < MaxClients
    /\ clients' = clients + 1
    /\ \E s \in Sends : sock' = [NoSocket EXCEPT !.toSend = s, !.closed = FALSE]
    /\ ctx' = [ctx EXCEPT !.client = TRUE, !.iac_state = 0, !.iac_verb = "", !.prev_was_cr = FALSE]
    /\ transport' = [transport EXCEPT ![Shell] = "tcp"]
    /\ consumed' = <<>> /\ got' = <<>> /\ wrote' = <<>> /\ killedBy' = <<>>
    /\ UNCHANGED <<ttyvars, runs, told>>

\* External: a byte arrives, or the client closes its end.
ClientSends ==
    /\ ~sock.closed /\ sock.toSend # <<>>
    /\ sock' = [sock EXCEPT !.in = Append(@, Head(sock.toSend)), !.toSend = Tail(@)]
    /\ UNCHANGED <<ttyvars, transport, runs, ctx, ghostvars>>

ClientCloses ==
    /\ ~sock.closed
    /\ sock' = [sock EXCEPT !.closed = TRUE, !.toSend = <<>>]
    /\ UNCHANGED <<ttyvars, transport, runs, ctx, ghostvars>>

-----------------------------------------------------------------------------
(* The telnet filter. *)

Verbs == {"will", "do", "dont"}
Refusal == [v \in {"will", "do"} |-> IF v = "do" THEN "wont" ELSE "dont"]

\* One raw byte; f = [state, verb, out, replies].
FilterByte(f, b) ==
    CASE f.state = 0 -> IF b = "iac" THEN [f EXCEPT !.state = 1] ELSE [f EXCEPT !.out = Append(@, b)]
      [] f.state = 1 -> IF b = "iac" THEN [f EXCEPT !.state = 0, !.out = Append(@, b)]
                        ELSE IF b \in Verbs THEN [f EXCEPT !.state = 2, !.verb = b]
                        ELSE [f EXCEPT !.state = IF b = "sb" THEN 3 ELSE 0]
      [] f.state = 2 -> [f EXCEPT !.state = 0,
                                  !.replies = IF f.verb \in DOMAIN Refusal
                                              THEN Append(@, <<Refusal[f.verb], b>>) ELSE @]
      [] f.state = 3 -> [f EXCEPT !.state = IF b = "iac" THEN 4 ELSE 3]
      [] f.state = 4 -> [f EXCEPT !.state = IF b = "se" THEN 0 ELSE IF b = "iac" THEN 4 ELSE 3]

telnet_filter(raw) ==
    FoldLeft(FilterByte, [state |-> ctx.iac_state, verb |-> ctx.iac_verb, out |-> <<>>, replies |-> <<>>], raw)

\* The VM whose turn it is: the shell is parked while its child runs.
Reader == IF runs[Other] = "child" THEN Other ELSE Shell

\* handle_read of a VM bound to the socket; an orderly close is told once.
tcp_t_read(cap) ==
    IF sock.in # <<>>
    THEN LET n == IF cap < Len(sock.in) THEN cap ELSE Len(sock.in)
             raw == SubSeq(sock.in, 1, n)
             f == telnet_filter(raw)
         IN  /\ ctx' = [ctx EXCEPT !.iac_state = f.state, !.iac_verb = f.verb]
             /\ sock' = [sock EXCEPT !.in = SubSeq(@, n + 1, Len(@)), !.replies = @ \o f.replies]
             /\ consumed' = consumed \o raw
             /\ got' = got \o f.out
    ELSE /\ sock.closed
         /\ ctx' = [ctx EXCEPT !.client = FALSE]
         /\ UNCHANGED <<sock, consumed, got>>

handle_read ==
    /\ runs[Reader] # "none" /\ transport[Reader] = "tcp" /\ ctx.client
    /\ \E cap \in ReadCaps : tcp_t_read(cap)
    /\ UNCHANGED <<ttyvars, transport, runs, clients, wrote, told, killedBy>>

-----------------------------------------------------------------------------
(* Output. *)

\* The bytes sent for a write, the new prev_was_cr and the count returned:
\* a run that ends at a newline is sent and not counted.
Translate(bytes) ==
    LET Step(a, b) ==
            IF b = "lf" /\ ~a.cr
            THEN [out |-> a.out \o <<"cr", "lf">>, cr |-> FALSE, total |-> a.total + 1, run |-> 0]
            ELSE [out |-> Append(a.out, b), cr |-> b = "cr", total |-> a.total, run |-> a.run + 1]
        done == FoldLeft(Step, [out |-> <<>>, cr |-> ctx.prev_was_cr, total |-> 0, run |-> 0], bytes)
    IN  [out |-> done.out, cr |-> done.cr, count |-> done.total + done.run]

tcp_t_write(bytes) ==
    LET t == Translate(bytes)
    IN  /\ sock' = [sock EXCEPT !.out = @ \o t.out]
        /\ ctx' = [ctx EXCEPT !.prev_was_cr = t.cr]
        /\ told' = <<Len(bytes), t.count>>

handle_write ==
    /\ runs[Reader] # "none" /\ transport[Reader] = "tcp" /\ ctx.client /\ ~sock.closed
    /\ \E bytes \in Writes :
        /\ Len(wrote) + Len(bytes) <= MaxWritten
        /\ tcp_t_write(bytes)
        /\ wrote' = wrote \o bytes
    /\ UNCHANGED <<ttyvars, transport, runs, clients, consumed, got, killedBy>>

-----------------------------------------------------------------------------
(* VMs come and go. *)

\* SYS_SPAWN_AND_WAIT: the child inherits the shell's transport.
Spawn ==
    /\ runs[Shell] = "shell" /\ runs[Other] = "none"
    /\ runs' = [runs EXCEPT ![Other] = "child"]
    /\ transport' = [transport EXCEPT ![Other] = transport[Shell]]
    /\ UNCHANGED <<ttyvars, ctx, sock, ghostvars>>

\* stdio_transport_unload_hook, when VM v is unloaded.
Unload(v) ==
    /\ runs[v] # "none"
    /\ v = Shell => ShellMayExit /\ runs[Other] = "none"
    /\ runs' = [runs EXCEPT ![v] = "none"]
    /\ transport' = [transport EXCEPT ![v] = "none"]
    /\ UNCHANGED <<ttyvars, ctx, sock, ghostvars>>

\* A VM that is not the shell takes the shell's id.
Reuse ==
    /\ runs[Shell] = "none"
    /\ runs' = [runs EXCEPT ![Shell] = "stranger"]
    /\ UNCHANGED <<ttyvars, transport, ctx, sock, ghostvars>>

\* The poll peeks at the socket; with a child to kill, everything up to the
\* first 0x03 is thrown away and the child is halted and reaped.
check_for_ctrlc_kill ==
    LET peek == SubSeq(sock.in, 1, IF PeekCap < Len(sock.in) THEN PeekCap ELSE Len(sock.in))
        hits == {i \in DOMAIN peek : peek[i] = "etx"}
        idx == CHOOSE i \in hits : \A j \in hits : i <= j
    IN  /\ ctx.listening /\ ctx.client /\ hits # {} /\ runs[Other] = "child"
        /\ sock' = [sock EXCEPT !.in = SubSeq(@, idx + 1, Len(@))]
        /\ killedBy' = consumed \o SubSeq(sock.in, 1, idx)
        /\ runs' = [runs EXCEPT ![Other] = "none"]
        /\ transport' = [transport EXCEPT ![Other] = "none"]
        /\ UNCHANGED <<ttyvars, ctx, clients, consumed, got, wrote, told>>

ConsoleNext ==
    \/ vm_host_install_stdio_ex \/ vm_host_stdio_set_raw_mode
    \/ mgapi_tcp_listen_init \/ mgapi_tcp_listen_shutdown \/ try_accept \/ check_for_ctrlc_kill
    \/ ClientSends \/ ClientCloses \/ handle_read \/ handle_write
    \/ Spawn \/ Reuse \/ \E v \in ConsoleVms : Unload(v)

ConsoleSpec == ConsoleInit /\ [][ConsoleNext]_consolevars

-----------------------------------------------------------------------------
(* Properties. *)

\* The data of a raw stream, and the refusals it calls for, read as a
\* sequence of telnet commands and not byte by byte.
RECURSIVE TelnetData(_), TelnetRefusals(_)
CommandLength(s) ==
    IF s[1] # "iac" THEN 1
    ELSE IF Len(s) = 1 THEN Len(s)
    ELSE IF s[2] \in Verbs THEN (IF Len(s) < 3 THEN Len(s) ELSE 3)
    ELSE IF s[2] = "sb"
         THEN LET ends == {k \in 4 .. Len(s) : s[k] = "se" /\ s[k - 1] = "iac"}
              IN  IF ends = {} THEN Len(s) ELSE CHOOSE k \in ends : \A j \in ends : k <= j
    ELSE 2

TelnetData(s) ==
    IF s = <<>> THEN <<>>
    ELSE LET n == CommandLength(s)
         IN  (IF s[1] # "iac" \/ (Len(s) > 1 /\ s[2] = "iac") THEN <<s[1]>> ELSE <<>>)
             \o TelnetData(SubSeq(s, n + 1, Len(s)))

TelnetRefusals(s) ==
    IF s = <<>> THEN <<>>
    ELSE LET n == CommandLength(s)
         IN  (IF n = 3 /\ s[2] \in {"do", "will"} THEN <<<<Refusal[s[2]], s[3]>>>> ELSE <<>>)
             \o TelnetRefusals(SubSeq(s, n + 1, Len(s)))

\* What guests read from a client is its stream without the telnet commands,
\* each negotiation is refused once, and what the client sees is what they
\* wrote with every bare newline turned into CR LF, however the stream was
\* cut into reads and writes and whichever VM made them.
StreamsTranslated ==
    /\ got = TelnetData(consumed)
    /\ ctx.client => sock.replies = TelnetRefusals(consumed)
    /\ ctx.client => sock.out = FlattenSeq([i \in 1 .. Len(wrote) |->
            IF wrote[i] = "lf" /\ (i = 1 \/ wrote[i - 1] # "cr") THEN <<"cr", "lf">> ELSE <<wrote[i]>>])

\* Restoring the saved mode gives the terminal back as it was before the
\* bridge (restore_termios_atexit, disable_raw_mode).
TtyRestored == (IF g_termios.saved THEN g_termios.orig ELSE tty) = "cooked"

\* The console of guests and the tty of the host.
ConsoleExact == StreamsTranslated /\ TtyRestored

\* A write that was sent in full reports its length (tcp_t_write).
WriteReported == told[1] = told[2]

\* A running program is killed because the user typed Ctrl-C
\* (check_for_ctrlc_kill).
OnlyCtrlCKills == killedBy # <<>> => \E i \in DOMAIN TelnetData(killedBy) : TelnetData(killedBy)[i] = "etx"

\* The socket belongs to the shell and to the program it runs (try_accept).
SocketIsShells == \A v \in ConsoleVms : transport[v] = "tcp" => runs[v] \in {"shell", "child"}
=============================================================================
