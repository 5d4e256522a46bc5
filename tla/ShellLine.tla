------------------------------ MODULE ShellLine ------------------------------
(***************************************************************************)
(* The raw-mode line editor of the guest shell: readline_raw with its      *)
(* escape sequences, command history and tab completion, one action per    *)
(* byte that sys_read returns. The working directory and what lies in it   *)
(* do not change while a line is edited.                                   *)
(*                                                                         *)
(* shown is what the terminal's row holds after the prompt, listed the     *)
(* candidates the last byte printed; recent is the list of lines entered,  *)
(* kept to compare the history ring with.                                  *)
(***************************************************************************)
EXTENDS Naturals, Sequences, SequencesExt, FiniteSetsExt

-----------------------------------------------------------------------------
(***************************************************************************)
(* The strings of the guest shell (examples/05_shell/shell.c): how a typed *)
(* path becomes an absolute one, how a line is cut into words, and what    *)
(* belongs to the synthetic directory /builtin.                            *)
(*                                                                         *)
(* A string is a sequence of characters. "B" is the one character that     *)
(* stands for the name builtin, and "ls", "cp" ... for those of commands;  *)
(* other names are spelled with few.                                       *)
(***************************************************************************)

CONSTANTS
    PathCap,        \* PATH_CAP: bytes of a path, with its terminator
    CwdCap,         \* CWD_CAP
    MaxArgv,        \* slots of argv
    BuiltinNames    \* g_builtins, a sequence of strings

ASSUME ShellPathAssumption ==
    /\ PathCap \in Nat /\ CwdCap \in Nat /\ MaxArgv \in Nat
    /\ PathCap > 2 /\ CwdCap > 2 /\ MaxArgv > 2
    /\ BuiltinNames \in Seq(Seq(STRING))

Failed == <<"failed">>      \* a result of -1: no string holds this character

g_builtins == ToSet(BuiltinNames)

\* At most cap - 1 characters are copied.
scpy(src, cap) == SubSeq(src, 1, Min({Len(src), cap - 1}))

StartsWith(s, prefix) == Len(prefix) <= Len(s) /\ SubSeq(s, 1, Len(prefix)) = prefix
From(s, i) == SubSeq(s, i, Len(s))
Blank(c) == c = " "
Ascending(S) == [k \in 1 .. Cardinality(S) |-> CHOOSE i \in S : Cardinality({j \in S : j <= i}) = k]

\* The index of the last slash, or 0.
last_slash(path) == Max({0} \cup {i \in 1 .. Len(path) : path[i] = "/"})

join_paths(base, rest) ==
    LET stripped == IF Len(base) > 1 /\ Last(base) = "/" THEN Front(base) ELSE base
        sep == IF base = <<"/">> THEN <<>> ELSE <<"/">>
        tail == IF rest # <<>> /\ Head(rest) = "/" THEN Tail(rest) ELSE rest
    IN  IF Len(stripped) + Len(sep) + Len(tail) + 1 > PathCap THEN Failed
        ELSE IF tail # <<>> THEN stripped \o sep \o tail
        ELSE IF stripped = <<>> THEN <<"/">>
        ELSE stripped

resolve_path(cwd, in) ==
    LET s == last_slash(cwd)
        parent == IF s <= 1 THEN <<"/">> ELSE SubSeq(cwd, 1, s - 1)
    IN  IF in \in {<<>>, <<".">>} THEN scpy(cwd, PathCap)
        ELSE IF in = <<".", ".">> THEN scpy(parent, PathCap)
        ELSE IF StartsWith(in, <<".", ".", "/">>) THEN join_paths(parent, From(in, 4))
        ELSE IF Head(in) = "/" THEN scpy(in, PathCap)
        ELSE join_paths(cwd, in)

is_builtin_dir(path) == path \in {<<"/", "B">>, <<"/", "B", "/">>}

is_builtin_file(path) ==
    /\ StartsWith(path, <<"/", "B", "/">>)
    /\ Len(path) > 3 /\ "/" \notin ToSet(From(path, 4))

BuiltinName(path) == From(path, 4)

is_known_builtin(name) == name \in g_builtins

\* What reject_if_builtin answers; the wording of its message is left out.
reject_if_builtin(path) == is_builtin_dir(path) \/ is_builtin_file(path)

\* A partial path as the directory to search and the prefix to look for.
split_partial_path(cwd, partial) ==
    LET slash == last_slash(partial)
        dir == IF slash = 1 THEN <<"/">> ELSE SubSeq(partial, 1, Min({slash - 1, PathCap - 2}))
        resolved == resolve_path(cwd, dir)
    IN  IF slash = 0 THEN [dir |-> scpy(cwd, PathCap), leaf |-> scpy(partial, PathCap)]
        ELSE [dir |-> IF resolved = Failed THEN scpy(cwd, PathCap) ELSE resolved,
              leaf |-> scpy(From(partial, slash + 1), PathCap)]

\* The offset at which the word under the cursor, at the end of buf, begins.
find_token_start(buf) == Max({0} \cup {i \in 1 .. Len(buf) : Blank(buf[i])})

\* Where the words of a line begin.
WordStarts(line) ==
    {i \in 1 .. Len(line) : ~Blank(line[i]) /\ (i = 1 \/ Blank(line[i - 1]))}

\* The number of words that a blank has ended before the cursor.
find_token_index(buf) ==
    Cardinality({i \in WordStarts(buf) : \E j \in i .. Len(buf) : Blank(buf[j])})

WordAt(line, i) ==
    SubSeq(line, i, Min({Len(line) + 1} \cup {j \in i .. Len(line) : Blank(line[j])}) - 1)

tokenize(line) ==
    LET starts == Ascending(WordStarts(line))
    IN  [k \in 1 .. Min({Len(starts), MaxArgv}) |-> WordAt(line, starts[k])]

-----------------------------------------------------------------------------
\* The names along a path, without empty ones and single dots.
Slashes(path) == {0, Len(path) + 1} \cup {i \in 1 .. Len(path) : path[i] = "/"}
PathNames(path) ==
    LET cuts == Ascending(Slashes(path))
        parts == [k \in 1 .. Len(cuts) - 1 |-> SubSeq(path, cuts[k] + 1, cuts[k + 1] - 1)]
    IN  SelectSeq(parts, LAMBDA n : n \notin {<<>>, <<".">>})

-----------------------------------------------------------------------------
CONSTANTS
    LineCap,        \* LINE_CAP: bytes of the buffer, with its terminator
    HistN,          \* HIST_N
    CompMaxCand,    \* COMP_MAX_CAND
    CompPoolBytes,  \* COMP_POOL_BYTES
    LineCwd,        \* g_cwd
    Entries,        \* directory -> what sys_readdir gives: a sequence of [name, dir]
    Typable,        \* bound: the lines that may be typed
    MaxSubmits      \* bound: lines entered

ASSUME ShellLineAssumption ==
    /\ LineCap \in Nat \ {0, 1} /\ HistN \in Nat \ {0} /\ MaxSubmits \in Nat
    /\ CompMaxCand \in Nat \ {0} /\ CompPoolBytes \in Nat
    /\ Len(LineCwd) < CwdCap /\ \A l \in Typable : Len(l) < LineCap

VARIABLES
    buf,            \* buf[0 .. pos)
    esc,            \* EscState
    hist_buf, hist_count, hist_head,
    hist_pos,       \* HistAtDraft, or how far back the recalled line is
    draft,
    last_was_tab,
    shown, listed, recent, submits, eof

linevars == <<buf, esc, hist_buf, hist_count, hist_head, hist_pos, draft, last_was_tab,
              shown, listed, recent, submits, eof>>
histvars == <<hist_buf, hist_count, hist_head>>

EscState == {"ESC_NONE", "ESC_INTRO", "ESC_CSI"}
HistAtDraft == HistN        \* (unsigned)-1: no entry lies that far back

LineInit ==
    /\ buf = <<>> /\ esc = "ESC_NONE" /\ hist_pos = HistAtDraft /\ draft = <<>>
    /\ hist_buf = [i \in 0 .. HistN - 1 |-> <<>>] /\ hist_count = 0 /\ hist_head = 0
    /\ last_was_tab = FALSE /\ shown = <<>> /\ listed = <<>>
    /\ recent = <<>> /\ submits = 0 /\ eof = FALSE

-----------------------------------------------------------------------------
(* History *)

history_get(i) == hist_buf[(hist_head + HistN - 1 - i) % HistN]

\* Entered by _start once readline_raw has returned; an empty line is not.
history_add(line) ==
    /\ hist_buf' = IF line = <<>> THEN hist_buf
                   ELSE [hist_buf EXCEPT ![hist_head] = scpy(line, LineCap)]
    /\ hist_head' = IF line = <<>> THEN hist_head ELSE (hist_head + 1) % HistN
    /\ hist_count' = IF line = <<>> THEN hist_count ELSE Min({hist_count + 1, HistN})
    /\ recent' = IF line = <<>> THEN recent ELSE Append(recent, line)

\* The lines cmd_history prints, oldest first.
cmd_history == [k \in 1 .. hist_count |-> history_get(hist_count - k)]

\* A buffer replaced and its row drawn again.
set_line(src) ==
    /\ buf' = scpy(src, LineCap)
    /\ shown' = buf'

-----------------------------------------------------------------------------
(* Completion *)

PoolUsed(cl) == FoldSeq(LAMBDA e, n : n + Len(e.name) + 1, 0, cl)

comp_add(cl, e) ==
    IF \/ Len(cl) >= CompMaxCand
       \/ PoolUsed(cl) + Len(e.name) + 1 > CompPoolBytes
       \/ \E i \in DOMAIN cl : cl[i].name = e.name
    THEN cl ELSE Append(cl, e)

comp_add_all(cl, es) == FoldLeft(comp_add, cl, es)

comp_collect_dir(cl, dir, prefix) ==
    IF dir \notin DOMAIN Entries THEN cl
    ELSE comp_add_all(cl, SelectSeq(Entries[dir],
            LAMBDA e : /\ Head(e.name) = "." => prefix # <<>> /\ Head(prefix) = "."
                       /\ StartsWith(e.name, prefix)))

\* The longest prefix of the first candidate that all the others share.
comp_common_prefix_len(cl) ==
    Max({k \in 0 .. Len(cl[1].name) :
            \A i \in DOMAIN cl : StartsWith(cl[i].name, SubSeq(cl[1].name, 1, k))})

\* What can stand in a directory, and how it begins: the candidates of a word
\* that names a directory, which may be the synthetic one or the root.
InDir(dir, leaf) ==
    LET Fits(e) == StartsWith(e.name, leaf)
    IN  IF is_builtin_dir(dir)
        THEN comp_add_all(<<>>, SelectSeq([i \in DOMAIN BuiltinNames |->
                                            [name |-> BuiltinNames[i], dir |-> FALSE]], Fits))
        ELSE comp_add_all(comp_collect_dir(<<>>, dir, leaf),
                          IF dir = <<"/">> THEN SelectSeq(<<[name |-> <<"B">>, dir |-> TRUE]>>, Fits)
                          ELSE <<>>)

SplitWord(split) == [leaf |-> split.leaf, list |-> InDir(split.dir, split.leaf)]

\* The candidates for the word under the cursor, and the prefix they extend.
CandidatesFor(token) ==
    IF find_token_index(buf) = 0 /\ "/" \notin ToSet(token)
    THEN [leaf |-> token, list |-> comp_collect_dir(<<>>, LineCwd, token)]
    ELSE SplitWord(split_partial_path(LineCwd, token))

apply_completion(line, ext) ==
    IF Len(line) + Len(ext) + 1 >= LineCap THEN line ELSE line \o ext

WithMark(line, mark) == IF Len(line) + 1 < LineCap THEN Append(line, mark) ELSE line

\* The line extended by the characters of the first candidate up to the k-th.
ExtendTo(c, k) == apply_completion(buf, SubSeq(c.list[1].name, Len(c.leaf) + 1, k))

\* What one tab makes of the line, given the candidates.
try_complete(c) ==
    IF c.list = <<>> THEN [res |-> "COMP_NONE", line |-> buf]
    ELSE IF Len(c.list) = 1
    THEN [res |-> "COMP_EXTENDED",
          line |-> WithMark(ExtendTo(c, Len(c.list[1].name)), IF c.list[1].dir THEN "/" ELSE " ")]
    ELSE IF comp_common_prefix_len(c.list) > Len(c.leaf)
    THEN [res |-> "COMP_EXTENDED", line |-> ExtendTo(c, comp_common_prefix_len(c.list))]
    ELSE [res |-> "COMP_AMBIGUOUS", line |-> buf]

-----------------------------------------------------------------------------
(* The bytes of readline_raw. Each is read with the buffer not full. *)

Reads == ~eof /\ Len(buf) < LineCap - 1 /\ listed' = <<>>
Ground == Reads /\ esc = "ESC_NONE"
Stay == UNCHANGED <<histvars, hist_pos, draft, recent, submits, eof>>
ForgetTab == last_was_tab' = FALSE

\* readline_raw returns and _start calls it again with the next prompt.
Return(line) ==
    /\ submits < MaxSubmits /\ submits' = submits + 1
    /\ history_add(line)
    /\ buf' = <<>> /\ shown' = <<>> /\ esc' = "ESC_NONE"
    /\ hist_pos' = HistAtDraft /\ draft' = <<>> /\ ForgetTab
    /\ UNCHANGED eof

Enter == Ground /\ Return(buf)

CtrlC == Ground /\ Return(<<>>)

\* The buffer is full: the line is taken without another byte being read.
Full == ~eof /\ Len(buf) >= LineCap - 1 /\ listed' = <<>> /\ Return(buf)

CtrlD ==
    /\ Ground
    /\ eof' = (buf = <<>>) /\ ForgetTab
    /\ UNCHANGED <<buf, shown, esc, histvars, hist_pos, draft, recent, submits>>

PrintableKey(c) ==
    /\ Ground /\ Append(buf, c) \in Typable
    /\ buf' = Append(buf, c) /\ shown' = Append(shown, c) /\ ForgetTab
    /\ Stay /\ UNCHANGED esc

Backspace ==
    /\ Ground
    /\ buf' = IF buf = <<>> THEN buf ELSE Front(buf)
    /\ shown' = IF buf = <<>> THEN shown ELSE Front(shown)
    /\ ForgetTab /\ Stay /\ UNCHANGED esc

CtrlL ==
    /\ Ground
    /\ shown' = buf /\ ForgetTab
    /\ Stay /\ UNCHANGED <<buf, esc>>

CtrlU ==
    /\ Ground
    /\ buf' = <<>> /\ shown' = <<>> /\ ForgetTab
    /\ Stay /\ UNCHANGED esc

OtherControl == Ground /\ ForgetTab /\ Stay /\ UNCHANGED <<buf, shown, esc>>

Completed(t, list) ==
    LET second == t.res = "COMP_AMBIGUOUS" /\ last_was_tab
    IN  /\ buf' = t.line
        /\ shown' = IF t.res = "COMP_EXTENDED" \/ second THEN t.line ELSE shown
        /\ listed' = IF second THEN list ELSE <<>>
        /\ last_was_tab' = (t.res = "COMP_AMBIGUOUS" /\ ~last_was_tab)

Tab ==
    /\ ~eof /\ Len(buf) < LineCap - 1 /\ esc = "ESC_NONE"
    /\ \E c \in {CandidatesFor(scpy(From(buf, find_token_start(buf) + 1), PathCap))} :
            Completed(try_complete(c), c.list)
    /\ Stay /\ UNCHANGED esc

EscByte ==
    /\ Ground
    /\ esc' = "ESC_INTRO"
    /\ Stay /\ UNCHANGED <<buf, shown, last_was_tab>>

\* The byte after ESC: [ or O, or any other.
Intro(opens) ==
    /\ Reads /\ esc = "ESC_INTRO"
    /\ esc' = IF opens THEN "ESC_CSI" ELSE "ESC_NONE"
    /\ Stay /\ UNCHANGED <<buf, shown, last_was_tab>>

CsiParam == Reads /\ esc = "ESC_CSI" /\ Stay /\ UNCHANGED <<buf, shown, esc, last_was_tab>>

CsiFinal == Reads /\ esc = "ESC_CSI" /\ esc' = "ESC_NONE" /\ ForgetTab

Up ==
    /\ CsiFinal /\ hist_count > 0
    /\ hist_pos' = IF hist_pos = HistAtDraft THEN 0 ELSE Min({hist_pos + 1, hist_count - 1})
    /\ draft' = IF hist_pos = HistAtDraft THEN scpy(buf, LineCap) ELSE draft
    /\ set_line(history_get(hist_pos'))
    /\ UNCHANGED <<histvars, recent, submits, eof>>

Down ==
    /\ CsiFinal /\ hist_pos # HistAtDraft
    /\ hist_pos' = IF hist_pos = 0 THEN HistAtDraft ELSE hist_pos - 1
    /\ set_line(IF hist_pos = 0 THEN draft ELSE history_get(hist_pos - 1))
    /\ UNCHANGED <<histvars, draft, recent, submits, eof>>

\* A final byte that is not an arrow, or an arrow with nowhere to go.
OtherFinal == CsiFinal /\ Stay /\ UNCHANGED <<buf, shown>>

LineNext ==
    \/ Enter \/ CtrlC \/ Full \/ CtrlD \/ Backspace \/ CtrlL \/ CtrlU \/ OtherControl \/ Tab
    \/ \E c \in {l[Len(l)] : l \in Typable \ {<<>>}} : PrintableKey(c)
    \/ EscByte \/ (\E opens \in BOOLEAN : Intro(opens))
    \/ CsiParam \/ Up \/ Down \/ OtherFinal

LineSpec == LineInit /\ [][LineNext]_linevars

-----------------------------------------------------------------------------
(* What a user relies on. *)

\* The row the user sees is the line that Enter will run (readline_raw's echo,
\* "\b \b" and redraws against buf), also after recalls and completions.
RowShowsLine == shown = buf

\* The ring holds the last HIST_N non-empty lines, newest last (history_add,
\* history_get), and a recalled position is one of them.
HistoryExact ==
    /\ cmd_history = SubSeq(recent, Len(recent) - Min({Len(recent), HistN}) + 1, Len(recent))
    /\ hist_pos # HistAtDraft => hist_pos < hist_count

\* Every string that could stand in the place of the word under the cursor:
\* files of the working directory, or of the directory typed before the last
\* slash, or builtins.
Fitting ==
    LET word == From(buf, find_token_start(buf) + 1)
        command == find_token_index(buf) = 0 /\ "/" \notin ToSet(word)
        dir == IF command THEN LineCwd ELSE split_partial_path(LineCwd, word).dir
        leaf == From(word, last_slash(word) + 1)
        there == (IF dir \in DOMAIN Entries THEN ToSet(Entries[dir]) ELSE {})
                    \cup (IF ~command /\ is_builtin_dir(dir)
                          THEN {[name |-> n, dir |-> FALSE] : n \in g_builtins} ELSE {})
                    \cup (IF ~command /\ dir = <<"/">> THEN {[name |-> <<"B">>, dir |-> TRUE]} ELSE {})
    IN  {[rest |-> From(e.name, Len(leaf) + 1), dir |-> e.dir] :
            e \in {x \in there : StartsWith(x.name, leaf) /\ (Head(x.name) # "." \/ StartsWith(leaf, <<".">>))}}

\* A tab adds what the typed prefix determines and nothing else: the rest of
\* the only name that fits with its mark, or all that the names that fit have
\* in common (try_complete). always asks it also where the name does not fit
\* in the buffer.
TabAdds(always) ==
    LET added == From(buf', Len(buf) + 1)
        Shared(s) == \A f \in Fitting : StartsWith(f.rest, s)
        only == CHOOSE f \in Fitting : TRUE
        mark == IF only.dir THEN "/" ELSE " "
    IN  /\ StartsWith(buf', buf)
        /\ Fitting = {} => added = <<>>
        /\ Cardinality(Fitting) = 1 /\ (always \/ Len(buf) + Len(only.rest) + 1 < LineCap)
            => added = only.rest \o (IF Len(buf) + Len(only.rest) + 1 < LineCap THEN <<mark>> ELSE <<>>)
        /\ Cardinality(Fitting) > 1
            => /\ Shared(added)
               /\ \A f \in Fitting : \A k \in 1 .. Len(f.rest) :
                    Shared(SubSeq(f.rest, 1, k)) /\ Len(buf) + k + 1 < LineCap => k <= Len(added)

\* Up keeps the line in progress, so that Down can give it back (draft).
DraftKept == hist_pos = HistAtDraft /\ hist_pos' # HistAtDraft => draft' = buf

\* What the editor of readline_raw promises its user, at every byte read.
EditorExact ==
    [][RowShowsLine' /\ HistoryExact' /\ DraftKept /\ (Tab => TabAdds(FALSE))]_linevars

\* Claimed by comments, and not so. A full buffer waits for one more byte:
LineEndsOnKey == [][submits' # submits => Len(buf) < LineCap - 1]_linevars
\* a tab that finds one name completes it or leaves the line alone:
CompletionWhole == [][Tab => TabAdds(TRUE)]_linevars
=============================================================================
