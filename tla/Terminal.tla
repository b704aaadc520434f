------------------------------ MODULE Terminal ------------------------------
(***************************************************************************)
(* badge/apps/ssh/terminal.py as the session screen drives it (app.py      *)
(* 386-395): a typed key is drawn at once (note_tx), output of the server  *)
(* is fed in chunks of any length, and what the server echoes is skipped.  *)
(* A character is one of the classes the code tells apart:                 *)
(*   "a", "b"  printable, and what ends an escape sequence                 *)
(*   "1"       printable, a parameter of an escape sequence                *)
(*   "["       printable, opens a sequence after "esc"                     *)
(*   "nl", "cr", "del" (also backspace), "ctl" (other control), "esc"      *)
(* All are one byte long; text beyond ASCII is left out.  Lists of Python  *)
(* and strings are sequences.                                              *)
(***************************************************************************)
EXTENDS BoundedDeque, SequencesExt

CONSTANTS
    Cols, Rows, MaxLines, EchoBuf,  \* the sizes at the top of terminal.py
    Keys,       \* what the keys send, keymap.py
    Outputs,    \* what the server sends of its own accord at a time
    MaxTyped,   \* bound: number of keys
    MaxOutput   \* bound: number of outputs

ASSUME TerminalAssumption ==
    /\ Cols \in Nat \ {0} /\ Rows \in Nat \ {0} /\ MaxLines \in Nat /\ MaxLines >= Rows
    /\ EchoBuf \in Nat \ {0, 1} /\ MaxTyped \in Nat /\ MaxOutput \in Nat

Letters   == {"a", "b"}
Printable == Letters \cup {"1", "["}
Chars     == Printable \cup {"nl", "cr", "del", "ctl", "esc"}

\* A control sequence as servers send it: opened, parameters, one final letter.
IsSequence(o) ==
    /\ Len(o) >= 3 /\ o[1] = "esc" /\ o[2] = "["
    /\ \A i \in 3..Len(o) - 1 : o[i] = "1"
    /\ o[Len(o)] \in Letters

\* Text, in which an esc may begin an escape of another kind, as ESC = or ESC ( B:
\* it is followed by something else than the "[" that opens a control sequence.
IsText(o) == \A i \in DOMAIN o : o[i] = "esc" => i < Len(o) /\ o[i + 1] # "["

\* The server sends text, or a whole control sequence, at a time.
ASSUME WireAssumption ==
    /\ \A data \in Keys : data \in Seq(Chars)
    /\ \A o \in Outputs :
          /\ o \in Seq(Chars) /\ o # <<>>
          /\ IsSequence(o) \/ IsText(o)

VARIABLES
    lines,      \* _lines, a deque of MaxLines
    partial,    \* _partial
    tx_echo,    \* _tx_echo, the echoes still expected
    echoing,    \* server: whether it echoes what it gets (not for a password)
    stream,     \* server: sent and not fed yet, as [c, of]
    typed,      \* history: what note_tx put into _tx_echo
    skipped,    \* history: what feed took for an echo
    shown,      \* history: how often each character was drawn
    outputs,    \* history: how often the server sent each of its own accord
    typings,    \* number of keys typed
    sendings,   \* number of outputs
    honest,     \* history: every key so far is echoed as itself
    trimmed,    \* history: echoes were forgotten because there were too many
    split,      \* history: a chunk ended inside a control sequence
    leaked      \* history: a part of a control sequence was drawn

view    == <<lines, partial, tx_echo>>
history == <<typed, skipped, shown, outputs, honest, trimmed, split, leaked>>
vars == <<view, echoing, stream, typings, sendings, history>>

-----------------------------------------------------------------------------
(* _strip_ansi                                                             *)

\* Mutant: the "[" that opens the parameters may end the sequence.
Scanner_ShortIntro(d) ==
    LET at[i \in 0..Len(d)] ==
            IF i = 0 THEN "text"
            ELSE LET was == at[i - 1] IN
                 CASE was = "text" ->
                        IF d[i] = "esc" /\ i < Len(d) /\ d[i + 1] = "[" THEN "params" ELSE "text"
                   [] OTHER -> IF d[i] \in Letters \cup {"["} THEN "text" ELSE "params"
    IN at

\* Where the scanner is after i characters: in text, past the esc of a
\* sequence, or in its parameters.
Scanner(d) ==
    LET at[i \in 0..Len(d)] ==
            IF i = 0 THEN "text"
            ELSE LET was == at[i - 1] IN
                 CASE was = "text" ->
                        IF d[i] = "esc" /\ i < Len(d) /\ d[i + 1] = "[" THEN "intro" ELSE "text"
                   [] was = "intro" -> "params"
                   [] OTHER -> IF d[i] \in Letters \cup {"["} THEN "text" ELSE "params"
    IN at

\* The positions of d that are text, carriage returns left out.
TextAt(d) ==
    LET at == Scanner(d)
    IN  {i \in DOMAIN d : at[i - 1] = "text" /\ at[i] = "text" /\ d[i] # "cr"}

StripAnsi(d) ==
    LET text == TextAt(d)
        out[i \in 0..Len(d)] ==
            IF i = 0 THEN <<>> ELSE IF i \in text THEN Append(out[i - 1], d[i]) ELSE out[i - 1]
    IN  out[Len(d)]

-----------------------------------------------------------------------------
(* The screen: [lines, partial].                                           *)

\* _append_wrapped, and the same cuts in visible_lines: pieces of at most
\* Cols, the last one never empty unless the line is.
Pieces(s) ==
    LET n == IF s = <<>> THEN 1 ELSE (Len(s) + Cols - 1) \div Cols
    IN  [j \in 1..n |-> SubSeq(s, (j - 1) * Cols + 1,
                               IF j * Cols < Len(s) THEN j * Cols ELSE Len(s))]

\* Mutant: the line is committed as it is.
Commit_NoWrap(t) == IF t.partial = <<>> THEN t
                    ELSE [lines |-> PushAll(t.lines, <<t.partial>>, MaxLines), partial |-> <<>>]

\* _commit_partial.  An empty line is not committed.
Commit(t) == IF t.partial = <<>> THEN t
             ELSE [lines |-> PushAll(t.lines, Pieces(t.partial), MaxLines), partial |-> <<>>]

\* _apply_char
ApplyChar(t, c) ==
    CASE c = "nl" -> Commit(t)
      [] c = "del" /\ t.partial # <<>> -> [t EXCEPT !.partial = Front(@)]
      [] c \in Printable -> [t EXCEPT !.partial = Append(@, c)]
      [] OTHER -> t

\* _apply_text
ApplyText(text) ==
    LET after[i \in 0..Len(text)] ==
            IF i = 0 THEN [lines |-> lines, partial |-> partial] ELSE ApplyChar(after[i - 1], text[i])
    IN  after[Len(text)]

\* How often c is in s.
Times(c, s) == Cardinality({i \in DOMAIN s : s[i] = c})

Draw(text) ==
    /\ LET t == ApplyText(text) IN lines' = t.lines /\ partial' = t.partial
    /\ shown' = [c \in Chars |-> shown[c] + Times(c, text)]

\* visible_lines: the last Rows, blank ones above.
VisibleLines ==
    LET buf == lines \o (IF partial = <<>> THEN <<>> ELSE Pieces(partial))
        pad == [i \in 1..Rows |-> <<>>]
    IN  SubSeq(pad \o buf, Len(buf) + 1, Len(buf) + Rows)

-----------------------------------------------------------------------------
(* note_tx and feed                                                        *)

\* Mutant: the latest echo is expected first.
Expect_Front(enc) ==
    LET full == Len(tx_echo) + Len(enc) > EchoBuf
        half == EchoBuf \div 2
        kept == IF full /\ Len(tx_echo) > half
                THEN SubSeq(tx_echo, Len(tx_echo) - half + 1, Len(tx_echo)) ELSE tx_echo
    IN  /\ tx_echo' = enc \o kept
        /\ trimmed' = (trimmed \/ kept # tx_echo)

Expect(enc) ==
    LET full == Len(tx_echo) + Len(enc) > EchoBuf
        half == EchoBuf \div 2
        kept == IF full /\ Len(tx_echo) > half
                THEN SubSeq(tx_echo, Len(tx_echo) - half + 1, Len(tx_echo)) ELSE tx_echo
    IN  /\ tx_echo' = kept \o enc
        /\ trimmed' = (trimmed \/ kept # tx_echo)

\* What a terminal echoes for a key: itself, a line feed with a return before
\* it, a delete as back, blank, back, a control key as two letters.
Echo(c) == CASE c = "nl" -> <<"cr", "nl">>
             [] c = "del" -> <<"del", "1", "del">>
             [] c = "ctl" -> <<"1", "a">>
             [] c = "esc" -> <<"1", "[">>
             [] OTHER -> <<c>>

Tag(cs, of) == [i \in DOMAIN cs |-> [c |-> cs[i], of |-> of]]

\* note_tx(data), and the server's answer on its way.
note_tx(data) ==
    LET enc == StripAnsi(data)
        echo == FlattenSeq([i \in DOMAIN data |-> Echo(data[i])])
    IN  /\ typings < MaxTyped
        /\ typings' = typings + 1
        /\ Draw(enc)
        /\ Expect(enc)
        /\ typed' = typed \o enc
        /\ stream' = IF echoing THEN stream \o Tag(echo, "echo") ELSE stream
        /\ honest' = (honest /\ echoing /\ \A i \in DOMAIN data : data[i] \in Printable \cup {"nl"})
        /\ UNCHANGED <<echoing, skipped, outputs, sendings, split, leaked>>

\* Mutant: only one echo is looked for in a chunk.
Match_OnePerChunk(data) ==
    LET text == TextAt(data)
        m[i \in 0..Len(data)] ==
            IF i = 0 THEN [echo |-> tx_echo, extra |-> <<>>]
            ELSE LET was == m[i - 1] IN
                 CASE i \notin text -> was
                   [] i \in text /\ Len(was.echo) = Len(tx_echo) /\ tx_echo # <<>> /\ Head(tx_echo) = data[i] ->
                         [was EXCEPT !.echo = Tail(@)]
                   [] OTHER -> [was EXCEPT !.extra = Append(@, data[i])]
    IN  m[Len(data)]

\* Mutant: what is not the next echo is dropped while one is expected.
Match_Swallow(data) ==
    LET text == TextAt(data)
        m[i \in 0..Len(data)] ==
            IF i = 0 THEN [echo |-> tx_echo, extra |-> <<>>]
            ELSE LET was == m[i - 1] IN
                 CASE i \notin text -> was
                   [] i \in text /\ was.echo # <<>> ->
                         IF Head(was.echo) = data[i] THEN [was EXCEPT !.echo = Tail(@)] ELSE was
                   [] OTHER -> [was EXCEPT !.extra = Append(@, data[i])]
    IN  m[Len(data)]

\* _echo_take for every character of the text in data: [echo, extra], what is
\* left of the echoes and what is none.
Match(data) ==
    LET text == TextAt(data)
        m[i \in 0..Len(data)] ==
            IF i = 0 THEN [echo |-> tx_echo, extra |-> <<>>]
            ELSE LET was == m[i - 1] IN
                 CASE i \notin text -> was
                   [] i \in text /\ was.echo # <<>> /\ Head(was.echo) = data[i] ->
                         [was EXCEPT !.echo = Tail(@)]
                   [] OTHER -> [was EXCEPT !.extra = Append(@, data[i])]
    IN  m[Len(data)]

\* A chunk of n characters ends inside a sequence, before its last letter.
CutsSequence(n) == stream[n].of = "seq" /\ stream[n].c \notin Letters

\* feed(data), data the next n characters of the stream.
feed(n) ==
    LET data == [i \in 1..n |-> stream[i].c]
        m == Match(data)
    IN  /\ stream' = SubSeq(stream, n + 1, Len(stream))
        /\ tx_echo' = m.echo
        /\ Draw(m.extra)
        /\ skipped' = skipped \o SubSeq(tx_echo, 1, Len(tx_echo) - Len(m.echo))
        /\ split' = (split \/ CutsSequence(n))
        /\ leaked' = (leaked \/ \E i \in TextAt(data) : stream[i].of = "seq")
        /\ UNCHANGED <<echoing, typed, outputs, typings, sendings, honest, trimmed>>

-----------------------------------------------------------------------------
(* The server.                                                             *)

\* Output of its own: text, or a whole control sequence.
Send(o) ==
    /\ sendings < MaxOutput
    /\ sendings' = sendings + 1
    /\ stream' = stream \o Tag(o, IF IsSequence(o) THEN "seq" ELSE "out")
    /\ outputs' = IF IsSequence(o) THEN outputs
                  ELSE [c \in Chars |-> outputs[c] + Times(c, o)]
    /\ UNCHANGED <<view, echoing, typings, typed, skipped, shown, honest, trimmed, split, leaked>>

\* It asks for a password, or has got it.
SwitchEcho ==
    /\ echoing' = ~echoing
    /\ UNCHANGED <<view, stream, typings, sendings, history>>

Init ==
    /\ lines = <<>> /\ partial = <<>> /\ tx_echo = <<>>
    /\ echoing = TRUE /\ stream = <<>>
    /\ typed = <<>> /\ skipped = <<>>
    /\ shown = [c \in Chars |-> 0] /\ outputs = [c \in Chars |-> 0]
    /\ typings = 0 /\ sendings = 0
    /\ honest = TRUE /\ trimmed = FALSE /\ split = FALSE /\ leaked = FALSE

Next == \/ \E data \in Keys : note_tx(data)
        \/ \E n \in 1..Len(stream) : feed(n)
        \/ \E o \in Outputs : Send(o)
        \/ SwitchEcho

Spec == Init /\ [][Next]_vars

-----------------------------------------------------------------------------
(* What the screen promises.                                               *)

\* s is t with some elements left out.
Subsequence(s, t) ==
    \E f \in [DOMAIN s -> DOMAIN t] :
        /\ \A i, j \in DOMAIN s : i < j => f[i] < f[j]
        /\ \A i \in DOMAIN s : s[i] = t[f[i]]

\* feed swallows nothing but characters that were typed, each at most once and
\* in the order typed, whatever the server sends and even after the buffer was
\* cut (terminal.py 62-67, 76-78, 85-88).
OnlyEchoesSkipped == Subsequence(skipped \o tx_echo, typed)

\* While the server echoes every key as itself, no echo is expected that is not
\* on its way, also when output in between was taken for an echo, or when the
\* buffer was cut: once all has arrived, suppression starts afresh
\* (terminal.py 62-67, 76-78, 85-88).
EchoesMatched == honest => Subsequence(Tag(tx_echo, "echo"), stream)

\* Then every character is drawn once for each time it was typed or sent, even
\* though it may be the echo that is drawn and the output that is skipped.  The
\* letters of an escape that is no control sequence are among them.
DrawnOnce ==
    honest /\ ~trimmed /\ ~split /\ stream = <<>> =>
        \A c \in Printable \cup {"nl"} :
            shown[c] = outputs[c] + Times(c, typed)

\* No part of a control sequence ESC [ ... is drawn if no read ended inside one
\* (terminal.py 11-24 keeps no state from one chunk to the next), also when other
\* escapes, which are drawn but for their esc (terminal.py 16), stand before it.
SequencesHidden == ~split => ~leaked

\* Enter does not move what is on the screen: a line is wrapped where it was
\* wrapped while it was typed, in all of scrollback (terminal.py 36-47, 92-103).
EnterKeepsView ==
    [][partial # <<>> /\ partial' = <<>> /\ typed' = Append(typed, "nl")
            => VisibleLines' = VisibleLines]_vars

=============================================================================
