--------------------------- MODULE TerminalProofs ---------------------------
(* Theorems about Terminal, for every size of the screen and the buffers,  *)
(* every set of keys and outputs and any number of them.                   *)
EXTENDS Terminal, DataInduction, FiniteSetTheorems, SequenceTheorems

-----------------------------------------------------------------------------
(* The recursive functions along a text: what they are at every position.  *)

Modes == {"text", "intro", "params"}

\* Where the scanner goes on character i of d.
NextMode(d, was, i) ==
    CASE was = "text" ->
           IF d[i] = "esc" /\ i < Len(d) /\ d[i + 1] = "[" THEN "intro" ELSE "text"
      [] was = "intro" -> "params"
      [] OTHER -> IF d[i] \in Letters \cup {"["} THEN "text" ELSE "params"

LEMMA ScannerSteps ==
    ASSUME NEW d \in Seq(Chars)
    PROVE  /\ Scanner(d) \in [0..Len(d) -> Modes]
           /\ Scanner(d)[0] = "text"
           /\ \A i \in 1..Len(d) : Scanner(d)[i] = NextMode(d, Scanner(d)[i - 1], i)
  <1> DEFINE n == Len(d)
             F == [i \in 1..n |-> [m \in Modes |-> NextMode(d, m, i)]]
  <1>0. n \in Nat /\ "text" \in Modes
    BY DEF Modes
  <1>1. F \in Steps(n, Modes)
    BY DEF Steps, NextMode, Modes
  <1>2. \A m \in Modes, i \in 1..n : F[i][m] = NextMode(d, m, i)
    OBVIOUS
  <1> HIDE DEF n, F
  <1>3. PICK f \in [0..n -> Modes] : f[0] = "text" /\ \A i \in 1..n : f[i] = F[i][f[i - 1]]
    <2>1. Runs(n, Modes, "text", F)
      BY <1>0, <1>1, Recursion
    <2> QED BY <2>1 DEF Runs
  <1>4. \A i \in 1..n : f[i] = NextMode(d, f[i - 1], i)
    BY <1>0, <1>2, <1>3
  <1>5. f = [i \in 0..n |-> IF i = 0 THEN "text" ELSE NextMode(d, f[i - 1], i)]
    BY <1>0, <1>3, <1>4
  <1> DEFINE Is(at) == at = [i \in 0..Len(d) |-> IF i = 0 THEN "text" ELSE NextMode(d, at[i - 1], i)]
  <1>6. Scanner(d) = CHOOSE at : Is(at)
    BY DEF Scanner, NextMode
  <1>7. Is(f)
    BY <1>5 DEF n
  <1>8. Is(Scanner(d))
    BY <1>6, <1>7
  <1> DEFINE g == Scanner(d)
  <1>9. g = [i \in 0..n |-> IF i = 0 THEN "text" ELSE NextMode(d, g[i - 1], i)]
    BY <1>8 DEF n
  <1> HIDE DEF g
  <1>10. g[0] = "text" /\ \A i \in 1..n : g[i] = NextMode(d, g[i - 1], i)
    BY <1>0, <1>9
  <1>11. \A i \in 0..n : g[i] \in Modes
    BY <1>0, <1>10 DEF NextMode, Modes
  <1> QED BY <1>9, <1>10, <1>11 DEF g, n

\* What is left of a text without its carriage returns.
Clean == Chars \ {"cr"}

LEMMA StripSteps ==
    ASSUME NEW d \in Seq(Chars)
    PROVE  \E out \in [0..Len(d) -> Seq(Clean)] :
              /\ out[0] = <<>> /\ StripAnsi(d) = out[Len(d)]
              /\ \A i \in 1..Len(d) :
                    out[i] = IF i \in TextAt(d) THEN Append(out[i - 1], d[i]) ELSE out[i - 1]
  <1> DEFINE n == Len(d)
             S == Seq(Clean)
             To(was, i) == IF i \in TextAt(d) THEN Append(was, d[i]) ELSE was
             F == [i \in 1..n |-> [was \in S |-> To(was, i)]]
  <1>0. n \in Nat /\ <<>> \in S /\ \A i \in 1..n : i \in TextAt(d) => d[i] \in Clean
    BY DEF TextAt, Clean
  <1>1. F \in Steps(n, S)
    <2>1. \A i \in 1..n, was \in S : To(was, i) \in S
      BY <1>0
    <2> HIDE DEF n, S, To
    <2> QED BY <2>1 DEF Steps
  <1>2. \A was \in S, i \in 1..n : F[i][was] = To(was, i)
    OBVIOUS
  <1> HIDE DEF n, S, F
  <1>3. PICK f \in [0..n -> S] : f[0] = <<>> /\ \A i \in 1..n : f[i] = F[i][f[i - 1]]
    <2>1. Runs(n, S, <<>>, F)
      BY <1>0, <1>1, Recursion
    <2> QED BY <2>1 DEF Runs
  <1> HIDE DEF To
  <1>4. \A i \in 1..n : f[i] = To(f[i - 1], i)
    BY <1>0, <1>2, <1>3
  <1> DEFINE Is(out) == out = [i \in 0..Len(d) |-> IF i = 0 THEN <<>> ELSE To(out[i - 1], i)]
             g == CHOOSE out : Is(out)
  <1>5. StripAnsi(d) = g[Len(d)]
    BY DEF StripAnsi, To
  <1>6. Is(f)
    BY <1>0, <1>3, <1>4 DEF n
  <1>7. Is(g)
    BY <1>6
  <1>8. g = [i \in 0..n |-> IF i = 0 THEN <<>> ELSE To(g[i - 1], i)]
    BY <1>7 DEF n
  <1> HIDE DEF g, Is
  <1>9. g[0] = <<>> /\ \A i \in 1..n : g[i] = To(g[i - 1], i)
    BY <1>0, <1>8
  <1>10. f[n] = g[n]
    <2>1. f[0] = g[0] /\ \A i \in 1..n : f[i - 1] = g[i - 1] => f[i] = g[i]
      BY <1>0, <1>3, <1>4, <1>9
    <2> QED BY <1>0, <2>1, SameRun
  <1>11. f[n] = StripAnsi(d)
    BY <1>0, <1>5, <1>10 DEF n
  <1> QED BY <1>3, <1>4, <1>11 DEF n, S, To

\* What _echo_take does with character i of data.
Take(data, was, i) ==
    CASE i \notin TextAt(data) -> was
      [] i \in TextAt(data) /\ was.echo # <<>> /\ Head(was.echo) = data[i] ->
            [was EXCEPT !.echo = Tail(@)]
      [] OTHER -> [was EXCEPT !.extra = Append(@, data[i])]

Matches == [echo : Seq(Clean), extra : Seq(Clean)]

LEMMA MatchSteps ==
    ASSUME NEW data \in Seq(Chars), tx_echo \in Seq(Clean)
    PROVE  \E m \in [0..Len(data) -> Matches] :
              /\ m[0] = [echo |-> tx_echo, extra |-> <<>>] /\ Match(data) = m[Len(data)]
              /\ \A i \in 1..Len(data) : m[i] = Take(data, m[i - 1], i)
  <1> DEFINE n == Len(data)
             s == [echo |-> tx_echo, extra |-> <<>>]
             To(was, i) == Take(data, was, i)
             F == [i \in 1..n |-> [was \in Matches |-> To(was, i)]]
  <1>0. n \in Nat /\ s \in Matches /\ \A i \in 1..n : i \in TextAt(data) => data[i] \in Clean
    BY DEF Matches, TextAt, Clean
  <1>1. F \in Steps(n, Matches)
    <2>1. ASSUME NEW i \in 1..n, NEW was \in Matches PROVE To(was, i) \in Matches
      <3>0. /\ was.echo \in Seq(Clean) /\ was.extra \in Seq(Clean)
            /\ i \in TextAt(data) => data[i] \in Clean
        BY <1>0 DEF Matches
      <3>1. CASE i \notin TextAt(data)
        BY <3>1 DEF Take
      <3>2. CASE i \in TextAt(data) /\ was.echo # <<>> /\ Head(was.echo) = data[i]
        <4>1. Tail(was.echo) \in Seq(Clean)
          BY <3>0, <3>2
        <4>2. To(was, i) = [was EXCEPT !.echo = Tail(was.echo)]
          BY <3>2 DEF Take
        <4> QED BY <4>1, <4>2 DEF Matches
      <3>3. CASE i \in TextAt(data) /\ ~(was.echo # <<>> /\ Head(was.echo) = data[i])
        <4>1. Append(was.extra, data[i]) \in Seq(Clean)
          BY <3>0, <3>3
        <4>2. To(was, i) = [was EXCEPT !.extra = Append(was.extra, data[i])]
          BY <3>3 DEF Take
        <4> QED BY <4>1, <4>2 DEF Matches
      <3> QED BY <3>1, <3>2, <3>3
    <2> HIDE DEF n, To
    <2> QED BY <2>1 DEF Steps
  <1>2. \A was \in Matches, i \in 1..n : F[i][was] = To(was, i)
    OBVIOUS
  <1>a. s = [echo |-> tx_echo, extra |-> <<>>]
    OBVIOUS
  <1> HIDE DEF n, s, F
  <1>3. PICK f \in [0..n -> Matches] : f[0] = s /\ \A i \in 1..n : f[i] = F[i][f[i - 1]]
    <2>1. Runs(n, Matches, s, F)
      BY <1>0, <1>1, Recursion
    <2> QED BY <2>1 DEF Runs
  <1> HIDE DEF To
  <1>4. \A i \in 1..n : f[i] = To(f[i - 1], i)
    BY <1>0, <1>2, <1>3
  <1> DEFINE Is(m) == m = [i \in 0..Len(data) |->
                              IF i = 0 THEN [echo |-> tx_echo, extra |-> <<>>] ELSE To(m[i - 1], i)]
             g == CHOOSE m : Is(m)
  <1>5. Match(data) = g[Len(data)]
    BY DEF Match, To, Take
  <1>6. Is(f)
    BY <1>0, <1>3, <1>4, <1>a DEF n
  <1>7. Is(g)
    BY <1>6
  <1>8. g = [i \in 0..n |-> IF i = 0 THEN s ELSE To(g[i - 1], i)]
    BY <1>7, <1>a DEF n
  <1> HIDE DEF g, Is
  <1>9. g[0] = s /\ \A i \in 1..n : g[i] = To(g[i - 1], i)
    BY <1>0, <1>8
  <1>10. f[n] = g[n]
    <2>1. f[0] = g[0] /\ \A i \in 1..n : f[i - 1] = g[i - 1] => f[i] = g[i]
      BY <1>0, <1>3, <1>4, <1>9
    <2> QED BY <1>0, <2>1, SameRun
  <1>11. f[n] = Match(data)
    BY <1>0, <1>5, <1>10 DEF n
  <1> QED BY <1>3, <1>4, <1>11, <1>a DEF n, To

Views == [lines : Seq(Seq(Chars)), partial : Seq(Chars)]

LEMMA PiecesType ==
    ASSUME NEW s \in Seq(Chars)
    PROVE  Pieces(s) \in Seq(Seq(Chars))
  <1> DEFINE n == IF s = <<>> THEN 1 ELSE (Len(s) + Cols - 1) \div Cols
             from(j) == (j - 1) * Cols + 1
             to(j) == IF j * Cols < Len(s) THEN j * Cols ELSE Len(s)
  <1>0. Cols \in Nat /\ Cols > 0 /\ Len(s) \in Nat
    BY TerminalAssumption
  <1>1. n \in Nat
    <2>1. (Len(s) + Cols - 1) \in Nat
      BY <1>0
    <2> QED BY <1>0, <2>1
  <1>2. ASSUME NEW j \in 1..n PROVE SubSeq(s, from(j), to(j)) \in Seq(Chars)
    <2>0. j \in Nat /\ j >= 1
      BY <1>1, <1>2
    <2>1. j * Cols \in Nat /\ (j - 1) * Cols \in Nat
      BY <1>0, <2>0
    <2>2. from(j) \in Nat /\ from(j) >= 1 /\ to(j) \in Nat /\ to(j) <= Len(s)
      BY <1>0, <2>1
    <2> HIDE DEF from, to
    <2> QED BY <2>2
  <1>3. Pieces(s) = [j \in 1..n |-> SubSeq(s, from(j), to(j))]
    BY DEF Pieces
  <1> HIDE DEF n, from, to
  <1> QED BY <1>1, <1>2, <1>3

LEMMA PushType ==
    ASSUME NEW S, NEW q \in Seq(S), NEW es \in Seq(S), NEW cap \in Nat
    PROVE  /\ PushAll(q, es, cap) \in Seq(S)
           /\ LET s == q \o es IN PushAll(q, es, cap) =
                  IF Len(s) <= cap THEN s ELSE SubSeq(s, Len(s) - cap + 1, Len(s))
  BY DEF PushAll

LEMMA CommitType ==
    ASSUME NEW t \in Views
    PROVE  Commit(t) \in Views
  <1>0. t.lines \in Seq(Seq(Chars)) /\ t.partial \in Seq(Chars) /\ MaxLines \in Nat
    BY TerminalAssumption DEF Views
  <1>1. PushAll(t.lines, Pieces(t.partial), MaxLines) \in Seq(Seq(Chars))
    BY <1>0, PiecesType, PushType
  <1> QED BY <1>0, <1>1 DEF Commit, Views

LEMMA CharFacts == Printable \subseteq Chars /\ Letters \subseteq Printable
  BY DEF Printable, Chars

LEMMA ApplyCharType ==
    ASSUME NEW t \in Views, NEW c \in Chars
    PROVE  ApplyChar(t, c) \in Views
  <1>0. t.lines \in Seq(Seq(Chars)) /\ t.partial \in Seq(Chars)
    BY DEF Views
  <1>1. CASE c = "nl"
    BY <1>1, CommitType DEF ApplyChar, Printable, Letters
  <1>2. CASE c = "del" /\ t.partial # <<>>
    <2>1. Front(t.partial) \in Seq(Chars)
      BY <1>0, <1>2 DEF Front
    <2>2. ApplyChar(t, c) = [t EXCEPT !.partial = Front(t.partial)]
      BY <1>2 DEF ApplyChar, Printable, Letters
    <2> QED BY <2>1, <2>2 DEF Views
  <1>3. CASE c \in Printable
    <2>1. Append(t.partial, c) \in Seq(Chars)
      BY <1>0
    <2>2. ApplyChar(t, c) = [t EXCEPT !.partial = Append(t.partial, c)]
      BY <1>3 DEF ApplyChar, Printable, Letters
    <2> QED BY <2>1, <2>2 DEF Views
  <1>4. CASE c # "nl" /\ ~(c = "del" /\ t.partial # <<>>) /\ c \notin Printable
    BY <1>4 DEF ApplyChar
  <1> QED BY <1>1, <1>2, <1>3, <1>4

LEMMA ApplySteps ==
    ASSUME NEW text \in Seq(Chars), lines \in Seq(Seq(Chars)), partial \in Seq(Chars)
    PROVE  \E after \in [0..Len(text) -> Views] :
              /\ after[0] = [lines |-> lines, partial |-> partial] /\ ApplyText(text) = after[Len(text)]
              /\ \A i \in 1..Len(text) : after[i] = ApplyChar(after[i - 1], text[i])
  <1> DEFINE n == Len(text)
             s == [lines |-> lines, partial |-> partial]
             To(was, i) == ApplyChar(was, text[i])
             F == [i \in 1..n |-> [was \in Views |-> To(was, i)]]
  <1>0. n \in Nat /\ s \in Views /\ \A i \in 1..n : text[i] \in Chars
    BY DEF Views
  <1>1. F \in Steps(n, Views)
    <2>1. \A i \in 1..n, was \in Views : To(was, i) \in Views
      BY <1>0, ApplyCharType
    <2> HIDE DEF n, To
    <2> QED BY <2>1 DEF Steps
  <1>2. \A was \in Views, i \in 1..n : F[i][was] = To(was, i)
    OBVIOUS
  <1>a. s = [lines |-> lines, partial |-> partial]
    OBVIOUS
  <1> HIDE DEF n, s, F
  <1>3. PICK f \in [0..n -> Views] : f[0] = s /\ \A i \in 1..n : f[i] = F[i][f[i - 1]]
    <2>1. Runs(n, Views, s, F)
      BY <1>0, <1>1, Recursion
    <2> QED BY <2>1 DEF Runs
  <1> HIDE DEF To
  <1>4. \A i \in 1..n : f[i] = To(f[i - 1], i)
    <2>1. \A i \in 1..n : f[i - 1] \in Views
      BY <1>0, <1>3
    <2> QED BY <1>2, <1>3, <2>1
  <1> DEFINE Is(m) == m = [i \in 0..Len(text) |->
                              IF i = 0 THEN [lines |-> lines, partial |-> partial] ELSE To(m[i - 1], i)]
             g == CHOOSE m : Is(m)
  <1>5. ApplyText(text) = g[Len(text)]
    BY DEF ApplyText, To
  <1>6. Is(f)
    BY <1>0, <1>3, <1>4, <1>a DEF n
  <1>7. Is(g)
    BY <1>6
  <1>8. g = [i \in 0..n |-> IF i = 0 THEN s ELSE To(g[i - 1], i)]
    BY <1>7, <1>a DEF n
  <1> HIDE DEF g, Is
  <1>9. g[0] = s /\ \A i \in 1..n : g[i] = To(g[i - 1], i)
    BY <1>0, <1>8
  <1>10. f[n] = g[n]
    <2>1. f[0] = g[0] /\ \A i \in 1..n : f[i - 1] = g[i - 1] => f[i] = g[i]
      BY <1>0, <1>3, <1>4, <1>9
    <2> QED BY <1>0, <2>1, SameRun
  <1>11. f[n] = ApplyText(text)
    BY <1>0, <1>5, <1>10 DEF n
  <1> QED BY <1>3, <1>4, <1>11, <1>a DEF n, To

\* What is left of s after k elements.
LEMMA Suffix ==
    ASSUME NEW S, NEW s \in Seq(S), NEW k \in 0..Len(s)
    PROVE  LET r == SubSeq(s, k + 1, Len(s))
           IN  /\ r \in Seq(S) /\ Len(r) = Len(s) - k
               /\ r = <<>> <=> k = Len(s)
               /\ \A i \in 1..Len(s) - k : r[i] = s[k + i]
  <1> DEFINE r == SubSeq(s, k + 1, Len(s))
  <1>1. r \in Seq(S) /\ Len(r) = Len(s) - k /\ \A i \in 1..Len(s) - k : r[i] = s[k + i]
    OBVIOUS
  <1>2. r = <<>> <=> Len(r) = 0
    BY <1>1
  <1> HIDE DEF r
  <1>3. r = <<>> <=> k = Len(s)
    BY <1>1, <1>2
  <1> QED BY <1>1, <1>3 DEF r

-----------------------------------------------------------------------------
(* Subsequences.                                                           *)

LEMMA SubsequenceSelf ==
    ASSUME NEW S, NEW s \in Seq(S)
    PROVE  Subsequence(s, s)
  <1> DEFINE f == [i \in DOMAIN s |-> i]
  <1>1. f \in [DOMAIN s -> DOMAIN s]
    OBVIOUS
  <1>2. \A i, j \in DOMAIN s : i < j => f[i] < f[j]
    OBVIOUS
  <1>3. \A i \in DOMAIN s : s[i] = s[f[i]]
    OBVIOUS
  <1> HIDE DEF f
  <1> QED BY <1>1, <1>2, <1>3 DEF Subsequence

LEMMA SubsequenceConcat ==
    ASSUME NEW S, NEW s \in Seq(S), NEW t \in Seq(S), NEW u \in Seq(S), NEW v \in Seq(S),
           Subsequence(s, t), Subsequence(u, v)
    PROVE  Subsequence(s \o u, t \o v)
  <1>1. PICK f \in [DOMAIN s -> DOMAIN t] :
           /\ \A i, j \in DOMAIN s : i < j => f[i] < f[j]
           /\ \A i \in DOMAIN s : s[i] = t[f[i]]
    BY DEF Subsequence
  <1>2. PICK h \in [DOMAIN u -> DOMAIN v] :
           /\ \A i, j \in DOMAIN u : i < j => h[i] < h[j]
           /\ \A i \in DOMAIN u : u[i] = v[h[i]]
    BY DEF Subsequence
  <1> DEFINE ls == Len(s)
             lt == Len(t)
             x == s \o u
             y == t \o v
             k == [i \in DOMAIN x |-> IF i <= ls THEN f[i] ELSE h[i - ls] + lt]
  <1>3. /\ ls \in Nat /\ lt \in Nat /\ Len(u) \in Nat /\ Len(v) \in Nat
        /\ DOMAIN s = 1..ls /\ DOMAIN t = 1..lt /\ DOMAIN u = 1..Len(u) /\ DOMAIN v = 1..Len(v)
        /\ DOMAIN x = 1..ls + Len(u) /\ DOMAIN y = 1..lt + Len(v)
        /\ \A i \in 1..ls : x[i] = s[i]
        /\ \A i \in 1..Len(u) : x[ls + i] = u[i]
        /\ \A i \in 1..lt : y[i] = t[i]
        /\ \A i \in 1..Len(v) : y[lt + i] = v[i]
    OBVIOUS
  <1> HIDE DEF ls, lt, x, y
  <1>4. \A i \in DOMAIN x :
           /\ i \in 1..ls => k[i] = f[i] /\ f[i] \in 1..lt
           /\ i \notin 1..ls => k[i] = h[i - ls] + lt /\ h[i - ls] \in 1..Len(v) /\ i - ls \in 1..Len(u)
    BY <1>3
  <1>5. k \in [DOMAIN x -> DOMAIN y]
    <2>1. \A i \in DOMAIN x : k[i] \in DOMAIN y
      BY <1>3, <1>4
    <2> QED BY <2>1
  <1> HIDE DEF k
  <1>6. \A i, j \in DOMAIN x : i < j => k[i] < k[j]
    <2> SUFFICES ASSUME NEW i \in DOMAIN x, NEW j \in DOMAIN x, i < j PROVE k[i] < k[j]
      OBVIOUS
    <2>1. CASE j \in 1..ls
      <3>1. i \in 1..ls
        BY <1>3, <2>1
      <3>2. f[i] < f[j]
        BY <1>1, <1>3, <2>1, <3>1
      <3> QED BY <1>4, <2>1, <3>1, <3>2
    <2>2. CASE i \in 1..ls /\ j \notin 1..ls
      BY <1>3, <1>4, <2>2
    <2>3. CASE i \notin 1..ls
      <3>1. j \notin 1..ls
        BY <1>3, <2>3
      <3>2. h[i - ls] < h[j - ls]
        BY <1>2, <1>3, <1>4, <2>3, <3>1
      <3> QED BY <1>3, <1>4, <2>3, <3>1, <3>2
    <2> QED BY <2>1, <2>2, <2>3
  <1>7. \A i \in DOMAIN x : x[i] = y[k[i]]
    <2> SUFFICES ASSUME NEW i \in DOMAIN x PROVE x[i] = y[k[i]]
      OBVIOUS
    <2>1. CASE i \in 1..ls
      BY <1>1, <1>3, <1>4, <2>1
    <2>2. CASE i \notin 1..ls
      <3>1. i - ls \in 1..Len(u) /\ k[i] = lt + h[i - ls] /\ h[i - ls] \in 1..Len(v)
        BY <1>3, <1>4, <2>2
      <3>2. x[ls + (i - ls)] = u[i - ls]
        BY <1>3, <3>1
      <3>3. ls + (i - ls) = i
        BY <1>3
      <3> QED BY <1>2, <1>3, <3>1, <3>2, <3>3
    <2> QED BY <2>1, <2>2
  <1>8. Subsequence(x, y)
    BY <1>5, <1>6, <1>7 DEF Subsequence
  <1> QED BY <1>8 DEF x, y

\* Leaving out more keeps it a subsequence.
LEMMA SubsequenceDrop ==
    ASSUME NEW S, NEW a \in Seq(S), NEW b \in Seq(S), NEW t \in Seq(S), Subsequence(a \o b, t),
           NEW k \in 0..Len(b)
    PROVE  Subsequence(a \o SubSeq(b, k + 1, Len(b)), t)
  <1> DEFINE la == Len(a)
             lb == Len(b)
             x == a \o b
             y == a \o SubSeq(b, k + 1, lb)
  <1>1. PICK f \in [DOMAIN x -> DOMAIN t] :
           /\ \A i, j \in DOMAIN x : i < j => f[i] < f[j]
           /\ \A i \in DOMAIN x : x[i] = t[f[i]]
    BY DEF Subsequence
  <1> DEFINE h == [i \in DOMAIN y |-> IF i <= la THEN f[i] ELSE f[i + k]]
  <1>2. /\ la \in Nat /\ lb \in Nat /\ k \in Nat /\ k <= lb
        /\ DOMAIN x = 1..la + lb /\ DOMAIN y = 1..la + (lb - k)
        /\ \A i \in 1..la : x[i] = a[i] /\ y[i] = a[i]
        /\ \A i \in 1..lb : x[la + i] = b[i]
        /\ \A i \in 1..lb - k : y[la + i] = b[k + i]
    <2> DEFINE c == SubSeq(b, k + 1, lb)
    <2>1. la \in Nat /\ lb \in Nat /\ k \in Nat /\ k <= lb
      OBVIOUS
    <2>2. c \in Seq(S) /\ Len(c) = lb - k /\ \A i \in 1..lb - k : c[i] = b[k + i]
      BY <2>1
    <2>3. DOMAIN x = 1..la + lb /\ (\A i \in 1..la : x[i] = a[i]) /\ \A i \in 1..lb : x[la + i] = b[i]
      BY <2>1
    <2> HIDE DEF c
    <2>4. /\ DOMAIN (a \o c) = 1..la + (lb - k)
          /\ \A i \in 1..la : (a \o c)[i] = a[i]
          /\ \A i \in 1..lb - k : (a \o c)[la + i] = c[i]
      <3>1. DOMAIN (a \o c) = 1..la + (lb - k)
        <4>1. a \o c \in Seq(S) /\ Len(a \o c) = la + (lb - k)
          BY <2>2, ConcatProperties
        <4> QED BY <4>1
      <3>2. \A i \in 1..la : (a \o c)[i] = a[i]
        BY <2>1, <2>2
      <3>3. \A i \in 1..lb - k : (a \o c)[la + i] = c[i]
        BY <2>1, <2>2
      <3> QED BY <3>1, <3>2, <3>3
    <2> QED BY <2>1, <2>2, <2>3, <2>4 DEF c
  <1> HIDE DEF la, lb, x, y
  <1>a. \A i \in DOMAIN y :
           /\ i \in 1..la => i \in DOMAIN x /\ h[i] = f[i]
           /\ i \notin 1..la => i + k \in DOMAIN x /\ h[i] = f[i + k]
    BY <1>2
  <1>b. \A i \in DOMAIN x : f[i] \in DOMAIN t
    BY <1>1
  <1>3. h \in [DOMAIN y -> DOMAIN t]
    BY <1>a, <1>b
  <1> HIDE DEF h
  <1>4. \A i, j \in DOMAIN y : i < j => h[i] < h[j]
    <2> SUFFICES ASSUME NEW i \in DOMAIN y, NEW j \in DOMAIN y, i < j PROVE h[i] < h[j]
      OBVIOUS
    <2>1. CASE j \in 1..la
      <3>1. i \in 1..la
        BY <1>2, <2>1
      <3> QED BY <1>1, <1>a, <2>1, <3>1
    <2>2. CASE i \in 1..la /\ j \notin 1..la
      <3>1. i < j + k
        BY <1>2
      <3> QED BY <1>1, <1>a, <2>2, <3>1
    <2>3. CASE i \notin 1..la
      <3>1. j \notin 1..la /\ i + k < j + k
        BY <1>2, <2>3
      <3> QED BY <1>1, <1>a, <2>3, <3>1
    <2> QED BY <2>1, <2>2, <2>3
  <1>5. \A i \in DOMAIN y : y[i] = t[h[i]]
    <2> SUFFICES ASSUME NEW i \in DOMAIN y PROVE y[i] = t[h[i]]
      OBVIOUS
    <2>1. CASE i \in 1..la
      <3>1. y[i] = x[i] /\ i \in DOMAIN x /\ h[i] = f[i]
        BY <1>2, <1>a, <2>1
      <3> QED BY <1>1, <3>1
    <2>2. CASE i \notin 1..la
      <3>1. i - la \in 1..lb - k /\ k + (i - la) \in 1..lb /\ la + (i - la) = i
            /\ la + (k + (i - la)) = i + k
        BY SMTT(30), <1>2, <2>2
      <3>2. y[i] = b[k + (i - la)] /\ x[i + k] = b[k + (i - la)]
        BY <1>2, <3>1
      <3>3. i + k \in DOMAIN x /\ h[i] = f[i + k]
        BY <1>a, <2>2
      <3> QED BY <1>1, <3>2, <3>3
    <2> QED BY <2>1, <2>2
  <1>6. Subsequence(y, t)
    BY <1>3, <1>4, <1>5 DEF Subsequence
  <1> QED BY <1>6 DEF y, lb

-----------------------------------------------------------------------------
(* What the operators return.                                              *)

LEMMA StripType ==
    ASSUME NEW d \in Seq(Chars)
    PROVE  StripAnsi(d) \in Seq(Clean)
  <1>1. PICK out \in [0..Len(d) -> Seq(Clean)] : StripAnsi(d) = out[Len(d)]
    BY StripSteps
  <1>2. Len(d) \in 0..Len(d)
    OBVIOUS
  <1> QED BY <1>1, <1>2

LEMMA ApplyType ==
    ASSUME NEW text \in Seq(Chars), lines \in Seq(Seq(Chars)), partial \in Seq(Chars)
    PROVE  ApplyText(text) \in Views
  <1>1. PICK after \in [0..Len(text) -> Views] : ApplyText(text) = after[Len(text)]
    BY ApplySteps
  <1>2. Len(text) \in 0..Len(text)
    OBVIOUS
  <1> QED BY <1>1, <1>2

LEMMA CleanChars == Seq(Clean) \subseteq Seq(Chars)
  BY DEF Clean

\* feed takes echoes off the front.
LEMMA MatchEcho ==
    ASSUME NEW data \in Seq(Chars), tx_echo \in Seq(Clean)
    PROVE  /\ Match(data) \in Matches
           /\ \E k \in 0..Len(tx_echo) : Match(data).echo = SubSeq(tx_echo, k + 1, Len(tx_echo))
  <1> DEFINE n == Len(data)
             L == Len(tx_echo)
             Rest(e) == \E k \in 0..L : e = SubSeq(tx_echo, k + 1, L)
  <1>1. PICK m \in [0..n -> Matches] :
           /\ m[0] = [echo |-> tx_echo, extra |-> <<>>] /\ Match(data) = m[n]
           /\ \A i \in 1..n : m[i] = Take(data, m[i - 1], i)
    BY MatchSteps
  <1> DEFINE P == {i \in 0..n : Rest(m[i].echo)}
  <1>2. n \in Nat /\ L \in Nat
    OBVIOUS
  <1>3. 0 \in P
    <2>1. tx_echo = SubSeq(tx_echo, 0 + 1, L) /\ 0 \in 0..L
      OBVIOUS
    <2> QED BY <1>1, <1>2, <2>1
  <1>4. ASSUME NEW i \in 1..n, i - 1 \in P PROVE i \in P
    <2> DEFINE was == m[i - 1]
    <2>1. PICK k \in 0..L : was.echo = SubSeq(tx_echo, k + 1, L)
      BY <1>4
    <2>2. was \in Matches /\ m[i] = Take(data, was, i)
      BY <1>1, <1>2
    <2> HIDE DEF was
    <2>3. CASE i \in TextAt(data) /\ was.echo # <<>> /\ Head(was.echo) = data[i]
      <3>1. k + 1 \in 0..L
        BY <2>1, <2>3
      <3>2. m[i].echo = Tail(was.echo)
        BY <2>2, <2>3 DEF Take, Matches
      <3>3. Tail(was.echo) = SubSeq(tx_echo, (k + 1) + 1, L)
        BY <2>1, <3>1
      <3>4. Rest(m[i].echo)
        BY <3>1, <3>2, <3>3
      <3> QED BY <1>2, <3>4
    <2>4. CASE ~(i \in TextAt(data) /\ was.echo # <<>> /\ Head(was.echo) = data[i])
      <3>1. m[i].echo = was.echo
        BY <2>2, <2>4 DEF Take, Matches
      <3> QED BY <1>2, <2>1, <3>1
    <2> QED BY <2>3, <2>4
  <1>5. \A i \in 0..n : i \in P
    <2> HIDE DEF P, n
    <2> QED BY <1>2, <1>3, <1>4, IntervalInduction
  <1>6. n \in 0..n
    BY <1>2
  <1> QED BY <1>1, <1>5, <1>6

\* note_tx forgets echoes at the front only.
LEMMA ExpectKeeps ==
    ASSUME NEW enc \in Seq(Clean), tx_echo \in Seq(Clean), Expect(enc)
    PROVE  \E k \in 0..Len(tx_echo) :
              LET kept == SubSeq(tx_echo, k + 1, Len(tx_echo))
              IN  /\ tx_echo' = kept \o enc
                  /\ trimmed' = (trimmed \/ kept # tx_echo)
  <1> DEFINE half == EchoBuf \div 2
             L == Len(tx_echo)
  <1>1. half \in Nat /\ L \in Nat
    BY TerminalAssumption
  <1>2. CASE L + Len(enc) > EchoBuf /\ L > half
    <2>1. L - half \in 0..L
      BY <1>1, <1>2
    <2> QED BY <1>2, <2>1 DEF Expect
  <1>3. CASE ~(L + Len(enc) > EchoBuf /\ L > half)
    <2>1. 0 \in 0..L /\ SubSeq(tx_echo, 0 + 1, L) = tx_echo
      BY <1>1
    <2>2. tx_echo' = tx_echo \o enc /\ trimmed' = (trimmed \/ tx_echo # tx_echo)
      BY <1>3 DEF Expect
    <2> QED BY <2>1, <2>2
  <1> QED BY <1>2, <1>3

Origins == {"echo", "out", "seq"}
Sent == [c : Chars, of : Origins]

LEMMA TagType ==
    ASSUME NEW cs \in Seq(Chars), NEW of \in Origins
    PROVE  /\ Tag(cs, of) \in Seq(Sent) /\ Len(Tag(cs, of)) = Len(cs)
           /\ DOMAIN Tag(cs, of) = DOMAIN cs
           /\ \A i \in DOMAIN cs : Tag(cs, of)[i] = [c |-> cs[i], of |-> of]
  <1> DEFINE t == [i \in 1..Len(cs) |-> [c |-> cs[i], of |-> of]]
  <1>1. Tag(cs, of) = t
    BY DEF Tag
  <1>2. \A i \in 1..Len(cs) : [c |-> cs[i], of |-> of] \in Sent
    BY DEF Sent
  <1>3. t \in Seq(Sent) /\ Len(t) = Len(cs)
    BY <1>2
  <1> QED BY <1>1, <1>3

\* What a terminal echoes for data: no esc is in it.
Plain == Chars \ {"esc"}
Echoes(data) == [i \in DOMAIN data |-> Echo(data[i])]

LEMMA EchoType ==
    ASSUME NEW data \in Seq(Chars)
    PROVE  /\ Echoes(data) \in Seq(Seq(Chars)) /\ Len(Echoes(data)) = Len(data)
           /\ FlattenSeq(Echoes(data)) \in Seq(Plain) /\ FlattenSeq(Echoes(data)) \in Seq(Chars)
  <1> DEFINE e == [i \in 1..Len(data) |-> Echo(data[i])]
  <1>1. \A c \in Chars : Echo(c) \in Seq(Plain)
    <2>1. "cr" \in Plain /\ "nl" \in Plain /\ "del" \in Plain /\ "1" \in Plain
          /\ "a" \in Plain /\ "[" \in Plain
      BY DEF Plain, Chars, Printable, Letters
    <2>2. /\ <<"cr", "nl">> \in Seq(Plain) /\ <<"del", "1", "del">> \in Seq(Plain)
          /\ <<"1", "a">> \in Seq(Plain) /\ <<"1", "[">> \in Seq(Plain)
          /\ \A c \in Plain : <<c>> \in Seq(Plain)
      BY <2>1
    <2> QED BY <2>2 DEF Echo, Plain
  <1>2. \A i \in 1..Len(data) : Echo(data[i]) \in Seq(Plain)
    BY <1>1
  <1>3. e \in Seq(Seq(Plain)) /\ Len(e) = Len(data)
    BY <1>2
  <1>4. Echoes(data) = e
    BY DEF Echoes
  <1> HIDE DEF e
  <1>5. PICK out \in [0..Len(e) -> Seq(Plain)] : FlattenSeq(e) = out[Len(e)]
    BY <1>3, FlattenSteps
  <1>6. Len(e) \in 0..Len(e)
    BY <1>3
  <1>7. Seq(Plain) \subseteq Seq(Chars)
    BY DEF Plain
  <1> QED BY <1>3, <1>4, <1>5, <1>6, <1>7

LEMMA TimesType ==
    ASSUME NEW S, NEW s \in Seq(S), NEW c
    PROVE  IsFiniteSet({i \in DOMAIN s : s[i] = c}) /\ Times(c, s) \in Nat
  <1>1. IsFiniteSet(1..Len(s)) /\ DOMAIN s = 1..Len(s)
    BY FS_Interval
  <1>2. IsFiniteSet({i \in DOMAIN s : s[i] = c})
    BY <1>1, FS_Subset
  <1> QED BY <1>2, FS_CardinalityType DEF Times

\* The data of feed(n).
Fed(n) == [i \in 1..n |-> stream[i].c]

LEMMA FedType ==
    ASSUME stream \in Seq(Sent), NEW n \in 1..Len(stream)
    PROVE  Fed(n) \in Seq(Chars) /\ Len(Fed(n)) = n /\ \A i \in 1..n : Fed(n)[i] = stream[i].c
  <1>1. n \in Nat /\ \A i \in 1..n : stream[i].c \in Chars
    <2>1. n \in Nat /\ \A i \in 1..n : stream[i] \in Sent
      OBVIOUS
    <2> QED BY <2>1 DEF Sent
  <1> QED BY <1>1 DEF Fed

-----------------------------------------------------------------------------
(* Types.                                                                  *)

TypeInv ==
    /\ lines \in Seq(Seq(Chars)) /\ partial \in Seq(Chars) /\ tx_echo \in Seq(Clean)
    /\ stream \in Seq(Sent)
    /\ typed \in Seq(Clean) /\ skipped \in Seq(Clean)
    /\ shown \in [Chars -> Nat] /\ outputs \in [Chars -> Nat]
    /\ echoing \in BOOLEAN /\ honest \in BOOLEAN /\ trimmed \in BOOLEAN
    /\ split \in BOOLEAN /\ leaked \in BOOLEAN

LEMMA DrawType ==
    ASSUME TypeInv, NEW text \in Seq(Clean), Draw(text)
    PROVE  lines' \in Seq(Seq(Chars)) /\ partial' \in Seq(Chars) /\ shown' \in [Chars -> Nat]
  <1>1. text \in Seq(Chars)
    BY CleanChars
  <1>2. ApplyText(text) \in Views
    BY <1>1, ApplyType DEF TypeInv
  <1>3. \A c \in Chars : shown[c] + Times(c, text) \in Nat
    <2>1. \A c \in Chars : Times(c, text) \in Nat
      BY <1>1, TimesType
    <2> QED BY <2>1 DEF TypeInv
  <1> QED BY <1>2, <1>3 DEF Draw, Views

LEMMA NoteTypes ==
    ASSUME TypeInv, NEW data \in Keys, note_tx(data)
    PROVE  TypeInv'
  <1> DEFINE enc == StripAnsi(data)
  <1>1. data \in Seq(Chars) /\ enc \in Seq(Clean)
    BY WireAssumption, StripType
  <1>2. lines' \in Seq(Seq(Chars)) /\ partial' \in Seq(Chars) /\ shown' \in [Chars -> Nat]
    BY <1>1, DrawType DEF note_tx
  <1>3. tx_echo' \in Seq(Clean) /\ trimmed' \in BOOLEAN
    <2>1. PICK k \in 0..Len(tx_echo) :
             /\ tx_echo' = SubSeq(tx_echo, k + 1, Len(tx_echo)) \o enc
             /\ trimmed' = (trimmed \/ SubSeq(tx_echo, k + 1, Len(tx_echo)) # tx_echo)
      BY <1>1, ExpectKeeps DEF note_tx, TypeInv
    <2>2. SubSeq(tx_echo, k + 1, Len(tx_echo)) \in Seq(Clean)
      BY DEF TypeInv
    <2> HIDE DEF enc
    <2> QED BY <1>1, <2>1, <2>2 DEF TypeInv
  <1>4. stream' \in Seq(Sent)
    <2>1. Tag(FlattenSeq(Echoes(data)), "echo") \in Seq(Sent)
      BY <1>1, EchoType, TagType DEF Origins
    <2>2. stream' = IF echoing THEN stream \o Tag(FlattenSeq(Echoes(data)), "echo") ELSE stream
      BY DEF note_tx, Echoes
    <2> QED BY <2>1, <2>2 DEF TypeInv
  <1>5. typed' \in Seq(Clean)
    BY <1>1 DEF note_tx, TypeInv
  <1>6. honest' \in BOOLEAN
    BY DEF note_tx
  <1>7. skipped' = skipped /\ outputs' = outputs /\ echoing' = echoing /\ split' = split /\ leaked' = leaked
    BY DEF note_tx
  <1> QED BY <1>2, <1>3, <1>4, <1>5, <1>6, <1>7 DEF TypeInv

LEMMA FeedTypes ==
    ASSUME TypeInv, NEW n \in 1..Len(stream), feed(n)
    PROVE  TypeInv'
  <1> DEFINE m == Match(Fed(n))
  <1>1. m \in Matches /\ \E k \in 0..Len(tx_echo) : m.echo = SubSeq(tx_echo, k + 1, Len(tx_echo))
    BY FedType, MatchEcho DEF TypeInv
  <1>2. /\ stream' = SubSeq(stream, n + 1, Len(stream)) /\ tx_echo' = m.echo /\ Draw(m.extra)
        /\ skipped' = skipped \o SubSeq(tx_echo, 1, Len(tx_echo) - Len(m.echo))
        /\ split' \in BOOLEAN /\ leaked' \in BOOLEAN
        /\ UNCHANGED <<echoing, typed, outputs, typings, sendings, honest, trimmed>>
    BY DEF feed, Fed
  <1> HIDE DEF m
  <1>3. lines' \in Seq(Seq(Chars)) /\ partial' \in Seq(Chars) /\ shown' \in [Chars -> Nat]
    BY <1>1, <1>2, DrawType DEF Matches
  <1>4. stream' \in Seq(Sent) /\ tx_echo' \in Seq(Clean)
    BY SMTT(30), <1>1, <1>2 DEF Matches, TypeInv
  <1>5. skipped' \in Seq(Clean)
    <2>1. PICK k \in 0..Len(tx_echo) : m.echo = SubSeq(tx_echo, k + 1, Len(tx_echo))
      BY <1>1
    <2>2. Len(tx_echo) - Len(m.echo) \in 0..Len(tx_echo)
      BY <2>1 DEF TypeInv
    <2> QED BY <1>2, <2>2 DEF TypeInv
  <1> QED BY <1>2, <1>3, <1>4, <1>5 DEF TypeInv

LEMMA SendTypes ==
    ASSUME TypeInv, NEW o \in Outputs, Send(o)
    PROVE  TypeInv'
  <1>1. o \in Seq(Chars)
    BY WireAssumption
  <1>2. stream' \in Seq(Sent)
    <2>1. Tag(o, "seq") \in Seq(Sent) /\ Tag(o, "out") \in Seq(Sent)
      BY <1>1, TagType DEF Origins
    <2> QED BY <2>1 DEF Send, TypeInv
  <1>3. outputs' \in [Chars -> Nat]
    <2>0. \A c \in Chars : Times(c, o) \in Nat
      BY <1>1, TimesType
    <2>1. \A c \in Chars : outputs[c] + Times(c, o) \in Nat
      BY <2>0 DEF TypeInv
    <2> QED BY <2>1 DEF Send, TypeInv
  <1> QED BY <1>2, <1>3 DEF Send, TypeInv, view

\* Every action, once for all proofs.
LEMMA Acts ==
    ASSUME [Next]_vars
    PROVE  \/ \E data \in Keys : note_tx(data)
           \/ \E n \in 1..Len(stream) : feed(n)
           \/ \E o \in Outputs : Send(o)
           \/ SwitchEcho
           \/ UNCHANGED vars
  BY DEF Next

LEMMA TypeStep ==
    ASSUME TypeInv, [Next]_vars
    PROVE  TypeInv'
  <1>1. CASE SwitchEcho
    BY <1>1 DEF SwitchEcho, TypeInv, view, history
  <1>2. CASE UNCHANGED vars
    BY <1>2 DEF vars, TypeInv, view, history
  <1> QED BY <1>1, <1>2, Acts, NoteTypes, FeedTypes, SendTypes

LEMMA TypeInit == Init => TypeInv
  <1> SUFFICES ASSUME Init PROVE TypeInv
    OBVIOUS
  <1>1. /\ <<>> \in Seq(Seq(Chars)) /\ <<>> \in Seq(Chars) /\ <<>> \in Seq(Clean) /\ <<>> \in Seq(Sent)
        /\ [c \in Chars |-> 0] \in [Chars -> Nat]
    OBVIOUS
  <1> QED BY <1>1 DEF Init, TypeInv

\* The types of all that the terminal and the stream to it hold: nothing but
\* drawable text is kept as an echo to come, carriage returns never are
\* (terminal.py 11-24, 62-67).
THEOREM TypesHold == Spec => []TypeInv
  BY TypeInit, TypeStep, PTL DEF Spec

-----------------------------------------------------------------------------
(* Nothing but echoes is skipped.                                          *)

LEMMA NoteOnly ==
    ASSUME TypeInv, OnlyEchoesSkipped, NEW data \in Keys, note_tx(data)
    PROVE  OnlyEchoesSkipped'
  <1> DEFINE enc == StripAnsi(data)
             L == Len(tx_echo)
  <1>1. enc \in Seq(Clean)
    BY WireAssumption, StripType
  <1>2. skipped \in Seq(Clean) /\ tx_echo \in Seq(Clean) /\ typed \in Seq(Clean)
    BY DEF TypeInv
  <1>3. typed' = typed \o enc /\ skipped' = skipped
    BY DEF note_tx
  <1>4. PICK k \in 0..L : tx_echo' = SubSeq(tx_echo, k + 1, L) \o enc
    BY <1>1, <1>2, ExpectKeeps DEF note_tx
  <1> DEFINE kept == SubSeq(tx_echo, k + 1, L)
  <1>5. kept \in Seq(Clean)
    BY <1>2
  <1>6. Subsequence(skipped \o kept, typed)
    BY <1>2, SubsequenceDrop DEF OnlyEchoesSkipped
  <1> HIDE DEF enc, kept
  <1>7. Subsequence((skipped \o kept) \o enc, typed \o enc)
    <2>1. Subsequence(enc, enc)
      BY <1>1, SubsequenceSelf
    <2>2. skipped \o kept \in Seq(Clean)
      BY <1>2, <1>5
    <2> QED BY <1>1, <1>2, <1>6, <2>1, <2>2, SubsequenceConcat
  <1>8. skipped' \o tx_echo' = (skipped \o kept) \o enc
    <2>1. tx_echo' = kept \o enc
      BY <1>4 DEF kept
    <2> QED BY SMTT(30), <1>1, <1>2, <1>3, <1>5, <2>1
  <1> QED BY <1>3, <1>7, <1>8 DEF OnlyEchoesSkipped

LEMMA FeedOnly ==
    ASSUME TypeInv, OnlyEchoesSkipped, NEW n \in 1..Len(stream), feed(n)
    PROVE  OnlyEchoesSkipped'
  <1> DEFINE m == Match(Fed(n))
             L == Len(tx_echo)
  <1>1. PICK k \in 0..L : m.echo = SubSeq(tx_echo, k + 1, L)
    BY FedType, MatchEcho DEF TypeInv
  <1>2. tx_echo' = m.echo /\ skipped' = skipped \o SubSeq(tx_echo, 1, L - Len(m.echo)) /\ typed' = typed
    BY DEF feed, Fed
  <1> HIDE DEF m
  <1>3. skipped \in Seq(Clean) /\ tx_echo \in Seq(Clean) /\ L - Len(m.echo) = k
    BY <1>1 DEF TypeInv
  <1>4. SubSeq(tx_echo, 1, k) \o SubSeq(tx_echo, k + 1, L) = tx_echo
    <2>1. k \in 1 - 1..L /\ L \in k..L /\ 1 \in 1..L + 1 /\ L = Len(tx_echo)
      BY <1>3
    <2> HIDE DEF L
    <2> QED BY <1>3, <2>1, ConcatAdjacentSubSeq, SubSeqFull
  <1>5. skipped' \o tx_echo' = skipped \o (SubSeq(tx_echo, 1, k) \o SubSeq(tx_echo, k + 1, L))
    <2>1. SubSeq(tx_echo, 1, k) \in Seq(Clean) /\ SubSeq(tx_echo, k + 1, L) \in Seq(Clean)
      BY <1>3
    <2>2. skipped' = skipped \o SubSeq(tx_echo, 1, k) /\ tx_echo' = SubSeq(tx_echo, k + 1, L)
      BY <1>1, <1>2, <1>3
    <2> DEFINE A == SubSeq(tx_echo, 1, k)
               B == SubSeq(tx_echo, k + 1, L)
    <2>3. A \in Seq(Clean) /\ B \in Seq(Clean) /\ skipped' = skipped \o A /\ tx_echo' = B
      BY <2>1, <2>2
    <2> HIDE DEF A, B
    <2>4. skipped' \o tx_echo' = skipped \o (A \o B)
      BY SMTT(30), <1>3, <2>3, ConcatAssociative
    <2> QED BY <2>4 DEF A, B
  <1> QED BY <1>2, <1>4, <1>5 DEF OnlyEchoesSkipped

LEMMA OnlyStep ==
    ASSUME TypeInv, OnlyEchoesSkipped, [Next]_vars
    PROVE  OnlyEchoesSkipped'
  <1>1. ASSUME NEW o \in Outputs, Send(o) PROVE OnlyEchoesSkipped'
    BY <1>1 DEF Send, OnlyEchoesSkipped, view
  <1>2. CASE SwitchEcho
    BY <1>2 DEF SwitchEcho, OnlyEchoesSkipped, view, history
  <1>3. CASE UNCHANGED vars
    BY <1>3 DEF vars, OnlyEchoesSkipped, view, history
  <1> QED BY <1>1, <1>2, <1>3, Acts, NoteOnly, FeedOnly

\* feed swallows nothing but characters that were typed, each at most once and
\* in the order typed, whatever the server sends and however often the buffer
\* of expected echoes was cut (terminal.py 62-67, 76-78, 85-88).
THEOREM OnlyEchoesSkippedHolds == Spec => []OnlyEchoesSkipped
  <1>1. Init => OnlyEchoesSkipped
    <2> SUFFICES ASSUME Init PROVE OnlyEchoesSkipped
      OBVIOUS
    <2>1. skipped \o tx_echo = typed /\ typed \in Seq(Clean)
      BY DEF Init
    <2> QED BY <2>1, SubsequenceSelf DEF OnlyEchoesSkipped
  <1>2. TypeInv /\ OnlyEchoesSkipped /\ [Next]_vars => OnlyEchoesSkipped'
    BY OnlyStep
  <1> QED BY <1>1, <1>2, TypesHold, PTL DEF Spec

-----------------------------------------------------------------------------
(* Enter does not move the view.                                           *)

\* The last Rows of buf, blank ones above.
LastRows(buf) == SubSeq([i \in 1..Rows |-> <<>>] \o buf, Len(buf) + 1, Len(buf) + Rows)

\* The lines a full scrollback drops are not among them.
LEMMA ScrollbackKeepsRows ==
    ASSUME NEW buf \in Seq(Seq(Chars)), Len(buf) > MaxLines
    PROVE  LastRows(SubSeq(buf, Len(buf) - MaxLines + 1, Len(buf))) = LastRows(buf)
  <1> DEFINE n == Len(buf)
             cut == SubSeq(buf, n - MaxLines + 1, n)
             pad == [i \in 1..Rows |-> <<>>]
  <1>1. n \in Nat /\ MaxLines \in Nat /\ Rows \in Nat /\ Rows <= MaxLines /\ n > MaxLines
    BY TerminalAssumption
  <1>2. /\ cut \in Seq(Seq(Chars)) /\ Len(cut) = MaxLines
        /\ \A i \in 1..MaxLines : cut[i] = buf[n - MaxLines + i]
    BY <1>1
  <1>3. pad \in Seq(Seq(Chars)) /\ Len(pad) = Rows
    <2>1. <<>> \in Seq(Chars)
      OBVIOUS
    <2> QED BY <1>1, <2>1
  <1> HIDE DEF n, cut, pad
  <1>4. buf \in Seq(Seq(Chars)) /\ Len(buf) = n
    BY DEF n
  <1> DEFINE x == pad \o buf
             y == pad \o cut
  <1>5. /\ x \in Seq(Seq(Chars)) /\ Len(x) = Rows + n
        /\ y \in Seq(Seq(Chars)) /\ Len(y) = Rows + MaxLines
    BY <1>1, <1>2, <1>3, <1>4, ConcatProperties
  <1>6. \A i \in 1..Rows : x[n + i] = buf[n - Rows + i] /\ y[MaxLines + i] = cut[MaxLines - Rows + i]
    <2> SUFFICES ASSUME NEW i \in 1..Rows
                 PROVE  x[n + i] = buf[n - Rows + i] /\ y[MaxLines + i] = cut[MaxLines - Rows + i]
      OBVIOUS
    <2>1. n - Rows + i \in 1..n /\ MaxLines - Rows + i \in 1..MaxLines
      BY <1>1
    <2>2. Rows + (n - Rows + i) = n + i /\ Rows + (MaxLines - Rows + i) = MaxLines + i
      BY <1>1
    <2>3. \A j \in 1..n : x[Rows + j] = buf[j]
      BY <1>1, <1>3, <1>4
    <2>4. \A j \in 1..MaxLines : y[Rows + j] = cut[j]
      BY <1>1, <1>2, <1>3
    <2> HIDE DEF x, y
    <2> QED BY <2>1, <2>2, <2>3, <2>4
  <1>7. \A i \in 1..Rows : x[n + i] = y[MaxLines + i]
    <2> SUFFICES ASSUME NEW i \in 1..Rows PROVE x[n + i] = y[MaxLines + i]
      OBVIOUS
    <2>1. MaxLines - Rows + i \in 1..MaxLines /\ n - MaxLines + (MaxLines - Rows + i) = n - Rows + i
      BY <1>1
    <2> HIDE DEF x, y
    <2> QED BY <1>2, <1>6, <2>1
  <1> DEFINE u == SubSeq(x, n + 1, n + Rows)
             v == SubSeq(y, MaxLines + 1, MaxLines + Rows)
  <1> HIDE DEF x, y
  <1>8. /\ u \in Seq(Seq(Chars)) /\ Len(u) = Rows /\ \A i \in 1..Rows : u[i] = x[n + i]
        /\ v \in Seq(Seq(Chars)) /\ Len(v) = Rows /\ \A i \in 1..Rows : v[i] = y[MaxLines + i]
    BY <1>1, <1>5
  <1>9. u = v
    <2> HIDE DEF u, v
    <2> QED BY <1>7, <1>8, SeqEqual
  <1> QED BY <1>2, <1>4, <1>9 DEF LastRows, x, y, pad, cut, n

LEMMA EnterStep ==
    ASSUME TypeInv, [Next]_vars, partial # <<>>, partial' = <<>>, typed' = Append(typed, "nl")
    PROVE  VisibleLines' = VisibleLines
  <1>0. typed \in Seq(Clean) /\ lines \in Seq(Seq(Chars)) /\ partial \in Seq(Chars) /\ typed' # typed
    <2>1. typed \in Seq(Clean)
      BY DEF TypeInv
    <2>2. Len(Append(typed, "nl")) # Len(typed)
      BY <2>1
    <2> QED BY <2>2 DEF TypeInv
  <1>1. PICK data \in Keys : note_tx(data)
    BY <1>0, Acts DEF feed, Send, SwitchEcho, vars, view, history
  <1> DEFINE enc == StripAnsi(data)
  <1>2. enc \in Seq(Clean)
    BY WireAssumption, StripType
  <1>3. enc = <<"nl">>
    <2>1. typed \o enc = Append(typed, "nl")
      BY <1>1 DEF note_tx
    <2> HIDE DEF enc
    <2>2. Append(typed, "nl") = typed \o <<"nl">> /\ <<"nl">> \in Seq(Chars)
      BY <1>0, AppendIsConcat DEF Chars, Clean
    <2>3. enc \in Seq(Chars) /\ typed \in Seq(Chars)
      BY <1>0, <1>2, CleanChars
    <2>4. Len(enc) = 1
      <3>1. Len(typed \o enc) = Len(typed) + Len(enc) /\ Len(typed \o <<"nl">>) = Len(typed) + 1
        BY <2>2, <2>3
      <3>2. Len(typed) \in Nat /\ Len(enc) \in Nat
        BY <2>3
      <3>3. Len(typed \o enc) = Len(typed \o <<"nl">>)
        BY <2>1, <2>2
      <3>4. Len(typed) + Len(enc) = Len(typed) + 1
        BY <3>1, <3>3
      <3>5. \A i, j \in Nat : i + j = i + 1 => j = 1
        OBVIOUS
      <3> QED BY <3>2, <3>4, <3>5, Zenon
    <2>5. enc[1] = "nl"
      <3>1. Len(typed) + 1 \in 1..Len(typed) + 1 /\ ~(Len(typed) + 1 <= Len(typed))
            /\ Len(typed) + 1 - Len(typed) = 1
        BY <2>3
      <3>2. (typed \o enc)[Len(typed) + 1] = enc[1]
        BY <2>3, <2>4, <3>1, ConcatProperties
      <3>3. Append(typed, "nl")[Len(typed) + 1] = "nl"
        BY <2>3
      <3> QED BY <2>1, <3>2, <3>3
    <2> QED BY <2>3, <2>4, <2>5
  <1> DEFINE t == [lines |-> lines, partial |-> partial]
             buf == lines \o Pieces(partial)
  <1>4. ApplyText(<<"nl">>) = Commit(t)
    <2> DEFINE text == <<"nl">>
    <2>1. text \in Seq(Chars) /\ Len(text) = 1 /\ text[1] = "nl"
      BY DEF Chars
    <2> HIDE DEF text
    <2>2. PICK after \in [0..1 -> Views] :
             after[0] = t /\ ApplyText(text) = after[1] /\ after[1] = ApplyChar(after[0], text[1])
      <3>1. 1 \in 1..Len(text) /\ 1 - 1 = 0
        BY <2>1
      <3> QED BY <1>0, <2>1, <3>1, ApplySteps
    <2>3. ApplyChar(t, "nl") = Commit(t)
      BY DEF ApplyChar, Printable, Letters
    <2> QED BY <2>1, <2>2, <2>3 DEF text
  <1>5. lines' = PushAll(lines, Pieces(partial), MaxLines)
    <2>1. lines' = ApplyText(enc).lines
      BY <1>1 DEF note_tx, Draw
    <2> HIDE DEF enc
    <2> QED BY <1>3, <1>4, <2>1 DEF Commit
  <1>6. Pieces(partial) \in Seq(Seq(Chars)) /\ MaxLines \in Nat
    BY <1>0, PiecesType, TerminalAssumption
  <1>7. buf \in Seq(Seq(Chars))
    BY <1>0, <1>6
  <1>8. lines' = IF Len(buf) <= MaxLines THEN buf ELSE SubSeq(buf, Len(buf) - MaxLines + 1, Len(buf))
    BY <1>0, <1>5, <1>6, PushType
  <1>9. VisibleLines = LastRows(buf)
    BY DEF VisibleLines, LastRows
  <1> HIDE DEF buf
  <1>10. lines' \in Seq(Seq(Chars)) /\ lines' \o <<>> = lines'
    BY <1>6, <1>7, <1>8
  <1>11. VisibleLines' = LastRows(lines')
    BY <1>10 DEF VisibleLines, LastRows
  <1>12. LastRows(lines') = LastRows(buf)
    <2>1. CASE Len(buf) <= MaxLines
      BY <1>8, <2>1
    <2>2. CASE Len(buf) > MaxLines
      <3>1. lines' = SubSeq(buf, Len(buf) - MaxLines + 1, Len(buf))
        BY <1>6, <1>7, <1>8, <2>2
      <3> QED BY <1>7, <2>2, <3>1, ScrollbackKeepsRows
    <2> QED BY <1>6, <1>7, <2>1, <2>2
  <1> QED BY <1>9, <1>11, <1>12

\* Enter leaves what is on the screen where it is, on a screen of any size and
\* with a scrollback full or not (terminal.py 36-47, 92-103).
THEOREM EnterKeepsViewHolds == Spec => EnterKeepsView
  <1>1. TypeInv /\ [Next]_vars =>
            [partial # <<>> /\ partial' = <<>> /\ typed' = Append(typed, "nl")
                => VisibleLines' = VisibleLines]_vars
    BY EnterStep
  <1> QED BY <1>1, TypesHold, PTL DEF Spec, EnterKeepsView

-----------------------------------------------------------------------------
(* What is on the wire: text and whole control sequences, of which only    *)
(* the one under way may have lost its beginning.                          *)

\* After x the scanner is in text if it saw all of x's sequence.
Closes(x) == x.of # "seq" \/ x.c \in Letters
Opens(x) == x.of # "seq" \/ x.c = "esc"
\* The esc of an escape of another kind, which text goes on after.
Awaits(x) == x.of # "seq" /\ x.c = "esc"
Follows(x, y) ==
    /\ IF Closes(x) THEN Opens(y)
       ELSE y.of = "seq" /\ IF x.c = "esc" THEN y.c = "[" ELSE y.c \in {"1"} \cup Letters
    /\ Awaits(x) => y.of # "seq" /\ y.c # "["

Fits(x) == x.of = "seq" => x.c \in {"esc", "[", "1"} \cup Letters

Ends(x) == Closes(x) /\ ~Awaits(x)

Wire(s) ==
    /\ \A i \in 1..Len(s) : Fits(s[i])
    /\ \A i \in 1..Len(s) - 1 : Follows(s[i], s[i + 1])
    /\ s # <<>> => Ends(s[Len(s)])

WireInv ==
    /\ Wire(stream)
    /\ ~split => ~leaked /\ (stream # <<>> => Opens(stream[1]))

LEMMA WireAppend ==
    ASSUME NEW s \in Seq(Sent), NEW t \in Seq(Sent), Wire(s), Wire(t), t # <<>> => Opens(t[1])
    PROVE  /\ Wire(s \o t)
           /\ (s # <<>> => Opens(s[1])) => (s \o t # <<>> => Opens((s \o t)[1]))
  <1> DEFINE x == s \o t
             ls == Len(s)
             lt == Len(t)
  <1>1. /\ ls \in Nat /\ lt \in Nat /\ Len(x) = ls + lt /\ x \in Seq(Sent)
        /\ \A i \in 1..ls : x[i] = s[i]
        /\ \A i \in 1..lt : x[ls + i] = t[i]
        /\ s = <<>> <=> ls = 0
        /\ t = <<>> <=> lt = 0
        /\ x = <<>> <=> Len(x) = 0
    OBVIOUS
  <1>s. /\ \A i \in 1..ls : Fits(s[i])
        /\ \A i \in 1..ls - 1 : Follows(s[i], s[i + 1])
        /\ ls # 0 => Ends(s[ls])
    BY <1>1 DEF Wire
  <1>t. /\ \A i \in 1..lt : Fits(t[i])
        /\ \A i \in 1..lt - 1 : Follows(t[i], t[i + 1])
        /\ lt # 0 => Ends(t[lt]) /\ Opens(t[1])
    BY <1>1 DEF Wire
  <1> HIDE DEF x, ls, lt
  <1>2. \A i \in 1..ls + lt : i \in 1..ls \/ (i - ls \in 1..lt /\ x[i] = t[i - ls])
    <2> SUFFICES ASSUME NEW i \in 1..ls + lt, i \notin 1..ls PROVE i - ls \in 1..lt /\ x[i] = t[i - ls]
      OBVIOUS
    <2>1. i - ls \in 1..lt /\ ls + (i - ls) = i
      BY <1>1
    <2> QED BY <1>1, <2>1
  <1>3. \A i \in 1..ls + lt : Fits(x[i])
    BY <1>1, <1>2, <1>s, <1>t
  <1>4. ASSUME NEW i \in 1..ls + lt - 1 PROVE Follows(x[i], x[i + 1])
    <2>1. CASE i \in 1..ls - 1
      <3>1. i \in 1..ls /\ i + 1 \in 1..ls
        BY <1>1, <2>1
      <3> QED BY <1>1, <1>s, <2>1, <3>1
    <2>2. CASE i = ls
      <3>1. ls \in 1..ls /\ 1 \in 1..lt /\ ls # 0 /\ lt # 0
        BY <1>1, <2>2
      <3>2. x[i] = s[ls] /\ x[i + 1] = t[1]
        BY <1>1, <2>2, <3>1
      <3> QED BY <1>s, <1>t, <3>1, <3>2 DEF Follows, Ends
    <2>3. CASE i > ls
      <3>1. i - ls \in 1..lt - 1 /\ (i + 1) - ls = (i - ls) + 1 /\ i \in 1..ls + lt /\ i + 1 \in 1..ls + lt
            /\ i \notin 1..ls /\ i + 1 \notin 1..ls
        BY <1>1, <2>3
      <3>2. x[i] = t[i - ls] /\ x[i + 1] = t[(i - ls) + 1]
        BY <1>2, <3>1
      <3> QED BY <1>t, <3>1, <3>2
    <2> QED BY <1>1, <2>1, <2>2, <2>3
  <1>5. ls + lt # 0 => Ends(x[ls + lt])
    <2>1. CASE lt = 0
      <3>1. ls # 0 => ls \in 1..ls /\ ls + lt = ls
        BY <1>1, <2>1
      <3> QED BY <1>1, <1>s, <2>1, <3>1
    <2>2. CASE lt # 0
      <3>1. lt \in 1..lt
        BY <1>1, <2>2
      <3> QED BY <1>1, <1>t, <2>2, <3>1
    <2> QED BY <2>1, <2>2
  <1>6. Wire(x)
    BY <1>1, <1>3, <1>4, <1>5 DEF Wire
  <1>7. (s # <<>> => Opens(s[1])) => (x # <<>> => Opens(x[1]))
    <2> SUFFICES ASSUME s # <<>> => Opens(s[1]), x # <<>> PROVE Opens(x[1])
      OBVIOUS
    <2>1. CASE ls # 0
      <3>1. 1 \in 1..ls
        BY <1>1, <2>1
      <3> QED BY <1>1, <2>1, <3>1
    <2>2. CASE ls = 0
      <3>1. 1 \in 1..lt /\ ls + 1 = 1 /\ lt # 0
        BY <1>1, <2>2
      <3>2. x[1] = t[1]
        BY <1>1, <3>1
      <3> QED BY <1>t, <3>1, <3>2
    <2> QED BY <2>1, <2>2
  <1> QED BY <1>6, <1>7 DEF x

\* Text fits anywhere between two sequences.
LEMMA WireText ==
    ASSUME NEW cs \in Seq(Chars), NEW of \in Origins \ {"seq"}, IsText(cs)
    PROVE  LET t == Tag(cs, of) IN Wire(t) /\ (t # <<>> => Opens(t[1]))
  <1> DEFINE t == Tag(cs, of)
             n == Len(cs)
  <1>1. t \in Seq(Sent) /\ Len(t) = n /\ \A i \in 1..n : t[i] = [c |-> cs[i], of |-> of]
    BY TagType
  <1>2. n \in Nat /\ \A i \in 1..n : cs[i] = "esc" => i < n /\ cs[i + 1] # "["
    <2>1. n \in Nat /\ DOMAIN cs = 1..n
      OBVIOUS
    <2>2. \A i \in DOMAIN cs : cs[i] = "esc" => i < n /\ cs[i + 1] # "["
      BY Zenon DEF IsText
    <2> HIDE DEF n
    <2> QED BY <2>1, <2>2
  <1> HIDE DEF t, n
  <1>3. \A i \in 1..n : t[i].of # "seq" /\ t[i].c = cs[i]
    BY <1>1
  <1>4. \A i \in 1..n : Fits(t[i]) /\ Opens(t[i]) /\ Closes(t[i])
    BY <1>3 DEF Fits, Opens, Closes
  <1>5. ASSUME NEW i \in 1..n - 1 PROVE Follows(t[i], t[i + 1])
    <2>1. i \in 1..n /\ i + 1 \in 1..n
      BY <1>2
    <2>2. Awaits(t[i]) => t[i + 1].of # "seq" /\ t[i + 1].c # "["
      BY <1>2, <1>3, <2>1 DEF Awaits
    <2> QED BY <1>4, <2>1, <2>2 DEF Follows
  <1>6. n # 0 => 1 \in 1..n /\ n \in 1..n /\ Ends(t[n])
    <2> SUFFICES ASSUME n # 0 PROVE 1 \in 1..n /\ n \in 1..n /\ Ends(t[n])
      OBVIOUS
    <2>1. 1 \in 1..n /\ n \in 1..n /\ ~(n < n)
      BY <1>2
    <2>2. ~Awaits(t[n])
      BY <1>2, <1>3, <2>1 DEF Awaits
    <2> QED BY <1>4, <2>1, <2>2 DEF Ends
  <1>7. t # <<>> <=> n # 0
    BY <1>1
  <1>8. Wire(t) /\ (t # <<>> => Opens(t[1]))
    BY <1>1, <1>4, <1>5, <1>6, <1>7 DEF Wire
  <1> QED BY <1>8 DEF t

LEMMA WireSequence ==
    ASSUME NEW o \in Seq(Chars), IsSequence(o)
    PROVE  LET t == Tag(o, "seq") IN Wire(t) /\ (t # <<>> => Opens(t[1]))
  <1> DEFINE t == Tag(o, "seq")
             n == Len(o)
  <1>1. t \in Seq(Sent) /\ Len(t) = n /\ \A i \in 1..n : t[i] = [c |-> o[i], of |-> "seq"]
    BY TagType DEF Origins
  <1>2. /\ n \in Nat /\ n >= 3 /\ o[1] = "esc" /\ o[2] = "["
        /\ \A i \in 3..n - 1 : o[i] = "1"
        /\ o[n] \in Letters
    BY DEF IsSequence
  <1> HIDE DEF t, n
  <1>3. \A i \in 1..n : t[i].of = "seq" /\ t[i].c = o[i]
    BY <1>1
  <1>4. \A i \in 1..n : Fits(t[i])
    <2> SUFFICES ASSUME NEW i \in 1..n PROVE Fits(t[i])
      OBVIOUS
    <2>1. i = 1 \/ i = 2 \/ i \in 3..n - 1 \/ i = n
      BY <1>2
    <2>2. o[i] \in {"esc", "[", "1"} \cup Letters
      BY <1>2, <2>1
    <2> QED BY <1>3, <2>2 DEF Fits
  <1>5. ASSUME NEW i \in 1..n - 1 PROVE Follows(t[i], t[i + 1])
    <2>1. i \in 1..n /\ i + 1 \in 1..n
      BY <1>2
    <2>2. t[i].of = "seq" /\ t[i].c = o[i] /\ t[i + 1].of = "seq" /\ t[i + 1].c = o[i + 1]
      BY <1>3, <2>1
    <2>3. CASE i = 1
      BY <1>2, <2>2, <2>3 DEF Follows, Closes, Awaits, Letters
    <2>4. CASE i # 1
      <3>1. (i = 2 \/ i \in 3..n - 1) /\ (i + 1 \in 3..n - 1 \/ i + 1 = n)
        BY <1>2, <2>4
      <3>2. o[i] \in {"[", "1"} /\ o[i + 1] \in {"1"} \cup Letters
        BY <1>2, <3>1
      <3> QED BY <2>2, <3>2 DEF Follows, Closes, Awaits, Letters
    <2> QED BY <2>3, <2>4
  <1>6. Ends(t[n]) /\ Opens(t[1])
    <2>1. 1 \in 1..n /\ n \in 1..n
      BY <1>2
    <2> QED BY <1>2, <1>3, <2>1 DEF Closes, Opens, Ends, Awaits
  <1>7. Wire(t)
    BY <1>1, <1>4, <1>5, <1>6 DEF Wire
  <1> QED BY <1>6, <1>7 DEF t

\* The scanner is inside a sequence only where one is.
LEMMA ScannerInside ==
    ASSUME stream \in Seq(Sent), Wire(stream), NEW n \in 1..Len(stream)
    PROVE  \A i \in 0..n : Scanner(Fed(n))[i] # "text" =>
               /\ i > 0 /\ ~Closes(stream[i])
               /\ Scanner(Fed(n))[i] = "intro" <=> stream[i].c = "esc"
  <1> DEFINE d == Fed(n)
             at == Scanner(d)
             In(i) == at[i] # "text" => i > 0 /\ ~Closes(stream[i])
                                        /\ (at[i] = "intro" <=> stream[i].c = "esc")
             P == {i \in 0..n : In(i)}
  <1>1. d \in Seq(Chars) /\ Len(d) = n /\ \A i \in 1..n : d[i] = stream[i].c
    BY FedType
  <1>2. at[0] = "text" /\ (\A i \in 0..n : at[i] \in Modes) /\ \A i \in 1..n : at[i] = NextMode(d, at[i - 1], i)
    BY <1>1, ScannerSteps
  <1>3. n \in Nat /\ \A i \in 1..n : i \in 1..Len(stream) /\ Fits(stream[i])
    BY DEF Wire
  <1> HIDE DEF d, at
  <1>4. 0 \in P
    BY <1>2, <1>3
  <1>5. ASSUME NEW i \in 1..n, i - 1 \in P PROVE i \in P
    <2> DEFINE y == stream[i]
               x == stream[i - 1]
    <2>1. i - 1 \in 0..n /\ In(i - 1) /\ d[i] = y.c /\ Fits(y)
          /\ at[i] = NextMode(d, at[i - 1], i) /\ at[i - 1] \in Modes
      BY <1>1, <1>2, <1>3, <1>5
    <2>2. CASE at[i - 1] = "text"
      <3> SUFFICES ASSUME at[i] # "text" PROVE In(i)
        OBVIOUS
      <3>1. at[i] = "intro" /\ y.c = "esc" /\ i < n /\ d[i + 1] = "["
        BY <1>1, <2>1, <2>2 DEF NextMode
      <3>2. i \in 1..Len(stream) - 1 /\ i + 1 \in 1..n
        BY <1>3, <3>1
      <3>3. Follows(y, stream[i + 1]) /\ stream[i + 1].c = "["
        BY <1>1, <3>1, <3>2 DEF Wire
      <3>4. ~Closes(y)
        BY <3>1, <3>3 DEF Follows, Awaits, Closes, Letters
      <3> QED BY <1>3, <3>1, <3>4
    <2>3. CASE at[i - 1] # "text"
      <3>1. i - 1 \in 1..Len(stream) - 1 /\ (i - 1) + 1 = i /\ ~Closes(x)
            /\ (at[i - 1] = "intro" <=> x.c = "esc")
        BY <1>3, <2>1, <2>3
      <3>2. Follows(x, y)
        BY <3>1 DEF Wire
      <3>3. y.of = "seq" /\ IF x.c = "esc" THEN y.c = "[" ELSE y.c \in {"1"} \cup Letters
        BY <3>1, <3>2 DEF Follows
      <3>4. CASE at[i - 1] = "intro"
        <4>1. at[i] = "params" /\ y.c = "["
          BY <2>1, <3>1, <3>3, <3>4 DEF NextMode
        <4>2. In(i)
          BY <3>3, <4>1 DEF Closes, Letters
        <4> QED BY <4>2
      <3>5. CASE at[i - 1] = "params"
        <4>1. at[i] = IF y.c \in Letters \cup {"["} THEN "text" ELSE "params"
          BY <2>1, <3>5 DEF NextMode
        <4>2. y.c \in {"1"} \cup Letters
          BY <3>1, <3>3, <3>5
        <4>3. In(i)
          BY <4>1, <4>2, <3>3 DEF Closes, Letters
        <4> QED BY <4>3
      <3> QED BY <2>1, <2>3, <3>4, <3>5 DEF Modes
    <2> QED BY <2>2, <2>3
  <1>6. \A i \in 0..n : i \in P
    <2> HIDE DEF P
    <2> QED BY <1>3, <1>4, <1>5, IntervalInduction
  <1> QED BY <1>6 DEF d, at

\* Text is text for feed, also where a chunk begins or ends inside a sequence.
LEMMA TextIsFed ==
    ASSUME stream \in Seq(Sent), Wire(stream), NEW n \in 1..Len(stream), NEW i \in 1..n,
           stream[i].of # "seq", stream[i].c # "cr"
    PROVE  i \in TextAt(Fed(n))
  <1> DEFINE d == Fed(n)
             at == Scanner(d)
  <1>1. d \in Seq(Chars) /\ Len(d) = n /\ d[i] = stream[i].c /\ i - 1 \in 0..n /\ i \in 0..n /\ n \in Nat
    BY FedType
  <1>2. at[i] = "text"
    BY <1>1, ScannerInside DEF Closes
  <1>3. at[i - 1] = "text"
    <2> SUFFICES ASSUME at[i - 1] # "text" PROVE FALSE
      OBVIOUS
    <2>1. i - 1 > 0 /\ ~Closes(stream[i - 1])
      BY <1>1, ScannerInside
    <2>2. i - 1 \in 1..Len(stream) - 1 /\ (i - 1) + 1 = i
      BY <2>1
    <2>3. Follows(stream[i - 1], stream[i])
      BY <2>2 DEF Wire
    <2> QED BY <2>1, <2>3 DEF Follows
  <1>4. i \in DOMAIN d
    BY <1>1
  <1> HIDE DEF d
  <1> QED BY <1>1, <1>2, <1>3, <1>4 DEF TextAt, d

\* No part of a sequence is text in a chunk that begins and ends outside one.
LEMMA SequencesAreHidden ==
    ASSUME stream \in Seq(Sent), Wire(stream), NEW n \in 1..Len(stream),
           Opens(stream[1]), Closes(stream[n]), NEW i \in TextAt(Fed(n))
    PROVE  stream[i].of # "seq"
  <1> DEFINE d == Fed(n)
             at == Scanner(d)
             In(j) == j > 0 /\ ~Closes(stream[j]) => at[j] # "text"
             P == {j \in 0..n : In(j)}
  <1>1. d \in Seq(Chars) /\ Len(d) = n /\ \A j \in 1..n : d[j] = stream[j].c
    BY FedType
  <1>2. at[0] = "text" /\ (\A j \in 0..n : at[j] \in Modes) /\ \A j \in 1..n : at[j] = NextMode(d, at[j - 1], j)
    BY <1>1, ScannerSteps
  <1>3. n \in Nat /\ Len(stream) \in Nat /\ n <= Len(stream)
        /\ (\A j \in 1..n : Fits(stream[j])) /\ \A j \in 1..Len(stream) - 1 : Follows(stream[j], stream[j + 1])
    BY DEF Wire
  <1>4. \A j \in 0..n : at[j] # "text" => j > 0 /\ ~Closes(stream[j]) /\ (at[j] = "intro" <=> stream[j].c = "esc")
    BY ScannerInside
  <1>5. i \in 1..n /\ at[i - 1] = "text" /\ at[i] = "text"
    <2>1. i \in DOMAIN d /\ at[i - 1] = "text" /\ at[i] = "text"
      BY DEF TextAt
    <2> QED BY <1>1, <2>1
  <1> HIDE DEF d, at
  <1>6. 0 \in P
    BY <1>3
  <1>7. ASSUME NEW j \in 1..n, j - 1 \in P PROVE j \in P
    <2> DEFINE y == stream[j]
               x == stream[j - 1]
    <2> SUFFICES ASSUME ~Closes(y) PROVE at[j] # "text"
      OBVIOUS
    <2>1. j - 1 \in 0..n /\ In(j - 1) /\ d[j] = y.c /\ Fits(y)
          /\ at[j] = NextMode(d, at[j - 1], j) /\ at[j - 1] \in Modes
      BY <1>1, <1>2, <1>3, <1>7
    <2>2. CASE y.c = "esc"
      <3>1. at[j - 1] = "text"
        <4> SUFFICES ASSUME at[j - 1] # "text" PROVE FALSE
          OBVIOUS
        <4>1. j - 1 > 0 /\ ~Closes(x)
          BY <1>4, <2>1
        <4>2. j - 1 \in 1..Len(stream) - 1 /\ (j - 1) + 1 = j
          BY <1>3, <4>1
        <4>3. Follows(x, y)
          BY <1>3, <4>2
        <4> QED BY <2>2, <4>1, <4>3 DEF Follows, Letters
      <3>2. j # n
        OBVIOUS
      <3>3. j \in 1..Len(stream) - 1 /\ j + 1 \in 1..n
        BY <1>3, <3>2
      <3>4. d[j + 1] = "["
        <4>1. Follows(y, stream[j + 1])
          BY <1>3, <3>3
        <4> QED BY <1>1, <2>2, <3>3, <4>1 DEF Follows
      <3>5. j < Len(d)
        BY <1>1, <1>3, <3>2
      <3> QED BY <2>1, <2>2, <3>1, <3>4, <3>5 DEF NextMode
    <2>3. CASE y.c # "esc"
      <3>1. y.of = "seq" /\ y.c \in {"[", "1"}
        BY <2>1, <2>3 DEF Fits, Closes
      <3>2. j # 1
        BY <3>1 DEF Opens
      <3>3. j - 1 \in 1..Len(stream) - 1 /\ (j - 1) + 1 = j
        BY <1>3, <3>2
      <3>4. Follows(x, y)
        BY <1>3, <3>3
      <3>5. ~Closes(x)
        BY <2>3, <3>1, <3>4 DEF Follows, Opens
      <3>6. at[j - 1] # "text"
        BY <2>1, <3>3, <3>5
      <3>7. at[j - 1] = "intro" <=> x.c = "esc"
        BY <1>4, <2>1, <3>6
      <3>8. CASE at[j - 1] = "intro"
        BY <2>1, <3>8 DEF NextMode
      <3>9. CASE at[j - 1] = "params"
        <4>1. y.c = "1"
          BY <3>1, <3>4, <3>5, <3>7, <3>9 DEF Follows, Letters
        <4> QED BY <2>1, <3>9, <4>1 DEF NextMode, Letters
      <3> QED BY <2>1, <3>6, <3>8, <3>9 DEF Modes
    <2> QED BY <2>2, <2>3
  <1>8. \A j \in 0..n : j \in P
    <2> HIDE DEF P
    <2> QED BY <1>3, <1>6, <1>7, IntervalInduction
  <1> SUFFICES ASSUME stream[i].of = "seq" PROVE FALSE
    OBVIOUS
  <1>9. Closes(stream[i]) /\ i - 1 \in 0..n
    BY <1>3, <1>5, <1>8
  <1>10. ~Opens(stream[i])
    BY <1>9 DEF Closes, Opens, Letters
  <1>11. i - 1 \in 1..Len(stream) - 1 /\ (i - 1) + 1 = i
    BY <1>3, <1>5, <1>10
  <1>12. Follows(stream[i - 1], stream[i])
    BY <1>3, <1>11
  <1>13. ~Closes(stream[i - 1])
    BY <1>10, <1>12 DEF Follows
  <1> QED BY <1>5, <1>8, <1>9, <1>11, <1>13

LEMMA NoteWire ==
    ASSUME TypeInv, WireInv, NEW data \in Keys, note_tx(data)
    PROVE  WireInv'
  <1> DEFINE t == Tag(FlattenSeq(Echoes(data)), "echo")
  <1>1. t \in Seq(Sent) /\ Wire(t) /\ (t # <<>> => Opens(t[1]))
    <2>1. FlattenSeq(Echoes(data)) \in Seq(Chars) /\ FlattenSeq(Echoes(data)) \in Seq(Plain)
      BY WireAssumption, EchoType
    <2>2. IsText(FlattenSeq(Echoes(data)))
      BY <2>1 DEF Plain, IsText
    <2> QED BY <2>1, <2>2, TagType, WireText DEF Origins
  <1>2. stream' = IF echoing THEN stream \o t ELSE stream
    BY DEF note_tx, Echoes
  <1>3. split' = split /\ leaked' = leaked
    BY DEF note_tx
  <1> HIDE DEF t
  <1>4. Wire(stream \o t) /\ ((stream # <<>> => Opens(stream[1])) => (stream \o t # <<>> => Opens((stream \o t)[1])))
    BY <1>1, WireAppend DEF TypeInv, WireInv
  <1>5. CASE echoing
    <2>1. stream' = stream \o t
      BY <1>2, <1>5
    <2> QED BY <1>3, <1>4, <2>1 DEF WireInv
  <1>6. CASE ~echoing
    <2>1. stream' = stream
      BY <1>2, <1>6
    <2> QED BY <1>3, <2>1 DEF WireInv
  <1> QED BY <1>5, <1>6

LEMMA SendWire ==
    ASSUME TypeInv, WireInv, NEW o \in Outputs, Send(o)
    PROVE  WireInv'
  <1> DEFINE of == IF IsSequence(o) THEN "seq" ELSE "out"
             t == Tag(o, of)
  <1>1. o \in Seq(Chars) /\ (IsSequence(o) \/ IsText(o))
    BY WireAssumption
  <1>2. of \in Origins /\ t \in Seq(Sent)
    BY <1>1, TagType DEF Origins
  <1>3. Wire(t) /\ (t # <<>> => Opens(t[1]))
    <2>1. CASE IsSequence(o)
      BY <1>1, <2>1, WireSequence
    <2>2. CASE ~IsSequence(o)
      <3>1. IsText(o) /\ of \in Origins \ {"seq"}
        BY <1>1, <2>2 DEF Origins
      <3> QED BY <1>1, <3>1, WireText
    <2> QED BY <2>1, <2>2
  <1>4. stream' = stream \o t /\ split' = split /\ leaked' = leaked
    BY DEF Send
  <1> HIDE DEF of, t
  <1>5. Wire(stream \o t) /\ ((stream # <<>> => Opens(stream[1])) => (stream \o t # <<>> => Opens((stream \o t)[1])))
    BY <1>2, <1>3, WireAppend DEF TypeInv, WireInv
  <1> QED BY <1>4, <1>5 DEF WireInv

LEMMA FeedWire ==
    ASSUME TypeInv, WireInv, NEW n \in 1..Len(stream), feed(n)
    PROVE  WireInv'
  <1> DEFINE L == Len(stream)
             rest == SubSeq(stream, n + 1, L)
  <1>1. /\ stream' = rest
        /\ split' = (split \/ CutsSequence(n))
        /\ leaked' = (leaked \/ \E i \in TextAt(Fed(n)) : stream[i].of = "seq")
    BY DEF feed, Fed
  <1>2. L \in Nat /\ n \in 1..L /\ stream \in Seq(Sent) /\ Wire(stream)
    BY DEF TypeInv, WireInv
  <1>3. Len(rest) = L - n /\ (rest = <<>> <=> n = L) /\ \A i \in 1..L - n : rest[i] = stream[n + i]
    BY <1>2, Suffix
  <1>4. /\ \A i \in 1..L : Fits(stream[i])
        /\ \A i \in 1..L - 1 : Follows(stream[i], stream[i + 1])
        /\ Ends(stream[L])
    BY <1>2 DEF Wire
  <1> HIDE DEF L, rest
  <1>5. Wire(rest)
    <2>1. \A i \in 1..L - n : Fits(rest[i])
      <3>1. \A i \in 1..L - n : n + i \in 1..L
        BY <1>2
      <3> QED BY <1>3, <1>4, <3>1
    <2>2. \A i \in 1..(L - n) - 1 : Follows(rest[i], rest[i + 1])
      <3> SUFFICES ASSUME NEW i \in 1..(L - n) - 1 PROVE Follows(rest[i], rest[i + 1])
        OBVIOUS
      <3>1. n + i \in 1..L - 1 /\ i \in 1..L - n /\ i + 1 \in 1..L - n /\ n + (i + 1) = (n + i) + 1
        BY <1>2
      <3> QED BY <1>3, <1>4, <3>1
    <2>3. n # L => Ends(rest[L - n])
      <3> SUFFICES ASSUME n # L PROVE Ends(rest[L - n])
        OBVIOUS
      <3>1. \A i, j \in Nat : i \in 1..j /\ i # j => j - i \in 1..j - i /\ i + (j - i) = j
        OBVIOUS
      <3>2. L - n \in 1..L - n /\ n + (L - n) = L
        BY <1>2, <3>1
      <3> QED BY <1>3, <1>4, <3>2
    <2> QED BY <1>3, <2>1, <2>2, <2>3 DEF Wire
  <1>6. ASSUME ~split' PROVE ~leaked' /\ (rest # <<>> => Opens(rest[1]))
    <2>1. ~split /\ Closes(stream[n])
      BY <1>1, <1>6 DEF CutsSequence, Closes
    <2>2. ~leaked /\ Opens(stream[1])
      <3>1. stream # <<>>
        BY <1>2 DEF L
      <3> QED BY <2>1, <3>1 DEF WireInv
    <2>3. ~leaked'
      BY <1>1, <1>2, <2>1, <2>2, SequencesAreHidden
    <2>4. rest # <<>> => Opens(rest[1])
      <3> SUFFICES ASSUME n # L PROVE Opens(rest[1])
        BY <1>3
      <3>1. n \in 1..L - 1 /\ 1 \in 1..L - n
        BY <1>2
      <3>2. Follows(stream[n], rest[1])
        BY <1>3, <1>4, <3>1
      <3> QED BY <2>1, <3>2 DEF Follows
    <2> QED BY <2>3, <2>4
  <1> QED BY <1>1, <1>5, <1>6 DEF WireInv

LEMMA WireStep ==
    ASSUME TypeInv, WireInv, [Next]_vars
    PROVE  WireInv'
  <1>1. CASE SwitchEcho
    BY <1>1 DEF SwitchEcho, WireInv, view, history
  <1>2. CASE UNCHANGED vars
    BY <1>2 DEF vars, WireInv, view, history
  <1> QED BY <1>1, <1>2, Acts, NoteWire, FeedWire, SendWire

\* The stream holds text and whole sequences but for the one under way.
LEMMA WireHolds == Spec => []WireInv
  <1>1. Init => WireInv
    BY DEF Init, WireInv, Wire
  <1>2. TypeInv /\ WireInv /\ [Next]_vars => WireInv'
    BY WireStep
  <1> QED BY <1>1, <1>2, TypesHold, PTL DEF Spec

\* No part of a control sequence is drawn, of any length, between text with any
\* other escapes and in chunks of any size, as long as no chunk ends inside one
\* (terminal.py 11-24).
THEOREM SequencesHiddenHolds == Spec => []SequencesHidden
  <1>1. WireInv => SequencesHidden
    BY DEF WireInv, SequencesHidden
  <1> QED BY <1>1, WireHolds, PTL

-----------------------------------------------------------------------------
(* Expected echoes are on their way.                                       *)

\* f says where in the stream s each of the expected echoes e is.
Ahead(f, e, s) ==
    /\ f \in [DOMAIN e -> DOMAIN s]
    /\ \A i, j \in DOMAIN e : i < j => f[i] < f[j]
    /\ \A i \in DOMAIN e : s[f[i]] = [c |-> e[i], of |-> "echo"]

LEMMA EchoesAhead ==
    ASSUME NEW e \in Seq(Clean), NEW s
    PROVE  Subsequence(Tag(e, "echo"), s) <=> \E f : Ahead(f, e, s)
  <1> DEFINE t == Tag(e, "echo")
  <1>1. DOMAIN t = DOMAIN e /\ \A i \in DOMAIN e : t[i] = [c |-> e[i], of |-> "echo"]
    BY CleanChars, TagType DEF Origins
  <1> HIDE DEF t
  <1>2. Subsequence(t, s) <=> \E f : Ahead(f, e, s)
    <2>1. ASSUME Subsequence(t, s) PROVE \E f : Ahead(f, e, s)
      <3>1. PICK f \in [DOMAIN t -> DOMAIN s] :
               /\ \A i, j \in DOMAIN t : i < j => f[i] < f[j]
               /\ \A i \in DOMAIN t : t[i] = s[f[i]]
        BY <2>1 DEF Subsequence
      <3>2. Ahead(f, e, s)
        BY <1>1, <3>1 DEF Ahead
      <3> QED BY <3>2
    <2>2. ASSUME NEW f, Ahead(f, e, s) PROVE Subsequence(t, s)
      <3>1. /\ f \in [DOMAIN t -> DOMAIN s]
            /\ \A i, j \in DOMAIN t : i < j => f[i] < f[j]
            /\ \A i \in DOMAIN t : t[i] = s[f[i]]
        BY <1>1, <2>2 DEF Ahead
      <3> QED BY <3>1 DEF Subsequence
    <2> QED BY <2>1, <2>2
  <1> QED BY <1>2 DEF t

\* feed takes every echo that goes by, whatever it took before it.
LEMMA EchoesTaken ==
    ASSUME TypeInv, Wire(stream), NEW n \in 1..Len(stream), NEW f, Ahead(f, tx_echo, stream)
    PROVE  \E k \in 0..Len(tx_echo) :
              /\ Match(Fed(n)).echo = SubSeq(tx_echo, k + 1, Len(tx_echo))
              /\ \A j \in k + 1..Len(tx_echo) : f[j] > n
  <1> DEFINE data == Fed(n)
             L == Len(tx_echo)
             Left(e, i) == \E k \in 0..L : e = SubSeq(tx_echo, k + 1, L) /\ \A j \in k + 1..L : f[j] > i
  <1>1. stream \in Seq(Sent) /\ tx_echo \in Seq(Clean) /\ L \in Nat /\ DOMAIN tx_echo = 1..L
        /\ n \in Nat /\ n <= Len(stream) /\ Len(stream) \in Nat /\ DOMAIN stream = 1..Len(stream)
    BY DEF TypeInv
  <1>2. data \in Seq(Chars) /\ Len(data) = n /\ \A i \in 1..n : data[i] = stream[i].c
    BY <1>1, FedType
  <1>3. PICK m \in [0..n -> Matches] :
           /\ m[0] = [echo |-> tx_echo, extra |-> <<>>] /\ Match(data) = m[n]
           /\ \A i \in 1..n : m[i] = Take(data, m[i - 1], i)
    BY <1>1, <1>2, MatchSteps
  <1>4. /\ \A j \in 1..L : f[j] \in 1..Len(stream)
        /\ \A i, j \in 1..L : i < j => f[i] < f[j]
        /\ \A i \in 1..L : stream[f[i]] = [c |-> tx_echo[i], of |-> "echo"]
    <2>1. Ahead(f, tx_echo, stream)
      OBVIOUS
    <2> QED BY <1>1, <2>1 DEF Ahead
  <1>5. \A i \in 1..n : stream[i].of # "seq" /\ stream[i].c # "cr" => i \in TextAt(data)
    BY <1>1, TextIsFed
  <1> DEFINE P == {i \in 0..n : Left(m[i].echo, i)}
  <1> HIDE DEF data, L
  <1>6. 0 \in P
    <2>1. tx_echo = SubSeq(tx_echo, 0 + 1, L) /\ 0 \in 0..L
      BY <1>1, SubSeqFull DEF L
    <2>2. \A j \in 0 + 1..L : f[j] > 0
      BY <1>1, <1>4
    <2>3. Left(m[0].echo, 0)
      BY <1>3, <2>1, <2>2
    <2> QED BY <1>1, <2>3
  <1>7. ASSUME NEW i \in 1..n, i - 1 \in P PROVE i \in P
    <2> DEFINE was == m[i - 1]
    <2>1. PICK k \in 0..L : was.echo = SubSeq(tx_echo, k + 1, L) /\ \A j \in k + 1..L : f[j] > i - 1
      BY <1>7
    <2>2. was \in Matches /\ m[i] = Take(data, was, i)
      BY <1>1, <1>3
    <2>s. /\ was.echo = <<>> <=> k = L
          /\ k # L => Head(was.echo) = tx_echo[k + 1] /\ Tail(was.echo) = SubSeq(tx_echo, (k + 1) + 1, L)
      <3>1. was.echo = <<>> <=> k = L
        <4>1. SubSeq(tx_echo, k + 1, L) = <<>> <=> k = L
          BY <1>1, Suffix DEF L
        <4> QED BY <2>1, <4>1
      <3>2. k # L => k + 1 \in 1..L /\ L \in k + 1..L
        BY <1>1
      <3>3. k # L => Head(was.echo) = tx_echo[k + 1] /\ Tail(was.echo) = SubSeq(tx_echo, (k + 1) + 1, L)
        BY <1>1, <2>1, <3>2, HeadTailOfSubSeq DEF L
      <3> QED BY <3>1, <3>3
    <2> HIDE DEF was
    <2>3. CASE i \in TextAt(data) /\ was.echo # <<>> /\ Head(was.echo) = data[i]
      <3>1. k + 1 \in 0..L /\ k + 1 \in 1..L
        BY <1>1, <2>s, <2>3
      <3>2. m[i].echo = SubSeq(tx_echo, (k + 1) + 1, L)
        <4>1. m[i].echo = Tail(was.echo)
          BY <2>2, <2>3 DEF Take, Matches
        <4> QED BY <2>s, <2>3, <4>1
      <3>3. ASSUME NEW j \in (k + 1) + 1..L PROVE f[j] > i
        <4>1. j \in 1..L /\ k + 1 < j
          BY <1>1, <3>1
        <4>2. f[k + 1] < f[j] /\ f[k + 1] > i - 1 /\ f[k + 1] \in Nat /\ f[j] \in Nat
          BY <1>1, <1>4, <2>1, <3>1, <4>1
        <4> QED BY <4>2
      <3>4. Left(m[i].echo, i)
        BY <3>1, <3>2, <3>3
      <3> QED BY SMTT(30), <1>1, <3>4
    <2>4. CASE ~(i \in TextAt(data) /\ was.echo # <<>> /\ Head(was.echo) = data[i])
      <3>1. m[i].echo = was.echo
        BY <2>2, <2>4 DEF Take, Matches
      <3>2. ASSUME NEW j \in k + 1..L PROVE f[j] > i
        <4>1. k # L /\ k + 1 \in 1..L /\ k + 1 \in k + 1..L /\ j \in 1..L /\ (k + 1 = j \/ k + 1 < j)
          BY <1>1
        <4>2. f[k + 1] \in Nat /\ f[j] \in Nat /\ f[k + 1] > i - 1 /\ f[k + 1] <= f[j]
          BY <1>1, <1>4, <2>1, <4>1
        <4>3. f[k + 1] # i
          <5> SUFFICES ASSUME f[k + 1] = i PROVE FALSE
            OBVIOUS
          <5>1. stream[i] = [c |-> tx_echo[k + 1], of |-> "echo"] /\ tx_echo[k + 1] # "cr"
            BY <1>1, <1>4, <4>1 DEF Clean
          <5>2. i \in TextAt(data) /\ data[i] = tx_echo[k + 1]
            BY <1>2, <1>5, <5>1
          <5> QED BY <2>s, <2>4, <4>1, <5>2
        <4> QED BY <4>2, <4>3
      <3>3. Left(m[i].echo, i)
        BY <2>1, <3>1, <3>2
      <3> QED BY SMTT(30), <1>1, <3>3
    <2> QED BY <2>3, <2>4
  <1>8. \A i \in 0..n : i \in P
    <2> HIDE DEF P
    <2> QED BY <1>1, <1>6, <1>7, IntervalInduction
  <1>9. n \in 0..n
    BY <1>1
  <1> QED BY <1>3, <1>8, <1>9 DEF data, L

LEMMA FeedMatched ==
    ASSUME TypeInv, Wire(stream), EchoesMatched, NEW n \in 1..Len(stream), feed(n), TypeInv'
    PROVE  EchoesMatched'
  <1> SUFFICES ASSUME honest' PROVE Subsequence(Tag(tx_echo, "echo"), stream)'
    BY DEF EchoesMatched
  <1>1. /\ stream' = SubSeq(stream, n + 1, Len(stream)) /\ tx_echo' = Match(Fed(n)).echo /\ honest' = honest
    BY DEF feed, Fed
  <1>2. PICK f : Ahead(f, tx_echo, stream)
    BY <1>1, EchoesAhead DEF EchoesMatched, TypeInv
  <1> DEFINE L == Len(tx_echo)
             N == Len(stream)
  <1>3. PICK k \in 0..L : tx_echo' = SubSeq(tx_echo, k + 1, L) /\ \A j \in k + 1..L : f[j] > n
    BY <1>1, <1>2, EchoesTaken
  <1>4. L \in Nat /\ N \in Nat /\ n \in 1..N /\ k \in 0..L
    BY DEF TypeInv
  <1>5. Len(tx_echo') = L - k /\ DOMAIN tx_echo' = 1..L - k /\ \A i \in 1..L - k : tx_echo'[i] = tx_echo[k + i]
    BY <1>3, Suffix DEF TypeInv
  <1>6. Len(stream') = N - n /\ DOMAIN stream' = 1..N - n /\ \A i \in 1..N - n : stream'[i] = stream[n + i]
    <2>1. stream \in Seq(Sent) /\ n \in 0..Len(stream)
      BY <1>4 DEF TypeInv
    <2> QED BY <1>1, <2>1, Suffix
  <1>7. /\ \A j \in 1..L : f[j] \in 1..N
        /\ \A i, j \in 1..L : i < j => f[i] < f[j]
        /\ \A i \in 1..L : stream[f[i]] = [c |-> tx_echo[i], of |-> "echo"]
    <2>1. DOMAIN tx_echo = 1..L /\ DOMAIN stream = 1..N
      BY DEF TypeInv
    <2> QED BY <1>2, <2>1 DEF Ahead
  <1> HIDE DEF L, N
  <1> DEFINE g == [i \in 1..L - k |-> f[k + i] - n]
  <1>8. ASSUME NEW i \in 1..L - k
        PROVE  /\ k + i \in 1..L /\ g[i] = f[k + i] - n /\ f[k + i] \in 1..N
               /\ g[i] \in 1..N - n /\ n + g[i] = f[k + i]
    <2>1. k + i \in 1..L /\ k + i \in k + 1..L
      BY <1>4
    <2>2. f[k + i] \in 1..N /\ f[k + i] > n
      BY <1>3, <1>7, <2>1
    <2> QED BY <1>4, <2>1, <2>2
  <1>9. Ahead(g, tx_echo', stream')
    <2>1. g \in [1..L - k -> 1..N - n]
      BY <1>8
    <2> HIDE DEF g
    <2>2. \A i, j \in 1..L - k : i < j => g[i] < g[j]
      <3> SUFFICES ASSUME NEW i \in 1..L - k, NEW j \in 1..L - k, i < j PROVE g[i] < g[j]
        OBVIOUS
      <3>1. k + i < k + j
        BY <1>4
      <3>2. f[k + i] < f[k + j]
        BY <1>7, <1>8, <3>1
      <3> QED BY <1>4, <1>8, <3>2
    <2>3. \A i \in 1..L - k : stream'[g[i]] = [c |-> tx_echo'[i], of |-> "echo"]
      <3> SUFFICES ASSUME NEW i \in 1..L - k PROVE stream'[g[i]] = [c |-> tx_echo'[i], of |-> "echo"]
        OBVIOUS
      <3>1. stream'[g[i]] = stream[f[k + i]]
        BY <1>6, <1>8
      <3> QED BY <1>5, <1>7, <1>8, <3>1
    <2> QED BY <1>5, <1>6, <2>1, <2>2, <2>3 DEF Ahead
  <1> QED BY <1>9, EchoesAhead DEF TypeInv

-----------------------------------------------------------------------------
(* How often a character is in a text.                                     *)

LEMMA TimesNone ==
    ASSUME NEW S, NEW s \in Seq(S), NEW c, \A i \in DOMAIN s : s[i] # c
    PROVE  Times(c, s) = 0
  <1>1. {i \in DOMAIN s : s[i] = c} = {}
    OBVIOUS
  <1> QED BY <1>1, FS_EmptySet DEF Times

LEMMA TimesOne ==
    ASSUME NEW x, NEW c
    PROVE  Times(c, <<x>>) = IF x = c THEN 1 ELSE 0
  <1>1. CASE x = c
    <2>1. {i \in DOMAIN <<x>> : <<x>>[i] = c} = {1}
      BY <1>1
    <2> QED BY <1>1, <2>1, FS_Singleton DEF Times
  <1>2. CASE x # c
    <2>1. {i \in DOMAIN <<x>> : <<x>>[i] = c} = {}
      BY <1>2
    <2> QED BY <1>2, <2>1, FS_EmptySet DEF Times
  <1> QED BY <1>1, <1>2

LEMMA TimesConcat ==
    ASSUME NEW S, NEW s \in Seq(S), NEW t \in Seq(S), NEW c
    PROVE  Times(c, s \o t) = Times(c, s) + Times(c, t)
  <1> DEFINE x == s \o t
             ls == Len(s)
             lt == Len(t)
             A == {i \in DOMAIN s : s[i] = c}
             B == {i \in DOMAIN t : t[i] = c}
             X == {i \in DOMAIN x : x[i] = c}
             Y == X \ A
             f == [i \in B |-> ls + i]
  <1>1. /\ ls \in Nat /\ lt \in Nat /\ DOMAIN s = 1..ls /\ DOMAIN t = 1..lt /\ DOMAIN x = 1..ls + lt
        /\ \A i \in 1..ls : x[i] = s[i]
        /\ \A i \in 1..lt : x[ls + i] = t[i]
        /\ x \in Seq(S)
    OBVIOUS
  <1>2. IsFiniteSet(A) /\ IsFiniteSet(B) /\ IsFiniteSet(X)
    BY <1>1, TimesType
  <1>3. Times(c, s) = Cardinality(A) /\ Times(c, t) = Cardinality(B) /\ Times(c, x) = Cardinality(X)
    BY DEF Times
  <1> HIDE DEF x, ls, lt
  <1>4. A \subseteq X /\ \A i \in Y : i \in ls + 1..ls + lt /\ i - ls \in B /\ ls + (i - ls) = i
    <2>1. \A i \in A : i \in X
      BY <1>1
    <2>2. ASSUME NEW i \in Y PROVE i \in ls + 1..ls + lt /\ i - ls \in B /\ ls + (i - ls) = i
      <3>1. i \in 1..ls + lt /\ x[i] = c /\ i \notin A
        BY <1>1
      <3>2. i \notin 1..ls
        BY <1>1, <3>1
      <3>3. i - ls \in 1..lt /\ ls + (i - ls) = i /\ i \in ls + 1..ls + lt
        BY <1>1, <3>1, <3>2
      <3>4. t[i - ls] = c
        BY <1>1, <3>1, <3>3
      <3> QED BY <1>1, <3>3, <3>4
    <2> QED BY <2>1, <2>2
  <1>5. \A i \in B : i \in 1..lt /\ ls + i \in Y
    <2> SUFFICES ASSUME NEW i \in B PROVE i \in 1..lt /\ ls + i \in Y
      OBVIOUS
    <2>1. i \in 1..lt /\ t[i] = c
      BY <1>1
    <2>2. ls + i \in 1..ls + lt /\ ls + i \notin 1..ls
      BY <1>1, <2>1
    <2> QED BY <1>1, <2>1, <2>2
  <1>6. IsFiniteSet(Y) /\ Cardinality(Y) = Cardinality(B)
    <2>1. f \in [B -> Y]
      BY <1>5
    <2>2. \A i, j \in B : f[i] = f[j] => i = j
      BY <1>1, <1>5
    <2>3. \A y \in Y : \E i \in B : f[i] = y
      BY <1>4
    <2> HIDE DEF f, B, Y
    <2>4. f \in Bijection(B, Y)
      BY <2>1, <2>2, <2>3 DEF Bijection, Injection, Surjection, IsInjective
    <2> QED BY <1>2, <2>4, FS_Bijection DEF ExistsBijection
  <1>7. Cardinality(X) = Cardinality(A) + Cardinality(Y)
    <2>1. A \cap Y = {} /\ A \cup Y = X
      BY <1>4
    <2> HIDE DEF A, X, Y
    <2>2. Cardinality(A \cap Y) = 0
      BY <2>1, FS_EmptySet
    <2>3. Cardinality(A \cup Y) = Cardinality(A) + Cardinality(Y) - Cardinality(A \cap Y)
      BY <1>2, <1>6, FS_Union
    <2>4. Cardinality(A) \in Nat /\ Cardinality(Y) \in Nat
      BY <1>2, <1>6, FS_CardinalityType
    <2>5. Cardinality(X) = Cardinality(A) + Cardinality(Y) - 0
      BY <2>1, <2>2, <2>3, Zenon
    <2> QED BY <2>4, <2>5
  <1> QED BY <1>3, <1>6, <1>7 DEF x

-----------------------------------------------------------------------------
(* A key that is echoed as itself.                                         *)

Typable == Printable \cup {"nl"}

LEMMA TypableChars == /\ Seq(Typable) \subseteq Seq(Clean) /\ Seq(Typable) \subseteq Seq(Chars)
                      /\ "esc" \notin Typable /\ "cr" \notin Typable /\ "nl" \in Typable
  BY DEF Typable, Clean, Chars, Printable, Letters

LEMMA StripTypable ==
    ASSUME NEW d \in Seq(Typable)
    PROVE  StripAnsi(d) = d
  <1> DEFINE n == Len(d)
  <1>1. d \in Seq(Chars) /\ n \in Nat /\ DOMAIN d = 1..n /\ \A i \in 1..n : d[i] # "esc" /\ d[i] # "cr"
    BY TypableChars
  <1>2. Scanner(d)[0] = "text" /\ \A i \in 1..n : Scanner(d)[i] = NextMode(d, Scanner(d)[i - 1], i)
    BY <1>1, ScannerSteps
  <1>3. \A i \in 0..n : Scanner(d)[i] = "text"
    <2> DEFINE P == {i \in 0..n : Scanner(d)[i] = "text"}
    <2>1. 0 \in P
      BY <1>1, <1>2
    <2>2. \A i \in 1..n : i - 1 \in P => i \in P
      BY <1>1, <1>2 DEF NextMode
    <2>3. \A i \in 0..n : i \in P
      <3> HIDE DEF P
      <3> QED BY <1>1, <2>1, <2>2, IntervalInduction
    <2> QED BY <2>3
  <1>4. \A i \in 1..n : i \in TextAt(d)
    <2>1. \A i \in 1..n : i - 1 \in 0..n /\ i \in 0..n
      BY <1>1
    <2> QED BY <1>1, <1>3, <2>1 DEF TextAt
  <1>5. PICK out \in [0..n -> Seq(Clean)] :
           /\ out[0] = <<>> /\ StripAnsi(d) = out[n]
           /\ \A i \in 1..n : out[i] = IF i \in TextAt(d) THEN Append(out[i - 1], d[i]) ELSE out[i - 1]
    BY <1>1, StripSteps
  <1> DEFINE P == {i \in 0..n : out[i] = SubSeq(d, 1, i)}
  <1>6. 0 \in P
    BY <1>1, <1>5
  <1>7. ASSUME NEW i \in 1..n, i - 1 \in P PROVE i \in P
    <2>1. out[i] = Append(SubSeq(d, 1, i - 1), d[i])
      BY <1>4, <1>5, <1>7
    <2>2. SubSeq(d, 1, i) = Append(SubSeq(d, 1, i - 1), d[i])
      <3>1. SubSeq(d, 1, i) = SubSeq(d, 1, i - 1) \o <<d[i]>>
        BY <1>1, SubSeqRecursiveSecond
      <3>2. SubSeq(d, 1, i - 1) \in Seq(Chars) /\ d[i] \in Chars
        BY <1>1
      <3> QED BY <3>1, <3>2, AppendIsConcat
    <2>3. out[i] = SubSeq(d, 1, i)
      BY <2>1, <2>2, Zenon
    <2> QED BY <1>1, <2>3
  <1>8. \A i \in 0..n : i \in P
    <2> HIDE DEF P, n
    <2> QED BY <1>1, <1>6, <1>7, IntervalInduction
  <1>9. n \in 0..n
    BY <1>1
  <1>10. out[n] = SubSeq(d, 1, n)
    <2>1. n \in P
      BY <1>8, <1>9, Zenon
    <2> QED BY <2>1
  <1> QED BY <1>1, <1>5, <1>10, SubSeqFull

\* Among what is echoed for it, it is itself, and nothing else that can be typed.
LEMMA EchoOfTypable ==
    ASSUME NEW c \in Typable
    PROVE  /\ Subsequence(<<c>>, Echo(c))
           /\ \A x \in Typable : Times(x, Echo(c)) = Times(x, <<c>>)
  <1>1. CASE c = "nl"
    <2>1. Echo(c) = <<"cr", "nl">>
      BY <1>1 DEF Echo
    <2>2. Subsequence(<<"nl">>, <<"cr", "nl">>)
      <3> DEFINE f == [i \in 1..1 |-> 2]
                 s == <<"nl">>
                 t == <<"cr", "nl">>
      <3>1. DOMAIN s = 1..1 /\ DOMAIN t = 1..2 /\ s[1] = "nl" /\ t[2] = "nl"
        OBVIOUS
      <3>2. f \in [1..1 -> 1..2] /\ (\A i, j \in 1..1 : i < j => f[i] < f[j]) /\ \A i \in 1..1 : f[i] = 2 /\ i = 1
        OBVIOUS
      <3> HIDE DEF f, s, t
      <3>3. Subsequence(s, t)
        BY <3>1, <3>2 DEF Subsequence
      <3> QED BY <3>3 DEF s, t
    <2>3. ASSUME NEW x \in Typable PROVE Times(x, <<"cr", "nl">>) = Times(x, <<"nl">>)
      <3>1. <<"cr">> \in Seq(Chars) /\ <<"nl">> \in Seq(Chars) /\ <<"cr", "nl">> = <<"cr">> \o <<"nl">>
        BY DEF Chars
      <3>2. Times(x, <<"cr", "nl">>) = Times(x, <<"cr">>) + Times(x, <<"nl">>)
        BY <3>1, TimesConcat
      <3>3. Times(x, <<"cr">>) = 0
        BY TimesOne, TypableChars
      <3>4. Times(x, <<"nl">>) \in Nat
        BY <3>1, TimesType
      <3> QED BY <3>2, <3>3, <3>4
    <2> QED BY <1>1, <2>1, <2>2, <2>3
  <1>2. CASE c # "nl"
    <2>1. Echo(c) = <<c>> /\ <<c>> \in Seq(Typable)
      BY <1>2 DEF Echo, Typable, Printable, Letters
    <2> QED BY <2>1, SubsequenceSelf
  <1> QED BY <1>1, <1>2

LEMMA EchoTypable ==
    ASSUME NEW d \in Seq(Typable)
    PROVE  /\ Subsequence(d, FlattenSeq(Echoes(d)))
           /\ \A x \in Typable : Times(x, FlattenSeq(Echoes(d))) = Times(x, d)
  <1> DEFINE n == Len(d)
             e == Echoes(d)
  <1>1. /\ d \in Seq(Chars) /\ n \in Nat /\ e \in Seq(Seq(Chars)) /\ Len(e) = n
        /\ \A i \in 1..n : d[i] \in Typable /\ d[i] \in Chars /\ e[i] = Echo(d[i]) /\ e[i] \in Seq(Chars)
    <2>1. d \in Seq(Chars)
      BY TypableChars
    <2>2. e \in Seq(Seq(Chars)) /\ Len(e) = n
      BY <2>1, EchoType
    <2>3. \A i \in 1..n : d[i] \in Typable /\ d[i] \in Chars /\ e[i] = Echo(d[i])
      BY <2>1 DEF Echoes
    <2> HIDE DEF e
    <2> QED BY <2>1, <2>2, <2>3
  <1>2. PICK out \in [0..n -> Seq(Chars)] :
           /\ out[0] = <<>> /\ FlattenSeq(e) = out[n]
           /\ \A i \in 1..n : out[i] = out[i - 1] \o e[i]
    <2> HIDE DEF e
    <2>1. \E out \in [0..Len(e) -> Seq(Chars)] :
             /\ out[0] = <<>> /\ FlattenSeq(e) = out[Len(e)]
             /\ \A i \in 1..Len(e) : out[i] = out[i - 1] \o e[i]
      BY <1>1, FlattenSteps
    <2> QED BY <1>1, <2>1
  <1> HIDE DEF e
  <1> DEFINE Same(s, t) == Subsequence(s, t) /\ \A x \in Typable : Times(x, t) = Times(x, s)
             P == {i \in 0..n : Same(SubSeq(d, 1, i), out[i])}
  <1>3. 0 \in P
    <2>1. SubSeq(d, 1, 0) = <<>> /\ <<>> \in Seq(Chars)
      BY <1>1
    <2> QED BY <1>1, <1>2, <2>1, SubsequenceSelf
  <1>4. ASSUME NEW i \in 1..n, i - 1 \in P PROVE i \in P
    <2> DEFINE s == SubSeq(d, 1, i - 1)
               u == <<d[i]>>
    <2>1. s \in Seq(Chars) /\ u \in Seq(Chars) /\ out[i - 1] \in Seq(Chars) /\ e[i] \in Seq(Chars)
      <3>1. i - 1 \in 0..n /\ i - 1 <= n
        BY <1>1
      <3>2. SubSeq(d, 1, i - 1) \in Seq(Chars) /\ <<d[i]>> \in Seq(Chars)
        BY <1>1, <3>1
      <3> QED BY <1>1, <1>2, <3>1, <3>2
    <2>2. SubSeq(d, 1, i) = s \o u /\ out[i] = out[i - 1] \o e[i]
      <3>1. 1 \in 1..Len(d) /\ i \in 1..Len(d)
        BY <1>1
      <3>2. SubSeq(d, 1, i) = s \o u
        BY <1>1, <3>1, SubSeqRecursiveSecond
      <3> QED BY <1>2, <3>2
    <2>3. Same(s, out[i - 1])
      BY <1>4
    <2>4. Same(u, e[i])
      BY <1>1, EchoOfTypable
    <2> HIDE DEF s, u
    <2>5. Subsequence(s \o u, out[i - 1] \o e[i])
      BY <2>1, <2>3, <2>4, SubsequenceConcat
    <2>6. \A x \in Typable : Times(x, out[i - 1] \o e[i]) = Times(x, s \o u)
      <3>1. \A x \in Typable : /\ Times(x, out[i - 1] \o e[i]) = Times(x, out[i - 1]) + Times(x, e[i])
                               /\ Times(x, s \o u) = Times(x, s) + Times(x, u)
        BY <2>1, TimesConcat
      <3> QED BY <2>3, <2>4, <3>1
    <2>7. Same(SubSeq(d, 1, i), out[i])
      BY <2>2, <2>5, <2>6
    <2> QED BY <1>1, <2>7
  <1>5. \A i \in 0..n : i \in P
    <2> HIDE DEF P, n
    <2> QED BY <1>1, <1>3, <1>4, IntervalInduction
  <1>6. Same(SubSeq(d, 1, n), out[n])
    BY <1>1, <1>5
  <1> QED BY <1>1, <1>2, <1>6, SubSeqFull DEF e

\* A subsequence stays one when both are tagged alike.
LEMMA TagSubsequence ==
    ASSUME NEW s \in Seq(Chars), NEW t \in Seq(Chars), Subsequence(s, t), NEW of \in Origins
    PROVE  Subsequence(Tag(s, of), Tag(t, of))
  <1>1. PICK f \in [DOMAIN s -> DOMAIN t] :
           /\ \A i, j \in DOMAIN s : i < j => f[i] < f[j]
           /\ \A i \in DOMAIN s : s[i] = t[f[i]]
    BY DEF Subsequence
  <1>2. /\ DOMAIN Tag(s, of) = DOMAIN s /\ DOMAIN Tag(t, of) = DOMAIN t
        /\ \A i \in DOMAIN s : Tag(s, of)[i] = [c |-> s[i], of |-> of]
        /\ \A i \in DOMAIN t : Tag(t, of)[i] = [c |-> t[i], of |-> of]
    BY TagType
  <1>3. \A i \in DOMAIN s : Tag(s, of)[i] = Tag(t, of)[f[i]]
    BY <1>1, <1>2
  <1> QED BY <1>1, <1>2, <1>3 DEF Subsequence

LEMMA TagConcat ==
    ASSUME NEW s \in Seq(Chars), NEW t \in Seq(Chars), NEW of \in Origins
    PROVE  Tag(s \o t, of) = Tag(s, of) \o Tag(t, of)
  <1> DEFINE x == Tag(s \o t, of)
             y == Tag(s, of) \o Tag(t, of)
  <1>1. /\ Tag(s, of) \in Seq(Sent) /\ Len(Tag(s, of)) = Len(s)
        /\ \A i \in 1..Len(s) : Tag(s, of)[i] = [c |-> s[i], of |-> of]
        /\ Tag(t, of) \in Seq(Sent) /\ Len(Tag(t, of)) = Len(t)
        /\ \A i \in 1..Len(t) : Tag(t, of)[i] = [c |-> t[i], of |-> of]
    BY TagType
  <1>2. s \o t \in Seq(Chars) /\ Len(s \o t) = Len(s) + Len(t)
    OBVIOUS
  <1>3. x \in Seq(Sent) /\ Len(x) = Len(s) + Len(t)
        /\ \A i \in 1..Len(s) + Len(t) : x[i] = [c |-> (s \o t)[i], of |-> of]
    <2> DEFINE u == s \o t
    <2>1. u \in Seq(Chars) /\ Len(u) = Len(s) + Len(t) /\ DOMAIN u = 1..Len(u)
      BY <1>2
    <2> HIDE DEF u
    <2>2. /\ Tag(u, of) \in Seq(Sent) /\ Len(Tag(u, of)) = Len(u)
          /\ \A i \in DOMAIN u : Tag(u, of)[i] = [c |-> u[i], of |-> of]
      BY <2>1, TagType
    <2> QED BY <2>1, <2>2 DEF u
  <1>4. y \in Seq(Sent) /\ Len(y) = Len(s) + Len(t)
        /\ \A i \in 1..Len(s) + Len(t) :
              y[i] = IF i <= Len(s) THEN Tag(s, of)[i] ELSE Tag(t, of)[i - Len(s)]
    <2> DEFINE u == Tag(s, of)
               v == Tag(t, of)
    <2>1. u \in Seq(Sent) /\ v \in Seq(Sent) /\ Len(u) = Len(s) /\ Len(v) = Len(t)
      BY <1>1
    <2> HIDE DEF u, v
    <2>2. /\ u \o v \in Seq(Sent) /\ Len(u \o v) = Len(u) + Len(v)
          /\ \A i \in 1..Len(u) + Len(v) : (u \o v)[i] = IF i <= Len(u) THEN u[i] ELSE v[i - Len(u)]
      BY <2>1, ConcatProperties
    <2> QED BY <2>1, <2>2 DEF u, v
  <1>5. \A i \in 1..Len(s) + Len(t) : (s \o t)[i] = IF i <= Len(s) THEN s[i] ELSE t[i - Len(s)]
    BY ConcatProperties
  <1> HIDE DEF x, y
  <1>6. \A i \in 1..Len(s) + Len(t) : x[i] = y[i]
    <2> SUFFICES ASSUME NEW i \in 1..Len(s) + Len(t) PROVE x[i] = y[i]
      OBVIOUS
    <2>0. Len(s) \in Nat /\ Len(t) \in Nat
      OBVIOUS
    <2>1. CASE i <= Len(s)
      <3>1. i \in 1..Len(s)
        BY <2>0, <2>1
      <3> QED BY <1>1, <1>3, <1>4, <1>5, <2>1, <3>1
    <2>2. CASE ~(i <= Len(s))
      <3>1. i - Len(s) \in 1..Len(t)
        BY <2>0, <2>2
      <3> QED BY <1>1, <1>3, <1>4, <1>5, <2>2, <3>1
    <2> QED BY <2>1, <2>2
  <1>7. x = y
    BY <1>3, <1>4, <1>6, SeqEqual
  <1> QED BY <1>7 DEF x, y

\* What an honest key does: it is expected as it is, and echoed.
LEMMA HonestNote ==
    ASSUME TypeInv, NEW data \in Keys, note_tx(data), honest'
    PROVE  /\ honest /\ data \in Seq(Typable) /\ StripAnsi(data) = data
           /\ stream' = stream \o Tag(FlattenSeq(Echoes(data)), "echo")
  <1>1. honest /\ echoing /\ \A i \in DOMAIN data : data[i] \in Typable
    BY DEF note_tx, Typable
  <1>2. data \in Seq(Typable)
    <2>1. data \in Seq(Chars)
      BY WireAssumption
    <2> QED BY <1>1, <2>1
  <1>3. stream' = stream \o Tag(FlattenSeq(Echoes(data)), "echo")
    BY <1>1 DEF note_tx, Echoes
  <1> QED BY <1>1, <1>2, <1>3, StripTypable

LEMMA NoteMatched ==
    ASSUME TypeInv, EchoesMatched, NEW data \in Keys, note_tx(data)
    PROVE  EchoesMatched'
  <1> SUFFICES ASSUME honest' PROVE Subsequence(Tag(tx_echo', "echo"), stream')
    BY DEF EchoesMatched
  <1> DEFINE L == Len(tx_echo)
             echo == FlattenSeq(Echoes(data))
  <1>1. /\ honest /\ data \in Seq(Typable) /\ StripAnsi(data) = data
        /\ stream' = stream \o Tag(echo, "echo")
    BY HonestNote
  <1>2. data \in Seq(Clean) /\ data \in Seq(Chars) /\ echo \in Seq(Chars) /\ Subsequence(data, echo)
    BY <1>1, TypableChars, EchoType, EchoTypable
  <1>3. tx_echo \in Seq(Clean) /\ tx_echo \in Seq(Chars) /\ stream \in Seq(Sent) /\ "echo" \in Origins
    BY CleanChars DEF TypeInv, Origins
  <1>4. PICK k \in 0..L : tx_echo' = SubSeq(tx_echo, k + 1, L) \o data
    <2>1. Expect(data)
      BY <1>1 DEF note_tx
    <2> QED BY <1>2, <1>3, <2>1, ExpectKeeps
  <1> DEFINE kept == SubSeq(tx_echo, k + 1, L)
             gone == SubSeq(tx_echo, 1, k)
  <1>5. kept \in Seq(Chars) /\ gone \in Seq(Chars)
    BY <1>3
  <1>6. Subsequence(Tag(kept, "echo"), stream)
    <2> DEFINE t == Tag(tx_echo, "echo")
    <2>1. t \in Seq(Sent) /\ Len(t) = L /\ Subsequence(t, stream)
      BY <1>1, <1>3, TagType DEF EchoesMatched
    <2>2. Subsequence(<<>> \o SubSeq(t, k + 1, Len(t)), stream)
      <3>1. <<>> \in Seq(Sent) /\ <<>> \o t = t /\ k \in 0..Len(t)
        BY <2>1
      <3> HIDE DEF t
      <3> QED BY <1>3, <2>1, <3>1, SubsequenceDrop
    <2>3. <<>> \o SubSeq(t, k + 1, Len(t)) = Tag(kept, "echo")
      <3>1. /\ SubSeq(t, k + 1, L) \in Seq(Sent) /\ Len(SubSeq(t, k + 1, L)) = L - k
            /\ \A i \in 1..L - k : SubSeq(t, k + 1, L)[i] = t[k + i]
        BY <2>1, Suffix
      <3>2. /\ Tag(kept, "echo") \in Seq(Sent) /\ Len(Tag(kept, "echo")) = L - k
            /\ \A i \in 1..L - k : Tag(kept, "echo")[i] = [c |-> tx_echo[k + i], of |-> "echo"]
        <4>1. Len(kept) = L - k /\ DOMAIN kept = 1..L - k /\ \A i \in 1..L - k : kept[i] = tx_echo[k + i]
          BY <1>3, <1>5, Suffix
        <4> HIDE DEF kept
        <4> QED BY <1>3, <1>5, <4>1, TagType
      <3>3. \A i \in 1..L - k : t[k + i] = [c |-> tx_echo[k + i], of |-> "echo"]
        <4>1. \A i \in 1..L - k : k + i \in DOMAIN tx_echo
          BY <1>3
        <4> QED BY <1>3, <4>1, TagType
      <3> HIDE DEF t, kept
      <3>4. SubSeq(t, k + 1, L) = Tag(kept, "echo")
        <4> DEFINE u == SubSeq(t, k + 1, L)
                   v == Tag(kept, "echo")
        <4>1. L - k \in Nat
          BY <1>3
        <4>2. /\ u \in Seq(Sent) /\ v \in Seq(Sent) /\ Len(u) = Len(v) /\ Len(u) = L - k
              /\ \A i \in 1..L - k : u[i] = v[i]
          BY <3>1, <3>2, <3>3
        <4> HIDE DEF u, v
        <4>3. u = v
          BY <4>2, SeqEqual
        <4> QED BY <4>3 DEF u, v
      <3>5. <<>> \o SubSeq(t, k + 1, L) = SubSeq(t, k + 1, L)
        BY <3>1
      <3> QED BY <2>1, <3>4, <3>5
    <2> QED BY <2>2, <2>3
  <1>7. Subsequence(Tag(data, "echo"), Tag(echo, "echo"))
    BY <1>2, <1>3, TagSubsequence
  <1>8. Tag(tx_echo', "echo") = Tag(kept, "echo") \o Tag(data, "echo")
    BY <1>2, <1>3, <1>4, <1>5, TagConcat
  <1>9. /\ Tag(kept, "echo") \in Seq(Sent) /\ Tag(data, "echo") \in Seq(Sent)
        /\ Tag(echo, "echo") \in Seq(Sent)
    BY <1>2, <1>3, <1>5, TagType
  <1> HIDE DEF kept, echo
  <1> QED BY <1>1, <1>3, <1>6, <1>7, <1>8, <1>9, SubsequenceConcat

LEMMA SendMatched ==
    ASSUME TypeInv, EchoesMatched, NEW o \in Outputs, Send(o)
    PROVE  EchoesMatched'
  <1> SUFFICES ASSUME honest' PROVE Subsequence(Tag(tx_echo', "echo"), stream')
    BY DEF EchoesMatched
  <1> DEFINE t == Tag(o, IF IsSequence(o) THEN "seq" ELSE "out")
  <1>1. stream' = stream \o t /\ tx_echo' = tx_echo /\ honest' = honest
    BY DEF Send, view
  <1>2. stream \in Seq(Sent) /\ t \in Seq(Sent)
    <2>1. o \in Seq(Chars)
      BY WireAssumption
    <2> QED BY <2>1, TagType DEF TypeInv, Origins
  <1> HIDE DEF t
  <1> DEFINE e == Tag(tx_echo, "echo")
  <1>3. e \in Seq(Sent) /\ Subsequence(e, stream)
    BY <1>1, CleanChars, TagType DEF TypeInv, EchoesMatched, Origins
  <1>4. Subsequence(e \o <<>>, stream \o t)
    <2>1. Subsequence(<<>>, t)
      <3> DEFINE s == <<>>
                 f == [i \in {} |-> i]
      <3>1. DOMAIN s = {} /\ f \in [{} -> DOMAIN t]
        OBVIOUS
      <3> HIDE DEF s, f
      <3>2. Subsequence(s, t)
        BY <3>1 DEF Subsequence
      <3> QED BY <3>2 DEF s
    <2>2. <<>> \in Seq(Sent)
      OBVIOUS
    <2> HIDE DEF e
    <2> QED BY <1>2, <1>3, <2>1, <2>2, SubsequenceConcat
  <1>5. e \o <<>> = e
    <2> HIDE DEF e
    <2> QED BY <1>3
  <1> QED BY <1>1, <1>4, <1>5

LEMMA MatchedStep ==
    ASSUME TypeInv, WireInv, EchoesMatched, [Next]_vars
    PROVE  EchoesMatched'
  <1>1. ASSUME NEW n \in 1..Len(stream), feed(n) PROVE EchoesMatched'
    BY <1>1, FeedTypes, FeedMatched DEF WireInv
  <1>2. CASE SwitchEcho
    BY <1>2 DEF SwitchEcho, EchoesMatched, view, history
  <1>3. CASE UNCHANGED vars
    BY <1>3 DEF vars, EchoesMatched, view, history
  <1> QED BY <1>1, <1>2, <1>3, Acts, NoteMatched, SendMatched

\* While every key is echoed as itself, each expected echo is on its way, in
\* order, however the output is mixed with the echoes and cut into chunks, and
\* also after the buffer was cut (terminal.py 62-67, 76-78, 85-88).
THEOREM EchoesMatchedHolds == Spec => []EchoesMatched
  <1>1. Init => EchoesMatched
    <2> SUFFICES ASSUME Init PROVE Subsequence(Tag(tx_echo, "echo"), stream)
      BY DEF EchoesMatched
    <2>1. Tag(tx_echo, "echo") = <<>> /\ stream = <<>> /\ <<>> \in Seq(Sent)
      BY DEF Init, Tag
    <2> QED BY <2>1, SubsequenceSelf
  <1>2. TypeInv /\ WireInv /\ EchoesMatched /\ [Next]_vars => EchoesMatched'
    BY MatchedStep
  <1> QED BY <1>1, <1>2, TypesHold, WireHolds, PTL DEF Spec

-----------------------------------------------------------------------------
(* Everything is drawn once.                                               *)

\* The text on the stream; a part of a sequence is no character of it.
Mark(s) == [i \in DOMAIN s |-> IF s[i].of = "seq" THEN "seq" ELSE s[i].c]
Marks == Chars \cup {"seq"}

\* What was drawn and what is still to come is what was sent and typed: for a
\* key twice, because it is drawn at once, but for the echoes to be skipped.
Account ==
    honest /\ ~trimmed /\ ~split =>
        \A c \in Typable :
            shown[c] + Times(c, Mark(stream)) = outputs[c] + Times(c, typed) + Times(c, tx_echo)

LEMMA MarkType ==
    ASSUME NEW s \in Seq(Sent)
    PROVE  /\ Mark(s) \in Seq(Marks) /\ Len(Mark(s)) = Len(s)
           /\ \A i \in 1..Len(s) : Mark(s)[i] = IF s[i].of = "seq" THEN "seq" ELSE s[i].c
  <1> DEFINE m == [i \in 1..Len(s) |-> IF s[i].of = "seq" THEN "seq" ELSE s[i].c]
  <1>1. Mark(s) = m
    BY DEF Mark
  <1>2. \A i \in 1..Len(s) : (IF s[i].of = "seq" THEN "seq" ELSE s[i].c) \in Marks
    <2>0. \A i \in 1..Len(s) : s[i] \in Sent
      OBVIOUS
    <2>1. \A i \in 1..Len(s) : s[i].c \in Chars
      BY <2>0 DEF Sent
    <2> QED BY <2>1 DEF Marks
  <1>3. m \in Seq(Marks) /\ Len(m) = Len(s)
    BY <1>2
  <1> QED BY <1>1, <1>3

LEMMA MarkConcat ==
    ASSUME NEW s \in Seq(Sent), NEW t \in Seq(Sent)
    PROVE  Mark(s \o t) = Mark(s) \o Mark(t)
  <1> DEFINE of(r) == IF r.of = "seq" THEN "seq" ELSE r.c
             u == Mark(s)
             v == Mark(t)
             w == s \o t
             x == Mark(w)
             ls == Len(s)
             lt == Len(t)
  <1>1. /\ u \in Seq(Marks) /\ Len(u) = ls /\ \A i \in 1..ls : u[i] = of(s[i])
        /\ v \in Seq(Marks) /\ Len(v) = lt /\ \A i \in 1..lt : v[i] = of(t[i])
        /\ ls \in Nat /\ lt \in Nat
    BY MarkType
  <1>2. w \in Seq(Sent) /\ Len(w) = ls + lt
        /\ \A i \in 1..ls + lt : w[i] = IF i <= ls THEN s[i] ELSE t[i - ls]
    BY ConcatProperties
  <1> HIDE DEF u, v, w
  <1>3. x \in Seq(Marks) /\ Len(x) = ls + lt /\ \A i \in 1..ls + lt : x[i] = of(w[i])
    BY <1>2, MarkType
  <1>4. u \o v \in Seq(Marks) /\ Len(u \o v) = ls + lt
        /\ \A i \in 1..ls + lt : (u \o v)[i] = IF i <= ls THEN u[i] ELSE v[i - ls]
    <2>1. /\ u \o v \in Seq(Marks) /\ Len(u \o v) = Len(u) + Len(v)
          /\ \A i \in 1..Len(u) + Len(v) : (u \o v)[i] = IF i <= Len(u) THEN u[i] ELSE v[i - Len(u)]
      <3>1. u \in Seq(Marks) /\ v \in Seq(Marks)
        BY <1>1
      <3> QED BY <3>1, ConcatProperties
    <2> HIDE DEF ls, lt
    <2> QED BY <1>1, <2>1
  <1> DEFINE y == u \o v
  <1> HIDE DEF x, y, ls, lt, of
  <1>5. \A i \in 1..ls + lt : x[i] = y[i]
    <2> SUFFICES ASSUME NEW i \in 1..ls + lt PROVE x[i] = y[i]
      OBVIOUS
    <2>1. CASE i <= ls
      <3>1. i \in 1..ls
        BY <1>1, <2>1
      <3> QED BY SMTT(30), <1>1, <1>2, <1>3, <1>4, <2>1, <3>1 DEF y
    <2>2. CASE ~(i <= ls)
      <3>1. i - ls \in 1..lt
        BY <1>1, <2>2
      <3> QED BY <1>1, <1>2, <1>3, <1>4, <2>2, <3>1 DEF y
    <2> QED BY <2>1, <2>2
  <1>6. y \in Seq(Marks) /\ Len(y) = ls + lt
    BY <1>4 DEF y
  <1>7. x = y
    BY <1>3, <1>5, <1>6, SeqEqual
  <1> QED BY <1>7 DEF x, y, u, v, w

LEMMA MarkTag ==
    ASSUME NEW cs \in Seq(Chars), NEW of \in Origins, NEW c \in Chars
    PROVE  Times(c, Mark(Tag(cs, of))) = IF of = "seq" THEN 0 ELSE Times(c, cs)
  <1> DEFINE t == Tag(cs, of)
             m == Mark(t)
  <1>1. t \in Seq(Sent) /\ Len(t) = Len(cs) /\ \A i \in 1..Len(cs) : t[i] = [c |-> cs[i], of |-> of]
    BY TagType
  <1> HIDE DEF t
  <1>2. m \in Seq(Marks) /\ Len(m) = Len(cs) /\ \A i \in 1..Len(cs) : m[i] = IF of = "seq" THEN "seq" ELSE cs[i]
    <2>1. /\ m \in Seq(Marks) /\ Len(m) = Len(t)
          /\ \A i \in 1..Len(t) : m[i] = IF t[i].of = "seq" THEN "seq" ELSE t[i].c
      BY <1>1, MarkType
    <2>2. ASSUME NEW i \in 1..Len(cs) PROVE t[i].of = of /\ t[i].c = cs[i]
      <3>1. t[i] = [c |-> cs[i], of |-> of]
        BY <1>1
      <3> QED BY <3>1
    <2> HIDE DEF m
    <2> QED BY <1>1, <2>1, <2>2
  <1> HIDE DEF m
  <1>3. CASE of = "seq"
    <2>1. \A i \in DOMAIN m : m[i] # c
      BY <1>2, <1>3 DEF Chars, Printable, Letters
    <2> QED BY <1>2, <1>3, <2>1, TimesNone DEF m, t
  <1>4. CASE of # "seq"
    <2>1. cs \in Seq(Marks)
      BY DEF Marks
    <2>2. m = cs
      BY <1>2, <1>4, <2>1, SeqEqual
    <2> QED BY <1>4, <2>2 DEF m, t
  <1> QED BY <1>3, <1>4

\* Every character of the text in a chunk is skipped or drawn.
LEMMA FedOnce ==
    ASSUME TypeInv, Wire(stream), NEW n \in 1..Len(stream), Opens(stream[1]), Closes(stream[n]),
           NEW c \in Typable
    PROVE  LET m == Match(Fed(n))
           IN  Times(c, m.extra) + Times(c, tx_echo)
                  = Times(c, m.echo) + Times(c, SubSeq(Mark(stream), 1, n))
  <1> DEFINE data == Fed(n)
             M == Mark(stream)
             Even(e, x, i) == Times(c, x) + Times(c, tx_echo) = Times(c, e) + Times(c, SubSeq(M, 1, i))
  <1>1. stream \in Seq(Sent) /\ tx_echo \in Seq(Clean) /\ n \in Nat /\ n <= Len(stream) /\ c \in Chars
        /\ c # "cr" /\ c # "seq"
    <2>1. c # "cr" /\ c # "seq" /\ c \in Chars
      BY DEF Typable, Printable, Letters, Chars
    <2> QED BY <2>1 DEF TypeInv
  <1>2. data \in Seq(Chars) /\ Len(data) = n /\ \A i \in 1..n : data[i] = stream[i].c
    BY <1>1, FedType
  <1>3. M \in Seq(Marks) /\ Len(M) = Len(stream)
        /\ \A i \in 1..n : M[i] = IF stream[i].of = "seq" THEN "seq" ELSE stream[i].c
    BY <1>1, MarkType
  <1>4. PICK m \in [0..n -> Matches] :
           /\ m[0] = [echo |-> tx_echo, extra |-> <<>>] /\ Match(data) = m[n]
           /\ \A i \in 1..n : m[i] = Take(data, m[i - 1], i)
    BY <1>1, <1>2, MatchSteps
  <1>5. \A i \in 1..n : i \in TextAt(data) <=> stream[i].of # "seq" /\ stream[i].c # "cr"
    <2>1. \A i \in TextAt(data) : stream[i].of # "seq"
      BY <1>1, SequencesAreHidden
    <2>2. \A i \in TextAt(data) : stream[i].c # "cr"
      <3>1. \A i \in TextAt(data) : i \in DOMAIN data /\ data[i] # "cr"
        BY DEF TextAt
      <3>2. DOMAIN data = 1..n
        BY <1>2
      <3> QED BY <1>2, <3>1, <3>2
    <2>3. \A i \in 1..n : stream[i].of # "seq" /\ stream[i].c # "cr" => i \in TextAt(data)
      BY <1>1, TextIsFed
    <2> QED BY <2>1, <2>2, <2>3
  <1> DEFINE P == {i \in 0..n : Even(m[i].echo, m[i].extra, i)}
  <1> HIDE DEF data, M
  <1>6. 0 \in P
    <2>1. SubSeq(M, 1, 0) = <<>> /\ <<>> \in Seq(Clean)
      BY <1>3
    <2> DEFINE none == <<>>
    <2>a. none \in Seq(Clean) /\ DOMAIN none = {}
      OBVIOUS
    <2> HIDE DEF none
    <2>2. Times(c, tx_echo) \in Nat /\ Times(c, none) = 0
      BY <1>1, <2>a, TimesType, TimesNone
    <2>3. Times(c, SubSeq(M, 1, 0)) = 0 /\ Times(c, <<>>) = 0
      BY <2>1, <2>2 DEF none
    <2>4. Even(tx_echo, <<>>, 0)
      BY <2>2, <2>3
    <2> QED BY <1>1, <1>4, <2>4
  <1>7. ASSUME NEW i \in 1..n, i - 1 \in P PROVE i \in P
    <2> DEFINE was == m[i - 1]
               pre == SubSeq(M, 1, i - 1)
    <2>1. was \in Matches /\ m[i] = Take(data, was, i) /\ Even(was.echo, was.extra, i - 1)
      BY <1>1, <1>4, <1>7
    <2>2. was.echo \in Seq(Clean) /\ was.extra \in Seq(Clean)
      BY <2>1 DEF Matches
    <2>3. pre \in Seq(Marks) /\ Times(c, SubSeq(M, 1, i)) = Times(c, pre) + Times(c, <<M[i]>>)
      <3>1. i \in 1..Len(M) /\ 1 \in 1..Len(M) /\ i - 1 \in Nat /\ i - 1 <= Len(M)
        BY <1>1, <1>3
      <3>2. SubSeq(M, 1, i) = pre \o <<M[i]>>
        BY <1>3, <3>1, SubSeqRecursiveSecond
      <3>3. pre \in Seq(Marks) /\ <<M[i]>> \in Seq(Marks)
        BY <1>3, <3>1
      <3> HIDE DEF pre
      <3> QED BY <3>2, <3>3, TimesConcat
    <2>4. /\ Times(c, pre) \in Nat /\ Times(c, tx_echo) \in Nat
          /\ Times(c, was.echo) \in Nat /\ Times(c, was.extra) \in Nat
      BY <1>1, <2>2, <2>3, TimesType
    <2> HIDE DEF was, pre
    <2>5. Times(c, was.extra) + Times(c, tx_echo) = Times(c, was.echo) + Times(c, pre)
      BY <2>1 DEF pre
    <2>6. CASE i \in TextAt(data) /\ was.echo # <<>> /\ Head(was.echo) = data[i]
      <3> DEFINE rest == Tail(was.echo)
                 x == data[i]
      <3>1. m[i].echo = rest /\ m[i].extra = was.extra
        BY <2>1, <2>6 DEF Take, Matches
      <3>2. M[i] = x
        BY <1>2, <1>3, <1>5, <2>6
      <3>3. was.echo = <<x>> \o rest /\ rest \in Seq(Clean) /\ <<x>> \in Seq(Clean)
        <4>1. 1 \in 1..Len(was.echo) /\ Len(was.echo) \in 1..Len(was.echo) /\ Head(was.echo) = was.echo[1]
          BY <2>2, <2>6
        <4>2. SubSeq(was.echo, 1, Len(was.echo)) = <<was.echo[1]>> \o SubSeq(was.echo, 1 + 1, Len(was.echo))
          BY <2>2, <4>1, SubSeqRecursiveFirst
        <4>3. SubSeq(was.echo, 1, Len(was.echo)) = was.echo /\ rest = SubSeq(was.echo, 2, Len(was.echo))
          BY <2>2, <2>6, SubSeqFull, TailIsSubSeq
        <4>4. rest \in Seq(Clean) /\ <<x>> \in Seq(Clean)
          BY <2>2, <2>6, <4>1
        <4> QED BY <2>6, <4>1, <4>2, <4>3, <4>4
      <3> HIDE DEF rest, x
      <3>4. Times(c, was.echo) = Times(c, <<x>>) + Times(c, rest)
        BY <3>3, TimesConcat
      <3>5. Times(c, <<x>>) \in Nat /\ Times(c, rest) \in Nat
        BY <3>3, TimesType
      <3>6. Times(c, SubSeq(M, 1, i)) = Times(c, pre) + Times(c, <<x>>)
        BY <2>3, <3>2
      <3>7. Even(m[i].echo, m[i].extra, i)
        BY <2>4, <2>5, <3>1, <3>4, <3>5, <3>6
      <3> QED BY <1>1, <3>7
    <2>7. CASE i \in TextAt(data) /\ ~(was.echo # <<>> /\ Head(was.echo) = data[i])
      <3> DEFINE x == data[i]
                 more == Append(was.extra, x)
      <3>1. m[i].echo = was.echo /\ m[i].extra = more
        BY <2>1, <2>7 DEF Take, Matches
      <3>2. M[i] = x /\ x \in Clean
        BY <1>2, <1>3, <1>5, <2>7 DEF Clean
      <3>3. more = was.extra \o <<x>> /\ <<x>> \in Seq(Clean)
        BY SMTT(30), <2>2, <3>2, AppendIsConcat
      <3> HIDE DEF more, x
      <3>4. Times(c, more) = Times(c, was.extra) + Times(c, <<x>>) /\ Times(c, <<x>>) \in Nat
        BY <2>2, <3>3, TimesConcat, TimesType
      <3>5. Times(c, SubSeq(M, 1, i)) = Times(c, pre) + Times(c, <<x>>)
        BY <2>3, <3>2
      <3>6. Even(m[i].echo, m[i].extra, i)
        BY <2>4, <2>5, <3>1, <3>4, <3>5
      <3> QED BY <1>1, <3>6
    <2>8. CASE i \notin TextAt(data)
      <3>1. m[i] = was
        BY <2>1, <2>8 DEF Take
      <3>2. M[i] # c
        BY <1>1, <1>3, <1>5, <2>8
      <3>3. Times(c, <<M[i]>>) = 0
        BY <3>2, TimesOne
      <3>4. Times(c, SubSeq(M, 1, i)) = Times(c, pre) + 0
        BY <2>3, <3>3
      <3>5. Even(was.echo, was.extra, i)
        BY <2>4, <2>5, <3>4
      <3> QED BY <1>1, <3>1, <3>5
    <2> QED BY <2>6, <2>7, <2>8
  <1>8. \A i \in 0..n : i \in P
    <2> HIDE DEF P
    <2> QED BY <1>1, <1>6, <1>7, IntervalInduction
  <1>9. Even(m[n].echo, m[n].extra, n)
    <2>1. n \in 0..n
      BY <1>1
    <2> QED BY <1>8, <2>1
  <1> QED BY <1>4, <1>9 DEF data, M

LEMMA NoteAccount ==
    ASSUME TypeInv, Account, NEW data \in Keys, note_tx(data)
    PROVE  Account'
  <1> SUFFICES ASSUME honest', ~trimmed', ~split', NEW c \in Typable
               PROVE  shown'[c] + Times(c, Mark(stream')) = outputs'[c] + Times(c, typed') + Times(c, tx_echo')
    BY DEF Account
  <1> DEFINE echo == FlattenSeq(Echoes(data))
             L == Len(tx_echo)
  <1>1. /\ honest /\ data \in Seq(Typable) /\ StripAnsi(data) = data
        /\ stream' = stream \o Tag(echo, "echo")
    BY HonestNote
  <1>2. /\ data \in Seq(Clean) /\ data \in Seq(Chars) /\ echo \in Seq(Chars) /\ c \in Chars
        /\ Times(c, echo) = Times(c, data)
    <2>1. c \in Chars
      BY DEF Typable, Printable, Letters, Chars
    <2> QED BY <1>1, <2>1, TypableChars, EchoType, EchoTypable
  <1>3. /\ tx_echo \in Seq(Clean) /\ typed \in Seq(Clean) /\ stream \in Seq(Sent)
        /\ shown[c] \in Nat /\ outputs[c] \in Nat
    BY <1>2 DEF TypeInv
  <1>4. ~trimmed /\ tx_echo' = tx_echo \o data
    <2>1. Expect(data)
      BY <1>1 DEF note_tx
    <2>2. PICK k \in 0..L :
             /\ tx_echo' = SubSeq(tx_echo, k + 1, L) \o data
             /\ trimmed' = (trimmed \/ SubSeq(tx_echo, k + 1, L) # tx_echo)
      BY <1>2, <1>3, <2>1, ExpectKeeps
    <2> QED BY <2>2
  <1>5. split' = split /\ outputs' = outputs /\ typed' = typed \o data /\ shown'[c] = shown[c] + Times(c, data)
    BY <1>1, <1>2 DEF note_tx, Draw
  <1>6. Times(c, typed') = Times(c, typed) + Times(c, data)
    BY <1>2, <1>3, <1>5, TimesConcat
  <1>7. Times(c, tx_echo') = Times(c, tx_echo) + Times(c, data)
    BY <1>2, <1>3, <1>4, TimesConcat
  <1>8. Times(c, Mark(stream')) = Times(c, Mark(stream)) + Times(c, data)
    <2>1. Tag(echo, "echo") \in Seq(Sent) /\ Times(c, Mark(Tag(echo, "echo"))) = Times(c, echo)
      BY <1>2, TagType, MarkTag DEF Origins
    <2> DEFINE t == Tag(echo, "echo")
    <2> HIDE DEF t
    <2>2. Mark(stream \o t) = Mark(stream) \o Mark(t) /\ Mark(stream) \in Seq(Marks) /\ Mark(t) \in Seq(Marks)
      BY <1>3, <2>1, MarkConcat, MarkType DEF t
    <2>3. Times(c, Mark(stream \o t)) = Times(c, Mark(stream)) + Times(c, Mark(t))
      BY <2>2, TimesConcat
    <2> QED BY <1>1, <1>2, <2>1, <2>3 DEF t
  <1>9. /\ Times(c, data) \in Nat /\ Times(c, typed) \in Nat /\ Times(c, tx_echo) \in Nat
        /\ Times(c, Mark(stream)) \in Nat
    BY <1>2, <1>3, TimesType, MarkType
  <1>10. shown[c] + Times(c, Mark(stream)) = outputs[c] + Times(c, typed) + Times(c, tx_echo)
    BY <1>1, <1>4, <1>5 DEF Account
  <1>11. outputs'[c] = outputs[c] /\ shown'[c] = shown[c] + Times(c, data) /\ shown[c] \in Nat /\ outputs[c] \in Nat
    BY <1>3, <1>5
  <1> QED BY <1>6, <1>7, <1>8, <1>9, <1>10, <1>11

LEMMA SendAccount ==
    ASSUME TypeInv, Account, NEW o \in Outputs, Send(o)
    PROVE  Account'
  <1> SUFFICES ASSUME honest', ~trimmed', ~split', NEW c \in Typable
               PROVE  shown'[c] + Times(c, Mark(stream')) = outputs'[c] + Times(c, typed') + Times(c, tx_echo')
    BY DEF Account
  <1> DEFINE of == IF IsSequence(o) THEN "seq" ELSE "out"
             t == Tag(o, of)
             new == IF IsSequence(o) THEN 0 ELSE Times(c, o)
  <1>1. o \in Seq(Chars) /\ c \in Chars /\ of \in Origins
    <2>1. c \in Chars
      BY DEF Typable, Printable, Letters, Chars
    <2> QED BY <2>1, WireAssumption DEF Origins
  <1>2. stream \in Seq(Sent) /\ typed \in Seq(Clean) /\ tx_echo \in Seq(Clean)
        /\ shown[c] \in Nat /\ outputs[c] \in Nat
    BY <1>1 DEF TypeInv
  <1>3. /\ stream' = stream \o t /\ honest' = honest /\ trimmed' = trimmed /\ split' = split
        /\ shown' = shown /\ typed' = typed /\ tx_echo' = tx_echo
    BY DEF Send, view
  <1>4. Times(c, o) \in Nat
    BY <1>1, TimesType
  <1>5. outputs'[c] = outputs[c] + new
    <2>1. outputs' = IF IsSequence(o) THEN outputs ELSE [x \in Chars |-> outputs[x] + Times(x, o)]
      BY DEF Send
    <2> QED BY <1>1, <1>2, <2>1
  <1>6. t \in Seq(Sent) /\ Times(c, Mark(t)) = new
    <2>1. Times(c, Mark(Tag(o, of))) = IF of = "seq" THEN 0 ELSE Times(c, o)
      BY <1>1, MarkTag
    <2> QED BY <1>1, <2>1, TagType
  <1> HIDE DEF t, new
  <1>7. Times(c, Mark(stream \o t)) = Times(c, Mark(stream)) + new
    <2>1. Mark(stream \o t) = Mark(stream) \o Mark(t) /\ Mark(stream) \in Seq(Marks) /\ Mark(t) \in Seq(Marks)
      BY <1>2, <1>6, MarkConcat, MarkType
    <2> QED BY <1>6, <2>1, TimesConcat
  <1>8. /\ new \in Nat /\ Times(c, typed) \in Nat /\ Times(c, tx_echo) \in Nat /\ Times(c, Mark(stream)) \in Nat
    BY <1>2, <1>4, TimesType, MarkType DEF new
  <1>9. shown[c] + Times(c, Mark(stream)) = outputs[c] + Times(c, typed) + Times(c, tx_echo)
    BY <1>3 DEF Account
  <1>10. /\ Times(c, Mark(stream')) = Times(c, Mark(stream)) + new
         /\ shown'[c] = shown[c] /\ Times(c, typed') = Times(c, typed) /\ Times(c, tx_echo') = Times(c, tx_echo)
         /\ shown[c] \in Nat /\ outputs[c] \in Nat
    BY <1>2, <1>3, <1>7
  <1> QED BY <1>5, <1>8, <1>9, <1>10

LEMMA FeedAccount ==
    ASSUME TypeInv, WireInv, Account, NEW n \in 1..Len(stream), feed(n)
    PROVE  Account'
  <1> SUFFICES ASSUME honest', ~trimmed', ~split', NEW c \in Typable
               PROVE  shown'[c] + Times(c, Mark(stream')) = outputs'[c] + Times(c, typed') + Times(c, tx_echo')
    BY DEF Account
  <1> DEFINE m == Match(Fed(n))
             M == Mark(stream)
             N == Len(stream)
  <1>1. /\ stream' = SubSeq(stream, n + 1, N) /\ tx_echo' = m.echo /\ Draw(m.extra)
        /\ split' = (split \/ CutsSequence(n))
        /\ honest' = honest /\ trimmed' = trimmed /\ typed' = typed /\ outputs' = outputs
    BY DEF feed, Fed
  <1>2. m \in Matches
    BY FedType, MatchEcho DEF TypeInv
  <1>3. Wire(stream) /\ Opens(stream[1]) /\ Closes(stream[n])
    <2>1. stream # <<>>
      BY DEF TypeInv
    <2> QED BY <1>1, <2>1 DEF WireInv, CutsSequence, Closes
  <1>4. Times(c, m.extra) + Times(c, tx_echo) = Times(c, m.echo) + Times(c, SubSeq(M, 1, n))
    BY <1>3, FedOnce
  <1> HIDE DEF m
  <1>5. /\ c \in Chars /\ tx_echo \in Seq(Clean) /\ typed \in Seq(Clean) /\ stream \in Seq(Sent)
        /\ shown[c] \in Nat /\ outputs[c] \in Nat /\ m.echo \in Seq(Clean) /\ m.extra \in Seq(Clean)
    <2>1. c \in Chars
      BY DEF Typable, Printable, Letters, Chars
    <2> QED BY <1>2, <2>1 DEF TypeInv, Matches
  <1>6. shown'[c] = shown[c] + Times(c, m.extra)
    BY <1>1, <1>5 DEF Draw
  <1>7. Times(c, M) = Times(c, SubSeq(M, 1, n)) + Times(c, Mark(stream'))
        /\ Times(c, SubSeq(M, 1, n)) \in Nat /\ Times(c, Mark(stream')) \in Nat
    <2> DEFINE a == SubSeq(M, 1, n)
               b == SubSeq(M, n + 1, N)
               s == SubSeq(stream, n + 1, N)
    <2>1. /\ M \in Seq(Marks) /\ Len(M) = N /\ N \in Nat /\ n \in 0..N
          /\ \A i \in 1..N : M[i] = IF stream[i].of = "seq" THEN "seq" ELSE stream[i].c
      <3>1. N \in Nat /\ n \in 0..N
        BY <1>5
      <3>2. /\ M \in Seq(Marks) /\ Len(M) = N
            /\ \A i \in 1..N : M[i] = IF stream[i].of = "seq" THEN "seq" ELSE stream[i].c
        BY <1>5, MarkType
      <3> QED BY <3>1, <3>2
    <2> HIDE DEF M
    <2>2. M = a \o b /\ a \in Seq(Marks)
      <3>1. 1 \in 1..Len(M) + 1 /\ n \in 1 - 1..Len(M) /\ Len(M) \in n..Len(M)
        BY <2>1
      <3> QED BY <2>1, <3>1, ConcatAdjacentSubSeq, SubSeqFull
    <2>3. /\ s \in Seq(Sent) /\ Len(s) = N - n /\ \A i \in 1..N - n : s[i] = stream[n + i]
          /\ b \in Seq(Marks) /\ Len(b) = N - n /\ \A i \in 1..N - n : b[i] = M[n + i]
      BY SMTT(30), <1>5, <2>1, Suffix
    <2> HIDE DEF a, b, s
    <2>4. /\ Mark(s) \in Seq(Marks) /\ Len(Mark(s)) = N - n
          /\ \A i \in 1..N - n : Mark(s)[i] = IF s[i].of = "seq" THEN "seq" ELSE s[i].c
      BY <2>3, MarkType
    <2>5. b = Mark(s)
      <3>1. \A i \in 1..N - n : n + i \in 1..N
        BY <2>1
      <3>2. \A i \in 1..N - n : b[i] = Mark(s)[i]
        BY <2>1, <2>3, <2>4, <3>1
      <3> QED BY <2>3, <2>4, <3>2, SeqEqual
    <2>6. Times(c, M) = Times(c, a) + Times(c, b) /\ Times(c, a) \in Nat /\ Times(c, b) \in Nat
      BY <2>2, <2>3, TimesConcat, TimesType
    <2>7. stream' = s
      BY <1>1 DEF s
    <2> QED BY <2>5, <2>6, <2>7 DEF a
  <1>8. /\ Times(c, m.extra) \in Nat /\ Times(c, m.echo) \in Nat /\ Times(c, typed) \in Nat
        /\ Times(c, tx_echo) \in Nat /\ Times(c, M) \in Nat
    BY <1>5, TimesType, MarkType
  <1>9. shown[c] + Times(c, M) = outputs[c] + Times(c, typed) + Times(c, tx_echo)
    BY <1>1 DEF Account
  <1> HIDE DEF M
  <1>10. /\ outputs'[c] = outputs[c] /\ Times(c, typed') = Times(c, typed)
         /\ Times(c, tx_echo') = Times(c, m.echo) /\ shown[c] \in Nat /\ outputs[c] \in Nat
    BY <1>1, <1>5
  <1> DEFINE fed == Times(c, SubSeq(M, 1, n))
             rest == Times(c, Mark(stream'))
  <1>11. /\ fed \in Nat /\ rest \in Nat /\ Times(c, M) = fed + rest
         /\ Times(c, m.extra) + Times(c, tx_echo) = Times(c, m.echo) + fed
    BY <1>4, <1>7
  <1> HIDE DEF fed, rest
  <1>12. shown[c] + Times(c, m.extra) + rest = outputs[c] + Times(c, typed) + Times(c, m.echo)
    <2>1. \A sh, ex, t, me, f, r, o, ty, all \in Nat :
             all = f + r /\ ex + t = me + f /\ sh + all = o + ty + t => sh + ex + r = o + ty + me
      OBVIOUS
    <2> DEFINE ex == Times(c, m.extra)
               me == Times(c, m.echo)
               t == Times(c, tx_echo)
               ty == Times(c, typed)
               all == Times(c, M)
               sh == shown[c]
               o == outputs[c]
    <2>2. /\ ex \in Nat /\ me \in Nat /\ t \in Nat /\ ty \in Nat /\ all \in Nat /\ sh \in Nat /\ o \in Nat
          /\ fed \in Nat /\ rest \in Nat
          /\ all = fed + rest /\ ex + t = me + fed /\ sh + all = o + ty + t
      BY <1>8, <1>9, <1>10, <1>11
    <2> HIDE DEF ex, me, t, ty, all, sh, o
    <2>3. sh + ex + rest = o + ty + me
      BY <2>1, <2>2
    <2> QED BY <2>3 DEF ex, me, ty, sh, o
  <1> QED BY <1>6, <1>10, <1>12 DEF rest

LEMMA AccountStep ==
    ASSUME TypeInv, WireInv, Account, [Next]_vars
    PROVE  Account'
  <1>1. CASE SwitchEcho
    BY <1>1 DEF SwitchEcho, Account, view, history
  <1>2. CASE UNCHANGED vars
    BY <1>2 DEF vars, Account, view, history
  <1> QED BY <1>1, <1>2, Acts, NoteAccount, FeedAccount, SendAccount

\* When all output has arrived, every character was drawn once for each time it
\* was typed or sent, however echoes and output were mixed: while each key is
\* echoed as itself, no expected echo was forgotten because too many waited, and
\* no chunk ended inside a sequence (terminal.py 62-67, 76-78, 80-88).
THEOREM DrawnOnceHolds == Spec => []DrawnOnce
  <1>1. Init => Account
    <2> SUFFICES ASSUME Init, NEW c \in Typable
                 PROVE  shown[c] + Times(c, Mark(stream)) = outputs[c] + Times(c, typed) + Times(c, tx_echo)
      BY DEF Account
    <2> DEFINE none == <<>>
    <2>1. none \in Seq(Sent) /\ DOMAIN none = {}
      OBVIOUS
    <2>2. stream = none /\ typed = none /\ tx_echo = none /\ Mark(stream) = none
      BY DEF Init, Mark
    <2>3. shown[c] = 0 /\ outputs[c] = 0
      <3>1. c \in Chars
        BY DEF Typable, Printable, Letters, Chars
      <3> QED BY <3>1 DEF Init
    <2> HIDE DEF none
    <2>4. Times(c, none) = 0
      BY <2>1, TimesNone
    <2> QED BY <2>2, <2>3, <2>4
  <1>2. TypeInv /\ WireInv /\ Account /\ [Next]_vars => Account'
    BY AccountStep
  <1>3. TypeInv /\ Account /\ EchoesMatched => DrawnOnce
    <2> SUFFICES ASSUME TypeInv, Account, EchoesMatched, honest, ~trimmed, ~split, stream = <<>>,
                        NEW c \in Typable
                 PROVE  shown[c] = outputs[c] + Times(c, typed)
      BY DEF DrawnOnce, Typable
    <2>1. tx_echo = <<>>
      <3>1. PICK f : Ahead(f, tx_echo, stream)
        BY EchoesAhead DEF EchoesMatched, TypeInv
      <3>2. DOMAIN stream = {}
        OBVIOUS
      <3>3. DOMAIN tx_echo = {}
        BY <3>1, <3>2 DEF Ahead
      <3>4. tx_echo \in Seq(Clean)
        BY DEF TypeInv
      <3> QED BY <3>3, <3>4
    <2> DEFINE none == <<>>
    <2>2. none \in Seq(Sent) /\ DOMAIN none = {} /\ Mark(stream) = none /\ tx_echo = none
      BY <2>1 DEF Mark
    <2>3. shown[c] \in Nat /\ outputs[c] \in Nat /\ Times(c, typed) \in Nat
      <3>1. c \in Chars
        BY DEF Typable, Printable, Letters, Chars
      <3>2. typed \in Seq(Clean) /\ shown[c] \in Nat /\ outputs[c] \in Nat
        BY <3>1 DEF TypeInv
      <3> QED BY <3>2, TimesType
    <2> HIDE DEF none
    <2>4. Times(c, none) = 0
      BY <2>2, TimesNone
    <2>5. shown[c] + Times(c, Mark(stream)) = outputs[c] + Times(c, typed) + Times(c, tx_echo)
      BY DEF Account
    <2> QED BY <2>2, <2>3, <2>4, <2>5
  <1> QED BY <1>1, <1>2, <1>3, TypesHold, WireHolds, EchoesMatchedHolds, PTL DEF Spec

=============================================================================
