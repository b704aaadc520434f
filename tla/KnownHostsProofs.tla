-------------------------- MODULE KnownHostsProofs --------------------------
(***************************************************************************)
(* Proofs about the file of trusted host keys: no host has two lines, a    *)
(* line for a host says no key but the last begun to be written for it,    *)
(* and therefore the file implements HostTable, whatever was cut short.    *)
(***************************************************************************)
EXTENDS KnownHosts, SequenceTheorems, TLAPS

Tokens == {Key(k) : k \in Hosts} \cup {Fp(f) : f \in Fps} \cup {Blank, Nl, Torn}

Ended(line) == line[Len(line)] = Nl

\* What reading the file in lines can give.
Texts ==
    {lines \in Seq(Seq(Tokens) \ {<<>>}) :
        \A i \in DOMAIN lines : i < Len(lines) => Ended(lines[i])}

OneLine(lines) ==
    \A k \in Hosts : \A i, j \in DOMAIN lines : IsFor(lines[i], k) /\ IsFor(lines[j], k) => i = j

\* A line for a host that goes on with a key.
Gives(line, k, f) == IsFor(line, k) /\ Len(line) >= 3 /\ line[3] = Fp(f)

\* What a line for a host goes on with is the last key begun for that host.
Genuine(lines, last) ==
    \A i \in DOMAIN lines : \A k \in Hosts, f \in Fps : Gives(lines[i], k, f) => f = last[k]

TypeOK ==
    /\ file \in Texts
    /\ latest \in [Hosts -> Fps \cup {NoFp}]

\* The inductive invariant.
StoreInv == TypeOK /\ OneLine(file) /\ Genuine(file, latest)

-----------------------------------------------------------------------------
(* Tokens and single lines.                                                *)

LEMMA Token ==
    /\ \A k, j : Key(k) = Key(j) => k = j
    /\ \A f, g : Fp(f) = Fp(g) => f = g
    /\ \A k, f : Key(k) # Fp(f)
    /\ \A k : Key(k) # Nl /\ Key(k) # Blank /\ Key(k) # Torn
    /\ \A f : Fp(f) # Nl /\ Fp(f) # Blank /\ Fp(f) # Torn
    /\ Blank # Nl /\ Blank # Torn /\ Nl # Torn
    /\ \A k \in Hosts : Key(k) \in Tokens
    /\ \A f \in Fps : Fp(f) \in Tokens
    /\ Blank \in Tokens /\ Nl \in Tokens /\ Torn \in Tokens
  BY DEF Key, Fp, Blank, Nl, Torn, Tokens

LEMMA FunctionSeq ==
    ASSUME NEW S, NEW n \in Nat, NEW s \in [1..n -> S]
    PROVE  s \in Seq(S) /\ Len(s) = n
  OBVIOUS

\* A new entry is a whole line that says its key, for its host and no other.
LEMMA EntryLine ==
    ASSUME NEW k \in Hosts, NEW f \in Fps
    PROVE  LET e == Entry(k, f)
           IN  /\ e \in Seq(Tokens) \ {<<>>} /\ Len(e) = 4 /\ Ended(e)
               /\ e[1] = Key(k) /\ e[2] = Blank /\ e[3] = Fp(f) /\ e[4] = Nl
               /\ \A j : IsFor(e, j) <=> j = k
               /\ \A g : Says(e, g) <=> g = f
               /\ \A j, g : Gives(e, j, g) => j = k /\ g = f
               /\ \E n \in 3..Len(e) : e[n] # Nl
  <1> DEFINE e == Entry(k, f)
  <1>1. e \in Seq(Tokens) /\ Len(e) = 4 /\ e[1] = Key(k) /\ e[2] = Blank /\ e[3] = Fp(f) /\ e[4] = Nl
    BY Token DEF Entry
  <1> HIDE DEF e
  <1>2. e # <<>> /\ Ended(e)
    BY <1>1 DEF Ended
  <1>6. \A j : IsFor(e, j) <=> j = k
    <2>1. \A j : Key(k) = Key(j) <=> k = j
      BY Token
    <2> QED BY <1>1, <2>1 DEF IsFor
  <1>3. \A g : Says(e, g) <=> g = f
    BY <1>1, Token DEF Says
  <1>4. \E n \in 3..Len(e) : e[n] # Nl
    BY <1>1, Token
  <1>5. \A j, g : Gives(e, j, g) => j = k /\ g = f
    BY <1>1, <1>6, Token DEF Gives
  <1> QED BY <1>1, <1>2, <1>3, <1>4, <1>5, <1>6 DEF e

\* A cut line that an entry was written after stays a line for the host it was
\* for, says nothing, and goes on as it did.
LEMMA JoinedLine ==
    ASSUME NEW line \in Seq(Tokens) \ {<<>>}, ~Ended(line), NEW k \in Hosts, NEW f \in Fps
    PROVE  LET l == line \o Entry(k, f)
           IN  /\ l \in Seq(Tokens) \ {<<>>} /\ Ended(l)
               /\ \A j : IsFor(l, j) <=> IsFor(line, j)
               /\ \A j, g : IsFor(l, j) => ~Says(l, g)
               /\ \A j, g : Gives(l, j, g) => Gives(line, j, g)
  <1> DEFINE e == Entry(k, f)
             l == line \o e
             n == Len(line)
  <1>1. /\ e \in Seq(Tokens) /\ Len(e) = 4
        /\ e[1] = Key(k) /\ e[2] = Blank /\ e[3] = Fp(f) /\ e[4] = Nl
    BY EntryLine
  <1> HIDE DEF e
  <1>2. n \in Nat \ {0} /\ line[n] # Nl
    BY DEF Ended
  <1>3. /\ l \in Seq(Tokens) /\ Len(l) = n + 4
        /\ \A i \in 1..n : l[i] = line[i]
        /\ \A i \in 1..4 : l[n + i] = e[i]
    <2>0. line \in Seq(Tokens) /\ e \in Seq(Tokens) /\ Len(e) = 4
      BY <1>1
    <2>1. l \in Seq(Tokens) /\ Len(l) = n + 4
      <3>1. l \in Seq(Tokens) /\ Len(l) = n + Len(e)
        BY <2>0, ConcatProperties
      <3> QED BY <2>0, <3>1
    <2>2. \A i \in 1..n + 4 : l[i] = IF i <= n THEN line[i] ELSE e[i - n]
      <3>1. \A i \in 1..n + Len(e) : l[i] = IF i <= n THEN line[i] ELSE e[i - n]
        BY <2>0, ConcatProperties
      <3> QED BY <2>0, <3>1
    <2> HIDE DEF l
    <2>3. \A i \in 1..4 : n + i \in 1..n + 4 /\ ~(n + i <= n) /\ (n + i) - n = i
      BY <1>2
    <2> QED BY <1>2, <2>1, <2>2, <2>3
  <1> HIDE DEF l, n
  <1>4. l[n + 1] = Key(k) /\ l[n + 2] = Blank /\ l[n + 3] = Fp(f) /\ l[n + 4] = Nl
    BY <1>1, <1>3
  <1>5. l # <<>> /\ Ended(l)
    BY <1>2, <1>3, <1>4 DEF Ended
  <1>6. \A j : IsFor(l, j) <=> IsFor(line, j)
    <2>1. CASE n = 1
      <3>1. l[2] # Blank
        BY <1>4, <2>1, Token
      <3> QED BY <2>1, <3>1 DEF IsFor, n
    <2>2. CASE n # 1
      <3>1. n >= 2 /\ Len(l) >= 2 /\ l[1] = line[1] /\ l[2] = line[2]
        BY <1>2, <1>3, <2>2
      <3> QED BY <3>1 DEF IsFor, n
    <2> QED BY <2>1, <2>2
  <1>7. ASSUME NEW j, IsFor(l, j) PROVE n >= 2
    BY <1>2, <1>6, <1>7 DEF IsFor, n
  <1>8. ASSUME NEW j, NEW g, IsFor(l, j) PROVE ~Says(l, g)
    <2>1. n >= 2
      BY <1>7, <1>8
    <2>2. CASE n = 2
      BY <1>4, <2>2, Token DEF Says
    <2>3. CASE n # 2
      <3>1. n + 1 \in 4..Len(l) /\ l[n + 1] # Nl
        BY <1>2, <1>3, <1>4, <2>1, <2>3, Token
      <3> QED BY <3>1 DEF Says
    <2> QED BY <2>2, <2>3
  <1>9. ASSUME NEW j, NEW g, Gives(l, j, g) PROVE Gives(line, j, g)
    <2>1. n >= 2 /\ IsFor(line, j) /\ l[3] = Fp(g)
      BY <1>6, <1>7, <1>9 DEF Gives
    <2>2. n # 2
      BY <1>4, <2>1, Token
    <2>3. n >= 3 /\ l[3] = line[3]
      BY <1>2, <1>3, <2>1, <2>2
    <2> QED BY <2>1, <2>3 DEF Gives, n
  <1> QED BY <1>3, <1>5, <1>6, <1>8, <1>9 DEF l, e

\* What is left of a line when its writing ends early is for no other host, and
\* goes on with no other key.
LEMMA StubLine ==
    ASSUME NEW line \in Seq(Tokens) \ {<<>>}, NEW stub \in Stubs(line)
    PROVE  /\ stub \in Seq(Tokens)
           /\ \A j : IsFor(stub, j) => IsFor(line, j)
           /\ \A j, g : Gives(stub, j, g) => Gives(line, j, g)
  <1>1. PICK m \in 0..Len(line) - 1 :
            stub = SubSeq(line, 1, m) \/ stub = Append(SubSeq(line, 1, m), Torn)
    BY DEF Stubs
  <1> DEFINE s == SubSeq(line, 1, m)
  <1>2. s \in Seq(Tokens) /\ Len(s) = m /\ m <= Len(line) /\ m \in Nat /\ \A i \in 1..m : s[i] = line[i]
    OBVIOUS
  <1> HIDE DEF s
  <1>3. /\ stub \in Seq(Tokens)
        /\ Len(stub) \in Nat /\ Len(line) \in Nat
        /\ \A i \in 1..Len(stub) : i <= Len(line) /\ (stub[i] = line[i] \/ stub[i] = Torn)
    <2>1. CASE stub = s
      BY <1>2, <2>1
    <2>2. CASE stub = Append(s, Torn)
      <3>1. stub \in Seq(Tokens) /\ Len(stub) = m + 1 /\ stub[m + 1] = Torn /\ \A i \in 1..m : stub[i] = s[i]
        BY <1>2, <2>2, Token
      <3> QED BY <1>1, <1>2, <3>1
    <2> QED BY <1>1, <2>1, <2>2 DEF s
  <1>4. ASSUME NEW j, IsFor(stub, j) PROVE IsFor(line, j)
    <2>1. Len(stub) >= 2 /\ stub[1] # Torn /\ stub[2] # Torn
      BY <1>4, Token DEF IsFor
    <2> QED BY <1>3, <1>4, <2>1 DEF IsFor
  <1>5. ASSUME NEW j, NEW g, Gives(stub, j, g) PROVE Gives(line, j, g)
    <2>1. Len(stub) >= 3 /\ stub[3] = Fp(g) /\ stub[3] # Torn /\ IsFor(line, j)
      BY <1>4, <1>5, Token DEF Gives
    <2> QED BY <1>3, <2>1 DEF Gives
  <1> QED BY <1>3, <1>4, <1>5

-----------------------------------------------------------------------------
(* What is read from a text.                                               *)

\* The first line for k that has anything after the blank says f.
First(lines, k, f) ==
    \E i \in Found(lines, k) : Says(lines[i], f) /\ \A j \in Found(lines, k) : i <= j

\* A text says the key that the first such line says, and no other.
LEMMA SaidIs ==
    ASSUME NEW lines \in Texts, NEW k
    PROVE  /\ Said(lines, k) \in Fps \cup {NoFp}
           /\ \A f \in Fps : Said(lines, k) = f <=> First(lines, k, f)
  <1> DEFINE says == {f \in Fps : First(lines, k, f)}
  <1>1. Said(lines, k) = IF says = {} THEN NoFp ELSE CHOOSE f \in says : TRUE
    BY DEF Said, First
  <1>2. Found(lines, k) \subseteq Nat
    BY DEF Found, Texts
  <1>3. ASSUME NEW f \in says, NEW g \in says PROVE f = g
    <2>1. PICK i \in Found(lines, k) : Says(lines[i], f) /\ \A j \in Found(lines, k) : i <= j
      BY <1>3 DEF First
    <2>2. PICK j \in Found(lines, k) : Says(lines[j], g) /\ \A n \in Found(lines, k) : j <= n
      BY <1>3 DEF First
    <2>3. i = j
      BY <1>2, <2>1, <2>2
    <2>4. Fp(f) = Fp(g)
      BY <2>1, <2>2, <2>3 DEF Says
    <2> QED BY <2>4, Token
  <1>4. \A f \in says : Said(lines, k) = f
    BY <1>1, <1>3
  <1>5. says = {} => Said(lines, k) = NoFp
    BY <1>1
  <1>6. says \subseteq Fps
    OBVIOUS
  <1>7. \A f \in Fps : f \in says <=> First(lines, k, f)
    OBVIOUS
  <1>8. ASSUME NEW f \in Fps, Said(lines, k) = f PROVE f \in says
    <2>1. says # {}
      BY <1>5, <1>8, KnownHostsAssumption
    <2> QED BY <1>4, <1>8, <2>1
  <1> HIDE DEF says
  <1>9. Said(lines, k) \in Fps \cup {NoFp}
    BY <1>4, <1>5, <1>6
  <1> QED BY <1>4, <1>7, <1>8, <1>9

\* Two texts with the same lines for k say the same.
LEMMA SaidSame ==
    ASSUME NEW s \in Texts, NEW t \in Texts, NEW k,
           Found(s, k) = Found(t, k), \A i \in Found(s, k) : s[i] = t[i]
    PROVE  Said(s, k) = Said(t, k)
  <1>1. \A f : First(s, k, f) <=> First(t, k, f)
    BY DEF First
  <1>2. /\ Said(s, k) \in Fps \cup {NoFp} /\ Said(t, k) \in Fps \cup {NoFp}
        /\ \A f \in Fps : Said(s, k) = f <=> First(s, k, f)
        /\ \A f \in Fps : Said(t, k) = f <=> First(t, k, f)
    BY SaidIs
  <1> QED BY <1>1, <1>2, KnownHostsAssumption

\* A text whose lines are genuine says the last key asked for, or none.
LEMMA SaidGenuine ==
    ASSUME NEW lines \in Texts, NEW last, Genuine(lines, last), NEW k \in Hosts
    PROVE  Said(lines, k) \in {last[k], NoFp}
  <1> SUFFICES ASSUME NEW f \in Fps, Said(lines, k) = f PROVE f = last[k]
    BY SaidIs
  <1>1. PICK i \in Found(lines, k) : Says(lines[i], f)
    BY SaidIs DEF First
  <1>2. i \in DOMAIN lines /\ Gives(lines[i], k, f)
    BY <1>1 DEF Found, Says, Gives
  <1> QED BY <1>2 DEF Genuine

\* A text without lines for k says nothing for it.
LEMMA SaidNone ==
    ASSUME NEW lines \in Texts, NEW k, \A i \in DOMAIN lines, f \in Fps : ~(IsFor(lines[i], k) /\ Says(lines[i], f))
    PROVE  Said(lines, k) = NoFp
  <1>1. \A f \in Fps : ~First(lines, k, f)
    BY DEF First, Found
  <1> QED BY <1>1, SaidIs

\* The only line for k that has anything after the blank says what it says.
LEMMA SaidOnly ==
    ASSUME NEW lines \in Texts, NEW k, NEW i \in Found(lines, k), NEW f \in Fps, Says(lines[i], f),
           \A j \in Found(lines, k) : i <= j
    PROVE  Said(lines, k) = f
  BY SaidIs DEF First

LEMMA TextLines ==
    ASSUME NEW lines \in Texts
    PROVE  /\ Len(lines) \in Nat /\ DOMAIN lines = 1..Len(lines)
           /\ \A i \in DOMAIN lines : lines[i] \in Seq(Tokens) \ {<<>>}
           /\ \A i \in DOMAIN lines : i < Len(lines) => Ended(lines[i])
           /\ Frayed(lines) <=> lines # <<>> /\ ~Ended(lines[Len(lines)])
           /\ lines # <<>> => Len(lines) \in DOMAIN lines
  BY DEF Texts, Frayed, Ended

-----------------------------------------------------------------------------
(* The three ways in which trust writes the text again; two of them are    *)
(* named, for the provers to find them in the lemma.                       *)

Replaces(u, t, k, f) == u = [i \in DOMAIN t |-> IF IsFor(t[i], k) THEN Entry(k, f) ELSE t[i]]

Appends(u, t, k, f) == u = Append(t, Entry(k, f))

\* The lines for the host are rewritten.
LEMMA Replaced ==
    ASSUME NEW t \in Texts, OneLine(t), NEW k \in Hosts, NEW f \in Fps,
           NEW p \in DOMAIN t, IsFor(t[p], k),
           NEW u, Replaces(u, t, k, f),
           NEW last \in [Hosts -> Fps \cup {NoFp}], Genuine(t, last)
    PROVE  /\ u \in Texts /\ OneLine(u) /\ Genuine(u, [last EXCEPT ![k] = f])
           /\ Said(u, k) = f
           /\ \A j \in Hosts \ {k} : Said(u, j) = Said(t, j)
           /\ ~Frayed(t) => ~Frayed(u)
  <1> DEFINE e == Entry(k, f)
  <1>1. /\ e \in Seq(Tokens) \ {<<>>} /\ Ended(e)
        /\ \A j : IsFor(e, j) <=> j = k
        /\ \A g : Says(e, g) <=> g = f
        /\ \A j, g : Gives(e, j, g) => j = k /\ g = f
        /\ \E n \in 3..Len(e) : e[n] # Nl
    BY EntryLine
  <1>2. /\ Len(t) \in Nat /\ DOMAIN t = 1..Len(t)
        /\ \A i \in DOMAIN t : t[i] \in Seq(Tokens) \ {<<>>}
        /\ \A i \in DOMAIN t : i < Len(t) => Ended(t[i])
        /\ Frayed(t) <=> t # <<>> /\ ~Ended(t[Len(t)])
        /\ t # <<>> => Len(t) \in DOMAIN t
    BY TextLines
  <1> HIDE DEF e
  <1>3. /\ DOMAIN u = DOMAIN t
        /\ \A i \in DOMAIN t : IF IsFor(t[i], k) THEN u[i] = e ELSE u[i] = t[i]
    <2>1. u = [i \in DOMAIN t |-> IF IsFor(t[i], k) THEN e ELSE t[i]]
      BY DEF Replaces, e
    <2>2. \A i \in DOMAIN t : u[i] = IF IsFor(t[i], k) THEN e ELSE t[i]
      BY <2>1
    <2>3. DOMAIN u = DOMAIN t
      BY <2>1
    <2> QED BY <2>2, <2>3
  <1>4. u \in Seq(Seq(Tokens) \ {<<>>}) /\ Len(u) = Len(t)
    <2>1. u \in [1..Len(t) -> Seq(Tokens) \ {<<>>}]
      <3>1. \A i \in 1..Len(t) : u[i] \in Seq(Tokens) \ {<<>>}
        BY <1>1, <1>2, <1>3
      <3>2. u = [i \in 1..Len(t) |-> u[i]]
        BY <1>2 DEF Replaces
      <3> QED BY <3>1, <3>2
    <2> QED BY <1>2, <2>1, FunctionSeq
  <1>5. u \in Texts
    <2>1. ASSUME NEW i \in DOMAIN u, i < Len(u) PROVE Ended(u[i])
      BY <1>1, <1>2, <1>3, <1>4, <2>1
    <2> QED BY <1>4, <2>1 DEF Texts
  <1>6. \A i \in DOMAIN t : \A j \in Hosts : IsFor(u[i], j) <=> IsFor(t[i], j)
    <2> SUFFICES ASSUME NEW i \in DOMAIN t, NEW j \in Hosts PROVE IsFor(u[i], j) <=> IsFor(t[i], j)
      OBVIOUS
    <2>1. ASSUME IsFor(t[i], k), IsFor(t[i], j) PROVE j = k
      <3>1. Key(k) = Key(j)
        BY <2>1 DEF IsFor
      <3> QED BY <3>1, Token
    <2> QED BY <1>1, <1>3, <2>1
  <1>7. OneLine(u)
    BY <1>3, <1>6 DEF OneLine
  <1>8. Genuine(u, [last EXCEPT ![k] = f])
    <2> SUFFICES ASSUME NEW i \in DOMAIN t, NEW j \in Hosts, NEW g \in Fps, Gives(u[i], j, g)
                 PROVE  g = [last EXCEPT ![k] = f][j]
      BY <1>3 DEF Genuine
    <2>1. CASE IsFor(t[i], k)
      <3>1. j = k /\ g = f
        BY <1>1, <1>3, <2>1
      <3> QED BY <3>1
    <2>2. CASE ~IsFor(t[i], k)
      <3>1. Gives(t[i], j, g)
        BY <1>3, <2>2
      <3>2. IsFor(t[i], j)
        BY <3>1 DEF Gives
      <3>3. g = last[j] /\ j # k
        BY <2>2, <3>1, <3>2 DEF Genuine
      <3> QED BY <3>3
    <2> QED BY <2>1, <2>2
  <1>9. Said(u, k) = f
    <2>1. u[p] = e
      BY <1>3
    <2>2. p \in Found(u, k) /\ Says(u[p], f)
      BY <1>1, <1>3, <2>1 DEF Found
    <2>3. ASSUME NEW i \in Found(u, k) PROVE p <= i
      <3>1. i \in DOMAIN t /\ IsFor(t[i], k)
        BY <1>3, <1>6, <2>3 DEF Found
      <3>2. i = p
        BY <3>1 DEF OneLine
      <3> QED BY <1>2, <3>2
    <2> QED BY <1>5, <2>2, <2>3, SaidOnly
  <1>10. ASSUME NEW j \in Hosts \ {k} PROVE Said(u, j) = Said(t, j)
    <2>1. \A i \in DOMAIN t : IsFor(t[i], j) => u[i] = t[i]
      BY <1>1, <1>3, <1>6
    <2>2. Found(u, j) = Found(t, j)
      BY <1>3, <1>6, <2>1 DEF Found
    <2>3. \A i \in Found(u, j) : u[i] = t[i]
      BY <2>1, <2>2 DEF Found
    <2> QED BY <1>5, <2>2, <2>3, SaidSame
  <1>11. ASSUME ~Frayed(t) PROVE ~Frayed(u)
    <2>1. Len(t) \in DOMAIN t /\ Ended(t[Len(t)])
      BY <1>2, <1>11
    <2>2. Ended(u[Len(u)])
      BY <1>1, <1>3, <1>4, <2>1
    <2> QED BY <1>5, <2>2, TextLines
  <1> QED BY <1>5, <1>7, <1>8, <1>9, <1>10, <1>11

\* A line is added after the last one, which has its line end.
LEMMA Appended ==
    ASSUME NEW t \in Texts, OneLine(t), ~Frayed(t), NEW k \in Hosts, NEW f \in Fps,
           \A i \in DOMAIN t : ~IsFor(t[i], k),
           NEW u, Appends(u, t, k, f),
           NEW last \in [Hosts -> Fps \cup {NoFp}], Genuine(t, last)
    PROVE  /\ u \in Texts /\ OneLine(u) /\ Genuine(u, [last EXCEPT ![k] = f])
           /\ Said(u, k) = f
           /\ \A j \in Hosts \ {k} : Said(u, j) = Said(t, j)
           /\ ~Frayed(u)
  <1> DEFINE e == Entry(k, f)
             n == Len(t)
  <1>1. /\ e \in Seq(Tokens) \ {<<>>} /\ Ended(e)
        /\ \A j : IsFor(e, j) <=> j = k
        /\ \A g : Says(e, g) <=> g = f
        /\ \A j, g : Gives(e, j, g) => j = k /\ g = f
        /\ \E m \in 3..Len(e) : e[m] # Nl
    BY EntryLine
  <1>2. /\ n \in Nat /\ DOMAIN t = 1..n
        /\ \A i \in 1..n : t[i] \in Seq(Tokens) \ {<<>>}
        /\ \A i \in 1..n : Ended(t[i])
    BY TextLines
  <1> HIDE DEF e
  <1>3. /\ u \in Seq(Seq(Tokens) \ {<<>>}) /\ Len(u) = n + 1 /\ DOMAIN u = 1..n + 1
        /\ u[n + 1] = e
        /\ \A i \in 1..n : u[i] = t[i]
    <2>1. t \in Seq(Seq(Tokens) \ {<<>>})
      BY DEF Texts
    <2> QED BY <1>1, <2>1 DEF Appends, e
  <1> HIDE DEF n
  <1>4. \A i \in 1..n + 1 : i = n + 1 \/ i \in 1..n
    BY <1>2
  <1>5. u \in Texts
    <2>1. \A i \in DOMAIN u : Ended(u[i])
      BY <1>1, <1>2, <1>3, <1>4
    <2> QED BY <1>3, <2>1 DEF Texts
  <1>6. OneLine(u)
    <2> SUFFICES ASSUME NEW j \in Hosts, NEW a \in DOMAIN u, NEW b \in DOMAIN u,
                        IsFor(u[a], j), IsFor(u[b], j)
                 PROVE  a = b
      BY DEF OneLine
    <2>1. CASE j = k
      BY <1>2, <1>3, <1>4, <2>1
    <2>2. CASE j # k
      <3>1. a \in 1..n /\ b \in 1..n
        BY <1>1, <1>3, <1>4, <2>2
      <3> QED BY <1>2, <1>3, <3>1 DEF OneLine
    <2> QED BY <2>1, <2>2
  <1>7. Genuine(u, [last EXCEPT ![k] = f])
    <2> SUFFICES ASSUME NEW i \in DOMAIN u, NEW j \in Hosts, NEW g \in Fps, Gives(u[i], j, g)
                 PROVE  g = [last EXCEPT ![k] = f][j]
      BY DEF Genuine
    <2>1. CASE i = n + 1
      <3>1. j = k /\ g = f
        BY <1>1, <1>3, <2>1
      <3> QED BY <3>1
    <2>2. CASE i \in 1..n
      <3>1. Gives(t[i], j, g) /\ IsFor(t[i], j)
        BY <1>3, <2>2 DEF Gives
      <3>2. g = last[j] /\ j # k
        BY <1>2, <2>2, <3>1 DEF Genuine
      <3> QED BY <3>2
    <2> QED BY <1>3, <1>4, <2>1, <2>2
  <1>8. Said(u, k) = f
    <2>1. n + 1 \in Found(u, k) /\ Says(u[n + 1], f)
      BY <1>1, <1>2, <1>3 DEF Found
    <2>2. ASSUME NEW i \in Found(u, k) PROVE n + 1 <= i
      BY <1>2, <1>3, <1>4, <2>2 DEF Found
    <2> QED BY <1>5, <2>1, <2>2, SaidOnly
  <1>9. ASSUME NEW j \in Hosts \ {k} PROVE Said(u, j) = Said(t, j)
    <2>1. \A i \in DOMAIN u : IsFor(u[i], j) => i \in 1..n /\ u[i] = t[i]
      BY <1>1, <1>3, <1>4
    <2>2. \A i \in Found(u, j) : i \in Found(t, j) /\ u[i] = t[i]
      BY <1>2, <2>1 DEF Found
    <2>3. \A i \in Found(t, j) : i \in Found(u, j)
      BY <1>2, <1>3 DEF Found
    <2>4. Found(u, j) = Found(t, j)
      BY <2>2, <2>3
    <2> QED BY <1>5, <2>2, <2>4, SaidSame
  <1>10. ~Frayed(u)
    BY <1>1, <1>3, <1>5, TextLines
  <1> QED BY <1>5, <1>6, <1>7, <1>8, <1>9, <1>10

\* An entry is added to the last line, which was cut.
LEMMA Joined ==
    ASSUME NEW t \in Texts, OneLine(t), Frayed(t), NEW k \in Hosts, NEW f \in Fps,
           \A i \in DOMAIN t : ~IsFor(t[i], k),
           NEW u, u = [t EXCEPT ![Len(t)] = @ \o Entry(k, f)],
           NEW last \in [Hosts -> Fps \cup {NoFp}], Genuine(t, last)
    PROVE  /\ u \in Texts /\ OneLine(u) /\ Genuine(u, [last EXCEPT ![k] = f])
           /\ Said(u, k) = NoFp
           /\ \A j \in Hosts \ {k} : Said(u, j) \in {Said(t, j), NoFp}
           /\ ~Frayed(u)
  <1> DEFINE n == Len(t)
             l == t[n] \o Entry(k, f)
  <1>1. /\ n \in Nat \ {0} /\ DOMAIN t = 1..n /\ n \in 1..n
        /\ \A i \in 1..n : t[i] \in Seq(Tokens) \ {<<>>}
        /\ \A i \in 1..n : i < n => Ended(t[i])
        /\ ~Ended(t[n])
    <2>1. n \in Nat /\ DOMAIN t = 1..n /\ t # <<>> /\ n \in DOMAIN t
      BY TextLines
    <2> QED BY <2>1, TextLines
  <1>2. /\ l \in Seq(Tokens) \ {<<>>} /\ Ended(l)
        /\ \A j : IsFor(l, j) <=> IsFor(t[n], j)
        /\ \A j, g : IsFor(l, j) => ~Says(l, g)
        /\ \A j, g : Gives(l, j, g) => Gives(t[n], j, g)
    BY <1>1, JoinedLine
  <1>3. DOMAIN u = 1..n /\ u[n] = l /\ \A i \in 1..n : i # n => u[i] = t[i]
    BY <1>1
  <1>4. u \in Seq(Seq(Tokens) \ {<<>>}) /\ Len(u) = n
    <2>1. u \in [1..n -> Seq(Tokens) \ {<<>>}]
      BY <1>1, <1>2
    <2>2. n \in Nat
      BY <1>1
    <2> HIDE DEF l, n
    <2> QED BY <2>1, <2>2, FunctionSeq
  <1> HIDE DEF l, n
  <1>5. u \in Texts
    <2>1. \A i \in DOMAIN u : i < Len(u) => Ended(u[i])
      BY <1>1, <1>3, <1>4
    <2> QED BY <1>4, <2>1 DEF Texts
  <1>6. \A i \in 1..n, j \in Hosts : IsFor(u[i], j) <=> IsFor(t[i], j)
    BY <1>2, <1>3
  <1>7. OneLine(u)
    BY <1>1, <1>3, <1>6 DEF OneLine
  <1>8. Genuine(u, [last EXCEPT ![k] = f])
    <2> SUFFICES ASSUME NEW i \in 1..n, NEW j \in Hosts, NEW g \in Fps, Gives(u[i], j, g)
                 PROVE  g = [last EXCEPT ![k] = f][j]
      BY <1>3 DEF Genuine
    <2>1. Gives(t[i], j, g)
      BY <1>2, <1>3
    <2>2. g = last[j] /\ j # k
      BY <1>1, <2>1 DEF Genuine, Gives
    <2> QED BY <2>2
  <1>9. Said(u, k) = NoFp
    <2>1. \A i \in DOMAIN u : ~IsFor(u[i], k)
      BY <1>1, <1>3, <1>6
    <2> QED BY <1>5, <2>1, SaidNone
  <1>10. ASSUME NEW j \in Hosts \ {k} PROVE Said(u, j) \in {Said(t, j), NoFp}
    <2>1. CASE IsFor(t[n], j)
      <3>1. \A i \in 1..n : IsFor(u[i], j) => i = n
        BY <1>1, <1>6, <2>1 DEF OneLine
      <3>2. \A i \in DOMAIN u, g \in Fps : ~(IsFor(u[i], j) /\ Says(u[i], g))
        BY <1>2, <1>3, <3>1
      <3>3. Said(u, j) = NoFp
        BY <1>5, <3>2, SaidNone
      <3> QED BY <3>3
    <2>2. CASE ~IsFor(t[n], j)
      <3>1. \A i \in 1..n : IsFor(t[i], j) => u[i] = t[i]
        BY <1>3, <2>2
      <3>2. Found(u, j) = Found(t, j)
        BY <1>1, <1>3, <1>6, <3>1 DEF Found
      <3>3. \A i \in Found(u, j) : u[i] = t[i]
        BY <1>1, <3>1, <3>2 DEF Found
      <3>4. Said(u, j) = Said(t, j)
        BY <1>5, <3>2, <3>3, SaidSame
      <3> QED BY <3>4
    <2> QED BY <2>1, <2>2
  <1>11. ~Frayed(u)
    BY <1>2, <1>3, <1>4, <1>5, TextLines
  <1> QED BY <1>5, <1>7, <1>8, <1>9, <1>10, <1>11

\* A text that is cut is a text of lines that were there or are left of one.
LEMMA CutText ==
    ASSUME NEW t \in Texts, NEW n \in DOMAIN t, NEW stub \in Stubs(t[n]), NEW u, u = CutIn(t, n, stub)
    PROVE  /\ u \in Texts
           /\ DOMAIN u \subseteq DOMAIN t
           /\ \A i \in DOMAIN u : u[i] = t[i] \/ (u[i] = stub /\ i = n)
  <1> DEFINE L == Seq(Tokens) \ {<<>>}
             s == SubSeq(t, 1, n - 1)
             tail == IF stub = <<>> THEN <<>> ELSE <<stub>>
  <1>1. /\ Len(t) \in Nat /\ DOMAIN t = 1..Len(t) /\ t \in Seq(L) /\ t[n] \in L
        /\ \A i \in DOMAIN t : i < Len(t) => Ended(t[i])
    BY TextLines DEF Texts
  <1>2. stub \in Seq(Tokens)
    BY <1>1, StubLine
  <1> HIDE DEF L
  <1>3. s \in Seq(L) /\ Len(s) = n - 1 /\ \A i \in 1..n - 1 : s[i] = t[i]
    BY <1>1
  <1>4. n \in Nat \ {0} /\ n <= Len(t) /\ \A i \in 1..n - 1 : i \in DOMAIN t /\ Ended(t[i])
    BY <1>1
  <1> HIDE DEF s
  <1>5. u = s \o tail
    BY DEF CutIn, s
  <1>6. CASE stub = <<>>
    <2>1. u = s
      BY <1>3, <1>5, <1>6
    <2>2. \A i \in DOMAIN u : i \in 1..n - 1 /\ u[i] = t[i] /\ Ended(u[i])
      BY <1>3, <1>4, <2>1
    <2>3. u \in Texts
      BY <1>3, <2>1, <2>2 DEF Texts, L
    <2> QED BY <1>4, <2>2, <2>3
  <1>7. CASE stub # <<>>
    <2>1. u = Append(s, stub) /\ stub \in L
      BY <1>2, <1>3, <1>5, <1>7 DEF L
    <2>2. u \in Seq(L) /\ Len(u) = n /\ u[n] = stub /\ \A i \in 1..n - 1 : u[i] = t[i]
      BY <1>3, <1>4, <2>1
    <2>3. DOMAIN u = 1..n /\ \A i \in DOMAIN u : i < Len(u) => Ended(u[i])
      BY <1>4, <2>2
    <2>4. u \in Texts
      BY <2>2, <2>3 DEF Texts, L
    <2> QED BY <1>1, <1>4, <2>2, <2>3, <2>4
  <1> QED BY <1>6, <1>7

\* Cutting a text keeps what holds of its lines.
LEMMA CutKeeps ==
    ASSUME NEW t \in Texts, OneLine(t), NEW last, Genuine(t, last),
           NEW n \in DOMAIN t, NEW stub \in Stubs(t[n])
    PROVE  LET u == CutIn(t, n, stub) IN u \in Texts /\ OneLine(u) /\ Genuine(u, last)
  <1> DEFINE u == CutIn(t, n, stub)
  <1>1. /\ u \in Texts /\ DOMAIN u \subseteq DOMAIN t
        /\ \A i \in DOMAIN u : u[i] = t[i] \/ (u[i] = stub /\ i = n)
    BY CutText
  <1>2. /\ \A j : IsFor(stub, j) => IsFor(t[n], j)
        /\ \A j, g : Gives(stub, j, g) => Gives(t[n], j, g)
    <2>1. t[n] \in Seq(Tokens) \ {<<>>}
      BY TextLines
    <2> QED BY <2>1, StubLine
  <1> HIDE DEF u
  <1>3. \A i \in DOMAIN u, j \in Hosts : IsFor(u[i], j) => i \in DOMAIN t /\ IsFor(t[i], j)
    BY <1>1, <1>2
  <1>4. \A i \in DOMAIN u, j \in Hosts, g \in Fps : Gives(u[i], j, g) => i \in DOMAIN t /\ Gives(t[i], j, g)
    BY <1>1, <1>2
  <1>5. OneLine(u)
    BY <1>3 DEF OneLine
  <1>6. Genuine(u, last)
    BY <1>4 DEF Genuine
  <1> QED BY <1>1, <1>5, <1>6 DEF u

-----------------------------------------------------------------------------
(* The steps of the store.                                                 *)

\* What trust writes is a text in which the host has one line, and the others
\* what they had; on a text that ends inside a line the new line may be lost.
LEMMA Writes ==
    ASSUME StoreInv, NEW k \in Hosts, NEW f \in Fps
    PROVE  LET u == Rewritten(k, f)
           IN  /\ u \in Texts /\ OneLine(u) /\ Genuine(u, [latest EXCEPT ![k] = f])
               /\ Said(u, k) \in {f, NoFp}
               /\ \A j \in Hosts \ {k} : Said(u, j) \in {Said(file, j), NoFp}
               /\ ~Frayed(file) =>
                    ~Frayed(u) /\ Said(u, k) = f /\ \A j \in Hosts \ {k} : Said(u, j) = Said(file, j)
               /\ Said(u, k) = NoFp => ~Frayed(u)
  <1> DEFINE u == Rewritten(k, f)
  <1>1. /\ file \in Texts /\ OneLine(file) /\ Genuine(file, latest)
        /\ latest \in [Hosts -> Fps \cup {NoFp}]
    BY DEF StoreInv, TypeOK
  <1>2. f # NoFp
    BY KnownHostsAssumption
  <1>3. CASE \E p \in DOMAIN file : IsFor(file[p], k)
    <2>1. Replaces(u, file, k, f)
      BY <1>3 DEF Rewritten, Replaces
    <2> HIDE DEF u
    <2>2. PICK p \in DOMAIN file : IsFor(file[p], k)
      BY <1>3
    <2>3. /\ u \in Texts /\ OneLine(u) /\ Genuine(u, [latest EXCEPT ![k] = f])
          /\ Said(u, k) = f
          /\ \A j \in Hosts \ {k} : Said(u, j) = Said(file, j)
          /\ ~Frayed(file) => ~Frayed(u)
      BY <1>1, <2>1, <2>2, Replaced
    <2> QED BY <1>2, <2>3 DEF u
  <1>4. CASE ~(\E p \in DOMAIN file : IsFor(file[p], k)) /\ Frayed(file)
    <2>1. u = [file EXCEPT ![Len(file)] = @ \o Entry(k, f)]
      BY <1>4 DEF Rewritten, Added
    <2> HIDE DEF u
    <2>2. /\ u \in Texts /\ OneLine(u) /\ Genuine(u, [latest EXCEPT ![k] = f])
          /\ Said(u, k) = NoFp
          /\ \A j \in Hosts \ {k} : Said(u, j) \in {Said(file, j), NoFp}
          /\ ~Frayed(u)
      BY <1>1, <1>4, <2>1, Joined
    <2> QED BY <1>4, <2>2 DEF u
  <1>5. CASE ~(\E p \in DOMAIN file : IsFor(file[p], k)) /\ ~Frayed(file)
    <2>1. Appends(u, file, k, f)
      BY <1>5 DEF Rewritten, Added, Appends
    <2> HIDE DEF u
    <2>3. \A i \in DOMAIN file : ~IsFor(file[i], k)
      BY <1>5
    <2>2. /\ u \in Texts /\ OneLine(u) /\ Genuine(u, [latest EXCEPT ![k] = f])
          /\ Said(u, k) = f
          /\ \A j \in Hosts \ {k} : Said(u, j) = Said(file, j)
          /\ ~Frayed(u)
      BY <1>1, <1>5, <2>1, <2>3, Appended
    <2> QED BY <1>2, <2>2 DEF u
  <1> QED BY <1>3, <1>4, <1>5

LEMMA InitInv == Init => StoreInv
  <1> SUFFICES ASSUME Init PROVE StoreInv
    OBVIOUS
  <1>1. file = <<>> /\ latest = [k \in Hosts |-> NoFp]
    BY DEF Init
  <1>2. TypeOK
    BY <1>1 DEF TypeOK, Texts
  <1>3. OneLine(file) /\ Genuine(file, latest)
    BY <1>1 DEF OneLine, Genuine
  <1> QED BY <1>2, <1>3 DEF StoreInv

\* The type of the history of what was begun.
LEMMA BegunType ==
    ASSUME TypeOK, NEW k \in Hosts, NEW f \in Fps, Begun(k, f)
    PROVE  latest' = [latest EXCEPT ![k] = f] /\ latest' \in [Hosts -> Fps \cup {NoFp}]
  BY DEF TypeOK, Begun

LEMMA TrustInv ==
    ASSUME StoreInv, NEW k \in Hosts, NEW f \in Fps, trust(k, f)
    PROVE  StoreInv'
  <1>1. file' = Rewritten(k, f) /\ Begun(k, f)
    BY DEF trust
  <1>2. latest' = [latest EXCEPT ![k] = f] /\ latest' \in [Hosts -> Fps \cup {NoFp}]
    BY <1>1, BegunType DEF StoreInv
  <1>3. file' \in Texts /\ OneLine(file') /\ Genuine(file', latest')
    BY <1>1, <1>2, Writes
  <1> QED BY <1>2, <1>3 DEF StoreInv, TypeOK

LEMMA TrustCutInv ==
    ASSUME StoreInv, NEW k \in Hosts, NEW f \in Fps, TrustCut(k, f)
    PROVE  StoreInv'
  <1> DEFINE u == Rewritten(k, f)
  <1>1. Begun(k, f) /\ \E n \in DOMAIN u : \E stub \in Stubs(u[n]) : file' = CutIn(u, n, stub)
    BY DEF TrustCut
  <1>2. latest' = [latest EXCEPT ![k] = f] /\ latest' \in [Hosts -> Fps \cup {NoFp}]
    BY <1>1, BegunType DEF StoreInv
  <1>3. u \in Texts /\ OneLine(u) /\ Genuine(u, latest')
    BY <1>2, Writes
  <1> HIDE DEF u
  <1>4. file' \in Texts /\ OneLine(file') /\ Genuine(file', latest')
    BY <1>1, <1>3, CutKeeps
  <1> QED BY <1>2, <1>4 DEF StoreInv, TypeOK

LEMMA NextInv == StoreInv /\ [Next]_vars => StoreInv'
  <1> SUFFICES ASSUME StoreInv, [Next]_vars PROVE StoreInv'
    OBVIOUS
  <1>1. ASSUME NEW k \in Hosts, NEW f \in Fps, trust(k, f) PROVE StoreInv'
    BY <1>1, TrustInv
  <1>2. ASSUME NEW k \in Hosts, NEW f \in Fps, TrustCut(k, f) PROVE StoreInv'
    BY <1>2, TrustCutInv
  <1>3. ASSUME NEW k \in Hosts, NEW f \in Fps, TrustRefused(k, f) PROVE StoreInv'
    BY <1>3 DEF TrustRefused, StoreInv, TypeOK
  <1>4. CASE UNCHANGED vars
    BY <1>4 DEF vars, StoreInv, TypeOK
  <1> QED BY <1>1, <1>2, <1>3, <1>4 DEF Next

LEMMA StoreInvHolds == Spec => []StoreInv
  <1> QED BY InitInv, NextInv, PTL DEF Spec

\* No host ever gets a second line in the file of trusted keys, on a file that
\* was cut and written to again either (known_hosts.py 37-56).
THEOREM OneLineEachHolds == Spec => []OneLineEach
  <1>1. StoreInv => OneLineEach
    BY DEF StoreInv, OneLine, OneLineEach
  <1> QED BY <1>1, StoreInvHolds, PTL

-----------------------------------------------------------------------------
(* The file implements the table.                                          *)

LEMMA TableInit == Init => Table!Init
  <1> SUFFICES ASSUME Init PROVE Table!Init
    OBVIOUS
  <1>1. /\ file = <<>> /\ whole = TRUE /\ asked = <<>> /\ latest = [k \in Hosts |-> NoFp]
        /\ file \in Texts
    BY InitInv DEF Init, StoreInv, TypeOK
  <1>2. \A k \in Hosts : lookup(k) = NoFp
    <2>1. \A k : \A i \in DOMAIN file, f \in Fps : ~(IsFor(file[i], k) /\ Says(file[i], f))
      BY <1>1
    <2> QED BY <1>1, <2>1, SaidNone DEF lookup
  <1>3. Frayed(file) = FALSE
    BY <1>1 DEF Frayed
  <1> QED BY <1>1, <1>2, <1>3 DEF Table!Init

\* What a call of trust asks for, and what it begins.
LEMMA TableAsk ==
    ASSUME NEW k \in Hosts, NEW f \in Fps
    PROVE  /\ Asked(k, f) => Table!Ask(k, f)
           /\ Begun(k, f) => Table!Ask(k, f) /\ Table!Begin(k, f)
  BY DEF Asked, Begun, verify, Table!Ask, Table!Begin

LEMMA TableRefused ==
    ASSUME NEW k \in Hosts, NEW f \in Fps, TrustRefused(k, f)
    PROVE  Table!Next
  <1>1. Asked(k, f) /\ whole' = FALSE /\ UNCHANGED <<file, latest>>
    BY DEF TrustRefused
  <1>2. [j \in Hosts |-> lookup(j)]' = [j \in Hosts |-> lookup(j)] /\ Frayed(file)' = Frayed(file)
    BY <1>1 DEF lookup
  <1>3. Table!Refuse
    BY <1>1, <1>2 DEF Table!Refuse
  <1> QED BY <1>1, <1>3, TableAsk DEF Table!Next

LEMMA TableTrust ==
    ASSUME StoreInv, NEW k \in Hosts, NEW f \in Fps, trust(k, f)
    PROVE  Table!Next
  <1> DEFINE u == Rewritten(k, f)
             T == [j \in Hosts |-> lookup(j)]
             V == [j \in Hosts |-> Said(u, j)]
  <1>1. Begun(k, f) /\ file' = u /\ whole' = TRUE
    BY DEF trust
  <1>2. /\ u \in Texts
        /\ Said(u, k) \in {f, NoFp}
        /\ \A j \in Hosts \ {k} : Said(u, j) \in {Said(file, j), NoFp}
        /\ ~Frayed(file) =>
             ~Frayed(u) /\ Said(u, k) = f /\ \A j \in Hosts \ {k} : Said(u, j) = Said(file, j)
        /\ Said(u, k) = NoFp => ~Frayed(u)
    BY Writes
  <1> HIDE DEF u
  <1>3. /\ \A j \in Hosts : T[j] = Said(file, j) /\ V[j] = Said(u, j)
        /\ T' = V
    BY <1>1 DEF lookup
  <1>4. V \in [Hosts -> Fps \cup {NoFp}]
    BY <1>2, SaidIs
  <1>5. Frayed(file)' = Frayed(u) /\ Frayed(u) \in BOOLEAN /\ Frayed(file) \in BOOLEAN
    BY <1>1 DEF Frayed
  <1>6. CASE ~Frayed(file)
    <2>1. V = [T EXCEPT ![k] = f]
      BY <1>2, <1>6 DEF lookup
    <2>2. Frayed(file)' = Frayed(file)
      BY <1>2, <1>5, <1>6
    <2> HIDE DEF V
    <2>3. Table!Trust(k, f)
      BY <1>1, <1>3, <1>6, <2>1, <2>2 DEF Table!Trust
    <2> QED BY <1>1, <2>3, TableAsk DEF Table!Next
  <1>7. CASE Frayed(file)
    <2>1. /\ V[k] \in {f, NoFp}
          /\ V[k] = NoFp => ~Frayed(u)
          /\ \A j \in Hosts \ {k} : V[j] \in {T[j], NoFp}
      BY <1>2, <1>3
    <2> HIDE DEF V
    <2>2. Table!TrustFrayed(k, f)
      BY <1>1, <1>3, <1>4, <1>5, <1>7, <2>1 DEF Table!TrustFrayed
    <2> QED BY <1>1, <2>2, TableAsk DEF Table!Next
  <1> QED BY <1>6, <1>7

LEMMA TableCut ==
    ASSUME StoreInv, NEW k \in Hosts, NEW f \in Fps, TrustCut(k, f)
    PROVE  Table!Next
  <1> DEFINE V == [j \in Hosts |-> Said(file', j)]
  <1>1. Begun(k, f) /\ whole' = FALSE
    BY DEF TrustCut
  <1>2. file' \in Texts /\ Genuine(file', latest')
    BY TrustCutInv DEF StoreInv, TypeOK
  <1>3. [j \in Hosts |-> lookup(j)]' = V
    BY DEF lookup
  <1>4. V \in [Hosts -> Fps \cup {NoFp}]
    BY <1>2, SaidIs
  <1>5. \A j \in Hosts : V[j] \in {latest'[j], NoFp}
    BY <1>2, SaidGenuine
  <1>6. Frayed(file)' \in BOOLEAN
    BY DEF Frayed
  <1> HIDE DEF V
  <1>7. Table!Cut
    BY <1>1, <1>3, <1>4, <1>5, <1>6 DEF Table!Cut
  <1> QED BY <1>1, <1>7, TableAsk DEF Table!Next

LEMMA TableStep == StoreInv /\ [Next]_vars => [Table!Next]_(Table!vars)
  <1> SUFFICES ASSUME StoreInv, [Next]_vars PROVE [Table!Next]_(Table!vars)
    OBVIOUS
  <1>1. ASSUME NEW k \in Hosts, NEW f \in Fps, trust(k, f) PROVE Table!Next
    BY <1>1, TableTrust
  <1>2. ASSUME NEW k \in Hosts, NEW f \in Fps, TrustCut(k, f) PROVE Table!Next
    BY <1>2, TableCut
  <1>3. ASSUME NEW k \in Hosts, NEW f \in Fps, TrustRefused(k, f) PROVE Table!Next
    BY <1>3, TableRefused
  <1>4. CASE UNCHANGED vars
    BY <1>4 DEF vars, lookup, Table!vars
  <1> QED BY <1>1, <1>2, <1>3, <1>4 DEF Next

\* Whatever was cut short before, the file of trusted keys implements the
\* table: a key that verifies is the last begun to be written for its host, a
\* trust that cannot open the file changes nothing, a completed one on a whole
\* file sets its entry and keeps the others, and on a frayed one it fails once
\* at most (known_hosts.py 21-63).
THEOREM StoreIsTableHolds == Spec => StoreIsTable
  <1> QED BY StoreInvHolds, TableInit, TableStep, PTL DEF Spec, StoreIsTable, Table!Spec

=============================================================================
