----------------------------- MODULE KnownHosts -----------------------------
(***************************************************************************)
(* badge/apps/ssh/known_hosts.py on its file.  A line of the file is a     *)
(* sequence of tokens: host:port keys, blanks, fingerprints and a line     *)
(* end.  trust rewrites the file after opening it with "w", which empties  *)
(* it; the open may fail, and a power loss or an OSError may end the       *)
(* writing anywhere, inside a token too.  What is written next continues   *)
(* the line that was cut.  Reading a file that is there does not fail.     *)
(* Hosts have no blank in their name and do not start with "#"; the        *)
(* beginning of one host's key before another's key is nobody's key.       *)
(***************************************************************************)
EXTENDS Naturals, Sequences

CONSTANTS
    Hosts, Fps, NoFp,
    MaxTrusts       \* bound: number of calls of trust

ASSUME KnownHostsAssumption == NoFp \notin Fps /\ MaxTrusts \in Nat

VARIABLES
    file,       \* the lines of the text at PATH, none also when there is no file
    whole,      \* history: the last trust wrote all it had to
    asked,      \* history: the host and the key of the last trust, <<>> before it
    latest,     \* history: the last key whose writing was begun for each host
    trusts      \* number of calls of trust

vars == <<file, whole, asked, latest, trusts>>

Key(k) == <<"key", k>>
Fp(f)  == <<"fp", f>>
Blank  == <<"blank">>
Nl     == <<"nl">>
Torn   == <<"torn">>      \* the beginning of a key or fingerprint

Init == /\ file = <<>> /\ whole = TRUE /\ trusts = 0
        /\ asked = <<>> /\ latest = [k \in Hosts |-> NoFp]

\* line.startswith(key + " ")
IsFor(line, k) == Len(line) >= 2 /\ line[1] = Key(k) /\ line[2] = Blank

\* What is left of the line after strip and split is the fingerprint f.
Says(line, f) == Len(line) >= 3 /\ line[3] = Fp(f) /\ \A i \in 4..Len(line) : line[i] = Nl

\* The lines for k that have anything after the blank, by their numbers.
Found(lines, k) ==
    {i \in DOMAIN lines : IsFor(lines[i], k) /\ \E n \in 3..Len(lines[i]) : lines[i][n] # Nl}

\* What the first of them says, NoFp when there is none or it does not say a
\* fingerprint (no string trusted is equal to it).
Said(lines, k) ==
    LET found == Found(lines, k)
        says == {f \in Fps : \E i \in found : Says(lines[i], f) /\ \A j \in found : i <= j}
    IN  IF says = {} THEN NoFp ELSE CHOOSE f \in says : TRUE

lookup(k) == Said(file, k)

verify(k, f) == lookup(k) = f

Entry(k, f) == <<Key(k), Blank, Fp(f), Nl>>

\* The last line has no line end.
Frayed(lines) == lines # <<>> /\ LET line == lines[Len(lines)] IN line[Len(line)] # Nl

\* The lines when a new entry is written after the last of them, be that ended
\* or not.
Added(lines, k, f) ==
    IF Frayed(lines) THEN [lines EXCEPT ![Len(lines)] = @ \o Entry(k, f)]
    ELSE Append(lines, Entry(k, f))

\* Mutant: the new entry is added without looking for an old one.
Rewritten_Append(k, f) == Added(file, k, f)

\* Mutant: lines of other hosts are not written back.
Rewritten_OwnOnly(k, f) == <<Entry(k, f)>>

\* The lines of the text that trust writes.
Rewritten(k, f) ==
    IF \E i \in DOMAIN file : IsFor(file[i], k)
    THEN [i \in DOMAIN file |-> IF IsFor(file[i], k) THEN Entry(k, f) ELSE file[i]]
    ELSE Added(file, k, f)

\* What is left of a line, which may be nothing, when its writing ends early.
Stubs(line) ==
    {SubSeq(line, 1, m) : m \in 0..Len(line) - 1}
        \cup {Append(SubSeq(line, 1, m), Torn) :
                  m \in {i \in 0..Len(line) - 1 : line[i + 1] \notin {Blank, Nl}}}

\* The writing of lines ends in the n-th of them, of which the stub is left.
CutIn(lines, n, stub) ==
    SubSeq(lines, 1, n - 1) \o (IF stub = <<>> THEN <<>> ELSE <<stub>>)

\* trust is only called for a key that does not verify (worker.py 29-37).
Asked(k, f) ==
    /\ ~verify(k, f)
    /\ trusts < MaxTrusts /\ trusts' = trusts + 1
    /\ asked' = <<k, f>>

\* The open succeeds, and has emptied the file.
Begun(k, f) == Asked(k, f) /\ latest' = [latest EXCEPT ![k] = f]

trust(k, f) == Begun(k, f) /\ file' = Rewritten(k, f) /\ whole' = TRUE

\* The open raises an OSError, which is ignored: the old text stays.
TrustRefused(k, f) == Asked(k, f) /\ whole' = FALSE /\ UNCHANGED <<file, latest>>

\* The writes stop halfway.
TrustCut(k, f) ==
    /\ Begun(k, f) /\ whole' = FALSE
    /\ LET lines == Rewritten(k, f)
       IN  \E n \in DOMAIN lines : \E stub \in Stubs(lines[n]) : file' = CutIn(lines, n, stub)

Next == \E k \in Hosts, f \in Fps : trust(k, f) \/ TrustRefused(k, f) \/ TrustCut(k, f)

Spec == Init /\ [][Next]_vars

-----------------------------------------------------------------------------
(* What the store promises.                                                *)

Table == INSTANCE HostTable WITH
    table <- [k \in Hosts |-> lookup(k)], frayed <- Frayed(file)

\* Whatever was cut short before, no key verifies but the last one whose
\* writing was begun for that very host; a trust that cannot open the file
\* leaves every key as it was; a completed one keeps the other hosts and holds
\* at once, or, on a file that ends inside a line, at the second time
\* (known_hosts.py 28-63).
StoreIsTable == Table!Spec

\* No host ever gets a second line, so the key that lookup finds first is the
\* only one: also on a file that was cut and written to again
\* (known_hosts.py 25-31, 42-50).
OneLineEach ==
    \A k \in Hosts : \A i, j \in DOMAIN file : IsFor(file[i], k) /\ IsFor(file[j], k) => i = j

=============================================================================
