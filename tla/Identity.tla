------------------------------ MODULE Identity ------------------------------
(***************************************************************************)
(* badge/apps/ssh/identity.py: which credential a connect hands over.  A   *)
(* key file is a sequence of blocks, told apart by their headers; NoFile   *)
(* when it cannot be read.                                                 *)
(***************************************************************************)
EXTENDS Sequences

CONSTANT KeyFiles   \* what may be at the key path

Empty == ""     \* the empty text: not set

NoFile == <<"unreadable">>

\* "openssh public" has the header BEGIN OPENSSH or BEGIN SSH PUBLIC KEY,
\* "public" any other with PUBLIC KEY, "junk" neither PUBLIC nor PRIVATE KEY.
Blocks == {"private", "openssh public", "public", "junk"}

ASSUME KeyFilesAssumption == KeyFiles \subseteq Seq(Blocks) \cup {NoFile}

Has(file, b) == \E i \in DOMAIN file : file[i] = b

\* Next to a private block only a public one in OpenSSH form disqualifies.
read_private_key(file) == Has(file, "private") /\ ~Has(file, "openssh public")

\* The hint looks at the first 120 characters only: at the first block.
HintsPublic(file) == file # <<>> /\ file[1] \in {"public", "openssh public"}

Kwargs(password, key) == [password |-> password, private_key |-> key]
Refuse == [password |-> Empty, private_key |-> "refused"]

\* Mutant: the password goes along with the key.
resolve_connect_kwargs_Both(auth, password, file, native) ==
    CASE native /\ auth = "pubkey" /\ read_private_key(file) -> Kwargs(password, "key")
      [] native /\ auth = "pubkey" /\ ~read_private_key(file) ->
            IF HintsPublic(file) \/ password = Empty THEN Refuse ELSE Kwargs(password, "none")
      [] native /\ auth = "password" ->
            IF password = Empty THEN Refuse ELSE Kwargs(password, "none")
      [] OTHER -> Kwargs(Empty, "none")

\* Without the native module the banner probe needs no credential.
resolve_connect_kwargs(auth, password, file, native) ==
    CASE native /\ auth = "pubkey" /\ read_private_key(file) -> Kwargs(Empty, "key")
      [] native /\ auth = "pubkey" /\ ~read_private_key(file) ->
            IF HintsPublic(file) \/ password = Empty THEN Refuse ELSE Kwargs(password, "none")
      [] native /\ auth = "password" ->
            IF password = Empty THEN Refuse ELSE Kwargs(password, "none")
      [] OTHER -> Kwargs(Empty, "none")

\* The note that goes with the answer: the connecting screen shows it.
falls_back(auth, file, native) == native /\ auth = "pubkey" /\ ~read_private_key(file)

=============================================================================
