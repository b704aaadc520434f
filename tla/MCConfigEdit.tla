---------------------------- MODULE MCConfigEdit ----------------------------
(* A plain host, one with a user and two numbers, one with a number and a    *)
(* blank behind it; a port that is no number, one new network: every field   *)
(* can be changed and changed back or not.  Key files of up to two blocks.   *)
EXTENDS ConfigEdit

HostOf(u, n, p, b) == [at |-> u, name |-> n, ports |-> p, pad |-> b]

MCHostTexts  == {HostOf("", "h", <<>>, "none"), HostOf("u", "h", <<2, 3>>, "front"),
                 HostOf("", "h", <<3>>, "back")}
MCSavedHosts == {NoHost, HostOf("u", "h", <<2>>, "none")}
MCPortTexts  == {2, NoNumber}
MCKeyFiles   == {NoFile, <<>>} \cup {<<a>> : a \in Blocks} \cup {<<a, b>> : a, b \in Blocks}

=============================================================================
