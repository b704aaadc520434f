---------------------------- MODULE MCKnownHosts ----------------------------
(* Two hosts, two keys, four calls of trust each of which may be cut short. *)
EXTENDS KnownHosts

=============================================================================
