----------------------------- MODULE ConfigEdit -----------------------------
(***************************************************************************)
(* The configuration of badge/apps/ssh/app.py (54-101), its editors        *)
(* (404-512) and the keys that lead to them and to a connect (320-367),    *)
(* over power losses.  What is in memory and what is in the configuration  *)
(* file are two things; the file itself, written by config.flush, is not   *)
(* part of the repository.  A host is [at, name, ports, pad]: the user     *)
(* before its one "@", the name, the numbers that follow it after colons,  *)
(* and whether it has blanks in front of the name or at the end.           *)
(***************************************************************************)
EXTENDS Identity, Naturals

CONSTANTS
    HostTexts, PortTexts, UserTexts, PasswordTexts, KeyTexts,   \* what may be typed
    SsidTexts, WifiPasswordTexts,
    SavedHosts,     \* hosts that may be in the file at the start
    NoNumber        \* a port text that is no number

HostUsers == {Empty} \cup {h.at : h \in HostTexts \cup SavedHosts}
Host == [at : HostUsers, name : STRING, ports : Seq(Nat), pad : {"none", "front", "back"}]

ASSUME HostAssumption == HostTexts \subseteq Host /\ SavedHosts \subseteq Host

States == {"MENU", "WIFI", "EDIT", "CONNECTING", "ERROR", "HOME"}

Fields == <<"host", "port", "user", "password", "key_path">>
Texts == [host |-> HostTexts, port |-> PortTexts, user |-> UserTexts,
          password |-> PasswordTexts, key_path |-> KeyTexts]

NoHost == [at |-> Empty, name |-> Empty, ports |-> <<>>, pad |-> "none"]
DefaultKey == "default"

Offer(kw, native, file, note) == [kwargs |-> kw, native |-> native, file |-> file, note |-> note]
NoOffer == Offer(Refuse, FALSE, NoFile, FALSE)

VARIABLES
    cfg,            \* host, port, user, password, ssh_key_path, ssh_auth
    wifi,           \* wifi_ssid, wifi_password
    saved,          \* the file: the ssh_* entries
    saved_wifi,     \* the file: the wifi_* entries
    state,
    _edit_field,    \* 0..4, or the step of the WiFi editor
    offer,          \* what the connect under way hands over, and from which firmware and file
    abandoned       \* history: the parts (ssh, wifi) left early and not saved since

memory == <<cfg, wifi>>
flash  == <<saved, saved_wifi>>
vars == <<memory, flash, state, _edit_field, offer, abandoned>>

-----------------------------------------------------------------------------
(* parse_host_port and _load_config                                        *)

\* The part before "@" is taken off, then one number, when nothing follows it,
\* and the blanks last.
parse_host_port(host, port) ==
    LET n == Len(host.ports)
        split == n # 0 /\ host.pad # "back"
    IN  [host |-> [at |-> Empty, name |-> host.name, pad |-> "none",
                   ports |-> IF split THEN SubSeq(host.ports, 1, n - 1) ELSE host.ports],
         port |-> IF split THEN host.ports[n] ELSE port]

Loaded(file) ==
    LET p == parse_host_port(file.host, file.port) IN
    [file EXCEPT !.host = p.host, !.port = p.port,
                 !.user = IF @ = Empty THEN file.host.at ELSE @]

_load_config ==
    /\ cfg' = Loaded(saved) /\ wifi' = saved_wifi
    /\ abandoned' = {}

_save_ssh_config == saved' = cfg /\ abandoned' = abandoned \ {"ssh"}

Init ==
    /\ saved \in [host : SavedHosts, port : {22}, user : {Empty}, password : {Empty},
                  key_path : {DefaultKey}, auth : {"password"}]
    /\ saved_wifi = [ssid |-> Empty, password |-> Empty]
    /\ cfg = Loaded(saved) /\ wifi = saved_wifi
    /\ state = "MENU" /\ _edit_field = 0 /\ offer = NoOffer
    /\ abandoned = {}

-----------------------------------------------------------------------------
(* The menu.                                                               *)

\* F1: save, then _start_connect as far as _prepare_connect.  The firmware and
\* the key file may be others each time (scripts/deploy).
Connect ==
    /\ state = "MENU" /\ _save_ssh_config
    /\ \E native \in BOOLEAN, file \in KeyFiles :
         LET kw == resolve_connect_kwargs(cfg.auth, cfg.password, file, native) IN
         IF cfg.host = NoHost \/ cfg.user = Empty \/ wifi.ssid = Empty \/ kw = Refuse
         THEN state' = "ERROR" /\ UNCHANGED offer
         ELSE /\ state' = "CONNECTING"
              /\ offer' = Offer(kw, native, file, falls_back(cfg.auth, file, native))
    /\ UNCHANGED <<memory, saved_wifi, _edit_field>>

\* F4
ToggleAuth ==
    /\ state = "MENU"
    /\ cfg' = [cfg EXCEPT !.auth = IF @ = "pubkey" THEN "password" ELSE "pubkey"]
    /\ saved' = cfg' /\ abandoned' = abandoned \ {"ssh"}
    /\ UNCHANGED <<wifi, saved_wifi, state, _edit_field, offer>>

\* F2 and F3
OpenEditor(s) ==
    /\ state = "MENU" /\ state' = s /\ _edit_field' = 0
    /\ UNCHANGED <<memory, flash, offer, abandoned>>

_wifi_edit_start  == OpenEditor("WIFI")
_field_edit_start == OpenEditor("EDIT")

-----------------------------------------------------------------------------
(* The editors.  The text box comes up with the field, the box of the WiFi *)
(* password empty; what it holds when it is closed is the user's choice.   *)

\* Escape closes either editor; what was confirmed before stays in memory.
Escape ==
    /\ state \in {"WIFI", "EDIT"} /\ state' = "MENU"
    /\ abandoned' = abandoned \cup {IF state = "WIFI" THEN "wifi" ELSE "ssh"}
    /\ UNCHANGED <<memory, flash, _edit_field, offer>>

\* _apply_field
Applied(f, text) ==
    [cfg EXCEPT ![f] = CASE f = "port" /\ text = NoNumber -> 22
                         [] f = "key_path" /\ text = Empty -> DefaultKey
                         [] OTHER -> text]

\* Mutant: the last field leads back to the menu without saving.
NextField_NoSave ==
    /\ state = "EDIT"
    /\ LET f == Fields[_edit_field + 1]
       IN  \E text \in Texts[f] \cup {cfg[f]} : cfg' = Applied(f, text)
    /\ _edit_field' = (_edit_field + 1) % Len(Fields)
    /\ IF _edit_field' = 0 THEN state' = "MENU" ELSE UNCHANGED state
    /\ UNCHANGED <<wifi, saved, saved_wifi, offer, abandoned>>

\* F1 in the field editor: the next field, or after the last one save.
NextField ==
    /\ state = "EDIT"
    /\ LET f == Fields[_edit_field + 1]
       IN  \E text \in Texts[f] \cup {cfg[f]} : cfg' = Applied(f, text)
    /\ _edit_field' = (_edit_field + 1) % Len(Fields)
    /\ IF _edit_field' = 0
       THEN saved' = cfg' /\ abandoned' = abandoned \ {"ssh"} /\ state' = "MENU"
       ELSE UNCHANGED <<saved, state, abandoned>>
    /\ UNCHANGED <<wifi, saved_wifi, offer>>

\* F1 or F4 in the WiFi editor: the ssid, then the password, which is saved.
NextSsid ==
    /\ state = "WIFI" /\ _edit_field = 0
    /\ \E text \in SsidTexts \cup {wifi.ssid} : wifi' = [wifi EXCEPT !.ssid = text]
    /\ _edit_field' = 1
    /\ UNCHANGED <<cfg, flash, state, offer, abandoned>>

NextWifiPassword ==
    /\ state = "WIFI" /\ _edit_field = 1
    /\ \E text \in WifiPasswordTexts \cup {Empty} : wifi' = [wifi EXCEPT !.password = text]
    /\ saved_wifi' = wifi'
    /\ abandoned' = abandoned \ {"wifi"}
    /\ state' = "MENU"
    /\ UNCHANGED <<cfg, saved, _edit_field, offer>>

-----------------------------------------------------------------------------
(* F5, looked at before any editor sees it, and what the launcher does.    *)

\* A connect, its screens and an error lead back to the menu.
BackToMenu ==
    /\ state \in {"CONNECTING", "ERROR"} /\ state' = "MENU"
    /\ offer' = NoOffer
    /\ UNCHANGED <<memory, flash, _edit_field, abandoned>>

\* switch_to_background, from an editor as well: the box is dropped, and the
\* WiFi entries are not saved.
switch_to_background ==
    /\ state \in {"MENU", "WIFI", "EDIT"} /\ state' = "HOME"
    /\ saved' = cfg
    /\ abandoned' = (abandoned \ {"ssh"}) \cup (IF state = "WIFI" THEN {"wifi"} ELSE {})
    /\ UNCHANGED <<memory, saved_wifi, _edit_field, offer>>

\* The user opens the app again, or the badge boots: memory is what was loaded.
switch_to_foreground ==
    /\ state = "HOME" /\ state' = "MENU" /\ _load_config
    /\ UNCHANGED <<flash, _edit_field, offer>>

PowerLoss ==
    /\ state' = "MENU" /\ _load_config
    /\ _edit_field' = 0 /\ offer' = NoOffer
    /\ UNCHANGED flash

MenuKey == Connect \/ ToggleAuth \/ _wifi_edit_start \/ _field_edit_start

Next == \/ MenuKey \/ Escape \/ NextField \/ NextSsid \/ NextWifiPassword
        \/ BackToMenu \/ switch_to_background \/ switch_to_foreground \/ PowerLoss

Spec == Init /\ [][Next]_vars

-----------------------------------------------------------------------------
(* What the configuration promises.                                        *)

\* A host that is written without a user, a number, or blanks around it.
Plain(host) == host.at = Empty /\ host.ports = <<>> /\ host.pad = "none"

\* Outside the editors a power loss costs nothing that was confirmed, unless an
\* editor was left early, by Escape or, in the WiFi editor, by F5, and nothing
\* saved that part since (app.py 54-66, 326-367, 418-422, 477-481).  A host that is
\* not plain is excepted: it is used as it was typed until it is loaded, and each
\* load takes off its user, its blanks and one number (backend.py 16-26).
ConfirmedSurvives ==
    state \notin {"WIFI", "EDIT"} =>
        /\ cfg = Loaded(saved) \/ "ssh" \in abandoned \/ ~Plain(cfg.host)
        /\ wifi = saved_wifi \/ "wifi" \in abandoned

\* A connect hands over one credential: a private key without the password, only
\* in mode pubkey and from a file that has one; or the password, which in mode
\* pubkey goes out only with a note on the screen, never when the file begins with
\* a public key, and never when it holds a private key that is not beside a public
\* one in OpenSSH form (app.py 85-96, identity.py 17-41, 73-104).
OneCredential ==
    state = "CONNECTING" /\ offer.native =>
        LET kw == offer.kwargs  file == offer.file IN
        /\ (kw.private_key = "key") # (kw.password # Empty)
        /\ kw.private_key = "key" => cfg.auth = "pubkey" /\ Has(file, "private")
        /\ kw.password # Empty /\ cfg.auth = "pubkey" =>
               /\ offer.note /\ ~HintsPublic(file)
               /\ Has(file, "private") => Has(file, "openssh public")

=============================================================================
