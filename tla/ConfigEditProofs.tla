-------------------------- MODULE ConfigEditProofs --------------------------
(* Theorems about ConfigEdit, whatever may be typed and be in the file.    *)
EXTENDS ConfigEdit, TLAPS

-----------------------------------------------------------------------------
(* Types, as far as the other invariants need them.                        *)

Auths == {"password", "pubkey"}

CfgFields == {"host", "port", "user", "password", "key_path", "auth"}

CfgOK(c) ==
    /\ c = [f \in CfgFields |-> c[f]]
    /\ c["host"] \in Host /\ c["auth"] \in Auths

ConfigOK == CfgOK(cfg) /\ CfgOK(saved) /\ _edit_field \in 0..4

LEMMA EmptyText == Empty \in HostUsers
  BY DEF HostUsers

LEMMA LoadedOK ==
    ASSUME NEW c, CfgOK(c)
    PROVE  /\ CfgOK(Loaded(c))
           /\ Plain(c.host) => Loaded(c) = c
  <1> DEFINE h == c["host"]
             p == parse_host_port(h, c["port"])
  <1>1. h \in Host /\ Len(h.ports) \in Nat /\ (Len(h.ports) = 0 <=> h.ports = <<>>)
    BY DEF CfgOK, Host
  <1>2. p.host \in Host
    <2>1. CASE Len(h.ports) = 0 \/ h.pad = "back"
      BY <1>1, <2>1, EmptyText DEF parse_host_port, Host
    <2>2. CASE Len(h.ports) # 0 /\ h.pad # "back"
      <3>1. SubSeq(h.ports, 1, Len(h.ports) - 1) \in Seq(Nat)
        BY <1>1, <2>2 DEF Host
      <3> QED BY <1>1, <2>2, <3>1, EmptyText DEF parse_host_port, Host
    <2> QED BY <2>1, <2>2
  <1>3. Plain(h) => p.host = h /\ p.port = c["port"]
    BY <1>1 DEF Plain, parse_host_port, Host
  <1> HIDE DEF p
  <1>4. Loaded(c) = [f \in CfgFields |->
            CASE f = "host" -> p.host
              [] f = "port" -> p.port
              [] f = "user" -> IF c["user"] = Empty THEN h.at ELSE c["user"]
              [] OTHER -> c[f]]
    BY DEF Loaded, CfgOK, CfgFields, p
  <1>5. CfgOK(Loaded(c))
    BY <1>2, <1>4 DEF CfgOK, CfgFields
  <1>6. ASSUME Plain(h) PROVE Loaded(c) = c
    <2>1. h.at = Empty
      BY <1>6 DEF Plain
    <2> QED BY <1>3, <1>4, <1>6, <2>1 DEF CfgOK
  <1> QED BY <1>5, <1>6

LEMMA FieldFacts ==
    ASSUME NEW i \in 0..4
    PROVE  /\ Fields[i + 1] \in CfgFields /\ Fields[i + 1] # "auth"
           /\ (i + 1) % Len(Fields) \in 0..4
           /\ Fields[i + 1] = "host" => Texts[Fields[i + 1]] = HostTexts
  BY DEF Fields, CfgFields, Texts

LEMMA AppliedOK ==
    ASSUME CfgOK(cfg), NEW f \in CfgFields, f # "auth", NEW text, f = "host" => text \in Host
    PROVE  CfgOK(Applied(f, text))
  <1>1. CASE f = "host"
    BY <1>1 DEF Applied, CfgOK, CfgFields
  <1>2. CASE f # "host"
    <2>1. PICK v : Applied(f, text) = [cfg EXCEPT ![f] = v]
      BY DEF Applied
    <2> QED BY <1>2, <2>1 DEF CfgOK, CfgFields
  <1> QED BY <1>1, <1>2

LEMMA InitConfig == Init => ConfigOK
  <1> SUFFICES ASSUME Init PROVE ConfigOK
    OBVIOUS
  <1>1. CfgOK(saved)
    BY HostAssumption DEF Init, CfgOK, CfgFields, Auths
  <1> QED BY <1>1, LoadedOK DEF Init, ConfigOK

LEMMA ConfigStep == ConfigOK /\ [Next]_vars => ConfigOK'
  <1> SUFFICES ASSUME ConfigOK, [Next]_vars PROVE ConfigOK'
    OBVIOUS
  <1> USE DEF ConfigOK
  <1>1. CASE Connect
    BY <1>1 DEF Connect, _save_ssh_config, memory
  <1>2. CASE ToggleAuth
    <2>1. CfgOK(cfg')
      BY <1>2 DEF ToggleAuth, CfgOK, CfgFields, Auths
    <2> QED BY <1>2, <2>1 DEF ToggleAuth
  <1>3. CASE _wifi_edit_start \/ _field_edit_start
    BY <1>3 DEF _wifi_edit_start, _field_edit_start, OpenEditor, memory, flash
  <1>4. CASE Escape
    BY <1>4 DEF Escape, memory, flash
  <1>5. CASE NextField
    <2> DEFINE f == Fields[_edit_field + 1]
    <2>1. PICK text \in Texts[f] \cup {cfg[f]} : cfg' = Applied(f, text)
      BY <1>5 DEF NextField
    <2>2. f \in CfgFields /\ f # "auth" /\ (f = "host" => Texts[f] = HostTexts)
      BY FieldFacts
    <2>3. f = "host" => text \in Host
      BY <2>1, <2>2, HostAssumption DEF CfgOK
    <2> HIDE DEF f
    <2>4. CfgOK(cfg')
      BY <2>1, <2>2, <2>3, AppliedOK
    <2>5. saved' \in {saved, cfg'}
      BY <1>5 DEF NextField
    <2>6. _edit_field' \in 0..4
      BY <1>5, FieldFacts DEF NextField
    <2> QED BY <2>4, <2>5, <2>6
  <1>6. CASE NextSsid \/ NextWifiPassword
    BY <1>6 DEF NextSsid, NextWifiPassword, flash
  <1>7. CASE BackToMenu
    BY <1>7 DEF BackToMenu, memory, flash
  <1>8. CASE switch_to_background
    BY <1>8 DEF switch_to_background, memory
  <1>9. CASE switch_to_foreground \/ PowerLoss
    BY <1>9, LoadedOK DEF switch_to_foreground, PowerLoss, _load_config, flash
  <1>10. CASE UNCHANGED vars
    BY <1>10 DEF vars, memory, flash
  <1> QED BY <1>1, <1>2, <1>3, <1>4, <1>5, <1>6, <1>7, <1>8, <1>9, <1>10 DEF Next, MenuKey

LEMMA ConfigInvariant == Spec => []ConfigOK
  BY InitConfig, ConfigStep, PTL DEF Spec

-----------------------------------------------------------------------------
(* ConfirmedSurvives: an editor need not agree with the file while it is   *)
(* open, but only with the part it edits.                                  *)

Survives ==
    /\ state # "EDIT" => cfg = Loaded(saved) \/ "ssh" \in abandoned \/ ~Plain(cfg.host)
    /\ state # "WIFI" => wifi = saved_wifi \/ "wifi" \in abandoned

\* What was saved is what a load gives back.
LEMMA SavedSurvives ==
    ASSUME CfgOK(cfg)'
    PROVE  saved' = cfg' => cfg' = Loaded(saved)' \/ ~Plain(cfg.host)'
  BY LoadedOK

LEMMA SurvivesStep == ConfigOK /\ ConfigOK' /\ Survives /\ [Next]_vars => Survives'
  <1> SUFFICES ASSUME ConfigOK, ConfigOK', Survives, [Next]_vars PROVE Survives'
    OBVIOUS
  <1>a. saved' = cfg' => cfg' = Loaded(saved)' \/ ~Plain(cfg.host)'
    BY SavedSurvives DEF ConfigOK
  <1>b. saved' = saved => Loaded(saved)' = Loaded(saved)
    OBVIOUS
  <1>c. cfg' = cfg => Plain(cfg.host)' = Plain(cfg.host)
    OBVIOUS
  <1> USE DEF Survives
  <1>1. CASE Connect
    BY <1>1, <1>a DEF Connect, _save_ssh_config, memory
  <1>2. CASE ToggleAuth
    BY <1>2, <1>a DEF ToggleAuth
  <1>3. CASE _wifi_edit_start \/ _field_edit_start
    BY <1>3, <1>b, <1>c DEF _wifi_edit_start, _field_edit_start, OpenEditor, memory, flash
  <1>4. CASE Escape
    BY <1>4, <1>b, <1>c DEF Escape, memory, flash
  <1>5. CASE NextField
    BY <1>5, <1>a DEF NextField
  <1>6. CASE NextSsid \/ NextWifiPassword
    BY <1>6, <1>b, <1>c DEF NextSsid, NextWifiPassword, flash
  <1>7. CASE BackToMenu
    BY <1>7, <1>b, <1>c DEF BackToMenu, memory, flash
  <1>8. CASE switch_to_background
    BY <1>8, <1>a DEF switch_to_background, memory
  <1>9. CASE switch_to_foreground \/ PowerLoss
    BY <1>9, <1>b DEF switch_to_foreground, PowerLoss, _load_config, flash
  <1>10. CASE UNCHANGED vars
    BY <1>10, <1>b, <1>c DEF vars, memory, flash
  <1> QED BY <1>1, <1>2, <1>3, <1>4, <1>5, <1>6, <1>7, <1>8, <1>9, <1>10 DEF Next, MenuKey

\* Outside the editors a power loss costs nothing that was confirmed, whatever the
\* other texts are, but for an editor left early and a host that is written with a
\* user, a number or blanks, which a load takes off (app.py 54-66, 326-367,
\* 404-512, backend.py 16-26).
THEOREM Confirmed == Spec => []ConfirmedSurvives
  <1>1. Init => Survives
    BY DEF Init, Survives
  <1>2. Survives => ConfirmedSurvives
    BY DEF Survives, ConfirmedSurvives
  <1> QED BY <1>1, <1>2, SurvivesStep, ConfigInvariant, PTL DEF Spec

-----------------------------------------------------------------------------
(* OneCredential                                                           *)

\* What resolve_connect_kwargs offers to a firmware with the native module.
LEMMA Offered ==
    ASSUME NEW auth \in Auths, NEW password, NEW file \in KeyFiles,
           resolve_connect_kwargs(auth, password, file, TRUE) # Refuse
    PROVE  LET kw == resolve_connect_kwargs(auth, password, file, TRUE) IN
           \/ /\ auth = "pubkey" /\ read_private_key(file)
              /\ kw.private_key = "key" /\ kw.password = Empty
           \/ /\ kw.private_key = "none" /\ kw.password # Empty
              /\ auth = "pubkey" => ~read_private_key(file) /\ ~HintsPublic(file)
  <1>1. CASE auth = "pubkey" /\ read_private_key(file)
    BY <1>1 DEF resolve_connect_kwargs, Kwargs
  <1>2. CASE auth = "pubkey" /\ ~read_private_key(file)
    BY <1>2 DEF resolve_connect_kwargs, Kwargs, Refuse
  <1>3. CASE auth = "password"
    BY <1>3 DEF resolve_connect_kwargs, Kwargs, Refuse
  <1> QED BY <1>1, <1>2, <1>3 DEF Auths

LEMMA CredentialStep == ConfigOK /\ OneCredential /\ [Next]_vars => OneCredential'
  <1> SUFFICES ASSUME ConfigOK, OneCredential, [Next]_vars PROVE OneCredential'
    OBVIOUS
  <1>1. CASE Connect /\ state' = "CONNECTING"
    <2>1. PICK native \in BOOLEAN, file \in KeyFiles :
            LET kw == resolve_connect_kwargs(cfg.auth, cfg.password, file, native) IN
            kw # Refuse /\ offer' = Offer(kw, native, file, falls_back(cfg.auth, file, native))
      BY <1>1 DEF Connect
    <2> DEFINE kw == resolve_connect_kwargs(cfg.auth, cfg.password, file, native)
    <2>2. /\ offer'.kwargs = kw /\ offer'.native = native /\ offer'.file = file
          /\ offer'.note = falls_back(cfg.auth, file, native)
      BY <2>1 DEF Offer
    <2>3. cfg' = cfg /\ cfg.auth \in Auths
      BY <1>1 DEF Connect, memory, ConfigOK, CfgOK
    <2>4. CASE native = TRUE
      <3>1. \/ /\ cfg.auth = "pubkey" /\ read_private_key(file)
               /\ kw.private_key = "key" /\ kw.password = Empty
            \/ /\ kw.private_key = "none" /\ kw.password # Empty
               /\ cfg.auth = "pubkey" => ~read_private_key(file) /\ ~HintsPublic(file)
        BY <2>1, <2>3, <2>4, Offered
      <3> HIDE DEF kw
      <3>2. cfg.auth = "pubkey" /\ ~read_private_key(file) => offer'.note
        BY <2>2, <2>4 DEF falls_back
      <3> QED BY <2>2, <2>3, <3>1, <3>2 DEF OneCredential, read_private_key
    <2>5. CASE native = FALSE
      BY <2>2, <2>5 DEF OneCredential
    <2> QED BY <2>4, <2>5
  <1>2. CASE state' # "CONNECTING"
    BY <1>2 DEF OneCredential
  <1>3. CASE UNCHANGED vars
    BY <1>3 DEF OneCredential, vars, memory
  <1>4. CASE state' = "CONNECTING" /\ Next /\ ~Connect
    BY <1>4 DEF Next, MenuKey, ToggleAuth, _wifi_edit_start, _field_edit_start, OpenEditor, Escape,
        NextField, NextSsid, NextWifiPassword, BackToMenu, switch_to_background,
        switch_to_foreground, PowerLoss
  <1> QED BY <1>1, <1>2, <1>3, <1>4

\* A connect to the native module hands over one credential, for every sequence of
\* blocks in the key file and whatever the passwords and modes saved: the private
\* key only in mode pubkey and from a file that has one, the password in that mode
\* only as OneCredential says (app.py 85-96, identity.py 17-41, 73-104).
THEOREM SingleCredential == Spec => []OneCredential
  <1>1. Init => OneCredential
    BY DEF Init, OneCredential
  <1> QED BY <1>1, CredentialStep, ConfigInvariant, PTL DEF Spec

=============================================================================
