------------------------------ MODULE WpaAuth ------------------------------
(***************************************************************************)
(* hostapd's WPA authenticator (src/ap/wpa_auth.c): per station the        *)
(* machine of the 4-way handshake (WPA_PTK) and that of the group key      *)
(* handshake (WPA_PTK_GROUP), and one group machine that renews the GTK.   *)
(*                                                                         *)
(* A callback of the event loop raises a flag of a station and calls       *)
(* wpa_sm_step, which runs the three machines until nothing changes.       *)
(* wpa_rekey_gtk runs the group machine alone; renewing the GTK steps each *)
(* station, which runs the group machine again: the calls nest, and stack  *)
(* holds them.  Callbacks only run on an empty stack.                      *)
(*                                                                         *)
(* Modelled with pre-shared keys, one group, and without fast transition,  *)
(* PeerKey, P2P, management frame protection and WNM sleep.  Keys are the  *)
(* SNonces they are derived from.  The replay counters of a station are    *)
(* consecutive and become invalid together, so key_replay is the sequence  *)
(* of the messages whose counter is valid, latest first.  Stations follow  *)
(* the protocol; frames may be lost, delayed, repeated and reordered, so a *)
(* station may answer any message whose counter is valid, at any time.     *)
(***************************************************************************)
EXTENDS Integers, Sequences, FiniteSets, FiniteSetsExt

CONSTANTS
  Sta,           \* stations
  Version,       \* "WPA" or "WPA2" for each
  Nonces,        \* SNonces that each uses in one handshake
  UPDATE_COUNT,  \* dot11RSNAConfigPairwiseUpdateCount and ...GroupUpdateCount, both 4
  MAX_RETRIES,   \* RSNA_MAX_EAPOL_RETRIES, 4
  MaxAssoc,      \* bound: authentications and associations of all stations
  MaxExtra       \* bound: key requests, PTK rekey timeouts, and failing calls to the
                 \* driver, the PSK file and the random pool, all together

ASSUME StaAssumption ==
  /\ IsFiniteSet(Sta) /\ Version \in [Sta -> {"WPA", "WPA2"}]
  /\ \A s \in Sta : Nonces[s] \subseteq Nat \ {0}
ASSUME CountAssumption ==
  UPDATE_COUNT \in Nat \ {0} /\ MAX_RETRIES \in Nat \ {0}
ASSUME LimitAssumption == MaxAssoc \in Nat /\ MaxExtra \in Nat

VARIABLES
  sm,        \* struct wpa_state_machine of each station
  group,     \* struct wpa_group
  stack,     \* calls being executed, the innermost first
  assocs, requests, fails   \* counted against the bounds

bounds == <<assocs, requests, fails>>
vars == <<sm, group, stack, bounds>>

\* The Booleans of a state machine, kept as the set of those that are TRUE.
Flag == {"Init", "DeauthenticationRequest", "AuthenticationRequest",
         "ReAuthenticationRequest", "Disconnect", "PTKRequest", "PtkGroupInit",
         "TimeoutEvt", "MICVerified", "GUpdateStationKeys", "PTK_valid", "PInitAKeys",
         "update_snonce", "prev_key_replay", "started", "changed", "WLAN_STA_ASSOC"}

PtkState == {"INITIALIZE", "DISCONNECT", "DISCONNECTED", "AUTHENTICATION", "AUTHENTICATION2",
             "INITPSK", "PTKSTART", "PTKCALCNEGOTIATING", "PTKCALCNEGOTIATING2",
             "PTKINITNEGOTIATING", "PTKINITDONE"}
PtkGroupState == {"IDLE", "REKEYNEGOTIATING", "REKEYESTABLISHED", "KEYERROR"}

Set(m, F) == [m EXCEPT !.flags = @ \cup F]
Clear(m, F) == [m EXCEPT !.flags = @ \ F]
Is(m, f) == f \in m.flags
-----------------------------------------------------------------------------
(***************************************************************************)
(* Parts of a step; w is a state machine with the group, [m, g].           *)
(***************************************************************************)
\* wpa_auth_sta_init.  rx: the kind of EAPOL-Key frame received, with
\* EAPOLKeyReceived; no machine looks at a request.  SNonce: 0 if the MIC of
\* last_rx_eapol_key does not agree with it.  alt: alt_SNonce and the message of alt_replay_counter,
\* if alt_snonce_valid.  The flag prev_key_replay: it holds a counter of a 1/4.
\* tk: the key given to the driver; peer: the key with which the station
\* confirmed the handshake.
NewSm ==
  [ptk |-> "INITIALIZE", grp |-> "IDLE", flags |-> {}, TimeoutCtr |-> 0, GTimeoutCtr |-> 0,
   rx |-> "none", SNonce |-> 0, alt |-> {}, PTK |-> 0, tk |-> 0, peer |-> 0,
   key_replay |-> <<>>, timeouts |-> 0]

NoSm == [NewSm EXCEPT !.ptk = "none"]
Exists(s) == sm[s].ptk # "none"

wpa_remove_ptk(m) == [Clear(m, {"PTK_valid"}) EXCEPT !.PTK = 0, !.tk = 0, !.peer = 0]

\* ap_sta_disconnect with its WPA_DEAUTH event.
wpa_sta_disconnect(m) ==
  Clear(Set(wpa_remove_ptk(m), {"DeauthenticationRequest", "changed"}), {"WLAN_STA_ASSOC"})

\* wpa_send_eapol: a new replay counter, and a timeout besides the pending ones.
wpa_send_eapol(m, msg) ==
  LET key == IF msg = "1/4" THEN 0 ELSE m.PTK
      sent == <<[msg |-> msg, key |-> key]>> \o m.key_replay
  IN  [m EXCEPT !.key_replay = SubSeq(sent, 1, IF Len(sent) < MAX_RETRIES THEN Len(sent)
                                               ELSE MAX_RETRIES),
                !.timeouts = @ + 1]

\* Mutant of Unmark: the flag is not looked at.
UnmarkAlways(w) ==
  [m |-> Clear(w.m, {"GUpdateStationKeys"}), g |-> [w.g EXCEPT !.GKeyDoneStations = @ - 1]]

\* The pending group key update of the station ends.
Unmark(w) ==
  IF Is(w.m, "GUpdateStationKeys")
  THEN [m |-> Clear(w.m, {"GUpdateStationKeys"}), g |-> [w.g EXCEPT !.GKeyDoneStations = @ - 1]]
  ELSE w
-----------------------------------------------------------------------------
(***************************************************************************)
(* WPA_PTK.  ok: the call that may fail in this state succeeds.            *)
(***************************************************************************)
INITIALIZE(w) ==
  LET u == Unmark(w)
      m == Clear(wpa_remove_ptk(u.m), {"PInitAKeys"} \cup (IF Is(w.m, "Init") THEN {"changed"} ELSE {}))
  IN  [u EXCEPT !.m = [m EXCEPT !.TimeoutCtr = 0]]

\* A new ANonce: nothing sent before can be answered with a good MIC, and no
\* frame received before has one.
AUTHENTICATION2(m, ok) ==
  LET c == Clear(m, {"ReAuthenticationRequest"})
  IN  IF ok THEN [c EXCEPT !.TimeoutCtr = 0, !.SNonce = 0,
                           !.key_replay = [i \in DOMAIN @ |-> [msg |-> "stale", key |-> 0]]]
            ELSE Set(c, {"Disconnect"})

PTKSTART(m) ==
  LET c == [Clear(m, {"PTKRequest", "TimeoutEvt"}) EXCEPT !.TimeoutCtr = @ + 1, !.alt = {},
                                                          !.peer = 0]
  IN  IF c.TimeoutCtr > UPDATE_COUNT THEN c ELSE wpa_send_eapol(c, "1/4")

\* Mutant of PTKCALCNEGOTIATING: the timeout is cancelled before the MIC is checked.
PTKCALCNEGOTIATINGEarly(m) ==
  LET c == [Clear(m, {"update_snonce"}) EXCEPT !.rx = "none", !.timeouts = 0]
  IN  IF c.SNonce # 0 THEN [Set(c, {"MICVerified", "PTK_valid"}) EXCEPT !.PTK = c.SNonce] ELSE c

PTKCALCNEGOTIATING(m) ==
  LET c == [Clear(m, {"update_snonce"}) EXCEPT !.rx = "none"]
  IN  IF c.SNonce # 0
      THEN [Set(c, {"MICVerified", "PTK_valid"}) EXCEPT !.PTK = c.SNonce, !.timeouts = 0]
      ELSE c

PTKINITNEGOTIATING(m) ==
  LET c == [Clear(m, {"TimeoutEvt"}) EXCEPT !.TimeoutCtr = @ + 1]
  IN  IF c.TimeoutCtr > UPDATE_COUNT THEN c ELSE wpa_send_eapol(c, "3/4")

PTKINITDONE(m, s, ok) ==
  LET c == [m EXCEPT !.rx = "none"]
  IN  IF ok THEN Set([c EXCEPT !.tk = c.PTK], IF Version[s] = "WPA" THEN {"PInitAKeys"} ELSE {})
            ELSE wpa_sta_disconnect(c)

\* SM_ENTER(WPA_PTK, st)
EnterPtk(w, s, st, ok) ==
  LET m == Set([w.m EXCEPT !.ptk = st], {"changed"})
      New(x) == [w EXCEPT !.m = x]
  IN  CASE st = "INITIALIZE"          -> INITIALIZE(New(m))
        [] st = "DISCONNECT"          -> New(wpa_sta_disconnect(Clear(m, {"Disconnect"})))
        [] st = "DISCONNECTED"        -> New(Clear(m, {"DeauthenticationRequest"}))
        [] st = "AUTHENTICATION"      ->
             New([Clear(m, {"PTK_valid", "AuthenticationRequest"}) EXCEPT !.PTK = 0])
        [] st = "AUTHENTICATION2"     -> New(AUTHENTICATION2(m, ok))
        [] st = "INITPSK"             -> New(m)
        [] st = "PTKSTART"            -> New(PTKSTART(m))
        [] st = "PTKCALCNEGOTIATING"  -> New(PTKCALCNEGOTIATING(m))
        [] st = "PTKCALCNEGOTIATING2" -> New([m EXCEPT !.TimeoutCtr = 0])
        [] st = "PTKINITNEGOTIATING"  -> New(PTKINITNEGOTIATING(m))
        [] st = "PTKINITDONE"         -> New(PTKINITDONE(m, s, ok))

Expired(m) == m.TimeoutCtr > UPDATE_COUNT

\* The requests that override the state, most urgent first, and what they enter.
Override == <<[flag |-> "Init", enter |-> "INITIALIZE"],
              [flag |-> "Disconnect", enter |-> "DISCONNECT"],
              [flag |-> "DeauthenticationRequest", enter |-> "DISCONNECTED"],
              [flag |-> "AuthenticationRequest", enter |-> "AUTHENTICATION"],
              [flag |-> "ReAuthenticationRequest", enter |-> "AUTHENTICATION2"],
              [flag |-> "PTKRequest", enter |-> "PTKSTART"]>>

\* SM_STEP(WPA_PTK): the state to enter, or "stay".
NextPtk(m, ok) ==
  LET raised == {i \in DOMAIN Override : Is(m, Override[i].flag)}
      key == m.rx = "pairwise"
  IN  IF raised # {} THEN Override[Min(raised)].enter
      ELSE CASE m.ptk = "DISCONNECT"      -> "DISCONNECTED"
             [] m.ptk = "DISCONNECTED"    -> "INITIALIZE"
             [] m.ptk = "AUTHENTICATION"  -> "AUTHENTICATION2"
             [] m.ptk = "AUTHENTICATION2" -> "INITPSK"
             [] m.ptk = "INITPSK"         -> IF ok THEN "PTKSTART" ELSE "DISCONNECT"
             [] m.ptk = "PTKSTART" ->
                  IF key THEN "PTKCALCNEGOTIATING"
                  ELSE IF Expired(m) THEN "DISCONNECT"
                  ELSE IF Is(m, "TimeoutEvt") THEN "PTKSTART" ELSE "stay"
             [] m.ptk = "PTKCALCNEGOTIATING" ->
                  IF Is(m, "MICVerified") THEN "PTKCALCNEGOTIATING2"
                  ELSE IF key THEN "PTKCALCNEGOTIATING"
                  ELSE IF Is(m, "TimeoutEvt") THEN "PTKSTART" ELSE "stay"
             [] m.ptk = "PTKCALCNEGOTIATING2" -> "PTKINITNEGOTIATING"
             [] m.ptk = "PTKINITNEGOTIATING" ->
                  IF Is(m, "update_snonce") THEN "PTKCALCNEGOTIATING"
                  ELSE IF key /\ Is(m, "MICVerified") THEN "PTKINITDONE"
                  ELSE IF Expired(m) THEN "DISCONNECT"
                  ELSE IF Is(m, "TimeoutEvt") THEN "PTKINITNEGOTIATING" ELSE "stay"
             [] OTHER -> "stay"

StepPtk(w, s, ok) ==
  LET st == NextPtk(w.m, ok) IN IF st = "stay" THEN w ELSE EnterPtk(w, s, st, ok)

\* The states in which a call may fail.
MayFail(m) == \/ NextPtk(m, TRUE) # NextPtk(m, FALSE)
              \/ NextPtk(m, TRUE) \in {"AUTHENTICATION2", "PTKINITDONE"}
-----------------------------------------------------------------------------
(***************************************************************************)
(* WPA_PTK_GROUP.                                                          *)
(***************************************************************************)
\* "No point in sending the EAPOL-Key - we will disconnect"
REKEYNEGOTIATING(m) ==
  LET c == [m EXCEPT !.GTimeoutCtr = @ + 1]
  IN  IF c.GTimeoutCtr > UPDATE_COUNT THEN c
      ELSE wpa_send_eapol(Clear(c, {"PInitAKeys", "TimeoutEvt"}), "1/2")

REKEYESTABLISHED(w) ==
  LET u == Unmark([w EXCEPT !.m.rx = "none"])
  IN  [u EXCEPT !.m = [@ EXCEPT !.GTimeoutCtr = 0]]

KEYERROR(w) == LET u == Unmark(w) IN [u EXCEPT !.m = Set(@, {"Disconnect"})]

\* SM_ENTER(WPA_PTK_GROUP, st)
EnterGroup(w, st) ==
  LET e == [w EXCEPT !.m = Set([@ EXCEPT !.grp = st], {"changed"})]
  IN  CASE st = "IDLE" -> [e EXCEPT !.m = [(IF Is(w.m, "Init") THEN Clear(@, {"changed"}) ELSE @)
                                           EXCEPT !.GTimeoutCtr = 0]]
        [] st = "REKEYNEGOTIATING" -> [e EXCEPT !.m = REKEYNEGOTIATING(@)]
        [] st = "REKEYESTABLISHED" -> REKEYESTABLISHED(e)
        [] st = "KEYERROR"         -> KEYERROR(e)

\* SM_STEP(WPA_PTK_GROUP)
NextGroup(m) ==
  IF m.flags \cap {"Init", "PtkGroupInit"} # {} THEN "IDLE"
  ELSE CASE m.grp = "IDLE" ->
              IF m.flags \cap {"GUpdateStationKeys", "PInitAKeys"} # {}
              THEN "REKEYNEGOTIATING" ELSE "stay"
         [] m.grp = "REKEYNEGOTIATING" ->
              IF m.rx = "group" /\ Is(m, "MICVerified") THEN "REKEYESTABLISHED"
              ELSE IF m.GTimeoutCtr > UPDATE_COUNT THEN "KEYERROR"
              ELSE IF Is(m, "TimeoutEvt") THEN "REKEYNEGOTIATING" ELSE "stay"
         [] OTHER -> "IDLE"

StepGroup(w) ==
  LET st == NextGroup(w.m)
      e  == IF st = "stay" THEN w ELSE EnterGroup(w, st)
  IN  [e EXCEPT !.m = Clear(@, {"PtkGroupInit"})]
-----------------------------------------------------------------------------
(***************************************************************************)
(* The group machine and the loops.  A frame of the stack is a turn of the *)
(* loop of wpa_sm_step, or of that of wpa_rekey_gtk, which is no station's *)
(* ("step"), the condition of either ("while"), the loop of                *)
(* wpa_group_setkeys over the stations ("each"), or what a caller does     *)
(* after a step ("assoc", "reassoc", "init", "free") or after              *)
(* wpa_rekey_gtk ("request").                                              *)
(***************************************************************************)
Frame(at, s) == [at |-> at, of |-> {s}]
Each == [at |-> "each", of |-> {s \in Sta : Exists(s)}]
Rekeying == [at |-> "step", of |-> {}]

Top == Head(stack)
InLoop(s) == \E i \in DOMAIN stack : stack[i].at \in {"step", "while"} /\ s \in stack[i].of

\* wpa_group_setkeysdone, if the driver takes the keys; else
\* wpa_group_fatal_failure.
SetKeysDone(g, ok) ==
  [g EXCEPT !.changed = TRUE, !.state = IF ok THEN "SETKEYSDONE" ELSE "FATAL_FAILURE"]

\* Mutant of Waiting: one station too few.
WaitingFew(g) == g.GKeyDoneStations > 1

\* Stations have still to confirm the new key.
Waiting(g) == g.GKeyDoneStations # 0

\* do ... while (changed): another turn, or the caller goes on.
Loop(frame, changed) == (IF changed THEN <<frame>> ELSE <<>>) \o Tail(stack)

\* wpa_group_sm_step with the machines m of all stations, group g and f failures
\* so far, at the end of a turn.  Renewing the GTK comes back to the condition of
\* the loop.
GroupSm(m, g, f) ==
  LET idle == g.state = "SETKEYSDONE" \/ (g.state = "SETKEYS" /\ Waiting(g))
      on == \E t \in Top.of : Is(m[t], "changed")
  IN  \/ /\ g.state = "SETKEYS" /\ ~ Waiting(g)
         /\ \/ group' = SetKeysDone(g, TRUE) /\ sm' = m /\ fails' = f
            \/ /\ requests + f < MaxExtra /\ fails' = f + 1 /\ group' = SetKeysDone(g, FALSE)
               /\ sm' = [t \in Sta |-> IF Exists(t) THEN Set(m[t], {"Disconnect"}) ELSE m[t]]
         /\ stack' = Loop(Top, TRUE)
      \/ /\ idle /\ g.GTKReKey
         /\ group' = [g EXCEPT !.changed = TRUE, !.state = "SETKEYS", !.GTKReKey = FALSE,
                               !.GKeyDoneStations = 0]
         /\ sm' = m /\ fails' = f /\ stack' = <<Each, [Top EXCEPT !.at = "while"]>> \o Tail(stack)
      \/ /\ g.state = "FATAL_FAILURE" \/ (idle /\ ~ g.GTKReKey)
         /\ group' = g /\ sm' = m /\ fails' = f /\ stack' = Loop(Top, on)

\* One turn of the loop of wpa_sm_step.
Turn(s) ==
  /\ stack # <<>> /\ Top = Frame("step", s)
  /\ LET w == [m |-> Clear(sm[s], {"changed"}), g |-> [group EXCEPT !.changed = FALSE]]
     IN  \E ok \in BOOLEAN :
           LET v == StepGroup(StepPtk(w, s, ok))
           IN  /\ ok \/ (MayFail(w.m) /\ requests + fails < MaxExtra)
               /\ GroupSm([sm EXCEPT ![s] = v.m], v.g, IF ok THEN fails ELSE fails + 1)
  /\ UNCHANGED <<assocs, requests>>

\* One turn of the loop of wpa_rekey_gtk.
RekeyTurn ==
  /\ stack # <<>> /\ Top = Rekeying
  /\ GroupSm(sm, [group EXCEPT !.changed = FALSE], fails)
  /\ UNCHANGED <<assocs, requests>>

While ==
  /\ stack # <<>> /\ Top.at = "while"
  /\ stack' = Loop([Top EXCEPT !.at = "step"],
                   group.changed \/ \E s \in Top.of : Is(sm[s], "changed"))
  /\ UNCHANGED <<sm, group, bounds>>

\* wpa_group_update_sta: a station that is being stepped already is not stepped
\* again.
UpdateSta(s) ==
  /\ stack # <<>> /\ Top.at = "each" /\ s \in Top.of
  /\ LET rest == <<[Top EXCEPT !.of = @ \ {s}]>> \o Tail(stack)
     IN  IF sm[s].ptk # "PTKINITDONE"
         THEN /\ sm' = [sm EXCEPT ![s] = Clear(@, {"GUpdateStationKeys"})]
              /\ stack' = rest /\ UNCHANGED group
         ELSE /\ sm' = [sm EXCEPT ![s] = Set(@, {"GUpdateStationKeys"})]
              /\ group' = [group EXCEPT !.GKeyDoneStations = @ + 1]
              /\ stack' = IF InLoop(s) THEN rest ELSE <<Frame("step", s)>> \o rest
  /\ UNCHANGED bounds

EachDone ==
  /\ stack # <<>> /\ Top.at = "each" /\ Top.of = {}
  /\ stack' = Tail(stack)
  /\ UNCHANGED <<sm, group, bounds>>

\* wpa_auth_sta_associated, after the step of the WPA_ASSOC event.
Associated(s) ==
  /\ stack # <<>> /\ Top = Frame("assoc", s)
  /\ IF Is(sm[s], "started")
     THEN /\ sm' = [sm EXCEPT ![s] = Set([@ EXCEPT !.key_replay = <<>>], {"ReAuthenticationRequest"})]
          /\ stack' = <<Frame("step", s)>> \o Tail(stack)
     ELSE /\ sm' = [sm EXCEPT ![s] = Set(@, {"started", "Init"})]
          /\ stack' = <<Frame("step", s), Frame("init", s)>> \o Tail(stack)
  /\ UNCHANGED <<group, bounds>>

Initialized(s) ==
  /\ stack # <<>> /\ Top = Frame("init", s)
  /\ sm' = [sm EXCEPT ![s] = Set(Clear(@, {"Init"}), {"AuthenticationRequest"})]
  /\ stack' = <<Frame("step", s)>> \o Tail(stack)
  /\ UNCHANGED <<group, bounds>>

\* WPA_REAUTH, after the step of the WPA_ASSOC event; the machine was started by
\* the first association.
Reassociated(s) ==
  /\ stack # <<>> /\ Top = Frame("reassoc", s)
  /\ LET u == Unmark([m |-> sm[s], g |-> group])
         p == IF Is(sm[s], "GUpdateStationKeys") THEN {"PtkGroupInit"} ELSE {}
     IN  /\ sm' = [sm EXCEPT ![s] = wpa_remove_ptk(Set(u.m, p \cup {"ReAuthenticationRequest"}))]
         /\ group' = u.g
  /\ stack' = <<Frame("step", s)>> \o Tail(stack)
  /\ UNCHANGED bounds

\* Mutant of Free: a pending group key update is not taken back.
FreeMarked(s) == sm' = [sm EXCEPT ![s] = NoSm] /\ UNCHANGED group

\* ap_free_sta with wpa_auth_sta_deinit.  The group machine is not stepped.
Free(s) ==
  /\ group' = Unmark([m |-> sm[s], g |-> group]).g
  /\ sm' = [sm EXCEPT ![s] = NoSm]

Freed(s) ==
  /\ stack # <<>> /\ Top = Frame("free", s)
  /\ Free(s) /\ stack' = Tail(stack)
  /\ UNCHANGED bounds

\* The end of wpa_receive, after a key request: no machine looks at the frame.
Taking(m) == [m EXCEPT !.rx = "none", !.SNonce = 0]

Requested(s) ==
  /\ stack # <<>> /\ Top = Frame("request", s)
  /\ sm' = [sm EXCEPT ![s] = Taking(@)]
  /\ stack' = <<Frame("step", s)>> \o Tail(stack)
  /\ UNCHANGED <<group, bounds>>

Step ==
  \/ \E s \in Sta : Turn(s) \/ UpdateSta(s)
  \/ \E s \in Sta : Associated(s) \/ Initialized(s) \/ Reassociated(s) \/ Freed(s)
  \/ \E s \in Sta : Requested(s)
  \/ EachDone \/ RekeyTurn \/ While
-----------------------------------------------------------------------------
(***************************************************************************)
(* Callbacks of the event loop.                                            *)
(***************************************************************************)
Idle(s) == stack = <<>> /\ Exists(s)

\* The machine of s becomes m and is stepped.
StepWith(s, m) ==
  sm' = [sm EXCEPT ![s] = m] /\ stack' = <<Frame("step", s)>>

\* After wpa_init_keys.
Init ==
  /\ sm = [s \in Sta |-> NoSm] /\ stack = <<>>
  /\ group = [state |-> "SETKEYSDONE", GKeyDoneStations |-> 0, GTKReKey |-> FALSE, changed |-> FALSE]
  /\ assocs = 0 /\ requests = 0 /\ fails = 0

\* An authentication frame of a known station: WPA_AUTH.
Authenticate(s) ==
  /\ Idle(s) /\ assocs < MaxAssoc
  /\ StepWith(s, wpa_remove_ptk(sm[s]))
  /\ assocs' = assocs + 1
  /\ UNCHANGED <<group, requests, fails>>

\* handle_assoc_cb: WPA_ASSOC, then hostapd_new_assoc_sta.  After a fatal
\* failure of the group wpa_auth_sta_init gives no machine.
Associate(s) ==
  /\ stack = <<>> /\ assocs < MaxAssoc
  /\ Exists(s) \/ group.state # "FATAL_FAILURE"
  /\ LET m == IF Exists(s) THEN sm[s] ELSE NewSm
     IN  /\ sm' = [sm EXCEPT ![s] = Set(wpa_remove_ptk(m), {"WLAN_STA_ASSOC"})]
         /\ stack' = <<Frame("step", s),
                       Frame(IF Is(m, "WLAN_STA_ASSOC") THEN "reassoc" ELSE "assoc", s)>>
  /\ assocs' = assocs + 1
  /\ UNCHANGED <<group, requests, fails>>

\* A disassociation frame, or a deauthentication frame, which also frees the
\* station.
Leave(s, deauth) ==
  /\ Idle(s)
  /\ sm' = [sm EXCEPT ![s] = wpa_sta_disconnect(@)]
  /\ stack' = <<Frame("step", s)>> \o (IF deauth THEN <<Frame("free", s)>> ELSE <<>>)
  /\ UNCHANGED <<group, bounds>>

\* ap_handle_timer: the station was inactive.
Remove(s) == Idle(s) /\ Free(s) /\ UNCHANGED <<stack, bounds>>

\* wpa_send_eapol_timeout
Timeout(s) ==
  /\ Idle(s) /\ sm[s].timeouts > 0
  /\ StepWith(s, Set([sm[s] EXCEPT !.timeouts = @ - 1], {"TimeoutEvt"}))
  /\ UNCHANGED <<group, bounds>>

\* wpa_rekey_gtk, every wpa_group_rekey seconds or after a station has left.
RekeyGtk ==
  /\ stack = <<>>
  /\ group' = [group EXCEPT !.GTKReKey = TRUE] /\ stack' = <<Rekeying>>
  /\ UNCHANGED <<sm, bounds>>

\* wpa_request_new_ptk
wpa_request_new_ptk(m) == Clear(Set(m, {"PTKRequest"}), {"PTK_valid"})

\* wpa_rekey_ptk, wpa_ptk_rekey seconds after the key was installed.
RekeyPtk(s) ==
  /\ Idle(s) /\ sm[s].tk # 0 /\ requests + fails < MaxExtra
  /\ StepWith(s, wpa_request_new_ptk(sm[s]))
  /\ requests' = requests + 1
  /\ UNCHANGED <<group, assocs, fails>>
-----------------------------------------------------------------------------
(***************************************************************************)
(* wpa_receive.                                                            *)
(***************************************************************************)
\* Mutant of TryAltSnonce: the key is not replaced.
TryAltSnonceKept(m, k) == {[m EXCEPT !.alt = {}] : a \in {x \in m.alt : x.SNonce = k}}

\* wpa_try_alt_snonce: the MIC is that of the earlier SNonce.
TryAltSnonce(m, k) == {[m EXCEPT !.alt = {}, !.PTK = k] : a \in {x \in m.alt : x.SNonce = k}}

\* The machine after a frame with a MIC of key k has passed the check of the MIC,
\* or none: without a valid PTK there is no check.  A frame that does not pass
\* is dropped; that it clears MICVerified is left out, as every frame sets or
\* clears it before it is read.
Verified(m, k, alt) ==
  LET c == Clear(m, {"MICVerified"})
      v == IF c.PTK = k THEN {c} ELSE IF alt THEN TryAltSnonce(c, k) ELSE {}
  IN  IF Is(c, "PTK_valid") /\ ~ Is(c, "update_snonce")
      THEN {Set([x EXCEPT !.timeouts = 0], {"MICVerified"}) : x \in v}
      ELSE {c}

\* A frame is taken: no counter stays valid.
Taken(m, rx, prev, n) ==
  LET p == IF \E i \in DOMAIN prev : prev[i].msg = "1/4" THEN {"prev_key_replay"} ELSE {}
  IN  [m EXCEPT !.rx = rx, !.flags = (@ \ {"prev_key_replay"}) \cup p, !.key_replay = <<>>,
                !.SNonce = n]

\* Message 2/4 with SNonce n, 0 if its MIC is wrong, for a pending 1/4 ...
Pairwise2(s, n) ==
  \E i \in DOMAIN sm[s].key_replay :
    /\ sm[s].ptk \in {"PTKSTART", "PTKCALCNEGOTIATING"}
    /\ sm[s].key_replay[i].msg \in (IF n = 0 THEN {"1/4", "stale"} ELSE {"1/4"})
    /\ \E v \in Verified(sm[s], IF n = 0 THEN -1 ELSE n, FALSE) :
         StepWith(s, Taken(v, "pairwise", SubSeq(sm[s].key_replay, 1, i - 1), n))

\* ... or, with another SNonce, for one that was pending when the last 2/4 came.
SnonceUpdate(s, n) ==
  /\ sm[s].ptk = "PTKINITNEGOTIATING" /\ (n = 0 \/ n # sm[s].SNonce)
  /\ Is(sm[s], "prev_key_replay")
  /\ LET u == [Clear(Set(sm[s], {"update_snonce"}), {"MICVerified"}) EXCEPT
                 !.alt = {[SNonce |-> sm[s].SNonce, sent |-> SubSeq(sm[s].key_replay, 1, 1)]}]
     IN  StepWith(s, Taken(u, "pairwise", sm[s].key_replay, n))

\* Message 2/4 with another WPA IE than the association's: disconnected.  A
\* station always sends the same, so its first 2/4 shows it.
IeMismatch(s) ==
  /\ sm[s].ptk \in {"PTKSTART", "PTKCALCNEGOTIATING"} /\ sm[s].key_replay # <<>>
  /\ StepWith(s, wpa_sta_disconnect(sm[s]))

\* Message 4/4 for a pending 3/4, or for the 3/4 of the earlier SNonce.
Pairwise4(s) ==
  /\ sm[s].ptk = "PTKINITNEGOTIATING" /\ Is(sm[s], "PTK_valid")
  /\ \E t \in Range(sm[s].key_replay) \cup UNION {Range(a.sent) : a \in sm[s].alt} :
       /\ t.msg = "3/4"
       /\ \E v \in Verified(sm[s], t.key, TRUE) :
            StepWith(s, [Taken(v, "pairwise", <<>>, 0) EXCEPT !.peer = t.key])

\* Message 2/2 for a pending 1/2.
Group2(s) ==
  /\ sm[s].grp = "REKEYNEGOTIATING" /\ Is(sm[s], "PTK_valid")
  /\ \E t \in Range(sm[s].key_replay) :
       /\ t.msg = "1/2"
       /\ \E v \in Verified(sm[s], t.key, FALSE) : StepWith(s, Taken(v, "group", <<>>, 0))

Receive(s) ==
  /\ Idle(s)
  /\ \/ \E n \in Nonces[s] \cup {0} : Pairwise2(s, n) \/ SnonceUpdate(s, n)
     \/ IeMismatch(s) \/ Pairwise4(s) \/ Group2(s)
  /\ UNCHANGED <<group, bounds>>

\* A key request: for a new 4-way handshake (an error report has the same
\* effect) or for a new GTK.  It needs the MIC of the PTK and takes no counter.
Request(s, pairwise) ==
  /\ Idle(s) /\ requests + fails < MaxExtra
  /\ Is(sm[s], "PTK_valid") /\ ~ Is(sm[s], "update_snonce")
  /\ LET m == [Set(sm[s], {"MICVerified"}) EXCEPT !.timeouts = 0]
     IN  IF pairwise
         THEN StepWith(s, Taking(wpa_request_new_ptk(m))) /\ UNCHANGED group
         ELSE /\ sm' = [sm EXCEPT ![s] = m]
              /\ group' = [group EXCEPT !.GTKReKey = TRUE]
              /\ stack' = <<Rekeying, Frame("request", s)>>
  /\ requests' = requests + 1
  /\ UNCHANGED <<assocs, fails>>

Event ==
  \/ \E s \in Sta : Authenticate(s) \/ Associate(s) \/ Remove(s)
  \/ \E s \in Sta : Timeout(s) \/ RekeyPtk(s) \/ Receive(s)
  \/ \E s \in Sta, p \in BOOLEAN : Leave(s, p) \/ Request(s, p)
  \/ RekeyGtk

Next == Step \/ Event

\* A call that has begun goes on (weak fairness of Step: only Step leaves a
\* non-empty stack, and one of its actions is always enabled there); a timeout
\* that stays pending expires; the GTK is renewed again and again.
Spec ==
  /\ Init /\ [][Next]_vars
  /\ <>[](stack # <<>>) => []<><<stack # <<>>>>_vars
  /\ SF_vars(RekeyGtk)
  /\ \A s \in Sta : <>[](sm[s].timeouts > 0) => []<><<Timeout(s)>>_vars
-----------------------------------------------------------------------------
(***************************************************************************)
(* Properties.                                                             *)
(***************************************************************************)
Marked == {s \in Sta : Is(sm[s], "GUpdateStationKeys")}
Negotiating(s) ==
  sm[s].ptk \in {"PTKSTART", "PTKCALCNEGOTIATING", "PTKCALCNEGOTIATING2", "PTKINITNEGOTIATING"}

Msg == [msg : {"1/4", "3/4", "1/2", "stale"}, key : Nat]

\* Types; counters stay within the retry limits although a PTK request enters
\* PTKSTART without resetting them.
TypeOK ==
  /\ \A s \in Sta :
       /\ sm[s].ptk \in PtkState \cup {"none"} /\ sm[s].grp \in PtkGroupState
       /\ sm[s].flags \subseteq Flag /\ sm[s].rx \in {"none", "pairwise", "group"}
       /\ sm[s].TimeoutCtr \in 0 .. UPDATE_COUNT + 1
       /\ sm[s].GTimeoutCtr \in 0 .. UPDATE_COUNT + 1
       /\ {sm[s].SNonce, sm[s].PTK, sm[s].tk, sm[s].peer} \cup {x.SNonce : x \in sm[s].alt} \subseteq {0} \cup Nonces[s]
       /\ Range(sm[s].key_replay) \subseteq Msg
       /\ Len(sm[s].key_replay) <= MAX_RETRIES /\ sm[s].timeouts \in Nat
  /\ group.state \in {"SETKEYS", "SETKEYSDONE", "FATAL_FAILURE"}
  /\ group.GKeyDoneStations \in 0 .. Cardinality(Sta)

\* GKeyDoneStations is the number of stations marked with GUpdateStationKeys,
\* whatever answers, timeouts, disconnections and renewals came between.
GKeyDone == stack = <<>> => group.GKeyDoneStations = Cardinality(Marked)

\* The new GTK goes into use only when every station that was marked for it has
\* confirmed it, was disconnected or is gone, however the calls nest.
KeyWaits == stack = <<>> /\ group.state = "SETKEYSDONE" => Marked = {}

\* The pairwise key of a completed handshake is the one with which the station
\* confirmed it, also when it has sent several SNonces and answers an old 3/4.
Confirmed == \A s \in Sta : sm[s].ptk = "PTKINITDONE" /\ sm[s].tk # 0 => sm[s].tk = sm[s].peer

\* As long as no new keys are requested, every 4-way handshake ends: the station
\* confirms it or is disconnected, however frames are lost, late or wrong.  The one
\* way to go on for ever is to offer another SNonce with a wrong MIC again and
\* again: the machine falls back to 1/4 with the old PTK still valid, a 2/4 of
\* the old SNonce passes the check, and PTKCALCNEGOTIATING2 resets TimeoutCtr.
HandshakeEnds ==
  [](requests = 0) =>
    \A s \in Sta : \/ []<>(~ Negotiating(s))
                   \/ []<><<Idle(s) /\ SnonceUpdate(s, 0)>>_vars

\* What hostapd.conf says of wpa_group_rekey: the GTK is renewed at an interval.
\* A renewal that has begun comes to its end.
GtkRenewed == []<>(group.state # "SETKEYS")
=============================================================================
