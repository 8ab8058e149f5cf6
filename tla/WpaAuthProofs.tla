---------------------------- MODULE WpaAuthProofs ----------------------------
(***************************************************************************)
(* TLAPS proofs about WpaAuth: any stations, nonces, retry limits and      *)
(* bounds.                                                                 *)
(***************************************************************************)
EXTENDS WpaAuth, FiniteSetTheorems, TLAPS

(***************************************************************************)
(* What holds of the machine of a station.                                 *)
(***************************************************************************)
Keys(s) == {0} \cup Nonces[s]
Sent(s) == [msg : {"1/4", "3/4", "1/2", "stale"}, key : Keys(s)]
Old(s) == [SNonce : Keys(s), sent : Seq(Sent(s))]

Machine(s) ==
  [ptk : PtkState, grp : PtkGroupState, flags : SUBSET Flag,
   TimeoutCtr : Nat, GTimeoutCtr : Nat, rx : {"none", "pairwise", "group"},
   SNonce : Keys(s), alt : SUBSET Old(s), PTK : Keys(s), tk : Keys(s), peer : Keys(s),
   key_replay : Seq(Sent(s)), timeouts : Nat]

\* Requests that override the state, other than that for a disconnection.
Urgent == {"Init", "DeauthenticationRequest", "AuthenticationRequest",
           "ReAuthenticationRequest", "PTKRequest"}

\* The last message was sent once too often: the station will be disconnected.
Late(m) ==
  /\ ~ Is(m, "PTKRequest")
  /\ \/ Is(m, "Disconnect")
     \/ m.ptk \in {"DISCONNECT", "DISCONNECTED", "AUTHENTICATION"}
     \/ m.ptk = "PTKSTART" /\ m.rx # "pairwise"
     \/ /\ m.ptk = "PTKINITNEGOTIATING" /\ ~ Is(m, "update_snonce")
        /\ ~ (m.rx = "pairwise" /\ Is(m, "MICVerified"))

\* The retry counters.
Counters(m) ==
  /\ m.TimeoutCtr <= UPDATE_COUNT \/ (m.TimeoutCtr = UPDATE_COUNT + 1 /\ Late(m))
  /\ m.ptk \in {"AUTHENTICATION2", "INITPSK"} =>
       (m.TimeoutCtr = 0 /\ m.SNonce = 0) \/ Is(m, "Disconnect")
  /\ m.ptk = "PTKCALCNEGOTIATING2" => m.TimeoutCtr = 0
  /\ m.GTimeoutCtr <= UPDATE_COUNT + 1 /\ Len(m.key_replay) <= MAX_RETRIES
  /\ m.grp \in {"IDLE", "REKEYESTABLISHED"} => m.GTimeoutCtr = 0

\* No message 1/4 can be answered.
NoFirst(m) == \A i \in DOMAIN m.key_replay : m.key_replay[i].msg \notin {"1/4", "stale"}

\* The frame that waits to be looked at.
Frames(m) ==
  /\ Is(m, "PTKRequest") => m.rx # "pairwise"
  /\ m.rx = "group" => /\ m.grp = "REKEYNEGOTIATING" /\ Is(m, "MICVerified")
                       /\ ~ Is(m, "Init") /\ ~ Is(m, "PtkGroupInit")
  /\ m.rx = "pairwise" /\ Is(m, "PTK_valid") =>
       /\ m.ptk \in {"PTKSTART", "PTKCALCNEGOTIATING", "PTKINITNEGOTIATING"}
       /\ m.flags \cap Urgent = {}
  /\ m.rx = "pairwise" /\ (Is(m, "PTK_valid") \/ m.SNonce # 0)
       /\ m.ptk \in {"PTKSTART", "PTKCALCNEGOTIATING"} => NoFirst(m)
  /\ m.ptk = "PTKCALCNEGOTIATING" /\ Is(m, "PTK_valid") => NoFirst(m)
  /\ m.ptk = "PTKCALCNEGOTIATING" /\ Is(m, "MICVerified") => m.rx # "pairwise"
  /\ m.ptk \in {"PTKCALCNEGOTIATING2", "PTKINITDONE"} => m.rx # "pairwise"
  /\ m.ptk = "PTKINITNEGOTIATING" /\ m.rx = "pairwise" => Is(m, "MICVerified") \/ Is(m, "update_snonce")

\* A second SNonce, and the counters it may use.
Snonces(m) ==
  /\ m.ptk \in {"PTKCALCNEGOTIATING", "PTKCALCNEGOTIATING2"} => ~ Is(m, "update_snonce")
  /\ m.ptk = "PTKINITNEGOTIATING" /\ Is(m, "update_snonce") => m.rx = "pairwise" /\ NoFirst(m)
  /\ Is(m, "update_snonce") /\ Is(m, "PTK_valid") => m.ptk = "PTKINITNEGOTIATING"
  /\ m.ptk = "PTKINITNEGOTIATING" /\ Is(m, "prev_key_replay") /\ m.key_replay = <<>> =>
       \/ m.flags \cap Urgent # {} \/ Is(m, "update_snonce")
       \/ m.rx = "pairwise" \/ m.TimeoutCtr > UPDATE_COUNT

\* The pairwise key.
Pairwise(m) ==
  /\ m.ptk = "PTKINITNEGOTIATING" /\ m.rx = "pairwise" /\ Is(m, "MICVerified")
       /\ ~ Is(m, "update_snonce") => m.PTK = m.peer
  /\ m.ptk = "PTKINITDONE" /\ m.tk # 0 => m.tk = m.peer
  /\ m.ptk = "INITIALIZE" => ~ Is(m, "PTK_valid") /\ m.tk = 0

Sound(m, s) == m \in Machine(s) /\ Counters(m) /\ Frames(m) /\ Snonces(m) /\ Pairwise(m)

\* Between the steps of a station nothing is left to do, but to disconnect after a
\* fatal failure of the group.
Rested(m, fatal) ==
  /\ m.flags \cap (Urgent \cup {"PtkGroupInit"}) = {}
  /\ Is(m, "Disconnect") => fatal
  /\ m.ptk \in {"INITIALIZE", "PTKSTART", "PTKCALCNEGOTIATING", "PTKINITNEGOTIATING", "PTKINITDONE"}
  /\ m.grp \in {"IDLE", "REKEYNEGOTIATING"}
  /\ m.TimeoutCtr <= UPDATE_COUNT /\ m.GTimeoutCtr <= UPDATE_COUNT
  /\ m.rx = "none" \/ (m.rx = "pairwise" /\ m.ptk = "INITIALIZE")
  /\ Is(m, "update_snonce") => m.ptk # "PTKINITNEGOTIATING"
  /\ m.grp = "REKEYNEGOTIATING" => ~ Is(m, "TimeoutEvt")

\* A station that is told of the new GTK: it will not end the update by itself.
Told(m) == Rested(m, FALSE) /\ m.ptk = "PTKINITDONE" /\ Is(m, "GUpdateStationKeys")

-----------------------------------------------------------------------------
(***************************************************************************)
(* Steps of one machine.                                                   *)
(***************************************************************************)
\* Fields other than the flags.
Same(n, m) ==
  /\ n.ptk = m.ptk /\ n.grp = m.grp /\ n.TimeoutCtr = m.TimeoutCtr
  /\ n.GTimeoutCtr = m.GTimeoutCtr /\ n.rx = m.rx /\ n.SNonce = m.SNonce /\ n.alt = m.alt
  /\ n.PTK = m.PTK /\ n.tk = m.tk /\ n.peer = m.peer /\ n.key_replay = m.key_replay
  /\ n.timeouts = m.timeouts

LEMMA SetFields ==
  ASSUME NEW s, NEW m \in Machine(s), NEW F \in SUBSET Flag
  PROVE  /\ Set(m, F) \in Machine(s) /\ Same(Set(m, F), m) /\ Set(m, F).flags = m.flags \cup F
BY DEF Set, Machine, Same

LEMMA ClearFields ==
  ASSUME NEW s, NEW m \in Machine(s), NEW F
  PROVE  /\ Clear(m, F) \in Machine(s) /\ Same(Clear(m, F), m) /\ Clear(m, F).flags = m.flags \ F
BY DEF Clear, Machine, Same

\* wpa_remove_ptk
LEMMA RemoveFields ==
  ASSUME NEW s, NEW m \in Machine(s)
  PROVE  LET n == wpa_remove_ptk(m)
         IN  /\ n \in Machine(s) /\ n.flags = m.flags \ {"PTK_valid"}
             /\ Same(n, [m EXCEPT !.PTK = 0, !.tk = 0, !.peer = 0])
BY DEF wpa_remove_ptk, Clear, Machine, Same, Keys

\* wpa_send_eapol
LEMMA SendFields ==
  ASSUME NEW s, NEW m \in Machine(s), NEW msg \in {"1/4", "3/4", "1/2"}
  PROVE  LET n == wpa_send_eapol(m, msg)
         IN  /\ n \in Machine(s) /\ n.flags = m.flags /\ Len(n.key_replay) <= MAX_RETRIES
             /\ Same(n, [m EXCEPT !.key_replay = n.key_replay, !.timeouts = n.timeouts])
             /\ msg # "1/4" /\ NoFirst(m) => NoFirst(n)
             /\ n.key_replay # <<>>
<1> DEFINE n == wpa_send_eapol(m, msg)
           e == [msg |-> msg, key |-> IF msg = "1/4" THEN 0 ELSE m.PTK]
           sent == <<e>> \o m.key_replay
           k == IF Len(sent) < MAX_RETRIES THEN Len(sent) ELSE MAX_RETRIES
           q == SubSeq(sent, 1, k)
<1>1. /\ m.key_replay \in Seq(Sent(s)) /\ Len(m.key_replay) \in Nat
      /\ DOMAIN m.key_replay = 1 .. Len(m.key_replay)
      /\ e \in Sent(s) /\ m.timeouts + 1 \in Nat
  BY DEF Machine, Sent, Keys
<1>2. n = [m EXCEPT !.key_replay = q, !.timeouts = m.timeouts + 1]
  BY DEF wpa_send_eapol
<1>3. e.msg = msg
  OBVIOUS
<1> HIDE DEF e, n
<1>4. /\ sent \in Seq(Sent(s)) /\ Len(sent) = Len(m.key_replay) + 1
      /\ sent[1] = e /\ \A i \in 2 .. Len(sent) : sent[i] = m.key_replay[i - 1]
  BY <1>1
<1> HIDE DEF sent
<1>5. k \in 1 .. Len(sent) /\ k <= MAX_RETRIES
  BY <1>1, <1>4, CountAssumption
<1> HIDE DEF k
<1>6. q \in Seq(Sent(s)) /\ Len(q) = k /\ DOMAIN q = 1 .. k /\ q # <<>> /\ \A i \in 1 .. k : q[i] = sent[i]
  BY <1>4, <1>5
<1> HIDE DEF q
<1>7. /\ n \in Machine(s) /\ n.flags = m.flags /\ n.key_replay = q
      /\ Same(n, [m EXCEPT !.key_replay = n.key_replay, !.timeouts = n.timeouts])
  BY <1>1, <1>2, <1>6 DEF Machine, Same
<1>8. ASSUME msg # "1/4", NoFirst(m) PROVE NoFirst(n)
  <2> SUFFICES ASSUME NEW i \in 1 .. k PROVE q[i].msg \notin {"1/4", "stale"}
    BY <1>6, <1>7 DEF NoFirst
  <2>1. CASE i = 1
    BY <1>3, <1>4, <1>6, <1>8, <2>1
  <2>2. CASE i # 1
    <3>1. i \in 2 .. Len(sent) /\ i - 1 \in DOMAIN m.key_replay
      BY <1>1, <1>4, <1>5, <2>2
    <3>2. q[i] = m.key_replay[i - 1]
      BY <1>4, <1>6, <3>1
    <3> QED  BY <1>8, <3>1, <3>2 DEF NoFirst
  <2> QED  BY <2>1, <2>2
<1> QED  BY <1>5, <1>6, <1>7, <1>8 DEF n

GroupSet ==
  [state : {"SETKEYS", "SETKEYSDONE", "FATAL_FAILURE"}, GKeyDoneStations : Int,
   GTKReKey : BOOLEAN, changed : BOOLEAN]
World(s) == [m : Machine(s), g : GroupSet]

\* The group machine counts the station out.
Ended(v, w) ==
  \/ /\ v.g = w.g
     /\ "GUpdateStationKeys" \in v.m.flags <=> "GUpdateStationKeys" \in w.m.flags
  \/ /\ v.g = [w.g EXCEPT !.GKeyDoneStations = @ - 1]
     /\ "GUpdateStationKeys" \in w.m.flags /\ "GUpdateStationKeys" \notin v.m.flags

LEMMA UnmarkFields ==
  ASSUME NEW s, NEW w \in World(s)
  PROVE  LET v == Unmark(w)
         IN  /\ v \in World(s) /\ Same(v.m, w.m) /\ v.m.flags = w.m.flags \ {"GUpdateStationKeys"}
             /\ Ended(v, w)
<1>1. w.m \in Machine(s) /\ w.g \in GroupSet /\ w = [m |-> w.m, g |-> w.g]
  BY DEF World
<1>2. CASE Is(w.m, "GUpdateStationKeys")
  <2> DEFINE n == Clear(w.m, {"GUpdateStationKeys"})
             h == [w.g EXCEPT !.GKeyDoneStations = @ - 1]
  <2>1. Unmark(w) = [m |-> n, g |-> h]
    BY <1>2 DEF Unmark
  <2>2. n \in Machine(s) /\ Same(n, w.m) /\ n.flags = w.m.flags \ {"GUpdateStationKeys"}
    BY <1>1, ClearFields
  <2>3. h \in GroupSet
    BY <1>1 DEF GroupSet
  <2> HIDE DEF n
  <2> QED  BY <1>2, <2>1, <2>2, <2>3 DEF World, Ended, Is
<1>3. CASE ~ Is(w.m, "GUpdateStationKeys")
  <2>1. Unmark(w) = w /\ w.m.flags = w.m.flags \ {"GUpdateStationKeys"}
    BY <1>1, <1>3 DEF Unmark, Is
  <2> QED  BY <2>1 DEF Ended, Same
<1> QED  BY <1>2, <1>3
-----------------------------------------------------------------------------
(***************************************************************************)
(* What SM_STEP(WPA_PTK) enters, and why.                                  *)
(***************************************************************************)
\* No request overrides the state.
Calm(m) == m.flags \cap (Urgent \cup {"Disconnect"}) = {}

LEMMA MinIs ==
  ASSUME NEW S \in SUBSET Int, NEW x \in S, \A y \in S : x <= y
  PROVE  Min(S) = x
<1>1. \E y \in S : \A z \in S : y <= z
  OBVIOUS
<1>2. Min(S) \in S /\ \A z \in S : Min(S) <= z
  BY <1>1, Zenon DEF Min
<1>3. Min(S) <= x /\ x <= Min(S) /\ x \in Int /\ Min(S) \in Int
  BY <1>2
<1> QED  BY <1>3

\* The most urgent request wins.
LEMMA Overridden ==
  ASSUME NEW m, NEW ok
  PROVE  LET st == NextPtk(m, ok)
         IN  /\ Is(m, "Init") => st = "INITIALIZE"
             /\ ~ Is(m, "Init") =>
               /\ Is(m, "Disconnect") => st = "DISCONNECT"
               /\ ~ Is(m, "Disconnect") =>
                 /\ Is(m, "DeauthenticationRequest") => st = "DISCONNECTED"
                 /\ ~ Is(m, "DeauthenticationRequest") =>
                   /\ Is(m, "AuthenticationRequest") => st = "AUTHENTICATION"
                   /\ ~ Is(m, "AuthenticationRequest") =>
                     /\ Is(m, "ReAuthenticationRequest") => st = "AUTHENTICATION2"
                     /\ ~ Is(m, "ReAuthenticationRequest") /\ Is(m, "PTKRequest") => st = "PTKSTART"
<1> DEFINE raised == {i \in DOMAIN Override : Is(m, Override[i].flag)}
           st == NextPtk(m, ok)
<1>1. DOMAIN Override = 1 .. 6 /\ 1 .. 6 \subseteq Int
  BY DEF Override
<1>2. /\ Override[1].flag = "Init" /\ Override[1].enter = "INITIALIZE"
      /\ Override[2].flag = "Disconnect" /\ Override[2].enter = "DISCONNECT"
      /\ Override[3].flag = "DeauthenticationRequest" /\ Override[3].enter = "DISCONNECTED"
      /\ Override[4].flag = "AuthenticationRequest" /\ Override[4].enter = "AUTHENTICATION"
      /\ Override[5].flag = "ReAuthenticationRequest" /\ Override[5].enter = "AUTHENTICATION2"
      /\ Override[6].flag = "PTKRequest" /\ Override[6].enter = "PTKSTART"
  BY DEF Override
<1>3. raised \subseteq 1 .. 6 /\ raised \in SUBSET Int
  BY <1>1
<1>4. \A i \in 1 .. 6 : i \in raised <=> Is(m, Override[i].flag)
  BY <1>1
<1>5. raised # {} => st = Override[Min(raised)].enter
  BY DEF NextPtk
<1> HIDE DEF raised, st
<1>6. ASSUME NEW i \in raised, \A j \in 1 .. 6 : j < i => j \notin raised
      PROVE  st = Override[i].enter
  <2>1. \A j \in raised : i <= j
    BY <1>3, <1>6
  <2>2. Min(raised) = i
    BY <1>3, <1>6, <2>1, MinIs
  <2> QED  BY <1>5, <1>6, <2>2
<1>7. /\ 1 \in raised <=> Is(m, "Init")
      /\ 2 \in raised <=> Is(m, "Disconnect")
      /\ 3 \in raised <=> Is(m, "DeauthenticationRequest")
      /\ 4 \in raised <=> Is(m, "AuthenticationRequest")
      /\ 5 \in raised <=> Is(m, "ReAuthenticationRequest")
      /\ 6 \in raised <=> Is(m, "PTKRequest")
  BY <1>2, <1>4
<1>8. /\ 1 \in raised => st = Override[1].enter
      /\ 2 \in raised /\ 1 \notin raised => st = Override[2].enter
      /\ 3 \in raised /\ 1 \notin raised /\ 2 \notin raised => st = Override[3].enter
      /\ 4 \in raised /\ 1 \notin raised /\ 2 \notin raised /\ 3 \notin raised
           => st = Override[4].enter
      /\ 5 \in raised /\ 1 \notin raised /\ 2 \notin raised /\ 3 \notin raised
           /\ 4 \notin raised => st = Override[5].enter
      /\ 6 \in raised /\ 1 \notin raised /\ 2 \notin raised /\ 3 \notin raised
           /\ 4 \notin raised /\ 5 \notin raised => st = Override[6].enter
  BY <1>6
<1> QED  BY <1>2, <1>7, <1>8 DEF st

\* Without a request the state decides.
LEMMA Undisturbed ==
  ASSUME NEW s, NEW m \in Machine(s), NEW ok, Calm(m)
  PROVE  LET st == NextPtk(m, ok)
             key == m.rx = "pairwise"
         IN  /\ m.ptk = "DISCONNECT" => st = "DISCONNECTED"
             /\ m.ptk = "DISCONNECTED" => st = "INITIALIZE"
             /\ m.ptk = "AUTHENTICATION" => st = "AUTHENTICATION2"
             /\ m.ptk = "AUTHENTICATION2" => st = "INITPSK"
             /\ m.ptk = "INITPSK" => st = IF ok THEN "PTKSTART" ELSE "DISCONNECT"
             /\ m.ptk = "PTKSTART" =>
                  st = IF key THEN "PTKCALCNEGOTIATING"
                       ELSE IF Expired(m) THEN "DISCONNECT"
                       ELSE IF Is(m, "TimeoutEvt") THEN "PTKSTART" ELSE "stay"
             /\ m.ptk = "PTKCALCNEGOTIATING" =>
                  st = IF Is(m, "MICVerified") THEN "PTKCALCNEGOTIATING2"
                       ELSE IF key THEN "PTKCALCNEGOTIATING"
                       ELSE IF Is(m, "TimeoutEvt") THEN "PTKSTART" ELSE "stay"
             /\ m.ptk = "PTKCALCNEGOTIATING2" => st = "PTKINITNEGOTIATING"
             /\ m.ptk = "PTKINITNEGOTIATING" =>
                  st = IF Is(m, "update_snonce") THEN "PTKCALCNEGOTIATING"
                       ELSE IF key /\ Is(m, "MICVerified") THEN "PTKINITDONE"
                       ELSE IF Expired(m) THEN "DISCONNECT"
                       ELSE IF Is(m, "TimeoutEvt") THEN "PTKINITNEGOTIATING" ELSE "stay"
             /\ m.ptk \in {"INITIALIZE", "PTKINITDONE"} => st = "stay"
<1> DEFINE raised == {i \in DOMAIN Override : Is(m, Override[i].flag)}
<1>1. \A i \in DOMAIN Override : Override[i].flag \in Urgent \cup {"Disconnect"}
  BY DEF Override, Urgent
<1>2. raised = {}
  BY <1>1 DEF Calm, Is
<1> HIDE DEF raised
<1> QED  BY <1>2 DEF NextPtk, raised

\* The states that lead to the one entered.
LEMMA Reasons ==
  ASSUME NEW s, NEW m \in Machine(s), NEW ok
  PROVE  LET st == NextPtk(m, ok)
             key == m.rx = "pairwise"
         IN  /\ st \in PtkState \cup {"stay"}
             /\ st = "INITIALIZE" => Is(m, "Init") \/ (Calm(m) /\ m.ptk = "DISCONNECTED")
             /\ st # "INITIALIZE" => ~ Is(m, "Init")
             /\ st \notin {"INITIALIZE", "DISCONNECT"} => ~ Is(m, "Disconnect")
             /\ st = "DISCONNECTED" =>
                  Is(m, "DeauthenticationRequest") \/ (Calm(m) /\ m.ptk = "DISCONNECT")
             /\ st = "AUTHENTICATION" => Is(m, "AuthenticationRequest")
             /\ st = "AUTHENTICATION2" =>
                  Is(m, "ReAuthenticationRequest") \/ (Calm(m) /\ m.ptk = "AUTHENTICATION")
             /\ st = "INITPSK" => Calm(m) /\ m.ptk = "AUTHENTICATION2"
             /\ st = "PTKSTART" =>
                  \/ Is(m, "PTKRequest")
                  \/ Calm(m) /\ m.ptk = "INITPSK"
                  \/ Calm(m) /\ m.ptk = "PTKSTART" /\ ~ key /\ ~ Expired(m)
                  \/ Calm(m) /\ m.ptk = "PTKCALCNEGOTIATING" /\ ~ key
             /\ st = "PTKCALCNEGOTIATING" =>
                  /\ Calm(m)
                  /\ \/ m.ptk = "PTKSTART" /\ key
                     \/ m.ptk = "PTKCALCNEGOTIATING" /\ key
                     \/ m.ptk = "PTKINITNEGOTIATING" /\ Is(m, "update_snonce")
             /\ st = "PTKCALCNEGOTIATING2" =>
                  Calm(m) /\ m.ptk = "PTKCALCNEGOTIATING" /\ Is(m, "MICVerified")
             /\ st = "PTKINITNEGOTIATING" =>
                  /\ Calm(m)
                  /\ \/ m.ptk = "PTKCALCNEGOTIATING2"
                     \/ /\ m.ptk = "PTKINITNEGOTIATING" /\ ~ Is(m, "update_snonce")
                        /\ ~ (key /\ Is(m, "MICVerified")) /\ ~ Expired(m)
             /\ st = "PTKINITDONE" =>
                  /\ Calm(m) /\ m.ptk = "PTKINITNEGOTIATING" /\ ~ Is(m, "update_snonce")
                  /\ key /\ Is(m, "MICVerified")
             /\ st = "stay" =>
                  /\ Calm(m)
                  /\ \/ m.ptk \in {"INITIALIZE", "PTKINITDONE"}
                     \/ m.ptk = "PTKSTART" /\ ~ key /\ ~ Expired(m)
                     \/ m.ptk = "PTKCALCNEGOTIATING" /\ ~ key
                     \/ /\ m.ptk = "PTKINITNEGOTIATING" /\ ~ Is(m, "update_snonce")
                        /\ ~ (key /\ Is(m, "MICVerified")) /\ ~ Expired(m)
<1> DEFINE st == NextPtk(m, ok)
<1>1. m.ptk \in PtkState
  BY DEF Machine
<1>2. CASE Calm(m)
  <2>1. ~ Is(m, "Init") /\ ~ Is(m, "Disconnect")
    BY <1>2 DEF Calm, Urgent, Is
  <2> QED  BY <1>1, <1>2, <2>1, Undisturbed DEF PtkState
<1>3. CASE ~ Calm(m)
  <2>1. \E f \in Urgent \cup {"Disconnect"} : Is(m, f)
    BY <1>3 DEF Calm, Is
  <2> QED  BY <1>3, <2>1, Overridden DEF Urgent, PtkState
<1> QED  BY <1>2, <1>3
-----------------------------------------------------------------------------
(***************************************************************************)
(* The states of WPA_PTK.                                                  *)
(***************************************************************************)
\* What entering a state leaves to the group key handshake.
Entered(v, w, s) ==
  /\ v \in World(s) /\ Ended(v, w)
  /\ v.m.grp = w.m.grp /\ v.m.GTimeoutCtr = w.m.GTimeoutCtr
  /\ Is(v.m, "Init") <=> Is(w.m, "Init")
  /\ Is(v.m, "PtkGroupInit") <=> Is(w.m, "PtkGroupInit")
  /\ ~ Is(w.m, "Init") => Is(v.m, "changed")

LEMMA SoundIs ==
  ASSUME NEW s, NEW m, Sound(m, s)
  PROVE  /\ m \in Machine(s) /\ Counters(m) /\ Frames(m) /\ Snonces(m) /\ Pairwise(m)
         /\ m.TimeoutCtr \in Nat /\ m.GTimeoutCtr \in Nat /\ m.flags \subseteq Flag
BY DEF Sound, Machine

\* wpa_sta_disconnect
LEMMA DisconnectFields ==
  ASSUME NEW s, NEW m \in Machine(s)
  PROVE  LET n == wpa_sta_disconnect(m)
         IN  /\ n \in Machine(s)
             /\ n.flags = ((m.flags \ {"PTK_valid"}) \cup {"DeauthenticationRequest", "changed"})
                            \ {"WLAN_STA_ASSOC"}
             /\ Same(n, [m EXCEPT !.PTK = 0, !.tk = 0, !.peer = 0])
<1> DEFINE a == wpa_remove_ptk(m)
           b == Set(a, {"DeauthenticationRequest", "changed"})
           c == Clear(b, {"WLAN_STA_ASSOC"})
<1>1. /\ a \in Machine(s) /\ a.flags = m.flags \ {"PTK_valid"}
      /\ Same(a, [m EXCEPT !.PTK = 0, !.tk = 0, !.peer = 0])
  BY RemoveFields
<1> HIDE DEF a
<1>2. /\ b \in Machine(s) /\ b.flags = a.flags \cup {"DeauthenticationRequest", "changed"}
      /\ Same(b, a)
  <2>1. {"DeauthenticationRequest", "changed"} \in SUBSET Flag
    BY DEF Flag
  <2> QED  BY <1>1, <2>1, SetFields
<1> HIDE DEF b
<1>3. c \in Machine(s) /\ c.flags = b.flags \ {"WLAN_STA_ASSOC"} /\ Same(c, b)
  BY <1>2, ClearFields
<1>4. c = wpa_sta_disconnect(m)
  BY DEF wpa_sta_disconnect, a, b
<1> HIDE DEF c
<1> QED  BY <1>1, <1>2, <1>3, <1>4 DEF Same

\* SM_ENTER: the name of the state and the flag changed.
LEMMA EnterFields ==
  ASSUME NEW s, NEW w \in World(s), NEW st \in PtkState
  PROVE  LET n == Set([w.m EXCEPT !.ptk = st], {"changed"})
         IN  /\ n \in Machine(s) /\ Same(n, [w.m EXCEPT !.ptk = st])
             /\ n.flags = w.m.flags \cup {"changed"}
             /\ \A x \in Machine(s) : /\ [w EXCEPT !.m = x] \in World(s)
                                      /\ [w EXCEPT !.m = x].m = x /\ [w EXCEPT !.m = x].g = w.g
<1>1. w.m \in Machine(s) /\ [w.m EXCEPT !.ptk = st] \in Machine(s)
  BY DEF World, Machine
<1>2. {"changed"} \in SUBSET Flag /\ [w.m EXCEPT !.ptk = st].flags = w.m.flags
  BY <1>1 DEF Flag, Machine
<1>3. \A x \in Machine(s) : /\ [w EXCEPT !.m = x] \in World(s)
                            /\ [w EXCEPT !.m = x].m = x /\ [w EXCEPT !.m = x].g = w.g
  BY DEF World
<1> DEFINE k == [w.m EXCEPT !.ptk = st]
           n == Set(k, {"changed"})
<1>4. n \in Machine(s) /\ Same(n, k) /\ n.flags = k.flags \cup {"changed"}
  <2> HIDE DEF k
  <2> QED  BY <1>1, <1>2, SetFields DEF k
<1> QED  BY <1>2, <1>3, <1>4

LEMMA EnterINITIALIZE ==
  ASSUME NEW s, NEW w \in World(s), Sound(w.m, s), NEW ok, NextPtk(w.m, ok) = "INITIALIZE"
  PROVE  LET v == EnterPtk(w, s, "INITIALIZE", ok) IN Entered(v, w, s) /\ Sound(v.m, s)
<1> DEFINE v == EnterPtk(w, s, "INITIALIZE", ok)
           e == Set([w.m EXCEPT !.ptk = "INITIALIZE"], {"changed"})
           x == [w EXCEPT !.m = e]
           u == Unmark(x)
           r == wpa_remove_ptk(u.m)
           F == {"PInitAKeys"} \cup (IF Is(e, "Init") THEN {"changed"} ELSE {})
           c == Clear(r, F)
           n == [c EXCEPT !.TimeoutCtr = 0]
<1>1. /\ e \in Machine(s) /\ Same(e, [w.m EXCEPT !.ptk = "INITIALIZE"])
      /\ e.flags = w.m.flags \cup {"changed"}
      /\ x \in World(s) /\ x.m = e /\ x.g = w.g
  <2>1. "INITIALIZE" \in PtkState
    BY DEF PtkState
  <2> QED  BY <2>1, EnterFields
<1>2. v = [u EXCEPT !.m = n]
  BY <1>1 DEF EnterPtk, INITIALIZE
<1> HIDE DEF v, e, x
<1>3. /\ u \in World(s) /\ Same(u.m, e) /\ u.m.flags = e.flags \ {"GUpdateStationKeys"}
      /\ Ended(u, x)
  BY <1>1, UnmarkFields
<1> HIDE DEF u
<1>4. /\ r \in Machine(s) /\ r.flags = u.m.flags \ {"PTK_valid"}
      /\ Same(r, [u.m EXCEPT !.PTK = 0, !.tk = 0, !.peer = 0])
  <2>1. u.m \in Machine(s)
    BY <1>3 DEF World
  <2> QED  BY <2>1, RemoveFields
<1> HIDE DEF r
<1>5. c \in Machine(s) /\ Same(c, r) /\ c.flags = r.flags \ F
  BY <1>4, ClearFields
<1> HIDE DEF c
<1>6. n \in Machine(s) /\ Same(n, [c EXCEPT !.TimeoutCtr = 0]) /\ n.flags = c.flags
  BY <1>5 DEF Machine, Same
<1> HIDE DEF n
<1>7. v \in World(s) /\ v.m = n /\ v.g = u.g
  BY <1>2, <1>3, <1>6 DEF World
<1>8. Ended(v, w)
  BY <1>1, <1>3, <1>4, <1>5, <1>6, <1>7 DEF Ended, F
<1>9. /\ n.ptk = "INITIALIZE" /\ n.grp = w.m.grp /\ n.GTimeoutCtr = w.m.GTimeoutCtr
      /\ n.TimeoutCtr = 0 /\ n.tk = 0 /\ n.rx = w.m.rx /\ n.key_replay = w.m.key_replay
  <2>1. /\ e.ptk = "INITIALIZE" /\ e.grp = w.m.grp /\ e.GTimeoutCtr = w.m.GTimeoutCtr
        /\ e.rx = w.m.rx /\ e.key_replay = w.m.key_replay
    BY <1>1 DEF Same, World, Machine
  <2>2. /\ r.ptk = "INITIALIZE" /\ r.grp = w.m.grp /\ r.GTimeoutCtr = w.m.GTimeoutCtr
        /\ r.rx = w.m.rx /\ r.key_replay = w.m.key_replay /\ r.tk = 0
    BY <1>3, <1>4, <2>1 DEF Same, World, Machine
  <2> QED  BY <1>5, <1>6, <2>2 DEF Same, Machine
<1>10. n.flags = (w.m.flags \cup {"changed"}) \ ({"GUpdateStationKeys", "PTK_valid"} \cup F)
  BY <1>1, <1>3, <1>4, <1>5, <1>6
<1>11. Entered(v, w, s)
  BY <1>1, <1>7, <1>8, <1>9, <1>10 DEF Entered, Is, F
<1>12. Sound(n, s)
  <2>1. Counters(n)
    BY <1>9, <1>10, SoundIs, CountAssumption DEF Counters
  <2>2. Frames(n)
    BY <1>9, <1>10, SoundIs DEF Frames, Is, F
  <2>3. Snonces(n) /\ Pairwise(n)
    BY <1>9, <1>10 DEF Snonces, Pairwise, Is
  <2> QED  BY <1>6, <2>1, <2>2, <2>3 DEF Sound
<1> QED  BY <1>7, <1>11, <1>12 DEF v

\* The other states leave the group as it is.
LEMMA NewEntered ==
  ASSUME NEW s, NEW w \in World(s), NEW n \in Machine(s),
         n.grp = w.m.grp, n.GTimeoutCtr = w.m.GTimeoutCtr, Is(n, "changed"),
         Is(n, "Init") <=> Is(w.m, "Init"), Is(n, "PtkGroupInit") <=> Is(w.m, "PtkGroupInit"),
         Is(n, "GUpdateStationKeys") <=> Is(w.m, "GUpdateStationKeys")
  PROVE  Entered([w EXCEPT !.m = n], w, s) /\ [w EXCEPT !.m = n].m = n
<1>1. [w EXCEPT !.m = n] \in World(s) /\ [w EXCEPT !.m = n].m = n /\ [w EXCEPT !.m = n].g = w.g
  BY DEF World
<1> QED  BY <1>1 DEF Entered, Ended, Is

LEMMA EnterDISCONNECT ==
  ASSUME NEW s, NEW w \in World(s), Sound(w.m, s), NEW ok, NextPtk(w.m, ok) = "DISCONNECT"
  PROVE  LET v == EnterPtk(w, s, "DISCONNECT", ok) IN Entered(v, w, s) /\ Sound(v.m, s)
<1> DEFINE m == w.m
           e == Clear(Set([m EXCEPT !.ptk = "DISCONNECT"], {"changed"}), {"Disconnect"})
           n == wpa_sta_disconnect(e)
<1>1. m \in Machine(s) /\ EnterPtk(w, s, "DISCONNECT", ok) = [w EXCEPT !.m = n]
  BY DEF EnterPtk, World
<1>2. /\ e \in Machine(s) /\ e.flags = (m.flags \cup {"changed"}) \ {"Disconnect"}
      /\ Same(e, [m EXCEPT !.ptk = "DISCONNECT"])
  BY <1>1 DEF Set, Clear, Machine, Same, Flag, PtkState
<1> HIDE DEF e
<1>3. /\ n \in Machine(s) /\ Same(n, [e EXCEPT !.PTK = 0, !.tk = 0, !.peer = 0])
      /\ n.flags = ((e.flags \ {"PTK_valid"}) \cup {"DeauthenticationRequest", "changed"})
                            \ {"WLAN_STA_ASSOC"}
  BY <1>2, DisconnectFields
<1> HIDE DEF n
<1>4. /\ n.ptk = "DISCONNECT" /\ n.grp = m.grp /\ n.GTimeoutCtr = m.GTimeoutCtr
      /\ n.TimeoutCtr = m.TimeoutCtr /\ n.rx = m.rx /\ n.key_replay = m.key_replay
  BY <1>1, <1>2, <1>3 DEF Same, Machine
<1>5. /\ \A f \in {"Init", "PtkGroupInit", "GUpdateStationKeys", "MICVerified", "PTKRequest"} :
           Is(n, f) <=> Is(m, f)
      /\ ~ Is(n, "PTK_valid") /\ Is(n, "changed")
  BY <1>2, <1>3 DEF Is
<1>6. Sound(n, s)
  <2>1. Counters(n)
    BY <1>4, <1>5, SoundIs DEF Counters, Late
  <2>2. Frames(n)
    BY <1>4, <1>5, SoundIs DEF Frames
  <2>3. Snonces(n) /\ Pairwise(n)
    BY <1>4, <1>5 DEF Snonces, Pairwise
  <2> QED  BY <1>3, <2>1, <2>2, <2>3 DEF Sound
<1>7. Entered([w EXCEPT !.m = n], w, s) /\ [w EXCEPT !.m = n].m = n
  BY <1>1, <1>3, <1>4, <1>5, NewEntered
<1> QED  BY <1>1, <1>6, <1>7

LEMMA EnterDISCONNECTED ==
  ASSUME NEW s, NEW w \in World(s), Sound(w.m, s), NEW ok, NextPtk(w.m, ok) = "DISCONNECTED"
  PROVE  LET v == EnterPtk(w, s, "DISCONNECTED", ok) IN Entered(v, w, s) /\ Sound(v.m, s)
<1> DEFINE m == w.m
           n == Clear(Set([m EXCEPT !.ptk = "DISCONNECTED"], {"changed"}), {"DeauthenticationRequest"})
<1>1. m \in Machine(s) /\ EnterPtk(w, s, "DISCONNECTED", ok) = [w EXCEPT !.m = n]
  BY DEF EnterPtk, World
<1>2. /\ n \in Machine(s) /\ n.flags = (m.flags \cup {"changed"}) \ {"DeauthenticationRequest"}
      /\ n.ptk = "DISCONNECTED" /\ n.grp = m.grp /\ n.GTimeoutCtr = m.GTimeoutCtr
      /\ n.TimeoutCtr = m.TimeoutCtr /\ n.rx = m.rx /\ n.key_replay = m.key_replay
  BY <1>1 DEF Set, Clear, Machine, Same, Flag, PtkState
<1> HIDE DEF n
<1>3. /\ \A f \in {"Init", "PtkGroupInit", "GUpdateStationKeys", "MICVerified", "PTKRequest",
                   "PTK_valid", "update_snonce", "Disconnect"} :
           Is(n, f) <=> Is(m, f)
      /\ Is(n, "changed")
  BY <1>2 DEF Is
<1>4. Is(m, "DeauthenticationRequest") \/ m.ptk = "DISCONNECT"
  BY <1>1, Reasons
<1>5. m.rx = "pairwise" => ~ Is(m, "PTK_valid")
  BY <1>4, SoundIs DEF Frames, Urgent, Is
<1>6. Is(m, "PTK_valid") => ~ Is(m, "update_snonce")
  <2>1. m.ptk = "PTKINITNEGOTIATING" /\ Is(m, "update_snonce") => m.rx = "pairwise"
    BY SoundIs DEF Snonces
  <2> QED  BY <1>5, <2>1, SoundIs DEF Snonces
<1>7. Sound(n, s)
  <2>1. Counters(n)
    BY <1>2, <1>3, SoundIs DEF Counters, Late
  <2>2. Frames(n)
    BY <1>2, <1>3, <1>5, SoundIs DEF Frames
  <2>3. Snonces(n) /\ Pairwise(n)
    BY <1>2, <1>3, <1>6 DEF Snonces, Pairwise
  <2> QED  BY <1>2, <2>1, <2>2, <2>3 DEF Sound
<1>8. Entered([w EXCEPT !.m = n], w, s) /\ [w EXCEPT !.m = n].m = n
  BY <1>1, <1>2, <1>3, NewEntered
<1> QED  BY <1>1, <1>7, <1>8

LEMMA EnterAUTHENTICATION ==
  ASSUME NEW s, NEW w \in World(s), Sound(w.m, s), NEW ok, NextPtk(w.m, ok) = "AUTHENTICATION"
  PROVE  LET v == EnterPtk(w, s, "AUTHENTICATION", ok) IN Entered(v, w, s) /\ Sound(v.m, s)
<1> DEFINE m == w.m
           e == Set([m EXCEPT !.ptk = "AUTHENTICATION"], {"changed"})
           n == [Clear(e, {"PTK_valid", "AuthenticationRequest"}) EXCEPT !.PTK = 0]
<1>1. m \in Machine(s) /\ EnterPtk(w, s, "AUTHENTICATION", ok) = [w EXCEPT !.m = n]
  BY DEF EnterPtk, World
<1>2. /\ n \in Machine(s)
      /\ n.flags = (m.flags \cup {"changed"}) \ {"PTK_valid", "AuthenticationRequest"}
      /\ n.ptk = "AUTHENTICATION" /\ n.grp = m.grp /\ n.GTimeoutCtr = m.GTimeoutCtr
      /\ n.TimeoutCtr = m.TimeoutCtr /\ n.rx = m.rx /\ n.key_replay = m.key_replay
  BY <1>1 DEF Set, Clear, Machine, Keys, Flag, PtkState
<1> HIDE DEF n
<1>3. /\ \A f \in {"Init", "PtkGroupInit", "GUpdateStationKeys", "MICVerified", "PTKRequest",
                   "Disconnect"} : Is(n, f) <=> Is(m, f)
      /\ ~ Is(n, "PTK_valid") /\ Is(n, "changed")
  BY <1>2 DEF Is
<1>4. Sound(n, s)
  <2>1. Counters(n)
    BY <1>2, <1>3, SoundIs DEF Counters, Late
  <2>2. Frames(n)
    BY <1>2, <1>3, SoundIs DEF Frames
  <2>3. Snonces(n) /\ Pairwise(n)
    BY <1>2, <1>3 DEF Snonces, Pairwise
  <2> QED  BY <1>2, <2>1, <2>2, <2>3 DEF Sound
<1>5. Entered([w EXCEPT !.m = n], w, s) /\ [w EXCEPT !.m = n].m = n
  BY <1>1, <1>2, <1>3, NewEntered
<1> QED  BY <1>1, <1>4, <1>5

LEMMA EnterAUTHENTICATION2 ==
  ASSUME NEW s, NEW w \in World(s), Sound(w.m, s), NEW ok, NextPtk(w.m, ok) = "AUTHENTICATION2"
  PROVE  LET v == EnterPtk(w, s, "AUTHENTICATION2", ok) IN Entered(v, w, s) /\ Sound(v.m, s)
<1> DEFINE m == w.m
           e == Set([m EXCEPT !.ptk = "AUTHENTICATION2"], {"changed"})
           c == Clear(e, {"ReAuthenticationRequest"})
           n == AUTHENTICATION2(e, ok)
           k == m.key_replay
           q == [i \in DOMAIN k |-> [msg |-> "stale", key |-> 0]]
<1>1. m \in Machine(s) /\ EnterPtk(w, s, "AUTHENTICATION2", ok) = [w EXCEPT !.m = n]
  BY DEF EnterPtk, World
<1>2. /\ c \in Machine(s)
      /\ c.flags = (m.flags \cup {"changed"}) \ {"ReAuthenticationRequest"}
      /\ c.ptk = "AUTHENTICATION2" /\ c.grp = m.grp /\ c.GTimeoutCtr = m.GTimeoutCtr
      /\ c.TimeoutCtr = m.TimeoutCtr /\ c.rx = m.rx /\ c.key_replay = m.key_replay
  BY <1>1 DEF Set, Clear, Machine, Flag, PtkState
<1>3. n = IF ok THEN [c EXCEPT !.TimeoutCtr = 0, !.SNonce = 0, !.key_replay = q]
                ELSE Set(c, {"Disconnect"})
  BY <1>2 DEF AUTHENTICATION2
<1>4. q \in Seq(Sent(s)) /\ Len(q) = Len(m.key_replay)
  <2>1. k \in Seq(Sent(s)) /\ Len(k) \in Nat /\ DOMAIN k = 1 .. Len(k)
    BY <1>1 DEF Machine
  <2>2. [msg |-> "stale", key |-> 0] \in Sent(s)
    BY DEF Sent, Keys
  <2> HIDE DEF k
  <2> QED  BY <2>1, <2>2 DEF k
<1> HIDE DEF c, n, q
<1>5. /\ n \in Machine(s) /\ n.ptk = "AUTHENTICATION2" /\ n.grp = m.grp /\ n.rx = m.rx
      /\ n.GTimeoutCtr = m.GTimeoutCtr /\ Len(n.key_replay) = Len(m.key_replay)
      /\ \/ n.TimeoutCtr = 0 /\ n.SNonce = 0 /\ n.flags = c.flags
         \/ n.TimeoutCtr = m.TimeoutCtr /\ n.flags = c.flags \cup {"Disconnect"}
  <2>1. CASE ok
    BY <1>2, <1>3, <1>4, <2>1 DEF Machine, Keys
  <2>2. CASE ~ ok
    <3>1. {"Disconnect"} \in SUBSET Flag
      BY DEF Flag
    <3>2. n \in Machine(s) /\ Same(n, c) /\ n.flags = c.flags \cup {"Disconnect"}
      BY <1>2, <1>3, <2>2, <3>1, SetFields
    <3> QED  BY <1>2, <3>2 DEF Same
  <2> QED  BY <2>1, <2>2
<1>6. /\ \A f \in {"Init", "PtkGroupInit", "GUpdateStationKeys", "MICVerified", "PTKRequest",
                   "PTK_valid", "update_snonce"} : Is(n, f) <=> Is(m, f)
      /\ n.TimeoutCtr = 0 \/ (n.TimeoutCtr = m.TimeoutCtr /\ Is(n, "Disconnect"))
      /\ n.SNonce = 0 \/ Is(n, "Disconnect")
      /\ Is(n, "changed")
  BY <1>2, <1>5 DEF Is
<1>7. Is(m, "ReAuthenticationRequest") \/ m.ptk = "AUTHENTICATION"
  BY <1>1, Reasons
<1>8. m.rx = "pairwise" => ~ Is(m, "PTK_valid")
  BY <1>7, SoundIs DEF Frames, Urgent, Is
<1>9. Is(m, "PTK_valid") => ~ Is(m, "update_snonce")
  <2>1. m.ptk = "PTKINITNEGOTIATING" /\ Is(m, "update_snonce") => m.rx = "pairwise"
    BY SoundIs DEF Snonces
  <2> QED  BY <1>8, <2>1, SoundIs DEF Snonces
<1>10. Sound(n, s)
  <2>1. Counters(n)
    BY <1>5, <1>6, SoundIs, CountAssumption DEF Counters, Late
  <2>2. Frames(n)
    BY <1>5, <1>6, <1>8, SoundIs DEF Frames
  <2>3. Snonces(n) /\ Pairwise(n)
    BY <1>5, <1>6, <1>9 DEF Snonces, Pairwise
  <2> QED  BY <1>5, <2>1, <2>2, <2>3 DEF Sound
<1>11. Entered([w EXCEPT !.m = n], w, s) /\ [w EXCEPT !.m = n].m = n
  BY <1>5, <1>6, NewEntered
<1> QED  BY <1>1, <1>10, <1>11

LEMMA EnterINITPSK ==
  ASSUME NEW s, NEW w \in World(s), Sound(w.m, s), NEW ok, NextPtk(w.m, ok) = "INITPSK"
  PROVE  LET v == EnterPtk(w, s, "INITPSK", ok) IN Entered(v, w, s) /\ Sound(v.m, s)
<1> DEFINE m == w.m
           n == Set([m EXCEPT !.ptk = "INITPSK"], {"changed"})
<1>1. m \in Machine(s) /\ EnterPtk(w, s, "INITPSK", ok) = [w EXCEPT !.m = n]
  BY DEF EnterPtk, World
<1>2. /\ n \in Machine(s) /\ n.flags = m.flags \cup {"changed"}
      /\ n.ptk = "INITPSK" /\ n.grp = m.grp /\ n.GTimeoutCtr = m.GTimeoutCtr
      /\ n.TimeoutCtr = m.TimeoutCtr /\ n.rx = m.rx /\ n.key_replay = m.key_replay
      /\ n.SNonce = m.SNonce
  BY <1>1 DEF Set, Machine, Flag, PtkState
<1> HIDE DEF n
<1>3. /\ \A f \in {"Init", "PtkGroupInit", "GUpdateStationKeys", "MICVerified", "PTKRequest",
                   "Disconnect", "PTK_valid", "update_snonce"} : Is(n, f) <=> Is(m, f)
      /\ Is(n, "changed")
  BY <1>2 DEF Is
<1>4. m.ptk = "AUTHENTICATION2" /\ ~ Is(m, "Disconnect")
  BY <1>1, Reasons
<1>5. m.TimeoutCtr = 0 /\ m.SNonce = 0
  BY <1>4, SoundIs DEF Counters
<1>6. Sound(n, s)
  <2>1. Counters(n)
    BY <1>2, <1>3, <1>5, SoundIs, CountAssumption DEF Counters
  <2>2. Frames(n)
    BY <1>2, <1>3, <1>4, SoundIs DEF Frames
  <2>3. Snonces(n) /\ Pairwise(n)
    BY <1>2, <1>3, <1>4, SoundIs DEF Snonces, Pairwise
  <2> QED  BY <1>2, <2>1, <2>2, <2>3 DEF Sound
<1>7. Entered([w EXCEPT !.m = n], w, s) /\ [w EXCEPT !.m = n].m = n
  BY <1>2, <1>3, NewEntered
<1> QED  BY <1>1, <1>6, <1>7

LEMMA EnterPTKSTART ==
  ASSUME NEW s, NEW w \in World(s), Sound(w.m, s), NEW ok, NextPtk(w.m, ok) = "PTKSTART"
  PROVE  LET v == EnterPtk(w, s, "PTKSTART", ok) IN Entered(v, w, s) /\ Sound(v.m, s)
<1> DEFINE m == w.m
           e == Set([m EXCEPT !.ptk = "PTKSTART"], {"changed"})
           d == Clear(e, {"PTKRequest", "TimeoutEvt"})
           c == [d EXCEPT !.TimeoutCtr = @ + 1, !.alt = {}, !.peer = 0]
           n == PTKSTART(e)
<1>1. m \in Machine(s) /\ EnterPtk(w, s, "PTKSTART", ok) = [w EXCEPT !.m = n]
  BY DEF EnterPtk, World
<1>2. /\ c \in Machine(s)
      /\ c.flags = (m.flags \cup {"changed"}) \ {"PTKRequest", "TimeoutEvt"}
      /\ c.ptk = "PTKSTART" /\ c.grp = m.grp /\ c.GTimeoutCtr = m.GTimeoutCtr
      /\ c.TimeoutCtr = m.TimeoutCtr + 1 /\ c.rx = m.rx /\ c.key_replay = m.key_replay
      /\ c.SNonce = m.SNonce
  <2>1. /\ d \in Machine(s)
        /\ d.flags = (m.flags \cup {"changed"}) \ {"PTKRequest", "TimeoutEvt"}
        /\ d.ptk = "PTKSTART" /\ d.grp = m.grp /\ d.GTimeoutCtr = m.GTimeoutCtr
        /\ d.TimeoutCtr = m.TimeoutCtr /\ d.rx = m.rx /\ d.key_replay = m.key_replay
        /\ d.SNonce = m.SNonce
    BY <1>1 DEF Set, Clear, Machine, Flag, PtkState
  <2> HIDE DEF d
  <2>2. d.TimeoutCtr + 1 \in Nat
    BY <2>1 DEF Machine
  <2> QED  BY <2>1, <2>2 DEF Machine, Keys
<1>3. n = IF c.TimeoutCtr > UPDATE_COUNT THEN c ELSE wpa_send_eapol(c, "1/4")
  BY DEF PTKSTART
<1> HIDE DEF c, n
<1>4. /\ n \in Machine(s) /\ n.flags = c.flags /\ n.ptk = c.ptk /\ n.grp = c.grp
      /\ n.GTimeoutCtr = c.GTimeoutCtr /\ n.TimeoutCtr = c.TimeoutCtr /\ n.rx = c.rx
      /\ n.SNonce = c.SNonce /\ Len(n.key_replay) <= MAX_RETRIES
  <2>1. CASE c.TimeoutCtr > UPDATE_COUNT
    BY <1>2, <1>3, <2>1, SoundIs DEF Counters
  <2>2. CASE ~ c.TimeoutCtr > UPDATE_COUNT
    <3> DEFINE p == wpa_send_eapol(c, "1/4")
    <3>1. /\ p \in Machine(s) /\ p.flags = c.flags /\ Len(p.key_replay) <= MAX_RETRIES
          /\ Same(p, [c EXCEPT !.key_replay = p.key_replay, !.timeouts = p.timeouts])
      BY <1>2, SendFields
    <3>2. n = p
      BY <1>3, <2>2
    <3> HIDE DEF p
    <3> QED  BY <1>2, <3>1, <3>2 DEF Same, Machine
  <2> QED  BY <2>1, <2>2
<1>5. /\ \A f \in {"Init", "PtkGroupInit", "GUpdateStationKeys", "MICVerified",
                   "Disconnect", "PTK_valid", "update_snonce"} : Is(n, f) <=> Is(m, f)
      /\ Is(n, "changed") /\ ~ Is(n, "PTKRequest")
  BY <1>2, <1>4 DEF Is
<1>6. /\ ~ Is(m, "Disconnect")
      /\ \/ Is(m, "PTKRequest") \/ m.ptk = "INITPSK"
         \/ m.ptk = "PTKSTART" /\ m.rx # "pairwise" /\ ~ Expired(m)
         \/ m.ptk = "PTKCALCNEGOTIATING" /\ m.rx # "pairwise"
  BY <1>1, Reasons
<1>7. m.TimeoutCtr + 1 <= UPDATE_COUNT \/ (m.TimeoutCtr + 1 = UPDATE_COUNT + 1 /\ m.rx # "pairwise")
  <2>1. m.TimeoutCtr <= UPDATE_COUNT
    BY <1>6, SoundIs, CountAssumption DEF Counters, Late, Expired
  <2>2. m.rx = "pairwise" => m.TimeoutCtr = 0
    BY <1>6, SoundIs DEF Counters, Frames
  <2> QED  BY <2>1, <2>2, SoundIs, CountAssumption
<1>8. m.rx = "pairwise" => ~ Is(m, "PTK_valid") /\ m.SNonce = 0
  BY <1>6, SoundIs DEF Frames, Counters
<1>9. Is(m, "PTK_valid") => ~ Is(m, "update_snonce")
  <2>1. m.ptk = "PTKINITNEGOTIATING" /\ Is(m, "update_snonce") => m.rx = "pairwise"
    BY SoundIs DEF Snonces
  <2> QED  BY <1>8, <2>1, SoundIs DEF Snonces
<1>10. Sound(n, s)
  <2>1. Counters(n)
    <3>1. n.TimeoutCtr <= UPDATE_COUNT \/ (n.TimeoutCtr = UPDATE_COUNT + 1 /\ Late(n))
      BY <1>2, <1>4, <1>5, <1>7 DEF Late
    <3> QED  BY <1>2, <1>4, <3>1, SoundIs DEF Counters
  <2>2. Frames(n)
    BY <1>2, <1>4, <1>5, <1>8, SoundIs DEF Frames
  <2>3. Snonces(n) /\ Pairwise(n)
    BY <1>2, <1>4, <1>5, <1>9 DEF Snonces, Pairwise
  <2> QED  BY <1>4, <2>1, <2>2, <2>3 DEF Sound
<1>11. Entered([w EXCEPT !.m = n], w, s) /\ [w EXCEPT !.m = n].m = n
  BY <1>2, <1>4, <1>5, NewEntered
<1> QED  BY <1>1, <1>10, <1>11

LEMMA EnterPTKCALCNEGOTIATING ==
  ASSUME NEW s, NEW w \in World(s), Sound(w.m, s), NEW ok, NextPtk(w.m, ok) = "PTKCALCNEGOTIATING"
  PROVE  LET v == EnterPtk(w, s, "PTKCALCNEGOTIATING", ok) IN Entered(v, w, s) /\ Sound(v.m, s)
<1> DEFINE m == w.m
           e == Set([m EXCEPT !.ptk = "PTKCALCNEGOTIATING"], {"changed"})
           c == [Clear(e, {"update_snonce"}) EXCEPT !.rx = "none"]
           n == PTKCALCNEGOTIATING(e)
<1>1. m \in Machine(s) /\ EnterPtk(w, s, "PTKCALCNEGOTIATING", ok) = [w EXCEPT !.m = n]
  BY DEF EnterPtk, World
<1>2. /\ c \in Machine(s)
      /\ c.flags = (m.flags \cup {"changed"}) \ {"update_snonce"}
      /\ c.ptk = "PTKCALCNEGOTIATING" /\ c.grp = m.grp /\ c.GTimeoutCtr = m.GTimeoutCtr
      /\ c.TimeoutCtr = m.TimeoutCtr /\ c.rx = "none" /\ c.key_replay = m.key_replay
      /\ c.SNonce = m.SNonce
  BY <1>1 DEF Set, Clear, Machine, Flag, PtkState
<1>3. n = IF c.SNonce # 0
          THEN [Set(c, {"MICVerified", "PTK_valid"}) EXCEPT !.PTK = c.SNonce, !.timeouts = 0] ELSE c
  BY DEF PTKCALCNEGOTIATING
<1> HIDE DEF c, n
<1>4. /\ n \in Machine(s) /\ n.ptk = c.ptk /\ n.grp = c.grp /\ n.GTimeoutCtr = c.GTimeoutCtr
      /\ n.TimeoutCtr = c.TimeoutCtr /\ n.rx = c.rx /\ n.key_replay = c.key_replay
      /\ n.flags = c.flags \/ (c.SNonce # 0 /\ n.flags = c.flags \cup {"MICVerified", "PTK_valid"})
  BY <1>2, <1>3 DEF Machine, Set, Flag
<1>5. /\ \A f \in {"Init", "PtkGroupInit", "GUpdateStationKeys", "PTKRequest"} : Is(n, f) <=> Is(m, f)
      /\ Is(n, "changed") /\ ~ Is(n, "update_snonce") /\ (Is(m, "MICVerified") => Is(n, "MICVerified"))
      /\ Is(n, "PTK_valid") => Is(m, "PTK_valid") \/ m.SNonce # 0
  BY <1>2, <1>4 DEF Is
<1>6. /\ ~ Is(m, "Disconnect")
      /\ \/ m.ptk \in {"PTKSTART", "PTKCALCNEGOTIATING"} /\ m.rx = "pairwise"
         \/ m.ptk = "PTKINITNEGOTIATING" /\ Is(m, "update_snonce")
  BY <1>1, Reasons
<1>7. Is(n, "PTK_valid") => NoFirst(n)
  <2>1. Is(n, "PTK_valid") => NoFirst(m)
    BY <1>5, <1>6, SoundIs DEF Frames, Snonces
  <2> QED  BY <1>2, <1>4, <2>1 DEF NoFirst
<1>8. Sound(n, s)
  <2>1. Counters(n)
    <3>1. ~ Late(m)
      BY <1>6 DEF Late
    <3> QED  BY <1>2, <1>4, <3>1, SoundIs DEF Counters
  <2>2. Frames(n)
    <3>1. n.rx = "none" /\ n.ptk = "PTKCALCNEGOTIATING"
      BY <1>2, <1>4
    <3> QED  BY <1>7, <3>1 DEF Frames
  <2>3. Snonces(n) /\ Pairwise(n)
    BY <1>2, <1>4, <1>5 DEF Snonces, Pairwise
  <2> QED  BY <1>4, <2>1, <2>2, <2>3 DEF Sound
<1>9. Entered([w EXCEPT !.m = n], w, s) /\ [w EXCEPT !.m = n].m = n
  BY <1>2, <1>4, <1>5, NewEntered
<1> QED  BY <1>1, <1>8, <1>9

LEMMA EnterPTKCALCNEGOTIATING2 ==
  ASSUME NEW s, NEW w \in World(s), Sound(w.m, s), NEW ok, NextPtk(w.m, ok) = "PTKCALCNEGOTIATING2"
  PROVE  LET v == EnterPtk(w, s, "PTKCALCNEGOTIATING2", ok) IN Entered(v, w, s) /\ Sound(v.m, s)
<1> DEFINE m == w.m
           e == Set([m EXCEPT !.ptk = "PTKCALCNEGOTIATING2"], {"changed"})
           n == [e EXCEPT !.TimeoutCtr = 0]
<1>1. m \in Machine(s) /\ EnterPtk(w, s, "PTKCALCNEGOTIATING2", ok) = [w EXCEPT !.m = n]
  BY DEF EnterPtk, World
<1>2. /\ n \in Machine(s) /\ n.flags = m.flags \cup {"changed"}
      /\ n.ptk = "PTKCALCNEGOTIATING2" /\ n.grp = m.grp /\ n.GTimeoutCtr = m.GTimeoutCtr
      /\ n.TimeoutCtr = 0 /\ n.rx = m.rx /\ n.key_replay = m.key_replay
  BY <1>1 DEF Set, Machine, Flag, PtkState
<1> HIDE DEF n
<1>3. /\ \A f \in {"Init", "PtkGroupInit", "GUpdateStationKeys", "MICVerified", "PTKRequest",
                   "update_snonce"} : Is(n, f) <=> Is(m, f)
      /\ Is(n, "changed")
  BY <1>2 DEF Is
<1>4. m.ptk = "PTKCALCNEGOTIATING" /\ Is(m, "MICVerified")
  BY <1>1, Reasons
<1>5. m.rx # "pairwise" /\ ~ Is(m, "update_snonce")
  BY <1>4, SoundIs DEF Frames, Snonces
<1>6. Sound(n, s)
  <2>1. Counters(n)
    BY <1>2, SoundIs, CountAssumption DEF Counters
  <2>2. Frames(n)
    BY <1>2, <1>3, <1>5, SoundIs DEF Frames
  <2>3. Snonces(n) /\ Pairwise(n)
    BY <1>2, <1>3, <1>5 DEF Snonces, Pairwise
  <2> QED  BY <1>2, <2>1, <2>2, <2>3 DEF Sound
<1>7. Entered([w EXCEPT !.m = n], w, s) /\ [w EXCEPT !.m = n].m = n
  BY <1>2, <1>3, NewEntered
<1> QED  BY <1>1, <1>6, <1>7

LEMMA EnterPTKINITNEGOTIATING ==
  ASSUME NEW s, NEW w \in World(s), Sound(w.m, s), NEW ok, NextPtk(w.m, ok) = "PTKINITNEGOTIATING"
  PROVE  LET v == EnterPtk(w, s, "PTKINITNEGOTIATING", ok) IN Entered(v, w, s) /\ Sound(v.m, s)
<1> DEFINE m == w.m
           e == Set([m EXCEPT !.ptk = "PTKINITNEGOTIATING"], {"changed"})
           d == Clear(e, {"TimeoutEvt"})
           c == [d EXCEPT !.TimeoutCtr = @ + 1]
           n == PTKINITNEGOTIATING(e)
<1>1. m \in Machine(s) /\ EnterPtk(w, s, "PTKINITNEGOTIATING", ok) = [w EXCEPT !.m = n]
  BY DEF EnterPtk, World
<1>2. /\ c \in Machine(s) /\ c.flags = (m.flags \cup {"changed"}) \ {"TimeoutEvt"}
      /\ c.ptk = "PTKINITNEGOTIATING" /\ c.grp = m.grp /\ c.GTimeoutCtr = m.GTimeoutCtr
      /\ c.TimeoutCtr = m.TimeoutCtr + 1 /\ c.rx = m.rx /\ c.key_replay = m.key_replay
  <2>1. /\ d \in Machine(s) /\ d.flags = (m.flags \cup {"changed"}) \ {"TimeoutEvt"}
        /\ d.ptk = "PTKINITNEGOTIATING" /\ d.grp = m.grp /\ d.GTimeoutCtr = m.GTimeoutCtr
        /\ d.TimeoutCtr = m.TimeoutCtr /\ d.rx = m.rx /\ d.key_replay = m.key_replay
    BY <1>1 DEF Set, Clear, Machine, Flag, PtkState
  <2> HIDE DEF d
  <2>2. d.TimeoutCtr + 1 \in Nat
    BY <2>1 DEF Machine
  <2> QED  BY <2>1, <2>2 DEF Machine
<1>3. n = IF c.TimeoutCtr > UPDATE_COUNT THEN c ELSE wpa_send_eapol(c, "3/4")
  BY DEF PTKINITNEGOTIATING
<1> HIDE DEF c, n
<1>4. /\ n \in Machine(s) /\ n.flags = c.flags /\ n.ptk = c.ptk /\ n.grp = c.grp
      /\ n.GTimeoutCtr = c.GTimeoutCtr /\ n.TimeoutCtr = c.TimeoutCtr /\ n.rx = c.rx
      /\ Len(n.key_replay) <= MAX_RETRIES
      /\ n.key_replay # <<>> \/ n.TimeoutCtr > UPDATE_COUNT
  <2>1. CASE c.TimeoutCtr > UPDATE_COUNT
    BY <1>2, <1>3, <2>1, SoundIs DEF Counters
  <2>2. CASE ~ c.TimeoutCtr > UPDATE_COUNT
    <3> DEFINE p == wpa_send_eapol(c, "3/4")
    <3>1. /\ p \in Machine(s) /\ p.flags = c.flags /\ Len(p.key_replay) <= MAX_RETRIES
          /\ Same(p, [c EXCEPT !.key_replay = p.key_replay, !.timeouts = p.timeouts])
          /\ p.key_replay # <<>>
      BY <1>2, SendFields
    <3>2. n = p
      BY <1>3, <2>2
    <3> HIDE DEF p
    <3> QED  BY <1>2, <3>1, <3>2 DEF Same, Machine
  <2> QED  BY <2>1, <2>2
<1>5. /\ \A f \in {"Init", "PtkGroupInit", "GUpdateStationKeys", "MICVerified", "PTKRequest",
                   "Disconnect", "PTK_valid", "update_snonce"} : Is(n, f) <=> Is(m, f)
      /\ Is(n, "changed")
  BY <1>2, <1>4 DEF Is
<1>6. /\ ~ Is(m, "Disconnect") /\ Calm(m)
      /\ \/ m.ptk = "PTKCALCNEGOTIATING2"
         \/ /\ m.ptk = "PTKINITNEGOTIATING" /\ ~ Is(m, "update_snonce")
            /\ ~ (m.rx = "pairwise" /\ Is(m, "MICVerified")) /\ ~ Expired(m)
  BY <1>1, Reasons
<1>7. ~ Is(m, "update_snonce") /\ m.rx # "pairwise"
  BY <1>6, SoundIs DEF Frames, Snonces
<1>8. m.TimeoutCtr + 1 <= UPDATE_COUNT + 1
  BY <1>6, SoundIs, CountAssumption DEF Counters, Expired
<1>9. Sound(n, s)
  <2>1. Counters(n)
    <3>1. ~ Is(m, "PTKRequest")
      BY <1>6 DEF Calm, Urgent, Is
    <3>2. Late(n)
      BY <1>2, <1>4, <1>5, <1>7, <3>1 DEF Late
    <3>3. n.TimeoutCtr <= UPDATE_COUNT \/ n.TimeoutCtr = UPDATE_COUNT + 1
      BY <1>2, <1>4, <1>8, SoundIs, CountAssumption
    <3> QED  BY <1>2, <1>4, <3>2, <3>3, SoundIs DEF Counters
  <2>2. Frames(n)
    BY <1>2, <1>4, <1>5, <1>7, SoundIs DEF Frames
  <2>3. Snonces(n) /\ Pairwise(n)
    BY <1>2, <1>4, <1>5, <1>7 DEF Snonces, Pairwise
  <2> QED  BY <1>4, <2>1, <2>2, <2>3 DEF Sound
<1>10. Entered([w EXCEPT !.m = n], w, s) /\ [w EXCEPT !.m = n].m = n
  BY <1>2, <1>4, <1>5, NewEntered
<1> QED  BY <1>1, <1>9, <1>10

LEMMA EnterPTKINITDONE ==
  ASSUME NEW s, NEW w \in World(s), Sound(w.m, s), NEW ok, NextPtk(w.m, ok) = "PTKINITDONE"
  PROVE  LET v == EnterPtk(w, s, "PTKINITDONE", ok) IN Entered(v, w, s) /\ Sound(v.m, s)
<1> DEFINE m == w.m
           e == Set([m EXCEPT !.ptk = "PTKINITDONE"], {"changed"})
           c == [e EXCEPT !.rx = "none"]
           n == PTKINITDONE(e, s, ok)
           F == IF Version[s] = "WPA" THEN {"PInitAKeys"} ELSE {}
<1>1. m \in Machine(s) /\ EnterPtk(w, s, "PTKINITDONE", ok) = [w EXCEPT !.m = n]
  BY DEF EnterPtk, World
<1>2. /\ c \in Machine(s) /\ c.flags = m.flags \cup {"changed"}
      /\ c.ptk = "PTKINITDONE" /\ c.grp = m.grp /\ c.GTimeoutCtr = m.GTimeoutCtr
      /\ c.TimeoutCtr = m.TimeoutCtr /\ c.rx = "none" /\ c.key_replay = m.key_replay
      /\ c.PTK = m.PTK /\ c.peer = m.peer
  BY <1>1 DEF Set, Machine, Flag, PtkState
<1>3. n = IF ok THEN Set([c EXCEPT !.tk = c.PTK], F) ELSE wpa_sta_disconnect(c)
  BY DEF PTKINITDONE
<1> HIDE DEF c, n
<1>4. /\ n \in Machine(s) /\ n.ptk = c.ptk /\ n.grp = c.grp /\ n.GTimeoutCtr = c.GTimeoutCtr
      /\ n.TimeoutCtr = c.TimeoutCtr /\ n.rx = c.rx /\ n.key_replay = c.key_replay
      /\ \/ n.tk = c.PTK /\ n.peer = c.peer /\ n.flags = c.flags \cup F
         \/ /\ n.tk = 0
            /\ n.flags = ((c.flags \ {"PTK_valid"}) \cup {"DeauthenticationRequest", "changed"})
                           \ {"WLAN_STA_ASSOC"}
  <2>1. CASE ok
    <3> DEFINE d == [c EXCEPT !.tk = c.PTK]
    <3>1. /\ d \in Machine(s) /\ d.flags = c.flags
          /\ Same(d, [c EXCEPT !.tk = c.PTK])
      BY <1>2 DEF Machine, Same
    <3>2. F \in SUBSET Flag
      BY DEF Flag
    <3> HIDE DEF d, F
    <3>3. Set(d, F) \in Machine(s) /\ Same(Set(d, F), d) /\ Set(d, F).flags = d.flags \cup F
      BY <3>1, <3>2, SetFields
    <3>4. n = Set(d, F)
      BY <1>3, <2>1 DEF d
    <3> QED  BY <1>2, <3>1, <3>3, <3>4 DEF Same, Machine
  <2>2. CASE ~ ok
    <3> DEFINE d == wpa_sta_disconnect(c)
    <3>1. /\ d \in Machine(s) /\ Same(d, [c EXCEPT !.PTK = 0, !.tk = 0, !.peer = 0])
          /\ d.flags = ((c.flags \ {"PTK_valid"}) \cup {"DeauthenticationRequest", "changed"})
                            \ {"WLAN_STA_ASSOC"}
      BY <1>2, DisconnectFields
    <3>2. n = d
      BY <1>3, <2>2
    <3> HIDE DEF d
    <3> QED  BY <1>2, <3>1, <3>2 DEF Same, Machine
  <2> QED  BY <2>1, <2>2
<1>5. /\ \A f \in {"Init", "PtkGroupInit", "GUpdateStationKeys", "PTKRequest", "MICVerified",
                   "update_snonce"} :
           Is(n, f) <=> Is(m, f)
      /\ Is(n, "changed")
  BY <1>2, <1>4 DEF Is
<1>6. /\ ~ Is(m, "Disconnect") /\ m.ptk = "PTKINITNEGOTIATING" /\ ~ Is(m, "update_snonce")
      /\ m.rx = "pairwise" /\ Is(m, "MICVerified")
  BY <1>1, Reasons
<1>7. Sound(n, s)
  <2>1. Counters(n)
    <3>1. ~ Late(m)
      BY <1>6 DEF Late
    <3> QED  BY <1>2, <1>4, <3>1, SoundIs DEF Counters
  <2>2. Frames(n)
    BY <1>2, <1>4 DEF Frames
  <2>3. Snonces(n) /\ Pairwise(n)
    <3>1. m.PTK = m.peer
      BY <1>6, SoundIs DEF Pairwise
    <3> QED  BY <1>2, <1>4, <1>5, <1>6, <3>1 DEF Snonces, Pairwise
  <2> QED  BY <1>4, <2>1, <2>2, <2>3 DEF Sound
<1>8. Entered([w EXCEPT !.m = n], w, s) /\ [w EXCEPT !.m = n].m = n
  BY <1>2, <1>4, <1>5, NewEntered
<1> QED  BY <1>1, <1>7, <1>8

\* A step of WPA_PTK.
LEMMA StepPtkSound ==
  ASSUME NEW s, NEW w \in World(s), Sound(w.m, s), NEW ok
  PROVE  LET v == StepPtk(w, s, ok)
         IN  /\ Sound(v.m, s)
             /\ v = w \/ Entered(v, w, s)
             /\ NextPtk(w.m, ok) = "stay" => v = w
             /\ NextPtk(w.m, ok) # "stay" => Entered(v, w, s)
<1>1. w.m \in Machine(s)
  BY DEF World
<1>2. NextPtk(w.m, ok) \in PtkState \cup {"stay"}
  BY <1>1, Reasons
<1>3. CASE NextPtk(w.m, ok) = "stay"
  BY <1>3 DEF StepPtk
<1>4. CASE NextPtk(w.m, ok) # "stay"
  <2> DEFINE st == NextPtk(w.m, ok)
             v == EnterPtk(w, s, st, ok)
  <2>1. StepPtk(w, s, ok) = v
    BY <1>4 DEF StepPtk
  <2>2. Entered(v, w, s) /\ Sound(v.m, s)
    <3> HIDE DEF v
    <3>1. CASE st \in {"INITIALIZE", "DISCONNECT", "DISCONNECTED", "AUTHENTICATION"}
      BY <3>1, EnterINITIALIZE, EnterDISCONNECT, EnterDISCONNECTED, EnterAUTHENTICATION DEF v
    <3>2. CASE st \in {"AUTHENTICATION2", "INITPSK", "PTKSTART"}
      BY <3>2, EnterAUTHENTICATION2, EnterINITPSK, EnterPTKSTART DEF v
    <3>3. CASE st \in {"PTKCALCNEGOTIATING", "PTKCALCNEGOTIATING2"}
      BY <3>3, EnterPTKCALCNEGOTIATING, EnterPTKCALCNEGOTIATING2 DEF v
    <3>4. CASE st \in {"PTKINITNEGOTIATING", "PTKINITDONE"}
      BY <3>4, EnterPTKINITNEGOTIATING, EnterPTKINITDONE DEF v
    <3> QED  BY <1>2, <1>4, <3>1, <3>2, <3>3, <3>4 DEF PtkState
  <2> QED  BY <1>4, <2>1, <2>2
<1> QED  BY <1>3, <1>4
-----------------------------------------------------------------------------
(***************************************************************************)
(* The states of WPA_PTK_GROUP.                                            *)
(***************************************************************************)
\* Flags that the group key handshake does not touch.
Kept == {"Init", "DeauthenticationRequest", "AuthenticationRequest", "ReAuthenticationRequest",
         "PTKRequest", "MICVerified", "PTK_valid", "update_snonce", "prev_key_replay"}

\* The part of a machine that WPA_PTK looks at stays.
Regrouped(n, m) ==
  /\ n.ptk = m.ptk /\ n.TimeoutCtr = m.TimeoutCtr /\ n.SNonce = m.SNonce
  /\ n.PTK = m.PTK /\ n.tk = m.tk /\ n.peer = m.peer
  /\ n.rx = "pairwise" <=> m.rx = "pairwise"
  /\ n.key_replay = m.key_replay \/
       (n.key_replay # <<>> /\ Len(n.key_replay) <= MAX_RETRIES /\ (NoFirst(m) => NoFirst(n)))
  /\ \A f \in Kept : Is(n, f) <=> Is(m, f)
  /\ Is(m, "Disconnect") => Is(n, "Disconnect")

LEMMA RegroupedSound ==
  ASSUME NEW s, NEW m, NEW n \in Machine(s), Sound(m, s), Regrouped(n, m), n.rx # "group",
         n.GTimeoutCtr <= UPDATE_COUNT + 1,
         n.grp \in {"IDLE", "REKEYESTABLISHED"} => n.GTimeoutCtr = 0
  PROVE  Sound(n, s)
<1>1. \A f \in Kept : Is(n, f) <=> Is(m, f)
  BY DEF Regrouped
<1>2. /\ Is(n, "Init") <=> Is(m, "Init")
      /\ Is(n, "DeauthenticationRequest") <=> Is(m, "DeauthenticationRequest")
      /\ Is(n, "AuthenticationRequest") <=> Is(m, "AuthenticationRequest")
      /\ Is(n, "ReAuthenticationRequest") <=> Is(m, "ReAuthenticationRequest")
      /\ Is(n, "PTKRequest") <=> Is(m, "PTKRequest")
      /\ Is(n, "MICVerified") <=> Is(m, "MICVerified")
      /\ Is(n, "PTK_valid") <=> Is(m, "PTK_valid")
      /\ Is(n, "update_snonce") <=> Is(m, "update_snonce")
      /\ Is(n, "prev_key_replay") <=> Is(m, "prev_key_replay")
  BY <1>1 DEF Kept
<1>3. n.flags \cap Urgent = {} <=> m.flags \cap Urgent = {}
  BY <1>2 DEF Urgent, Is
<1>4. NoFirst(m) => NoFirst(n)
  BY DEF Regrouped, NoFirst
<1>5. Counters(n)
  <2>1. Late(m) => Late(n)
    BY <1>2 DEF Late, Regrouped
  <2> QED  BY <2>1, SoundIs DEF Counters, Regrouped
<1>6. Frames(n)
  BY <1>2, <1>3, <1>4, SoundIs DEF Frames, Regrouped
<1>7. Snonces(n)
  BY <1>2, <1>3, <1>4, SoundIs DEF Snonces, Regrouped
<1>8. Pairwise(n)
  BY <1>2, SoundIs DEF Pairwise, Regrouped
<1> QED  BY <1>5, <1>6, <1>7, <1>8 DEF Sound

\* What SM_STEP(WPA_PTK_GROUP) enters, and why.
LEMMA GroupReasons ==
  ASSUME NEW s, NEW m, Sound(m, s)
  PROVE  LET st == NextGroup(m)
         IN  /\ st \in PtkGroupState \cup {"stay"}
             /\ m.rx = "group" => st = "REKEYESTABLISHED"
             /\ st = "REKEYESTABLISHED" => m.rx = "group"
             /\ Is(m, "Init") => st = "IDLE"
             /\ st = "REKEYNEGOTIATING" =>
                  m.GTimeoutCtr <= UPDATE_COUNT /\ m.grp \in {"IDLE", "REKEYNEGOTIATING"}
             /\ st = "KEYERROR" => m.grp = "REKEYNEGOTIATING" /\ m.GTimeoutCtr > UPDATE_COUNT
             /\ st = "stay" =>
                  /\ ~ Is(m, "PtkGroupInit") /\ ~ Is(m, "Init")
                  /\ m.grp \in {"IDLE", "REKEYNEGOTIATING"} /\ m.GTimeoutCtr <= UPDATE_COUNT
                  /\ m.grp = "REKEYNEGOTIATING" => ~ Is(m, "TimeoutEvt")
<1>1. m.grp \in PtkGroupState /\ m.GTimeoutCtr \in Nat
  BY SoundIs DEF Machine
<1>2. CASE m.flags \cap {"Init", "PtkGroupInit"} # {}
  <2>1. NextGroup(m) = "IDLE"
    BY <1>2 DEF NextGroup
  <2>2. m.rx # "group"
    BY <1>2, SoundIs DEF Frames, Is
  <2> QED  BY <2>1, <2>2 DEF PtkGroupState
<1>3. CASE m.flags \cap {"Init", "PtkGroupInit"} = {}
  <2>1. ~ Is(m, "Init") /\ ~ Is(m, "PtkGroupInit")
    BY <1>3 DEF Is
  <2>2. m.rx = "group" => m.grp = "REKEYNEGOTIATING" /\ Is(m, "MICVerified")
    BY SoundIs DEF Frames
  <2>3. m.grp = "IDLE" => m.GTimeoutCtr = 0 /\ m.GTimeoutCtr <= UPDATE_COUNT
    BY SoundIs, CountAssumption DEF Counters
  <2>4. CASE m.grp = "REKEYNEGOTIATING"
    <3>1. NextGroup(m) = IF m.rx = "group" /\ Is(m, "MICVerified") THEN "REKEYESTABLISHED"
                         ELSE IF m.GTimeoutCtr > UPDATE_COUNT THEN "KEYERROR"
                         ELSE IF Is(m, "TimeoutEvt") THEN "REKEYNEGOTIATING" ELSE "stay"
      BY <1>3, <2>4 DEF NextGroup
    <3> QED  BY <1>1, <2>1, <2>2, <2>4, <3>1, CountAssumption DEF PtkGroupState
  <2>5. CASE m.grp = "IDLE"
    BY <1>3, <2>1, <2>2, <2>3, <2>5 DEF NextGroup, PtkGroupState
  <2>6. CASE m.grp \notin {"IDLE", "REKEYNEGOTIATING"}
    BY <1>3, <2>1, <2>2, <2>6 DEF NextGroup, PtkGroupState
  <2> QED  BY <2>4, <2>5, <2>6
<1> QED  BY <1>2, <1>3

\* What entering a state of the group key handshake does.
Renewed(v, w, s) ==
  /\ v \in World(s) /\ Regrouped(v.m, w.m) /\ Ended(v, w) /\ v.m.rx # "group"
  /\ v.m.GTimeoutCtr <= UPDATE_COUNT + 1
  /\ v.m.grp \in {"IDLE", "REKEYESTABLISHED"} => v.m.GTimeoutCtr = 0
  /\ ~ Is(w.m, "Init") => Is(v.m, "changed")

\* SM_ENTER: the name of the state and the flag changed.
LEMMA EnterGroupFields ==
  ASSUME NEW s, NEW w \in World(s), NEW st \in PtkGroupState
  PROVE  LET n == Set([w.m EXCEPT !.grp = st], {"changed"})
             e == [w EXCEPT !.m = n]
         IN  /\ n \in Machine(s) /\ n.grp = st /\ n.flags = w.m.flags \cup {"changed"}
             /\ Regrouped(n, w.m) /\ n.rx = w.m.rx /\ n.GTimeoutCtr = w.m.GTimeoutCtr
             /\ e \in World(s) /\ e.m = n /\ e.g = w.g
<1> DEFINE n == Set([w.m EXCEPT !.grp = st], {"changed"})
<1>1. /\ n \in Machine(s) /\ n.grp = st /\ n.flags = w.m.flags \cup {"changed"}
      /\ n.rx = w.m.rx /\ n.GTimeoutCtr = w.m.GTimeoutCtr
      /\ n.ptk = w.m.ptk /\ n.TimeoutCtr = w.m.TimeoutCtr /\ n.SNonce = w.m.SNonce
      /\ n.PTK = w.m.PTK /\ n.tk = w.m.tk /\ n.peer = w.m.peer /\ n.key_replay = w.m.key_replay
  BY DEF Set, World, Machine, Flag
<1> HIDE DEF n
<1>2. Regrouped(n, w.m)
  BY <1>1 DEF Regrouped, Kept, Is
<1> QED  BY <1>1, <1>2 DEF World, n

LEMMA RegroupedTwice ==
  ASSUME NEW m, NEW n, NEW p, Regrouped(n, m), Regrouped(p, n)
  PROVE  Regrouped(p, m)
<1>1. \A f \in Kept : Is(p, f) <=> Is(m, f)
  BY DEF Regrouped
<1>2. NoFirst(m) => NoFirst(n)
  BY DEF Regrouped, NoFirst
<1>3. NoFirst(m) => NoFirst(p)
  BY <1>2 DEF Regrouped, NoFirst
<1> QED  BY <1>1, <1>3 DEF Regrouped

LEMMA EnterIDLE ==
  ASSUME NEW s, NEW w \in World(s), Sound(w.m, s), w.m.rx # "group"
  PROVE  Renewed(EnterGroup(w, "IDLE"), w, s)
<1> DEFINE e == Set([w.m EXCEPT !.grp = "IDLE"], {"changed"})
           c == IF Is(w.m, "Init") THEN Clear(e, {"changed"}) ELSE e
           n == [c EXCEPT !.GTimeoutCtr = 0]
           v == [w EXCEPT !.m = n]
<1>1. /\ e \in Machine(s) /\ e.grp = "IDLE" /\ e.flags = w.m.flags \cup {"changed"}
      /\ Regrouped(e, w.m) /\ e.rx = w.m.rx
      /\ [w EXCEPT !.m = e] \in World(s) /\ [w EXCEPT !.m = e].m = e /\ [w EXCEPT !.m = e].g = w.g
  <2>1. "IDLE" \in PtkGroupState
    BY DEF PtkGroupState
  <2> QED  BY <2>1, EnterGroupFields
<1>2. EnterGroup(w, "IDLE") = v
  BY <1>1 DEF EnterGroup, World
<1> HIDE DEF e
<1>3. /\ c \in Machine(s) /\ Same(c, e) /\ (c.flags = e.flags \/ c.flags = e.flags \ {"changed"})
      /\ ~ Is(w.m, "Init") => c.flags = e.flags
  BY <1>1, ClearFields DEF Same
<1> HIDE DEF c
<1>4. /\ n \in Machine(s) /\ n.flags = c.flags /\ n.GTimeoutCtr = 0 /\ n.rx = w.m.rx
      /\ n.ptk = e.ptk /\ n.TimeoutCtr = e.TimeoutCtr /\ n.SNonce = e.SNonce
      /\ n.PTK = e.PTK /\ n.tk = e.tk /\ n.peer = e.peer /\ n.key_replay = e.key_replay
  BY <1>1, <1>3 DEF Machine, Same
<1> HIDE DEF n
<1>5. Regrouped(n, e)
  BY <1>1, <1>3, <1>4 DEF Regrouped, Kept, Is
<1>6. Regrouped(n, w.m)
  BY <1>1, <1>5, RegroupedTwice
<1>7. v \in World(s) /\ v.m = n /\ v.g = w.g
  BY <1>4 DEF World
<1>8. Ended(v, w) /\ (~ Is(w.m, "Init") => Is(n, "changed"))
  BY <1>1, <1>3, <1>4, <1>7 DEF Ended, Is
<1>9. n.GTimeoutCtr <= UPDATE_COUNT + 1
  BY <1>4, CountAssumption
<1> HIDE DEF v
<1> QED  BY <1>2, <1>4, <1>6, <1>7, <1>8, <1>9 DEF Renewed

LEMMA EnterREKEYNEGOTIATING ==
  ASSUME NEW s, NEW w \in World(s), Sound(w.m, s), w.m.rx # "group", w.m.GTimeoutCtr <= UPDATE_COUNT
  PROVE  LET v == EnterGroup(w, "REKEYNEGOTIATING")
         IN  /\ Renewed(v, w, s) /\ v.m.grp = "REKEYNEGOTIATING" /\ v.g = w.g
             /\ v.m.GTimeoutCtr = w.m.GTimeoutCtr + 1
             /\ v.m.GTimeoutCtr <= UPDATE_COUNT => ~ Is(v.m, "TimeoutEvt")
             /\ \A f \in {"Disconnect", "PtkGroupInit", "GUpdateStationKeys"} : Is(v.m, f) <=> Is(w.m, f)
<1> DEFINE e == Set([w.m EXCEPT !.grp = "REKEYNEGOTIATING"], {"changed"})
           c == [e EXCEPT !.GTimeoutCtr = @ + 1]
           d == Clear(c, {"PInitAKeys", "TimeoutEvt"})
           n == REKEYNEGOTIATING(e)
           v == [w EXCEPT !.m = n]
<1>1. /\ e \in Machine(s) /\ e.grp = "REKEYNEGOTIATING" /\ e.flags = w.m.flags \cup {"changed"}
      /\ Regrouped(e, w.m) /\ e.rx = w.m.rx /\ e.GTimeoutCtr = w.m.GTimeoutCtr
      /\ [w EXCEPT !.m = e] \in World(s) /\ [w EXCEPT !.m = e].m = e /\ [w EXCEPT !.m = e].g = w.g
  <2>1. "REKEYNEGOTIATING" \in PtkGroupState
    BY DEF PtkGroupState
  <2> QED  BY <2>1, EnterGroupFields
<1>2. EnterGroup(w, "REKEYNEGOTIATING") = v
  <2>1. EnterGroup(w, "REKEYNEGOTIATING") = [[w EXCEPT !.m = e] EXCEPT !.m = REKEYNEGOTIATING(e)]
    BY <1>1 DEF EnterGroup, World
  <2> HIDE DEF n, e
  <2> QED  BY <1>1, <2>1 DEF World, n
<1>3. n = IF c.GTimeoutCtr > UPDATE_COUNT THEN c ELSE wpa_send_eapol(d, "1/2")
  BY DEF REKEYNEGOTIATING
<1> HIDE DEF e, n
<1>4. /\ c \in Machine(s) /\ Same(c, [e EXCEPT !.GTimeoutCtr = c.GTimeoutCtr]) /\ c.flags = e.flags
      /\ c.GTimeoutCtr = w.m.GTimeoutCtr + 1 /\ c.GTimeoutCtr \in Nat
  <2>1. e.GTimeoutCtr + 1 \in Nat
    BY <1>1 DEF Machine
  <2> QED  BY <1>1, <2>1 DEF Machine, Same
<1> HIDE DEF c
<1>5. /\ d \in Machine(s) /\ Same(d, c) /\ d.flags = c.flags \ {"PInitAKeys", "TimeoutEvt"}
  BY <1>4, ClearFields
<1> HIDE DEF d
<1>6. /\ n \in Machine(s) /\ n.ptk = e.ptk /\ n.grp = e.grp /\ n.rx = e.rx
      /\ n.TimeoutCtr = e.TimeoutCtr /\ n.SNonce = e.SNonce /\ n.PTK = e.PTK /\ n.tk = e.tk
      /\ n.peer = e.peer /\ n.GTimeoutCtr = c.GTimeoutCtr
      /\ n.key_replay = e.key_replay \/
          (n.key_replay # <<>> /\ Len(n.key_replay) <= MAX_RETRIES /\ (NoFirst(e) => NoFirst(n)))
      /\ \/ c.GTimeoutCtr > UPDATE_COUNT /\ n.flags = e.flags
         \/ n.flags = e.flags \ {"PInitAKeys", "TimeoutEvt"}
  <2>1. CASE c.GTimeoutCtr > UPDATE_COUNT
    BY <1>1, <1>3, <1>4, <2>1 DEF Same, Machine
  <2>2. CASE ~ c.GTimeoutCtr > UPDATE_COUNT
    <3> DEFINE p == wpa_send_eapol(d, "1/2")
    <3>1. /\ p \in Machine(s) /\ p.flags = d.flags /\ Len(p.key_replay) <= MAX_RETRIES
          /\ Same(p, [d EXCEPT !.key_replay = p.key_replay, !.timeouts = p.timeouts])
          /\ NoFirst(d) => NoFirst(p)
          /\ p.key_replay # <<>>
      BY <1>5, SendFields
    <3>2. n = p
      BY <1>3, <2>2
    <3> HIDE DEF p
    <3>3. /\ d.ptk = e.ptk /\ d.grp = e.grp /\ d.rx = e.rx
          /\ d.TimeoutCtr = e.TimeoutCtr /\ d.SNonce = e.SNonce /\ d.PTK = e.PTK /\ d.tk = e.tk
          /\ d.peer = e.peer /\ d.GTimeoutCtr = c.GTimeoutCtr /\ d.key_replay = e.key_replay
      BY <1>1, <1>4, <1>5 DEF Same, Machine
    <3>4. NoFirst(e) => NoFirst(n)
      BY <3>1, <3>2, <3>3 DEF NoFirst
    <3>5. n.flags = e.flags \ {"PInitAKeys", "TimeoutEvt"}
      BY <1>4, <1>5, <3>1, <3>2
    <3>6. /\ n.ptk = d.ptk /\ n.grp = d.grp /\ n.rx = d.rx
          /\ n.TimeoutCtr = d.TimeoutCtr /\ n.SNonce = d.SNonce /\ n.PTK = d.PTK /\ n.tk = d.tk
          /\ n.peer = d.peer /\ n.GTimeoutCtr = d.GTimeoutCtr
      BY <1>5, <3>1, <3>2 DEF Same, Machine
    <3> QED  BY <3>1, <3>2, <3>3, <3>4, <3>5, <3>6
  <2> QED  BY <2>1, <2>2
<1>7. Regrouped(n, e)
  BY <1>1, <1>6 DEF Regrouped, Kept, Is
<1>8. Regrouped(n, w.m)
  BY <1>1, <1>7, RegroupedTwice
<1>9. v \in World(s) /\ v.m = n /\ v.g = w.g
  BY <1>6 DEF World
<1>10. Ended(v, w) /\ Is(n, "changed")
  BY <1>1, <1>6, <1>9 DEF Ended, Is
<1>11. n.GTimeoutCtr <= UPDATE_COUNT + 1 /\ n.grp = "REKEYNEGOTIATING" /\ n.rx # "group"
  BY <1>1, <1>4, <1>6, SoundIs, CountAssumption
<1>12. Renewed(v, w, s)
  BY <1>8, <1>9, <1>10, <1>11 DEF Renewed
<1>13. n.GTimeoutCtr <= UPDATE_COUNT => ~ Is(n, "TimeoutEvt")
  BY <1>4, <1>6, CountAssumption DEF Is
<1>14. \A f \in {"Disconnect", "PtkGroupInit", "GUpdateStationKeys"} : Is(n, f) <=> Is(w.m, f)
  BY <1>1, <1>6 DEF Is
<1> QED  BY <1>2, <1>4, <1>6, <1>9, <1>11, <1>12, <1>13, <1>14

LEMMA EnterREKEYESTABLISHED ==
  ASSUME NEW s, NEW w \in World(s), Sound(w.m, s), w.m.rx = "group"
  PROVE  Renewed(EnterGroup(w, "REKEYESTABLISHED"), w, s)
<1> DEFINE e == Set([w.m EXCEPT !.grp = "REKEYESTABLISHED"], {"changed"})
           x == [w EXCEPT !.m = e]
           c == [e EXCEPT !.rx = "none"]
           y == [x EXCEPT !.m = c]
           u == Unmark(y)
           n == [u.m EXCEPT !.GTimeoutCtr = 0]
           v == [u EXCEPT !.m = n]
<1>1. /\ e \in Machine(s) /\ e.grp = "REKEYESTABLISHED" /\ e.flags = w.m.flags \cup {"changed"}
      /\ Regrouped(e, w.m) /\ e.rx = w.m.rx
      /\ x \in World(s) /\ x.m = e /\ x.g = w.g
  <2>1. "REKEYESTABLISHED" \in PtkGroupState
    BY DEF PtkGroupState
  <2> QED  BY <2>1, EnterGroupFields
<1>2. EnterGroup(w, "REKEYESTABLISHED") = v
  <2>1. EnterGroup(w, "REKEYESTABLISHED") = REKEYESTABLISHED(x)
    BY DEF EnterGroup
  <2> HIDE DEF x, e
  <2>2. [x EXCEPT !.m.rx = "none"] = y
    BY <1>1
  <2> QED  BY <2>1, <2>2 DEF REKEYESTABLISHED
<1> HIDE DEF e, x
<1>3. /\ c \in Machine(s) /\ c.flags = e.flags /\ c.rx = "none" /\ c.grp = e.grp
      /\ c.ptk = e.ptk /\ c.TimeoutCtr = e.TimeoutCtr /\ c.SNonce = e.SNonce
      /\ c.PTK = e.PTK /\ c.tk = e.tk /\ c.peer = e.peer /\ c.key_replay = e.key_replay
  BY <1>1 DEF Machine
<1> HIDE DEF c
<1>4. y \in World(s) /\ y.m = c /\ y.g = w.g
  BY <1>1, <1>3 DEF World
<1> HIDE DEF y
<1>5. /\ u \in World(s) /\ Same(u.m, c) /\ u.m.flags = c.flags \ {"GUpdateStationKeys"}
      /\ Ended(u, y)
  BY <1>4, UnmarkFields
<1> HIDE DEF u
<1>6. /\ n \in Machine(s) /\ n.flags = u.m.flags /\ n.GTimeoutCtr = 0 /\ n.rx = "none"
      /\ n.ptk = e.ptk /\ n.TimeoutCtr = e.TimeoutCtr /\ n.SNonce = e.SNonce
      /\ n.PTK = e.PTK /\ n.tk = e.tk /\ n.peer = e.peer /\ n.key_replay = e.key_replay
  BY <1>3, <1>5 DEF World, Machine, Same
<1> HIDE DEF n
<1>7. v \in World(s) /\ v.m = n /\ v.g = u.g
  BY <1>5, <1>6 DEF World
<1>8. Regrouped(n, e)
  BY <1>1, <1>3, <1>5, <1>6 DEF Regrouped, Kept, Is
<1>9. Regrouped(n, w.m)
  BY <1>1, <1>8, RegroupedTwice
<1>10. Is(n, "changed")
  BY <1>1, <1>3, <1>5, <1>6 DEF Is
<1>11. Ended(v, w)
  BY <1>1, <1>3, <1>4, <1>5, <1>6, <1>7 DEF Ended
<1>12. n.GTimeoutCtr <= UPDATE_COUNT + 1
  BY <1>6, CountAssumption
<1> HIDE DEF v
<1> QED  BY <1>2, <1>6, <1>7, <1>9, <1>10, <1>11, <1>12 DEF Renewed

LEMMA EnterKEYERROR ==
  ASSUME NEW s, NEW w \in World(s), Sound(w.m, s), w.m.rx # "group"
  PROVE  Renewed(EnterGroup(w, "KEYERROR"), w, s)
<1> DEFINE e == Set([w.m EXCEPT !.grp = "KEYERROR"], {"changed"})
           x == [w EXCEPT !.m = e]
           u == Unmark(x)
           n == Set(u.m, {"Disconnect"})
           v == [u EXCEPT !.m = n]
<1>1. /\ e \in Machine(s) /\ e.grp = "KEYERROR" /\ e.flags = w.m.flags \cup {"changed"}
      /\ Regrouped(e, w.m) /\ e.rx = w.m.rx /\ e.GTimeoutCtr = w.m.GTimeoutCtr
      /\ x \in World(s) /\ x.m = e /\ x.g = w.g
  <2>1. "KEYERROR" \in PtkGroupState
    BY DEF PtkGroupState
  <2> QED  BY <2>1, EnterGroupFields
<1>2. EnterGroup(w, "KEYERROR") = v
  BY DEF EnterGroup, KEYERROR
<1> HIDE DEF e, x
<1>3. /\ u \in World(s) /\ Same(u.m, e) /\ u.m.flags = e.flags \ {"GUpdateStationKeys"}
      /\ Ended(u, x)
  BY <1>1, UnmarkFields
<1> HIDE DEF u
<1>4. /\ n \in Machine(s) /\ n.flags = u.m.flags \cup {"Disconnect"} /\ Same(n, u.m)
  <2>1. {"Disconnect"} \in SUBSET Flag /\ u.m \in Machine(s)
    BY <1>3 DEF Flag, World
  <2> QED  BY <2>1, SetFields
<1> HIDE DEF n
<1>5. v \in World(s) /\ v.m = n /\ v.g = u.g
  BY <1>3, <1>4 DEF World
<1>6. /\ Regrouped(n, e) /\ n.rx = e.rx /\ n.grp = "KEYERROR" /\ n.GTimeoutCtr = w.m.GTimeoutCtr
      /\ Is(n, "changed")
  BY <1>1, <1>3, <1>4 DEF Regrouped, Kept, Is, Same
<1>7. Regrouped(n, w.m)
  BY <1>1, <1>6, RegroupedTwice
<1>8. Ended(v, w)
  BY <1>1, <1>3, <1>4, <1>5 DEF Ended
<1>9. n.GTimeoutCtr <= UPDATE_COUNT + 1
  BY <1>6, SoundIs DEF Counters
<1> QED  BY <1>1, <1>2, <1>5, <1>6, <1>7, <1>8, <1>9 DEF Renewed

LEMMA SameSound ==
  ASSUME NEW s, NEW m, NEW n \in Machine(s), Sound(m, s), Same(n, m),
         \A f \in Kept : Is(n, f) <=> Is(m, f),
         m.rx = "group" => (Is(n, "PtkGroupInit") <=> Is(m, "PtkGroupInit")),
         Is(m, "Disconnect") => Is(n, "Disconnect")
  PROVE  Sound(n, s)
<1>1. /\ Is(n, "Init") <=> Is(m, "Init")
      /\ Is(n, "DeauthenticationRequest") <=> Is(m, "DeauthenticationRequest")
      /\ Is(n, "AuthenticationRequest") <=> Is(m, "AuthenticationRequest")
      /\ Is(n, "ReAuthenticationRequest") <=> Is(m, "ReAuthenticationRequest")
      /\ Is(n, "PTKRequest") <=> Is(m, "PTKRequest")
      /\ Is(n, "MICVerified") <=> Is(m, "MICVerified")
      /\ Is(n, "PTK_valid") <=> Is(m, "PTK_valid")
      /\ Is(n, "update_snonce") <=> Is(m, "update_snonce")
      /\ Is(n, "prev_key_replay") <=> Is(m, "prev_key_replay")
  BY DEF Kept
<1>2. n.flags \cap Urgent = {} <=> m.flags \cap Urgent = {}
  BY <1>1 DEF Urgent, Is
<1>3. NoFirst(m) <=> NoFirst(n)
  BY DEF Same, NoFirst
<1>4. Counters(n)
  <2>1. Late(m) => Late(n)
    BY <1>1 DEF Late, Same
  <2> QED  BY <2>1, SoundIs DEF Counters, Same
<1>5. Frames(n)
  BY <1>1, <1>2, <1>3, SoundIs DEF Frames, Same
<1>6. Snonces(n)
  BY <1>1, <1>2, <1>3, SoundIs DEF Snonces, Same
<1>7. Pairwise(n)
  BY <1>1, SoundIs DEF Pairwise, Same
<1> QED  BY <1>4, <1>5, <1>6, <1>7 DEF Sound

\* A step of WPA_PTK_GROUP.
LEMMA StepGroupSound ==
  ASSUME NEW s, NEW w \in World(s), Sound(w.m, s)
  PROVE  LET v == StepGroup(w)
         IN  /\ v \in World(s) /\ Sound(v.m, s) /\ Ended(v, w) /\ v.m.rx # "group"
             /\ Is(v.m, "Init") <=> Is(w.m, "Init")
             /\ NextGroup(w.m) = "stay" => v = w
             /\ NextGroup(w.m) # "stay" /\ ~ Is(w.m, "Init") => Is(v.m, "changed")
<1> DEFINE st == NextGroup(w.m)
           e == IF st = "stay" THEN w ELSE EnterGroup(w, st)
           n == Clear(e.m, {"PtkGroupInit"})
           v == [e EXCEPT !.m = n]
<1>1. StepGroup(w) = v /\ w.m \in Machine(s)
  BY DEF StepGroup, World
<1> HIDE DEF v
<1>2. CASE st = "stay"
  <2>1. e = w /\ ~ Is(w.m, "PtkGroupInit") /\ w.m.rx # "group"
    BY <1>2, GroupReasons
  <2> HIDE DEF e
  <2>2. w.m.flags \ {"PtkGroupInit"} = w.m.flags
    BY <2>1 DEF Is
  <2>3. Clear(w.m, {"PtkGroupInit"}) = w.m
    BY <1>1, <2>2 DEF Clear, Machine
  <2>4. v = w
    BY <2>1, <2>3 DEF World, v
  <2> QED  BY <1>1, <1>2, <2>1, <2>4 DEF Ended
<1>3. CASE st # "stay"
  <2>1. Renewed(e, w, s)
    <3>1. e = EnterGroup(w, st) /\ st \in PtkGroupState
      BY <1>3, GroupReasons
    <3>2. w.m.rx = "group" <=> st = "REKEYESTABLISHED"
      BY GroupReasons
    <3>3. st = "REKEYNEGOTIATING" => w.m.GTimeoutCtr <= UPDATE_COUNT
      BY GroupReasons
    <3> HIDE DEF e, st
    <3>4. CASE st = "IDLE"
      BY <3>1, <3>2, <3>4, EnterIDLE
    <3>5. CASE st = "REKEYNEGOTIATING"
      BY <3>1, <3>2, <3>3, <3>5, EnterREKEYNEGOTIATING
    <3>6. CASE st = "REKEYESTABLISHED"
      BY <3>1, <3>2, <3>6, EnterREKEYESTABLISHED
    <3>7. CASE st = "KEYERROR"
      BY <3>1, <3>2, <3>7, EnterKEYERROR
    <3> QED  BY <3>1, <3>4, <3>5, <3>6, <3>7 DEF PtkGroupState
  <2> HIDE DEF e
  <2>2. e \in World(s) /\ e.m \in Machine(s)
    BY <2>1 DEF Renewed, World
  <2>3. Sound(e.m, s)
    BY <1>1, <2>1, <2>2, RegroupedSound DEF Renewed
  <2>4. n \in Machine(s) /\ Same(n, e.m) /\ n.flags = e.m.flags \ {"PtkGroupInit"}
    BY <2>2, ClearFields
  <2> HIDE DEF n
  <2>5. v \in World(s) /\ v.m = n /\ v.g = e.g
    BY <2>2, <2>4 DEF World, v
  <2>6. \A f \in Kept \cup {"changed", "Disconnect", "GUpdateStationKeys"} : Is(n, f) <=> Is(e.m, f)
    BY <2>4 DEF Kept, Is
  <2>7. Sound(n, s) /\ n.rx # "group"
    <3>1. e.m.rx # "group" /\ n.rx = e.m.rx
      BY <2>1, <2>4 DEF Renewed, Same
    <3> QED  BY <2>3, <2>4, <2>6, <3>1, SameSound
  <2>8. Ended(v, w)
    BY <2>1, <2>5, <2>6 DEF Renewed, Ended, Is
  <2>9. Is(n, "Init") <=> Is(w.m, "Init")
    BY <2>1, <2>6 DEF Renewed, Regrouped, Kept
  <2>10. ~ Is(w.m, "Init") => Is(n, "changed")
    BY <2>1, <2>6 DEF Renewed
  <2> QED  BY <1>1, <1>3, <2>5, <2>7, <2>8, <2>9, <2>10
<1> QED  BY <1>2, <1>3

\* When neither machine moves, nothing is left to do.
LEMMA StayRested ==
  ASSUME NEW s, NEW m, Sound(m, s), NEW ok, NextPtk(m, ok) = "stay", NextGroup(m) = "stay"
  PROVE  Rested(m, FALSE)
<1>1. m \in Machine(s)
  BY SoundIs
<1>2. /\ Calm(m)
      /\ \/ m.ptk \in {"INITIALIZE", "PTKINITDONE"}
         \/ m.ptk = "PTKSTART" /\ m.rx # "pairwise" /\ ~ Expired(m)
         \/ m.ptk = "PTKCALCNEGOTIATING" /\ m.rx # "pairwise"
         \/ /\ m.ptk = "PTKINITNEGOTIATING" /\ ~ Is(m, "update_snonce")
            /\ ~ (m.rx = "pairwise" /\ Is(m, "MICVerified")) /\ ~ Expired(m)
  BY <1>1, Reasons
<1>3. /\ m.rx # "group" /\ ~ Is(m, "PtkGroupInit")
      /\ m.grp \in {"IDLE", "REKEYNEGOTIATING"} /\ m.GTimeoutCtr <= UPDATE_COUNT
      /\ m.grp = "REKEYNEGOTIATING" => ~ Is(m, "TimeoutEvt")
  BY GroupReasons
<1>4. m.flags \cap (Urgent \cup {"PtkGroupInit"}) = {} /\ ~ Is(m, "Disconnect")
  BY <1>2, <1>3 DEF Calm, Is
<1>5. m.TimeoutCtr <= UPDATE_COUNT
  BY <1>2, <1>4, SoundIs, CountAssumption DEF Counters, Late, Expired
<1>6. m.rx = "none" \/ (m.rx = "pairwise" /\ m.ptk = "INITIALIZE")
  <2>1. m.rx \in {"none", "pairwise", "group"}
    BY <1>1 DEF Machine
  <2> QED  BY <1>2, <1>3, <2>1, SoundIs DEF Frames
<1> QED  BY <1>2, <1>3, <1>4, <1>5, <1>6 DEF Rested

\* The machine at the start of a turn of wpa_sm_step.
Begun(m, g) == [m |-> Clear(m, {"changed"}), g |-> [g EXCEPT !.changed = FALSE]]

LEMMA BegunSound ==
  ASSUME NEW s, NEW m, Sound(m, s), NEW g \in GroupSet
  PROVE  LET w == Begun(m, g)
         IN  /\ w \in World(s) /\ Sound(w.m, s) /\ w.g = [g EXCEPT !.changed = FALSE]
             /\ Same(w.m, m) /\ w.m.flags = m.flags \ {"changed"} /\ ~ Is(w.m, "changed")
<1> DEFINE n == Clear(m, {"changed"})
<1>1. m \in Machine(s)
  BY SoundIs
<1>2. n \in Machine(s) /\ Same(n, m) /\ n.flags = m.flags \ {"changed"}
  BY <1>1, ClearFields
<1> HIDE DEF n
<1>3. \A f \in Kept \cup {"PtkGroupInit", "Disconnect"} : Is(n, f) <=> Is(m, f)
  BY <1>2 DEF Kept, Is
<1>4. Sound(n, s)
  BY <1>2, <1>3, SameSound
<1>5. [g EXCEPT !.changed = FALSE] \in GroupSet
  BY DEF GroupSet
<1> QED  BY <1>2, <1>4, <1>5 DEF Begun, World, n, Is

\* A turn of the loop of wpa_sm_step.
LEMMA TurnSound ==
  ASSUME NEW s, NEW m, Sound(m, s), NEW g \in GroupSet, NEW ok
  PROVE  LET w == Begun(m, g)
             v == StepGroup(StepPtk(w, s, ok))
         IN  /\ v \in World(s) /\ Sound(v.m, s) /\ Ended(v, w) /\ v.m.rx # "group"
             /\ Is(v.m, "Init") <=> Is(m, "Init")
             /\ ~ Is(v.m, "changed") /\ ~ Is(m, "Init") => Rested(v.m, FALSE)
<1> DEFINE w == Begun(m, g)
           u == StepPtk(w, s, ok)
           v == StepGroup(u)
<1>1. /\ w \in World(s) /\ Sound(w.m, s) /\ w.m.flags = m.flags \ {"changed"}
      /\ ~ Is(w.m, "changed")
  BY BegunSound
<1> HIDE DEF w
<1>2. /\ Sound(u.m, s) /\ (u = w \/ Entered(u, w, s)) /\ (NextPtk(w.m, ok) = "stay" => u = w)
      /\ NextPtk(w.m, ok) # "stay" => Entered(u, w, s)
  BY <1>1, StepPtkSound
<1> HIDE DEF u
<1>3. u \in World(s) /\ Ended(u, w) /\ (Is(u.m, "Init") <=> Is(w.m, "Init"))
  BY <1>1, <1>2 DEF Entered, Ended
<1>4. /\ v \in World(s) /\ Sound(v.m, s) /\ Ended(v, u) /\ v.m.rx # "group"
      /\ Is(v.m, "Init") <=> Is(u.m, "Init")
      /\ NextGroup(u.m) = "stay" => v = u
      /\ NextGroup(u.m) # "stay" /\ ~ Is(u.m, "Init") => Is(v.m, "changed")
  BY <1>2, <1>3, StepGroupSound
<1> HIDE DEF v
<1>5. Ended(v, w)
  BY <1>3, <1>4 DEF Ended
<1>6. Is(w.m, "Init") <=> Is(m, "Init")
  BY <1>1 DEF Is
<1>7. ASSUME ~ Is(v.m, "changed"), ~ Is(m, "Init") PROVE Rested(v.m, FALSE)
  <2>1. NextGroup(u.m) = "stay" /\ v = u
    BY <1>3, <1>4, <1>6, <1>7
  <2>2. NextPtk(w.m, ok) = "stay" /\ u = w
    BY <1>2, <1>6, <1>7, <2>1 DEF Entered
  <2> QED  BY <1>1, <2>1, <2>2, StayRested
<1> QED  BY <1>3, <1>4, <1>5, <1>6, <1>7 DEF u, v, w

\* A station that is told of the new GTK starts the group key handshake, unless it
\* is in it, and stays marked.
LEMMA ToldTurn ==
  ASSUME NEW s, NEW m, Sound(m, s), Told(m), NEW g \in GroupSet, NEW ok
  PROVE  LET v == StepGroup(StepPtk(Begun(m, g), s, ok))
         IN  Told(v.m) /\ v.g = [g EXCEPT !.changed = FALSE]
<1> DEFINE w == Begun(m, g)
           v == StepGroup(w)
           e == EnterGroup(w, "REKEYNEGOTIATING")
           n == Clear(e.m, {"PtkGroupInit"})
<1>1. /\ w \in World(s) /\ Sound(w.m, s) /\ w.g = [g EXCEPT !.changed = FALSE]
      /\ Same(w.m, m) /\ w.m.flags = m.flags \ {"changed"}
  BY BegunSound
<1> HIDE DEF w
<1>2. Told(w.m) /\ w.m \in Machine(s)
  BY <1>1, SoundIs DEF Told, Rested, Same, Urgent, Is
<1>3. w.m.rx = "none" /\ Calm(w.m) /\ ~ Is(w.m, "PtkGroupInit") /\ ~ Is(w.m, "Init")
  BY <1>2 DEF Told, Rested, Calm, Is, Urgent
<1>4. StepPtk(w, s, ok) = w
  <2>1. NextPtk(w.m, ok) = "stay"
    BY <1>2, <1>3, Undisturbed DEF Told
  <2> QED  BY <2>1 DEF StepPtk
<1>5. CASE w.m.grp = "REKEYNEGOTIATING"
  <2>1. w.m.flags \cap {"Init", "PtkGroupInit"} = {}
    BY <1>3 DEF Is
  <2>2. ~ Is(w.m, "TimeoutEvt") /\ ~ w.m.GTimeoutCtr > UPDATE_COUNT
    BY <1>2, <1>5, <1>1, SoundIs, CountAssumption DEF Told, Rested
  <2>3. NextGroup(w.m) = "stay"
    BY <1>3, <1>5, <2>1, <2>2 DEF NextGroup
  <2>4. v = w
    BY <1>1, <2>3, StepGroupSound
  <2> QED  BY <1>1, <1>2, <1>4, <2>4 DEF w
<1>6. CASE w.m.grp # "REKEYNEGOTIATING"
  <2>1. w.m.grp = "IDLE" /\ w.m.GTimeoutCtr = 0 /\ w.m.GTimeoutCtr <= UPDATE_COUNT
    BY <1>1, <1>2, <1>6, SoundIs DEF Told, Rested, Counters
  <2>2. /\ w.m.flags \cap {"Init", "PtkGroupInit"} = {}
        /\ w.m.flags \cap {"GUpdateStationKeys", "PInitAKeys"} # {}
    BY <1>2, <1>3 DEF Is, Told
  <2>3. NextGroup(w.m) = "REKEYNEGOTIATING"
    BY <2>1, <2>2 DEF NextGroup
  <2>4. v = [e EXCEPT !.m = n]
    BY <2>3 DEF StepGroup
  <2>5. /\ Renewed(e, w, s) /\ e.m.grp = "REKEYNEGOTIATING" /\ e.g = w.g
        /\ e.m.GTimeoutCtr = w.m.GTimeoutCtr + 1
        /\ e.m.GTimeoutCtr <= UPDATE_COUNT => ~ Is(e.m, "TimeoutEvt")
        /\ \A f \in {"Disconnect", "PtkGroupInit", "GUpdateStationKeys"} : Is(e.m, f) <=> Is(w.m, f)
    <3>1. w.m.rx # "group"
      BY <1>3
    <3> HIDE DEF e
    <3> QED  BY <1>1, <2>1, <3>1, EnterREKEYNEGOTIATING DEF e
  <2> HIDE DEF e
  <2>6. e \in World(s) /\ e.m \in Machine(s) /\ Regrouped(e.m, w.m) /\ e.m.rx # "group"
    BY <2>5 DEF Renewed, World
  <2>7. n \in Machine(s) /\ Same(n, e.m) /\ n.flags = e.m.flags \ {"PtkGroupInit"}
    BY <2>6, ClearFields
  <2> HIDE DEF n
  <2>8. v.m = n /\ v.g = w.g
    BY <2>4, <2>5, <2>6, <2>7 DEF World
  <2>9. /\ e.m.ptk = "PTKINITDONE" /\ e.m.TimeoutCtr <= UPDATE_COUNT
        /\ e.m.rx # "pairwise" /\ e.m.GTimeoutCtr <= UPDATE_COUNT
    BY <1>2, <1>3, <2>1, <2>5, <2>6, CountAssumption DEF Told, Rested, Regrouped
  <2>10. /\ \A f \in Urgent : ~ Is(e.m, f)
         /\ Is(e.m, "GUpdateStationKeys") /\ ~ Is(e.m, "Disconnect") /\ ~ Is(e.m, "TimeoutEvt")
    <3>1. \A f \in Urgent : ~ Is(w.m, f)
      BY <1>3 DEF Calm, Is
    <3>2. Urgent \subseteq Kept
      BY DEF Urgent, Kept
    <3>3. ~ Is(w.m, "Disconnect") /\ Is(w.m, "GUpdateStationKeys")
      BY <1>2 DEF Told, Rested
    <3> QED  BY <2>5, <2>6, <2>9, <3>1, <3>2, <3>3 DEF Regrouped
  <2>11. e.m.rx = "none"
    BY <2>6, <2>9 DEF Machine
  <2>12. n.ptk = "PTKINITDONE" /\ n.grp = "REKEYNEGOTIATING" /\ n.TimeoutCtr <= UPDATE_COUNT
         /\ n.GTimeoutCtr <= UPDATE_COUNT /\ n.rx = "none"
    BY <2>5, <2>7, <2>9, <2>11 DEF Same
  <2>13. /\ n.flags \cap (Urgent \cup {"PtkGroupInit"}) = {}
         /\ ~ Is(n, "Disconnect") /\ ~ Is(n, "TimeoutEvt") /\ Is(n, "GUpdateStationKeys")
    BY <2>7, <2>10 DEF Is
  <2>14. Told(n)
    BY <2>12, <2>13 DEF Told, Rested
  <2> QED  BY <1>1, <1>4, <2>8, <2>14 DEF w
<1> QED  BY <1>5, <1>6

\* wpa_group_fatal_failure asks every station to disconnect.
LEMMA FatalSound ==
  ASSUME NEW s, NEW m, Sound(m, s)
  PROVE  LET n == Set(m, {"Disconnect"})
         IN  /\ Sound(n, s) /\ Same(n, m) /\ n.flags = m.flags \cup {"Disconnect"}
             /\ \A fatal \in BOOLEAN : Rested(m, fatal) => Rested(n, TRUE)
<1> DEFINE n == Set(m, {"Disconnect"})
<1>1. {"Disconnect"} \in SUBSET Flag /\ m \in Machine(s)
  BY SoundIs DEF Flag
<1>2. n \in Machine(s) /\ Same(n, m) /\ n.flags = m.flags \cup {"Disconnect"}
  BY <1>1, SetFields
<1> HIDE DEF n
<1>3. \A f \in Kept \cup {"PtkGroupInit", "TimeoutEvt"} : Is(n, f) <=> Is(m, f)
  BY <1>2 DEF Kept, Is
<1>4. Sound(n, s)
  BY <1>2, <1>3, SameSound DEF Is
<1>5. ASSUME NEW fatal \in BOOLEAN, Rested(m, fatal) PROVE Rested(n, TRUE)
  <2>1. n.flags \cap (Urgent \cup {"PtkGroupInit"}) = {}
    BY <1>2, <1>5 DEF Rested, Urgent
  <2>2. /\ Is(n, "update_snonce") <=> Is(m, "update_snonce")
        /\ Is(n, "TimeoutEvt") <=> Is(m, "TimeoutEvt")
    BY <1>3 DEF Kept
  <2> QED  BY <1>2, <1>5, <2>1, <2>2 DEF Rested, Same
<1> QED  BY <1>2, <1>4, <1>5 DEF n
-----------------------------------------------------------------------------
(***************************************************************************)
(* What callbacks and callers do to a machine at rest.                     *)
(***************************************************************************)
LEMMA RestedIs ==
  ASSUME NEW s, NEW m, Sound(m, s), NEW fatal, Rested(m, fatal)
  PROVE  /\ m \in Machine(s) /\ m.flags \subseteq Flag /\ m.flags \cap Urgent = {}
         /\ m.TimeoutCtr <= UPDATE_COUNT /\ m.rx # "group"
         /\ m.rx = "pairwise" => m.ptk = "INITIALIZE" /\ ~ Is(m, "PTK_valid")
         /\ m.ptk \notin {"AUTHENTICATION2", "INITPSK", "PTKCALCNEGOTIATING2"}
         /\ m.ptk = "PTKINITNEGOTIATING" => ~ Is(m, "update_snonce")
         /\ Is(m, "PTK_valid") => ~ Is(m, "update_snonce")
         /\ m.ptk = "PTKINITNEGOTIATING" /\ Is(m, "prev_key_replay") => m.key_replay # <<>>
<1>1. m \in Machine(s) /\ m.flags \subseteq Flag /\ m.TimeoutCtr \in Nat
  BY SoundIs
<1>2. m.flags \cap Urgent = {}
  BY DEF Rested
<1>3. /\ m.TimeoutCtr <= UPDATE_COUNT /\ m.rx # "group"
      /\ m.rx = "pairwise" => m.ptk = "INITIALIZE"
      /\ m.ptk \notin {"AUTHENTICATION2", "INITPSK", "PTKCALCNEGOTIATING2"}
      /\ m.ptk = "PTKINITNEGOTIATING" => ~ Is(m, "update_snonce")
  BY DEF Rested
<1>4. m.ptk = "INITIALIZE" => ~ Is(m, "PTK_valid")
  BY SoundIs DEF Pairwise
<1>5. Is(m, "PTK_valid") => ~ Is(m, "update_snonce")
  BY <1>3, SoundIs DEF Snonces
<1>6. m.ptk = "PTKINITNEGOTIATING" /\ Is(m, "prev_key_replay") => m.key_replay # <<>>
  <2>1. ~ m.TimeoutCtr > UPDATE_COUNT
    BY <1>1, <1>3, CountAssumption
  <2> QED  BY <1>2, <1>3, <2>1, SoundIs DEF Snonces
<1> QED  BY <1>1, <1>2, <1>3, <1>4, <1>5, <1>6

\* A callback that brings no frame of a handshake.
LEMMA CalledSound ==
  ASSUME NEW s, NEW m, Sound(m, s), NEW fatal, Rested(m, fatal), NEW n \in Machine(s),
         n.ptk = m.ptk, n.grp = m.grp, n.TimeoutCtr = m.TimeoutCtr, n.GTimeoutCtr = m.GTimeoutCtr,
         n.rx = m.rx \/ n.rx = "none",
         n.key_replay = m.key_replay \/
           (n.key_replay = <<>> /\ (~ Is(n, "prev_key_replay") \/ n.flags \cap Urgent # {})),
         (n.tk = m.tk /\ n.peer = m.peer) \/ n.tk = 0,
         Is(n, "PTK_valid") => Is(m, "PTK_valid"),
         Is(n, "update_snonce") <=> Is(m, "update_snonce"),
         Is(n, "prev_key_replay") => Is(m, "prev_key_replay"),
         Is(n, "PTKRequest") => n.rx # "pairwise"
  PROVE  Sound(n, s)
<1>1. /\ m.flags \cap Urgent = {}
      /\ m.TimeoutCtr <= UPDATE_COUNT /\ m.rx # "group"
      /\ m.rx = "pairwise" => m.ptk = "INITIALIZE" /\ ~ Is(m, "PTK_valid")
      /\ m.ptk \notin {"AUTHENTICATION2", "INITPSK", "PTKCALCNEGOTIATING2"}
      /\ m.ptk = "PTKINITNEGOTIATING" => ~ Is(m, "update_snonce")
      /\ Is(m, "PTK_valid") => ~ Is(m, "update_snonce")
      /\ m.ptk = "PTKINITNEGOTIATING" /\ Is(m, "prev_key_replay") => m.key_replay # <<>>
  BY RestedIs
<1>2. NoFirst(m) => NoFirst(n)
  BY DEF NoFirst
<1>3. Len(n.key_replay) <= MAX_RETRIES
  BY SoundIs, CountAssumption DEF Counters
<1>4. Counters(n)
  BY <1>1, <1>3, SoundIs DEF Counters
<1>5. Frames(n)
  BY <1>1, <1>2, SoundIs DEF Frames
<1>6. Snonces(n)
  BY <1>1, SoundIs DEF Snonces
<1>7. Pairwise(n)
  BY <1>1, SoundIs DEF Pairwise
<1> QED  BY <1>4, <1>5, <1>6, <1>7 DEF Sound

\* Flags that a machine at rest may have or not.
LEMMA RestedSame ==
  ASSUME NEW s, NEW m, Sound(m, s), NEW fatal, Rested(m, fatal), NEW n \in Machine(s),
         Same(n, m) \/ Same(n, [m EXCEPT !.timeouts = 0]),
         \A f \in Flag \ {"MICVerified", "GUpdateStationKeys"} : Is(n, f) <=> Is(m, f)
  PROVE  Sound(n, s) /\ Rested(n, fatal)
<1>1. m \in Machine(s) /\ n.flags \subseteq Flag
  BY SoundIs DEF Machine
<1>2. /\ n.ptk = m.ptk /\ n.grp = m.grp /\ n.TimeoutCtr = m.TimeoutCtr
      /\ n.GTimeoutCtr = m.GTimeoutCtr /\ n.rx = m.rx /\ n.SNonce = m.SNonce
      /\ n.PTK = m.PTK /\ n.tk = m.tk /\ n.peer = m.peer /\ n.key_replay = m.key_replay
  BY <1>1 DEF Same, Machine
<1>3. /\ Is(n, "Init") <=> Is(m, "Init")
      /\ Is(n, "DeauthenticationRequest") <=> Is(m, "DeauthenticationRequest")
      /\ Is(n, "AuthenticationRequest") <=> Is(m, "AuthenticationRequest")
      /\ Is(n, "ReAuthenticationRequest") <=> Is(m, "ReAuthenticationRequest")
      /\ Is(n, "PTKRequest") <=> Is(m, "PTKRequest")
      /\ Is(n, "PtkGroupInit") <=> Is(m, "PtkGroupInit")
      /\ Is(n, "Disconnect") <=> Is(m, "Disconnect")
      /\ Is(n, "TimeoutEvt") <=> Is(m, "TimeoutEvt")
      /\ Is(n, "PTK_valid") <=> Is(m, "PTK_valid")
      /\ Is(n, "update_snonce") <=> Is(m, "update_snonce")
      /\ Is(n, "prev_key_replay") <=> Is(m, "prev_key_replay")
  BY DEF Flag
<1>4. n.flags \cap (Urgent \cup {"PtkGroupInit"}) = {}
  BY <1>3 DEF Rested, Urgent, Is
<1>5. Rested(n, fatal)
  BY <1>2, <1>3, <1>4 DEF Rested
<1>6. ~ Is(n, "PTKRequest")
  BY <1>4 DEF Urgent, Is
<1>7. Sound(n, s)
  BY <1>2, <1>3, <1>6, CalledSound
<1> QED  BY <1>5, <1>7

\* wpa_auth_sta_init
LEMMA NewSound ==
  ASSUME NEW s
  PROVE  Sound(NewSm, s) /\ Rested(NewSm, FALSE)
<1>1. <<>> \in Seq(Sent(s)) /\ Len(<<>>) = 0
  OBVIOUS
<1>2. NewSm \in Machine(s)
  BY <1>1 DEF NewSm, Machine, PtkState, PtkGroupState, Keys, Flag
<1>3. Counters(NewSm) /\ Frames(NewSm) /\ Snonces(NewSm) /\ Pairwise(NewSm)
  BY <1>1, CountAssumption DEF NewSm, Counters, Frames, Snonces, Pairwise, Is, NoFirst
<1>4. Rested(NewSm, FALSE)
  BY CountAssumption DEF NewSm, Rested, Is
<1> QED  BY <1>2, <1>3, <1>4 DEF Sound

\* wpa_remove_ptk, then flags raised: WPA_AUTH, WPA_ASSOC and WPA_REAUTH.
LEMMA RemovedSound ==
  ASSUME NEW s, NEW m, Sound(m, s), NEW fatal, Rested(m, fatal), NEW n \in Machine(s),
         Same(n, [m EXCEPT !.PTK = 0, !.tk = 0, !.peer = 0]),
         ~ Is(n, "PTK_valid"), Is(n, "update_snonce") <=> Is(m, "update_snonce"),
         Is(n, "prev_key_replay") => Is(m, "prev_key_replay"), ~ Is(n, "PTKRequest")
  PROVE  Sound(n, s)
<1>1. m \in Machine(s)
  BY SoundIs
<1>2. /\ n.ptk = m.ptk /\ n.grp = m.grp /\ n.TimeoutCtr = m.TimeoutCtr
      /\ n.GTimeoutCtr = m.GTimeoutCtr /\ n.rx = m.rx /\ n.key_replay = m.key_replay /\ n.tk = 0
  BY <1>1 DEF Same, Machine
<1> QED  BY <1>2, CalledSound

\* The station is disconnected: it leaves, or its message 2/4 has another WPA IE.
LEMMA LeftSound ==
  ASSUME NEW s, NEW m, Sound(m, s), NEW fatal, Rested(m, fatal)
  PROVE  LET n == wpa_sta_disconnect(m)
         IN  Sound(n, s) /\ (Is(n, "Init") <=> Is(m, "Init"))
                         /\ (Is(n, "GUpdateStationKeys") <=> Is(m, "GUpdateStationKeys"))
<1> DEFINE n == wpa_sta_disconnect(m)
<1>1. m \in Machine(s) /\ ~ Is(m, "PTKRequest")
  BY RestedIs DEF Urgent, Is
<1>2. /\ n \in Machine(s)
      /\ n.flags = ((m.flags \ {"PTK_valid"}) \cup {"DeauthenticationRequest", "changed"})
                            \ {"WLAN_STA_ASSOC"}
      /\ Same(n, [m EXCEPT !.PTK = 0, !.tk = 0, !.peer = 0])
  BY <1>1, DisconnectFields
<1> HIDE DEF n
<1>3. /\ ~ Is(n, "PTK_valid") /\ (Is(n, "update_snonce") <=> Is(m, "update_snonce"))
      /\ Is(n, "prev_key_replay") => Is(m, "prev_key_replay")
      /\ ~ Is(n, "PTKRequest")
      /\ Is(n, "Init") <=> Is(m, "Init")
      /\ Is(n, "GUpdateStationKeys") <=> Is(m, "GUpdateStationKeys")
  BY <1>1, <1>2 DEF Is
<1> QED  BY <1>2, <1>3, RemovedSound DEF n

\* What a callback or a caller promises to the loop that it starts: the station does
\* not begin anew and keeps its mark.
Called(n, m, s) ==
  /\ Sound(n, s) /\ ~ Is(n, "Init")
  /\ Is(n, "GUpdateStationKeys") <=> Is(m, "GUpdateStationKeys")

LEMMA AuthenticateSound ==
  ASSUME NEW s, NEW m, Sound(m, s), NEW fatal, Rested(m, fatal), NEW F \in SUBSET {"WLAN_STA_ASSOC"}
  PROVE  Called(Set(wpa_remove_ptk(m), F), m, s)
<1> DEFINE r == wpa_remove_ptk(m)
           n == Set(r, F)
<1>1. m \in Machine(s) /\ m.flags \cap Urgent = {}
  BY RestedIs
<1>2. /\ r \in Machine(s) /\ r.flags = m.flags \ {"PTK_valid"}
      /\ Same(r, [m EXCEPT !.PTK = 0, !.tk = 0, !.peer = 0])
  BY <1>1, RemoveFields
<1> HIDE DEF r
<1>3. n \in Machine(s) /\ Same(n, r) /\ n.flags = r.flags \cup F
  BY <1>2, SetFields DEF Flag
<1> HIDE DEF n
<1>4. /\ ~ Is(n, "PTK_valid") /\ (Is(n, "update_snonce") <=> Is(m, "update_snonce"))
      /\ Is(n, "prev_key_replay") => Is(m, "prev_key_replay")
      /\ ~ Is(n, "PTKRequest") /\ ~ Is(n, "Init")
      /\ Is(n, "GUpdateStationKeys") <=> Is(m, "GUpdateStationKeys")
  BY <1>1, <1>2, <1>3 DEF Is, Urgent
<1>5. Same(n, [m EXCEPT !.PTK = 0, !.tk = 0, !.peer = 0])
  BY <1>2, <1>3 DEF Same
<1>6. Sound(n, s)
  BY <1>3, <1>4, <1>5, RemovedSound
<1> QED  BY <1>4, <1>6 DEF Called, n, r

\* wpa_send_eapol_timeout
LEMMA TimeoutSound ==
  ASSUME NEW s, NEW m, Sound(m, s), NEW fatal, Rested(m, fatal), m.timeouts > 0
  PROVE  Called(Set([m EXCEPT !.timeouts = @ - 1], {"TimeoutEvt"}), m, s)
<1> DEFINE r == [m EXCEPT !.timeouts = @ - 1]
           n == Set(r, {"TimeoutEvt"})
<1>1. m \in Machine(s) /\ m.flags \cap Urgent = {}
  BY RestedIs
<1>2. m.timeouts - 1 \in Nat
  BY <1>1 DEF Machine
<1>3. /\ r \in Machine(s) /\ r.flags = m.flags
      /\ r.ptk = m.ptk /\ r.grp = m.grp /\ r.TimeoutCtr = m.TimeoutCtr
      /\ r.GTimeoutCtr = m.GTimeoutCtr /\ r.rx = m.rx /\ r.key_replay = m.key_replay
      /\ r.tk = m.tk /\ r.peer = m.peer
  BY <1>1, <1>2 DEF Machine
<1> HIDE DEF r
<1>4. n \in Machine(s) /\ Same(n, r) /\ n.flags = m.flags \cup {"TimeoutEvt"}
  BY <1>3, SetFields DEF Flag
<1> HIDE DEF n
<1>5. /\ Is(n, "PTK_valid") <=> Is(m, "PTK_valid")
      /\ Is(n, "update_snonce") <=> Is(m, "update_snonce")
      /\ Is(n, "prev_key_replay") => Is(m, "prev_key_replay")
      /\ ~ Is(n, "PTKRequest") /\ ~ Is(n, "Init")
      /\ Is(n, "GUpdateStationKeys") <=> Is(m, "GUpdateStationKeys")
  BY <1>1, <1>4 DEF Is, Urgent
<1>6. /\ n.ptk = m.ptk /\ n.grp = m.grp /\ n.TimeoutCtr = m.TimeoutCtr
      /\ n.GTimeoutCtr = m.GTimeoutCtr /\ n.rx = m.rx /\ n.key_replay = m.key_replay
      /\ n.tk = m.tk /\ n.peer = m.peer
  BY <1>3, <1>4 DEF Same
<1>7. Sound(n, s)
  BY <1>4, <1>5, <1>6, CalledSound
<1> QED  BY <1>5, <1>7 DEF Called, n, r

\* wpa_rekey_ptk
LEMMA RekeyPtkSound ==
  ASSUME NEW s, NEW m, Sound(m, s), NEW fatal, Rested(m, fatal), m.rx # "pairwise"
  PROVE  Called(wpa_request_new_ptk(m), m, s)
<1> DEFINE r == Set(m, {"PTKRequest"})
           n == Clear(r, {"PTK_valid"})
<1>1. m \in Machine(s) /\ m.flags \cap Urgent = {}
  BY RestedIs
<1>2. r \in Machine(s) /\ Same(r, m) /\ r.flags = m.flags \cup {"PTKRequest"}
  BY <1>1, SetFields DEF Flag
<1> HIDE DEF r
<1>3. n \in Machine(s) /\ Same(n, r) /\ n.flags = r.flags \ {"PTK_valid"}
  BY <1>2, ClearFields
<1>4. n = wpa_request_new_ptk(m)
  BY DEF wpa_request_new_ptk, r
<1> HIDE DEF n
<1>5. /\ ~ Is(n, "PTK_valid")
      /\ Is(n, "update_snonce") <=> Is(m, "update_snonce")
      /\ Is(n, "prev_key_replay") => Is(m, "prev_key_replay")
      /\ ~ Is(n, "Init")
      /\ Is(n, "GUpdateStationKeys") <=> Is(m, "GUpdateStationKeys")
  BY <1>1, <1>2, <1>3 DEF Is, Urgent
<1>6. /\ n.ptk = m.ptk /\ n.grp = m.grp /\ n.TimeoutCtr = m.TimeoutCtr
      /\ n.GTimeoutCtr = m.GTimeoutCtr /\ n.rx = m.rx /\ n.key_replay = m.key_replay
      /\ n.tk = m.tk /\ n.peer = m.peer
  BY <1>2, <1>3 DEF Same
<1>7. Sound(n, s)
  BY <1>3, <1>5, <1>6, CalledSound
<1> QED  BY <1>4, <1>5, <1>7 DEF Called

\* A key request with a good MIC.
LEMMA AskedSound ==
  ASSUME NEW s, NEW m, Sound(m, s), NEW fatal, Rested(m, fatal)
  PROVE  LET n == [Set(m, {"MICVerified"}) EXCEPT !.timeouts = 0]
         IN  /\ Sound(n, s) /\ Rested(n, fatal) /\ n.rx = m.rx
             /\ Is(n, "GUpdateStationKeys") <=> Is(m, "GUpdateStationKeys")
<1> DEFINE r == Set(m, {"MICVerified"})
           n == [r EXCEPT !.timeouts = 0]
<1>1. m \in Machine(s)
  BY SoundIs
<1>2. r \in Machine(s) /\ Same(r, m) /\ r.flags = m.flags \cup {"MICVerified"}
  BY <1>1, SetFields DEF Flag
<1> HIDE DEF r
<1>3. n \in Machine(s) /\ n.flags = r.flags /\ Same(n, [r EXCEPT !.timeouts = 0]) /\ n.rx = r.rx
  BY <1>2 DEF Machine, Same
<1> HIDE DEF n
<1>4. Same(n, [m EXCEPT !.timeouts = 0]) /\ n.rx = m.rx
  BY <1>1, <1>2, <1>3 DEF Same, Machine
<1>5. /\ \A f \in Flag \ {"MICVerified", "GUpdateStationKeys"} : Is(n, f) <=> Is(m, f)
      /\ Is(n, "GUpdateStationKeys") <=> Is(m, "GUpdateStationKeys")
  BY <1>2, <1>3 DEF Is
<1>6. Sound(n, s) /\ Rested(n, fatal)
  BY <1>3, <1>4, <1>5, RestedSame
<1> QED  BY <1>4, <1>5, <1>6 DEF n, r

\* The end of wpa_receive for a key request.
LEMMA TakingSound ==
  ASSUME NEW s, NEW m, Sound(m, s), NEW fatal, Rested(m, fatal)
  PROVE  Called(Taking(m), m, s)
<1> DEFINE n == Taking(m)
<1>1. m \in Machine(s) /\ m.flags \cap Urgent = {}
  BY RestedIs
<1>2. /\ n \in Machine(s) /\ n.flags = m.flags /\ n.rx = "none"
      /\ n.ptk = m.ptk /\ n.grp = m.grp /\ n.TimeoutCtr = m.TimeoutCtr
      /\ n.GTimeoutCtr = m.GTimeoutCtr /\ n.key_replay = m.key_replay
      /\ n.tk = m.tk /\ n.peer = m.peer
  BY <1>1 DEF Machine, Taking, Keys
<1> HIDE DEF n
<1>3. Sound(n, s)
  BY <1>2, CalledSound DEF Is
<1> QED  BY <1>1, <1>2, <1>3 DEF Called, n, Is, Urgent

\* A request for a new PTK.
LEMMA NewPtkSound ==
  ASSUME NEW s, NEW m, Sound(m, s), NEW fatal, Rested(m, fatal)
  PROVE  Called(Taking(wpa_request_new_ptk(m)), m, s)
<1> DEFINE r == Set(m, {"PTKRequest"})
           q == Clear(r, {"PTK_valid"})
           n == Taking(q)
<1>1. m \in Machine(s) /\ m.flags \cap Urgent = {}
  BY RestedIs
<1>2. r \in Machine(s) /\ Same(r, m) /\ r.flags = m.flags \cup {"PTKRequest"}
  BY <1>1, SetFields DEF Flag
<1> HIDE DEF r
<1>3. q \in Machine(s) /\ Same(q, r) /\ q.flags = r.flags \ {"PTK_valid"}
  BY <1>2, ClearFields
<1>4. n = Taking(wpa_request_new_ptk(m))
  BY DEF wpa_request_new_ptk, r
<1> HIDE DEF q
<1>5. /\ n \in Machine(s) /\ n.flags = q.flags /\ n.rx = "none"
      /\ n.ptk = q.ptk /\ n.grp = q.grp /\ n.TimeoutCtr = q.TimeoutCtr
      /\ n.GTimeoutCtr = q.GTimeoutCtr /\ n.key_replay = q.key_replay
      /\ n.tk = q.tk /\ n.peer = q.peer
  BY <1>3 DEF Machine, Taking, Keys
<1> HIDE DEF n
<1>6. /\ ~ Is(n, "PTK_valid")
      /\ Is(n, "update_snonce") <=> Is(m, "update_snonce")
      /\ Is(n, "prev_key_replay") => Is(m, "prev_key_replay")
      /\ ~ Is(n, "Init")
      /\ Is(n, "GUpdateStationKeys") <=> Is(m, "GUpdateStationKeys")
  BY <1>1, <1>2, <1>3, <1>5 DEF Is, Urgent
<1>7. /\ n.ptk = m.ptk /\ n.grp = m.grp /\ n.TimeoutCtr = m.TimeoutCtr
      /\ n.GTimeoutCtr = m.GTimeoutCtr /\ n.key_replay = m.key_replay
      /\ n.tk = m.tk /\ n.peer = m.peer
  BY <1>2, <1>3, <1>5 DEF Same
<1>8. Sound(n, s)
  BY <1>5, <1>6, <1>7, CalledSound
<1> QED  BY <1>4, <1>6, <1>8 DEF Called

\* wpa_auth_sta_associated, of a machine that has been started.
LEMMA AgainSound ==
  ASSUME NEW s, NEW m, Sound(m, s), NEW fatal, Rested(m, fatal)
  PROVE  Called(Set([m EXCEPT !.key_replay = <<>>], {"ReAuthenticationRequest"}), m, s)
<1> DEFINE r == [m EXCEPT !.key_replay = <<>>]
           n == Set(r, {"ReAuthenticationRequest"})
<1>1. m \in Machine(s) /\ m.flags \cap Urgent = {}
  BY RestedIs
<1>2. /\ r \in Machine(s) /\ r.flags = m.flags /\ r.key_replay = <<>>
      /\ r.ptk = m.ptk /\ r.grp = m.grp /\ r.TimeoutCtr = m.TimeoutCtr
      /\ r.GTimeoutCtr = m.GTimeoutCtr /\ r.rx = m.rx /\ r.tk = m.tk /\ r.peer = m.peer
  <2>1. <<>> \in Seq(Sent(s))
    OBVIOUS
  <2> QED  BY <1>1, <2>1 DEF Machine
<1> HIDE DEF r
<1>3. n \in Machine(s) /\ Same(n, r) /\ n.flags = m.flags \cup {"ReAuthenticationRequest"}
  BY <1>2, SetFields DEF Flag
<1> HIDE DEF n
<1>4. /\ Is(n, "PTK_valid") <=> Is(m, "PTK_valid")
      /\ Is(n, "update_snonce") <=> Is(m, "update_snonce")
      /\ Is(n, "prev_key_replay") => Is(m, "prev_key_replay")
      /\ ~ Is(n, "PTKRequest") /\ ~ Is(n, "Init") /\ n.flags \cap Urgent # {}
      /\ Is(n, "GUpdateStationKeys") <=> Is(m, "GUpdateStationKeys")
  BY <1>1, <1>3 DEF Is, Urgent
<1>5. /\ n.ptk = m.ptk /\ n.grp = m.grp /\ n.TimeoutCtr = m.TimeoutCtr
      /\ n.GTimeoutCtr = m.GTimeoutCtr /\ n.rx = m.rx /\ n.key_replay = <<>>
      /\ n.tk = m.tk /\ n.peer = m.peer
  BY <1>2, <1>3 DEF Same
<1>6. Sound(n, s)
  BY <1>3, <1>4, <1>5, CalledSound
<1> QED  BY <1>4, <1>6 DEF Called, n, r

\* wpa_auth_sta_associated, the first time: Init is raised, and lowered again after
\* a step.
LEMMA StartSound ==
  ASSUME NEW s, NEW m, Sound(m, s), NEW fatal, Rested(m, fatal)
  PROVE  LET n == Set(m, {"started", "Init"})
         IN  /\ Sound(n, s) /\ Is(n, "Init")
             /\ Is(n, "GUpdateStationKeys") <=> Is(m, "GUpdateStationKeys")
<1> DEFINE n == Set(m, {"started", "Init"})
<1>1. m \in Machine(s) /\ m.flags \cap Urgent = {}
  BY RestedIs
<1>2. n \in Machine(s) /\ Same(n, m) /\ n.flags = m.flags \cup {"started", "Init"}
  BY <1>1, SetFields DEF Flag
<1> HIDE DEF n
<1>3. /\ Is(n, "PTK_valid") <=> Is(m, "PTK_valid")
      /\ Is(n, "update_snonce") <=> Is(m, "update_snonce")
      /\ Is(n, "prev_key_replay") => Is(m, "prev_key_replay")
      /\ ~ Is(n, "PTKRequest") /\ Is(n, "Init")
      /\ Is(n, "GUpdateStationKeys") <=> Is(m, "GUpdateStationKeys")
  BY <1>1, <1>2 DEF Is, Urgent
<1>4. Sound(n, s)
  BY <1>2, <1>3, CalledSound DEF Same
<1> QED  BY <1>3, <1>4 DEF n

LEMMA StartedSound ==
  ASSUME NEW s, NEW m, Sound(m, s), Is(m, "Init")
  PROVE  Called(Set(Clear(m, {"Init"}), {"AuthenticationRequest"}), m, s)
<1> DEFINE r == Clear(m, {"Init"})
           n == Set(r, {"AuthenticationRequest"})
<1>1. m \in Machine(s) /\ m.flags \cap Urgent # {}
  BY SoundIs DEF Urgent, Is
<1>2. r \in Machine(s) /\ Same(r, m) /\ r.flags = m.flags \ {"Init"}
  BY <1>1, ClearFields
<1> HIDE DEF r
<1>3. n \in Machine(s) /\ Same(n, r) /\ n.flags = r.flags \cup {"AuthenticationRequest"}
  BY <1>2, SetFields DEF Flag
<1> HIDE DEF n
<1>4. /\ \A f \in {"GUpdateStationKeys", "MICVerified", "PTKRequest", "Disconnect", "PTK_valid",
                   "update_snonce", "prev_key_replay"} : Is(n, f) <=> Is(m, f)
      /\ ~ Is(n, "Init") /\ n.flags \cap Urgent # {}
  BY <1>2, <1>3 DEF Is, Urgent
<1>5. Same(n, m) /\ (NoFirst(m) => NoFirst(n))
  BY <1>2, <1>3 DEF Same, NoFirst
<1>6. m.rx # "group" /\ (m.rx = "pairwise" => ~ Is(m, "PTK_valid"))
  BY <1>1, SoundIs DEF Frames
<1>7. Counters(n)
  BY <1>4, <1>5, SoundIs DEF Counters, Late, Same
<1>8. Frames(n)
  BY <1>4, <1>5, <1>6, SoundIs DEF Frames, Same
<1>9. Snonces(n)
  BY <1>4, <1>5, SoundIs DEF Snonces, Same
<1>10. Pairwise(n)
  BY <1>4, <1>5, SoundIs DEF Pairwise, Same
<1> QED  BY <1>3, <1>4, <1>7, <1>8, <1>9, <1>10 DEF Called, Sound, n, r

\* WPA_REAUTH
LEMMA ReassociatedSound ==
  ASSUME NEW s, NEW m, Sound(m, s), NEW fatal, Rested(m, fatal), NEW g \in GroupSet,
         NEW p \in SUBSET {"PtkGroupInit"}
  PROVE  LET w == [m |-> m, g |-> g]
             u == Unmark(w)
             n == wpa_remove_ptk(Set(u.m, p \cup {"ReAuthenticationRequest"}))
         IN  /\ Sound(n, s) /\ ~ Is(n, "Init") /\ ~ Is(n, "GUpdateStationKeys") /\ u.g \in GroupSet
             /\ Ended(u, w) /\ ~ Is(u.m, "GUpdateStationKeys")
<1> DEFINE w == [m |-> m, g |-> g]
           u == Unmark(w)
           r == Set(u.m, p \cup {"ReAuthenticationRequest"})
           n == wpa_remove_ptk(r)
<1>1. m \in Machine(s) /\ m.flags \cap Urgent = {}
  BY RestedIs
<1>2. w \in World(s) /\ w.m = m
  BY <1>1 DEF World
<1> HIDE DEF w
<1>3. /\ u \in World(s) /\ Same(u.m, m) /\ u.m.flags = m.flags \ {"GUpdateStationKeys"}
      /\ Ended(u, w)
  BY <1>2, UnmarkFields
<1> HIDE DEF u
<1>4. u.m \in Machine(s) /\ u.g \in GroupSet
  BY <1>3 DEF World
<1>5. /\ r \in Machine(s) /\ Same(r, u.m)
      /\ r.flags = u.m.flags \cup (p \cup {"ReAuthenticationRequest"})
  BY <1>4, SetFields DEF Flag
<1> HIDE DEF r
<1>6. /\ n \in Machine(s) /\ n.flags = r.flags \ {"PTK_valid"}
      /\ Same(n, [r EXCEPT !.PTK = 0, !.tk = 0, !.peer = 0])
  BY <1>5, RemoveFields
<1> HIDE DEF n
<1>7. Same(n, [m EXCEPT !.PTK = 0, !.tk = 0, !.peer = 0])
  BY <1>1, <1>3, <1>5, <1>6 DEF Same, Machine
<1>8. /\ ~ Is(n, "PTK_valid") /\ (Is(n, "update_snonce") <=> Is(m, "update_snonce"))
      /\ Is(n, "prev_key_replay") => Is(m, "prev_key_replay")
      /\ ~ Is(n, "PTKRequest") /\ ~ Is(n, "Init")
      /\ ~ Is(n, "GUpdateStationKeys") /\ ~ Is(u.m, "GUpdateStationKeys")
  BY <1>1, <1>3, <1>5, <1>6 DEF Is, Urgent
<1>9. Sound(n, s)
  BY <1>6, <1>7, <1>8, RemovedSound
<1> QED  BY <1>3, <1>4, <1>8, <1>9 DEF n, r, u, w
-----------------------------------------------------------------------------
(***************************************************************************)
(* Frames received.                                                        *)
(***************************************************************************)
\* A frame that passes the check of the MIC, if there is one.
LEMMA VerifiedIs ==
  ASSUME NEW s, NEW m \in Machine(s), NEW k, NEW alt \in BOOLEAN, alt => k \in Keys(s),
         NEW v \in Verified(m, k, alt)
  PROVE  /\ v \in Machine(s) /\ v.ptk = m.ptk /\ v.grp = m.grp /\ v.rx = m.rx
         /\ v.TimeoutCtr = m.TimeoutCtr /\ v.GTimeoutCtr = m.GTimeoutCtr
         /\ v.tk = m.tk /\ v.peer = m.peer /\ v.key_replay = m.key_replay
         /\ \A f \in Flag \ {"MICVerified"} : Is(v, f) <=> Is(m, f)
         /\ Is(m, "PTK_valid") /\ ~ Is(m, "update_snonce") => Is(v, "MICVerified") /\ v.PTK = k
         /\ ~ Is(m, "PTK_valid") \/ Is(m, "update_snonce") => ~ Is(v, "MICVerified")
<1> DEFINE c == Clear(m, {"MICVerified"})
           X == IF c.PTK = k THEN {c} ELSE IF alt THEN TryAltSnonce(c, k) ELSE {}
<1>1. c \in Machine(s) /\ Same(c, m) /\ c.flags = m.flags \ {"MICVerified"}
  BY ClearFields
<1>2. /\ Is(c, "PTK_valid") <=> Is(m, "PTK_valid")
      /\ Is(c, "update_snonce") <=> Is(m, "update_snonce")
  BY <1>1 DEF Is
<1>3. Verified(m, k, alt) =
        IF Is(c, "PTK_valid") /\ ~ Is(c, "update_snonce")
        THEN {Set([x EXCEPT !.timeouts = 0], {"MICVerified"}) : x \in X} ELSE {c}
  BY DEF Verified
<1> HIDE DEF c, X
<1>4. CASE Is(m, "PTK_valid") /\ ~ Is(m, "update_snonce")
  <2>1. PICK x \in X : v = Set([x EXCEPT !.timeouts = 0], {"MICVerified"})
    BY <1>2, <1>3, <1>4
  <2>2. (x = c /\ c.PTK = k) \/ (alt /\ x = [c EXCEPT !.alt = {}, !.PTK = k])
    BY DEF X, TryAltSnonce
  <2>4. /\ x \in Machine(s) /\ x.ptk = c.ptk /\ x.grp = c.grp /\ x.rx = c.rx
        /\ x.TimeoutCtr = c.TimeoutCtr /\ x.GTimeoutCtr = c.GTimeoutCtr
        /\ x.tk = c.tk /\ x.peer = c.peer /\ x.key_replay = c.key_replay
        /\ x.flags = c.flags /\ x.PTK = k
    BY <1>1, <2>2 DEF Machine
  <2> DEFINE y == [x EXCEPT !.timeouts = 0]
  <2>5. /\ y \in Machine(s) /\ y.ptk = c.ptk /\ y.grp = c.grp /\ y.rx = c.rx
        /\ y.TimeoutCtr = c.TimeoutCtr /\ y.GTimeoutCtr = c.GTimeoutCtr
        /\ y.tk = c.tk /\ y.peer = c.peer /\ y.key_replay = c.key_replay
        /\ y.flags = c.flags /\ y.PTK = k
    BY <2>4 DEF Machine
  <2> HIDE DEF y
  <2>6. v \in Machine(s) /\ Same(v, y) /\ v.flags = y.flags \cup {"MICVerified"}
    <3>1. v = Set(y, {"MICVerified"}) /\ {"MICVerified"} \in SUBSET Flag
      BY <2>1 DEF y, Flag
    <3> QED  BY <2>5, <3>1, SetFields
  <2>7. /\ \A f \in Flag \ {"MICVerified"} : Is(v, f) <=> Is(m, f)
        /\ Is(v, "MICVerified")
    BY <1>1, <2>5, <2>6 DEF Is
  <2> QED  BY <1>1, <1>4, <2>5, <2>6, <2>7 DEF Same
<1>5. CASE ~ (Is(m, "PTK_valid") /\ ~ Is(m, "update_snonce"))
  <2>1. v = c
    BY <1>2, <1>3, <1>5
  <2>2. /\ \A f \in Flag \ {"MICVerified"} : Is(v, f) <=> Is(m, f)
        /\ ~ Is(v, "MICVerified")
    BY <1>1, <2>1 DEF Is
  <2> QED  BY <1>1, <1>5, <2>1, <2>2 DEF Same
<1> QED  BY <1>4, <1>5

\* No counter stays valid.
LEMMA TakenIs ==
  ASSUME NEW s, NEW m \in Machine(s), NEW rx \in {"pairwise", "group"}, NEW prev, NEW n \in Keys(s)
  PROVE  LET t == Taken(m, rx, prev, n)
         IN  /\ t \in Machine(s) /\ t.ptk = m.ptk /\ t.grp = m.grp /\ t.rx = rx
             /\ t.TimeoutCtr = m.TimeoutCtr /\ t.GTimeoutCtr = m.GTimeoutCtr
             /\ t.PTK = m.PTK /\ t.tk = m.tk /\ t.peer = m.peer
             /\ t.key_replay = <<>> /\ t.SNonce = n
             /\ \A f \in Flag \ {"prev_key_replay"} : Is(t, f) <=> Is(m, f)
             /\ prev = <<>> => ~ Is(t, "prev_key_replay")
<1> DEFINE p == IF \E i \in DOMAIN prev : prev[i].msg = "1/4" THEN {"prev_key_replay"} ELSE {}
           t == Taken(m, rx, prev, n)
<1>1. t = [m EXCEPT !.rx = rx, !.flags = (m.flags \ {"prev_key_replay"}) \cup p, !.key_replay = <<>>,
                    !.SNonce = n]
  BY DEF Taken
<1>2. p \subseteq {"prev_key_replay"} /\ (prev = <<>> => p = {}) /\ <<>> \in Seq(Sent(s))
  OBVIOUS
<1> HIDE DEF p, t
<1>3. (m.flags \ {"prev_key_replay"}) \cup p \in SUBSET Flag
  BY <1>2 DEF Machine, Flag
<1>4. /\ t \in Machine(s) /\ t.ptk = m.ptk /\ t.grp = m.grp /\ t.rx = rx
      /\ t.TimeoutCtr = m.TimeoutCtr /\ t.GTimeoutCtr = m.GTimeoutCtr
      /\ t.PTK = m.PTK /\ t.tk = m.tk /\ t.peer = m.peer
      /\ t.key_replay = <<>> /\ t.SNonce = n
      /\ t.flags = (m.flags \ {"prev_key_replay"}) \cup p
  BY <1>1, <1>2, <1>3 DEF Machine
<1>5. /\ \A f \in Flag \ {"prev_key_replay"} : Is(t, f) <=> Is(m, f)
      /\ prev = <<>> => ~ Is(t, "prev_key_replay")
  BY <1>2, <1>4 DEF Is
<1> QED  BY <1>4, <1>5 DEF t

\* Message 2/4 for a pending 1/4.
LEMMA Pairwise2Sound ==
  ASSUME NEW s, NEW m, Sound(m, s), NEW fatal, Rested(m, fatal),
         m.ptk \in {"PTKSTART", "PTKCALCNEGOTIATING"}, ~ NoFirst(m),
         NEW n \in Keys(s), NEW prev, NEW k, NEW v \in Verified(m, k, FALSE)
  PROVE  Called(Taken(v, "pairwise", prev, n), m, s)
<1> DEFINE t == Taken(v, "pairwise", prev, n)
<1>1. /\ m \in Machine(s) /\ m.flags \cap Urgent = {} /\ m.TimeoutCtr <= UPDATE_COUNT
      /\ Is(m, "PTK_valid") => ~ Is(m, "update_snonce")
  BY RestedIs
<1>2. /\ v \in Machine(s) /\ v.ptk = m.ptk /\ v.grp = m.grp /\ v.rx = m.rx
      /\ v.TimeoutCtr = m.TimeoutCtr /\ v.GTimeoutCtr = m.GTimeoutCtr
      /\ v.tk = m.tk /\ v.peer = m.peer /\ v.key_replay = m.key_replay
      /\ \A f \in Flag \ {"MICVerified"} : Is(v, f) <=> Is(m, f)
      /\ ~ Is(m, "PTK_valid") \/ Is(m, "update_snonce") => ~ Is(v, "MICVerified")
  <2>1. PICK alt \in BOOLEAN : alt = FALSE
    OBVIOUS
  <2>2. v \in Verified(m, k, alt)
    BY <2>1
  <2> QED  BY <1>1, <2>1, <2>2, VerifiedIs
<1>3. /\ t \in Machine(s) /\ t.ptk = v.ptk /\ t.grp = v.grp /\ t.rx = "pairwise"
      /\ t.TimeoutCtr = v.TimeoutCtr /\ t.GTimeoutCtr = v.GTimeoutCtr
      /\ t.PTK = v.PTK /\ t.tk = v.tk /\ t.peer = v.peer
      /\ t.key_replay = <<>> /\ t.SNonce = n
      /\ \A f \in Flag \ {"prev_key_replay"} : Is(t, f) <=> Is(v, f)
  BY <1>2, TakenIs
<1> HIDE DEF t
<1>4. \A f \in Flag \ {"MICVerified", "prev_key_replay"} : Is(t, f) <=> Is(m, f)
  BY <1>2, <1>3
<1>5. /\ \A f \in Urgent : ~ Is(t, f)
      /\ Is(t, "PTK_valid") <=> Is(m, "PTK_valid")
      /\ Is(t, "update_snonce") <=> Is(m, "update_snonce")
      /\ Is(t, "GUpdateStationKeys") <=> Is(m, "GUpdateStationKeys")
      /\ Is(t, "MICVerified") <=> Is(v, "MICVerified")
  <2>1. \A f \in Urgent : ~ Is(m, f) /\ f \in Flag \ {"MICVerified", "prev_key_replay"}
    BY <1>1 DEF Is, Urgent, Flag
  <2> QED  BY <1>3, <1>4, <2>1 DEF Flag
<1>6. t.flags \cap Urgent = {} /\ ~ Is(t, "PTKRequest") /\ ~ Is(t, "Init")
  BY <1>5 DEF Is, Urgent
<1>7. m.ptk = "PTKCALCNEGOTIATING" => ~ Is(m, "PTK_valid") /\ ~ Is(t, "MICVerified")
  BY <1>2, <1>5, SoundIs DEF Frames
<1>8. NoFirst(t) /\ Len(t.key_replay) = 0
  BY <1>3 DEF NoFirst
<1>9. Counters(t)
  BY <1>1, <1>2, <1>3, <1>8, SoundIs, CountAssumption DEF Counters
<1>10. Frames(t)
  BY <1>2, <1>3, <1>6, <1>7, <1>8 DEF Frames
<1>11. Snonces(t)
  BY <1>1, <1>2, <1>3, <1>5, SoundIs DEF Snonces
<1>12. Pairwise(t)
  BY <1>2, <1>3 DEF Pairwise
<1> QED  BY <1>3, <1>5, <1>6, <1>9, <1>10, <1>11, <1>12 DEF Called, Sound, t

\* Message 2/4 with another SNonce.
LEMMA SnonceSound ==
  ASSUME NEW s, NEW m, Sound(m, s), NEW fatal, Rested(m, fatal), NEW n \in Keys(s), NEW prev,
         m.ptk = "PTKINITNEGOTIATING", Is(m, "prev_key_replay")
  PROVE  LET u == [Clear(Set(m, {"update_snonce"}), {"MICVerified"}) EXCEPT
                     !.alt = {[SNonce |-> m.SNonce, sent |-> SubSeq(m.key_replay, 1, 1)]}]
         IN  Called(Taken(u, "pairwise", prev, n), m, s)
<1> DEFINE a == Set(m, {"update_snonce"})
           b == Clear(a, {"MICVerified"})
           A == {[SNonce |-> m.SNonce, sent |-> SubSeq(m.key_replay, 1, 1)]}
           u == [b EXCEPT !.alt = A]
           t == Taken(u, "pairwise", prev, n)
<1>1. /\ m \in Machine(s) /\ m.flags \cap Urgent = {} /\ m.TimeoutCtr <= UPDATE_COUNT
      /\ m.key_replay # <<>>
  BY RestedIs
<1>2. A \in SUBSET Old(s)
  <2> DEFINE q == m.key_replay
  <2>1. q \in Seq(Sent(s)) /\ q # <<>> /\ m.SNonce \in Keys(s)
    BY <1>1 DEF Machine
  <2> HIDE DEF q
  <2>2. SubSeq(q, 1, 1) \in Seq(Sent(s))
    <3>1. \A j \in 1 .. Len(q) : SubSeq(q, 1, j) \in Seq(Sent(s))
      BY <2>1
    <3>2. Len(q) \in Nat /\ Len(q) # 0
      BY <2>1
    <3> QED  BY <3>1, <3>2
  <2> DEFINE z == SubSeq(q, 1, 1)
             e == [SNonce |-> m.SNonce, sent |-> z]
  <2>3. A = {e}
    BY DEF q
  <2> HIDE DEF A, z
  <2>4. e \in Old(s)
    BY <2>1, <2>2 DEF Old, z
  <2> HIDE DEF e
  <2> QED  BY <2>3, <2>4
<1> HIDE DEF A
<1>3. a \in Machine(s) /\ Same(a, m) /\ a.flags = m.flags \cup {"update_snonce"}
  BY <1>1, SetFields DEF Flag
<1> HIDE DEF a
<1>4. b \in Machine(s) /\ Same(b, a) /\ b.flags = a.flags \ {"MICVerified"}
  BY <1>3, ClearFields
<1> HIDE DEF b
<1>5. /\ u \in Machine(s) /\ u.ptk = m.ptk /\ u.grp = m.grp
      /\ u.TimeoutCtr = m.TimeoutCtr /\ u.GTimeoutCtr = m.GTimeoutCtr
      /\ u.flags = (m.flags \cup {"update_snonce"}) \ {"MICVerified"}
  <2>1. /\ u \in Machine(s) /\ u.ptk = b.ptk /\ u.grp = b.grp
        /\ u.TimeoutCtr = b.TimeoutCtr /\ u.GTimeoutCtr = b.GTimeoutCtr /\ u.flags = b.flags
    BY <1>2, <1>4 DEF Machine
  <2> QED  BY <1>3, <1>4, <2>1 DEF Same
<1>6. u = [Clear(Set(m, {"update_snonce"}), {"MICVerified"}) EXCEPT
             !.alt = {[SNonce |-> m.SNonce, sent |-> SubSeq(m.key_replay, 1, 1)]}]
  BY DEF a, b, A
<1> HIDE DEF u
<1>7. /\ t \in Machine(s) /\ t.ptk = u.ptk /\ t.grp = u.grp /\ t.rx = "pairwise"
      /\ t.TimeoutCtr = u.TimeoutCtr /\ t.GTimeoutCtr = u.GTimeoutCtr
      /\ t.key_replay = <<>> /\ t.SNonce = n
      /\ \A f \in Flag \ {"prev_key_replay"} : Is(t, f) <=> Is(u, f)
  BY <1>5, TakenIs
<1> HIDE DEF t
<1>8. /\ \A f \in Urgent : ~ Is(t, f)
      /\ Is(t, "update_snonce") /\ ~ Is(t, "MICVerified")
      /\ Is(t, "GUpdateStationKeys") <=> Is(m, "GUpdateStationKeys")
  <2>1. \A f \in Urgent : ~ Is(u, f) /\ f \in Flag \ {"prev_key_replay"}
    BY <1>1, <1>5 DEF Is, Urgent, Flag
  <2>2. /\ Is(u, "update_snonce") /\ ~ Is(u, "MICVerified")
        /\ Is(u, "GUpdateStationKeys") <=> Is(m, "GUpdateStationKeys")
    BY <1>5 DEF Is
  <2> QED  BY <1>7, <2>1, <2>2 DEF Flag
<1>9. t.flags \cap Urgent = {} /\ ~ Is(t, "PTKRequest") /\ ~ Is(t, "Init")
  BY <1>8 DEF Is, Urgent
<1>10. NoFirst(t) /\ Len(t.key_replay) = 0
  BY <1>7 DEF NoFirst
<1>11. Counters(t)
  BY <1>1, <1>5, <1>7, <1>10, SoundIs, CountAssumption DEF Counters
<1>12. Frames(t)
  BY <1>5, <1>7, <1>8, <1>9, <1>10 DEF Frames
<1>13. Snonces(t) /\ Pairwise(t)
  BY <1>5, <1>7, <1>8, <1>10 DEF Snonces, Pairwise
<1>14. Called(t, m, s)
  BY <1>7, <1>8, <1>9, <1>11, <1>12, <1>13 DEF Called, Sound
<1> QED  BY <1>6, <1>14 DEF t

\* Message 4/4.
LEMMA Pairwise4Sound ==
  ASSUME NEW s, NEW m, Sound(m, s), NEW fatal, Rested(m, fatal), NEW k \in Keys(s),
         m.ptk = "PTKINITNEGOTIATING", Is(m, "PTK_valid"),
         NEW v \in Verified(m, k, TRUE)
  PROVE  Called([Taken(v, "pairwise", <<>>, 0) EXCEPT !.peer = k], m, s)
<1> DEFINE t == Taken(v, "pairwise", <<>>, 0)
           n == [t EXCEPT !.peer = k]
<1>1. /\ m \in Machine(s) /\ m.flags \cap Urgent = {} /\ m.TimeoutCtr <= UPDATE_COUNT
      /\ ~ Is(m, "update_snonce")
  BY RestedIs
<1>2. /\ v \in Machine(s) /\ v.ptk = m.ptk /\ v.grp = m.grp
      /\ v.TimeoutCtr = m.TimeoutCtr /\ v.GTimeoutCtr = m.GTimeoutCtr
      /\ \A f \in Flag \ {"MICVerified"} : Is(v, f) <=> Is(m, f)
      /\ Is(v, "MICVerified") /\ v.PTK = k
  <2>1. PICK alt \in BOOLEAN : alt = TRUE
    OBVIOUS
  <2>2. v \in Verified(m, k, alt) /\ (alt => k \in Keys(s))
    BY <2>1
  <2>3. \A x \in Verified(m, k, alt) :
          /\ x \in Machine(s) /\ x.ptk = m.ptk /\ x.grp = m.grp
          /\ x.TimeoutCtr = m.TimeoutCtr /\ x.GTimeoutCtr = m.GTimeoutCtr
          /\ \A f \in Flag \ {"MICVerified"} : Is(x, f) <=> Is(m, f)
          /\ Is(x, "MICVerified") /\ x.PTK = k
    BY <1>1, <2>2, VerifiedIs
  <2> QED  BY <2>2, <2>3
<1>3. /\ t \in Machine(s) /\ t.ptk = v.ptk /\ t.grp = v.grp /\ t.rx = "pairwise"
      /\ t.TimeoutCtr = v.TimeoutCtr /\ t.GTimeoutCtr = v.GTimeoutCtr
      /\ t.PTK = v.PTK /\ t.key_replay = <<>>
      /\ \A f \in Flag \ {"prev_key_replay"} : Is(t, f) <=> Is(v, f)
  <2>1. 0 \in Keys(s)
    BY DEF Keys
  <2> QED  BY <1>2, <2>1, TakenIs
<1> HIDE DEF t
<1>4. /\ n \in Machine(s) /\ n.ptk = t.ptk /\ n.grp = t.grp /\ n.rx = "pairwise"
      /\ n.TimeoutCtr = t.TimeoutCtr /\ n.GTimeoutCtr = t.GTimeoutCtr
      /\ n.PTK = t.PTK /\ n.key_replay = <<>> /\ n.peer = k /\ n.flags = t.flags
  BY <1>3 DEF Machine
<1> HIDE DEF n
<1>5. \A f \in Flag \ {"MICVerified", "prev_key_replay"} : Is(n, f) <=> Is(m, f)
  BY <1>2, <1>3, <1>4 DEF Is
<1>6. /\ \A f \in Urgent : ~ Is(n, f)
      /\ ~ Is(n, "update_snonce") /\ Is(n, "MICVerified")
      /\ Is(n, "GUpdateStationKeys") <=> Is(m, "GUpdateStationKeys")
  <2>1. \A f \in Urgent : ~ Is(m, f) /\ f \in Flag \ {"MICVerified", "prev_key_replay"}
    BY <1>1 DEF Is, Urgent, Flag
  <2>2. Is(n, "MICVerified")
    BY <1>2, <1>3, <1>4 DEF Is, Flag
  <2> QED  BY <1>1, <1>5, <2>1, <2>2 DEF Flag
<1>7. n.flags \cap Urgent = {} /\ ~ Is(n, "PTKRequest") /\ ~ Is(n, "Init")
  BY <1>6 DEF Is, Urgent
<1>8. NoFirst(n) /\ Len(n.key_replay) = 0
  BY <1>4 DEF NoFirst
<1>9. Counters(n)
  BY <1>1, <1>2, <1>3, <1>4, <1>8, SoundIs, CountAssumption DEF Counters
<1>10. Frames(n)
  BY <1>2, <1>3, <1>4, <1>6, <1>7, <1>8 DEF Frames
<1>11. Snonces(n) /\ Pairwise(n)
  BY <1>2, <1>3, <1>4, <1>6 DEF Snonces, Pairwise
<1> QED  BY <1>4, <1>6, <1>7, <1>9, <1>10, <1>11 DEF Called, Sound, n, t

\* Message 2/2.
LEMMA Group2Sound ==
  ASSUME NEW s, NEW m, Sound(m, s), NEW fatal, Rested(m, fatal), NEW k,
         m.grp = "REKEYNEGOTIATING", Is(m, "PTK_valid"),
         NEW v \in Verified(m, k, FALSE)
  PROVE  Called(Taken(v, "group", <<>>, 0), m, s)
<1> DEFINE t == Taken(v, "group", <<>>, 0)
<1>1. /\ m \in Machine(s) /\ m.flags \cap Urgent = {} /\ m.TimeoutCtr <= UPDATE_COUNT
      /\ ~ Is(m, "update_snonce") /\ ~ Is(m, "PtkGroupInit")
      /\ m.ptk \notin {"AUTHENTICATION2", "INITPSK", "PTKCALCNEGOTIATING2"}
  BY RestedIs DEF Rested, Is
<1>2. /\ v \in Machine(s) /\ v.ptk = m.ptk /\ v.grp = m.grp
      /\ v.TimeoutCtr = m.TimeoutCtr /\ v.GTimeoutCtr = m.GTimeoutCtr
      /\ v.tk = m.tk /\ v.peer = m.peer
      /\ \A f \in Flag \ {"MICVerified"} : Is(v, f) <=> Is(m, f)
      /\ Is(v, "MICVerified")
  <2>1. PICK alt \in BOOLEAN : alt = FALSE
    OBVIOUS
  <2>2. v \in Verified(m, k, alt)
    BY <2>1
  <2> QED  BY <1>1, <2>1, <2>2, VerifiedIs
<1>3. /\ t \in Machine(s) /\ t.ptk = v.ptk /\ t.grp = v.grp /\ t.rx = "group"
      /\ t.TimeoutCtr = v.TimeoutCtr /\ t.GTimeoutCtr = v.GTimeoutCtr
      /\ t.tk = v.tk /\ t.peer = v.peer /\ t.key_replay = <<>>
      /\ \A f \in Flag \ {"prev_key_replay"} : Is(t, f) <=> Is(v, f)
      /\ ~ Is(t, "prev_key_replay")
  <2>1. 0 \in Keys(s)
    BY DEF Keys
  <2> QED  BY <1>2, <2>1, TakenIs
<1> HIDE DEF t
<1>4. \A f \in Flag \ {"MICVerified", "prev_key_replay"} : Is(t, f) <=> Is(m, f)
  BY <1>2, <1>3
<1>5. /\ \A f \in Urgent : ~ Is(t, f)
      /\ Is(t, "PTK_valid") <=> Is(m, "PTK_valid")
      /\ ~ Is(t, "update_snonce") /\ Is(t, "MICVerified") /\ ~ Is(t, "PtkGroupInit")
      /\ Is(t, "GUpdateStationKeys") <=> Is(m, "GUpdateStationKeys")
  <2>1. \A f \in Urgent : ~ Is(m, f) /\ f \in Flag \ {"MICVerified", "prev_key_replay"}
    BY <1>1 DEF Is, Urgent, Flag
  <2>2. Is(t, "MICVerified")
    BY <1>2, <1>3 DEF Flag
  <2> QED  BY <1>1, <1>4, <2>1, <2>2 DEF Flag
<1>6. t.flags \cap Urgent = {} /\ ~ Is(t, "PTKRequest") /\ ~ Is(t, "Init")
  BY <1>5 DEF Is, Urgent
<1>7. NoFirst(t) /\ Len(t.key_replay) = 0
  BY <1>3 DEF NoFirst
<1>8. Counters(t)
  BY <1>1, <1>2, <1>3, <1>7, SoundIs, CountAssumption DEF Counters
<1>9. Frames(t)
  BY <1>2, <1>3, <1>5, <1>6, <1>7 DEF Frames
<1>10. Snonces(t)
  BY <1>3, <1>5 DEF Snonces
<1>11. Pairwise(t)
  BY <1>2, <1>3, <1>5, SoundIs DEF Pairwise
<1> QED  BY <1>3, <1>5, <1>6, <1>8, <1>9, <1>10, <1>11 DEF Called, Sound, t
-----------------------------------------------------------------------------
(***************************************************************************)
(* The calls that may be on the stack.  Only wpa_rekey_gtk begins a        *)
(* renewal, so the loop over the stations always sits on its loop, and a   *)
(* station that it steps is told of the new key and can end nothing.       *)
(***************************************************************************)
\* What goes on after wpa_rekey_gtk, and after a step of station s.
Back == {<<>>} \cup {<<Frame("request", s)>> : s \in Sta}
After(s) == {<<>>} \cup {<<Frame(c, s)>> : c \in {"assoc", "reassoc", "init", "free"}}
Caller == Back \cup UNION {After(s) : s \in Sta}
WhileRekeying == [at |-> "while", of |-> {}]
Telling(P) == [at |-> "each", of |-> P]

Existing == {s \in Sta : Exists(s)}
Fatal == group.state = "FATAL_FAILURE"

\* P: the stations still to be told of the new GTK.
Count(P) == group.GKeyDoneStations = Cardinality(Marked \ P)

\* No renewal is asked for that could begin.
Settled == group.GTKReKey => Fatal

\* Every station but those of busy is at rest.
Rest(busy) == \A s \in Existing \ busy : Rested(sm[s], Fatal)

\* The station that begins anew, and the one that a caller goes on with.
Starting(x) == {s \in Sta : x = <<Frame("init", s)>>}
CallerOf(x) ==
  {s \in Sta : \E c \in {"assoc", "reassoc", "init", "free", "request"} : x = <<Frame(c, s)>>}

\* No machine is stepped.
Waits(x) ==
  /\ x \in Caller /\ stack = x /\ CallerOf(x) \subseteq Existing
  /\ Rest(Starting(x)) /\ Settled /\ Count({})
  /\ \A s \in Starting(x) : Is(sm[s], "Init")

\* wpa_sm_step of station s.
Steps(s, x) ==
  /\ s \in Existing /\ x \in After(s) /\ stack = <<Frame("step", s)>> \o x
  /\ Rest({s}) /\ Settled /\ Count({})
  /\ Is(sm[s], "Init") <=> x = <<Frame("init", s)>>

\* wpa_rekey_gtk: a turn, the condition of its loop, the loop over the stations, and
\* the step of station t in it.
Renews(x) ==
  /\ x \in Back /\ stack = <<Rekeying>> \o x /\ CallerOf(x) \subseteq Existing
  /\ Rest({}) /\ Count({})
Tests(x) ==
  /\ x \in Back /\ stack = <<WhileRekeying>> \o x /\ CallerOf(x) \subseteq Existing
  /\ Rest({}) /\ Settled /\ Count({})
Tells(x, P) ==
  /\ x \in Back /\ P \subseteq Existing /\ stack = <<Telling(P)>> \o (<<WhileRekeying>> \o x)
  /\ CallerOf(x) \subseteq Existing
  /\ Rest({}) /\ Count(P) /\ group.state = "SETKEYS" /\ ~ group.GTKReKey
TellsOne(x, P, t) ==
  /\ x \in Back /\ P \subseteq Existing /\ t \in Existing \ P
  /\ stack = <<Frame("step", t)>> \o (<<Telling(P)>> \o (<<WhileRekeying>> \o x))
  /\ CallerOf(x) \subseteq Existing
  /\ Rest({t}) /\ Count(P) /\ group.state = "SETKEYS" /\ ~ group.GTKReKey /\ Told(sm[t])

Calls ==
  \/ \E x \in Caller : Waits(x)
  \/ \E s \in Sta : \E x \in After(s) : Steps(s, x)
  \/ \E x \in Back : Renews(x) \/ Tests(x)
  \/ \E x \in Back, P \in SUBSET Sta : Tells(x, P)
  \/ \E x \in Back, P \in SUBSET Sta, t \in Sta : TellsOne(x, P, t)

\* All machines, and those whose group key update is pending.
All(ms) ==
  /\ ms = [s \in Sta |-> ms[s]]
  /\ \A s \in Sta : IF ms[s].ptk = "none" THEN ms[s] = NoSm ELSE Sound(ms[s], s)
MarkedIn(ms) == {s \in Sta : Is(ms[s], "GUpdateStationKeys")}

Base ==
  /\ All(sm) /\ group \in GroupSet /\ group.GKeyDoneStations \in Nat
  /\ group.state = "SETKEYSDONE" => Marked = {}

\* The inductive invariant.
Inv == Base /\ Calls

Place == {"step", "while", "each", "assoc", "reassoc", "init", "free", "request"}
FrameSet == [at : Place, of : SUBSET Sta]

LEMMA PushIs ==
  ASSUME NEW S, NEW f \in S, NEW x \in Seq(S)
  PROVE  /\ <<f>> \o x \in Seq(S) /\ <<f>> \o x # <<>>
         /\ Head(<<f>> \o x) = f /\ Tail(<<f>> \o x) = x
         /\ Len(<<f>> \o x) = Len(x) + 1 /\ (<<f>> \o x)[1] = f
         /\ \A i \in 2 .. Len(x) + 1 : (<<f>> \o x)[i] = x[i - 1]
<1> DEFINE y == <<f>> \o x
<1>1. /\ y \in Seq(S) /\ Len(y) = Len(x) + 1 /\ Len(x) \in Nat /\ y[1] = f
      /\ \A i \in 2 .. Len(x) + 1 : y[i] = x[i - 1]
  OBVIOUS
<1> HIDE DEF y
<1>2. y # <<>> /\ Head(y) = f
  BY <1>1
<1>3. /\ Tail(y) \in Seq(S) /\ Len(Tail(y)) = Len(x)
      /\ \A i \in 1 .. Len(x) : Tail(y)[i] = y[i + 1]
  BY <1>1, <1>2
<1>4. \A i \in 1 .. Len(x) : Tail(y)[i] = x[i]
  <2> TAKE i \in 1 .. Len(x)
  <2>1. i + 1 \in 2 .. Len(x) + 1 /\ (i + 1) - 1 = i
    BY <1>1
  <2> QED  BY <1>1, <1>3, <2>1
<1>5. Tail(y) = x
  BY <1>1, <1>3, <1>4
<1> QED  BY <1>1, <1>2, <1>5 DEF y

LEMMA FramesOf ==
  /\ \A s \in Sta : \A c \in Place : Frame(c, s) \in FrameSet
  /\ \A s \in Sta : Frame("step", s) \in FrameSet
  /\ Rekeying \in FrameSet /\ WhileRekeying \in FrameSet
  /\ \A P \in SUBSET Sta : Telling(P) \in FrameSet
  /\ Caller \subseteq Seq(FrameSet) /\ Back \subseteq Seq(FrameSet) /\ Back \subseteq Caller
  /\ \A s \in Sta : After(s) \subseteq Caller /\ After(s) \subseteq Seq(FrameSet)
<1>1. \A s \in Sta : \A c \in Place : Frame(c, s) \in FrameSet
  BY DEF Frame, FrameSet
<1>2. \A f \in FrameSet : <<f>> \in Seq(FrameSet)
  OBVIOUS
<1>3. ASSUME NEW x \in Back PROVE x \in Seq(FrameSet)
  <2>1. CASE x = <<>>
    BY <2>1
  <2>2. CASE x # <<>>
    <3>1. PICK s \in Sta : x = <<Frame("request", s)>>
      BY <2>2 DEF Back
    <3>2. Frame("request", s) \in FrameSet
      BY <1>1 DEF Place
    <3> QED  BY <1>2, <3>1, <3>2
  <2> QED  BY <2>1, <2>2
<1>4. ASSUME NEW s \in Sta, NEW x \in After(s) PROVE x \in Seq(FrameSet)
  <2>1. CASE x = <<>>
    BY <2>1
  <2>2. CASE x # <<>>
    <3>1. PICK c \in {"assoc", "reassoc", "init", "free"} : x = <<Frame(c, s)>>
      BY <2>2 DEF After
    <3>2. Frame(c, s) \in FrameSet
      BY <1>1 DEF Place
    <3> QED  BY <1>2, <3>1, <3>2
  <2> QED  BY <2>1, <2>2
<1>5. Rekeying \in FrameSet /\ WhileRekeying \in FrameSet /\ \A P \in SUBSET Sta : Telling(P) \in FrameSet
  BY DEF Rekeying, WhileRekeying, Telling, FrameSet, Place
<1>6. \A s \in Sta : Frame("step", s) \in FrameSet
  BY <1>1 DEF Place
<1>7. Caller \subseteq Seq(FrameSet) /\ Back \subseteq Caller /\ \A s \in Sta : After(s) \subseteq Caller
  BY <1>3, <1>4 DEF Caller
<1> QED  BY <1>1, <1>3, <1>4, <1>5, <1>6, <1>7

\* The innermost call of each shape.
LEMMA Tops ==
  /\ \A x \in Caller :
       Waits(x) /\ stack # <<>> =>
         \E s \in Sta : \E c \in {"assoc", "reassoc", "init", "free", "request"} :
           x = <<Frame(c, s)>> /\ Top = Frame(c, s) /\ Tail(stack) = <<>>
  /\ \A s \in Sta : \A x \in After(s) :
       Steps(s, x) => stack # <<>> /\ Top = Frame("step", s) /\ Tail(stack) = x
  /\ \A x \in Back :
       /\ Renews(x) => stack # <<>> /\ Top = Rekeying /\ Tail(stack) = x
       /\ Tests(x) => stack # <<>> /\ Top = WhileRekeying /\ Tail(stack) = x
  /\ \A x \in Back, P \in SUBSET Sta :
       Tells(x, P) => stack # <<>> /\ Top = Telling(P) /\ Tail(stack) = <<WhileRekeying>> \o x
  /\ \A x \in Back, P \in SUBSET Sta, t \in Sta :
       TellsOne(x, P, t) => /\ stack # <<>> /\ Top = Frame("step", t)
                            /\ Tail(stack) = <<Telling(P)>> \o (<<WhileRekeying>> \o x)
<1>1. ASSUME NEW x \in Caller, Waits(x), stack # <<>>
      PROVE  \E s \in Sta : \E c \in {"assoc", "reassoc", "init", "free", "request"} :
               x = <<Frame(c, s)>> /\ Top = Frame(c, s) /\ Tail(stack) = <<>>
  <2>1. x # <<>> /\ stack = x
    BY <1>1 DEF Waits
  <2>2. PICK s \in Sta, c \in {"assoc", "reassoc", "init", "free", "request"} : x = <<Frame(c, s)>>
    BY <2>1 DEF Caller, Back, After
  <2>3. Head(<<Frame(c, s)>>) = Frame(c, s) /\ Tail(<<Frame(c, s)>>) = <<>>
    OBVIOUS
  <2> QED  BY <2>1, <2>2, <2>3 DEF Top
<1>2. ASSUME NEW s \in Sta, NEW x \in After(s), Steps(s, x)
      PROVE  stack # <<>> /\ Top = Frame("step", s) /\ Tail(stack) = x
  <2>1. Frame("step", s) \in FrameSet /\ x \in Seq(FrameSet)
    BY FramesOf
  <2> QED  BY <1>2, <2>1, PushIs DEF Steps, Top
<1>3. ASSUME NEW x \in Back
      PROVE  /\ Renews(x) => stack # <<>> /\ Top = Rekeying /\ Tail(stack) = x
             /\ Tests(x) => stack # <<>> /\ Top = WhileRekeying /\ Tail(stack) = x
  <2>1. Rekeying \in FrameSet /\ WhileRekeying \in FrameSet /\ x \in Seq(FrameSet)
    BY FramesOf
  <2>2. \A f \in FrameSet : <<f>> \o x # <<>> /\ Head(<<f>> \o x) = f /\ Tail(<<f>> \o x) = x
    BY <2>1, PushIs
  <2> QED  BY <2>1, <2>2 DEF Renews, Tests, Top
<1>4. ASSUME NEW x \in Back, NEW P \in SUBSET Sta, Tells(x, P)
      PROVE  stack # <<>> /\ Top = Telling(P) /\ Tail(stack) = <<WhileRekeying>> \o x
  <2>1. WhileRekeying \in FrameSet /\ Telling(P) \in FrameSet /\ x \in Seq(FrameSet)
    BY FramesOf
  <2>2. <<WhileRekeying>> \o x \in Seq(FrameSet)
    BY <2>1, PushIs
  <2> QED  BY <1>4, <2>1, <2>2, PushIs DEF Tells, Top
<1>5. ASSUME NEW x \in Back, NEW P \in SUBSET Sta, NEW t \in Sta, TellsOne(x, P, t)
      PROVE  /\ stack # <<>> /\ Top = Frame("step", t)
             /\ Tail(stack) = <<Telling(P)>> \o (<<WhileRekeying>> \o x)
  <2>1. /\ WhileRekeying \in FrameSet /\ Telling(P) \in FrameSet /\ Frame("step", t) \in FrameSet
        /\ x \in Seq(FrameSet)
    BY FramesOf
  <2>2. <<WhileRekeying>> \o x \in Seq(FrameSet)
    BY <2>1, PushIs
  <2>3. <<Telling(P)>> \o (<<WhileRekeying>> \o x) \in Seq(FrameSet)
    BY <2>1, <2>2, PushIs
  <2> QED  BY <1>5, <2>1, <2>3, PushIs DEF TellsOne, Top
<1> QED  BY <1>1, <1>2, <1>3, <1>4, <1>5

\* The shape of the stack, told from the innermost call.
LEMMA Which ==
  ASSUME Calls
  PROVE  /\ stack = <<>> => Waits(<<>>)
         /\ stack # <<>> =>
              /\ \A s \in Sta : Top = Frame("step", s) =>
                   \/ \E x \in After(s) : Steps(s, x)
                   \/ \E x \in Back, P \in SUBSET Sta : TellsOne(x, P, s)
              /\ Top = Rekeying => \E x \in Back : Renews(x)
              /\ Top.at = "while" => \E x \in Back : Tests(x)
              /\ Top.at = "each" => \E x \in Back, P \in SUBSET Sta : Tells(x, P)
              /\ \A s \in Sta : \A c \in {"assoc", "reassoc", "init", "free", "request"} :
                   Top = Frame(c, s) => Waits(<<Frame(c, s)>>) /\ Tail(stack) = <<>>
<1>1. \A c, s : Frame(c, s).at = c /\ Frame(c, s).of = {s}
  BY DEF Frame
<1>2. /\ Rekeying.at = "step" /\ Rekeying.of = {} /\ WhileRekeying.at = "while"
      /\ \A P : Telling(P).at = "each"
  BY DEF Rekeying, WhileRekeying, Telling
<1>3. CASE \E x \in Caller : Waits(x)
  <2>1. PICK x \in Caller : Waits(x)
    BY <1>3
  <2>2. CASE stack = <<>>
    BY <2>1, <2>2 DEF Waits
  <2>3. CASE stack # <<>>
    <3>1. PICK t \in Sta, d \in {"assoc", "reassoc", "init", "free", "request"} :
            x = <<Frame(d, t)>> /\ Top = Frame(d, t) /\ Tail(stack) = <<>>
      BY <2>1, <2>3, Tops
    <3>2. Top.at = d /\ Top.of = {t}
      BY <1>1, <3>1
    <3>3. \A s \in Sta : \A c \in {"assoc", "reassoc", "init", "free", "request"} :
            Top = Frame(c, s) => c = d /\ s = t
      BY <1>1, <3>2
    <3>4. \A s \in Sta : Top # Frame("step", s)
      BY <1>1, <3>2
    <3>5. Top # Rekeying /\ Top.at \notin {"while", "each"}
      BY <1>2, <3>2
    <3> QED  BY <2>1, <2>3, <3>1, <3>3, <3>4, <3>5
  <2> QED  BY <2>2, <2>3
<1>4. CASE \E t \in Sta : \E x \in After(t) : Steps(t, x)
  <2>1. PICK t \in Sta : \E x \in After(t) : Steps(t, x)
    BY <1>4
  <2>2. stack # <<>> /\ Top = Frame("step", t)
    BY <2>1, Tops
  <2>3. Top.at = "step" /\ Top.of = {t}
    BY <1>1, <2>2
  <2>4. \A s \in Sta : Top = Frame("step", s) => s = t
    BY <1>1, <2>3
  <2>5. /\ Top # Rekeying
        /\ \A s \in Sta : \A c \in {"assoc", "reassoc", "init", "free", "request"} : Top # Frame(c, s)
    BY <1>1, <1>2, <2>3
  <2> QED  BY <2>1, <2>2, <2>3, <2>4, <2>5
<1>5. CASE \E x \in Back : Renews(x) \/ Tests(x)
  <2>1. PICK x \in Back : Renews(x) \/ Tests(x)
    BY <1>5
  <2>2. stack # <<>> /\ ((Renews(x) /\ Top = Rekeying) \/ (Tests(x) /\ Top = WhileRekeying))
    BY <2>1, Tops
  <2>3. \A c : \A s \in Sta : Top # Frame(c, s)
    BY <1>1, <2>2 DEF Rekeying, WhileRekeying
  <2> QED  BY <1>2, <2>1, <2>2, <2>3
<1>6. CASE \E x \in Back, P \in SUBSET Sta : Tells(x, P)
  <2>1. PICK x \in Back, P \in SUBSET Sta : Tells(x, P)
    BY <1>6
  <2>2. stack # <<>> /\ Top = Telling(P) /\ Top.at = "each"
    BY <1>2, <2>1, Tops
  <2>3. /\ Top # Rekeying
        /\ \A s \in Sta : \A c \in {"step", "assoc", "reassoc", "init", "free", "request"} : Top # Frame(c, s)
    BY <1>1, <1>2, <2>2
  <2> QED  BY <2>1, <2>2, <2>3
<1>7. CASE \E x \in Back, P \in SUBSET Sta, t \in Sta : TellsOne(x, P, t)
  <2>1. PICK x \in Back, P \in SUBSET Sta, t \in Sta : TellsOne(x, P, t)
    BY <1>7
  <2>2. stack # <<>> /\ Top = Frame("step", t)
    BY <2>1, Tops
  <2>3. Top.at = "step" /\ Top.of = {t}
    BY <1>1, <2>2
  <2>4. \A s \in Sta : Top = Frame("step", s) => s = t
    BY <1>1, <2>3
  <2>5. /\ Top # Rekeying
        /\ \A s \in Sta : \A c \in {"assoc", "reassoc", "init", "free", "request"} : Top # Frame(c, s)
    BY <1>1, <1>2, <2>3
  <2> QED  BY <2>1, <2>2, <2>3, <2>4, <2>5
<1> QED  BY <1>3, <1>4, <1>5, <1>6, <1>7 DEF Calls

\* Callers and the stations they name.
LEMMA CallersAre ==
  /\ <<>> \in Caller /\ <<>> \in Back /\ CallerOf(<<>>) = {} /\ Starting(<<>>) = {}
  /\ \A s \in Sta :
       /\ <<>> \in After(s) /\ <<Frame("request", s)>> \in Back
       /\ \A x \in After(s) : /\ CallerOf(x) \subseteq {s} /\ Starting(x) \subseteq {s}
                              /\ x # <<Frame("init", s)>> => Starting(x) = {}
       /\ \A c \in {"assoc", "reassoc", "init", "free"} :
            /\ <<Frame(c, s)>> \in After(s) /\ <<Frame(c, s)>> # <<>>
            /\ c # "init" => <<Frame(c, s)>> # <<Frame("init", s)>>
       /\ \A c \in {"assoc", "reassoc", "init", "free", "request"} :
            /\ CallerOf(<<Frame(c, s)>>) = {s}
            /\ c # "init" => Starting(<<Frame(c, s)>>) = {}
       /\ Starting(<<Frame("init", s)>>) = {s}
  /\ \A x \in Back : Starting(x) = {}
<1>1. \A f, g : <<f>> = <<g>> <=> f = g
  OBVIOUS
<1>2. \A c, d, s, t : Frame(c, s) = Frame(d, t) <=> c = d /\ s = t
  <2>1. \A c, s : Frame(c, s).at = c /\ Frame(c, s).of = {s}
    BY DEF Frame
  <2> QED  BY <2>1
<1>3. \A f : <<f>> # <<>>
  OBVIOUS
<1>4. \A s \in Sta : \A c \in {"assoc", "reassoc", "init", "free", "request"} :
        CallerOf(<<Frame(c, s)>>) = {s}
  BY <1>1, <1>2 DEF CallerOf
<1>5. \A s \in Sta : \A c \in {"assoc", "reassoc", "init", "free", "request"} :
        c # "init" => Starting(<<Frame(c, s)>>) = {}
  BY <1>1, <1>2 DEF Starting
<1>6. \A s \in Sta : Starting(<<Frame("init", s)>>) = {s}
  BY <1>1, <1>2 DEF Starting
<1>7. CallerOf(<<>>) = {} /\ Starting(<<>>) = {}
  BY <1>3 DEF CallerOf, Starting
<1>8. /\ <<>> \in Caller /\ <<>> \in Back
      /\ \A s \in Sta :
           /\ <<>> \in After(s) /\ <<Frame("request", s)>> \in Back
           /\ \A c \in {"assoc", "reassoc", "init", "free"} :
                /\ <<Frame(c, s)>> \in After(s) /\ <<Frame(c, s)>> # <<>>
                /\ c # "init" => <<Frame(c, s)>> # <<Frame("init", s)>>
  BY <1>1, <1>2, <1>3 DEF Caller, Back, After
<1>9. ASSUME NEW s \in Sta, NEW x \in After(s)
      PROVE  /\ CallerOf(x) \subseteq {s} /\ Starting(x) \subseteq {s}
             /\ x # <<Frame("init", s)>> => Starting(x) = {}
  <2>1. CASE x = <<>>
    BY <1>7, <2>1
  <2>2. CASE x # <<>>
    <3>1. PICK c \in {"assoc", "reassoc", "init", "free"} : x = <<Frame(c, s)>>
      BY <2>2 DEF After
    <3> QED  BY <1>4, <1>5, <1>6, <3>1
  <2> QED  BY <2>1, <2>2
<1>10. ASSUME NEW x \in Back PROVE Starting(x) = {}
  <2>1. CASE x = <<>>
    BY <1>7, <2>1
  <2>2. CASE x # <<>>
    <3>1. PICK s \in Sta : x = <<Frame("request", s)>>
      BY <2>2 DEF Back
    <3> QED  BY <1>5, <3>1
  <2> QED  BY <2>1, <2>2
<1> QED  BY <1>4, <1>5, <1>6, <1>7, <1>8, <1>9, <1>10
-----------------------------------------------------------------------------
(***************************************************************************)
(* A step changes one machine, and the number of pending updates with it.  *)
(***************************************************************************)
Put(ms, s, n) == [ms EXCEPT ![s] = n]

LEMMA OneChanged ==
  ASSUME NEW ms, All(ms), NEW s \in Sta, NEW n, Sound(n, s),
         NEW ns, ns = Put(ms, s, n)
  PROVE  /\ All(ns) /\ ns[s] = n /\ n.ptk # "none" /\ \A t \in Sta \ {s} : ns[t] = ms[t]
         /\ {t \in Sta : ns[t].ptk # "none"} = {t \in Sta : ms[t].ptk # "none"} \cup {s}
         /\ Is(n, "GUpdateStationKeys") => MarkedIn(ns) = MarkedIn(ms) \cup {s}
         /\ ~ Is(n, "GUpdateStationKeys") => MarkedIn(ns) = MarkedIn(ms) \ {s}
<1>1. n.ptk # "none"
  BY SoundIs DEF Machine, PtkState
<1>2. ns = [t \in Sta |-> ns[t]] /\ ns[s] = n /\ \A t \in Sta \ {s} : ns[t] = ms[t]
  BY DEF All, Put
<1>3. All(ns)
  BY <1>1, <1>2 DEF All
<1> QED  BY <1>1, <1>2, <1>3 DEF MarkedIn

\* Stations that do not exist are not marked.
LEMMA MarkedExist ==
  ASSUME NEW ms, All(ms)
  PROVE  /\ MarkedIn(ms) \subseteq {s \in Sta : ms[s].ptk # "none"}
         /\ IsFiniteSet(MarkedIn(ms)) /\ \A P : IsFiniteSet(MarkedIn(ms) \ P)
<1>1. NoSm.flags = {}
  BY DEF NoSm, NewSm
<1>2. \A s \in MarkedIn(ms) : ms[s].ptk # "none"
  BY <1>1 DEF MarkedIn, All, Is
<1>3. MarkedIn(ms) \in SUBSET Sta
  BY DEF MarkedIn
<1>4. IsFiniteSet(MarkedIn(ms))
  BY <1>3, StaAssumption, FS_Subset
<1>5. \A P : MarkedIn(ms) \ P \in SUBSET MarkedIn(ms)
  OBVIOUS
<1>6. \A P : IsFiniteSet(MarkedIn(ms) \ P)
  BY <1>4, <1>5, FS_Subset
<1> QED  BY <1>2, <1>3, <1>4, <1>6

\* The group after machine m has become n: the station keeps its mark, or is counted
\* out.
Tally(h, n, g, m) ==
  /\ h \in GroupSet /\ h.state = g.state /\ h.GTKReKey = g.GTKReKey
  /\ \/ /\ h.GKeyDoneStations = g.GKeyDoneStations
        /\ Is(n, "GUpdateStationKeys") <=> Is(m, "GUpdateStationKeys")
     \/ /\ h.GKeyDoneStations = g.GKeyDoneStations - 1
        /\ Is(m, "GUpdateStationKeys") /\ ~ Is(n, "GUpdateStationKeys")

LEMMA TallyCount ==
  ASSUME Base, NEW s \in Sta, NEW n, Sound(n, s), NEW h, Tally(h, n, group, sm[s]),
         NEW P, s \notin P, Count(P), NEW ns, ns = Put(sm, s, n)
  PROVE  /\ h.GKeyDoneStations \in Nat
         /\ h.GKeyDoneStations = Cardinality(MarkedIn(ns) \ P)
         /\ MarkedIn(ns) \subseteq Marked
<1> DEFINE M == Marked \ P
<1>1. Marked = MarkedIn(sm) /\ All(sm)
  BY DEF Base, Marked, MarkedIn
<1>2. /\ Is(n, "GUpdateStationKeys") => MarkedIn(ns) = Marked \cup {s}
      /\ ~ Is(n, "GUpdateStationKeys") => MarkedIn(ns) = Marked \ {s}
  <2>1. /\ Is(n, "GUpdateStationKeys") => MarkedIn(ns) = MarkedIn(sm) \cup {s}
        /\ ~ Is(n, "GUpdateStationKeys") => MarkedIn(ns) = MarkedIn(sm) \ {s}
    BY <1>1, OneChanged
  <2> QED  BY <1>1, <2>1
<1>3. s \in Marked <=> Is(sm[s], "GUpdateStationKeys")
  BY DEF Marked
<1>4. IsFiniteSet(M) /\ Cardinality(M) \in Nat /\ IsFiniteSet(M \ {s}) /\ Cardinality(M \ {s}) \in Nat
  <2>1. IsFiniteSet(M)
    BY <1>1, MarkedExist
  <2>2. IsFiniteSet(M \ {s})
    BY <2>1, FS_RemoveElement
  <2> HIDE DEF M
  <2> QED  BY <2>1, <2>2, FS_CardinalityType
<1>5. s \in M => Cardinality(M \ {s}) = Cardinality(M) - 1
  BY <1>4, FS_RemoveElement
<1> HIDE DEF M
<1>6. group.GKeyDoneStations = Cardinality(M)
  BY DEF Count, M
<1>7. CASE /\ h.GKeyDoneStations = group.GKeyDoneStations
           /\ Is(n, "GUpdateStationKeys") <=> Is(sm[s], "GUpdateStationKeys")
  <2>1. MarkedIn(ns) = Marked
    BY <1>2, <1>3, <1>7
  <2> QED  BY <1>4, <1>6, <1>7, <2>1 DEF M
<1>8. CASE /\ h.GKeyDoneStations = group.GKeyDoneStations - 1
           /\ Is(sm[s], "GUpdateStationKeys") /\ ~ Is(n, "GUpdateStationKeys")
  <2>1. MarkedIn(ns) = Marked \ {s} /\ s \in M
    BY <1>2, <1>3, <1>8 DEF M
  <2>2. MarkedIn(ns) \ P = M \ {s}
    BY <2>1 DEF M
  <2> QED  BY <1>4, <1>5, <1>6, <1>8, <2>1, <2>2
<1> QED  BY <1>7, <1>8 DEF Tally

\* One machine changes, and the group with it.
Changes(s, n) == sm' = Put(sm, s, n) /\ Sound(n, s) /\ Tally(group', n, group, sm[s])

LEMMA ChangedBase ==
  ASSUME Base, NEW s \in Sta, NEW n, Changes(s, n), NEW P, s \notin P, Count(P)
  PROVE  /\ Base' /\ Count(P)' /\ Existing' = Existing \cup {s} /\ sm'[s] = n
         /\ Fatal' = Fatal /\ (Settled => Settled') /\ group'.state = group.state
         /\ group'.GTKReKey = group.GTKReKey
         /\ Rest({s}) => Rest({s})'
         /\ Rest({s}) /\ Rested(n, Fatal) => Rest({})'
<1>1. Sound(n, s) /\ sm' = Put(sm, s, n) /\ All(sm) /\ Tally(group', n, group, sm[s])
  BY DEF Changes, Base
<1>2. /\ All(sm') /\ sm'[s] = n /\ n.ptk # "none" /\ \A t \in Sta \ {s} : sm'[t] = sm[t]
      /\ {t \in Sta : sm'[t].ptk # "none"} = {t \in Sta : sm[t].ptk # "none"} \cup {s}
  BY <1>1, OneChanged
<1>3. /\ group'.GKeyDoneStations \in Nat
      /\ group'.GKeyDoneStations = Cardinality(MarkedIn(sm') \ P)
      /\ MarkedIn(sm') \subseteq Marked
  BY <1>1, TallyCount
<1>4. Marked' = MarkedIn(sm')
  BY DEF Marked, MarkedIn
<1>5. /\ group' \in GroupSet /\ group'.state = group.state /\ group'.GTKReKey = group.GTKReKey
  BY <1>1 DEF Tally
<1>6. Base'
  BY <1>2, <1>3, <1>4, <1>5 DEF Base
<1>7. Count(P)'
  BY <1>3, <1>4 DEF Count
<1>8. Existing' = Existing \cup {s}
  BY <1>2 DEF Existing, Exists
<1>9. Fatal' = Fatal /\ (Settled => Settled')
  BY <1>5 DEF Fatal, Settled
<1>10. Rest({s}) => Rest({s})'
  BY <1>2, <1>8, <1>9 DEF Rest, Existing
<1>11. Rest({s}) /\ Rested(n, Fatal) => Rest({})'
  BY <1>2, <1>8, <1>9 DEF Rest, Existing
<1> QED  BY <1>2, <1>5, <1>6, <1>7, <1>8, <1>9, <1>10, <1>11

\* Fewer stations are busy.
LEMMA RestLess ==
  ASSUME Rest({}), NEW busy
  PROVE  Rest(busy)
BY DEF Rest

\* A station is stepped.
LEMMA StepInv ==
  ASSUME Base, NEW s \in Sta, NEW n, Changes(s, n), Rest({s}), Settled, Count({}),
         NEW x \in After(s), stack' = <<Frame("step", s)>> \o x,
         Is(n, "Init") <=> x = <<Frame("init", s)>>
  PROVE  Inv'
<1>1. s \notin {}
  OBVIOUS
<1>2. /\ Base' /\ Count({})' /\ Existing' = Existing \cup {s} /\ sm'[s] = n
      /\ Settled' /\ Rest({s})'
  BY <1>1, ChangedBase
<1>3. Steps(s, x)'
  BY <1>2 DEF Steps
<1>4. Calls'
  BY <1>3 DEF Calls
<1> QED  BY <1>2, <1>4 DEF Inv

LEMMA Pushes ==
  /\ \A f : <<f>> = <<f>> \o <<>>
  /\ \A f, g : <<f, g>> = <<f>> \o <<g>>
  /\ \A S : \A f, g \in S : \A x \in Seq(S) : <<f, g>> \o x = <<f>> \o (<<g>> \o x)
<1>1. \A f : <<f>> = <<f>> \o <<>>
  OBVIOUS
<1>2. ASSUME NEW f, NEW g PROVE <<f, g>> = <<f>> \o <<g>>
  <2> DEFINE y == <<f>> \o <<g>>
             z == <<f, g>>
  <2>1. f \in {f, g} /\ <<g>> \in Seq({f, g}) /\ Len(<<g>>) = 1 /\ <<g>>[1] = g
    OBVIOUS
  <2>2. y \in Seq({f, g}) /\ Len(y) = 2 /\ y[1] = f /\ y[2] = g
    <3>1. /\ y \in Seq({f, g}) /\ Len(y) = Len(<<g>>) + 1 /\ y[1] = f
          /\ \A i \in 2 .. Len(<<g>>) + 1 : y[i] = <<g>>[i - 1]
      BY <2>1, PushIs
    <3> QED  BY <2>1, <3>1
  <2>3. z \in Seq({f, g}) /\ Len(z) = 2 /\ z[1] = f /\ z[2] = g
    OBVIOUS
  <2> HIDE DEF y, z
  <2>4. \A i \in 1 .. 2 : y[i] = z[i]
    BY <2>2, <2>3
  <2>5. y = z
    BY <2>2, <2>3, <2>4
  <2> QED  BY <2>5 DEF y, z
<1>3. ASSUME NEW S, NEW f \in S, NEW g \in S, NEW x \in Seq(S)
      PROVE  <<f, g>> \o x = <<f>> \o (<<g>> \o x)
  <2> DEFINE y == <<f, g>> \o x
             u == <<g>> \o x
             z == <<f>> \o u
  <2>1. /\ u \in Seq(S) /\ Len(u) = Len(x) + 1 /\ u[1] = g /\ Len(x) \in Nat
        /\ \A i \in 2 .. Len(x) + 1 : u[i] = x[i - 1]
    BY PushIs
  <2> HIDE DEF u
  <2>2. /\ z \in Seq(S) /\ Len(z) = Len(u) + 1 /\ z[1] = f
        /\ \A i \in 2 .. Len(u) + 1 : z[i] = u[i - 1]
    BY <2>1, PushIs
  <2>3. /\ y \in Seq(S) /\ Len(y) = Len(x) + 2 /\ y[1] = f /\ y[2] = g
        /\ \A i \in 3 .. Len(x) + 2 : y[i] = x[i - 2]
    OBVIOUS
  <2> HIDE DEF y, z
  <2>4. ASSUME NEW i \in 1 .. Len(x) + 2 PROVE y[i] = z[i]
    <3>1. CASE i = 1
      BY <2>2, <2>3, <3>1
    <3>2. CASE i = 2
      BY <2>1, <2>2, <2>3, <3>2
    <3>3. CASE i > 2
      <4>1. i \in 3 .. Len(x) + 2 /\ i - 1 \in 2 .. Len(x) + 1 /\ (i - 1) - 1 = i - 2 /\ i \in 2 .. Len(u) + 1
        BY <2>1, <3>3
      <4> QED  BY <2>1, <2>2, <2>3, <4>1
    <3> QED  BY <2>1, <3>1, <3>2, <3>3
  <2>5. y = z
    <3>1. Len(y) = Len(z) /\ Len(y) = Len(x) + 2
      BY <2>1, <2>2, <2>3
    <3> QED  BY <2>2, <2>3, <2>4, <3>1
  <2> QED  BY <2>5 DEF y, z, u
<1> QED  BY <1>1, <1>2, <1>3

\* The caller of a station that is at rest, and the event loop.
LEMMA WaitsIs ==
  ASSUME Base, NEW s \in Sta, Exists(s), NEW x, Waits(x), x # <<Frame("init", s)>>, x \in After(s) \cup Back
  PROVE  /\ Rested(sm[s], Fatal) /\ Rest({s}) /\ Settled /\ Count({}) /\ Sound(sm[s], s)
         /\ ~ Is(sm[s], "Init") /\ group \in GroupSet
<1>1. s \in Existing /\ Existing \subseteq Sta
  BY DEF Existing
<1>2. Starting(x) = {}
  BY CallersAre
<1>3. Rest({}) /\ Settled /\ Count({})
  BY <1>2 DEF Waits
<1>4. Rested(sm[s], Fatal) /\ Rest({s})
  BY <1>1, <1>3 DEF Rest
<1>5. Sound(sm[s], s) /\ group \in GroupSet
  BY DEF Base, All, Exists
<1>6. ~ Is(sm[s], "Init")
  BY <1>4 DEF Rested, Is, Urgent
<1> QED  BY <1>3, <1>4, <1>5, <1>6
-----------------------------------------------------------------------------
(***************************************************************************)
(* Callbacks of the event loop.                                            *)
(***************************************************************************)
LEMMA IdleIs ==
  ASSUME Inv, NEW s \in Sta, Idle(s)
  PROVE  /\ Base /\ Waits(<<>>) /\ Rested(sm[s], Fatal) /\ Rest({s}) /\ Settled /\ Count({})
         /\ Sound(sm[s], s) /\ ~ Is(sm[s], "Init") /\ group \in GroupSet
<1>1. Base /\ Calls /\ stack = <<>> /\ Exists(s)
  BY DEF Inv, Idle
<1>2. Waits(<<>>)
  BY <1>1, Which
<1>3. <<>> # <<Frame("init", s)>> /\ <<>> \in After(s) \cup Back
  BY CallersAre
<1> QED  BY <1>1, <1>2, <1>3, WaitsIs

\* The group stays as it is.
LEMMA CalledChanges ==
  ASSUME NEW s, NEW n, Called(n, sm[s], s), sm' = [sm EXCEPT ![s] = n], group \in GroupSet,
         group' = group
  PROVE  Changes(s, n)
BY DEF Called, Changes, Put, Tally

LEMMA EventInv ==
  ASSUME Inv, NEW s \in Sta, Idle(s), NEW n, Called(n, sm[s], s),
         sm' = [sm EXCEPT ![s] = n], UNCHANGED group,
         NEW x \in After(s), x # <<Frame("init", s)>>, stack' = <<Frame("step", s)>> \o x
  PROVE  Inv'
<1>1. Base /\ Rest({s}) /\ Settled /\ Count({}) /\ group \in GroupSet
  BY IdleIs
<1>2. ~ Is(n, "Init")
  BY DEF Called
<1>3. Changes(s, n)
  BY <1>1, CalledChanges
<1> QED  BY <1>1, <1>2, <1>3, StepInv

LEMMA StepWithInv ==
  ASSUME Inv, NEW s \in Sta, Idle(s), NEW n, Called(n, sm[s], s), StepWith(s, n), UNCHANGED group
  PROVE  Inv'
<1>1. sm' = [sm EXCEPT ![s] = n] /\ stack' = <<Frame("step", s)>>
  BY DEF StepWith
<1>2. <<>> \in After(s) /\ <<>> # <<Frame("init", s)>>
  BY CallersAre
<1>3. stack' = <<Frame("step", s)>> \o <<>>
  BY <1>1, Pushes
<1> QED  BY <1>1, <1>2, <1>3, EventInv

LEMMA AuthenticateInv ==
  ASSUME Inv, NEW s \in Sta, Authenticate(s)
  PROVE  Inv'
<1> DEFINE n == wpa_remove_ptk(sm[s])
<1>1. Idle(s) /\ StepWith(s, n) /\ UNCHANGED group
  BY DEF Authenticate
<1>2. Sound(sm[s], s) /\ Rested(sm[s], Fatal) /\ sm[s] \in Machine(s)
  BY <1>1, IdleIs, SoundIs
<1>3. {} \in SUBSET {"WLAN_STA_ASSOC"}
  OBVIOUS
<1>4. Called(Set(n, {}), sm[s], s)
  BY <1>2, <1>3, AuthenticateSound
<1>5. Set(n, {}) = n
  <2>1. n \in Machine(s)
    BY <1>2, RemoveFields
  <2> HIDE DEF n
  <2> QED  BY <2>1 DEF Set, Machine
<1> HIDE DEF n
<1>6. Called(n, sm[s], s)
  BY <1>4, <1>5
<1> QED  BY <1>1, <1>6, StepWithInv

LEMMA TimeoutInv ==
  ASSUME Inv, NEW s \in Sta, Timeout(s)
  PROVE  Inv'
<1> DEFINE n == Set([sm[s] EXCEPT !.timeouts = @ - 1], {"TimeoutEvt"})
<1>1. Idle(s) /\ StepWith(s, n) /\ UNCHANGED group /\ sm[s].timeouts > 0
  BY DEF Timeout
<1>2. Sound(sm[s], s) /\ Rested(sm[s], Fatal)
  BY <1>1, IdleIs
<1>3. Called(n, sm[s], s)
  BY <1>1, <1>2, TimeoutSound
<1> HIDE DEF n
<1> QED  BY <1>1, <1>3, StepWithInv

LEMMA RekeyPtkInv ==
  ASSUME Inv, NEW s \in Sta, RekeyPtk(s)
  PROVE  Inv'
<1> DEFINE n == wpa_request_new_ptk(sm[s])
<1>1. Idle(s) /\ StepWith(s, n) /\ UNCHANGED group /\ sm[s].tk # 0
  BY DEF RekeyPtk
<1>2. Sound(sm[s], s) /\ Rested(sm[s], Fatal)
  BY <1>1, IdleIs
<1>3. sm[s].rx # "pairwise"
  BY <1>1, <1>2, SoundIs DEF Rested, Pairwise
<1>4. Called(n, sm[s], s)
  BY <1>2, <1>3, RekeyPtkSound
<1> HIDE DEF n
<1> QED  BY <1>1, <1>4, StepWithInv

LEMMA LeaveInv ==
  ASSUME Inv, NEW s \in Sta, NEW deauth \in BOOLEAN, Leave(s, deauth)
  PROVE  Inv'
<1> DEFINE n == wpa_sta_disconnect(sm[s])
           x == IF deauth THEN <<Frame("free", s)>> ELSE <<>>
<1>1. /\ Idle(s) /\ sm' = [sm EXCEPT ![s] = n] /\ UNCHANGED group
      /\ stack' = <<Frame("step", s)>> \o x
  BY DEF Leave
<1>2. Sound(sm[s], s) /\ Rested(sm[s], Fatal) /\ ~ Is(sm[s], "Init")
  BY <1>1, IdleIs
<1>3. Called(n, sm[s], s)
  BY <1>2, LeftSound DEF Called
<1>4. x \in After(s) /\ x # <<Frame("init", s)>>
  BY CallersAre
<1> HIDE DEF n, x
<1> QED  BY <1>1, <1>3, <1>4, EventInv

LEMMA AssociateInv ==
  ASSUME Inv, NEW s \in Sta, Associate(s)
  PROVE  Inv'
<1> DEFINE m == IF Exists(s) THEN sm[s] ELSE NewSm
           n == Set(wpa_remove_ptk(m), {"WLAN_STA_ASSOC"})
           c == IF Is(m, "WLAN_STA_ASSOC") THEN "reassoc" ELSE "assoc"
           x == <<Frame(c, s)>>
<1>1. /\ stack = <<>> /\ sm' = [sm EXCEPT ![s] = n] /\ UNCHANGED group
      /\ stack' = <<Frame("step", s), Frame(c, s)>>
  BY DEF Associate
<1>2. x \in After(s) /\ x # <<Frame("init", s)>>
  BY CallersAre
<1>3. stack' = <<Frame("step", s)>> \o x
  BY <1>1, Pushes
<1>4. {"WLAN_STA_ASSOC"} \in SUBSET {"WLAN_STA_ASSOC"}
  OBVIOUS
<1>5. CASE Exists(s)
  <2>1. Idle(s) /\ m = sm[s]
    BY <1>1, <1>5 DEF Idle
  <2>2. Sound(sm[s], s) /\ Rested(sm[s], Fatal)
    BY <2>1, IdleIs
  <2> HIDE DEF m, c
  <2>3. Called(n, sm[s], s)
    BY <1>4, <2>1, <2>2, AuthenticateSound
  <2> HIDE DEF n, x
  <2> QED  BY <1>1, <1>2, <1>3, <2>1, <2>3, EventInv
<1>6. CASE ~ Exists(s)
  <2>1. Base /\ Waits(<<>>) /\ group \in GroupSet
    BY <1>1, Which DEF Inv, Base
  <2>2. Rest({}) /\ Settled /\ Count({})
    BY <2>1, CallersAre DEF Waits
  <2>3. Rest({s})
    BY <2>2, RestLess
  <2>4. Sound(NewSm, s) /\ Rested(NewSm, FALSE)
    BY NewSound
  <2>5. m = NewSm
    BY <1>6
  <2> HIDE DEF m, c
  <2>6. Called(n, NewSm, s)
    BY <1>4, <2>4, <2>5, AuthenticateSound
  <2>7. sm[s] = NoSm /\ NoSm.flags = NewSm.flags
    BY <1>6, <2>1 DEF Base, All, Exists, NoSm, NewSm
  <2> HIDE DEF n, x
  <2>8. Called(n, sm[s], s) /\ ~ Is(n, "Init")
    BY <2>6, <2>7 DEF Called, Is
  <2>9. Changes(s, n)
    BY <1>1, <2>1, <2>8, CalledChanges
  <2> QED  BY <1>2, <1>3, <2>1, <2>2, <2>3, <2>8, <2>9, StepInv
<1> QED  BY <1>5, <1>6

\* Message 2/4.
LEMMA Receive2Inv ==
  ASSUME Inv, NEW s \in Sta, Idle(s), UNCHANGED group, NEW n \in Nonces[s] \cup {0},
         Pairwise2(s, n) \/ SnonceUpdate(s, n)
  PROVE  Inv'
<1>1. Sound(sm[s], s) /\ Rested(sm[s], Fatal)
  BY IdleIs
<1>2. n \in Keys(s)
  BY DEF Keys
<1>3. CASE Pairwise2(s, n)
  <2> DEFINE k == IF n = 0 THEN -1 ELSE n
  <2>1. PICK i \in DOMAIN sm[s].key_replay :
          /\ sm[s].ptk \in {"PTKSTART", "PTKCALCNEGOTIATING"}
          /\ sm[s].key_replay[i].msg \in (IF n = 0 THEN {"1/4", "stale"} ELSE {"1/4"})
          /\ \E v \in Verified(sm[s], k, FALSE) :
               StepWith(s, Taken(v, "pairwise", SubSeq(sm[s].key_replay, 1, i - 1), n))
    BY <1>3 DEF Pairwise2
  <2> HIDE DEF k
  <2>2. PICK v \in Verified(sm[s], k, FALSE) :
          StepWith(s, Taken(v, "pairwise", SubSeq(sm[s].key_replay, 1, i - 1), n))
    BY <2>1
  <2> DEFINE prev == SubSeq(sm[s].key_replay, 1, i - 1)
             t == Taken(v, "pairwise", prev, n)
  <2>3. ~ NoFirst(sm[s])
    BY <2>1 DEF NoFirst
  <2> HIDE DEF prev
  <2>4. Called(t, sm[s], s)
    <3>1. /\ sm[s].ptk \in {"PTKSTART", "PTKCALCNEGOTIATING"}
          /\ v \in Verified(sm[s], k, FALSE)
      BY <2>1, <2>2
    <3> QED  BY <1>1, <1>2, <2>3, <3>1, Pairwise2Sound
  <2>5. StepWith(s, t)
    BY <2>2 DEF prev
  <2> HIDE DEF t
  <2> QED  BY <2>4, <2>5, StepWithInv
<1>4. CASE SnonceUpdate(s, n)
  <2> DEFINE u == [Clear(Set(sm[s], {"update_snonce"}), {"MICVerified"}) EXCEPT
                     !.alt = {[SNonce |-> sm[s].SNonce, sent |-> SubSeq(sm[s].key_replay, 1, 1)]}]
             t == Taken(u, "pairwise", sm[s].key_replay, n)
  <2>1. sm[s].ptk = "PTKINITNEGOTIATING" /\ Is(sm[s], "prev_key_replay") /\ StepWith(s, t)
    BY <1>4 DEF SnonceUpdate
  <2>2. Called(t, sm[s], s)
    <3>1. sm[s].ptk = "PTKINITNEGOTIATING" /\ Is(sm[s], "prev_key_replay")
      BY <2>1
    <3> QED  BY <1>1, <1>2, <3>1, SnonceSound
  <2> HIDE DEF t
  <2> QED  BY <2>1, <2>2, StepWithInv
<1> QED  BY <1>3, <1>4

\* The key of a pending message is a key of the station.
LEMMA SentKeys ==
  ASSUME NEW s, NEW m \in Machine(s),
         NEW t \in Range(m.key_replay) \cup UNION {Range(a.sent) : a \in m.alt}
  PROVE  t.key \in Keys(s)
<1>1. \A q \in Seq(Sent(s)) : \A e \in Range(q) : e \in Sent(s)
  BY DEF Range
<1>2. m.key_replay \in Seq(Sent(s)) /\ \A a \in m.alt : a.sent \in Seq(Sent(s))
  BY DEF Machine, Old
<1>3. t \in Sent(s)
  BY <1>1, <1>2
<1> QED  BY <1>3 DEF Sent

\* Messages 4/4 and 2/2.
LEMMA Receive4Inv ==
  ASSUME Inv, NEW s \in Sta, Idle(s), UNCHANGED group, Pairwise4(s) \/ Group2(s)
  PROVE  Inv'
<1>1. Sound(sm[s], s) /\ Rested(sm[s], Fatal) /\ sm[s] \in Machine(s)
  BY IdleIs, SoundIs
<1>2. CASE Pairwise4(s)
  <2>1. PICK e \in Range(sm[s].key_replay) \cup UNION {Range(a.sent) : a \in sm[s].alt} :
          /\ sm[s].ptk = "PTKINITNEGOTIATING" /\ Is(sm[s], "PTK_valid")
          /\ \E v \in Verified(sm[s], e.key, TRUE) :
               StepWith(s, [Taken(v, "pairwise", <<>>, 0) EXCEPT !.peer = e.key])
    BY <1>2 DEF Pairwise4
  <2>2. e.key \in Keys(s)
    BY <1>1, SentKeys
  <2> DEFINE k == e.key
  <2>3. PICK v \in Verified(sm[s], k, TRUE) :
          StepWith(s, [Taken(v, "pairwise", <<>>, 0) EXCEPT !.peer = k])
    BY <2>1
  <2> DEFINE t == [Taken(v, "pairwise", <<>>, 0) EXCEPT !.peer = k]
  <2>4. k \in Keys(s) /\ v \in Verified(sm[s], k, TRUE)
    BY <2>2
  <2> HIDE DEF k
  <2>5. Called(t, sm[s], s)
    BY <1>1, <2>1, <2>4, Pairwise4Sound
  <2>6. StepWith(s, t)
    BY <2>3
  <2> HIDE DEF t
  <2> QED  BY <2>5, <2>6, StepWithInv
<1>3. CASE Group2(s)
  <2>1. PICK e \in Range(sm[s].key_replay) :
          /\ sm[s].grp = "REKEYNEGOTIATING" /\ Is(sm[s], "PTK_valid")
          /\ \E v \in Verified(sm[s], e.key, FALSE) : StepWith(s, Taken(v, "group", <<>>, 0))
    BY <1>3 DEF Group2
  <2> DEFINE k == e.key
  <2>2. PICK v \in Verified(sm[s], k, FALSE) : StepWith(s, Taken(v, "group", <<>>, 0))
    BY <2>1
  <2> DEFINE t == Taken(v, "group", <<>>, 0)
  <2> HIDE DEF k
  <2>3. Called(t, sm[s], s)
    BY <1>1, <2>1, Group2Sound
  <2>4. StepWith(s, t)
    BY <2>2
  <2> HIDE DEF t
  <2> QED  BY <2>3, <2>4, StepWithInv
<1> QED  BY <1>2, <1>3

LEMMA ReceiveInv ==
  ASSUME Inv, NEW s \in Sta, Receive(s)
  PROVE  Inv'
<1>1. Idle(s) /\ UNCHANGED group
  BY DEF Receive
<1>2. CASE \E n \in Nonces[s] \cup {0} : Pairwise2(s, n) \/ SnonceUpdate(s, n)
  BY <1>1, <1>2, Receive2Inv
<1>3. CASE IeMismatch(s)
  <2> DEFINE n == wpa_sta_disconnect(sm[s])
  <2>1. StepWith(s, n)
    BY <1>3 DEF IeMismatch
  <2>2. Sound(sm[s], s) /\ Rested(sm[s], Fatal) /\ ~ Is(sm[s], "Init")
    BY <1>1, IdleIs
  <2>3. Called(n, sm[s], s)
    BY <2>2, LeftSound DEF Called
  <2> HIDE DEF n
  <2> QED  BY <1>1, <2>1, <2>3, StepWithInv
<1>4. CASE Pairwise4(s) \/ Group2(s)
  BY <1>1, <1>4, Receive4Inv
<1> QED  BY <1>2, <1>3, <1>4 DEF Receive

\* Machine s becomes n, which is at rest and keeps the mark.
Asks(s, n) ==
  /\ sm' = Put(sm, s, n) /\ Sound(n, s) /\ Rested(n, Fatal)
  /\ Is(n, "GUpdateStationKeys") <=> Is(sm[s], "GUpdateStationKeys")

\* A renewal is asked for.
LEMMA AskInv ==
  ASSUME Base, NEW x \in Back, stack' = <<Rekeying>> \o x, CallerOf(x) \subseteq Existing,
         Rest({}), Count({}), group' = [group EXCEPT !.GTKReKey = TRUE],
         sm' = sm \/ \E s \in Existing : \E n : Asks(s, n)
  PROVE  Inv'
<1>1. group \in GroupSet /\ All(sm) /\ Marked = MarkedIn(sm) /\ Existing \subseteq Sta
  BY DEF Base, Marked, MarkedIn, Existing
<1>2. /\ group' \in GroupSet /\ group'.state = group.state
      /\ group'.GKeyDoneStations = group.GKeyDoneStations
  BY <1>1 DEF GroupSet
<1>3. Fatal' = Fatal
  BY <1>2 DEF Fatal
<1>4. All(sm') /\ Existing' = Existing /\ MarkedIn(sm') = MarkedIn(sm) /\ Rest({})'
  <2>1. CASE sm' = sm
    BY <1>1, <1>3, <2>1 DEF Existing, Exists, Rest
  <2>2. CASE \E s \in Existing : \E n : Asks(s, n)
    <3>s. PICK s \in Existing : \E n : Asks(s, n)
      BY <2>2
    <3>n. PICK n : Asks(s, n)
      BY <3>s
    <3>1. /\ sm' = Put(sm, s, n) /\ Sound(n, s) /\ Rested(n, Fatal)
          /\ Is(n, "GUpdateStationKeys") <=> Is(sm[s], "GUpdateStationKeys")
      BY <3>n DEF Asks
    <3>2. s \in Sta /\ Exists(s)
      BY DEF Existing
    <3>3. /\ All(sm') /\ sm'[s] = n /\ \A t \in Sta \ {s} : sm'[t] = sm[t]
          /\ {t \in Sta : sm'[t].ptk # "none"} = {t \in Sta : sm[t].ptk # "none"} \cup {s}
          /\ Is(n, "GUpdateStationKeys") => MarkedIn(sm') = MarkedIn(sm) \cup {s}
          /\ ~ Is(n, "GUpdateStationKeys") => MarkedIn(sm') = MarkedIn(sm) \ {s}
      BY <1>1, <3>1, <3>2, OneChanged
    <3>4. Existing' = Existing
      BY <3>2, <3>3 DEF Existing, Exists
    <3>5. MarkedIn(sm') = MarkedIn(sm)
      <4>1. s \in MarkedIn(sm) <=> Is(n, "GUpdateStationKeys")
        BY <3>1, <3>2 DEF MarkedIn
      <4> QED  BY <3>3, <4>1
    <3>6. Rest({})'
      BY <1>1, <1>3, <3>1, <3>3, <3>4 DEF Rest
    <3> QED  BY <3>3, <3>4, <3>5, <3>6
  <2> QED  BY <2>1, <2>2
<1>5. Marked' = Marked
  BY <1>1, <1>4 DEF Marked, MarkedIn
<1>6. Base'
  BY <1>2, <1>4, <1>5 DEF Base
<1>7. Count({})'
  BY <1>2, <1>5 DEF Count
<1>8. Renews(x)'
  BY <1>4, <1>7 DEF Renews
<1>9. Calls'
  BY <1>8 DEF Calls
<1> QED  BY <1>6, <1>9 DEF Inv

LEMMA RekeyGtkInv ==
  ASSUME Inv, RekeyGtk
  PROVE  Inv'
<1>1. Base /\ Waits(<<>>)
  BY Which DEF Inv, RekeyGtk
<1>2. <<>> \in Back /\ CallerOf(<<>>) = {} /\ Starting(<<>>) = {}
  BY CallersAre
<1>3. Rest({}) /\ Count({}) /\ CallerOf(<<>>) \subseteq Existing
  BY <1>1, <1>2 DEF Waits
<1>4. stack' = <<Rekeying>> \o <<>> /\ group' = [group EXCEPT !.GTKReKey = TRUE] /\ sm' = sm
  <2>1. stack' = <<Rekeying>>
    BY DEF RekeyGtk
  <2>2. stack' = <<Rekeying>> \o <<>>
    BY <2>1, Pushes
  <2> QED  BY <2>2 DEF RekeyGtk
<1> QED  BY <1>1, <1>2, <1>3, <1>4, AskInv

LEMMA RequestInv ==
  ASSUME Inv, NEW s \in Sta, NEW pairwise \in BOOLEAN, Request(s, pairwise)
  PROVE  Inv'
<1> DEFINE m == [Set(sm[s], {"MICVerified"}) EXCEPT !.timeouts = 0]
<1>1. Idle(s)
  BY DEF Request
<1>2. /\ Base /\ Waits(<<>>) /\ Rested(sm[s], Fatal) /\ Rest({s}) /\ Settled /\ Count({})
      /\ Sound(sm[s], s)
  BY <1>1, IdleIs
<1>3. /\ Sound(m, s) /\ Rested(m, Fatal)
      /\ Is(m, "GUpdateStationKeys") <=> Is(sm[s], "GUpdateStationKeys")
  BY <1>2, AskedSound
<1>4. CASE pairwise
  <2> DEFINE n == Taking(wpa_request_new_ptk(m))
  <2>1. StepWith(s, n) /\ UNCHANGED group
    BY <1>4 DEF Request
  <2> HIDE DEF m
  <2>2. Called(n, m, s)
    BY <1>3, NewPtkSound
  <2> HIDE DEF n
  <2>3. Called(n, sm[s], s)
    BY <1>3, <2>2 DEF Called
  <2> QED  BY <1>1, <2>1, <2>3, StepWithInv
<1>5. CASE ~ pairwise
  <2>1. /\ sm' = [sm EXCEPT ![s] = m] /\ group' = [group EXCEPT !.GTKReKey = TRUE]
        /\ stack' = <<Rekeying, Frame("request", s)>>
    BY <1>5 DEF Request
  <2> HIDE DEF m
  <2> DEFINE x == <<Frame("request", s)>>
  <2>2. sm' = Put(sm, s, m) /\ stack' = <<Rekeying>> \o x
    BY <2>1, Pushes DEF Put
  <2>3. s \in Existing
    BY <1>1 DEF Existing, Idle
  <2>4. x \in Back /\ CallerOf(x) \subseteq Existing
    <3>1. "request" \in {"assoc", "reassoc", "init", "free", "request"}
      OBVIOUS
    <3>2. x \in Back /\ CallerOf(x) = {s}
      BY <3>1, CallersAre
    <3> QED  BY <2>3, <3>2
  <2>5. Rest({})
    BY <1>2, CallersAre DEF Waits
  <2> HIDE DEF x
  <2>6. \E t \in Existing : \E n : Asks(t, n)
    <3>1. Asks(s, m)
      BY <1>3, <2>2 DEF Asks
    <3> QED  BY <2>3, <3>1
  <2> QED  BY <1>2, <2>1, <2>2, <2>4, <2>5, <2>6, AskInv
<1> QED  BY <1>4, <1>5
-----------------------------------------------------------------------------
(***************************************************************************)
(* Callers that go on after a step.                                        *)
(***************************************************************************)
LEMMA FreeInv ==
  ASSUME Base, NEW s \in Sta, Exists(s), Rested(sm[s], Fatal), Rest({}), Settled, Count({}),
         Free(s), stack' = <<>>
  PROVE  Inv'
<1> DEFINE w == [m |-> sm[s], g |-> group]
           u == Unmark(w)
           ns == Put(sm, s, u.m)
<1>1. Sound(sm[s], s) /\ group \in GroupSet /\ All(sm) /\ sm[s] \in Machine(s)
  <2>1. Sound(sm[s], s) /\ group \in GroupSet /\ All(sm)
    BY DEF Base, All, Exists
  <2> QED  BY <2>1, SoundIs
<1>2. w \in World(s) /\ w.m = sm[s] /\ w.g = group
  BY <1>1 DEF World
<1> HIDE DEF w
<1>3. /\ u \in World(s) /\ Same(u.m, sm[s]) /\ u.m.flags = sm[s].flags \ {"GUpdateStationKeys"}
      /\ Ended(u, w)
  BY <1>2, UnmarkFields
<1> HIDE DEF u
<1>4. u.m \in Machine(s) /\ u.g \in GroupSet
  BY <1>3 DEF World
<1>5. \A f \in Flag \ {"MICVerified", "GUpdateStationKeys"} : Is(u.m, f) <=> Is(sm[s], f)
  BY <1>3 DEF Is
<1>6. Sound(u.m, s) /\ ~ Is(u.m, "GUpdateStationKeys")
  <2>1. Sound(u.m, s)
    BY <1>1, <1>3, <1>4, <1>5, RestedSame
  <2> QED  BY <1>3, <2>1 DEF Is
<1>7. Tally(u.g, u.m, group, sm[s])
  BY <1>1, <1>2, <1>3, <1>4 DEF Tally, Ended, GroupSet, Is
<1>8. /\ u.g.GKeyDoneStations \in Nat
      /\ u.g.GKeyDoneStations = Cardinality(MarkedIn(ns) \ {})
      /\ MarkedIn(ns) = MarkedIn(sm) \ {s} /\ MarkedIn(ns) \subseteq Marked
  <2> HIDE DEF ns
  <2>2. ns = Put(sm, s, u.m)
    BY DEF ns
  <2>3. /\ u.g.GKeyDoneStations \in Nat /\ MarkedIn(ns) \subseteq Marked
        /\ u.g.GKeyDoneStations = Cardinality(MarkedIn(ns) \ {})
    <3> DEFINE n == u.m
               h == u.g
    <3>1. Sound(n, s) /\ Tally(h, n, group, sm[s]) /\ ns = Put(sm, s, n)
      BY <1>6, <1>7, <2>2
    <3> HIDE DEF n, h
    <3>2. PICK P : P = {}
      OBVIOUS
    <3>3. s \notin P /\ Count(P)
      BY <3>2
    <3>4. /\ h.GKeyDoneStations \in Nat /\ MarkedIn(ns) \subseteq Marked
          /\ h.GKeyDoneStations = Cardinality(MarkedIn(ns) \ P)
      BY <3>1, <3>3, TallyCount
    <3> QED  BY <3>2, <3>4 DEF h
  <2>4. MarkedIn(ns) = MarkedIn(sm) \ {s}
    BY <1>1, <1>6, <2>2, OneChanged
  <2> QED  BY <2>3, <2>4
<1>9. /\ group' = u.g /\ sm' = [sm EXCEPT ![s] = NoSm]
  BY DEF Free, u, w
<1>10. /\ sm' = [t \in Sta |-> sm'[t]] /\ sm'[s] = NoSm /\ \A t \in Sta \ {s} : sm'[t] = sm[t]
  BY <1>1, <1>9 DEF All
<1>11. NoSm.ptk = "none" /\ NoSm.flags = {}
  BY DEF NoSm, NewSm
<1>12. All(sm')
  BY <1>1, <1>10, <1>11 DEF All
<1>13. Marked' = MarkedIn(ns)
  BY <1>8, <1>10, <1>11 DEF Marked, MarkedIn, Is
<1>14. u.g.state = group.state /\ u.g.GTKReKey = group.GTKReKey
  BY <1>7 DEF Tally
<1>15. Base'
  BY <1>4, <1>8, <1>9, <1>12, <1>13, <1>14 DEF Base
<1>16. Existing' = Existing \ {s}
  BY <1>10, <1>11 DEF Existing, Exists
<1>17. Fatal' = Fatal /\ Settled'
  BY <1>9, <1>14 DEF Fatal, Settled
<1>18. Rest({})'
  BY <1>10, <1>16, <1>17 DEF Rest, Existing
<1>19. Count({})'
  BY <1>8, <1>9, <1>13 DEF Count
<1>20. Waits(<<>>)'
  BY <1>17, <1>18, <1>19, CallersAre DEF Waits
<1>21. Calls'
  BY <1>20, CallersAre DEF Calls
<1> QED  BY <1>15, <1>21 DEF Inv

LEMMA RemoveInv ==
  ASSUME Inv, NEW s \in Sta, Remove(s)
  PROVE  Inv'
<1>1. Idle(s) /\ Exists(s) /\ Free(s) /\ stack' = <<>>
  BY DEF Remove, Idle
<1>2. Base /\ Waits(<<>>) /\ Rested(sm[s], Fatal) /\ Settled /\ Count({})
  BY <1>1, IdleIs
<1>3. Rest({})
  BY <1>2, CallersAre DEF Waits
<1> QED  BY <1>1, <1>2, <1>3, FreeInv

LEMMA CallerIs ==
  ASSUME Inv, NEW s \in Sta, NEW c \in {"assoc", "reassoc", "init", "free", "request"},
         stack # <<>>, Top = Frame(c, s)
  PROVE  /\ Base /\ Tail(stack) = <<>> /\ Exists(s) /\ Sound(sm[s], s) /\ group \in GroupSet
         /\ Rest({s}) /\ Settled /\ Count({})
         /\ c # "init" => Rest({}) /\ Rested(sm[s], Fatal) /\ ~ Is(sm[s], "Init")
         /\ c = "init" => Is(sm[s], "Init")
<1> DEFINE x == <<Frame(c, s)>>
<1>1. Base /\ Waits(x) /\ Tail(stack) = <<>>
  BY Which DEF Inv
<1>2. CallerOf(x) = {s} /\ (c # "init" => Starting(x) = {}) /\ (c = "init" => Starting(x) = {s})
  BY CallersAre
<1> HIDE DEF x
<1>3. s \in Existing /\ Exists(s)
  BY <1>1, <1>2 DEF Waits, Existing
<1>4. Sound(sm[s], s) /\ group \in GroupSet
  BY <1>1, <1>3 DEF Base, All, Exists
<1>5. Settled /\ Count({}) /\ (c = "init" => Is(sm[s], "Init") /\ Rest({s})) /\ (c # "init" => Rest({}))
  BY <1>1, <1>2 DEF Waits
<1>6. ASSUME c # "init" PROVE Rested(sm[s], Fatal) /\ ~ Is(sm[s], "Init") /\ Rest({s})
  <2>1. Rested(sm[s], Fatal) /\ Rest({s})
    BY <1>3, <1>5, <1>6 DEF Rest
  <2> QED  BY <2>1 DEF Rested, Is, Urgent
<1> QED  BY <1>1, <1>3, <1>4, <1>5, <1>6

\* The caller steps the station again.
LEMMA AgainInv ==
  ASSUME Base, NEW s \in Sta, Rest({s}), Settled, Count({}), Tail(stack) = <<>>,
         NEW n, Called(n, sm[s], s), sm' = [sm EXCEPT ![s] = n], UNCHANGED group,
         stack' = <<Frame("step", s)>> \o Tail(stack)
  PROVE  Inv'
<1>1. Changes(s, n) /\ ~ Is(n, "Init")
  BY CalledChanges DEF Called, Base
<1>2. <<>> \in After(s) /\ <<>> # <<Frame("init", s)>>
  BY CallersAre
<1> QED  BY <1>1, <1>2, StepInv

LEMMA AssociatedInv ==
  ASSUME Inv, NEW s \in Sta, Associated(s)
  PROVE  Inv'
<1>1. stack # <<>> /\ Top = Frame("assoc", s) /\ UNCHANGED group
  BY DEF Associated
<1>2. "assoc" \in {"assoc", "reassoc", "init", "free", "request"} /\ "assoc" # "init"
  OBVIOUS
<1>3. /\ Base /\ Tail(stack) = <<>> /\ Sound(sm[s], s) /\ group \in GroupSet
      /\ Rest({s}) /\ Settled /\ Count({}) /\ Rested(sm[s], Fatal)
  BY <1>1, <1>2, CallerIs
<1>4. CASE Is(sm[s], "started")
  <2> DEFINE n == Set([sm[s] EXCEPT !.key_replay = <<>>], {"ReAuthenticationRequest"})
  <2>1. sm' = [sm EXCEPT ![s] = n] /\ stack' = <<Frame("step", s)>> \o Tail(stack)
    BY <1>4 DEF Associated
  <2>2. Called(n, sm[s], s)
    BY <1>3, AgainSound
  <2> HIDE DEF n
  <2> QED  BY <1>1, <1>3, <2>1, <2>2, AgainInv
<1>5. CASE ~ Is(sm[s], "started")
  <2> DEFINE n == Set(sm[s], {"started", "Init"})
             x == <<Frame("init", s)>>
  <2>1. /\ sm' = [sm EXCEPT ![s] = n]
        /\ stack' = <<Frame("step", s), Frame("init", s)>> \o Tail(stack)
    BY <1>5 DEF Associated
  <2>2. /\ Sound(n, s) /\ Is(n, "Init")
        /\ Is(n, "GUpdateStationKeys") <=> Is(sm[s], "GUpdateStationKeys")
    BY <1>3, StartSound
  <2> HIDE DEF n
  <2>3. Changes(s, n)
    BY <1>1, <1>3, <2>1, <2>2 DEF Changes, Put, Tally
  <2>4. stack' = <<Frame("step", s)>> \o x
    <3>1. Frame("step", s) \in FrameSet /\ Frame("init", s) \in FrameSet /\ <<>> \in Seq(FrameSet)
      BY FramesOf DEF Place
    <3> DEFINE f == Frame("step", s)
               g == Frame("init", s)
    <3>2. <<f, g>> \o <<>> = <<f>> \o (<<g>> \o <<>>)
      <4> HIDE DEF f, g
      <4>1. \A y \in Seq(FrameSet) : <<f, g>> \o y = <<f>> \o (<<g>> \o y)
        BY <3>1, Pushes DEF f, g
      <4> QED  BY <3>1, <4>1
    <3>3. <<g>> \o <<>> = <<g>>
      BY Pushes
    <3> QED  BY <1>3, <2>1, <3>2, <3>3
  <2>5. x \in After(s)
    <3>1. "init" \in {"assoc", "reassoc", "init", "free"}
      OBVIOUS
    <3> QED  BY <3>1, CallersAre
  <2>6. Is(n, "Init") <=> x = <<Frame("init", s)>>
    BY <2>2
  <2> HIDE DEF x
  <2> QED  BY <1>3, <2>3, <2>4, <2>5, <2>6, StepInv
<1> QED  BY <1>4, <1>5

LEMMA InitializedInv ==
  ASSUME Inv, NEW s \in Sta, Initialized(s)
  PROVE  Inv'
<1> DEFINE n == Set(Clear(sm[s], {"Init"}), {"AuthenticationRequest"})
<1>1. /\ stack # <<>> /\ Top = Frame("init", s) /\ UNCHANGED group
      /\ sm' = [sm EXCEPT ![s] = n] /\ stack' = <<Frame("step", s)>> \o Tail(stack)
  BY DEF Initialized
<1>2. "init" \in {"assoc", "reassoc", "init", "free", "request"}
  OBVIOUS
<1>3. /\ Base /\ Tail(stack) = <<>> /\ Sound(sm[s], s) /\ Rest({s}) /\ Settled /\ Count({})
      /\ Is(sm[s], "Init")
  BY <1>1, <1>2, CallerIs
<1>4. Called(n, sm[s], s)
  BY <1>3, StartedSound
<1> HIDE DEF n
<1> QED  BY <1>1, <1>3, <1>4, AgainInv

LEMMA RequestedInv ==
  ASSUME Inv, NEW s \in Sta, Requested(s)
  PROVE  Inv'
<1> DEFINE n == Taking(sm[s])
<1>1. /\ stack # <<>> /\ Top = Frame("request", s) /\ UNCHANGED group
      /\ sm' = [sm EXCEPT ![s] = n] /\ stack' = <<Frame("step", s)>> \o Tail(stack)
  BY DEF Requested
<1>2. "request" \in {"assoc", "reassoc", "init", "free", "request"} /\ "request" # "init"
  OBVIOUS
<1>3. /\ Base /\ Tail(stack) = <<>> /\ Sound(sm[s], s) /\ Rest({s}) /\ Settled /\ Count({})
      /\ Rested(sm[s], Fatal)
  BY <1>1, <1>2, CallerIs
<1>4. Called(n, sm[s], s)
  BY <1>3, TakingSound
<1> HIDE DEF n
<1> QED  BY <1>1, <1>3, <1>4, AgainInv

LEMMA FreedInv ==
  ASSUME Inv, NEW s \in Sta, Freed(s)
  PROVE  Inv'
<1>1. stack # <<>> /\ Top = Frame("free", s) /\ Free(s) /\ stack' = Tail(stack)
  BY DEF Freed
<1>2. "free" \in {"assoc", "reassoc", "init", "free", "request"} /\ "free" # "init"
  OBVIOUS
<1>3. /\ Base /\ Tail(stack) = <<>> /\ Exists(s) /\ Rest({}) /\ Settled /\ Count({})
      /\ Rested(sm[s], Fatal)
  BY <1>1, <1>2, CallerIs
<1> QED  BY <1>1, <1>3, FreeInv

LEMMA ReassociatedInv ==
  ASSUME Inv, NEW s \in Sta, Reassociated(s)
  PROVE  Inv'
<1> DEFINE w == [m |-> sm[s], g |-> group]
           u == Unmark(w)
           p == IF Is(sm[s], "GUpdateStationKeys") THEN {"PtkGroupInit"} ELSE {}
           n == wpa_remove_ptk(Set(u.m, p \cup {"ReAuthenticationRequest"}))
<1>1. /\ stack # <<>> /\ Top = Frame("reassoc", s) /\ group' = u.g
      /\ sm' = [sm EXCEPT ![s] = n] /\ stack' = <<Frame("step", s)>> \o Tail(stack)
  BY DEF Reassociated
<1>2. "reassoc" \in {"assoc", "reassoc", "init", "free", "request"} /\ "reassoc" # "init"
  OBVIOUS
<1>3. /\ Base /\ Tail(stack) = <<>> /\ Sound(sm[s], s) /\ Rest({s}) /\ Settled /\ Count({})
      /\ Rested(sm[s], Fatal) /\ group \in GroupSet
  BY <1>1, <1>2, CallerIs
<1>4. p \in SUBSET {"PtkGroupInit"}
  OBVIOUS
<1> HIDE DEF p
<1>5. /\ Sound(n, s) /\ ~ Is(n, "Init") /\ ~ Is(n, "GUpdateStationKeys") /\ u.g \in GroupSet
      /\ Ended(u, w) /\ ~ Is(u.m, "GUpdateStationKeys")
  BY <1>3, <1>4, ReassociatedSound
<1> HIDE DEF n, u
<1>6. w.m = sm[s] /\ w.g = group
  OBVIOUS
<1> HIDE DEF w
<1>7. Tally(u.g, n, group, sm[s])
  BY <1>3, <1>5, <1>6 DEF Tally, Ended, GroupSet, Is
<1>8. Changes(s, n)
  BY <1>1, <1>5, <1>7 DEF Changes, Put
<1>9. <<>> \in After(s) /\ <<>> # <<Frame("init", s)>>
  BY CallersAre
<1> QED  BY <1>1, <1>3, <1>5, <1>8, <1>9, StepInv
-----------------------------------------------------------------------------
(***************************************************************************)
(* The loops.                                                              *)
(***************************************************************************)
LEMMA LoopIs ==
  ASSUME Tail(stack) \in Seq(FrameSet), NEW f \in FrameSet, NEW changed \in BOOLEAN
  PROVE  /\ changed => Loop(f, changed) = <<f>> \o Tail(stack)
         /\ ~ changed => Loop(f, changed) = Tail(stack)
<1>1. \A y \in Seq(FrameSet) : <<>> \o y = y
  OBVIOUS
<1> QED  BY <1>1 DEF Loop

LEMMA RestedAny ==
  ASSUME NEW m, Rested(m, FALSE), NEW fatal \in BOOLEAN
  PROVE  Rested(m, fatal)
BY DEF Rested

\* Nothing changes but the stack.
LEMMA SameBase ==
  ASSUME Base, UNCHANGED <<sm, group>>
  PROVE  /\ Base' /\ Existing' = Existing /\ Fatal' = Fatal /\ (Settled => Settled')
         /\ \A P : Count(P) => Count(P)'
         /\ \A busy : Rest(busy) => Rest(busy)'
<1>1. sm' = sm /\ group' = group
  OBVIOUS
<1>2. Existing' = Existing /\ Fatal' = Fatal /\ Marked' = Marked /\ (Settled => Settled')
  BY <1>1 DEF Existing, Exists, Fatal, Marked, Settled
<1>3. Base'
  BY <1>1, <1>2 DEF Base
<1>4. \A P : Count(P) => Count(P)'
  BY <1>1, <1>2 DEF Count
<1>5. \A busy : Rest(busy) => Rest(busy)'
  BY <1>1, <1>2 DEF Rest
<1> QED  BY <1>2, <1>3, <1>4, <1>5

LEMMA WhileInv ==
  ASSUME Inv, While
  PROVE  Inv'
<1> DEFINE on == group.changed \/ \E s \in Top.of : Is(sm[s], "changed")
           f == [Top EXCEPT !.at = "step"]
<1>1. Base /\ stack # <<>> /\ Top.at = "while" /\ stack' = Loop(f, on) /\ UNCHANGED <<sm, group>>
  BY DEF While, Inv
<1>2. PICK x \in Back : Tests(x)
  BY <1>1, Which DEF Inv
<1>3. Top = WhileRekeying /\ Tail(stack) = x
  BY <1>2, Tops
<1>4. Top.of = {} /\ f = Rekeying
  <2>1. WhileRekeying.of = {} /\ [WhileRekeying EXCEPT !.at = "step"] = Rekeying
    BY DEF WhileRekeying, Rekeying
  <2> QED  BY <1>3, <2>1
<1>5. Tail(stack) \in Seq(FrameSet) /\ Rekeying \in FrameSet /\ x \in Caller
  BY <1>3, FramesOf
<1>6. on \in BOOLEAN
  OBVIOUS
<1>7. stack' = Loop(Rekeying, on)
  BY <1>1, <1>4
<1> HIDE DEF on, f
<1>8. stack' = <<Rekeying>> \o x \/ stack' = x
  BY <1>3, <1>5, <1>6, <1>7, LoopIs
<1>9. /\ Base' /\ Existing' = Existing /\ Settled' /\ Count({})' /\ Rest({})'
      /\ CallerOf(x) \subseteq Existing
  <2>1. Settled /\ Count({}) /\ Rest({}) /\ CallerOf(x) \subseteq Existing
    BY <1>2 DEF Tests
  <2> QED  BY <1>1, <2>1, SameBase
<1>10. CASE stack' = <<Rekeying>> \o x
  <2>1. Renews(x)'
    BY <1>9, <1>10 DEF Renews
  <2>2. Calls'
    BY <2>1 DEF Calls
  <2> QED  BY <1>9, <2>2 DEF Inv
<1>11. CASE stack' = x
  <2>1. Starting(x) = {}
    BY CallersAre
  <2>2. Waits(x)'
    BY <1>5, <1>9, <1>11, <2>1 DEF Waits
  <2>3. Calls'
    BY <1>5, <2>2 DEF Calls
  <2> QED  BY <1>9, <2>3 DEF Inv
<1> QED  BY <1>8, <1>10, <1>11

LEMMA EachDoneInv ==
  ASSUME Inv, EachDone
  PROVE  Inv'
<1>1. Base /\ stack # <<>> /\ Top.at = "each" /\ Top.of = {} /\ stack' = Tail(stack) /\ UNCHANGED <<sm, group>>
  BY DEF EachDone, Inv
<1>2. PICK x \in Back, P \in SUBSET Sta : Tells(x, P)
  BY <1>1, Which DEF Inv
<1>3. Top = Telling(P) /\ stack' = <<WhileRekeying>> \o x
  BY <1>1, <1>2, Tops
<1>4. P = {}
  BY <1>1, <1>3 DEF Telling
<1>5. /\ Base' /\ Existing' = Existing /\ Settled' /\ Count({})' /\ Rest({})'
      /\ CallerOf(x) \subseteq Existing
  <2>1. Settled /\ Count({}) /\ Rest({}) /\ CallerOf(x) \subseteq Existing
    BY <1>2, <1>4 DEF Tells, Settled
  <2> QED  BY <1>1, <2>1, SameBase
<1>6. Tests(x)'
  BY <1>3, <1>5 DEF Tests
<1>7. Calls'
  BY <1>6 DEF Calls
<1> QED  BY <1>5, <1>7 DEF Inv

\* In the loop over the stations none of them is being stepped.
LEMMA NotInLoop ==
  ASSUME NEW x \in Back, NEW P \in SUBSET Sta, Tells(x, P), NEW s \in Sta
  PROVE  ~ InLoop(s)
<1> DEFINE y == <<WhileRekeying>> \o x
<1>1. x \in Seq(FrameSet) /\ WhileRekeying \in FrameSet /\ Telling(P) \in FrameSet
  BY FramesOf
<1>2. /\ y \in Seq(FrameSet) /\ Len(y) = Len(x) + 1 /\ y[1] = WhileRekeying /\ Len(x) \in Nat
      /\ \A i \in 2 .. Len(x) + 1 : y[i] = x[i - 1]
  BY <1>1, PushIs
<1> HIDE DEF y
<1>3. /\ stack \in Seq(FrameSet) /\ Len(stack) = Len(y) + 1 /\ stack[1] = Telling(P)
      /\ \A i \in 2 .. Len(y) + 1 : stack[i] = y[i - 1]
  BY <1>1, <1>2, PushIs DEF Tells, y
<1>4. \A i \in 1 .. Len(x) : x[i].at = "request"
  <2>1. CASE x = <<>>
    BY <2>1
  <2>2. CASE x # <<>>
    <3>1. PICK t \in Sta : x = <<Frame("request", t)>>
      BY <2>2 DEF Back
    <3>2. Len(x) = 1 /\ x[1] = Frame("request", t)
      BY <3>1
    <3> QED  BY <3>2 DEF Frame
  <2> QED  BY <2>1, <2>2
<1>5. ASSUME NEW i \in DOMAIN stack PROVE ~ (stack[i].at \in {"step", "while"} /\ s \in stack[i].of)
  <2>1. i \in 1 .. Len(x) + 2
    BY <1>2, <1>3
  <2>2. CASE i = 1
    BY <1>3, <2>2 DEF Telling
  <2>3. CASE i = 2
    <3>1. stack[i] = WhileRekeying
      BY <1>2, <1>3, <2>3
    <3> QED  BY <3>1 DEF WhileRekeying
  <2>4. CASE i > 2
    <3>1. /\ i \in 2 .. Len(y) + 1 /\ i - 1 \in 2 .. Len(x) + 1 /\ (i - 1) - 1 \in 1 .. Len(x)
      BY <1>2, <2>1, <2>4
    <3>2. stack[i].at = "request"
      BY <1>2, <1>3, <1>4, <3>1
    <3> QED  BY <3>2
  <2> QED  BY <2>1, <2>2, <2>3, <2>4
<1> QED  BY <1>5 DEF InLoop

\* wpa_group_update_sta
LEMMA UpdateStaInv ==
  ASSUME Inv, NEW s \in Sta, UpdateSta(s)
  PROVE  Inv'
<1>1. Base /\ stack # <<>> /\ Top.at = "each" /\ s \in Top.of
  BY DEF UpdateSta, Inv
<1>2. PICK x \in Back, P \in SUBSET Sta : Tells(x, P)
  BY <1>1, Which DEF Inv
<1>3. Top = Telling(P) /\ Tail(stack) = <<WhileRekeying>> \o x
  BY <1>2, Tops
<1>4. s \in P /\ [Top EXCEPT !.of = @ \ {s}] = Telling(P \ {s})
  <2>1. Telling(P).of = P /\ [Telling(P) EXCEPT !.of = @ \ {s}] = Telling(P \ {s})
    BY DEF Telling
  <2> QED  BY <1>1, <1>3, <2>1
<1> DEFINE Q == P \ {s}
           rest == <<Telling(Q)>> \o (<<WhileRekeying>> \o x)
<1>5. <<[Top EXCEPT !.of = @ \ {s}]>> \o Tail(stack) = rest
  BY <1>3, <1>4
<1>6. /\ P \subseteq Existing /\ CallerOf(x) \subseteq Existing /\ Rest({}) /\ Count(P)
      /\ group.state = "SETKEYS" /\ ~ group.GTKReKey
  BY <1>2 DEF Tells
<1>7. /\ s \in Existing /\ Sound(sm[s], s) /\ sm[s] \in Machine(s) /\ Rested(sm[s], FALSE)
      /\ ~ Fatal /\ Rest({s})
  <2>1. s \in Existing /\ Exists(s)
    BY <1>4, <1>6 DEF Existing
  <2>2. Sound(sm[s], s)
    BY <1>1, <2>1 DEF Base, All, Exists
  <2>3. Fatal = FALSE
    BY <1>6 DEF Fatal
  <2>4. Rested(sm[s], Fatal)
    BY <1>6, <2>1 DEF Rest
  <2> QED  BY <1>6, <2>1, <2>2, <2>3, <2>4, SoundIs, RestLess
<1>8. /\ All(sm) /\ Marked = MarkedIn(sm) /\ group \in GroupSet /\ group.GKeyDoneStations \in Nat
  BY <1>1 DEF Base, Marked, MarkedIn
<1>9. Q \in SUBSET Sta /\ s \notin Q
  OBVIOUS
<1>10. CASE sm[s].ptk # "PTKINITDONE"
  <2> DEFINE n == Clear(sm[s], {"GUpdateStationKeys"})
  <2>1. sm' = [sm EXCEPT ![s] = n] /\ stack' = rest /\ group' = group
    BY <1>5, <1>10 DEF UpdateSta
  <2>2. n \in Machine(s) /\ Same(n, sm[s]) /\ n.flags = sm[s].flags \ {"GUpdateStationKeys"}
    BY <1>7, ClearFields
  <2> HIDE DEF n
  <2>3. /\ \A f \in Flag \ {"MICVerified", "GUpdateStationKeys"} : Is(n, f) <=> Is(sm[s], f)
        /\ ~ Is(n, "GUpdateStationKeys")
    BY <2>2 DEF Is
  <2>4. Sound(n, s) /\ Rested(n, FALSE)
    BY <1>7, <2>2, <2>3, RestedSame
  <2>5. sm' = Put(sm, s, n)
    BY <2>1 DEF Put
  <2>6. /\ All(sm') /\ sm'[s] = n /\ \A t \in Sta \ {s} : sm'[t] = sm[t]
        /\ {t \in Sta : sm'[t].ptk # "none"} = {t \in Sta : sm[t].ptk # "none"} \cup {s}
        /\ MarkedIn(sm') = MarkedIn(sm) \ {s}
    BY <1>8, <2>3, <2>4, <2>5, OneChanged
  <2>7. Marked' = Marked \ {s}
    BY <1>8, <2>6 DEF Marked, MarkedIn
  <2>8. Existing' = Existing
    BY <1>7, <2>6 DEF Existing, Exists
  <2>9. Base'
    BY <1>6, <1>8, <2>1, <2>6, <2>7 DEF Base
  <2>10. Count(Q)'
    <3>1. (Marked \ {s}) \ Q = Marked \ P
      BY <1>4
    <3> QED  BY <1>6, <2>1, <2>7, <3>1 DEF Count
  <2>11. Rest({})'
    <3>1. Fatal' = FALSE /\ Fatal = FALSE
      BY <1>6, <2>1 DEF Fatal
    <3> QED  BY <1>6, <2>4, <2>6, <2>8, <3>1 DEF Rest, Existing
  <2>12. Tells(x, Q)'
    BY <1>6, <2>1, <2>8, <2>10, <2>11 DEF Tells
  <2>13. Calls'
    BY <1>9, <2>12 DEF Calls
  <2> QED  BY <2>9, <2>13 DEF Inv
<1>11. CASE sm[s].ptk = "PTKINITDONE"
  <2> DEFINE n == Set(sm[s], {"GUpdateStationKeys"})
  <2>1. /\ sm' = [sm EXCEPT ![s] = n] /\ group' = [group EXCEPT !.GKeyDoneStations = @ + 1]
        /\ stack' = <<Frame("step", s)>> \o rest
    <3>1. ~ InLoop(s)
      BY <1>2, NotInLoop
    <3> QED  BY <1>5, <1>11, <3>1 DEF UpdateSta
  <2>2. n \in Machine(s) /\ Same(n, sm[s]) /\ n.flags = sm[s].flags \cup {"GUpdateStationKeys"}
    <3>1. {"GUpdateStationKeys"} \in SUBSET Flag
      BY DEF Flag
    <3> QED  BY <1>7, <3>1, SetFields
  <2> HIDE DEF n
  <2>3. /\ \A f \in Flag \ {"MICVerified", "GUpdateStationKeys"} : Is(n, f) <=> Is(sm[s], f)
        /\ Is(n, "GUpdateStationKeys")
    BY <2>2 DEF Is
  <2>4. Sound(n, s) /\ Rested(n, FALSE)
    BY <1>7, <2>2, <2>3, RestedSame
  <2>5. Told(n)
    BY <1>11, <2>2, <2>3, <2>4 DEF Told, Same
  <2>6. sm' = Put(sm, s, n)
    BY <2>1 DEF Put
  <2>7. /\ All(sm') /\ sm'[s] = n /\ \A t \in Sta \ {s} : sm'[t] = sm[t]
        /\ {t \in Sta : sm'[t].ptk # "none"} = {t \in Sta : sm[t].ptk # "none"} \cup {s}
        /\ MarkedIn(sm') = MarkedIn(sm) \cup {s}
    BY <1>8, <2>3, <2>4, <2>6, OneChanged
  <2>8. Marked' = Marked \cup {s}
    BY <1>8, <2>7 DEF Marked, MarkedIn
  <2>9. Existing' = Existing
    BY <1>7, <2>7 DEF Existing, Exists
  <2>10. /\ group' \in GroupSet /\ group'.state = "SETKEYS" /\ ~ group'.GTKReKey
         /\ group'.GKeyDoneStations = group.GKeyDoneStations + 1
    <3> DEFINE k == group.GKeyDoneStations + 1
    <3>1. group' = [group EXCEPT !.GKeyDoneStations = k] /\ k \in Int
      BY <1>8, <2>1
    <3> HIDE DEF k
    <3>2. /\ group' \in GroupSet /\ group'.GKeyDoneStations = k
          /\ group'.state = group.state /\ group'.GTKReKey = group.GTKReKey
      BY <1>8, <3>1 DEF GroupSet
    <3> QED  BY <1>6, <3>2 DEF k
  <2>11. Base'
    <3>1. group'.GKeyDoneStations \in Nat /\ group'.state # "SETKEYSDONE"
      BY <1>8, <2>10
    <3> QED  BY <2>7, <2>10, <3>1 DEF Base
  <2>12. Count(Q)'
    <3> DEFINE M == Marked \ P
    <3>1. IsFiniteSet(M) /\ s \notin M
      BY <1>4, <1>8, MarkedExist
    <3>2. (Marked \cup {s}) \ Q = M \cup {s}
      BY <1>4
    <3>3. group.GKeyDoneStations = Cardinality(M)
      BY <1>6 DEF Count
    <3> HIDE DEF M
    <3>4. Cardinality(M \cup {s}) = Cardinality(M) + 1
      BY <3>1, FS_AddElement
    <3> QED  BY <2>8, <2>10, <3>2, <3>3, <3>4 DEF Count
  <2>13. Rest({s})'
    <3>1. Fatal' = FALSE /\ Fatal = FALSE
      BY <1>6, <2>10 DEF Fatal
    <3> QED  BY <1>6, <2>7, <2>9, <3>1 DEF Rest, Existing
  <2>14. TellsOne(x, Q, s)'
    <3>1. Q \subseteq Existing' /\ s \in Existing' \ Q /\ CallerOf(x) \subseteq Existing'
      BY <1>6, <1>7, <1>9, <2>9
    <3>2. Told(sm'[s])
      BY <2>5, <2>7
    <3> HIDE DEF Q
    <3> QED  BY <2>1, <2>10, <2>12, <2>13, <3>1, <3>2 DEF TellsOne
  <2>15. Calls'
    BY <1>9, <2>14 DEF Calls
  <2> QED  BY <2>11, <2>15 DEF Inv
<1> QED  BY <1>10, <1>11

\* What wpa_group_sm_step does, as cases.
Finishes(ms, g) ==
  /\ g.state = "SETKEYS" /\ g.GKeyDoneStations = 0
  /\ \/ group' = SetKeysDone(g, TRUE) /\ sm' = ms
     \/ /\ group' = SetKeysDone(g, FALSE)
        /\ sm' = [t \in Sta |-> IF Exists(t) THEN Set(ms[t], {"Disconnect"}) ELSE ms[t]]
  /\ stack' = Loop(Top, TRUE)
Begins(ms, g) ==
  /\ g.state # "FATAL_FAILURE" /\ g.GTKReKey
  /\ group' = [g EXCEPT !.changed = TRUE, !.state = "SETKEYS", !.GTKReKey = FALSE,
                        !.GKeyDoneStations = 0]
  /\ sm' = ms /\ stack' = <<Each, [Top EXCEPT !.at = "while"]>> \o Tail(stack)
Stays(ms, g) ==
  /\ g.state = "FATAL_FAILURE" \/ ~ g.GTKReKey
  /\ group' = g /\ sm' = ms /\ stack' = Loop(Top, \E t \in Top.of : Is(ms[t], "changed"))

LEMMA GroupCases ==
  ASSUME NEW ms, NEW g, NEW f, GroupSm(ms, g, f)
  PROVE  Finishes(ms, g) \/ Begins(ms, g) \/ Stays(ms, g)
BY DEF GroupSm, Finishes, Begins, Stays, Waiting

\* wpa_group_setkeysdone, or wpa_group_fatal_failure: no update is pending.
LEMMA FinishedBase ==
  ASSUME NEW ms, All(ms), \A t \in Sta : ms[t].ptk = "none" <=> ~ Exists(t),
         NEW g \in GroupSet, g.GKeyDoneStations = Cardinality(MarkedIn(ms)),
         Finishes(ms, g)
  PROVE  /\ Base' /\ Count({})' /\ Existing' = Existing /\ (~ g.GTKReKey => Settled')
         /\ \A t \in Sta : Is(sm'[t], "Init") <=> Is(ms[t], "Init")
         /\ \A t \in Existing : Rested(ms[t], FALSE) => Rested(sm'[t], Fatal')
<1>1. MarkedIn(ms) = {} /\ Cardinality({}) = 0
  <2>1. IsFiniteSet(MarkedIn(ms)) /\ Cardinality(MarkedIn(ms)) = 0
    BY MarkedExist DEF Finishes
  <2> QED  BY <2>1, FS_EmptySet
<1>2. ASSUME NEW ok \in BOOLEAN, group' = SetKeysDone(g, ok), g.GKeyDoneStations = 0,
             sm' = [t \in Sta |-> sm'[t]],
             \A t \in Sta : \/ sm'[t] = ms[t] /\ (Exists(t) => ok)
                            \/ Exists(t) /\ ~ ok /\ sm'[t] = Set(ms[t], {"Disconnect"})
      PROVE  /\ Base' /\ Count({})' /\ Existing' = Existing /\ (~ g.GTKReKey => Settled')
             /\ \A t \in Sta : Is(sm'[t], "Init") <=> Is(ms[t], "Init")
             /\ \A t \in Existing : Rested(ms[t], FALSE) => Rested(sm'[t], Fatal')
  <2>1. /\ group' \in GroupSet /\ group'.GKeyDoneStations = 0 /\ group'.GTKReKey = g.GTKReKey
        /\ group'.state = IF ok THEN "SETKEYSDONE" ELSE "FATAL_FAILURE"
    BY <1>2 DEF SetKeysDone, GroupSet
  <2>2. Fatal' = (~ ok) /\ (~ g.GTKReKey => Settled')
    BY <2>1 DEF Fatal, Settled
  <2>3. ASSUME NEW t \in Sta
        PROVE  /\ IF sm'[t].ptk = "none" THEN sm'[t] = NoSm ELSE Sound(sm'[t], t)
               /\ sm'[t].ptk = ms[t].ptk
               /\ \A f \in {"Init", "GUpdateStationKeys"} : Is(sm'[t], f) <=> Is(ms[t], f)
               /\ Exists(t) => (Rested(ms[t], FALSE) => Rested(sm'[t], ~ ok))
    <3>1. IF ms[t].ptk = "none" THEN ms[t] = NoSm ELSE Sound(ms[t], t)
      BY DEF All
    <3>2. CASE sm'[t] = ms[t] /\ (Exists(t) => ok)
      <4>1. PICK fatal \in BOOLEAN : fatal = (~ ok)
        OBVIOUS
      <4>2. Rested(ms[t], FALSE) => Rested(ms[t], fatal)
        BY RestedAny
      <4> QED  BY <3>1, <3>2, <4>1, <4>2
    <3>3. CASE Exists(t) /\ ~ ok /\ sm'[t] = Set(ms[t], {"Disconnect"})
      <4> DEFINE n == Set(ms[t], {"Disconnect"})
      <4>1. Sound(ms[t], t)
        BY <3>1, <3>3
      <4>2. PICK fatal \in BOOLEAN : fatal = FALSE
        OBVIOUS
      <4>3. /\ Sound(n, t) /\ Same(n, ms[t]) /\ n.flags = ms[t].flags \cup {"Disconnect"}
            /\ Rested(ms[t], fatal) => Rested(n, TRUE)
        BY <4>1, FatalSound
      <4> HIDE DEF n
      <4>4. sm'[t] = n /\ ok = FALSE
        BY <3>3 DEF n
      <4>5. n.ptk = ms[t].ptk /\ n.ptk # "none"
        BY <3>3, <4>3 DEF Same
      <4>6. \A f \in {"Init", "GUpdateStationKeys"} : Is(n, f) <=> Is(ms[t], f)
        BY <4>3 DEF Is
      <4>7. Rested(ms[t], FALSE) => Rested(n, ~ ok)
        BY <4>2, <4>3, <4>4
      <4> QED  BY <4>3, <4>4, <4>5, <4>6, <4>7
    <3> QED  BY <1>2, <3>2, <3>3
  <2>4. All(sm')
    BY <1>2, <2>3 DEF All
  <2>5. Marked' = {}
    BY <1>1, <2>3 DEF Marked, MarkedIn
  <2>6. Existing' = Existing
    BY <2>3 DEF Existing, Exists
  <2>7. Base' /\ Count({})'
    <3>1. {} \ {} = {} /\ 0 \in Nat
      OBVIOUS
    <3> QED  BY <1>1, <2>1, <2>4, <2>5, <3>1 DEF Base, Count
  <2>8. \A t \in Existing : Rested(ms[t], FALSE) => Rested(sm'[t], Fatal')
    BY <2>2, <2>3 DEF Existing
  <2> QED  BY <2>2, <2>3, <2>6, <2>7, <2>8
<1>3. CASE group' = SetKeysDone(g, TRUE) /\ sm' = ms
  <2>1. PICK ok \in BOOLEAN : ok = TRUE
    OBVIOUS
  <2>2. group' = SetKeysDone(g, ok) /\ g.GKeyDoneStations = 0 /\ sm' = [t \in Sta |-> sm'[t]]
    BY <1>3, <2>1 DEF Finishes, All
  <2>3. \A t \in Sta : sm'[t] = ms[t] /\ (Exists(t) => ok)
    BY <1>3, <2>1
  <2> QED  BY <1>2, <2>2, <2>3
<1>4. CASE /\ group' = SetKeysDone(g, FALSE)
           /\ sm' = [t \in Sta |-> IF Exists(t) THEN Set(ms[t], {"Disconnect"}) ELSE ms[t]]
  <2>1. PICK ok \in BOOLEAN : ok = FALSE
    OBVIOUS
  <2>2. group' = SetKeysDone(g, ok) /\ g.GKeyDoneStations = 0
    BY <1>4, <2>1 DEF Finishes
  <2>3. /\ sm' = [t \in Sta |-> sm'[t]]
        /\ \A t \in Sta : sm'[t] = IF Exists(t) THEN Set(ms[t], {"Disconnect"}) ELSE ms[t]
    BY <1>4
  <2>4. \A t \in Sta : \/ sm'[t] = ms[t] /\ (Exists(t) => ok)
                       \/ Exists(t) /\ ~ ok /\ sm'[t] = Set(ms[t], {"Disconnect"})
    BY <2>1, <2>3
  <2> QED  BY <1>2, <2>2, <2>3, <2>4
<1> QED  BY <1>3, <1>4 DEF Finishes

\* One turn of the loop of wpa_rekey_gtk.
LEMMA RekeyTurnInv ==
  ASSUME Inv, RekeyTurn
  PROVE  Inv'
<1> DEFINE g == [group EXCEPT !.changed = FALSE]
<1>1. Base /\ stack # <<>> /\ Top = Rekeying /\ GroupSm(sm, g, fails)
  BY DEF RekeyTurn, Inv
<1>2. PICK x \in Back : Renews(x)
  BY <1>1, Which DEF Inv
<1>3. Tail(stack) = x /\ CallerOf(x) \subseteq Existing /\ Rest({}) /\ Count({})
  BY <1>2, Tops DEF Renews
<1>4. /\ All(sm) /\ Marked = MarkedIn(sm) /\ group \in GroupSet /\ group.GKeyDoneStations \in Nat
      /\ group.state = "SETKEYSDONE" => Marked = {}
  BY <1>1 DEF Base, Marked, MarkedIn
<1>5. /\ g \in GroupSet /\ g.state = group.state /\ g.GTKReKey = group.GTKReKey
      /\ g.GKeyDoneStations = group.GKeyDoneStations
  BY <1>4 DEF GroupSet
<1> HIDE DEF g
<1>6. /\ x \in Seq(FrameSet) /\ Rekeying \in FrameSet /\ WhileRekeying \in FrameSet /\ x \in Caller
      /\ Existing \in SUBSET Sta /\ Telling(Existing) \in FrameSet
  <2>1. Existing \in SUBSET Sta
    BY DEF Existing
  <2> QED  BY <2>1, FramesOf
<1>7. CASE Finishes(sm, g)
  <2>1. g.GKeyDoneStations = Cardinality(MarkedIn(sm))
    <3>1. Marked \ {} = Marked
      OBVIOUS
    <3> QED  BY <1>3, <1>4, <1>5, <3>1 DEF Count
  <2>2. \A t \in Sta : sm[t].ptk = "none" <=> ~ Exists(t)
    BY DEF Exists
  <2>3. /\ Base' /\ Count({})' /\ Existing' = Existing
        /\ \A t \in Existing : Rested(sm[t], FALSE) => Rested(sm'[t], Fatal')
    BY <1>4, <1>5, <1>7, <2>1, <2>2, FinishedBase
  <2>4. Fatal = FALSE
    BY <1>5, <1>7 DEF Finishes, Fatal
  <2>5. Rest({})'
    BY <1>3, <2>3, <2>4 DEF Rest
  <2>6. stack' = <<Rekeying>> \o x
    <3>1. PICK on \in BOOLEAN : on = TRUE
      OBVIOUS
    <3>2. stack' = Loop(Rekeying, on)
      BY <1>1, <1>7, <3>1 DEF Finishes
    <3> QED  BY <1>3, <1>6, <3>1, <3>2, LoopIs
  <2>7. Renews(x)'
    BY <1>3, <2>3, <2>5, <2>6 DEF Renews
  <2>8. Calls'
    BY <2>7 DEF Calls
  <2> QED  BY <2>3, <2>8 DEF Inv
<1>8. CASE Begins(sm, g)
  <2>1. /\ group' \in GroupSet /\ group'.state = "SETKEYS" /\ ~ group'.GTKReKey
        /\ group'.GKeyDoneStations = 0 /\ sm' = sm
    <3> DEFINE h == [g EXCEPT !.changed = TRUE, !.state = "SETKEYS", !.GTKReKey = FALSE,
                              !.GKeyDoneStations = 0]
    <3>1. 0 \in Int /\ TRUE \in BOOLEAN /\ FALSE \in BOOLEAN
      OBVIOUS
    <3>2. /\ h \in GroupSet /\ h.state = "SETKEYS" /\ h.GTKReKey = FALSE
          /\ h.GKeyDoneStations = 0
      BY <1>5, <3>1 DEF GroupSet
    <3> HIDE DEF h
    <3>3. group' = h /\ sm' = sm
      BY <1>8 DEF Begins, h
    <3> QED  BY <3>2, <3>3
  <2>2. stack' = <<Telling(Existing)>> \o (<<WhileRekeying>> \o x)
    <3>1. Each = Telling(Existing)
      BY DEF Each, Telling, Existing
    <3>2. [Rekeying EXCEPT !.at = "while"] = WhileRekeying
      BY DEF Rekeying, WhileRekeying
    <3>3. stack' = <<Telling(Existing), WhileRekeying>> \o x
      BY <1>1, <1>3, <1>8, <3>1, <3>2 DEF Begins
    <3> DEFINE a == Telling(Existing)
               b == WhileRekeying
    <3>4. a \in FrameSet /\ b \in FrameSet /\ stack' = <<a, b>> \o x
      BY <1>6, <3>3
    <3> HIDE DEF a, b
    <3>5. \A y \in Seq(FrameSet) : <<a, b>> \o y = <<a>> \o (<<b>> \o y)
      BY <3>4, Pushes
    <3>6. stack' = <<a>> \o (<<b>> \o x)
      BY <1>6, <3>4, <3>5
    <3> QED  BY <3>6 DEF a, b
  <2>3. Existing' = Existing /\ Marked' = Marked
    BY <2>1 DEF Existing, Exists, Marked
  <2>4. Base'
    BY <1>4, <2>1 DEF Base
  <2>5. PICK P \in SUBSET Sta : P = Existing
    BY <1>6
  <2>6. Count(P)'
    <3>1. Marked \subseteq Existing
      BY <1>4, MarkedExist DEF Existing, Exists
    <3>2. Marked \ P = {}
      BY <2>5, <3>1
    <3>3. Cardinality({}) = 0
      BY FS_EmptySet
    <3> QED  BY <2>1, <2>3, <3>2, <3>3 DEF Count
  <2>7. Rest({})'
    <3>1. Fatal = FALSE /\ Fatal' = FALSE
      BY <1>5, <1>8, <2>1 DEF Begins, Fatal
    <3> QED  BY <1>3, <2>1, <2>3, <3>1 DEF Rest
  <2>8. Tells(x, P)'
    <3>1. P \subseteq Existing' /\ CallerOf(x) \subseteq Existing'
      BY <1>3, <2>3, <2>5
    <3>2. stack' = <<Telling(P)>> \o (<<WhileRekeying>> \o x)
      BY <2>2, <2>5
    <3> QED  BY <2>1, <2>6, <2>7, <3>1, <3>2 DEF Tells
  <2>9. Calls'
    BY <2>8 DEF Calls
  <2> QED  BY <2>4, <2>9 DEF Inv
<1>9. CASE Stays(sm, g)
  <2>1. group' = g /\ sm' = sm /\ stack' = Loop(Rekeying, \E t \in {} : Is(sm[t], "changed"))
    <3>1. Rekeying.of = {}
      BY DEF Rekeying
    <3> QED  BY <1>1, <1>9, <3>1 DEF Stays
  <2>2. stack' = x
    <3>1. PICK on \in BOOLEAN : on = FALSE
      OBVIOUS
    <3>2. stack' = Loop(Rekeying, on)
      BY <2>1, <3>1
    <3> QED  BY <1>3, <1>6, <3>1, <3>2, LoopIs
  <2>3. Existing' = Existing /\ Marked' = Marked /\ Fatal' = Fatal /\ Settled'
    BY <1>5, <1>9, <2>1 DEF Existing, Exists, Marked, Fatal, Settled, Stays
  <2>4. Base'
    BY <1>4, <1>5, <2>1, <2>3 DEF Base
  <2>5. Count({})' /\ Rest({})'
    BY <1>3, <1>5, <2>1, <2>3 DEF Count, Rest
  <2>6. Starting(x) = {}
    BY CallersAre
  <2>7. Waits(x)'
    BY <1>3, <1>6, <2>2, <2>3, <2>5, <2>6 DEF Waits
  <2>8. Calls'
    BY <1>6, <2>7 DEF Calls
  <2> QED  BY <2>4, <2>8 DEF Inv
<1> QED  BY <1>1, <1>7, <1>8, <1>9, GroupCases

\* One turn of the loop of wpa_sm_step, in the loop over the stations.
LEMMA ToldTurnInv ==
  ASSUME Base, NEW s \in Sta, NEW x \in Back, NEW P \in SUBSET Sta, TellsOne(x, P, s),
         NEW n, Sound(n, s), Told(n), NEW h \in GroupSet, h.state = group.state,
         h.GTKReKey = group.GTKReKey, h.GKeyDoneStations = group.GKeyDoneStations,
         NEW f, GroupSm([sm EXCEPT ![s] = n], h, f)
  PROVE  Inv'
<1> DEFINE ms == [sm EXCEPT ![s] = n]
<1>1. /\ stack # <<>> /\ Top = Frame("step", s)
      /\ Tail(stack) = <<Telling(P)>> \o (<<WhileRekeying>> \o x)
  BY Tops
<1>2. /\ P \subseteq Existing /\ s \in Existing \ P /\ CallerOf(x) \subseteq Existing /\ Rest({s})
      /\ Count(P) /\ group.state = "SETKEYS" /\ ~ group.GTKReKey /\ Told(sm[s])
  BY DEF TellsOne
<1>3. group \in GroupSet /\ All(sm)
  BY DEF Base
<1>4. h.state = "SETKEYS" /\ ~ h.GTKReKey
  BY <1>2
<1>5. Tally(h, n, group, sm[s])
  BY <1>2, <1>4 DEF Tally, Told
<1>6. ms = Put(sm, s, n)
  BY DEF Put
<1> HIDE DEF ms
<1>7. /\ h.GKeyDoneStations = Cardinality(MarkedIn(ms) \ P)
      /\ All(ms) /\ ms[s] = n /\ s \in MarkedIn(ms)
  <2>1. h.GKeyDoneStations = Cardinality(MarkedIn(ms) \ P)
    <3>1. s \notin P /\ Count(P)
      BY <1>2
    <3> QED  BY ONLY Base, s \in Sta, Sound(n, s), <1>5, <1>6, <3>1, TallyCount
  <2>2. All(ms) /\ ms[s] = n
    BY <1>3, <1>6, OneChanged
  <2>3. s \in MarkedIn(ms)
    BY <2>2 DEF MarkedIn, Told
  <2> QED  BY <2>1, <2>2, <2>3
<1>8. h.GKeyDoneStations # 0
  <2>1. IsFiniteSet(MarkedIn(ms) \ P) /\ MarkedIn(ms) \ P # {}
    BY <1>2, <1>7, MarkedExist
  <2> QED  BY <1>7, <2>1, FS_EmptySet
<1>9. Stays(ms, h)
  <2>1. Finishes(ms, h) \/ Begins(ms, h) \/ Stays(ms, h)
    BY GroupCases DEF ms
  <2> QED  BY <1>4, <1>8, <2>1 DEF Finishes, Begins
<1>10. group' = h /\ sm' = ms /\ stack' = Loop(Top, \E t \in Top.of : Is(ms[t], "changed"))
  BY <1>9 DEF Stays
<1>11. Changes(s, n)
  BY <1>5, <1>6, <1>10 DEF Changes
<1>12. s \notin P /\ s \in Sta /\ Rested(n, Fatal)
  <2>1. Fatal = FALSE
    BY <1>2 DEF Fatal
  <2> QED  BY <1>2, <2>1 DEF Told
<1>13. /\ Base' /\ Count(P)' /\ Existing' = Existing \cup {s} /\ sm'[s] = n
       /\ group'.state = group.state /\ group'.GTKReKey = group.GTKReKey
       /\ Rest({s})' /\ Rest({})'
  BY <1>2, <1>11, <1>12, ChangedBase
<1>14. Existing' = Existing
  BY <1>2, <1>13
<1>15. stack' = <<Frame("step", s)>> \o Tail(stack) \/ stack' = Tail(stack)
  <2> DEFINE on == \E t \in Top.of : Is(ms[t], "changed")
  <2>1. on \in BOOLEAN
    OBVIOUS
  <2>2. stack' = Loop(Frame("step", s), on)
    BY <1>1, <1>10
  <2>3. Frame("step", s) \in FrameSet /\ Tail(stack) \in Seq(FrameSet)
    <3>1. x \in Seq(FrameSet) /\ WhileRekeying \in FrameSet /\ Telling(P) \in FrameSet
          /\ Frame("step", s) \in FrameSet
      BY FramesOf
    <3> DEFINE y == <<WhileRekeying>> \o x
    <3>2. y \in Seq(FrameSet)
      BY <3>1, PushIs
    <3> HIDE DEF y
    <3>3. <<Telling(P)>> \o y \in Seq(FrameSet)
      BY <3>1, <3>2, PushIs
    <3> QED  BY <1>1, <3>1, <3>3 DEF y
  <2> HIDE DEF on
  <2> QED  BY <2>1, <2>2, <2>3, LoopIs
<1>16. CASE stack' = <<Frame("step", s)>> \o Tail(stack)
  <2>1. TellsOne(x, P, s)'
    BY <1>1, <1>2, <1>13, <1>14, <1>16 DEF TellsOne
  <2>2. Calls'
    BY <2>1 DEF Calls
  <2> QED  BY <1>13, <2>2 DEF Inv
<1>17. CASE stack' = Tail(stack)
  <2>1. Tells(x, P)'
    BY <1>1, <1>2, <1>13, <1>14, <1>17 DEF Tells
  <2>2. Calls'
    BY <2>1 DEF Calls
  <2> QED  BY <1>13, <2>2 DEF Inv
<1> QED  BY <1>15, <1>16, <1>17

\* The same in a step of the station alone.
LEMMA StepTurnInv ==
  ASSUME Base, NEW s \in Sta, NEW x \in After(s), Steps(s, x),
         NEW n, Sound(n, s), NEW h, Tally(h, n, group, sm[s]),
         Is(n, "Init") <=> Is(sm[s], "Init"),
         ~ Is(n, "changed") /\ ~ Is(sm[s], "Init") => Rested(n, FALSE),
         NEW f, GroupSm([sm EXCEPT ![s] = n], h, f)
  PROVE  Inv'
<1> DEFINE ms == [sm EXCEPT ![s] = n]
<1>1. stack # <<>> /\ Top = Frame("step", s) /\ Tail(stack) = x
  BY Tops
<1>2. /\ s \in Existing /\ Rest({s}) /\ Settled /\ Count({})
      /\ Is(sm[s], "Init") <=> x = <<Frame("init", s)>>
  BY DEF Steps
<1>3. group \in GroupSet /\ All(sm) /\ Existing \subseteq Sta
  BY DEF Base, Existing
<1>4. h \in GroupSet /\ h.state = group.state /\ h.GTKReKey = group.GTKReKey
  BY DEF Tally
<1>5. ms = Put(sm, s, n)
  BY DEF Put
<1> HIDE DEF ms
<1>6. /\ All(ms) /\ ms[s] = n /\ \A t \in Sta \ {s} : ms[t] = sm[t]
      /\ {t \in Sta : ms[t].ptk # "none"} = {t \in Sta : sm[t].ptk # "none"} \cup {s}
  BY <1>3, <1>5, OneChanged
<1>7. h.GKeyDoneStations = Cardinality(MarkedIn(ms))
  <2>1. PICK P : P = {}
    OBVIOUS
  <2>2. s \notin P /\ Count(P)
    BY <1>2, <2>1
  <2>3. h.GKeyDoneStations = Cardinality(MarkedIn(ms) \ P)
    BY <1>5, <2>2, TallyCount
  <2>4. MarkedIn(ms) \ P = MarkedIn(ms)
    BY <2>1
  <2> QED  BY <2>3, <2>4
<1>8. x \in Seq(FrameSet) /\ x \in Caller /\ Frame("step", s) \in FrameSet
  BY FramesOf
<1>9. CASE Finishes(ms, h)
  <2>1. \A t \in Sta : ms[t].ptk = "none" <=> ~ Exists(t)
    <3>1. {t \in Sta : sm[t].ptk # "none"} \cup {s} = {t \in Sta : sm[t].ptk # "none"}
      BY <1>2 DEF Existing, Exists
    <3> QED  BY <1>6, <3>1 DEF Exists
  <2>2. Fatal = FALSE /\ ~ h.GTKReKey
    BY <1>2, <1>4, <1>9 DEF Finishes, Fatal, Settled
  <2>3. /\ Base' /\ Count({})' /\ Existing' = Existing /\ Settled'
        /\ \A t \in Sta : Is(sm'[t], "Init") <=> Is(ms[t], "Init")
        /\ \A t \in Existing : Rested(ms[t], FALSE) => Rested(sm'[t], Fatal')
    BY <1>4, <1>6, <1>7, <1>9, <2>1, <2>2, FinishedBase
  <2>4. Rest({s})'
    BY <1>2, <1>3, <1>6, <2>2, <2>3 DEF Rest
  <2>5. stack' = <<Frame("step", s)>> \o x
    <3>1. PICK on \in BOOLEAN : on = TRUE
      OBVIOUS
    <3>2. stack' = Loop(Frame("step", s), on)
      BY <1>1, <1>9, <3>1 DEF Finishes
    <3> QED  BY <1>1, <1>8, <3>1, <3>2, LoopIs
  <2>6. Steps(s, x)'
    BY <1>2, <1>6, <2>3, <2>4, <2>5 DEF Steps
  <2>7. Calls'
    BY <2>6 DEF Calls
  <2> QED  BY <2>3, <2>7 DEF Inv
<1>10. CASE Stays(ms, h)
  <2> DEFINE on == \E t \in Top.of : Is(ms[t], "changed")
  <2>1. group' = h /\ sm' = ms /\ stack' = Loop(Frame("step", s), on)
    BY <1>1, <1>10 DEF Stays
  <2>2. on \in BOOLEAN /\ (on <=> Is(n, "changed"))
    <3>1. Top.of = {s}
      BY <1>1 DEF Frame
    <3> QED  BY <1>6, <3>1
  <2> HIDE DEF on
  <2>3. /\ on => stack' = <<Frame("step", s)>> \o x
        /\ ~ on => stack' = x
    BY <1>1, <1>8, <2>1, <2>2, LoopIs
  <2>4. Changes(s, n)
    BY <1>5, <2>1 DEF Changes
  <2>5. CASE on
    BY <1>2, <2>3, <2>4, <2>5, StepInv
  <2>6. CASE ~ on
    <3>1. s \notin {}
      OBVIOUS
    <3>2. /\ Base' /\ Count({})' /\ Existing' = Existing \cup {s} /\ sm'[s] = n
          /\ Fatal' = Fatal /\ Settled' /\ Rest({s})'
          /\ Rested(n, Fatal) => Rest({})'
      BY <1>2, <2>4, <3>1, ChangedBase
    <3>3. CallerOf(x) \subseteq Existing'
      BY <3>2, CallersAre
    <3>4. CASE x = <<Frame("init", s)>>
      <4>1. Starting(x) = {s} /\ Is(n, "Init")
        BY <1>2, <3>4, CallersAre
      <4>2. Waits(x)'
        BY <1>8, <2>3, <2>6, <3>2, <3>3, <4>1 DEF Waits
      <4>3. Calls'
        BY <1>8, <4>2 DEF Calls
      <4> QED  BY <3>2, <4>3 DEF Inv
    <3>5. CASE x # <<Frame("init", s)>>
      <4>1. Starting(x) = {}
        BY <3>5, CallersAre
      <4>2. Rested(n, FALSE)
        BY <1>2, <2>2, <2>6, <3>5
      <4>3. Rested(n, Fatal)
        <5>1. Fatal \in BOOLEAN
          BY DEF Fatal
        <5> QED  BY <4>2, <5>1, RestedAny
      <4>4. Waits(x)'
        BY <1>8, <2>3, <2>6, <3>2, <3>3, <4>1, <4>3 DEF Waits
      <4>5. Calls'
        BY <1>8, <4>4 DEF Calls
      <4> QED  BY <3>2, <4>5 DEF Inv
    <3> QED  BY <3>4, <3>5
  <2> QED  BY <2>5, <2>6
<1>11. ~ Begins(ms, h)
  BY <1>2, <1>4 DEF Begins, Settled, Fatal
<1>12. Finishes(ms, h) \/ Begins(ms, h) \/ Stays(ms, h)
  BY GroupCases DEF ms
<1> QED  BY <1>9, <1>10, <1>11, <1>12

LEMMA TurnInv ==
  ASSUME Inv, NEW s \in Sta, Turn(s)
  PROVE  Inv'
<1> DEFINE w == Begun(sm[s], group)
<1>1. Base /\ stack # <<>> /\ Top = Frame("step", s)
  BY DEF Turn, Inv
<1>2. PICK ok \in BOOLEAN :
        LET v == StepGroup(StepPtk(w, s, ok))
        IN  GroupSm([sm EXCEPT ![s] = v.m], v.g, IF ok THEN fails ELSE fails + 1)
  BY DEF Turn, Begun
<1> DEFINE v == StepGroup(StepPtk(w, s, ok))
           n == v.m
           h == v.g
           f == IF ok THEN fails ELSE fails + 1
<1>3. GroupSm([sm EXCEPT ![s] = n], h, f)
  BY <1>2
<1>4. group \in GroupSet
  BY <1>1 DEF Base
<1>5. ASSUME Sound(sm[s], s)
      PROVE  /\ Sound(n, s) /\ (Is(n, "Init") <=> Is(sm[s], "Init"))
             /\ ~ Is(n, "changed") /\ ~ Is(sm[s], "Init") => Rested(n, FALSE)
             /\ Tally(h, n, group, sm[s])
  <2>1. /\ v \in World(s) /\ Sound(v.m, s) /\ Ended(v, w)
        /\ Is(v.m, "Init") <=> Is(sm[s], "Init")
        /\ ~ Is(v.m, "changed") /\ ~ Is(sm[s], "Init") => Rested(v.m, FALSE)
    BY <1>4, <1>5, TurnSound
  <2>2. w \in World(s) /\ w.g = [group EXCEPT !.changed = FALSE] /\ w.m.flags = sm[s].flags \ {"changed"}
    BY <1>4, <1>5, BegunSound
  <2> HIDE DEF v, w
  <2>3. /\ w.g \in GroupSet /\ w.g.state = group.state /\ w.g.GTKReKey = group.GTKReKey
        /\ w.g.GKeyDoneStations = group.GKeyDoneStations
        /\ Is(w.m, "GUpdateStationKeys") <=> Is(sm[s], "GUpdateStationKeys")
    BY <1>4, <2>2 DEF GroupSet, Is
  <2>4. Tally(v.g, v.m, group, sm[s])
    BY <2>1, <2>3 DEF Tally, Ended, World, GroupSet, Is
  <2> QED  BY <2>1, <2>4
<1>6. CASE \E x \in After(s) : Steps(s, x)
  <2>1. PICK x \in After(s) : Steps(s, x)
    BY <1>6
  <2>2. Sound(sm[s], s)
    BY <1>1, <2>1 DEF Steps, Existing, Exists, Base, All
  <2>3. /\ Sound(n, s) /\ (Is(n, "Init") <=> Is(sm[s], "Init"))
        /\ ~ Is(n, "changed") /\ ~ Is(sm[s], "Init") => Rested(n, FALSE)
        /\ Tally(h, n, group, sm[s])
    BY <1>5, <2>2
  <2> HIDE DEF n, h, f
  <2> QED  BY ONLY s \in Sta, <1>1, <1>3, <2>1, <2>3, StepTurnInv
<1>7. CASE \E x \in Back, P \in SUBSET Sta : TellsOne(x, P, s)
  <2>1. PICK x \in Back, P \in SUBSET Sta : TellsOne(x, P, s)
    BY <1>7
  <2>2. Sound(sm[s], s) /\ Told(sm[s])
    BY <1>1, <2>1 DEF TellsOne, Existing, Exists, Base, All
  <2>3. Sound(n, s)
    BY <1>5, <2>2
  <2>4. Told(n) /\ h = [group EXCEPT !.changed = FALSE]
    BY <1>4, <2>2, ToldTurn
  <2> HIDE DEF n, h, f
  <2>5. /\ h \in GroupSet /\ h.state = group.state /\ h.GTKReKey = group.GTKReKey
        /\ h.GKeyDoneStations = group.GKeyDoneStations
    BY <1>4, <2>4 DEF GroupSet
  <2> QED  BY ONLY s \in Sta, <1>1, <1>3, <2>1, <2>3, <2>4, <2>5, ToldTurnInv
<1>8. (\E x \in After(s) : Steps(s, x)) \/ (\E x \in Back, P \in SUBSET Sta : TellsOne(x, P, s))
  BY <1>1, Which DEF Inv
<1> QED  BY <1>6, <1>7, <1>8
-----------------------------------------------------------------------------
(***************************************************************************)
(* The invariant, and what follows from it.                                *)
(***************************************************************************)
LEMMA InitInv == Init => Inv
<1> SUFFICES ASSUME Init PROVE Inv
  OBVIOUS
<1>1. /\ sm = [s \in Sta |-> NoSm] /\ stack = <<>> /\ group.state = "SETKEYSDONE"
      /\ group.GKeyDoneStations = 0 /\ ~ group.GTKReKey /\ group \in GroupSet
  BY DEF Init, GroupSet
<1>2. NoSm.ptk = "none" /\ NoSm.flags = {}
  BY DEF NoSm, NewSm
<1>3. Marked = {} /\ Existing = {}
  BY <1>1, <1>2 DEF Marked, Existing, Exists, Is
<1>4. All(sm)
  BY <1>1, <1>2 DEF All
<1>5. Base
  BY <1>1, <1>3, <1>4 DEF Base
<1>6. Count({})
  BY <1>1, <1>3, FS_EmptySet DEF Count
<1>7. Waits(<<>>)
  BY <1>1, <1>3, <1>6, CallersAre DEF Waits, Rest, Settled
<1> QED  BY <1>5, <1>7, CallersAre DEF Inv, Calls

LEMMA StutterInv ==
  ASSUME Inv, UNCHANGED vars
  PROVE  Inv'
<1>1. sm' = sm /\ group' = group /\ stack' = stack
  BY DEF vars
<1>2. /\ Base' /\ Existing' = Existing /\ Fatal' = Fatal /\ (Settled => Settled')
      /\ \A P : Count(P) => Count(P)'
      /\ \A busy : Rest(busy) => Rest(busy)'
  BY <1>1, SameBase DEF Inv
<1>3. Calls'
  <2>1. \A x \in Caller : Waits(x) => Waits(x)'
    BY <1>1, <1>2 DEF Waits
  <2>2. \A s \in Sta : \A x \in After(s) : Steps(s, x) => Steps(s, x)'
    BY <1>1, <1>2 DEF Steps
  <2>3. \A x \in Back : (Renews(x) => Renews(x)') /\ (Tests(x) => Tests(x)')
    BY <1>1, <1>2 DEF Renews, Tests
  <2>4. \A x \in Back, P \in SUBSET Sta : Tells(x, P) => Tells(x, P)'
    BY <1>1, <1>2 DEF Tells
  <2>5. \A x \in Back, P \in SUBSET Sta, t \in Sta : TellsOne(x, P, t) => TellsOne(x, P, t)'
    BY <1>1, <1>2 DEF TellsOne
  <2> QED  BY <2>1, <2>2, <2>3, <2>4, <2>5 DEF Inv, Calls
<1> QED  BY <1>2, <1>3 DEF Inv

LEMMA NextInv == Inv /\ [Next]_vars => Inv'
<1> SUFFICES ASSUME Inv, [Next]_vars PROVE Inv'
  OBVIOUS
<1>1. CASE UNCHANGED vars
  BY <1>1, StutterInv
<1>2. ASSUME NEW s \in Sta, Turn(s) PROVE Inv'
  BY <1>2, TurnInv
<1>3. ASSUME NEW s \in Sta, UpdateSta(s) PROVE Inv'
  BY <1>3, UpdateStaInv
<1>4. ASSUME NEW s \in Sta, Associated(s) PROVE Inv'
  BY <1>4, AssociatedInv
<1>5. ASSUME NEW s \in Sta, Initialized(s) PROVE Inv'
  BY <1>5, InitializedInv
<1>6. ASSUME NEW s \in Sta, Reassociated(s) PROVE Inv'
  BY <1>6, ReassociatedInv
<1>7. ASSUME NEW s \in Sta, Freed(s) PROVE Inv'
  BY <1>7, FreedInv
<1>8. ASSUME NEW s \in Sta, Requested(s) PROVE Inv'
  BY <1>8, RequestedInv
<1>9. CASE EachDone
  BY <1>9, EachDoneInv
<1>10. CASE RekeyTurn
  BY <1>10, RekeyTurnInv
<1>11. CASE While
  BY <1>11, WhileInv
<1>12. ASSUME NEW s \in Sta, Authenticate(s) PROVE Inv'
  BY <1>12, AuthenticateInv
<1>13. ASSUME NEW s \in Sta, Associate(s) PROVE Inv'
  BY <1>13, AssociateInv
<1>14. ASSUME NEW s \in Sta, Remove(s) PROVE Inv'
  BY <1>14, RemoveInv
<1>15. ASSUME NEW s \in Sta, Timeout(s) PROVE Inv'
  BY <1>15, TimeoutInv
<1>16. ASSUME NEW s \in Sta, RekeyPtk(s) PROVE Inv'
  BY <1>16, RekeyPtkInv
<1>17. ASSUME NEW s \in Sta, Receive(s) PROVE Inv'
  BY <1>17, ReceiveInv
<1>18. ASSUME NEW s \in Sta, NEW p \in BOOLEAN, Leave(s, p) PROVE Inv'
  BY <1>18, LeaveInv
<1>19. ASSUME NEW s \in Sta, NEW p \in BOOLEAN, Request(s, p) PROVE Inv'
  BY <1>19, RequestInv
<1>20. CASE RekeyGtk
  BY <1>20, RekeyGtkInv
<1>21. CASE Step
  BY <1>2, <1>3, <1>4, <1>5, <1>6, <1>7, <1>8, <1>9, <1>10, <1>11, <1>21 DEF Step
<1>22. CASE Event
  BY <1>12, <1>13, <1>14, <1>15, <1>16, <1>17, <1>18, <1>19, <1>20, <1>22 DEF Event
<1> QED  BY <1>1, <1>21, <1>22 DEF Next

\* The inductive invariant of the authenticator: what each machine may look like
\* between and within its steps, which calls may nest, and that the group counts the
\* stations whose update is pending.
THEOREM InvHolds == Spec => []Inv
<1>1. Init => Inv
  BY InitInv
<1>2. Inv /\ [Next]_vars => Inv'
  BY NextInv
<1> QED  BY <1>1, <1>2, PTL DEF Spec

LEMMA SmTypes ==
  ASSUME Inv, NEW s \in Sta
  PROVE  /\ sm[s].ptk \in PtkState \cup {"none"} /\ sm[s].grp \in PtkGroupState
         /\ sm[s].flags \subseteq Flag /\ sm[s].rx \in {"none", "pairwise", "group"}
         /\ sm[s].TimeoutCtr \in 0 .. UPDATE_COUNT + 1
         /\ sm[s].GTimeoutCtr \in 0 .. UPDATE_COUNT + 1
         /\ {sm[s].SNonce, sm[s].PTK, sm[s].tk, sm[s].peer} \cup {x.SNonce : x \in sm[s].alt}
              \subseteq {0} \cup Nonces[s]
         /\ Range(sm[s].key_replay) \subseteq Msg
         /\ Len(sm[s].key_replay) <= MAX_RETRIES /\ sm[s].timeouts \in Nat
<1>1. IF sm[s].ptk = "none" THEN sm[s] = NoSm ELSE Sound(sm[s], s)
  BY DEF Inv, Base, All
<1>2. CASE sm[s].ptk = "none"
  <2>1. sm[s] = NoSm
    BY <1>1, <1>2
  <2>2. /\ NoSm.ptk = "none" /\ NoSm.grp = "IDLE" /\ NoSm.flags = {} /\ NoSm.rx = "none"
        /\ NoSm.TimeoutCtr = 0 /\ NoSm.GTimeoutCtr = 0 /\ NoSm.SNonce = 0 /\ NoSm.PTK = 0
        /\ NoSm.tk = 0 /\ NoSm.peer = 0 /\ NoSm.alt = {} /\ NoSm.key_replay = <<>> /\ NoSm.timeouts = 0
    BY DEF NoSm, NewSm
  <2>3. Range(<<>>) = {} /\ Len(<<>>) = 0
    BY DEF Range
  <2>4. 0 \in 0 .. UPDATE_COUNT + 1 /\ 0 <= MAX_RETRIES /\ 0 \in Nat
    BY CountAssumption
  <2> QED  BY <2>1, <2>2, <2>3, <2>4 DEF PtkGroupState
<1>3. CASE sm[s].ptk # "none"
  <2> DEFINE m == sm[s]
  <2>1. Sound(m, s)
    BY <1>1, <1>3
  <2> HIDE DEF m
  <2>2. m \in Machine(s) /\ Counters(m)
    BY <2>1, SoundIs
  <2>3. /\ m.ptk \in PtkState /\ m.grp \in PtkGroupState /\ m.flags \subseteq Flag
        /\ m.rx \in {"none", "pairwise", "group"} /\ m.TimeoutCtr \in Nat /\ m.GTimeoutCtr \in Nat
        /\ m.SNonce \in Keys(s) /\ m.PTK \in Keys(s) /\ m.tk \in Keys(s) /\ m.peer \in Keys(s)
        /\ m.alt \subseteq Old(s) /\ m.key_replay \in Seq(Sent(s)) /\ m.timeouts \in Nat
    BY <2>2 DEF Machine
  <2>4. m.TimeoutCtr <= UPDATE_COUNT + 1 /\ m.GTimeoutCtr <= UPDATE_COUNT + 1 /\ Len(m.key_replay) <= MAX_RETRIES
    BY <2>2, <2>3, CountAssumption DEF Counters
  <2>5. m.TimeoutCtr \in 0 .. UPDATE_COUNT + 1 /\ m.GTimeoutCtr \in 0 .. UPDATE_COUNT + 1
    BY <2>3, <2>4, CountAssumption
  <2>6. \A x \in m.alt : x.SNonce \in Keys(s)
    BY <2>3 DEF Old
  <2>7. Sent(s) \subseteq Msg
    BY StaAssumption DEF Sent, Keys, Msg
  <2>8. Range(m.key_replay) \subseteq Msg
    <3>1. \A i \in DOMAIN m.key_replay : m.key_replay[i] \in Sent(s)
      BY <2>3
    <3> QED  BY <2>7, <3>1 DEF Range
  <2> QED  BY <2>3, <2>4, <2>5, <2>6, <2>8 DEF Keys, m
<1> QED  BY <1>2, <1>3

\* Types: states, flags and keys stay in their sets; the retry counters never pass the
\* limits by more than one, although a PTK request enters PTKSTART without a reset; at
\* most MAX_RETRIES replay counters are valid; GKeyDoneStations never wraps.
THEOREM TypeCorrect == Spec => []TypeOK
<1>1. ASSUME Inv PROVE TypeOK
  <2>1. \A s \in Sta :
          /\ sm[s].ptk \in PtkState \cup {"none"} /\ sm[s].grp \in PtkGroupState
          /\ sm[s].flags \subseteq Flag /\ sm[s].rx \in {"none", "pairwise", "group"}
          /\ sm[s].TimeoutCtr \in 0 .. UPDATE_COUNT + 1
          /\ sm[s].GTimeoutCtr \in 0 .. UPDATE_COUNT + 1
          /\ {sm[s].SNonce, sm[s].PTK, sm[s].tk, sm[s].peer} \cup {x.SNonce : x \in sm[s].alt}
               \subseteq {0} \cup Nonces[s]
          /\ Range(sm[s].key_replay) \subseteq Msg
          /\ Len(sm[s].key_replay) <= MAX_RETRIES /\ sm[s].timeouts \in Nat
    BY <1>1, SmTypes
  <2>2. group.state \in {"SETKEYS", "SETKEYSDONE", "FATAL_FAILURE"} /\ group.GKeyDoneStations \in Nat
    BY <1>1 DEF Inv, Base, GroupSet
  <2>3. PICK P : Count(P)
    BY <1>1 DEF Inv, Calls, Waits, Steps, Renews, Tests, Tells, TellsOne
  <2>4. group.GKeyDoneStations <= Cardinality(Sta) /\ Cardinality(Sta) \in Nat
    <3>1. Marked \ P \in SUBSET Sta
      BY DEF Marked
    <3>2. Cardinality(Marked \ P) <= Cardinality(Sta)
      BY <3>1, StaAssumption, FS_Subset
    <3> QED  BY <2>3, <3>2, StaAssumption, FS_CardinalityType DEF Count
  <2>5. group.GKeyDoneStations \in 0 .. Cardinality(Sta)
    BY <2>2, <2>4
  <2> QED  BY <2>1, <2>2, <2>5 DEF TypeOK
<1> QED  BY <1>1, InvHolds, PTL

\* Between callbacks GKeyDoneStations is the number of stations whose group key update
\* is pending: nothing that ends an update forgets to count it out, or does so twice.
THEOREM GKeyDoneCorrect == Spec => []GKeyDone
<1>1. ASSUME Inv PROVE GKeyDone
  <2> SUFFICES ASSUME stack = <<>> PROVE group.GKeyDoneStations = Cardinality(Marked)
    BY DEF GKeyDone
  <2>1. Waits(<<>>)
    BY <1>1, Which DEF Inv
  <2>2. Count({})
    BY <2>1 DEF Waits
  <2>3. Marked \ {} = Marked
    OBVIOUS
  <2> QED  BY <2>2, <2>3 DEF Count
<1> QED  BY <1>1, InvHolds, PTL

\* The new GTK goes into use only when no station still has to confirm it.
THEOREM KeyWaitsCorrect == Spec => []KeyWaits
<1>1. Inv => KeyWaits
  BY DEF Inv, Base, KeyWaits
<1> QED  BY <1>1, InvHolds, PTL

\* The pairwise key given to the driver by a completed handshake is the one with which
\* the station confirmed it, whichever SNonces and old messages it answered.
THEOREM ConfirmedCorrect == Spec => []Confirmed
<1>1. ASSUME Inv PROVE Confirmed
  <2> SUFFICES ASSUME NEW s \in Sta, sm[s].ptk = "PTKINITDONE", sm[s].tk # 0
               PROVE  sm[s].tk = sm[s].peer
    BY DEF Confirmed
  <2>1. Sound(sm[s], s)
    BY <1>1 DEF Inv, Base, All
  <2> QED  BY <2>1, SoundIs DEF Pairwise
<1> QED  BY <1>1, InvHolds, PTL
=============================================================================
