---------------------------- MODULE RadiusClient ----------------------------
(***************************************************************************)
(* hostapd's RADIUS client (src/radius/radius_client.c): the list of       *)
(* requests that wait for an answer, their retransmission with exponential *)
(* backoff, and the change to another server.                              *)
(*                                                                         *)
(* Times are kept relative to the present second: an entry is due in so    *)
(* many seconds, a registered timeout fires in so many; what is overdue is *)
(* 0, for the code compares times with now and nothing else.  Two timeouts *)
(* of the same second are one: the second one finds nothing due.           *)
(* Statistics are left out.  The event loop runs one callback at a time;   *)
(* only the loop of radius_client_timer is taken step by step.             *)
(***************************************************************************)
EXTENDS Integers, Sequences, FiniteSets, SequencesExt, FiniteSetsExt

CONSTANTS
  Addrs,                       \* station addresses
  NumIds,                      \* identifiers: 256 in the code
  NumServers,                  \* servers of each class, auth and acct
  Secret,                      \* shared secret of each server of each class
  FIRST_WAIT, MAX_WAIT,        \* 3 and 120 seconds in the code
  MAX_RETRIES, MAX_ENTRIES,    \* 10 and 30
  NUM_FAILOVER,                \* 4
  MaxRequests,                 \* bound: identifiers fetched
  MaxErrors,                   \* bound: send() calls that fail
  MaxPrimary                   \* bound: returns to the primary servers

Class == {"auth", "acct"}
RadiusType == {"AUTH", "ACCT", "INTERIM"}

ASSUME ServerAssumption ==
  /\ NumServers \in [Class -> Nat \ {0}]
  /\ \A k \in Class : DOMAIN Secret[k] = 1 .. NumServers[k]
ASSUME LimitAssumption ==
  /\ NumIds \in Nat \ {0} /\ FIRST_WAIT \in Nat \ {0} /\ MAX_WAIT \in Nat
  /\ 2 * FIRST_WAIT <= MAX_WAIT
  /\ MAX_RETRIES \in Nat \ {0} /\ MAX_ENTRIES \in Nat \ {0} /\ NUM_FAILOVER \in Nat
ASSUME BoundAssumption == MaxRequests \in Nat /\ MaxErrors \in Nat /\ MaxPrimary \in Nat

VARIABLES
  radius,      \* struct radius_client_data, with conf's current servers and the timeouts
  next_id,     \* next_radius_identifier
  pc,          \* "idle", or "loop" inside radius_client_timer
  entry,       \* position in the list
  failover,    \* classes for which auth_failover or acct_failover was counted
  first,       \* earliest next try seen by the loop, -1 for none
  requests, errors, primaries   \* counted against the bounds

loop == <<pc, entry, failover, first>>
bounds == <<requests, errors, primaries>>
vars == <<radius, next_id, loop, bounds>>

ClassOf(t) == IF t = "AUTH" THEN "auth" ELSE "acct"
MinOf(a, b) == IF a < b THEN a ELSE b
-----------------------------------------------------------------------------
(***************************************************************************)
(* The list.                                                               *)
(***************************************************************************)
\* The entries of s at the positions I, in their order: entry n is the one with
\* n positions of I up to its own.
Selected(s, I) ==
  [n \in 1 .. Cardinality(I) |-> s[CHOOSE i \in I : Cardinality({j \in I : j <= i}) = n]]

\* The entries at the positions gone leave the list and the count.
Removed(r, gone) ==
  [r EXCEPT !.msgs = Selected(@, DOMAIN @ \ gone), !.num_msgs = @ - Cardinality(gone)]

\* Positions of the requests of type t, and of those for station a.
OfType(r, t) == {i \in DOMAIN r.msgs : r.msgs[i].type = t}
OfSta(r, t, a) == {i \in OfType(r, t) : r.msgs[i].addr = a}

\* Mutant of ListDel: an update that was sent only once stays.
ListDelResent(r, t, a) == Removed(r, {i \in OfSta(r, t, a) : r.msgs[i].attempts > 1})

\* radius_client_list_del
ListDel(r, t, a) == Removed(r, OfSta(r, t, a))

\* radius_client_update_timeout
UpdateTimeout(r) ==
  [r EXCEPT !.timers = IF r.msgs = <<>> THEN {} ELSE {Min({e.due : e \in Range(r.msgs)})}]

\* Mutant of Limited: the oldest entry is removed after the count.
LimitedLate(r) ==
  IF r.num_msgs > MAX_ENTRIES
  THEN [r EXCEPT !.msgs = IF Len(@) > 1 THEN Front(@) ELSE @]
  ELSE [r EXCEPT !.num_msgs = @ + 1]

\* The oldest entry makes room for the new one.
Limited(r) ==
  IF r.num_msgs >= MAX_ENTRIES
  THEN [r EXCEPT !.msgs = IF Len(@) > 1 THEN Front(@) ELSE @]
  ELSE [r EXCEPT !.num_msgs = @ + 1]

\* radius_client_list_add
ListAdd(r, t, a, id) ==
  LET e == [type |-> t, addr |-> a, id |-> id, attempts |-> 1, due |-> FIRST_WAIT,
            fresh |-> FIRST_WAIT, wait |-> 2 * FIRST_WAIT,
            secret |-> Secret[ClassOf(t)][r.server[ClassOf(t)]]]
  IN  Limited(UpdateTimeout([r EXCEPT !.msgs = <<e>> \o @]))

\* Mutant of GetId: pending requests with the identifier stay.
GetIdReused(r, id) == r

\* radius_client_get_id: entries with the identifier are removed.  num_msgs is not
\* counted down, although its declaration says "Number of pending messages in
\* the msgs list": from then on it is an upper bound.
GetId(r, id) == [r EXCEPT !.msgs = Selected(@, {i \in DOMAIN @ : @[i].id # id})]
-----------------------------------------------------------------------------
(***************************************************************************)
(* Servers and sockets.  A class has a socket (auth_serv_sock) and knows   *)
(* whether it is connected (auth_sock >= 0).                               *)
(***************************************************************************)
\* radius_client_flush(radius, 1)
FlushAuthMsgs(r) ==
  LET f == Removed(r, OfType(r, "AUTH"))
  IN  IF f.msgs = <<>> THEN [f EXCEPT !.timers = {}] ELSE f

\* radius_client_update_acct_msgs
UpdateAcctMsgs(r, s) ==
  [r EXCEPT !.msgs = [i \in DOMAIN @ |->
     IF @[i].type = "ACCT" THEN [@[i] EXCEPT !.secret = s] ELSE @[i]]]

\* Mutant of ModifyPending: authentication requests are kept.
ModifyPendingKept(r, k, n, o) ==
  IF Secret[k][n] = Secret[k][o] \/ k = "auth" THEN r ELSE UpdateAcctMsgs(r, Secret[k][n])

\* Pending requests made for another secret.
ModifyPending(r, k, n, o) ==
  IF Secret[k][n] = Secret[k][o] THEN r
  ELSE IF k = "auth" THEN FlushAuthMsgs(r) ELSE UpdateAcctMsgs(r, Secret[k][n])

\* Mutant of ResetRetries: interim updates start again too.
ResetRetriesAll(r, k) ==
  LET Reset(e) == [e EXCEPT !.due = e.fresh, !.attempts = 0, !.wait = 2 * FIRST_WAIT]
  IN  [r EXCEPT !.msgs = [i \in DOMAIN @ |->
         IF ClassOf(@[i].type) = k THEN Reset(@[i]) ELSE @[i]]]

\* "Reset retry counters for the new server"
ResetRetries(r, k) ==
  LET Reset(e) == [e EXCEPT !.due = e.fresh, !.attempts = 0, !.wait = 2 * FIRST_WAIT]
      type == IF k = "auth" THEN "AUTH" ELSE "ACCT"
  IN  [r EXCEPT !.msgs = [i \in DOMAIN @ |-> IF @[i].type = type THEN Reset(@[i]) ELSE @[i]]]

\* Mutant of Rearm: the timeout is cancelled and not registered again.
RearmCancelled(r) == IF r.msgs = <<>> THEN r ELSE [r EXCEPT !.timers = {}]

Rearm(r) == IF r.msgs = <<>> THEN r ELSE [r EXCEPT !.timers = {FIRST_WAIT}]

\* radius_change_server to n from o (0 for none); up: bind and connect succeed.
ChangeServer(r, k, n, o, up) ==
  LET m == IF o \in {0, n} THEN r ELSE ResetRetries(ModifyPending(r, k, n, o), k)
      c == Rearm(m)
  IN  IF up /\ c.fd[k] THEN [c EXCEPT !.sock[k] = TRUE] ELSE c

Outcome == {"nosocket", "noconnect", "noread", "up"}

\* radius_client_init_auth and radius_client_init_acct: no socket, a socket that
\* does not connect, one the event loop does not take, or all well.
InitSock(r, k, c) ==
  LET s == [r EXCEPT !.fd[k] = (c # "nosocket"), !.sock[k] = FALSE]
      n == ChangeServer(s, k, r.server[k], 0, c # "noconnect")
  IN  CASE c = "nosocket" -> s
        [] c = "noread"   -> [n EXCEPT !.fd[k] = FALSE, !.sock[k] = FALSE]
        [] OTHER          -> n

\* radius_client_auth_failover and radius_client_acct_failover
Failover(r, k, up) ==
  LET o == r.server[k]
      n == IF o = NumServers[k] THEN 1 ELSE o + 1
  IN  ChangeServer([r EXCEPT !.server[k] = n], k, n, o, up)
-----------------------------------------------------------------------------
(***************************************************************************)
(* Callbacks of the event loop.                                            *)
(***************************************************************************)
\* radius_client_init, both sockets connected.
Init ==
  /\ radius = [msgs |-> <<>>, num_msgs |-> 0, timers |-> {},
               server |-> [k \in Class |-> 1],
               fd |-> [k \in Class |-> TRUE], sock |-> [k \in Class |-> TRUE]]
  /\ next_id = 0
  /\ pc = "idle" /\ entry = 1 /\ failover = {} /\ first = -1
  /\ requests = 0 /\ errors = 0 /\ primaries = 0

\* The socket of class k, opened again if it is not connected.
Opened(r, k) == IF r.sock[k] THEN {r} ELSE {InitSock(r, k, c) : c \in Outcome}

\* send() fails because the interface changed: handle_send_error.
SendError(r, k) == {InitSock(r, k, c) : c \in Outcome}

\* A caller takes an identifier, builds the message and calls
\* radius_client_send; without a socket the message is given up at once.
Request(t, a) ==
  LET k  == ClassOf(t)
      r0 == GetId(radius, next_id)
      r1 == IF t = "INTERIM" THEN ListDel(r0, t, a) ELSE r0
  IN  /\ pc = "idle" /\ requests < MaxRequests
      /\ \E r \in Opened(r1, k) :
           \/ ~ r.sock[k] /\ radius' = r /\ UNCHANGED errors
           \/ r.sock[k] /\ radius' = ListAdd(r, t, a, next_id) /\ UNCHANGED errors
           \/ /\ r.sock[k] /\ errors < MaxErrors /\ errors' = errors + 1
              /\ \E s \in SendError(r, k) : radius' = ListAdd(s, t, a, next_id)
      /\ next_id' = (next_id + 1) % NumIds
      /\ requests' = requests + 1
      /\ UNCHANGED <<loop, primaries>>

\* The message cannot be built, or not be queued, after the identifier is taken.
Abandon ==
  /\ pc = "idle" /\ requests < MaxRequests
  /\ radius' = GetId(radius, next_id)
  /\ next_id' = (next_id + 1) % NumIds
  /\ requests' = requests + 1
  /\ UNCHANGED <<loop, errors, primaries>>

\* radius_client_receive: an answer with identifier id from a server of class k.
\* Whatever the handlers make of it, the first request it matches is removed.
Receive(k, id) ==
  LET match == {i \in DOMAIN radius.msgs :
                  radius.msgs[i].id = id /\ ClassOf(radius.msgs[i].type) = k}
  IN  /\ pc = "idle" /\ match # {}
      /\ radius' = Removed(radius, {Min(match)})
      /\ UNCHANGED <<next_id, loop, bounds>>

\* radius_client_flush_auth: the station is gone.
FlushAuth(a) ==
  /\ pc = "idle"
  /\ radius' = Removed(radius, OfSta(radius, "AUTH", a))
  /\ UNCHANGED <<next_id, loop, bounds>>

\* radius_client_flush(radius, 0): the configuration is reloaded.
Flush ==
  /\ pc = "idle"
  /\ radius' = [radius EXCEPT !.msgs = <<>>, !.num_msgs = @ - Len(radius.msgs), !.timers = {}]
  /\ UNCHANGED <<next_id, loop, bounds>>

\* radius_retry_primary_timer for one class.  When the primary server cannot be
\* connected the old one is taken back; radius_change_server is then called with
\* the old server twice and modifies nothing.
BackToPrimary(r, k) ==
  IF r.sock[k] /\ r.server[k] # 1
  THEN LET o == r.server[k]
           n == ChangeServer([r EXCEPT !.server[k] = 1], k, 1, o, FALSE)
       IN  {ChangeServer([r EXCEPT !.server[k] = 1], k, 1, o, TRUE)}
           \cup {ChangeServer([n EXCEPT !.server[k] = o], k, o, o, up) : up \in BOOLEAN}
  ELSE {r}

RetryPrimary ==
  /\ pc = "idle" /\ primaries < MaxPrimary
  /\ \E r \in BackToPrimary(radius, "auth") : radius' \in BackToPrimary(r, "acct")
  /\ primaries' = primaries + 1
  /\ UNCHANGED <<next_id, loop, requests, errors>>

\* A second passes.
Later(n) == IF n > 0 THEN n - 1 ELSE 0
Older(e) == [e EXCEPT !.due = Later(@), !.fresh = Later(@)]

Tick ==
  /\ pc = "idle"
  /\ radius' = [radius EXCEPT
       !.timers = {Later(n) : n \in @},
       !.msgs = [i \in DOMAIN @ |-> Older(@[i])]]
  /\ UNCHANGED <<next_id, loop, bounds>>
-----------------------------------------------------------------------------
(***************************************************************************)
(* radius_client_timer.                                                    *)
(***************************************************************************)
TimerStart ==
  /\ pc = "idle" /\ 0 \in radius.timers
  /\ radius' = [radius EXCEPT !.timers = @ \ {0}]
  /\ pc' = IF radius.msgs = <<>> THEN "idle" ELSE "loop"
  /\ entry' = 1 /\ failover' = {} /\ first' = -1
  /\ UNCHANGED <<next_id, bounds>>

\* Entry p stays: failover and first are brought up to date with it.
Note(r, p) ==
  LET e == r.msgs[p]
      k == ClassOf(e.type)
  IN  /\ radius' = r
      /\ failover' = failover \cup
           (IF e.attempts > NUM_FAILOVER \/ (~ r.sock[k] /\ e.attempts > 0) THEN {k} ELSE {})
      /\ first' = IF first = -1 \/ e.due < first THEN e.due ELSE first
      /\ entry' = p + 1

\* Entry p is removed; the next one takes its place.
Drop(r, p) == radius' = Removed(r, {p}) /\ UNCHANGED <<entry, failover, first>>

\* "Message removed from queue - restart from beginning"
Restart(r) == radius' = r /\ entry' = 1 /\ UNCHANGED <<failover, first>>

Backoff(r, p) ==
  [r EXCEPT !.msgs[p].due = r.msgs[p].wait, !.msgs[p].wait = MinOf(2 * @, MAX_WAIT)]

\* The end of radius_client_retransmit: give up after too many attempts.
BackoffOrDrop(r, p) ==
  IF r.msgs[p].attempts >= MAX_RETRIES THEN Drop(r, p) ELSE Note(Backoff(r, p), p)

\* The socket for a retransmission, with a failover if there is none.
Prepared(r, k) ==
  UNION {IF s.sock[k] \/ NumServers[k] = 1 THEN {s} ELSE {Failover(s, k, up) : up \in BOOLEAN}
         : s \in Opened(r, k)}

Retransmit(p) ==
  LET k == ClassOf(radius.msgs[p].type)
  IN  \E r \in Prepared(radius, k) :
        \/ r.num_msgs # radius.num_msgs /\ Restart(r) /\ UNCHANGED errors
        \/ r.num_msgs = radius.num_msgs /\ ~ r.sock[k] /\ Drop(r, p) /\ UNCHANGED errors
        \/ /\ r.num_msgs = radius.num_msgs /\ r.sock[k]
           /\ LET sent == [r EXCEPT !.msgs[p].attempts = @ + 1]
              IN  \/ BackoffOrDrop(sent, p) /\ UNCHANGED errors
                  \/ /\ errors < MaxErrors /\ errors' = errors + 1
                     /\ \E s \in SendError(sent, k) :
                          IF k = "auth" THEN Note(s, p) ELSE BackoffOrDrop(s, p)

TimerEntry ==
  /\ pc = "loop" /\ entry <= Len(radius.msgs)
  /\ IF radius.msgs[entry].due = 0
     THEN Retransmit(entry)
     ELSE Note(radius, entry) /\ UNCHANGED errors
  /\ UNCHANGED <<next_id, pc, requests, primaries>>

\* The timeout is registered again, then the servers are changed.
FailoverIf(r, k) ==
  IF k \in failover /\ NumServers[k] > 1 THEN {Failover(r, k, up) : up \in BOOLEAN} ELSE {r}

TimerEnd ==
  /\ pc = "loop" /\ entry > Len(radius.msgs)
  /\ LET r == IF radius.msgs = <<>> THEN radius ELSE [radius EXCEPT !.timers = @ \cup {first}]
     IN  \E a \in FailoverIf(r, "auth") : radius' \in FailoverIf(a, "acct")
  /\ pc' = "idle" /\ entry' = 1 /\ failover' = {} /\ first' = -1
  /\ UNCHANGED <<next_id, bounds>>

Timer == TimerStart \/ TimerEntry \/ TimerEnd

Next ==
  \/ \E t \in RadiusType, a \in Addrs : Request(t, a)
  \/ Abandon
  \/ \E k \in Class, id \in 0 .. NumIds - 1 : Receive(k, id)
  \/ \E a \in Addrs : FlushAuth(a)
  \/ Flush \/ RetryPrimary \/ Tick \/ Timer

\* Time passes and the event loop runs the timeouts that are due.
Spec == Init /\ [][Next]_vars /\ WF_vars(Tick) /\ WF_vars(Timer)
-----------------------------------------------------------------------------
(***************************************************************************)
(* Properties.                                                             *)
(***************************************************************************)
msgs == radius.msgs

\* Types; the list has no more entries than the count says, which is what keeps
\* it within RADIUS_CLIENT_MAX_ENTRIES, and a size_t that never wraps.
TypeOK ==
  /\ \A i \in DOMAIN msgs :
       /\ msgs[i].type \in RadiusType /\ msgs[i].addr \in Addrs
       /\ msgs[i].id \in 0 .. NumIds - 1 /\ msgs[i].attempts \in Nat
       /\ msgs[i].due \in 0 .. MAX_WAIT /\ msgs[i].wait \in 0 .. MAX_WAIT
  /\ Len(msgs) <= radius.num_msgs /\ radius.num_msgs <= MAX_ENTRIES
  /\ \A k \in Class : radius.server[k] \in 1 .. NumServers[k]
  /\ \A k \in Class : radius.sock[k] => radius.fd[k]
  /\ pc = "loop" => entry \in 1 .. Len(msgs) + 1

\* What radius_client_get_id promises: identifiers are unique among the pending
\* requests, of both classes, however long they stay pending.
UniqueIds == \A i, j \in DOMAIN msgs : msgs[i].id = msgs[j].id => i = j

\* A pending request always has a timeout registered that will retransmit it or
\* give it up, whatever removals, reconnections and failovers came between.
Armed == pc = "idle" /\ msgs # <<>> => radius.timers # {}

\* An interim update replaces the pending one of its station.
OneInterim ==
  \A i, j \in DOMAIN msgs :
    msgs[i].type = "INTERIM" /\ msgs[j].type = "INTERIM" /\ msgs[i].addr = msgs[j].addr => i = j

\* No authentication request outlives a change to a server with another secret:
\* every pending one was made with the secret of the server in use.
SignedAuth ==
  \A i \in DOMAIN msgs :
    msgs[i].type = "AUTH" => msgs[i].secret = Secret["auth"][radius.server["auth"]]

\* Where a change of server is a change of secret, authentication requests and
\* interim updates do not stay pending for ever, even if no server ever answers.
\* Accounting requests do: radius_change_server sets their attempts back to 0
\* before RADIUS_CLIENT_MAX_RETRIES is reached.
GivenUp == <>[](\A i \in DOMAIN msgs : msgs[i].type = "ACCT")
=============================================================================
