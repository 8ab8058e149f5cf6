------------------------- MODULE RadiusClientProofs -------------------------
(***************************************************************************)
(* TLAPS proofs about RadiusClient: any stations, servers, secrets and     *)
(* limits, and any number of requests, failing sends and returns to the    *)
(* primary servers.                                                        *)
(***************************************************************************)
EXTENDS RadiusClient, FiniteSetTheorems, TLAPS

(***************************************************************************)
(* The list.                                                               *)
(***************************************************************************)
\* A function on an initial interval is a sequence.
LEMMA IsSequence ==
  ASSUME NEW S, NEW n \in Nat, NEW L \in [1 .. n -> S]
  PROVE  L \in Seq(S) /\ Len(L) = n
OBVIOUS

\* Every number up to the size of a set of positions is the rank of one of them.
LEMMA Ranks ==
  ASSUME NEW m \in Nat, NEW I \in SUBSET (1 .. m)
  PROVE  /\ Cardinality(I) \in 0 .. m
         /\ \A n \in 1 .. Cardinality(I) :
              \E i \in I : Cardinality({j \in I : j <= i}) = n
<1> DEFINE Rank(i) == Cardinality({j \in I : j <= i})
           c == Cardinality(I)
           g == [i \in I |-> Rank(i)]
<1>1. IsFiniteSet(1 .. m) /\ Cardinality(1 .. m) = m
  BY FS_Interval
<1>2. IsFiniteSet(I) /\ c \in Nat /\ c <= m
  BY <1>1, FS_Subset, FS_CardinalityType
<1>3. ASSUME NEW i \in I
      PROVE  Rank(i) \in 1 .. c /\ IsFiniteSet({j \in I : j <= i})
  <2> DEFINE D == {j \in I : j <= i}
  <2>1. D \in SUBSET I /\ i \in D
    OBVIOUS
  <2>2. IsFiniteSet(D) /\ Cardinality(D) <= c /\ Cardinality(D) \in Nat
    BY <1>2, <2>1, FS_Subset, FS_CardinalityType
  <2>3. Cardinality(D) # 0
    BY <2>1, <2>2, FS_EmptySet
  <2> QED  BY <1>2, <2>2, <2>3
<1>4. ASSUME NEW i \in I, NEW k \in I, i < k PROVE Rank(i) # Rank(k)
  <2> DEFINE D == {j \in I : j <= i}
             E == {j \in I : j <= k}
  <2>0. i \in Int /\ k \in Int /\ I \subseteq Int
    OBVIOUS
  <2>1. D \in SUBSET E /\ k \in E /\ k \notin D
    <3>1. ASSUME NEW j \in I, j <= i PROVE j <= k
      BY <1>4, <2>0, <3>1
    <3>2. k <= k /\ ~ k <= i
      BY <1>4, <2>0
    <3> QED  BY <3>1, <3>2
  <2>2. D # E
    BY <2>1
  <2>3. IsFiniteSet(E)
    BY <1>3
  <2>4. Cardinality(E) = Cardinality(D) => E = D
    BY <2>1, <2>3, FS_Subset
  <2> QED  BY <2>2, <2>4
<1>5. g \in Injection(I, 1 .. c)
  <2>1. g \in [I -> 1 .. c]
    BY <1>3
  <2>2. \A i, k \in I : g[i] = g[k] => i = k
    BY <1>4
  <2> QED  BY <2>1, <2>2 DEF Injection, IsInjective
<1>6. IsFiniteSet(1 .. c) /\ Cardinality(1 .. c) = c
  BY <1>2, FS_Interval
<1>7. g \in Surjection(I, 1 .. c)
  BY <1>5, <1>6, FS_Injection
<1>8. \A n \in 1 .. c : \E i \in I : g[i] = n
  BY <1>7 DEF Surjection
<1> QED  BY <1>2, <1>8

\* Selected takes entries of different positions.
LEMMA SelectedEntries ==
  ASSUME NEW S, NEW s \in Seq(S), NEW I \in SUBSET DOMAIN s
  PROVE  /\ Selected(s, I) \in Seq(S)
         /\ Len(Selected(s, I)) = Cardinality(I)
         /\ Cardinality(I) \in 0 .. Len(s)
         /\ \E f \in [1 .. Cardinality(I) -> I] :
              /\ \A n \in 1 .. Cardinality(I) : Selected(s, I)[n] = s[f[n]]
              /\ \A n, k \in 1 .. Cardinality(I) : f[n] = f[k] => n = k
<1> DEFINE Rank(i) == Cardinality({j \in I : j <= i})
           c == Cardinality(I)
           f == [n \in 1 .. c |-> CHOOSE i \in I : Rank(i) = n]
<1>1. Len(s) \in Nat /\ DOMAIN s = 1 .. Len(s) /\ \A i \in I : s[i] \in S
  OBVIOUS
<1>2. c \in 0 .. Len(s) /\ \A n \in 1 .. c : \E i \in I : Rank(i) = n
  BY <1>1, Ranks
<1>3. ASSUME NEW n \in 1 .. c PROVE f[n] \in I /\ Rank(f[n]) = n
  BY <1>2
<1>4. Selected(s, I) = [n \in 1 .. c |-> s[f[n]]]
  BY DEF Selected
<1> HIDE DEF f, c
<1>5. \A n \in 1 .. c : s[f[n]] \in S
  BY <1>1, <1>3
<1>6. Selected(s, I) \in Seq(S) /\ Len(Selected(s, I)) = c
  BY <1>2, <1>4, <1>5
<1>7. f \in [1 .. c -> I]
  BY <1>3 DEF f
<1>8. \A n, k \in 1 .. c : f[n] = f[k] => n = k
  BY <1>3
<1> QED  BY <1>2, <1>4, <1>6, <1>7, <1>8 DEF c

\* A set of numbers has its minimum.
LEMMA MinElement ==
  ASSUME NEW S, S \subseteq Nat, S # {}
  PROVE  Min(S) \in S /\ \A y \in S : Min(S) <= y
<1> DEFINE R == {ss \in Nat \X Nat : ss[1] < ss[2]}
<1>1. R = OpToRel(<, Nat)
  BY DEF OpToRel
<1>2. IsWellFoundedOn(R, Nat)
  BY <1>1, NatLessThanWellFounded
<1>3. PICK x \in S : \A y \in S : ~ (<<y, x>> \in R)
  <2> HIDE DEF R
  <2> QED  BY <1>2, WFMin
<1>4. ASSUME NEW y \in S PROVE x <= y
  <2>1. y \in Nat /\ x \in Nat
    OBVIOUS
  <2>2. <<y, x>> \in R <=> y < x
    BY <2>1
  <2> QED  BY <1>3, <2>1, <2>2
<1>5. \E z \in S : \A y \in S : z <= y
  BY <1>4
<1> QED  BY <1>5 DEF Min
-----------------------------------------------------------------------------
(***************************************************************************)
(* The struct.                                                             *)
(***************************************************************************)
Secrets == UNION {{Secret[k][n] : n \in 1 .. NumServers[k]} : k \in Class}

Entry == [type : RadiusType, addr : Addrs, id : 0 .. NumIds - 1, attempts : Nat,
          due : 0 .. MAX_WAIT, fresh : 0 .. FIRST_WAIT, wait : 0 .. MAX_WAIT,
          secret : Secrets]

Data == [msgs : Seq(Entry), num_msgs : Nat, timers : SUBSET Nat,
         server : [Class -> Nat], fd : [Class -> BOOLEAN], sock : [Class -> BOOLEAN]]

\* The entries of list q are entries of s, at most once each, which may have been
\* reset or, unless they are for authentication, been given another secret.
Sublist(q, s) ==
  \E f \in [DOMAIN q -> DOMAIN s] :
    /\ \A m, n \in DOMAIN q : f[m] = f[n] => m = n
    /\ \A n \in DOMAIN q :
         /\ q[n].type = s[f[n]].type /\ q[n].addr = s[f[n]].addr /\ q[n].id = s[f[n]].id
         /\ q[n].type = "AUTH" => q[n].secret = s[f[n]].secret

Unique(s) == \A i, j \in DOMAIN s : s[i].id = s[j].id => i = j

Interim(s) ==
  \A i, j \in DOMAIN s :
    s[i].type = "INTERIM" /\ s[j].type = "INTERIM" /\ s[i].addr = s[j].addr => i = j

SignedBy(s, x) == \A i \in DOMAIN s : s[i].type = "AUTH" => s[i].secret = x

HasTimer(r) == r.msgs # <<>> => r.timers # {}

\* What every callback finds and leaves, and what holds between the steps of
\* radius_client_timer too.
Shape(r) ==
  /\ r \in Data
  /\ Len(r.msgs) <= r.num_msgs /\ r.num_msgs <= MAX_ENTRIES
  /\ \A k \in Class : r.server[k] \in 1 .. NumServers[k]
  /\ \A k \in Class : r.sock[k] => r.fd[k]
  /\ Unique(r.msgs) /\ Interim(r.msgs)

LEMMA SublistReflexive ==
  ASSUME NEW s \in Seq(Entry)
  PROVE  Sublist(s, s)
<1> DEFINE f == [i \in DOMAIN s |-> i]
<1>1. f \in [DOMAIN s -> DOMAIN s] /\ \A i \in DOMAIN s : f[i] = i
  OBVIOUS
<1> QED  BY <1>1 DEF Sublist

LEMMA SublistTransitive ==
  ASSUME NEW q \in Seq(Entry), NEW s \in Seq(Entry), NEW t \in Seq(Entry),
         Sublist(q, s), Sublist(s, t)
  PROVE  Sublist(q, t)
<1>1. PICK f \in [DOMAIN q -> DOMAIN s] :
        /\ \A m, n \in DOMAIN q : f[m] = f[n] => m = n
        /\ \A n \in DOMAIN q :
             /\ q[n].type = s[f[n]].type /\ q[n].addr = s[f[n]].addr /\ q[n].id = s[f[n]].id
             /\ q[n].type = "AUTH" => q[n].secret = s[f[n]].secret
  BY DEF Sublist
<1>2. PICK g \in [DOMAIN s -> DOMAIN t] :
        /\ \A m, n \in DOMAIN s : g[m] = g[n] => m = n
        /\ \A n \in DOMAIN s :
             /\ s[n].type = t[g[n]].type /\ s[n].addr = t[g[n]].addr /\ s[n].id = t[g[n]].id
             /\ s[n].type = "AUTH" => s[n].secret = t[g[n]].secret
  BY DEF Sublist
<1> DEFINE h == [n \in DOMAIN q |-> g[f[n]]]
<1>3. h \in [DOMAIN q -> DOMAIN t] /\ \A n \in DOMAIN q : h[n] = g[f[n]] /\ f[n] \in DOMAIN s
  OBVIOUS
<1> HIDE DEF h
<1>4. \A m, n \in DOMAIN q : h[m] = h[n] => m = n
  BY <1>1, <1>2, <1>3
<1>5. ASSUME NEW n \in DOMAIN q
      PROVE  /\ q[n].type = t[h[n]].type /\ q[n].addr = t[h[n]].addr /\ q[n].id = t[h[n]].id
             /\ q[n].type = "AUTH" => q[n].secret = t[h[n]].secret
  <2>1. h[n] = g[f[n]] /\ f[n] \in DOMAIN s
    BY <1>3
  <2>2. /\ q[n].type = s[f[n]].type /\ q[n].addr = s[f[n]].addr /\ q[n].id = s[f[n]].id
        /\ q[n].type = "AUTH" => q[n].secret = s[f[n]].secret
    BY <1>1
  <2>3. /\ s[f[n]].type = t[h[n]].type /\ s[f[n]].addr = t[h[n]].addr /\ s[f[n]].id = t[h[n]].id
        /\ s[f[n]].type = "AUTH" => s[f[n]].secret = t[h[n]].secret
    BY <1>2, <2>1
  <2> QED  BY <2>2, <2>3
<1> QED  BY <1>3, <1>4, <1>5 DEF Sublist

\* What the invariant says of a list holds of what is left of it.
LEMMA SublistKeeps ==
  ASSUME NEW q \in Seq(Entry), NEW s \in Seq(Entry), Sublist(q, s)
  PROVE  /\ Unique(s) => Unique(q)
         /\ Interim(s) => Interim(q)
         /\ \A x : SignedBy(s, x) => SignedBy(q, x)
         /\ \A x : (\A i \in DOMAIN s : s[i].id # x) => \A i \in DOMAIN q : q[i].id # x
         /\ \A a : (\A i \in DOMAIN s : ~ (s[i].type = "INTERIM" /\ s[i].addr = a))
                   => \A i \in DOMAIN q : ~ (q[i].type = "INTERIM" /\ q[i].addr = a)
         /\ s = <<>> => q = <<>>
<1>1. PICK f \in [DOMAIN q -> DOMAIN s] :
        /\ \A m, n \in DOMAIN q : f[m] = f[n] => m = n
        /\ \A n \in DOMAIN q :
             /\ q[n].type = s[f[n]].type /\ q[n].addr = s[f[n]].addr /\ q[n].id = s[f[n]].id
             /\ q[n].type = "AUTH" => q[n].secret = s[f[n]].secret
  BY DEF Sublist
<1>2. Unique(s) => Unique(q)
  BY <1>1 DEF Unique
<1>3. Interim(s) => Interim(q)
  BY <1>1 DEF Interim
<1>4. \A x : SignedBy(s, x) => SignedBy(q, x)
  BY <1>1 DEF SignedBy
<1>5. \A x : (\A i \in DOMAIN s : s[i].id # x) => \A i \in DOMAIN q : q[i].id # x
  BY <1>1
<1>6. \A a : (\A i \in DOMAIN s : ~ (s[i].type = "INTERIM" /\ s[i].addr = a))
             => \A i \in DOMAIN q : ~ (q[i].type = "INTERIM" /\ q[i].addr = a)
  <2> SUFFICES ASSUME NEW a, \A i \in DOMAIN s : ~ (s[i].type = "INTERIM" /\ s[i].addr = a),
                      NEW n \in DOMAIN q, q[n].type = "INTERIM", q[n].addr = a
               PROVE  FALSE
    OBVIOUS
  <2>1. f[n] \in DOMAIN s /\ s[f[n]].type = "INTERIM" /\ s[f[n]].addr = a
    BY <1>1
  <2> QED  BY <2>1
<1>7. ASSUME s = <<>> PROVE q = <<>>
  <2>1. DOMAIN s = {}
    BY <1>7
  <2>2. DOMAIN q = {}
    BY <1>1, <2>1
  <2> QED  BY <2>2
<1> QED  BY <1>2, <1>3, <1>4, <1>5, <1>6, <1>7

\* The fields that the operations on the list leave alone.
SameServers(q, r) == q.server = r.server /\ q.fd = r.fd /\ q.sock = r.sock

LEMMA ListChanged ==
  ASSUME NEW r, Shape(r), NEW q, q \in Data, SameServers(q, r), Sublist(q.msgs, r.msgs),
         Len(q.msgs) <= q.num_msgs, q.num_msgs <= MAX_ENTRIES
  PROVE  Shape(q)
<1>1. r.msgs \in Seq(Entry) /\ q.msgs \in Seq(Entry)
  BY DEF Shape, Data
<1>2. Unique(q.msgs) /\ Interim(q.msgs)
  BY <1>1, SublistKeeps DEF Shape
<1> QED  BY <1>2 DEF Shape, SameServers

\* Entries that are selected make a sublist.
LEMMA SelectedSublist ==
  ASSUME NEW s \in Seq(Entry), NEW I \in SUBSET DOMAIN s
  PROVE  LET q == Selected(s, I)
         IN  /\ q \in Seq(Entry) /\ Sublist(q, s)
             /\ Len(q) = Cardinality(I) /\ Cardinality(I) \in 0 .. Len(s)
             /\ \A n \in DOMAIN q : \E i \in I : q[n] = s[i]
<1> DEFINE q == Selected(s, I)
           c == Cardinality(I)
<1>1. /\ q \in Seq(Entry) /\ Len(q) = c /\ c \in 0 .. Len(s)
      /\ \E f \in [1 .. c -> I] :
           /\ \A n \in 1 .. c : q[n] = s[f[n]]
           /\ \A n, k \in 1 .. c : f[n] = f[k] => n = k
  BY SelectedEntries
<1> HIDE DEF q, c
<1>2. DOMAIN q = 1 .. c
  BY <1>1
<1>3. PICK f \in [DOMAIN q -> I] :
           /\ \A n \in DOMAIN q : q[n] = s[f[n]]
           /\ \A n, k \in DOMAIN q : f[n] = f[k] => n = k
  BY <1>1, <1>2
<1>4. f \in [DOMAIN q -> DOMAIN s]
  BY <1>3
<1>5. \A n \in DOMAIN q :
        /\ q[n].type = s[f[n]].type /\ q[n].addr = s[f[n]].addr /\ q[n].id = s[f[n]].id
        /\ q[n].type = "AUTH" => q[n].secret = s[f[n]].secret
  BY <1>3
<1>6. Sublist(q, s)
  BY <1>3, <1>4, <1>5 DEF Sublist
<1>7. \A n \in DOMAIN q : \E i \in I : q[n] = s[i]
  BY <1>3
<1> QED  BY <1>1, <1>6, <1>7 DEF q, c

\* Removed
LEMMA RemovedShape ==
  ASSUME NEW r, Shape(r), NEW gone \in SUBSET DOMAIN r.msgs
  PROVE  LET q == Removed(r, gone)
         IN  /\ Shape(q) /\ Sublist(q.msgs, r.msgs) /\ SameServers(q, r) /\ q.timers = r.timers
             /\ Cardinality(gone) \in 0 .. Len(r.msgs)
             /\ q.num_msgs = r.num_msgs - Cardinality(gone)
             /\ Len(q.msgs) = Len(r.msgs) - Cardinality(gone)
             /\ \A n \in DOMAIN q.msgs :
                  \E i \in DOMAIN r.msgs : i \notin gone /\ q.msgs[n] = r.msgs[i]
<1> DEFINE I == DOMAIN r.msgs \ gone
           L == Selected(r.msgs, I)
           q == Removed(r, gone)
           c == Cardinality(gone)
<1>1. /\ r \in Data /\ r.msgs \in Seq(Entry) /\ Len(r.msgs) \in Nat /\ r.num_msgs \in Nat
      /\ DOMAIN r.msgs = 1 .. Len(r.msgs) /\ Len(r.msgs) <= r.num_msgs /\ r.num_msgs <= MAX_ENTRIES
  BY DEF Shape, Data
<1>2. I \in SUBSET DOMAIN r.msgs
  OBVIOUS
<1>3. /\ L \in Seq(Entry) /\ Sublist(L, r.msgs) /\ Len(L) = Cardinality(I)
      /\ \A n \in DOMAIN L : \E i \in I : L[n] = r.msgs[i]
  <2> HIDE DEF I
  <2> QED  BY <1>1, <1>2, SelectedSublist
<1>4. c \in 0 .. Len(r.msgs) /\ Cardinality(I) = Len(r.msgs) - c
  <2> DEFINE D == DOMAIN r.msgs
  <2>1. IsFiniteSet(D) /\ Cardinality(D) = Len(r.msgs)
    <3>1. ASSUME NEW m \in Nat PROVE IsFiniteSet(1 .. m) /\ Cardinality(1 .. m) = m
      BY FS_Interval
    <3> QED  BY <1>1, <3>1
  <2>0. gone \subseteq D
    OBVIOUS
  <2> HIDE DEF D
  <2>2. D \cap gone = gone
    BY <2>0
  <2>3. Cardinality(D \ gone) = Len(r.msgs) - c
    <3>1. Cardinality(D \ gone) = Cardinality(D) - Cardinality(D \cap gone)
      BY <2>1, FS_Difference
    <3> QED  BY <2>1, <2>2, <3>1
  <2>4. c \in Nat /\ c <= Len(r.msgs)
    <3>1. IsFiniteSet(gone) /\ c <= Len(r.msgs)
      BY <2>0, <2>1, FS_Subset
    <3> QED  BY <3>1, FS_CardinalityType
  <2> QED  BY <1>1, <2>3, <2>4 DEF D
<1>5. q = [r EXCEPT !.msgs = L, !.num_msgs = r.num_msgs - c]
  BY DEF Removed
<1>6. \A n \in DOMAIN L : \E i \in DOMAIN r.msgs : i \notin gone /\ L[n] = r.msgs[i]
  BY <1>3
<1> HIDE DEF q, c, I, L
<1>7. r.num_msgs - c \in Nat /\ r.num_msgs - c <= MAX_ENTRIES
      /\ Len(r.msgs) - c <= r.num_msgs - c
  BY <1>1, <1>4, LimitAssumption
<1>8. /\ q \in Data /\ q.msgs = L /\ q.num_msgs = r.num_msgs - c
      /\ q.timers = r.timers /\ SameServers(q, r)
  BY <1>1, <1>3, <1>5, <1>7 DEF Data, SameServers
<1>9. Shape(q)
  BY <1>3, <1>4, <1>7, <1>8, ListChanged
<1>10. /\ Sublist(q.msgs, r.msgs) /\ Len(q.msgs) = Len(r.msgs) - c
       /\ \A n \in DOMAIN q.msgs :
            \E i \in DOMAIN r.msgs : i \notin gone /\ q.msgs[n] = r.msgs[i]
  BY <1>3, <1>4, <1>6, <1>8
<1> QED  BY <1>4, <1>8, <1>9, <1>10 DEF q, c

\* radius_client_get_id
LEMMA GetIdShape ==
  ASSUME NEW r, Shape(r), NEW id
  PROVE  LET q == GetId(r, id)
         IN  /\ Shape(q) /\ Sublist(q.msgs, r.msgs) /\ SameServers(q, r) /\ q.timers = r.timers
             /\ \A n \in DOMAIN q.msgs : q.msgs[n].id # id
<1> DEFINE I == {i \in DOMAIN r.msgs : r.msgs[i].id # id}
           L == Selected(r.msgs, I)
           q == GetId(r, id)
<1>1. /\ r \in Data /\ r.msgs \in Seq(Entry) /\ Len(r.msgs) \in Nat /\ r.num_msgs \in Nat
      /\ Len(r.msgs) <= r.num_msgs /\ r.num_msgs <= MAX_ENTRIES
  BY DEF Shape, Data
<1>2. I \in SUBSET DOMAIN r.msgs /\ \A i \in I : r.msgs[i].id # id
  OBVIOUS
<1>3. q = [r EXCEPT !.msgs = L]
  BY DEF GetId
<1> HIDE DEF q, I
<1>4. /\ L \in Seq(Entry) /\ Sublist(L, r.msgs) /\ Len(L) \in 0 .. Len(r.msgs)
      /\ \A n \in DOMAIN L : \E i \in I : L[n] = r.msgs[i]
  BY <1>1, <1>2, SelectedSublist
<1> HIDE DEF L
<1>5. /\ q \in Data /\ q.msgs = L /\ q.num_msgs = r.num_msgs
      /\ q.timers = r.timers /\ SameServers(q, r)
  BY <1>1, <1>3, <1>4 DEF Data, SameServers
<1>6. \A n \in DOMAIN q.msgs : q.msgs[n].id # id
  BY <1>2, <1>4, <1>5
<1>7. Len(q.msgs) <= q.num_msgs /\ q.num_msgs <= MAX_ENTRIES
  BY <1>1, <1>4, <1>5, LimitAssumption
<1>8. Shape(q)
  BY <1>4, <1>5, <1>7, ListChanged
<1> QED  BY <1>4, <1>5, <1>6, <1>8 DEF q
-----------------------------------------------------------------------------
(***************************************************************************)
(* Servers and sockets.                                                    *)
(***************************************************************************)
\* q is r after requests were removed or reset: the count tells whether some were
\* removed, and what is left still has a timeout.
Follows(q, r) ==
  /\ Shape(q) /\ Sublist(q.msgs, r.msgs)
  /\ q.num_msgs <= r.num_msgs
  /\ q.num_msgs = r.num_msgs => Len(q.msgs) = Len(r.msgs)
  /\ HasTimer(r) => HasTimer(q)

LEMMA FollowsReflexive ==
  ASSUME NEW r, Shape(r)
  PROVE  Follows(r, r)
<1>1. r.msgs \in Seq(Entry) /\ r.num_msgs \in Nat
  BY DEF Shape, Data
<1> QED  BY <1>1, SublistReflexive DEF Follows

LEMMA FollowsTransitive ==
  ASSUME NEW q, NEW m, NEW r, Shape(r), Follows(q, m), Follows(m, r)
  PROVE  Follows(q, r)
<1>1. /\ q.msgs \in Seq(Entry) /\ m.msgs \in Seq(Entry) /\ r.msgs \in Seq(Entry)
      /\ q.num_msgs \in Nat /\ m.num_msgs \in Nat /\ r.num_msgs \in Nat
  BY DEF Follows, Shape, Data
<1>2. Sublist(q.msgs, r.msgs)
  BY <1>1, SublistTransitive DEF Follows
<1>3. q.num_msgs <= r.num_msgs /\ (q.num_msgs = r.num_msgs => Len(q.msgs) = Len(r.msgs))
  BY <1>1 DEF Follows
<1> QED  BY <1>2, <1>3 DEF Follows

\* Entries reset one by one.
LEMMA SameEntries ==
  ASSUME NEW r, Shape(r), NEW L \in Seq(Entry), DOMAIN L = DOMAIN r.msgs,
         \A i \in DOMAIN L :
           /\ L[i].type = r.msgs[i].type /\ L[i].addr = r.msgs[i].addr /\ L[i].id = r.msgs[i].id
           /\ L[i].type = "AUTH" => L[i].secret = r.msgs[i].secret
  PROVE  LET q == [r EXCEPT !.msgs = L]
         IN  /\ Follows(q, r) /\ SameServers(q, r) /\ q.msgs = L
             /\ q.num_msgs = r.num_msgs /\ q.timers = r.timers
<1> DEFINE q == [r EXCEPT !.msgs = L]
           f == [i \in DOMAIN L |-> i]
<1>1. r \in Data /\ r.msgs \in Seq(Entry) /\ r.num_msgs \in Nat
  BY DEF Shape, Data
<1>2. /\ q \in Data /\ q.msgs = L /\ q.num_msgs = r.num_msgs
      /\ q.timers = r.timers /\ SameServers(q, r)
  BY <1>1 DEF Data, SameServers
<1>3. f \in [DOMAIN L -> DOMAIN r.msgs] /\ \A i \in DOMAIN L : f[i] = i
  OBVIOUS
<1>4. Sublist(L, r.msgs)
  BY <1>3 DEF Sublist
<1>5. Len(L) = Len(r.msgs) /\ (L = <<>> <=> r.msgs = <<>>)
  <2>1. Len(L) \in Nat /\ DOMAIN L = 1 .. Len(L) /\ Len(r.msgs) \in Nat
        /\ DOMAIN r.msgs = 1 .. Len(r.msgs)
    BY <1>1
  <2>2. Len(L) = Len(r.msgs)
    <3>1. \A m, n \in Nat : 1 .. m = 1 .. n => ~ m < n
      <4> SUFFICES ASSUME NEW m \in Nat, NEW n \in Nat, 1 .. m = 1 .. n, m < n PROVE FALSE
        OBVIOUS
      <4>1. n \in 1 .. n /\ n \notin 1 .. m
        OBVIOUS
      <4> QED  BY <4>1
    <3>2. 1 .. Len(L) = 1 .. Len(r.msgs)
      BY <2>1
    <3> QED  BY <2>1, <3>1, <3>2
  <2> QED  BY <1>1, <2>2
<1> HIDE DEF q
<1>6. Shape(q)
  BY <1>2, <1>4, <1>5, ListChanged DEF Shape
<1>7. HasTimer(r) => HasTimer(q)
  BY <1>2, <1>5 DEF HasTimer
<1> QED  BY <1>1, <1>2, <1>4, <1>5, <1>6, <1>7 DEF Follows, q

\* Removing is following.
LEMMA RemovedFollows ==
  ASSUME NEW r, Shape(r), NEW gone \in SUBSET DOMAIN r.msgs
  PROVE  Follows(Removed(r, gone), r)
<1> DEFINE q == Removed(r, gone)
<1>1. /\ Shape(q) /\ Sublist(q.msgs, r.msgs) /\ q.timers = r.timers
      /\ Cardinality(gone) \in 0 .. Len(r.msgs)
      /\ q.num_msgs = r.num_msgs - Cardinality(gone)
      /\ Len(q.msgs) = Len(r.msgs) - Cardinality(gone)
  BY RemovedShape
<1>2. /\ r.msgs \in Seq(Entry) /\ q.msgs \in Seq(Entry) /\ r.num_msgs \in Nat
      /\ Len(r.msgs) \in Nat
  BY <1>1 DEF Shape, Data
<1> HIDE DEF q
<1>3. r.msgs = <<>> => q.msgs = <<>>
  BY <1>1, <1>2, SublistKeeps
<1>4. HasTimer(r) => HasTimer(q)
  BY <1>1, <1>3 DEF HasTimer
<1>5. q.num_msgs <= r.num_msgs /\ (q.num_msgs = r.num_msgs => Len(q.msgs) = Len(r.msgs))
  BY <1>1, <1>2
<1> QED  BY <1>1, <1>4, <1>5 DEF Follows, q

\* radius_client_flush(radius, 1): no authentication request is left.
LEMMA FlushAuthMsgsFollows ==
  ASSUME NEW r, Shape(r)
  PROVE  LET q == FlushAuthMsgs(r)
         IN  /\ Follows(q, r) /\ SameServers(q, r)
             /\ \A i \in DOMAIN q.msgs : q.msgs[i].type # "AUTH"
<1> DEFINE gone == OfType(r, "AUTH")
           f == Removed(r, gone)
           q == FlushAuthMsgs(r)
<1>1. gone \in SUBSET DOMAIN r.msgs
  BY DEF OfType
<1>2. \A i \in DOMAIN r.msgs : i \notin gone => r.msgs[i].type # "AUTH"
  BY DEF OfType
<1>3. q = IF f.msgs = <<>> THEN [f EXCEPT !.timers = {}] ELSE f
  BY DEF FlushAuthMsgs
<1> HIDE DEF gone, q
<1>4. /\ Follows(f, r) /\ SameServers(f, r) /\ Shape(f) /\ f \in Data
      /\ \A n \in DOMAIN f.msgs :
           \E i \in DOMAIN r.msgs : i \notin gone /\ f.msgs[n] = r.msgs[i]
  BY <1>1, RemovedShape, RemovedFollows DEF Shape
<1> HIDE DEF f
<1>5. \A n \in DOMAIN f.msgs : f.msgs[n].type # "AUTH"
  BY <1>2, <1>4
<1>6. CASE f.msgs = <<>>
  <2>1. /\ q \in Data /\ q.msgs = f.msgs /\ q.num_msgs = f.num_msgs /\ SameServers(q, f)
    BY <1>3, <1>4, <1>6 DEF Data, SameServers
  <2>2. Shape(q)
    BY <1>4, <2>1 DEF Shape, SameServers
  <2>3. HasTimer(q)
    BY <1>6, <2>1 DEF HasTimer
  <2> QED  BY <1>4, <1>5, <2>1, <2>2, <2>3 DEF Follows, SameServers, q
<1>7. CASE f.msgs # <<>>
  BY <1>3, <1>4, <1>5, <1>7 DEF q
<1> QED  BY <1>6, <1>7

\* radius_client_update_acct_msgs
LEMMA UpdateAcctMsgsFollows ==
  ASSUME NEW r, Shape(r), NEW s \in Secrets
  PROVE  Follows(UpdateAcctMsgs(r, s), r) /\ SameServers(UpdateAcctMsgs(r, s), r)
<1> DEFINE L == [i \in DOMAIN r.msgs |->
                  IF r.msgs[i].type = "ACCT" THEN [r.msgs[i] EXCEPT !.secret = s] ELSE r.msgs[i]]
<1>1. /\ r.msgs \in Seq(Entry) /\ Len(r.msgs) \in Nat /\ DOMAIN r.msgs = 1 .. Len(r.msgs)
      /\ \A i \in DOMAIN r.msgs : r.msgs[i] \in Entry
  BY DEF Shape, Data
<1>2. ASSUME NEW i \in DOMAIN r.msgs
      PROVE  /\ L[i] \in Entry /\ L[i].type = r.msgs[i].type
             /\ L[i].addr = r.msgs[i].addr /\ L[i].id = r.msgs[i].id
             /\ L[i].type = "AUTH" => L[i].secret = r.msgs[i].secret
  BY <1>1 DEF Entry
<1>3. DOMAIN L = DOMAIN r.msgs
  OBVIOUS
<1>4. UpdateAcctMsgs(r, s) = [r EXCEPT !.msgs = L]
  BY DEF UpdateAcctMsgs
<1>5. L \in Seq(Entry)
  <2>1. L \in [1 .. Len(r.msgs) -> Entry]
    BY <1>1, <1>2
  <2> QED  BY <1>1, <2>1, IsSequence
<1> HIDE DEF L
<1> QED  BY <1>2, <1>3, <1>4, <1>5, SameEntries

\* The retry counters are reset.
LEMMA ResetRetriesFollows ==
  ASSUME NEW r, Shape(r), NEW k \in Class
  PROVE  Follows(ResetRetries(r, k), r) /\ SameServers(ResetRetries(r, k), r)
<1> DEFINE Reset(e) == [e EXCEPT !.due = e.fresh, !.attempts = 0, !.wait = 2 * FIRST_WAIT]
           type == IF k = "auth" THEN "AUTH" ELSE "ACCT"
           L == [i \in DOMAIN r.msgs |-> IF r.msgs[i].type = type THEN Reset(r.msgs[i]) ELSE r.msgs[i]]
<1>1. /\ r.msgs \in Seq(Entry) /\ Len(r.msgs) \in Nat /\ DOMAIN r.msgs = 1 .. Len(r.msgs)
      /\ \A i \in DOMAIN r.msgs : r.msgs[i] \in Entry
  BY DEF Shape, Data
<1>2. ASSUME NEW e \in Entry
      PROVE  /\ Reset(e) \in Entry /\ Reset(e).type = e.type /\ Reset(e).addr = e.addr
             /\ Reset(e).id = e.id /\ Reset(e).secret = e.secret
  <2>1. e.fresh \in 0 .. MAX_WAIT /\ 2 * FIRST_WAIT \in 0 .. MAX_WAIT
    BY LimitAssumption DEF Entry
  <2> QED  BY <2>1 DEF Entry
<1>4. ResetRetries(r, k) = [r EXCEPT !.msgs = L]
  BY DEF ResetRetries
<1> HIDE DEF type, Reset
<1>3. DOMAIN L = DOMAIN r.msgs
  OBVIOUS
<1>5. ASSUME NEW i \in DOMAIN r.msgs
      PROVE  /\ L[i] \in Entry /\ L[i].type = r.msgs[i].type
             /\ L[i].addr = r.msgs[i].addr /\ L[i].id = r.msgs[i].id
             /\ L[i].secret = r.msgs[i].secret
  BY <1>1, <1>2
<1>6. L \in Seq(Entry)
  <2>1. L \in [1 .. Len(r.msgs) -> Entry]
    BY <1>1, <1>5
  <2> QED  BY <1>1, <2>1, IsSequence
<1> HIDE DEF L
<1> QED  BY <1>3, <1>4, <1>5, <1>6, SameEntries

\* The timeout is registered again.
LEMMA RearmFollows ==
  ASSUME NEW r, Shape(r)
  PROVE  LET q == Rearm(r)
         IN  Follows(q, r) /\ HasTimer(q) /\ SameServers(q, r) /\ q.msgs = r.msgs /\ q.num_msgs = r.num_msgs
<1> DEFINE q == Rearm(r)
<1>0. r \in Data /\ r.msgs \in Seq(Entry) /\ r.num_msgs \in Nat
  BY DEF Shape, Data
<1>1. CASE r.msgs = <<>>
  BY <1>1, FollowsReflexive DEF Rearm, HasTimer, SameServers
<1>2. CASE r.msgs # <<>>
  <2>1. q = [r EXCEPT !.timers = {FIRST_WAIT}]
    BY <1>2 DEF Rearm
  <2>2. /\ q \in Data /\ q.msgs = r.msgs /\ q.num_msgs = r.num_msgs /\ SameServers(q, r)
        /\ q.timers = {FIRST_WAIT}
    BY <1>0, <2>1, LimitAssumption DEF Data, SameServers
  <2>3. Sublist(q.msgs, r.msgs)
    BY <1>0, <2>2, SublistReflexive
  <2>4. Shape(q) /\ HasTimer(q)
    BY <2>2 DEF Shape, SameServers, HasTimer
  <2> QED  BY <1>0, <2>2, <2>3, <2>4 DEF Follows
<1> QED  BY <1>1, <1>2

\* Pending requests made for another secret: an authentication request is left
\* only if the secret stays.
LEMMA ModifyPendingFollows ==
  ASSUME NEW r, Shape(r), NEW k \in Class,
         NEW n \in 1 .. NumServers[k], NEW o \in 1 .. NumServers[k]
  PROVE  LET q == ModifyPending(r, k, n, o)
         IN  /\ Follows(q, r) /\ SameServers(q, r)
             /\ k = "auth" /\ SignedBy(r.msgs, Secret[k][o]) => SignedBy(q.msgs, Secret[k][n])
<1>1. CASE Secret[k][n] = Secret[k][o]
  BY <1>1, FollowsReflexive DEF ModifyPending, SameServers
<1>2. CASE Secret[k][n] # Secret[k][o] /\ k = "auth"
  BY <1>2, FlushAuthMsgsFollows DEF ModifyPending, SignedBy
<1>3. CASE Secret[k][n] # Secret[k][o] /\ k # "auth"
  <2>1. Secret[k][n] \in Secrets
    BY DEF Secrets
  <2> QED  BY <1>3, <2>1, UpdateAcctMsgsFollows DEF ModifyPending
<1> QED  BY <1>1, <1>2, <1>3

\* radius_change_server
LEMMA ChangeServerFollows ==
  ASSUME NEW r, Shape(r), NEW k \in Class, NEW n \in 1 .. NumServers[k],
         NEW o \in 0 .. NumServers[k], NEW up \in BOOLEAN
  PROVE  LET q == ChangeServer(r, k, n, o, up)
         IN  /\ Follows(q, r) /\ HasTimer(q) /\ q.server = r.server /\ q.fd = r.fd
             /\ o \in {0, n} => q.msgs = r.msgs /\ q.num_msgs = r.num_msgs
             /\ k = "auth" /\ o # 0 /\ SignedBy(r.msgs, Secret[k][o])
                => SignedBy(q.msgs, Secret[k][n])
<1> DEFINE p == ModifyPending(r, k, n, o)
           m == IF o \in {0, n} THEN r ELSE ResetRetries(p, k)
           c == Rearm(m)
           q == ChangeServer(r, k, n, o, up)
<1>0. r.msgs \in Seq(Entry)
  BY DEF Shape, Data
<1>1. /\ Follows(m, r) /\ SameServers(m, r)
      /\ k = "auth" /\ o # 0 /\ SignedBy(r.msgs, Secret[k][o]) => SignedBy(m.msgs, Secret[k][n])
  <2>1. CASE o \in {0, n}
    BY <2>1, FollowsReflexive DEF SameServers
  <2>2. CASE o \notin {0, n}
    <3>1. o \in 1 .. NumServers[k]
      BY <2>2, ServerAssumption
    <3>2. /\ Follows(p, r) /\ SameServers(p, r) /\ Shape(p)
          /\ k = "auth" /\ SignedBy(r.msgs, Secret[k][o]) => SignedBy(p.msgs, Secret[k][n])
      BY <3>1, ModifyPendingFollows DEF Follows
    <3> HIDE DEF p
    <3>3. Follows(ResetRetries(p, k), p) /\ SameServers(ResetRetries(p, k), p)
      BY <3>2, ResetRetriesFollows
    <3>4. m = ResetRetries(p, k)
      BY <2>2
    <3> HIDE DEF m
    <3>5. Follows(m, r) /\ SameServers(m, r)
      BY <3>2, <3>3, <3>4, FollowsTransitive DEF SameServers
    <3>6. m.msgs \in Seq(Entry) /\ p.msgs \in Seq(Entry) /\ Sublist(m.msgs, p.msgs)
      BY <3>3, <3>4, <3>2 DEF Follows, Shape, Data
    <3>7. SignedBy(p.msgs, Secret[k][n]) => SignedBy(m.msgs, Secret[k][n])
      BY <3>6, SublistKeeps
    <3> QED  BY <3>2, <3>5, <3>7
  <2> QED  BY <2>1, <2>2
<1>2. o \in {0, n} => m = r
  OBVIOUS
<1>3. q = IF up /\ c.fd[k] THEN [c EXCEPT !.sock[k] = TRUE] ELSE c
  BY DEF ChangeServer
<1> HIDE DEF m, q
<1>4. /\ Follows(c, m) /\ HasTimer(c) /\ SameServers(c, m) /\ c.msgs = m.msgs /\ c.num_msgs = m.num_msgs
  BY <1>1, RearmFollows DEF Follows
<1> HIDE DEF c
<1>5. Follows(c, r) /\ Shape(c) /\ c \in Data
  BY <1>1, <1>4, FollowsTransitive DEF Follows, Shape
<1>6. /\ q \in Data /\ q.msgs = c.msgs /\ q.num_msgs = c.num_msgs /\ q.timers = c.timers
      /\ q.server = c.server /\ q.fd = c.fd /\ \A j \in Class : q.sock[j] => q.fd[j]
  <2>1. CASE up /\ c.fd[k]
    <3>1. q = [c EXCEPT !.sock[k] = TRUE]
      BY <1>3, <2>1
    <3>2. c.sock \in [Class -> BOOLEAN] /\ \A j \in Class : c.sock[j] => c.fd[j]
      BY <1>5 DEF Shape, Data
    <3>3. /\ q.sock = [c.sock EXCEPT ![k] = TRUE] /\ q.fd = c.fd /\ q.msgs = c.msgs
          /\ q.num_msgs = c.num_msgs /\ q.timers = c.timers /\ q.server = c.server
      BY <1>5, <3>1 DEF Data
    <3>4. q.sock \in [Class -> BOOLEAN]
      BY <3>2, <3>3, Zenon
    <3>5. q \in Data
      BY <1>5, <3>1, <3>3, <3>4 DEF Data
    <3> QED  BY <2>1, <3>2, <3>3, <3>5
  <2>2. CASE ~ (up /\ c.fd[k])
    BY <1>3, <1>5, <2>2 DEF Shape
  <2> QED  BY <2>1, <2>2
<1>7. Shape(q) /\ HasTimer(q)
  BY <1>4, <1>5, <1>6 DEF Shape, HasTimer
<1>8. Follows(q, r)
  BY <1>5, <1>6, <1>7 DEF Follows
<1> QED  BY <1>1, <1>2, <1>4, <1>6, <1>7, <1>8 DEF q, SameServers

Signed(r) == SignedBy(r.msgs, Secret["auth"][r.server["auth"]])

\* radius_client_init_auth and radius_client_init_acct
LEMMA InitSockFollows ==
  ASSUME NEW r, Shape(r), NEW k \in Class, NEW c \in Outcome
  PROVE  LET q == InitSock(r, k, c)
         IN  Follows(q, r) /\ q.msgs = r.msgs /\ q.num_msgs = r.num_msgs /\ q.server = r.server
<1> DEFINE s == [r EXCEPT !.fd[k] = (c # "nosocket"), !.sock[k] = FALSE]
           n == ChangeServer(s, k, r.server[k], 0, c # "noconnect")
           q == InitSock(r, k, c)
<1>1. /\ r \in Data /\ r.msgs \in Seq(Entry) /\ r.num_msgs \in Nat
      /\ r.fd \in [Class -> BOOLEAN] /\ r.sock \in [Class -> BOOLEAN]
      /\ r.server[k] \in 1 .. NumServers[k]
  BY DEF Shape, Data
<1>2. /\ s \in Data /\ s.msgs = r.msgs /\ s.num_msgs = r.num_msgs /\ s.timers = r.timers
      /\ s.server = r.server /\ \A j \in Class : s.sock[j] => s.fd[j]
  <2>1. /\ s.fd = [r.fd EXCEPT ![k] = (c # "nosocket")] /\ s.sock = [r.sock EXCEPT ![k] = FALSE]
        /\ s.msgs = r.msgs /\ s.num_msgs = r.num_msgs /\ s.timers = r.timers
        /\ s.server = r.server
    BY <1>1 DEF Data
  <2>2. s.fd \in [Class -> BOOLEAN] /\ s.sock \in [Class -> BOOLEAN]
    BY <1>1, <2>1, Zenon
  <2>4. s \in Data
    BY <1>1, <2>1, <2>2 DEF Data
  <2> HIDE DEF s
  <2>3. ASSUME NEW j \in Class, s.sock[j] PROVE s.fd[j]
    <3>1. CASE j = k
      BY <1>1, <2>1, <2>3, <3>1, Zenon
    <3>2. CASE j # k
      <4>1. r.sock[j] /\ s.fd[j] = r.fd[j]
        BY <1>1, <2>1, <2>3, <3>2, Zenon
      <4> QED  BY <4>1 DEF Shape
    <3> QED  BY <3>1, <3>2
  <2> QED  BY <2>1, <2>3, <2>4
<1>3. q = CASE c = "nosocket" -> s
            [] c = "noread"   -> [n EXCEPT !.fd[k] = FALSE, !.sock[k] = FALSE]
            [] OTHER          -> n
  BY DEF InitSock
<1>4. (c # "noconnect") \in BOOLEAN
  BY Zenon
<1> HIDE DEF s, q
<1>5. Shape(s) /\ Follows(s, r)
  <2>1. Shape(s)
    BY <1>2 DEF Shape
  <2> QED  BY <1>1, <1>2, <2>1, SublistReflexive DEF Follows, HasTimer
<1>6. 0 \in 0 .. NumServers[k]
  BY ServerAssumption
<1>7. /\ Follows(n, s) /\ n.msgs = s.msgs /\ n.num_msgs = s.num_msgs /\ n.server = s.server
  BY <1>1, <1>4, <1>5, <1>6, ChangeServerFollows
<1> HIDE DEF n
<1>8. Follows(n, r) /\ Shape(n) /\ n \in Data
  BY <1>5, <1>7, FollowsTransitive DEF Follows, Shape
<1>9. CASE c = "nosocket"
  BY <1>2, <1>3, <1>5, <1>9 DEF q
<1>10. CASE c = "noread"
  <2>1. q = [n EXCEPT !.fd[k] = FALSE, !.sock[k] = FALSE]
    BY <1>3, <1>10
  <2>2. n.fd \in [Class -> BOOLEAN] /\ n.sock \in [Class -> BOOLEAN]
    BY <1>8 DEF Data
  <2>3. /\ q.fd = [n.fd EXCEPT ![k] = FALSE] /\ q.sock = [n.sock EXCEPT ![k] = FALSE]
        /\ q.msgs = n.msgs /\ q.num_msgs = n.num_msgs /\ q.timers = n.timers
        /\ q.server = n.server
    BY <1>8, <2>1 DEF Data
  <2>4. q.fd \in [Class -> BOOLEAN] /\ q.sock \in [Class -> BOOLEAN]
    BY <2>2, <2>3, Zenon
  <2>5. q \in Data
    BY <1>8, <2>1, <2>3, <2>4 DEF Data
  <2>6. ASSUME NEW j \in Class, q.sock[j] PROVE q.fd[j]
    <3>1. CASE j = k
      BY <2>2, <2>3, <2>6, <3>1, Zenon
    <3>2. CASE j # k
      <4>1. n.sock[j] /\ q.fd[j] = n.fd[j]
        BY <2>2, <2>3, <2>6, <3>2, Zenon
      <4> QED  BY <1>8, <4>1 DEF Shape
    <3> QED  BY <3>1, <3>2
  <2>7. Shape(q)
    BY <1>8, <2>3, <2>5, <2>6 DEF Shape
  <2> QED  BY <1>2, <1>7, <1>8, <2>3, <2>7 DEF Follows, HasTimer, q
<1>11. CASE c \in {"noconnect", "up"}
  BY <1>2, <1>3, <1>7, <1>8, <1>11 DEF q
<1> QED  BY <1>9, <1>10, <1>11 DEF Outcome

\* The class is given another server.
LEMMA ServerChanged ==
  ASSUME NEW r, Shape(r), NEW k \in Class, NEW n \in 1 .. NumServers[k]
  PROVE  LET q == [r EXCEPT !.server[k] = n]
         IN  /\ Follows(q, r) /\ q.msgs = r.msgs /\ q.num_msgs = r.num_msgs
             /\ q.server[k] = n /\ \A j \in Class : j # k => q.server[j] = r.server[j]
             /\ q.fd = r.fd /\ q.sock = r.sock
<1> DEFINE q == [r EXCEPT !.server[k] = n]
<1>1. r \in Data /\ r.msgs \in Seq(Entry) /\ r.num_msgs \in Nat /\ r.server \in [Class -> Nat]
  BY DEF Shape, Data
<1>2. n \in Nat
  BY ServerAssumption
<1>3. /\ q \in Data /\ q.server = [r.server EXCEPT ![k] = n]
      /\ q.msgs = r.msgs /\ q.num_msgs = r.num_msgs /\ q.timers = r.timers
      /\ q.fd = r.fd /\ q.sock = r.sock
  BY <1>1, <1>2 DEF Data
<1> HIDE DEF q
<1>4. q.server[k] = n /\ \A j \in Class : j # k => q.server[j] = r.server[j]
  BY <1>1, <1>3
<1>5. Shape(q)
  BY <1>3, <1>4 DEF Shape
<1> QED  BY <1>1, <1>3, <1>4, <1>5, SublistReflexive DEF Follows, HasTimer, q

\* A class changes to server n: its authentication requests keep the secret of
\* their server.
LEMMA ToServer ==
  ASSUME NEW r, Shape(r), NEW k \in Class, NEW n \in 1 .. NumServers[k], NEW up \in BOOLEAN
  PROVE  LET q == ChangeServer([r EXCEPT !.server[k] = n], k, n, r.server[k], up)
         IN  /\ Follows(q, r) /\ HasTimer(q) /\ (Signed(r) => Signed(q))
             /\ q.server[k] = n /\ \A j \in Class : j # k => q.server[j] = r.server[j]
<1> DEFINE s == [r EXCEPT !.server[k] = n]
           o == r.server[k]
           q == ChangeServer(s, k, n, o, up)
<1>1. /\ Follows(s, r) /\ Shape(s) /\ s.msgs = r.msgs
      /\ s.server[k] = n /\ \A j \in Class : j # k => s.server[j] = r.server[j]
  BY ServerChanged DEF Follows
<1>2. o \in 1 .. NumServers[k] /\ o \in 0 .. NumServers[k] /\ o # 0
  BY ServerAssumption DEF Shape
<1> HIDE DEF s, o
<1>3. /\ Follows(q, s) /\ HasTimer(q) /\ q.server = s.server
      /\ k = "auth" /\ SignedBy(s.msgs, Secret[k][o]) => SignedBy(q.msgs, Secret[k][n])
  BY <1>1, <1>2, ChangeServerFollows
<1> HIDE DEF q
<1>4. Follows(q, r)
  BY <1>1, <1>3, FollowsTransitive
<1>5. ASSUME Signed(r) PROVE Signed(q)
  <2>1. CASE k = "auth"
    BY <1>1, <1>3, <1>5, <2>1 DEF Signed, o
  <2>2. CASE k # "auth"
    <3>1. "auth" \in Class /\ q.server["auth"] = r.server["auth"]
      BY <1>1, <1>3, <2>2 DEF Class
    <3>2. q.msgs \in Seq(Entry) /\ r.msgs \in Seq(Entry) /\ Sublist(q.msgs, r.msgs)
      BY <1>4 DEF Follows, Shape, Data
    <3> QED  BY <1>5, <3>1, <3>2, SublistKeeps DEF Signed
  <2> QED  BY <2>1, <2>2
<1> QED  BY <1>1, <1>3, <1>4, <1>5 DEF q, s, o

\* What the callbacks do with the sockets and servers: the requests that are left
\* keep their timeout and, for authentication, their server's secret.
Serves(q, r) == Follows(q, r) /\ (Signed(r) => Signed(q))

LEMMA ServesReflexive ==
  ASSUME NEW r, Shape(r)
  PROVE  Serves(r, r)
BY FollowsReflexive DEF Serves

LEMMA ServesTransitive ==
  ASSUME NEW q, NEW m, NEW r, Shape(r), Serves(q, m), Serves(m, r)
  PROVE  Serves(q, r)
BY FollowsTransitive DEF Serves

LEMMA InitSockServes ==
  ASSUME NEW r, Shape(r), NEW k \in Class, NEW c \in Outcome
  PROVE  LET q == InitSock(r, k, c)
         IN  Serves(q, r) /\ q.msgs = r.msgs /\ q.num_msgs = r.num_msgs
BY InitSockFollows DEF Serves, Signed

LEMMA OpenedServes ==
  ASSUME NEW r, Shape(r), NEW k \in Class, NEW q \in Opened(r, k)
  PROVE  Serves(q, r) /\ q.msgs = r.msgs /\ q.num_msgs = r.num_msgs
<1>1. CASE r.sock[k]
  BY <1>1, ServesReflexive DEF Opened
<1>2. CASE ~ r.sock[k]
  <2>1. PICK c \in Outcome : q = InitSock(r, k, c)
    BY <1>2 DEF Opened
  <2> QED  BY <2>1, InitSockServes
<1> QED  BY <1>1, <1>2

LEMMA SendErrorServes ==
  ASSUME NEW r, Shape(r), NEW k \in Class, NEW q \in SendError(r, k)
  PROVE  Serves(q, r) /\ q.msgs = r.msgs /\ q.num_msgs = r.num_msgs
<1>1. PICK c \in Outcome : q = InitSock(r, k, c)
  BY DEF SendError
<1> QED  BY <1>1, InitSockServes

LEMMA FailoverServes ==
  ASSUME NEW r, Shape(r), NEW k \in Class, NEW up \in BOOLEAN
  PROVE  Serves(Failover(r, k, up), r)
<1> DEFINE o == r.server[k]
           n == IF o = NumServers[k] THEN 1 ELSE o + 1
<1>1. n \in 1 .. NumServers[k]
  BY ServerAssumption DEF Shape
<1>2. Failover(r, k, up) = ChangeServer([r EXCEPT !.server[k] = n], k, n, o, up)
  BY DEF Failover
<1> HIDE DEF n
<1> QED  BY <1>1, <1>2, ToServer DEF Serves

LEMMA FailoverIfServes ==
  ASSUME NEW r, Shape(r), NEW k \in Class, NEW q \in FailoverIf(r, k)
  PROVE  Serves(q, r)
<1>1. CASE q = r
  BY <1>1, ServesReflexive
<1>2. CASE \E up \in BOOLEAN : q = Failover(r, k, up)
  BY <1>2, FailoverServes
<1> QED  BY <1>1, <1>2 DEF FailoverIf

LEMMA PreparedServes ==
  ASSUME NEW r, Shape(r), NEW k \in Class, NEW q \in Prepared(r, k)
  PROVE  Serves(q, r)
<1>1. PICK s \in Opened(r, k) : q = s \/ \E up \in BOOLEAN : q = Failover(s, k, up)
  BY DEF Prepared
<1>2. Serves(s, r) /\ Shape(s)
  BY OpenedServes DEF Serves, Follows
<1>3. CASE q = s
  BY <1>2, <1>3
<1>4. CASE \E up \in BOOLEAN : q = Failover(s, k, up)
  BY <1>2, <1>4, FailoverServes, ServesTransitive
<1> QED  BY <1>1, <1>3, <1>4

\* radius_retry_primary_timer: the way back to the old server keeps the secrets
\* too, because the requests of another secret are gone.
LEMMA BackToPrimaryServes ==
  ASSUME NEW r, Shape(r), NEW k \in Class, NEW q \in BackToPrimary(r, k)
  PROVE  Serves(q, r)
<1> DEFINE o == r.server[k]
           n == ChangeServer([r EXCEPT !.server[k] = 1], k, 1, o, FALSE)
           b == [n EXCEPT !.server[k] = o]
<1>1. o \in 1 .. NumServers[k] /\ 1 \in 1 .. NumServers[k] /\ o \in 0 .. NumServers[k]
  BY ServerAssumption DEF Shape
<1>2. CASE q = r
  BY <1>2, ServesReflexive
<1>3. CASE q = ChangeServer([r EXCEPT !.server[k] = 1], k, 1, o, TRUE)
  BY <1>1, <1>3, ToServer DEF Serves
<1>4. ASSUME NEW up \in BOOLEAN, q = ChangeServer(b, k, o, o, up) PROVE Serves(q, r)
  <2>1. /\ Follows(n, r) /\ Shape(n)
        /\ n.server[k] = 1 /\ \A j \in Class : j # k => n.server[j] = r.server[j]
        /\ Signed(r) => Signed(n)
    <3>1. ASSUME NEW x \in 1 .. NumServers[k], NEW d \in BOOLEAN, NEW m,
                 m = ChangeServer([r EXCEPT !.server[k] = x], k, x, r.server[k], d)
          PROVE  /\ Follows(m, r) /\ (Signed(r) => Signed(m))
                 /\ m.server[k] = x /\ \A j \in Class : j # k => m.server[j] = r.server[j]
      BY <3>1, ToServer
    <3>2. PICK x \in 1 .. NumServers[k], d \in BOOLEAN : x = 1 /\ d = FALSE
      BY <1>1
    <3>3. n = ChangeServer([r EXCEPT !.server[k] = x], k, x, r.server[k], d)
      BY <3>2
    <3> HIDE DEF n
    <3>4. /\ Follows(n, r) /\ (Signed(r) => Signed(n))
          /\ n.server[k] = x /\ \A j \in Class : j # k => n.server[j] = r.server[j]
      BY <3>1, <3>3
    <3> QED  BY <3>2, <3>4 DEF Follows
  <2>2. k = "auth" /\ Signed(r) => SignedBy(n.msgs, Secret[k][o])
    <3> SUFFICES ASSUME k = "auth", Signed(r) PROVE SignedBy(n.msgs, Secret["auth"][o])
      OBVIOUS
    <3>1. SignedBy(r.msgs, Secret["auth"][o])
      BY DEF Signed
    <3>2. r.msgs \in Seq(Entry) /\ n.msgs \in Seq(Entry) /\ Sublist(n.msgs, r.msgs)
      BY <2>1 DEF Follows, Shape, Data
    <3> HIDE DEF n, o
    <3> QED  BY <3>1, <3>2, SublistKeeps
  <2> HIDE DEF n, o
  <2>3. /\ Follows(b, n) /\ Shape(b) /\ b.msgs = n.msgs
        /\ b.server[k] = o /\ \A j \in Class : j # k => b.server[j] = n.server[j]
    BY <1>1, <2>1, ServerChanged DEF Follows
  <2> HIDE DEF b
  <2>4. Follows(q, b) /\ q.server = b.server /\ q.msgs = b.msgs
    BY <1>1, <1>4, <2>3, ChangeServerFollows
  <2>5. Follows(q, r)
    BY <2>1, <2>3, <2>4, FollowsTransitive
  <2>6. ASSUME Signed(r) PROVE Signed(q)
    <3>1. CASE k = "auth"
      BY <2>2, <2>3, <2>4, <2>6, <3>1 DEF Signed
    <3>2. CASE k # "auth"
      BY <2>1, <2>3, <2>4, <2>6, <3>2 DEF Signed, Class
    <3> QED  BY <3>1, <3>2
  <2> QED  BY <2>5, <2>6 DEF Serves
<1> QED  BY <1>2, <1>3, <1>4 DEF BackToPrimary
-----------------------------------------------------------------------------
(***************************************************************************)
(* radius_client_list_add.                                                 *)
(***************************************************************************)
\* The list without its oldest entry.
LEMMA FrontEntries ==
  ASSUME NEW s \in Seq(Entry), Len(s) > 1
  PROVE  /\ Front(s) \in Seq(Entry) /\ Len(Front(s)) = Len(s) - 1
         /\ Sublist(Front(s), s)
<1>1. /\ Front(s) \in Seq(Entry) /\ Len(Front(s)) = Len(s) - 1
      /\ \A i \in 1 .. Len(s) - 1 : Front(s)[i] = s[i]
  BY DEF Front
<1>2. DOMAIN Front(s) = 1 .. Len(s) - 1 /\ DOMAIN s = 1 .. Len(s) /\ Len(s) \in Nat
  BY <1>1
<1> DEFINE f == [i \in DOMAIN Front(s) |-> i]
<1>3. f \in [DOMAIN Front(s) -> DOMAIN s] /\ \A i \in DOMAIN Front(s) : f[i] = i
  BY <1>2
<1>4. \A i \in DOMAIN Front(s) : Front(s)[i] = s[f[i]]
  BY <1>1, <1>2, <1>3
<1> HIDE DEF f
<1> QED  BY <1>1, <1>3, <1>4 DEF Sublist

\* radius_client_update_timeout
LEMMA UpdateTimeoutTimers ==
  ASSUME NEW r \in Data, r.msgs # <<>>
  PROVE  UpdateTimeout(r).timers \subseteq Nat /\ UpdateTimeout(r).timers # {}
<1> DEFINE dues == {e.due : e \in Range(r.msgs)}
<1>0. r.msgs \in Seq(Entry)
  BY DEF Data
<1>1. \A i \in DOMAIN r.msgs : r.msgs[i].due \in Nat
  <2>1. \A i \in DOMAIN r.msgs : r.msgs[i] \in Entry
    BY <1>0
  <2>2. \A e \in Entry : e.due \in Nat
    BY LimitAssumption DEF Entry
  <2> QED  BY <2>1, <2>2
<1>2. DOMAIN r.msgs # {}
  <2>1. Len(r.msgs) \in Nat /\ Len(r.msgs) # 0 /\ DOMAIN r.msgs = 1 .. Len(r.msgs)
    BY <1>0
  <2>2. 1 \in DOMAIN r.msgs
    BY <2>1
  <2> QED  BY <2>2
<1>3. dues \subseteq Nat /\ dues # {}
  BY <1>1, <1>2 DEF Range
<1>4. Min(dues) \in Nat
  <2> HIDE DEF dues
  <2> QED  BY <1>3, MinElement
<1>5. UpdateTimeout(r).timers = {Min(dues)}
  BY DEF UpdateTimeout, Data
<1> QED  BY <1>4, <1>5

\* The new entry in front of the list.
LEMMA Prepended ==
  ASSUME NEW s \in Seq(Entry), NEW e \in Entry, NEW x,
         Unique(s), Interim(s), SignedBy(s, x),
         \A i \in DOMAIN s : s[i].id # e.id,
         e.type = "INTERIM" => \A i \in DOMAIN s : ~ (s[i].type = "INTERIM" /\ s[i].addr = e.addr),
         e.type = "AUTH" => e.secret = x
  PROVE  LET L == <<e>> \o s
         IN  /\ L \in Seq(Entry) /\ Len(L) = Len(s) + 1
             /\ Unique(L) /\ Interim(L) /\ SignedBy(L, x)
<1> DEFINE L == <<e>> \o s
<1>1. /\ L \in Seq(Entry) /\ Len(L) = Len(s) + 1 /\ DOMAIN L = 1 .. Len(s) + 1
      /\ L[1] = e /\ DOMAIN s = 1 .. Len(s) /\ Len(s) \in Nat
  OBVIOUS
<1>2. \A i \in DOMAIN L : i # 1 => i - 1 \in DOMAIN s /\ L[i] = s[i - 1]
  BY <1>1
<1> HIDE DEF L
<1>3. Unique(L)
  <2> SUFFICES ASSUME NEW i \in DOMAIN L, NEW j \in DOMAIN L, L[i].id = L[j].id PROVE i = j
    BY DEF Unique
  <2>1. CASE i = 1 \/ j = 1
    BY <1>1, <1>2, <2>1
  <2>2. CASE i # 1 /\ j # 1
    <3>1. i - 1 = j - 1
      BY <1>2, <2>2 DEF Unique
    <3> QED  BY <1>1, <3>1
  <2> QED  BY <2>1, <2>2
<1>4. Interim(L)
  <2> SUFFICES ASSUME NEW i \in DOMAIN L, NEW j \in DOMAIN L, L[i].type = "INTERIM",
                      L[j].type = "INTERIM", L[i].addr = L[j].addr
               PROVE  i = j
    BY DEF Interim
  <2>1. CASE i = 1 \/ j = 1
    BY <1>1, <1>2, <2>1
  <2>2. CASE i # 1 /\ j # 1
    <3>1. i - 1 = j - 1
      BY <1>2, <2>2 DEF Interim
    <3> QED  BY <1>1, <3>1
  <2> QED  BY <2>1, <2>2
<1>5. SignedBy(L, x)
  BY <1>1, <1>2 DEF SignedBy
<1> QED  BY <1>1, <1>3, <1>4, <1>5 DEF L

\* A new request has an identifier and, if it is an interim update, a station that
\* no pending one has; it is made with the secret of the server in use.
LEMMA ListAddShape ==
  ASSUME NEW r, Shape(r), Signed(r), NEW t \in RadiusType, NEW a \in Addrs,
         NEW id \in 0 .. NumIds - 1,
         \A i \in DOMAIN r.msgs : r.msgs[i].id # id,
         t = "INTERIM" => \A i \in DOMAIN r.msgs :
                            ~ (r.msgs[i].type = "INTERIM" /\ r.msgs[i].addr = a)
  PROVE  LET q == ListAdd(r, t, a, id)
         IN  Shape(q) /\ Signed(q) /\ HasTimer(q)
<1> DEFINE k == ClassOf(t)
           e == [type |-> t, addr |-> a, id |-> id, attempts |-> 1, due |-> FIRST_WAIT,
                 fresh |-> FIRST_WAIT, wait |-> 2 * FIRST_WAIT, secret |-> Secret[k][r.server[k]]]
           x == Secret["auth"][r.server["auth"]]
           L == <<e>> \o r.msgs
           p == [r EXCEPT !.msgs = L]
           u == UpdateTimeout(p)
           q == ListAdd(r, t, a, id)
<1>1. /\ r \in Data /\ r.msgs \in Seq(Entry) /\ Len(r.msgs) \in Nat /\ r.num_msgs \in Nat
      /\ Len(r.msgs) <= r.num_msgs /\ r.num_msgs <= MAX_ENTRIES
      /\ Unique(r.msgs) /\ Interim(r.msgs) /\ SignedBy(r.msgs, x)
  BY DEF Shape, Data, Signed
<1>2. e \in Entry
  <2>1. k \in Class /\ r.server[k] \in 1 .. NumServers[k]
    BY DEF ClassOf, Class, RadiusType, Shape
  <2>2. Secret[k][r.server[k]] \in Secrets
    BY <2>1 DEF Secrets
  <2>3. /\ FIRST_WAIT \in 0 .. MAX_WAIT /\ FIRST_WAIT \in 0 .. FIRST_WAIT
        /\ 2 * FIRST_WAIT \in 0 .. MAX_WAIT /\ 1 \in Nat
    BY LimitAssumption
  <2> QED  BY <2>2, <2>3 DEF Entry
<1>3. e.id = id /\ e.type = t /\ e.addr = a /\ (e.type = "AUTH" => e.secret = x)
  BY DEF ClassOf
<1>4. q = Limited(u)
  BY DEF ListAdd
<1> HIDE DEF e, x, q
<1>5. L \in Seq(Entry) /\ Len(L) = Len(r.msgs) + 1 /\ Unique(L) /\ Interim(L) /\ SignedBy(L, x)
  BY <1>1, <1>2, <1>3, Prepended
<1> HIDE DEF L
<1>6. L # <<>>
  BY <1>1, <1>5
<1>7. /\ p \in Data /\ p.msgs = L /\ p.num_msgs = r.num_msgs /\ SameServers(p, r)
  BY <1>1, <1>5 DEF Data, SameServers
<1> HIDE DEF p
<1>8. /\ u \in Data /\ u.msgs = L /\ u.num_msgs = r.num_msgs /\ SameServers(u, r)
      /\ u.timers # {}
  <2>1. u.timers \subseteq Nat /\ u.timers # {}
    BY <1>6, <1>7, UpdateTimeoutTimers
  <2>2. u = [p EXCEPT !.timers = u.timers]
    BY <1>7 DEF UpdateTimeout, Data
  <2> HIDE DEF u
  <2>3. /\ u.msgs = p.msgs /\ u.num_msgs = p.num_msgs /\ u.server = p.server
        /\ u.fd = p.fd /\ u.sock = p.sock
    BY <1>7, <2>2 DEF Data
  <2>4. u \in Data
    BY <1>7, <2>1, <2>2 DEF Data
  <2> QED  BY <1>7, <2>1, <2>3, <2>4 DEF SameServers
<1> HIDE DEF u
<1>9. ASSUME q.num_msgs \in Nat, q.num_msgs <= MAX_ENTRIES, Len(q.msgs) <= q.num_msgs,
             q.timers = u.timers, SameServers(q, u), q \in Data,
             Unique(q.msgs), Interim(q.msgs), SignedBy(q.msgs, x)
      PROVE  Shape(q) /\ Signed(q) /\ HasTimer(q)
  <2>1. Shape(q)
    BY <1>8, <1>9 DEF Shape, SameServers
  <2>2. Signed(q)
    BY <1>8, <1>9 DEF Signed, SameServers, x
  <2>3. HasTimer(q)
    BY <1>8, <1>9 DEF HasTimer
  <2> QED  BY <2>1, <2>2, <2>3
<1>10. CASE r.num_msgs >= MAX_ENTRIES /\ Len(L) > 1
  <2>1. q = [u EXCEPT !.msgs = Front(L)]
    BY <1>4, <1>8, <1>10 DEF Limited
  <2>2. /\ Front(L) \in Seq(Entry) /\ Len(Front(L)) = Len(r.msgs) /\ Sublist(Front(L), L)
    BY <1>1, <1>5, <1>10, FrontEntries
  <2>3. Unique(Front(L)) /\ Interim(Front(L)) /\ SignedBy(Front(L), x)
    BY <1>5, <2>2, SublistKeeps
  <2>4. /\ q \in Data /\ q.msgs = Front(L) /\ q.num_msgs = r.num_msgs /\ q.timers = u.timers
        /\ SameServers(q, u)
    BY <1>8, <2>1, <2>2 DEF Data, SameServers
  <2> QED  BY <1>1, <1>9, <2>2, <2>3, <2>4 DEF q
<1>11. CASE r.num_msgs >= MAX_ENTRIES /\ ~ Len(L) > 1
  <2>1. q = [u EXCEPT !.msgs = L]
    BY <1>4, <1>8, <1>11 DEF Limited
  <2>2. Len(L) <= r.num_msgs
    BY <1>1, <1>5, <1>11, LimitAssumption
  <2>3. /\ q \in Data /\ q.msgs = L /\ q.num_msgs = r.num_msgs /\ q.timers = u.timers
        /\ SameServers(q, u)
    BY <1>5, <1>8, <2>1 DEF Data, SameServers
  <2> QED  BY <1>1, <1>5, <1>9, <2>2, <2>3 DEF q
<1>12. CASE ~ r.num_msgs >= MAX_ENTRIES
  <2>1. q = [u EXCEPT !.num_msgs = r.num_msgs + 1]
    BY <1>4, <1>8, <1>12 DEF Limited
  <2>2. Len(L) <= r.num_msgs + 1 /\ r.num_msgs + 1 <= MAX_ENTRIES /\ r.num_msgs + 1 \in Nat
    BY <1>1, <1>5, <1>12, LimitAssumption
  <2>3. /\ q \in Data /\ q.msgs = L /\ q.num_msgs = r.num_msgs + 1 /\ q.timers = u.timers
        /\ SameServers(q, u)
    BY <1>5, <1>8, <2>1, <2>2 DEF Data, SameServers
  <2> QED  BY <1>5, <1>9, <2>2, <2>3 DEF q
<1> QED  BY <1>10, <1>11, <1>12 DEF q
-----------------------------------------------------------------------------
(***************************************************************************)
(* The callbacks.                                                          *)
(***************************************************************************)
\* What is left of the list is signed as the list was.
LEMMA SublistSigned ==
  ASSUME NEW r, Shape(r), NEW q, Shape(q), Sublist(q.msgs, r.msgs), q.server = r.server, Signed(r)
  PROVE  Signed(q)
<1>1. q.msgs \in Seq(Entry) /\ r.msgs \in Seq(Entry)
  BY DEF Shape, Data
<1> QED  BY <1>1, SublistKeeps DEF Signed

LEMMA RemovedServes ==
  ASSUME NEW r, Shape(r), NEW gone \in SUBSET DOMAIN r.msgs
  PROVE  Serves(Removed(r, gone), r)
<1> DEFINE q == Removed(r, gone)
<1>1. Follows(q, r) /\ Shape(q) /\ Sublist(q.msgs, r.msgs) /\ q.server = r.server
  BY RemovedFollows, RemovedShape DEF SameServers
<1> HIDE DEF q
<1>2. Signed(r) => Signed(q)
  BY <1>1, SublistSigned
<1> QED  BY <1>1, <1>2 DEF Serves, q

LEMMA GetIdKeeps ==
  ASSUME NEW r, Shape(r), Signed(r), HasTimer(r), NEW id
  PROVE  LET q == GetId(r, id)
         IN  /\ Shape(q) /\ Signed(q) /\ HasTimer(q)
             /\ \A n \in DOMAIN q.msgs : q.msgs[n].id # id
<1> DEFINE q == GetId(r, id)
<1>1. /\ Shape(q) /\ Sublist(q.msgs, r.msgs) /\ q.server = r.server /\ q.timers = r.timers
      /\ \A n \in DOMAIN q.msgs : q.msgs[n].id # id
  BY GetIdShape DEF SameServers
<1> HIDE DEF q
<1>2. Signed(q)
  BY <1>1, SublistSigned
<1>3. q.msgs \in Seq(Entry) /\ r.msgs \in Seq(Entry)
  BY <1>1 DEF Shape, Data
<1>4. HasTimer(q)
  BY <1>1, <1>3, SublistKeeps DEF HasTimer
<1> QED  BY <1>1, <1>2, <1>4 DEF q

\* radius_client_list_del
LEMMA ListDelServes ==
  ASSUME NEW r, Shape(r), NEW t, NEW a
  PROVE  LET q == ListDel(r, t, a)
         IN  /\ Serves(q, r) /\ Sublist(q.msgs, r.msgs)
             /\ \A n \in DOMAIN q.msgs : ~ (q.msgs[n].type = t /\ q.msgs[n].addr = a)
<1> DEFINE gone == OfSta(r, t, a)
           q == ListDel(r, t, a)
<1>1. /\ gone \in SUBSET DOMAIN r.msgs
      /\ \A i \in DOMAIN r.msgs : i \notin gone => ~ (r.msgs[i].type = t /\ r.msgs[i].addr = a)
  BY DEF OfSta, OfType
<1>2. q = Removed(r, gone)
  BY DEF ListDel
<1> HIDE DEF gone, q
<1>3. /\ Serves(q, r) /\ Sublist(q.msgs, r.msgs)
      /\ \A n \in DOMAIN q.msgs : \E i \in DOMAIN r.msgs : i \notin gone /\ q.msgs[n] = r.msgs[i]
  BY <1>1, <1>2, RemovedServes, RemovedShape
<1>4. \A n \in DOMAIN q.msgs : ~ (q.msgs[n].type = t /\ q.msgs[n].addr = a)
  BY <1>1, <1>3
<1> QED  BY <1>3, <1>4 DEF q

\* Timeouts are registered or cancelled.
LEMMA TimersChanged ==
  ASSUME NEW r, Shape(r), NEW T \in SUBSET Nat
  PROVE  LET q == [r EXCEPT !.timers = T]
         IN  /\ Shape(q) /\ q.msgs = r.msgs /\ q.num_msgs = r.num_msgs /\ q.timers = T
             /\ Signed(r) => Signed(q)
<1> DEFINE q == [r EXCEPT !.timers = T]
<1>1. r \in Data
  BY DEF Shape
<1>2. /\ q \in Data /\ q.msgs = r.msgs /\ q.num_msgs = r.num_msgs /\ q.timers = T
      /\ q.server = r.server /\ q.fd = r.fd /\ q.sock = r.sock
  BY <1>1 DEF Data
<1> HIDE DEF q
<1>3. Shape(q)
  BY <1>2 DEF Shape
<1> QED  BY <1>2, <1>3 DEF Signed, q

\* One entry is given other times or another count of attempts.
LEMMA EntryChanged ==
  ASSUME NEW r, Shape(r), NEW p \in DOMAIN r.msgs, NEW e \in Entry,
         e.type = r.msgs[p].type, e.addr = r.msgs[p].addr, e.id = r.msgs[p].id,
         e.secret = r.msgs[p].secret
  PROVE  LET q == [r EXCEPT !.msgs = [r.msgs EXCEPT ![p] = e]]
         IN  /\ Shape(q) /\ q.num_msgs = r.num_msgs /\ Len(q.msgs) = Len(r.msgs)
             /\ q.msgs[p] = e /\ (Signed(r) => Signed(q))
<1> DEFINE L == [r.msgs EXCEPT ![p] = e]
           q == [r EXCEPT !.msgs = L]
<1>1. r.msgs \in Seq(Entry)
  BY DEF Shape, Data
<1>2. /\ L \in Seq(Entry) /\ DOMAIN L = DOMAIN r.msgs /\ Len(L) = Len(r.msgs) /\ L[p] = e
      /\ \A i \in DOMAIN L : i # p => L[i] = r.msgs[i]
  BY <1>1
<1> HIDE DEF L
<1>3. \A i \in DOMAIN L :
        /\ L[i].type = r.msgs[i].type /\ L[i].addr = r.msgs[i].addr /\ L[i].id = r.msgs[i].id
        /\ L[i].type = "AUTH" => L[i].secret = r.msgs[i].secret
  BY <1>2
<1>4. Follows(q, r) /\ q.server = r.server /\ q.msgs = L /\ q.num_msgs = r.num_msgs
  BY <1>2, <1>3, SameEntries DEF SameServers
<1> HIDE DEF q
<1>5. Shape(q) /\ (Signed(r) => Signed(q))
  BY <1>4, SublistSigned DEF Follows
<1> QED  BY <1>2, <1>4, <1>5 DEF q, L

LEMMA BackoffChanged ==
  ASSUME NEW r, Shape(r), NEW p \in DOMAIN r.msgs
  PROVE  LET q == Backoff(r, p)
         IN  Shape(q) /\ Len(q.msgs) = Len(r.msgs) /\ (Signed(r) => Signed(q))
<1> DEFINE f == r.msgs[p]
           w == MinOf(2 * f.wait, MAX_WAIT)
           e == [f EXCEPT !.due = f.wait, !.wait = w]
           q == [r EXCEPT !.msgs = [r.msgs EXCEPT ![p] = e]]
<1>1. r \in Data /\ r.msgs \in Seq(Entry) /\ f \in Entry
  BY DEF Shape, Data
<1>2. f.wait \in 0 .. MAX_WAIT /\ w \in 0 .. MAX_WAIT
  <2>1. f.wait \in 0 .. MAX_WAIT
    BY <1>1 DEF Entry
  <2> QED  BY <2>1, LimitAssumption DEF MinOf
<1>3. Backoff(r, p) = q
  BY <1>1 DEF Backoff, Data, Entry
<1> HIDE DEF f, w
<1>4. e \in Entry /\ e.type = f.type /\ e.addr = f.addr /\ e.id = f.id /\ e.secret = f.secret
  BY <1>1, <1>2 DEF Entry
<1> HIDE DEF e
<1>5. Shape(q) /\ Len(q.msgs) = Len(r.msgs) /\ (Signed(r) => Signed(q))
  BY <1>4, EntryChanged DEF f
<1> HIDE DEF q
<1> QED  BY <1>3, <1>5

LEMMA SentChanged ==
  ASSUME NEW r, Shape(r), NEW p \in DOMAIN r.msgs
  PROVE  LET q == [r EXCEPT !.msgs[p].attempts = @ + 1]
         IN  Shape(q) /\ Len(q.msgs) = Len(r.msgs) /\ (Signed(r) => Signed(q))
<1> DEFINE f == r.msgs[p]
           e == [f EXCEPT !.attempts = f.attempts + 1]
           s == [r EXCEPT !.msgs[p].attempts = @ + 1]
           q == [r EXCEPT !.msgs = [r.msgs EXCEPT ![p] = e]]
<1>1. r \in Data /\ r.msgs \in Seq(Entry) /\ f \in Entry
  BY DEF Shape, Data
<1>2. s = q
  BY <1>1 DEF Data, Entry
<1> HIDE DEF f, s
<1>3. e \in Entry /\ e.type = f.type /\ e.addr = f.addr /\ e.id = f.id /\ e.secret = f.secret
  <2>0. f.attempts \in Nat
    BY <1>1 DEF Entry
  <2>1. f.attempts + 1 \in Nat
    BY <2>0
  <2> QED  BY <1>1, <2>1 DEF Entry
<1> HIDE DEF e
<1>4. Shape(q) /\ Len(q.msgs) = Len(r.msgs) /\ (Signed(r) => Signed(q))
  BY <1>3, EntryChanged DEF f
<1> HIDE DEF q
<1> QED  BY <1>2, <1>4 DEF s
-----------------------------------------------------------------------------
(***************************************************************************)
(* The inductive invariant.  Between two callbacks the list has a timeout; *)
(* inside radius_client_timer it may have none, and then the loop knows    *)
(* when the entries it has passed are due.                                 *)
(***************************************************************************)
Idle == Shape(radius) /\ Signed(radius) /\ HasTimer(radius)

Looping ==
  /\ Shape(radius) /\ Signed(radius)
  /\ first \in -1 .. MAX_WAIT
  /\ entry \in 1 .. Len(radius.msgs) + 1
  /\ first = -1 => entry = 1

Inv ==
  /\ next_id \in 0 .. NumIds - 1
  /\ pc \in {"idle", "loop"}
  /\ pc = "idle" => Idle
  /\ pc = "loop" => Looping

LEMMA NextId ==
  ASSUME NEW n \in 0 .. NumIds - 1
  PROVE  (n + 1) % NumIds \in 0 .. NumIds - 1
BY LimitAssumption

LEMMA InitInv ==
  ASSUME Init
  PROVE  Inv
<1>1. radius.msgs = <<>> /\ radius.num_msgs = 0
  BY DEF Init
<1>2. radius \in Data
  <2>1. <<>> \in Seq(Entry) /\ 0 \in Nat /\ {} \in SUBSET Nat
    OBVIOUS
  <2>2. [k \in Class |-> 1] \in [Class -> Nat]
    OBVIOUS
  <2>3. [k \in Class |-> TRUE] \in [Class -> BOOLEAN]
    BY Zenon
  <2> QED  BY <2>1, <2>2, <2>3 DEF Init, Data
<1>3. \A k \in Class : radius.server[k] \in 1 .. NumServers[k]
  BY ServerAssumption DEF Init
<1>4. \A k \in Class : radius.sock[k] => radius.fd[k]
  BY DEF Init
<1>5. Unique(radius.msgs) /\ Interim(radius.msgs) /\ SignedBy(radius.msgs, Secret["auth"][radius.server["auth"]])
  <2>1. DOMAIN radius.msgs = {}
    BY <1>1
  <2> QED  BY <2>1 DEF Unique, Interim, SignedBy
<1>6. Len(radius.msgs) <= radius.num_msgs /\ radius.num_msgs <= MAX_ENTRIES
  BY <1>1, LimitAssumption
<1>7. Idle
  BY <1>1, <1>2, <1>3, <1>4, <1>5, <1>6 DEF Idle, Shape, Signed, HasTimer
<1> QED  BY <1>7, LimitAssumption DEF Inv, Init

\* A callback other than radius_client_timer.
LEMMA IdleStep ==
  ASSUME Inv, pc = "idle", UNCHANGED loop, next_id' \in 0 .. NumIds - 1, Idle'
  PROVE  Inv'
BY DEF Inv, loop

LEMMA RequestInv ==
  ASSUME Inv, NEW t \in RadiusType, NEW a \in Addrs, Request(t, a)
  PROVE  Inv'
<1> DEFINE k == ClassOf(t)
           r0 == GetId(radius, next_id)
           r1 == IF t = "INTERIM" THEN ListDel(r0, t, a) ELSE r0
           Free(r) == /\ Shape(r) /\ Signed(r) /\ HasTimer(r)
                      /\ \A i \in DOMAIN r.msgs : r.msgs[i].id # next_id
                      /\ t = "INTERIM" => \A i \in DOMAIN r.msgs :
                           ~ (r.msgs[i].type = "INTERIM" /\ r.msgs[i].addr = a)
<1>1. Idle /\ pc = "idle" /\ next_id \in 0 .. NumIds - 1
  BY DEF Inv, Request
<1>2. k \in Class
  BY DEF ClassOf, Class
<1>3. /\ Shape(r0) /\ Signed(r0) /\ HasTimer(r0)
      /\ \A i \in DOMAIN r0.msgs : r0.msgs[i].id # next_id
  BY <1>1, GetIdKeeps DEF Idle
<1>4. Free(r1)
  <2>1. CASE t = "INTERIM"
    <3> DEFINE q == ListDel(r0, t, a)
    <3>1. /\ Serves(q, r0) /\ Sublist(q.msgs, r0.msgs) /\ r1 = q
          /\ \A n \in DOMAIN q.msgs : ~ (q.msgs[n].type = t /\ q.msgs[n].addr = a)
      BY <1>3, <2>1, ListDelServes
    <3> HIDE DEF q, r1, r0
    <3>2. Shape(q) /\ Signed(q) /\ HasTimer(q)
      BY <1>3, <3>1 DEF Serves, Follows
    <3>3. q.msgs \in Seq(Entry) /\ r0.msgs \in Seq(Entry)
      BY <1>3, <3>2 DEF Shape, Data
    <3>4. \A i \in DOMAIN q.msgs : q.msgs[i].id # next_id
      <4>1. \A x : (\A i \in DOMAIN r0.msgs : r0.msgs[i].id # x)
                   => \A i \in DOMAIN q.msgs : q.msgs[i].id # x
        BY <3>1, <3>3, SublistKeeps
      <4> QED  BY <1>3, <4>1
    <3> QED  BY <2>1, <3>1, <3>2, <3>4
  <2>2. CASE t # "INTERIM"
    BY <1>3, <2>2
  <2> QED  BY <2>1, <2>2
<1>5. ASSUME NEW r, Free(r), NEW q, Serves(q, r), q.msgs = r.msgs PROVE Free(q)
  BY <1>5 DEF Serves, Follows
<1>6. PICK r \in Opened(r1, k) :
        \/ radius' = r
        \/ radius' = ListAdd(r, t, a, next_id)
        \/ \E s \in SendError(r, k) : radius' = ListAdd(s, t, a, next_id)
  BY DEF Request
<1> HIDE DEF r1, k
<1>7. Free(r)
  <2>1. Serves(r, r1) /\ r.msgs = r1.msgs
    BY <1>2, <1>4, OpenedServes
  <2> QED  BY <1>4, <1>5, <2>1
<1>8. ASSUME NEW s, Free(s), radius' = ListAdd(s, t, a, next_id) PROVE Idle'
  <2>1. LET q == ListAdd(s, t, a, next_id) IN Shape(q) /\ Signed(q) /\ HasTimer(q)
    BY <1>1, <1>8, ListAddShape
  <2> QED  BY <1>8, <2>1 DEF Idle
<1>9. ASSUME NEW s \in SendError(r, k) PROVE Free(s)
  <2>1. Serves(s, r) /\ s.msgs = r.msgs
    BY <1>2, <1>7, SendErrorServes
  <2> QED  BY <1>5, <1>7, <2>1
<1>10. Idle'
  <2>1. CASE radius' = r
    BY <1>7, <2>1 DEF Idle
  <2>2. CASE radius' = ListAdd(r, t, a, next_id)
    BY <1>7, <1>8, <2>2
  <2>3. CASE \E s \in SendError(r, k) : radius' = ListAdd(s, t, a, next_id)
    BY <1>8, <1>9, <2>3
  <2> QED  BY <1>6, <2>1, <2>2, <2>3
<1>11. next_id' \in 0 .. NumIds - 1 /\ UNCHANGED loop
  BY <1>1, NextId DEF Request
<1> QED  BY <1>1, <1>10, <1>11, IdleStep

LEMMA AbandonInv ==
  ASSUME Inv, Abandon
  PROVE  Inv'
<1>1. Idle /\ pc = "idle" /\ next_id \in 0 .. NumIds - 1
  BY DEF Inv, Abandon
<1>2. LET q == GetId(radius, next_id) IN Shape(q) /\ Signed(q) /\ HasTimer(q)
  BY <1>1, GetIdKeeps DEF Idle
<1>3. radius' = GetId(radius, next_id) /\ UNCHANGED loop /\ next_id' \in 0 .. NumIds - 1
  BY <1>1, NextId DEF Abandon
<1>4. Idle'
  BY <1>2, <1>3 DEF Idle
<1> QED  BY <1>1, <1>3, <1>4, IdleStep

\* A callback that only removes requests.
LEMMA RemoveInv ==
  ASSUME Inv, pc = "idle", NEW gone \in SUBSET DOMAIN radius.msgs,
         radius' = Removed(radius, gone), UNCHANGED <<next_id, loop>>
  PROVE  Inv'
<1>1. Idle /\ next_id \in 0 .. NumIds - 1
  BY DEF Inv
<1>2. Serves(radius', radius)
  BY <1>1, RemovedServes DEF Idle
<1>3. Idle'
  BY <1>1, <1>2 DEF Idle, Serves, Follows
<1> QED  BY <1>1, <1>3, IdleStep

LEMMA ReceiveInv ==
  ASSUME Inv, NEW k, NEW id, Receive(k, id)
  PROVE  Inv'
<1> DEFINE match == {i \in DOMAIN radius.msgs :
                       radius.msgs[i].id = id /\ ClassOf(radius.msgs[i].type) = k}
<1>1. radius.msgs \in Seq(Entry) /\ DOMAIN radius.msgs \subseteq Nat
  BY DEF Inv, Receive, Idle, Shape, Data
<1>2. match # {} /\ match \subseteq Nat /\ match \subseteq DOMAIN radius.msgs
  BY <1>1 DEF Receive
<1>3. pc = "idle" /\ radius' = Removed(radius, {Min(match)}) /\ UNCHANGED <<next_id, loop>>
  BY DEF Receive
<1> HIDE DEF match
<1>4. {Min(match)} \in SUBSET DOMAIN radius.msgs
  BY <1>2, MinElement
<1> QED  BY <1>3, <1>4, RemoveInv

LEMMA FlushAuthInv ==
  ASSUME Inv, NEW a, FlushAuth(a)
  PROVE  Inv'
<1>1. OfSta(radius, "AUTH", a) \in SUBSET DOMAIN radius.msgs
  BY DEF OfSta, OfType
<1>2. pc = "idle" /\ radius' = Removed(radius, OfSta(radius, "AUTH", a)) /\ UNCHANGED <<next_id, loop>>
  BY DEF FlushAuth
<1> QED  BY <1>1, <1>2, RemoveInv

LEMMA FlushInv ==
  ASSUME Inv, Flush
  PROVE  Inv'
<1> DEFINE r == radius
           q == [r EXCEPT !.msgs = <<>>, !.num_msgs = r.num_msgs - Len(r.msgs), !.timers = {}]
<1>1. /\ pc = "idle" /\ next_id \in 0 .. NumIds - 1 /\ UNCHANGED <<next_id, loop>>
      /\ radius' = q /\ Shape(r)
  BY DEF Inv, Flush, Idle
<1>2. /\ r \in Data /\ r.msgs \in Seq(Entry) /\ Len(r.msgs) \in Nat /\ r.num_msgs \in Nat
      /\ Len(r.msgs) <= r.num_msgs /\ r.num_msgs <= MAX_ENTRIES
  BY <1>1 DEF Shape, Data
<1>3. r.num_msgs - Len(r.msgs) \in Nat /\ r.num_msgs - Len(r.msgs) <= MAX_ENTRIES
  BY <1>2, LimitAssumption
<1>4. /\ q \in Data /\ q.msgs = <<>> /\ q.num_msgs = r.num_msgs - Len(r.msgs)
      /\ SameServers(q, r)
  <2>1. <<>> \in Seq(Entry) /\ {} \in SUBSET Nat
    OBVIOUS
  <2> QED  BY <1>2, <1>3, <2>1 DEF Data, SameServers
<1> HIDE DEF q
<1>5. DOMAIN q.msgs = {} /\ Len(q.msgs) = 0
  BY <1>4
<1>6. Unique(q.msgs) /\ Interim(q.msgs) /\ SignedBy(q.msgs, Secret["auth"][q.server["auth"]])
  BY <1>5 DEF Unique, Interim, SignedBy
<1>7. Len(q.msgs) <= q.num_msgs /\ q.num_msgs <= MAX_ENTRIES
  BY <1>3, <1>4, <1>5
<1>8. Shape(q)
  BY <1>1, <1>4, <1>6, <1>7 DEF Shape, SameServers
<1>9. Idle'
  BY <1>1, <1>4, <1>6, <1>8 DEF Idle, HasTimer, Signed
<1> QED  BY <1>1, <1>9, IdleStep

LEMMA RetryPrimaryInv ==
  ASSUME Inv, RetryPrimary
  PROVE  Inv'
<1>1. pc = "idle" /\ Idle /\ next_id \in 0 .. NumIds - 1 /\ UNCHANGED <<next_id, loop>>
  BY DEF Inv, RetryPrimary
<1>2. PICK r \in BackToPrimary(radius, "auth") : radius' \in BackToPrimary(r, "acct")
  BY DEF RetryPrimary
<1>3. "auth" \in Class /\ "acct" \in Class
  BY DEF Class
<1>4. Serves(r, radius) /\ Shape(r)
  BY <1>1, <1>2, <1>3, BackToPrimaryServes DEF Idle, Serves, Follows
<1>5. Serves(radius', r)
  BY <1>2, <1>3, <1>4, BackToPrimaryServes
<1>6. Idle'
  BY <1>1, <1>4, <1>5 DEF Idle, Serves, Follows
<1> QED  BY <1>1, <1>6, IdleStep

LEMMA TickInv ==
  ASSUME Inv, Tick
  PROVE  Inv'
<1> DEFINE r == radius
           L == [i \in DOMAIN r.msgs |-> Older(r.msgs[i])]
           T == {Later(n) : n \in r.timers}
           s == [r EXCEPT !.msgs = L]
           q == [s EXCEPT !.timers = T]
<1>1. pc = "idle" /\ Idle /\ next_id \in 0 .. NumIds - 1 /\ UNCHANGED <<next_id, loop>>
  BY DEF Inv, Tick
<1>2. /\ r \in Data /\ r.msgs \in Seq(Entry) /\ r.timers \in SUBSET Nat
      /\ Len(r.msgs) \in Nat /\ DOMAIN r.msgs = 1 .. Len(r.msgs)
      /\ \A i \in DOMAIN r.msgs : r.msgs[i] \in Entry
  BY <1>1 DEF Idle, Shape, Data
<1>3. ASSUME NEW e \in Entry
      PROVE  /\ Older(e) \in Entry /\ Older(e).type = e.type /\ Older(e).addr = e.addr
             /\ Older(e).id = e.id /\ Older(e).secret = e.secret
  <2>1. e.due \in 0 .. MAX_WAIT /\ e.fresh \in 0 .. FIRST_WAIT
    BY DEF Entry
  <2>2. Later(e.due) \in 0 .. MAX_WAIT /\ Later(e.fresh) \in 0 .. FIRST_WAIT
    BY <2>1, LimitAssumption DEF Later
  <2> QED  BY <2>2 DEF Entry, Older
<1>4. DOMAIN L = DOMAIN r.msgs /\ \A i \in DOMAIN L :
        /\ L[i] \in Entry
        /\ L[i].type = r.msgs[i].type /\ L[i].addr = r.msgs[i].addr /\ L[i].id = r.msgs[i].id
        /\ L[i].type = "AUTH" => L[i].secret = r.msgs[i].secret
  BY <1>2, <1>3
<1>5. L \in Seq(Entry)
  <2>1. L \in [1 .. Len(r.msgs) -> Entry]
    BY <1>2, <1>4
  <2> QED  BY <1>2, <2>1, IsSequence
<1>6. radius' = q
  <2>1. radius' = [r EXCEPT !.timers = T, !.msgs = L]
    BY DEF Tick
  <2> HIDE DEF L, T
  <2> QED  BY <1>2, <2>1 DEF Data
<1>7. T \in SUBSET Nat /\ (r.timers # {} => T # {})
  BY <1>2 DEF Later
<1> HIDE DEF L, T
<1>8. Follows(s, r) /\ s.server = r.server /\ s.msgs = L /\ s.timers = r.timers
  BY <1>1, <1>4, <1>5, SameEntries DEF Idle, SameServers
<1> HIDE DEF s
<1>9. Shape(s) /\ Signed(s) /\ HasTimer(s)
  BY <1>1, <1>8, SublistSigned DEF Idle, Follows
<1>10. Shape(q) /\ Signed(q) /\ q.msgs = s.msgs /\ q.timers = T
  BY <1>7, <1>9, TimersChanged
<1> HIDE DEF q
<1>11. HasTimer(q)
  BY <1>7, <1>8, <1>9, <1>10 DEF HasTimer
<1>12. Idle'
  BY <1>6, <1>10, <1>11 DEF Idle
<1> QED  BY <1>1, <1>12, IdleStep
-----------------------------------------------------------------------------
(***************************************************************************)
(* radius_client_timer.                                                    *)
(***************************************************************************)
LEMMA LoopStep ==
  ASSUME Inv, pc = "loop", UNCHANGED <<next_id, pc>>, Looping'
  PROVE  Inv'
BY DEF Inv

LEMMA TimerStartInv ==
  ASSUME Inv, TimerStart
  PROVE  Inv'
<1> DEFINE T == radius.timers \ {0}
           q == [radius EXCEPT !.timers = T]
<1>1. Idle /\ next_id \in 0 .. NumIds - 1 /\ next_id' = next_id
  BY DEF Inv, TimerStart
<1>2. T \in SUBSET Nat
  BY <1>1 DEF Idle, Shape, Data
<1>3. radius' = q /\ entry' = 1 /\ first' = -1
      /\ pc' = IF radius.msgs = <<>> THEN "idle" ELSE "loop"
  BY DEF TimerStart
<1> HIDE DEF T
<1>4. Shape(q) /\ Signed(q) /\ q.msgs = radius.msgs
  BY <1>1, <1>2, TimersChanged DEF Idle
<1> HIDE DEF q
<1>5. CASE radius.msgs = <<>>
  <2>1. Idle'
    BY <1>3, <1>4, <1>5 DEF Idle, HasTimer
  <2> QED  BY <1>1, <1>3, <1>5, <2>1 DEF Inv
<1>6. CASE radius.msgs # <<>>
  <2>1. radius'.msgs \in Seq(Entry) /\ Len(radius'.msgs) \in Nat
    BY <1>3, <1>4 DEF Shape, Data
  <2>2. Looping'
    BY <1>3, <1>4, <2>1, LimitAssumption DEF Looping
  <2> QED  BY <1>1, <1>3, <1>6, <2>2 DEF Inv
<1> QED  BY <1>5, <1>6

\* The entry stays: the loop knows when it is due.
LEMMA NoteLooping ==
  ASSUME NEW r, Shape(r), Signed(r), NEW p \in DOMAIN r.msgs,
         first \in -1 .. MAX_WAIT, Note(r, p)
  PROVE  Looping'
<1> DEFINE e == r.msgs[p]
<1>1. r.msgs \in Seq(Entry) /\ e \in Entry /\ Len(r.msgs) \in Nat /\ p \in 1 .. Len(r.msgs)
  BY DEF Shape, Data
<1>2. e.due \in 0 .. MAX_WAIT
  BY <1>1 DEF Entry
<1>3. radius' = r /\ entry' = p + 1 /\ first' = IF first = -1 \/ e.due < first THEN e.due ELSE first
  BY DEF Note
<1> HIDE DEF e
<1>4. first' \in 0 .. MAX_WAIT
  BY <1>2, <1>3, LimitAssumption
<1>5. first' \in -1 .. MAX_WAIT /\ first' # -1 /\ entry' \in 1 .. Len(radius'.msgs) + 1
  BY <1>1, <1>3, <1>4, LimitAssumption
<1> QED  BY <1>3, <1>5 DEF Looping

\* The entry is removed: the next one is at its position.
LEMMA DropLooping ==
  ASSUME NEW r, Shape(r), Signed(r), NEW p \in DOMAIN r.msgs, p = entry,
         first \in -1 .. MAX_WAIT, first = -1 => entry = 1, Drop(r, p)
  PROVE  Looping'
<1>1. radius' = Removed(r, {p}) /\ entry' = entry /\ first' = first
  BY DEF Drop
<1>2. Cardinality({p}) = 1
  BY FS_Singleton
<1>3. {p} \in SUBSET DOMAIN r.msgs
  OBVIOUS
<1>4. Serves(radius', r) /\ Len(radius'.msgs) = Len(r.msgs) - 1
  <2>1. Serves(radius', r)
    BY <1>1, <1>3, RemovedServes
  <2>2. Len(radius'.msgs) = Len(r.msgs) - Cardinality({p})
    BY <1>1, <1>3, RemovedShape
  <2> QED  BY <1>2, <2>1, <2>2
<1>5. Len(r.msgs) \in Nat /\ p \in 1 .. Len(r.msgs)
  BY DEF Shape, Data
<1>6. entry' \in 1 .. Len(radius'.msgs) + 1
  BY <1>1, <1>4, <1>5
<1>7. Shape(radius') /\ Signed(radius')
  BY <1>4 DEF Serves, Follows
<1> QED  BY <1>1, <1>6, <1>7 DEF Looping

LEMMA BackoffOrDropLooping ==
  ASSUME NEW r, Shape(r), Signed(r), NEW p \in DOMAIN r.msgs, p = entry,
         first \in -1 .. MAX_WAIT, first = -1 => entry = 1, BackoffOrDrop(r, p)
  PROVE  Looping'
<1>1. CASE Drop(r, p)
  BY <1>1, DropLooping
<1>2. CASE Note(Backoff(r, p), p)
  <2> DEFINE q == Backoff(r, p)
  <2>1. Shape(q) /\ Len(q.msgs) = Len(r.msgs) /\ Signed(q)
    BY BackoffChanged
  <2> HIDE DEF q
  <2>2. p \in DOMAIN q.msgs
    BY <2>1 DEF Shape, Data
  <2>3. Note(q, p)
    BY <1>2 DEF q
  <2> QED  BY <2>1, <2>2, <2>3, NoteLooping
<1> QED  BY <1>1, <1>2 DEF BackoffOrDrop

LEMMA RetransmitLooping ==
  ASSUME Looping, entry \in DOMAIN radius.msgs, Retransmit(entry)
  PROVE  Looping'
<1> DEFINE p == entry
           k == ClassOf(radius.msgs[p].type)
           Sent(r) == [r EXCEPT !.msgs[p].attempts = @ + 1]
<1>1. PICK r \in Prepared(radius, k) :
        \/ r.num_msgs # radius.num_msgs /\ Restart(r)
        \/ r.num_msgs = radius.num_msgs /\ Drop(r, p)
        \/ r.num_msgs = radius.num_msgs /\ BackoffOrDrop(Sent(r), p)
        \/ /\ r.num_msgs = radius.num_msgs
           /\ \E s \in SendError(Sent(r), k) : Note(s, p) \/ BackoffOrDrop(s, p)
  BY DEF Retransmit
<1>2. k \in Class
  BY DEF ClassOf, Class
<1> HIDE DEF k
<1>3. Shape(r) /\ Signed(r) /\ (r.num_msgs = radius.num_msgs => Len(r.msgs) = Len(radius.msgs))
  BY <1>2, PreparedServes DEF Looping, Serves, Follows
<1>4. r.num_msgs = radius.num_msgs => p \in DOMAIN r.msgs
  BY <1>3 DEF Looping, Shape, Data
<1>5. CASE r.num_msgs # radius.num_msgs /\ Restart(r)
  <2>1. radius' = r /\ entry' = 1 /\ first' = first /\ Len(r.msgs) \in Nat
    BY <1>3, <1>5 DEF Restart, Shape, Data
  <2> QED  BY <1>3, <2>1 DEF Looping
<1>6. CASE r.num_msgs = radius.num_msgs /\ Drop(r, p)
  BY <1>3, <1>4, <1>6, DropLooping DEF Looping
<1> DEFINE sent == Sent(r)
<1>7. ASSUME r.num_msgs = radius.num_msgs
      PROVE  Shape(sent) /\ Signed(sent) /\ p \in DOMAIN sent.msgs
  <2>1. Shape(sent) /\ Signed(sent) /\ Len(sent.msgs) = Len(r.msgs)
    BY <1>3, <1>4, <1>7, SentChanged
  <2> HIDE DEF sent
  <2> QED  BY <1>3, <1>4, <1>7, <2>1 DEF Shape, Data
<1> HIDE DEF sent
<1>8. CASE r.num_msgs = radius.num_msgs /\ BackoffOrDrop(sent, p)
  BY <1>7, <1>8, BackoffOrDropLooping DEF Looping
<1>9. CASE /\ r.num_msgs = radius.num_msgs
           /\ \E s \in SendError(sent, k) : Note(s, p) \/ BackoffOrDrop(s, p)
  <2>1. PICK s \in SendError(sent, k) : Note(s, p) \/ BackoffOrDrop(s, p)
    BY <1>9
  <2>2. Shape(s) /\ Signed(s) /\ p \in DOMAIN s.msgs
    BY <1>2, <1>7, <1>9, SendErrorServes DEF Serves, Follows
  <2>3. CASE Note(s, p)
    BY <2>2, <2>3, NoteLooping DEF Looping
  <2>4. CASE BackoffOrDrop(s, p)
    BY <2>2, <2>4, BackoffOrDropLooping DEF Looping
  <2> QED  BY <2>1, <2>3, <2>4
<1> QED  BY <1>1, <1>5, <1>6, <1>8, <1>9 DEF sent

LEMMA TimerEntryInv ==
  ASSUME Inv, TimerEntry
  PROVE  Inv'
<1>1. pc = "loop" /\ Looping /\ UNCHANGED <<next_id, pc>>
  BY DEF Inv, TimerEntry
<1>2. entry \in DOMAIN radius.msgs
  BY <1>1 DEF TimerEntry, Looping, Shape, Data
<1>3. CASE Retransmit(entry)
  BY <1>1, <1>2, <1>3, LoopStep, RetransmitLooping
<1>4. CASE Note(radius, entry)
  BY <1>1, <1>2, <1>4, LoopStep, NoteLooping DEF Looping
<1> QED  BY <1>3, <1>4 DEF TimerEntry

\* The loop has passed every entry that is left: it knows when the first is due.
LEMMA TimerEndInv ==
  ASSUME Inv, TimerEnd
  PROVE  Inv'
<1> DEFINE T == radius.timers \cup {first}
           q == [radius EXCEPT !.timers = T]
           r == IF radius.msgs = <<>> THEN radius ELSE q
<1>1. Looping /\ entry > Len(radius.msgs) /\ pc' = "idle" /\ next_id' = next_id
      /\ next_id \in 0 .. NumIds - 1
  BY DEF Inv, TimerEnd
<1>2. PICK a \in FailoverIf(r, "auth") : radius' \in FailoverIf(a, "acct")
  BY DEF TimerEnd
<1>3. Shape(r) /\ Signed(r) /\ HasTimer(r)
  <2>1. CASE radius.msgs = <<>>
    BY <1>1, <2>1 DEF Looping, HasTimer
  <2>2. CASE radius.msgs # <<>>
    <3>1. radius.msgs \in Seq(Entry) /\ radius.timers \in SUBSET Nat
      BY <1>1 DEF Looping, Shape, Data
    <3>2. Len(radius.msgs) \in Nat /\ Len(radius.msgs) # 0
      BY <2>2, <3>1
    <3>3. first \in Nat
      BY <1>1, <3>2, LimitAssumption DEF Looping
    <3>4. T \in SUBSET Nat /\ T # {} /\ r = q
      BY <2>2, <3>1, <3>3
    <3> HIDE DEF T, r
    <3>5. Shape(q) /\ Signed(q) /\ q.timers = T
      BY <1>1, <3>4, TimersChanged DEF Looping
    <3> HIDE DEF q
    <3> QED  BY <3>4, <3>5 DEF HasTimer
  <2> QED  BY <2>1, <2>2
<1> HIDE DEF r
<1>4. "auth" \in Class /\ "acct" \in Class
  BY DEF Class
<1>5. Serves(a, r) /\ Shape(a)
  BY <1>2, <1>3, <1>4, FailoverIfServes DEF Serves, Follows
<1>6. Serves(radius', a)
  BY <1>2, <1>4, <1>5, FailoverIfServes
<1>7. Idle'
  BY <1>3, <1>5, <1>6 DEF Idle, Serves, Follows
<1> QED  BY <1>1, <1>7 DEF Inv
-----------------------------------------------------------------------------
(***************************************************************************)
(* The theorems.                                                           *)
(***************************************************************************)
LEMMA NextInv ==
  ASSUME Inv, [Next]_vars
  PROVE  Inv'
<1>1. ASSUME NEW t \in RadiusType, NEW a \in Addrs, Request(t, a) PROVE Inv'
  BY <1>1, RequestInv
<1>2. CASE Abandon
  BY <1>2, AbandonInv
<1>3. ASSUME NEW k \in Class, NEW id \in 0 .. NumIds - 1, Receive(k, id) PROVE Inv'
  BY <1>3, ReceiveInv
<1>4. ASSUME NEW a \in Addrs, FlushAuth(a) PROVE Inv'
  BY <1>4, FlushAuthInv
<1>5. CASE Flush
  BY <1>5, FlushInv
<1>6. CASE RetryPrimary
  BY <1>6, RetryPrimaryInv
<1>7. CASE Tick
  BY <1>7, TickInv
<1>8. CASE Timer
  BY <1>8, TimerStartInv, TimerEntryInv, TimerEndInv DEF Timer
<1>9. CASE UNCHANGED vars
  BY <1>9 DEF vars, loop, Inv, Idle, Looping
<1> QED  BY <1>1, <1>2, <1>3, <1>4, <1>5, <1>6, <1>7, <1>8, <1>9 DEF Next

\* Between two callbacks of the event loop the list of pending requests has a
\* timeout; inside radius_client_timer the loop knows when the entries it has
\* passed are due.
THEOREM InvHolds == Spec => []Inv
<1>1. Init => Inv
  BY InitInv
<1>2. Inv /\ [Next]_vars => Inv'
  BY NextInv
<1> QED  BY <1>1, <1>2, PTL DEF Spec

\* In every state of the invariant the struct has its shape.
LEMMA InvShape ==
  ASSUME Inv
  PROVE  Shape(radius) /\ Signed(radius)
BY DEF Inv, Idle, Looping

\* radius_client.c never has more requests in the list than it counts, nor counts
\* more than RADIUS_CLIENT_MAX_ENTRIES or less than none; the loop of
\* radius_client_timer never goes past the end of the list.
THEOREM TypeCorrect == Spec => []TypeOK
<1>1. ASSUME Inv PROVE TypeOK
  <2>1. Shape(radius) /\ radius.msgs \in Seq(Entry)
    BY <1>1, InvShape DEF Shape, Data
  <2>2. \A i \in DOMAIN radius.msgs : radius.msgs[i] \in Entry
    BY <2>1
  <2>3. \A e \in Entry :
          /\ e.type \in RadiusType /\ e.addr \in Addrs /\ e.id \in 0 .. NumIds - 1
          /\ e.attempts \in Nat /\ e.due \in 0 .. MAX_WAIT /\ e.wait \in 0 .. MAX_WAIT
    BY DEF Entry
  <2>4. pc = "loop" => entry \in 1 .. Len(radius.msgs) + 1
    BY <1>1 DEF Inv, Looping
  <2> QED  BY <2>1, <2>2, <2>3, <2>4 DEF TypeOK, msgs, Shape
<1> QED  BY <1>1, InvHolds, PTL

\* radius_client_get_id: no two pending requests have one identifier.
THEOREM UniqueIdsCorrect == Spec => []UniqueIds
<1>1. Inv => UniqueIds
  BY InvShape DEF Shape, Unique, UniqueIds, msgs
<1> QED  BY <1>1, InvHolds, PTL

\* Whatever the callbacks, sockets and failovers did, a pending request has a
\* timeout that retransmits it or gives it up.
THEOREM ArmedCorrect == Spec => []Armed
<1>1. Inv => Armed
  BY DEF Inv, Idle, HasTimer, Armed, msgs
<1> QED  BY <1>1, InvHolds, PTL

\* radius_client_send: an interim update replaces the pending one of its station.
THEOREM OneInterimCorrect == Spec => []OneInterim
<1>1. Inv => OneInterim
  BY InvShape DEF Shape, Interim, OneInterim, msgs
<1> QED  BY <1>1, InvHolds, PTL

\* radius_change_server: a pending authentication request was made with the
\* secret of the server in use.
THEOREM SignedAuthCorrect == Spec => []SignedAuth
<1>1. Inv => SignedAuth
  BY InvShape DEF Signed, SignedBy, SignedAuth, msgs
<1> QED  BY <1>1, InvHolds, PTL
=============================================================================
