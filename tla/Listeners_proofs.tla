-------------------------- MODULE Listeners_proofs --------------------------
(***************************************************************************)
(* Proofs about what the process tells others: the streams of the pages,   *)
(* for any number of pages, tables, events, drops and restarts; the log    *)
(* and its page, for any lines, files, failures and ends; and the samples  *)
(* and the watchdog, for any passes at once and any steps of the clock.    *)
(***************************************************************************)
EXTENDS MCService, TLAPS, SequenceTheorems, FiniteSetTheorems, WellFoundedInduction

-----------------------------------------------------------------------------
(* Induction, over numbers and over the places of a sequence: a set of     *)
(* naturals has a least member.                                            *)

LEMMA Least ==
  ASSUME NEW T, T \subseteq Nat, T # {}
  PROVE  \E x \in T : \A y \in T : x <= y
<1>1. PICK x \in T : \A y \in T : ~ (<<y, x>> \in OpToRel(<, Nat))
  BY NatLessThanWellFounded, WFMin, Zenon
<1>2. \A y \in T : ~(y < x)
  BY <1>1, Zenon DEF OpToRel
<1>3. \A y \in T : x <= y
  BY <1>2
<1> QED
  BY <1>3, Zenon

Follow(s, S, g, m) == IF m = 0 THEN <<>> ELSE IF s[m] \in S THEN Append(g[m - 1], s[m]) ELSE g[m - 1]

LEMMA FollowExists ==
  ASSUME NEW s, NEW S, NEW L \in Nat
  PROVE  \E g : g = [m \in 0..L |-> Follow(s, S, g, m)]
<1> DEFINE Is(n) == \E g : g = [m \in 0..n |-> Follow(s, S, g, m)]
<1> DEFINE T == {n \in Nat : ~Is(n)}
<1>1. Is(0)
  <2> DEFINE g == [m \in 0..0 |-> <<>>]
  <2>1. g = [m \in 0..0 |-> Follow(s, S, g, m)]
    BY DEF Follow
  <2> QED
    BY <2>1
<1>2. ASSUME NEW n \in Nat, Is(n) PROVE Is(n + 1)
  <2>1. PICK g : g = [m \in 0..n |-> Follow(s, S, g, m)]
    BY <1>2
  <2> DEFINE h == [m \in 0..(n + 1) |-> Follow(s, S, g, m)]
  <2>2. ASSUME NEW m \in 0..(n + 1) PROVE Follow(s, S, g, m) = Follow(s, S, h, m)
    <3>1. m # 0 => m - 1 \in 0..n /\ m - 1 \in 0..(n + 1)
      OBVIOUS
    <3>2. m # 0 => g[m - 1] = h[m - 1]
      BY <2>1, <3>1
    <3> QED
      BY <3>2 DEF Follow
  <2>3. h = [m \in 0..(n + 1) |-> Follow(s, S, h, m)]
    BY <2>2
  <2> QED
    BY <2>3
<1> HIDE DEF Is
<1>3. T = {}
  <2> SUFFICES ASSUME T # {} PROVE FALSE
    OBVIOUS
  <2>1. PICK x \in T : \A y \in T : x <= y
    BY Least
  <2>2. x # 0
    BY <1>1
  <2>3. x - 1 \in Nat /\ x - 1 \notin T
    BY <2>1, <2>2
  <2> QED
    BY <1>2, <2>3
<1>4. Is(L)
  BY <1>3
<1> QED
  BY <1>4 DEF Is

\* what is picked, and from where: the places kept are in their order
Places(s, S, n, r, h) ==
    /\ h \in [1..Len(r) -> 1..n]
    /\ \A i \in 1..Len(r) : r[i] = s[h[i]] /\ s[h[i]] \in S
    /\ \A i, j \in 1..Len(r) : i < j => h[i] < h[j]
    /\ \A m \in 1..n : s[m] \in S => \E i \in 1..Len(r) : h[i] = m

LEMMA PickedIs ==
  ASSUME NEW X, NEW s \in Seq(X), NEW S
  PROVE  /\ Bus!Picked(s, S) \in Seq(X)
         /\ \E h : Places(s, S, Len(s), Bus!Picked(s, S), h)
<1> DEFINE f == CHOOSE g : g = [m \in 0..Len(s) |-> Follow(s, S, g, m)]
<1>1. Bus!Picked(s, S) = f[Len(s)]
  BY DEF Bus!Picked, Follow
<1>2. Len(s) \in Nat
  OBVIOUS
<1>3. f = [m \in 0..Len(s) |-> Follow(s, S, f, m)]
  BY <1>2, FollowExists, Zenon
<1> HIDE DEF f
<1> DEFINE Good(n) == f[n] \in Seq(X) /\ \E h : Places(s, S, n, f[n], h)
<1> DEFINE T == {n \in 0..Len(s) : ~Good(n)}
<1>4. Good(0)
  <2>1. f[0] = <<>>
    BY <1>2, <1>3 DEF Follow
  <2> DEFINE h == [i \in 1..0 |-> 0]
  <2>2. Places(s, S, 0, <<>>, h)
    BY DEF Places
  <2> QED
    BY <2>1, <2>2
<1>5. ASSUME NEW n \in 1..Len(s), Good(n - 1) PROVE Good(n)
  <2>1. f[n] = IF s[n] \in S THEN Append(f[n - 1], s[n]) ELSE f[n - 1]
    <3>1. n \in 0..Len(s) /\ n # 0
      BY <1>2
    <3>2. f[n] = Follow(s, S, f, n)
      BY <1>3, <3>1, Zenon
    <3> QED
      BY <3>1, <3>2, Zenon DEF Follow
  <2> DEFINE r == f[n - 1]
  <2>2. PICK h : r \in Seq(X) /\ Places(s, S, n - 1, r, h)
    BY <1>5
  <2> HIDE DEF r
  <2>3. CASE s[n] \in S
    <3> DEFINE k == [i \in 1..(Len(r) + 1) |-> IF i = Len(r) + 1 THEN n ELSE h[i]]
    <3>1. s[n] \in X /\ Len(r) \in Nat
      BY <2>2
    <3>2. /\ Append(r, s[n]) \in Seq(X) /\ Len(Append(r, s[n])) = Len(r) + 1
          /\ \A i \in 1..Len(r) : Append(r, s[n])[i] = r[i]
          /\ Append(r, s[n])[Len(r) + 1] = s[n]
      BY <2>2, <3>1, AppendProperties
    <3>3. k \in [1..(Len(r) + 1) -> 1..n]
      BY <2>2, <3>1 DEF Places
    <3>4. ASSUME NEW i \in 1..(Len(r) + 1) PROVE Append(r, s[n])[i] = s[k[i]] /\ s[k[i]] \in S
      BY <2>2, <2>3, <3>1, <3>2 DEF Places
    <3>5. ASSUME NEW i \in 1..(Len(r) + 1), NEW j \in 1..(Len(r) + 1), i < j PROVE k[i] < k[j]
      <4>1. i \in 1..Len(r) /\ k[i] = h[i] /\ h[i] \in 1..(n - 1)
        BY <2>2, <3>1, <3>5 DEF Places
      <4>2. CASE j = Len(r) + 1
        <5>1. k[j] = n
          BY <4>2
        <5> QED
          BY <4>1, <5>1
      <4>3. CASE j # Len(r) + 1
        <5>1. j \in 1..Len(r) /\ k[j] = h[j]
          BY <3>1, <4>3
        <5> QED
          BY <2>2, <3>5, <4>1, <5>1 DEF Places
      <4> QED
        BY <4>2, <4>3
    <3>6. ASSUME NEW m \in 1..n, s[m] \in S PROVE \E i \in 1..(Len(r) + 1) : k[i] = m
      <4>1. CASE m = n
        BY <3>1, <4>1
      <4>2. CASE m # n
        <5>1. PICK i \in 1..Len(r) : h[i] = m
          BY <2>2, <3>6, <4>2 DEF Places
        <5>2. k[i] = m /\ i \in 1..(Len(r) + 1)
          BY <3>1, <5>1
        <5> QED
          BY <5>2
      <4> QED
        BY <4>1, <4>2
    <3> HIDE DEF k
    <3>7. Places(s, S, n, Append(r, s[n]), k)
      BY <3>2, <3>3, <3>4, <3>5, <3>6 DEF Places
    <3> QED
      BY <2>1, <2>3, <3>2, <3>7 DEF r
  <2>4. CASE s[n] \notin S
    <3>1. Places(s, S, n, r, h)
      <4>1. h \in [1..Len(r) -> 1..n]
        BY <2>2 DEF Places
      <4>2. ASSUME NEW m \in 1..n, s[m] \in S PROVE m \in 1..(n - 1)
        BY <2>4, <4>2
      <4> QED
        BY <2>2, <4>1, <4>2 DEF Places
    <3> QED
      BY <2>1, <2>2, <2>4, <3>1 DEF r
  <2> QED
    BY <2>3, <2>4
<1> HIDE DEF Good
<1>6. T = {}
  <2> SUFFICES ASSUME T # {} PROVE FALSE
    OBVIOUS
  <2>0. T \subseteq Nat
    BY <1>2
  <2>1. PICK x \in T : \A y \in T : x <= y
    BY Least, <2>0, Zenon
  <2>2. x # 0 /\ x \in 0..Len(s)
    BY <1>4, <1>2
  <2>3. x - 1 \in 0..Len(s) /\ x - 1 \notin T
    BY <1>2, <2>1, <2>2
  <2> QED
    BY <1>2, <1>5, <2>2, <2>3
<1>7. Good(Len(s))
  BY <1>2, <1>6
<1> QED
  BY <1>1, <1>7 DEF Good

-----------------------------------------------------------------------------
(* The event bus.  Earlier is how many events earlier processes published: *)
(* a serial is that and an id of this process.                             *)
Kinds == {"lock", "other"}
Event == [id : Nat, kind : Kinds, serial : Nat]
Page == [state : {"off", "connecting", "open", "refused"}, lastId : Nat, shown : Nat,
         heard : SUBSET Nat, since : Nat, epoch : Nat, gap : BOOLEAN, behind : BOOLEAN]
Asking == Nat \cup {-1}
Earlier == Len(published) + 1 - nextId
DueOf(r) == {s \in 1..Len(published) : published[s] = "lock" /\ s > r.since}

BusTypes ==
    /\ table \in Nat /\ published \in Seq(Kinds) /\ nextId \in Nat \ {0} /\ restarts \in Nat
    /\ Earlier \in Nat /\ table <= Len(published) /\ Len(published) <= MaxEvents
    /\ page \in [Pages -> Page] /\ pipe \in [Pages -> Seq(Event)] /\ asks \in [Pages -> Seq(Asking)]
BufferHolds ==
    /\ buffer \in Seq(Event) /\ Len(buffer) <= BufferSize /\ Len(buffer) < nextId
    /\ \A i \in 1..Len(buffer) :
         /\ buffer[i].serial = Len(published) - Len(buffer) + i
         /\ buffer[i].id = nextId - 1 - Len(buffer) + i
         /\ buffer[i].kind = published[buffer[i].serial]
Heard(r) ==
    /\ r.epoch <= restarts /\ r.since <= Len(published) /\ r.heard \subseteq 1..Len(published)
    /\ r.state = "open" => r.epoch = restarts
    /\ r.lastId = 0 => r.heard = {}
    /\ \A s \in r.heard : s <= Earlier \/ (r.epoch = restarts /\ s <= Earlier + r.lastId)
    /\ ~r.gap /\ r.lastId # 0 /\ r.epoch = restarts =>
         /\ r.lastId < nextId
         /\ \A s \in DueOf(r) : s <= Earlier + r.lastId => s \in r.heard
OnTheWay(r, q) ==
    /\ r.state # "open" => q = <<>>
    /\ \A i \in 1..Len(q) :
         /\ q[i].id >= 1 /\ q[i].serial = Earlier + q[i].id /\ q[i].serial <= Len(published)
         /\ \A s \in r.heard : s < q[i].serial
         /\ \A j \in 1..i - 1 : q[j].serial < q[i].serial
    /\ ~r.gap /\ r.state = "open" =>
         \A s \in DueOf(r) : s \in r.heard \/ \E i \in 1..Len(q) : q[i].serial = s
Answers(r, a) ==
    /\ r.shown <= table /\ Len(a) <= MaxAsks /\ \A i \in 1..Len(a) : a[i] <= table
    /\ r.state # "off" /\ ~r.gap /\ ~r.behind /\ DueOf(r) \subseteq r.heard =>
         r.shown = table \/ \E i \in 1..Len(a) : a[i] \in {-1, table}
PageHolds(p) == Heard(page[p]) /\ OnTheWay(page[p], pipe[p]) /\ Answers(page[p], asks[p])
StreamInv ==
    /\ BusTypes /\ BufferHolds /\ \A p \in Pages : PageHolds(p)
    /\ ghosts \in Nat /\ Bus!Streams <= MaxStreams

LEMMA BusCounts ==
    /\ \A S : Bus!Cardinality(S) = Cardinality(S)
    /\ \A S : Bus!IsFiniteSet(S) <=> IsFiniteSet(S)
<1>1. \A S : Bus!Cardinality(S) = Cardinality(S)
  BY DEF Bus!Cardinality, Cardinality
<1>2. \A S : Bus!IsFiniteSet(S) <=> IsFiniteSet(S)
  BY DEF Bus!IsFiniteSet, IsFiniteSet
<1> QED
  BY <1>1, <1>2

LEMMA StreamInit == ASSUME Bus!BoundsAreSound PROVE Bus!Init => StreamInv
<1> SUFFICES ASSUME Bus!Init PROVE StreamInv
  OBVIOUS
<1>1. /\ <<>> \in Seq(Kinds) /\ <<>> \in Seq(Event) /\ <<>> \in Seq(Asking) /\ Len(<<>>) = 0
      /\ Bus!Off \in Page /\ Bus!Off.state = "off" /\ Bus!Off.shown = 0 /\ Bus!Off.heard = {}
      /\ Bus!Off.since = 0 /\ Bus!Off.epoch = 0 /\ Bus!Off.lastId = 0
  BY DEF Bus!Off, Page, Bus!NoId
<1>2. BusTypes /\ BufferHolds
  BY <1>1 DEF Bus!Init, BusTypes, BufferHolds, Earlier, Bus!BoundsAreSound
<1>3. \A p \in Pages : PageHolds(p)
  BY <1>1 DEF Bus!Init, PageHolds, Heard, OnTheWay, Answers, DueOf, Bus!BoundsAreSound
<1>4. Bus!Streams = 0
  <2>1. {p \in Pages : Bus!Open(p)} = {}
    BY <1>1 DEF Bus!Init, Bus!Open
  <2>2. Bus!Cardinality({p \in Pages : Bus!Open(p)}) = 0
    BY <2>1, FS_EmptySet, BusCounts, Zenon
  <2> QED
    BY <2>2 DEF Bus!Streams, Bus!Init
<1> QED
  BY <1>2, <1>3, <1>4 DEF StreamInv, Bus!Init, Bus!BoundsAreSound

LEMMA StreamIsRight ==
    ASSUME Bus!BoundsAreSound, StreamInv
    PROVE  Bus!ResumesWithoutAGap /\ Bus!QuietPageIsCurrent /\ Bus!StreamTypeOK
<1>1. ASSUME NEW p \in Pages
      PROVE  /\ page[p] \in Page /\ pipe[p] \in Seq(Event) /\ Heard(page[p]) /\ OnTheWay(page[p], pipe[p])
             /\ Answers(page[p], asks[p]) /\ asks[p] \in Seq(Asking)
             /\ Bus!Due(p) = DueOf(page[p])
             /\ DOMAIN pipe[p] = 1..Len(pipe[p]) /\ DOMAIN asks[p] = 1..Len(asks[p])
  BY DEF StreamInv, PageHolds, BusTypes, Bus!Due, DueOf
<1>2. Bus!ResumesWithoutAGap
  <2> SUFFICES ASSUME NEW p \in Pages, Bus!Open(p)
               PROVE  /\ ~page[p].gap => Bus!Due(p) \subseteq page[p].heard \cup Bus!Serials(pipe[p])
                      /\ \A i \in DOMAIN pipe[p] :
                           /\ \A s \in page[p].heard : s < pipe[p][i].serial
                           /\ \A j \in 1..i - 1 : pipe[p][j].serial < pipe[p][i].serial
    BY DEF Bus!ResumesWithoutAGap
  <2>1. page[p].state = "open"
    BY DEF Bus!Open
  <2>2. ASSUME ~page[p].gap PROVE Bus!Due(p) \subseteq page[p].heard \cup Bus!Serials(pipe[p])
    BY <1>1, <2>1, <2>2 DEF OnTheWay, Bus!Serials
  <2> QED
    BY <1>1, <2>2 DEF OnTheWay
<1>3. Bus!QuietPageIsCurrent
  <2> SUFFICES ASSUME NEW p \in Pages, Bus!Open(p), pipe[p] = <<>>, asks[p] = <<>>,
                      ~page[p].gap, ~page[p].behind
               PROVE  page[p].shown = table
    BY DEF Bus!QuietPageIsCurrent
  <2>1. page[p].state = "open" /\ Len(pipe[p]) = 0 /\ Len(asks[p]) = 0
    BY DEF Bus!Open
  <2>2. DueOf(page[p]) \subseteq page[p].heard
    BY <1>1, <2>1 DEF OnTheWay
  <2> QED
    BY <1>1, <2>1, <2>2 DEF Answers
<1>4. Bus!StreamTypeOK
  <2>1. table \in 0..MaxEvents
    BY DEF StreamInv, BusTypes, Bus!BoundsAreSound
  <2> QED
    BY <1>1, <2>1 DEF StreamInv, BufferHolds, OnTheWay, Answers, Bus!Open, Bus!StreamTypeOK
<1> QED
  BY <1>2, <1>3, <1>4

LEMMA PageMoves ==
    ASSUME Bus!BoundsAreSound, StreamInv, NEW p \in Pages,
           NEW r \in Page, NEW q \in Seq(Event), NEW a \in Seq(Asking),
           UNCHANGED <<table, published, nextId, buffer, restarts>>,
           page' = [page EXCEPT ![p] = r], pipe' = [pipe EXCEPT ![p] = q],
           asks' = [asks EXCEPT ![p] = a],
           Heard(r), OnTheWay(r, q), Answers(r, a), ghosts' \in Nat,
           \/ ghosts' <= ghosts /\ (r.state # "open" \/ r.state = page[p].state)
           \/ ghosts' <= ghosts + 1 /\ r.state # "open" /\ page[p].state = "open"
           \/ ghosts' = ghosts /\ Bus!Streams < MaxStreams
    PROVE  StreamInv'
<1> DEFINE On == {x \in Pages : page[x].state = "open"}
           On2 == {x \in Pages : page'[x].state = "open"}
<1>1. /\ BusTypes /\ BufferHolds /\ \A x \in Pages : PageHolds(x)
      /\ ghosts \in Nat /\ Bus!Streams <= MaxStreams /\ MaxStreams \in Nat
      /\ IsFiniteSet(Pages)
  BY BusCounts DEF StreamInv, Bus!BoundsAreSound
<1>2. BusTypes'
  BY <1>1 DEF BusTypes, Earlier
<1>3. BufferHolds'
  BY <1>1 DEF BufferHolds
<1>4. ASSUME NEW x \in Pages PROVE PageHolds(x)'
  <2>1. CASE x = p
    <3>1. page'[x] = r /\ pipe'[x] = q /\ asks'[x] = a
      BY <1>1, <2>1 DEF BusTypes
    <3>2. Heard(page[x])'
      BY <3>1 DEF Heard, Earlier, DueOf
    <3>3. OnTheWay(page[x], pipe[x])'
      BY <3>1 DEF OnTheWay, Earlier, DueOf
    <3>4. Answers(page[x], asks[x])'
      BY <3>1 DEF Answers, DueOf
    <3> QED
      BY <3>2, <3>3, <3>4 DEF PageHolds
  <2>2. CASE x # p
    <3>1. page'[x] = page[x] /\ pipe'[x] = pipe[x] /\ asks'[x] = asks[x]
      BY <1>1, <2>2 DEF BusTypes
    <3>0. Heard(page[x]) /\ OnTheWay(page[x], pipe[x]) /\ Answers(page[x], asks[x])
      BY <1>1 DEF PageHolds
    <3>2. Heard(page[x])'
      BY <3>0, <3>1 DEF Heard, Earlier, DueOf
    <3>3. OnTheWay(page[x], pipe[x])'
      BY <3>0, <3>1 DEF OnTheWay, Earlier, DueOf
    <3>4. Answers(page[x], asks[x])'
      BY <3>0, <3>1 DEF Answers, DueOf
    <3> QED
      BY <3>2, <3>3, <3>4 DEF PageHolds
  <2> QED
    BY <2>1, <2>2
<1>5. Bus!Streams = Cardinality(On) + ghosts /\ Bus!Streams' = Cardinality(On2) + ghosts'
  BY BusCounts DEF Bus!Streams, Bus!Open
<1>6. IsFiniteSet(On) /\ Cardinality(On) \in Nat
  BY <1>1, FS_Subset, FS_CardinalityType
<1>7. \A x \in Pages : x # p => page'[x] = page[x]
  BY <1>1 DEF BusTypes
<1>8. page'[p] = r
  BY <1>1 DEF BusTypes
<1>9. Bus!Streams' <= MaxStreams
  <2>1. CASE r.state # "open"
    <3>1. On2 = On \ {p}
      BY <1>7, <1>8, <2>1
    <3>2. Cardinality(On2) = IF p \in On THEN Cardinality(On) - 1 ELSE Cardinality(On)
      BY <1>6, <3>1, FS_RemoveElement
    <3>3. p \in On <=> page[p].state = "open"
      OBVIOUS
    <3> HIDE DEF On, On2
    <3> QED
      BY <1>1, <1>5, <1>6, <2>1, <3>2, <3>3
  <2>2. CASE r.state = "open"
    <3>1. On2 = On \cup {p}
      BY <1>7, <1>8, <2>2
    <3>2. Cardinality(On2) = IF p \in On THEN Cardinality(On) ELSE Cardinality(On) + 1
      BY <1>6, <3>1, FS_AddElement
    <3>3. p \in On <=> page[p].state = "open"
      OBVIOUS
    <3> HIDE DEF On, On2
    <3> QED
      BY <1>1, <1>5, <1>6, <2>2, <3>2, <3>3
  <2> QED
    BY <2>1, <2>2
<1> QED
  BY <1>2, <1>3, <1>4, <1>9 DEF StreamInv

LEMMA Removes ==
    ASSUME NEW X, NEW s \in Seq(X), NEW i \in 1..Len(s)
    PROVE  /\ Bus!RemoveAt(s, i) \in Seq(X) /\ Len(Bus!RemoveAt(s, i)) = Len(s) - 1
           /\ \A k \in 1..Len(s) - 1 : Bus!RemoveAt(s, i)[k] = IF k < i THEN s[k] ELSE s[k + 1]
<1> DEFINE u == SubSeq(s, 1, i - 1)
           v == SubSeq(s, i + 1, Len(s))
<1>1. Len(s) \in Nat /\ i \in Nat /\ \A j \in 1..Len(s) : s[j] \in X
  OBVIOUS
<1>2. /\ u \in Seq(X) /\ Len(u) = i - 1 /\ \A k \in 1..(i - 1) : u[k] = s[k]
  BY <1>1
<1>3. /\ v \in Seq(X) /\ Len(v) = Len(s) - i /\ \A k \in 1..(Len(s) - i) : v[k] = s[i + k]
  BY <1>1
<1>4. Bus!RemoveAt(s, i) = u \o v
  BY DEF Bus!RemoveAt
<1> HIDE DEF u, v
<1>5. /\ u \o v \in Seq(X) /\ Len(u \o v) = Len(s) - 1
      /\ \A k \in 1..Len(s) - 1 : (u \o v)[k] = IF k <= i - 1 THEN u[k] ELSE v[k - (i - 1)]
  <2>1. u \o v \in Seq(X) /\ Len(u \o v) = Len(u) + Len(v)
    BY <1>2, <1>3, ConcatProperties, Zenon
  <2>2. \A k \in 1..Len(u) + Len(v) : (u \o v)[k] = IF k <= Len(u) THEN u[k] ELSE v[k - Len(u)]
    BY <1>2, <1>3
  <2>3. Len(u) + Len(v) = Len(s) - 1 /\ Len(u) = i - 1
    BY <1>1, <1>2, <1>3
  <2> QED
    BY <2>1, <2>2, <2>3
<1>6. ASSUME NEW k \in 1..Len(s) - 1 PROVE (u \o v)[k] = IF k < i THEN s[k] ELSE s[k + 1]
  <2>1. CASE k < i
    BY <1>1, <1>2, <1>5, <2>1
  <2>2. CASE ~(k < i)
    <3>1. k - (i - 1) \in 1..(Len(s) - i) /\ i + (k - (i - 1)) = k + 1
      BY <1>1, <2>2
    <3>2. v[k - (i - 1)] = s[k + 1]
      BY <1>3, <3>1
    <3> QED
      BY <1>1, <1>5, <2>2, <3>2
  <2> QED
    BY <2>1, <2>2
<1> QED
  BY <1>4, <1>5, <1>6

LEMMA PageIs ==
    ASSUME Bus!BoundsAreSound, StreamInv, NEW p \in Pages
    PROVE  /\ page[p] \in Page /\ pipe[p] \in Seq(Event) /\ asks[p] \in Seq(Asking)
           /\ Heard(page[p]) /\ OnTheWay(page[p], pipe[p]) /\ Answers(page[p], asks[p])
           /\ page \in [Pages -> Page] /\ pipe \in [Pages -> Seq(Event)]
           /\ asks \in [Pages -> Seq(Asking)]
           /\ page = [page EXCEPT ![p] = page[p]] /\ pipe = [pipe EXCEPT ![p] = pipe[p]]
           /\ asks = [asks EXCEPT ![p] = asks[p]]
           /\ Len(published) \in Nat /\ table \in Nat /\ nextId \in Nat \ {0} /\ restarts \in Nat
           /\ Earlier \in Nat /\ MaxAsks \in Nat \ {0} /\ ghosts \in Nat
           /\ DOMAIN published = 1..Len(published)
  BY DEF StreamInv, BusTypes, PageHolds, Bus!BoundsAreSound

LEMMA PageComes ==
    ASSUME Bus!BoundsAreSound, StreamInv, NEW p \in Pages, Bus!Mount(p) \/ Bus!Unmount(p) \/ Bus!Drop(p)
    PROVE  StreamInv'
<1>1. /\ page[p] \in Page /\ Heard(page[p]) /\ OnTheWay(page[p], pipe[p]) /\ Answers(page[p], asks[p])
      /\ page \in [Pages -> Page] /\ pipe = [pipe EXCEPT ![p] = pipe[p]]
      /\ asks = [asks EXCEPT ![p] = asks[p]] /\ asks[p] \in Seq(Asking)
      /\ pipe[p] \in Seq(Event)
      /\ Len(published) \in Nat /\ table \in Nat /\ restarts \in Nat /\ ghosts \in Nat
      /\ MaxAsks \in Nat \ {0}
  BY PageIs
<1>2. /\ <<>> \in Seq(Event) /\ <<>> \in Seq(Asking) /\ <<-1>> \in Seq(Asking) /\ Len(<<>>) = 0
      /\ Len(<<-1>>) = 1 /\ <<-1>>[1] = -1
  BY DEF Asking
<1>3. CASE Bus!Mount(p)
  <2> DEFINE r == [Bus!Off EXCEPT !.state = "connecting", !.since = Len(published)]
  <2>1. /\ page' = [page EXCEPT ![p] = r] /\ asks' = [asks EXCEPT ![p] = <<-1>>]
        /\ page[p].state = "off"
        /\ UNCHANGED <<polling, table, published, nextId, buffer, ghosts, pipe, restarts>>
    BY <1>3 DEF Bus!Mount, Bus!bus, Bus!Unread, Bus!Mounted
  <2>2. /\ r \in Page /\ r.state = "connecting" /\ r.since = Len(published) /\ r.lastId = 0
        /\ r.heard = {} /\ r.epoch = 0 /\ r.shown = 0
    BY <1>1 DEF Page, Bus!Off, Bus!NoId
  <2> HIDE DEF r
  <2>3. Heard(r) /\ Answers(r, <<-1>>) /\ OnTheWay(r, <<>>)
    BY <1>1, <1>2, <2>2 DEF Heard, Answers, OnTheWay, DueOf
  <2>4. pipe' = [pipe EXCEPT ![p] = <<>>]
    BY <1>1, <2>1 DEF OnTheWay
  <2>5. ghosts' \in Nat /\ ghosts' <= ghosts
    BY <1>1, <2>1
  <2> QED
    BY <1>1, <1>2, <2>1, <2>2, <2>3, <2>4, <2>5, PageMoves
<1>4. CASE Bus!Unmount(p)
  <2> DEFINE r == Bus!Off
  <2>1. /\ page' = [page EXCEPT ![p] = r] /\ pipe' = [pipe EXCEPT ![p] = <<>>]
        /\ asks' = [asks EXCEPT ![p] = <<>>]
        /\ UNCHANGED <<polling, table, published, nextId, buffer, ghosts, restarts>>
    BY <1>4 DEF Bus!Unmount, Bus!bus, Bus!bounds
  <2>2. /\ r \in Page /\ r.state = "off" /\ r.since = 0 /\ r.lastId = 0
        /\ r.heard = {} /\ r.epoch = 0 /\ r.shown = 0
    BY <1>1 DEF Page, Bus!Off, Bus!NoId
  <2> HIDE DEF r
  <2>3. Heard(r) /\ Answers(r, <<>>) /\ OnTheWay(r, <<>>)
    BY <1>1, <1>2, <2>2 DEF Heard, Answers, OnTheWay, DueOf
  <2>4. ghosts' \in Nat /\ ghosts' <= ghosts
    BY <1>1, <2>1
  <2> QED
    BY <1>1, <1>2, <2>1, <2>2, <2>3, <2>4, PageMoves
<1>5. CASE Bus!Drop(p)
  <2> DEFINE r == [page[p] EXCEPT !.state = "connecting"]
  <2>1. /\ page' = [page EXCEPT ![p] = r] /\ pipe' = [pipe EXCEPT ![p] = <<>>]
        /\ page[p].state = "open" /\ ghosts' \in {ghosts, ghosts + 1}
        /\ UNCHANGED <<polling, table, published, nextId, buffer, asks, restarts>>
    BY <1>5 DEF Bus!Drop, Bus!bus, Bus!Open
  <2>2. /\ r \in Page /\ r.state = "connecting" /\ r.since = page[p].since
        /\ r.lastId = page[p].lastId /\ r.heard = page[p].heard /\ r.epoch = page[p].epoch
        /\ r.shown = page[p].shown /\ r.gap = page[p].gap /\ r.behind = page[p].behind
    BY <1>1 DEF Page
  <2> HIDE DEF r
  <2>3. DueOf(r) = DueOf(page[p])
    BY <2>2 DEF DueOf
  <2>4. Heard(r)
    BY <1>1, <2>1, <2>2, <2>3 DEF Heard
  <2>5. Answers(r, asks[p])
    BY <1>1, <2>1, <2>2, <2>3 DEF Answers
  <2>6. OnTheWay(r, <<>>)
    BY <1>2, <2>2 DEF OnTheWay
  <2>7. ghosts' \in Nat /\ ghosts' <= ghosts + 1
    BY <1>1, <2>1
  <2> QED
    BY <1>1, <1>2, <2>1, <2>2, <2>4, <2>5, <2>6, <2>7, PageMoves
<1> QED
  BY <1>3, <1>4, <1>5

LEMMA PageReceives ==
    ASSUME Bus!BoundsAreSound, StreamInv, NEW p \in Pages, Bus!Receive(p)
    PROVE  StreamInv'
<1> DEFINE old == page[p]
           s == pipe[p]
           e == Head(s)
           q == Tail(s)
           a == Bus!Asked(p)
           r == [old EXCEPT !.lastId = e.id, !.behind = FALSE, !.heard = @ \cup {e.serial}]
<1>1. /\ old \in Page /\ Heard(old) /\ OnTheWay(old, s) /\ Answers(old, asks[p])
      /\ asks[p] \in Seq(Asking) /\ s \in Seq(Event)
      /\ Len(published) \in Nat /\ table \in Nat /\ restarts \in Nat /\ ghosts \in Nat
      /\ nextId \in Nat /\ Earlier \in Nat /\ MaxAsks \in Nat \ {0}
  BY PageIs
<1>2. /\ page' = [page EXCEPT ![p] = r] /\ pipe' = [pipe EXCEPT ![p] = q]
      /\ asks' = [asks EXCEPT ![p] = a] /\ old.state = "open" /\ s # <<>>
      /\ p \in polling \/ Len(asks[p]) < MaxAsks
      /\ UNCHANGED <<polling, table, published, nextId, buffer, ghosts, restarts>>
  <2>1. page' = [page EXCEPT ![p] = r]
    BY <1>1, PageIs DEF Bus!Receive
  <2> QED
    BY <2>1 DEF Bus!Receive, Bus!bus, Bus!bounds, Bus!Open, Bus!CanAsk
<1>3. /\ e = s[1] /\ Len(s) \in Nat \ {0} /\ e \in Event /\ q \in Seq(Event)
      /\ Len(q) = Len(s) - 1 /\ \A i \in 1..Len(q) : q[i] = s[i + 1]
  <2>1. q \in Seq(Event) /\ Len(q) = Len(s) - 1 /\ \A i \in 1..Len(q) : q[i] = s[i + 1]
    BY <1>1, <1>2, HeadTailProperties
  <2> QED
    BY <1>1, <1>2, <2>1
<1>4. e.id >= 1 /\ e.serial = Earlier + e.id /\ e.serial <= Len(published) /\ e.id \in Nat
      /\ e.serial \in Nat /\ \A n \in old.heard : n < e.serial
  BY <1>1, <1>3 DEF OnTheWay, Event
<1>5. /\ r \in Page /\ r.state = "open" /\ r.since = old.since /\ r.lastId = e.id
      /\ r.heard = old.heard \cup {e.serial} /\ r.epoch = old.epoch /\ r.shown = old.shown
      /\ r.gap = old.gap /\ ~r.behind
  <2>1. old.heard \cup {e.serial} \in SUBSET Nat
    BY <1>1, <1>4 DEF Page
  <2> QED
    BY <1>1, <1>2, <1>4, <2>1 DEF Page
<1>6. /\ a \in Seq(Asking) /\ Len(a) <= MaxAsks /\ \A i \in 1..Len(a) : a[i] <= table
      /\ \E i \in 1..Len(a) : a[i] = -1
  <2>0. -1 \in Asking /\ Len(asks[p]) \in Nat
        /\ Len(asks[p]) <= MaxAsks /\ \A i \in 1..Len(asks[p]) : asks[p][i] <= table
    BY <1>1 DEF Asking, Answers
  <2>1. CASE p \in polling
    <3>1. a = <<-1>>
      BY <2>1 DEF Bus!Asked, Bus!Unread
    <3>2. a \in Seq(Asking) /\ Len(a) = 1 /\ a[1] = -1
      BY <2>0, <3>1
    <3> QED
      BY <1>1, <3>2
  <2>2. CASE p \notin polling
    <3>1. a = Append(asks[p], -1)
      BY <2>2 DEF Bus!Asked, Bus!Unread
    <3>2. /\ a \in Seq(Asking) /\ Len(a) = Len(asks[p]) + 1 /\ a[Len(asks[p]) + 1] = -1
          /\ \A i \in 1..Len(asks[p]) : a[i] = asks[p][i]
      BY <1>1, <2>0, <3>1, AppendProperties
    <3>3. \A i \in 1..Len(a) : i \in 1..Len(asks[p]) \/ i = Len(asks[p]) + 1
      BY <2>0, <3>2
    <3>4. \A i \in 1..Len(a) : a[i] <= table
      BY <1>1, <2>0, <3>2, <3>3
    <3>5. Len(asks[p]) + 1 \in 1..Len(a) /\ Len(a) <= MaxAsks
      BY <1>1, <1>2, <2>0, <2>2, <3>2
    <3> QED
      BY <3>2, <3>4, <3>5
  <2> QED
    BY <2>1, <2>2
<1> HIDE DEF e, q, a, r
<1>7. DueOf(r) = DueOf(old)
  BY <1>5 DEF DueOf
<1>8. \A i \in 1..Len(q) : q[i] \in Event /\ q[i].serial > e.serial /\ i + 1 \in 1..Len(s)
  BY <1>1, <1>3 DEF OnTheWay
<1>9. Heard(r)
  <2>1. r.heard \subseteq 1..Len(published) /\ \A n \in r.heard : n <= Earlier + r.lastId
    BY <1>1, <1>4, <1>5 DEF Heard
  <2>2. r.epoch = restarts
    BY <1>1, <1>2, <1>5 DEF Heard
  <2>3. r.lastId < nextId
    BY <1>1, <1>4, <1>5 DEF Earlier
  <2>4. ASSUME ~r.gap, NEW n \in DueOf(r), n <= Earlier + r.lastId PROVE n \in r.heard
    <3>1. n \in old.heard \/ \E i \in 1..Len(s) : s[i].serial = n
      BY <1>1, <1>2, <1>5, <1>7, <2>4 DEF OnTheWay
    <3>2. ASSUME NEW i \in 1..Len(s), s[i].serial = n PROVE i = 1
      <4>1. i # 1 => s[1].serial < s[i].serial
        BY <1>1, <1>3 DEF OnTheWay
      <4>2. n \in Nat
        BY DEF DueOf
      <4> QED
        BY <1>1, <1>3, <1>4, <1>5, <2>4, <3>2, <4>1, <4>2
    <3> QED
      BY <1>3, <1>5, <3>1, <3>2
  <2> QED
    BY <1>1, <1>4, <1>5, <2>1, <2>2, <2>3, <2>4 DEF Heard
<1>10. OnTheWay(r, q)
  <2>1. ASSUME NEW i \in 1..Len(q)
        PROVE  /\ q[i].id >= 1 /\ q[i].serial = Earlier + q[i].id /\ q[i].serial <= Len(published)
               /\ \A n \in r.heard : n < q[i].serial
               /\ \A j \in 1..i - 1 : q[j].serial < q[i].serial
    <3>1. i + 1 \in 1..Len(s) /\ q[i] = s[i + 1] /\ q[i].serial > e.serial
      BY <1>3, <1>8
    <3>2. \A n \in r.heard : n < q[i].serial
      BY <1>1, <1>4, <1>5, <3>1 DEF OnTheWay
    <3>3. ASSUME NEW j \in 1..i - 1 PROVE q[j].serial < q[i].serial
      <4>1. q[j] = s[j + 1] /\ j + 1 \in 1..(i + 1) - 1
        BY <1>3
      <4> QED
        BY <1>1, <3>1, <4>1 DEF OnTheWay
    <3> QED
      BY <1>1, <3>1, <3>2, <3>3 DEF OnTheWay
  <2>2. ASSUME ~r.gap, NEW n \in DueOf(r)
        PROVE  n \in r.heard \/ \E i \in 1..Len(q) : q[i].serial = n
    <3>1. CASE n \in old.heard
      BY <1>5, <3>1
    <3>2. CASE n \notin old.heard
      <4>1. PICK i \in 1..Len(s) : s[i].serial = n
        BY <1>1, <1>2, <1>5, <1>7, <2>2, <3>2 DEF OnTheWay
      <4>2. CASE i = 1
        BY <1>3, <1>5, <4>1, <4>2
      <4>3. CASE i # 1
        <5>1. i - 1 \in 1..Len(q) /\ q[i - 1] = s[i]
          BY <1>3, <4>3
        <5> QED
          BY <4>1, <5>1
      <4> QED
        BY <4>2, <4>3
    <3> QED
      BY <3>1, <3>2
  <2> QED
    BY <1>5, <2>1, <2>2 DEF OnTheWay
<1>11. Answers(r, a)
  BY <1>1, <1>5, <1>6 DEF Answers
<1>12. ghosts' \in Nat /\ ghosts' <= ghosts
  BY <1>1, <1>2
<1> QED
  BY <1>1, <1>2, <1>3, <1>5, <1>6, <1>9, <1>10, <1>11, <1>12, PageMoves

LEMMA PageConnects ==
    ASSUME Bus!BoundsAreSound, StreamInv, NEW p \in Pages, Bus!Connect(p)
    PROVE  StreamInv'
<1> DEFINE old == page[p]
           q == Bus!Replay(old.lastId)
           lost == Bus!Due(p) \ (old.heard \cup Bus!Serials(buffer))
           gone == old.gap \/ lost # {} \/ (old.lastId # 0 /\ old.epoch # restarts)
           refused == [old EXCEPT !.state = "refused"]
           r == [old EXCEPT !.state = "open", !.epoch = restarts, !.gap = gone]
<1>1. /\ old \in Page /\ Heard(old) /\ OnTheWay(old, pipe[p]) /\ Answers(old, asks[p])
      /\ asks[p] \in Seq(Asking) /\ pipe[p] \in Seq(Event)
      /\ asks = [asks EXCEPT ![p] = asks[p]] /\ pipe = [pipe EXCEPT ![p] = pipe[p]]
      /\ Len(published) \in Nat /\ table \in Nat /\ restarts \in Nat /\ ghosts \in Nat
      /\ nextId \in Nat /\ Earlier \in Nat /\ MaxAsks \in Nat \ {0}
      /\ page \in [Pages -> Page]
  BY PageIs
<1>2. /\ old.state = "connecting"
      /\ UNCHANGED <<table, published, nextId, buffer, ghosts, restarts, asks>>
      /\ \/ page' = [page EXCEPT ![p] = refused] /\ UNCHANGED pipe
         \/ /\ page' = [page EXCEPT ![p] = r] /\ pipe' = [pipe EXCEPT ![p] = q]
            /\ ~(Bus!Streams >= MaxStreams)
  <2>1. /\ old.state = "connecting"
        /\ UNCHANGED <<table, published, nextId, buffer, ghosts, restarts, asks>>
    BY DEF Bus!Connect, Bus!bus, Bus!bounds
  <2>2. CASE Bus!Streams >= MaxStreams
    <3>1. page' = [page EXCEPT ![p] = refused] /\ UNCHANGED pipe
      BY <1>1, <2>2 DEF Bus!Connect
    <3> QED
      BY <2>1, <3>1
  <2>3. CASE ~(Bus!Streams >= MaxStreams)
    <3>1. pipe' = [pipe EXCEPT ![p] = q]
      BY <2>3 DEF Bus!Connect
    <3>2. page' = [page EXCEPT ![p].state = "open", ![p].epoch = restarts, ![p].gap = gone]
      BY <2>3, Zenon DEF Bus!Connect, Bus!NoId
    <3>3. page' = [page EXCEPT ![p] = r]
      BY <1>1, <3>2
    <3> QED
      BY <2>1, <2>3, <3>1, <3>3
  <2> QED
    BY <2>2, <2>3
<1>3. ghosts' \in Nat /\ ghosts' <= ghosts /\ ghosts' = ghosts
  BY <1>1, <1>2
<1>4. CASE page' = [page EXCEPT ![p] = refused] /\ UNCHANGED pipe
  <2>1. /\ refused \in Page /\ refused.state = "refused" /\ refused.since = old.since
        /\ refused.lastId = old.lastId /\ refused.heard = old.heard
        /\ refused.epoch = old.epoch /\ refused.shown = old.shown /\ refused.gap = old.gap
        /\ refused.behind = old.behind
    BY <1>1 DEF Page
  <2> HIDE DEF refused
  <2>2. DueOf(refused) = DueOf(old)
    BY <2>1 DEF DueOf
  <2>3. Heard(refused)
    BY <1>1, <1>2, <2>1, <2>2 DEF Heard
  <2>4. Answers(refused, asks[p])
    BY <1>1, <1>2, <2>1, <2>2 DEF Answers
  <2>5. OnTheWay(refused, pipe[p])
    BY <1>1, <1>2, <2>1, <2>2 DEF OnTheWay
  <2>6. asks' = [asks EXCEPT ![p] = asks[p]] /\ pipe' = [pipe EXCEPT ![p] = pipe[p]]
    BY <1>1, <1>2, <1>4
  <2> QED
    BY <1>1, <1>2, <1>3, <1>4, <2>1, <2>3, <2>4, <2>5, <2>6, PageMoves
<1>5. CASE /\ page' = [page EXCEPT ![p] = r] /\ pipe' = [pipe EXCEPT ![p] = q]
           /\ ~(Bus!Streams >= MaxStreams)
  <2> DEFINE S == {e \in Bus!Locks : old.lastId = 0 \/ e.id > old.lastId}
  <2>1. /\ buffer \in Seq(Event) /\ Len(buffer) \in Nat /\ Len(buffer) < nextId
        /\ DOMAIN buffer = 1..Len(buffer)
        /\ \A i \in 1..Len(buffer) : /\ buffer[i] \in Event
                                     /\ buffer[i].serial = Len(published) - Len(buffer) + i
                                     /\ buffer[i].id = nextId - 1 - Len(buffer) + i
                                     /\ buffer[i].kind = published[buffer[i].serial]
    BY DEF StreamInv, BufferHolds
  <2>2. q \in Seq(Event) /\ \E h : Places(buffer, S, Len(buffer), q, h)
    BY <2>1, PickedIs DEF Bus!Replay, Bus!NoId
  <2>3. PICK h : /\ h \in [1..Len(q) -> 1..Len(buffer)]
                 /\ \A i \in 1..Len(q) : q[i] = buffer[h[i]] /\ buffer[h[i]] \in S
                 /\ \A i, j \in 1..Len(q) : i < j => h[i] < h[j]
                 /\ \A m \in 1..Len(buffer) : buffer[m] \in S => \E i \in 1..Len(q) : h[i] = m
    BY <2>2 DEF Places
  <2>4. ASSUME NEW k \in 1..Len(buffer)
        PROVE  /\ buffer[k].id >= 1 /\ buffer[k].serial = Earlier + buffer[k].id
               /\ buffer[k].serial <= Len(published) /\ buffer[k].id \in Nat
               /\ buffer[k].serial \in Nat
    <3>1. /\ buffer[k].serial = Len(published) - Len(buffer) + k
          /\ buffer[k].id = nextId - 1 - Len(buffer) + k /\ k \in Nat
          /\ k >= 1 /\ k <= Len(buffer)
      BY <2>1
    <3>2. \A l, b, n \in Nat : l + 1 - n \in Nat /\ b < n /\ k <= b =>
            /\ n - 1 - b + k \in Nat /\ n - 1 - b + k >= 1 /\ l - b + k <= l
            /\ l - b + k = (l + 1 - n) + (n - 1 - b + k) /\ l - b + k \in Nat
      BY <3>1
    <3>3. /\ nextId - 1 - Len(buffer) + k \in Nat /\ nextId - 1 - Len(buffer) + k >= 1
          /\ Len(published) - Len(buffer) + k = Earlier + (nextId - 1 - Len(buffer) + k)
          /\ Len(published) - Len(buffer) + k <= Len(published)
          /\ Len(published) - Len(buffer) + k \in Nat
      <4>1. /\ Len(published) \in Nat /\ Len(buffer) \in Nat /\ nextId \in Nat
            /\ Len(published) + 1 - nextId \in Nat /\ Len(buffer) < nextId
            /\ Earlier = Len(published) + 1 - nextId
        BY <1>1, <2>1 DEF Earlier
      <4> QED
        BY <3>1, <3>2, <4>1
    <3> QED
      BY <3>1, <3>3
  <2>5. gone \in BOOLEAN
    OBVIOUS
  <2>6. /\ ~gone => ~old.gap /\ lost = {} /\ (old.lastId # 0 => old.epoch = restarts)
    OBVIOUS
  <2>7. /\ r \in Page /\ r.state = "open" /\ r.since = old.since /\ r.lastId = old.lastId
        /\ r.heard = old.heard /\ r.epoch = restarts /\ r.shown = old.shown
        /\ r.gap = gone /\ r.behind = old.behind
    <3> HIDE DEF gone
    <3> QED
      BY <1>1, <2>5 DEF Page
  <2>8. ~r.gap => ~old.gap /\ lost = {} /\ (old.lastId # 0 => old.epoch = restarts)
    <3> HIDE DEF gone, lost, r
    <3> QED
      BY <2>6, <2>7, Zenon
  <2>9. DueOf(r) = DueOf(old) /\ Bus!Due(p) = DueOf(old)
    <3> HIDE DEF r
    <3>1. DOMAIN published = 1..Len(published)
      BY PageIs
    <3> QED
      BY <2>7, <3>1 DEF DueOf, Bus!Due
  <2> HIDE DEF r, q, gone
  <2>10. Heard(r)
    BY <1>1, <2>7, <2>8, <2>9 DEF Heard
  <2>11. Answers(r, asks[p])
    BY <1>1, <1>2, <2>7, <2>8, <2>9 DEF Answers
  <2>12. ASSUME NEW i \in 1..Len(q)
         PROVE  /\ q[i].id >= 1 /\ q[i].serial = Earlier + q[i].id /\ q[i].serial <= Len(published)
                /\ \A n \in r.heard : n < q[i].serial
                /\ \A j \in 1..i - 1 : q[j].serial < q[i].serial
    <3>1. q[i] = buffer[h[i]] /\ h[i] \in 1..Len(buffer) /\ (old.lastId = 0 \/ q[i].id > old.lastId)
      BY <2>3
    <3>2. /\ q[i].id >= 1 /\ q[i].serial = Earlier + q[i].id /\ q[i].serial <= Len(published)
          /\ q[i].id \in Nat /\ q[i].serial \in Nat
      BY <2>4, <3>1
    <3>3. ASSUME NEW n \in r.heard PROVE n < q[i].serial
      <4>1. n \in Nat /\ old.lastId \in Nat /\ old.lastId # 0
            /\ (n <= Earlier \/ n <= Earlier + old.lastId)
        BY <1>1, <2>7 DEF Heard, Page
      <4>2. q[i].id > old.lastId
        BY <3>1, <4>1
      <4>3. \A id, serial \in Nat : id > old.lastId /\ serial = Earlier + id => n < serial
        BY <1>1, <4>1
      <4> QED
        BY <3>2, <4>2, <4>3
    <3>4. ASSUME NEW j \in 1..i - 1 PROVE q[j].serial < q[i].serial
      <4>1. j \in 1..Len(q) /\ j < i
        BY <2>2
      <4>2. h[j] < h[i] /\ h[j] \in 1..Len(buffer) /\ q[j] = buffer[h[j]]
        BY <2>3, <4>1
      <4>3. /\ q[j].serial = Len(published) - Len(buffer) + h[j]
            /\ q[i].serial = Len(published) - Len(buffer) + h[i]
        BY <2>1, <3>1, <4>2
      <4>4. h[j] \in Nat /\ h[i] \in Nat
        BY <3>1, <4>2
      <4>5. \A l, b, m, n \in Nat : m < n => l - b + m < l - b + n
        OBVIOUS
      <4>6. Len(published) \in Nat /\ Len(buffer) \in Nat
        BY <1>1, <2>1
      <4> QED
        BY <4>2, <4>3, <4>4, <4>5, <4>6
    <3> QED
      BY <3>2, <3>3, <3>4
  <2>13. ASSUME ~r.gap, NEW n \in DueOf(r), n \notin r.heard
         PROVE  \E i \in 1..Len(q) : q[i].serial = n
    <3>1. n \in Bus!Serials(buffer)
      BY <2>7, <2>8, <2>9, <2>13
    <3>2. PICK k \in 1..Len(buffer) : buffer[k].serial = n
      BY <2>1, <3>1 DEF Bus!Serials
    <3>3. buffer[k].kind = "lock" /\ buffer[k] \in Bus!Range(buffer)
      BY <2>1, <3>2 DEF DueOf, Bus!Range
    <3>4. old.lastId = 0 \/ buffer[k].id > old.lastId
      <4> SUFFICES ASSUME old.lastId # 0, ~(buffer[k].id > old.lastId) PROVE FALSE
        OBVIOUS
      <4>1. old.lastId \in Nat
        BY <1>1 DEF Page
      <4>2. n <= Earlier + old.lastId
        BY <1>1, <2>4, <3>2, <4>1
      <4>3. n \in old.heard
        BY <1>1, <2>8, <2>9, <2>13, <4>2 DEF Heard
      <4> QED
        BY <2>7, <2>13, <4>3
    <3>5. buffer[k] \in S
      BY <3>3, <3>4 DEF Bus!Locks
    <3>6. PICK i \in 1..Len(q) : h[i] = k
      BY <2>3, <3>5
    <3> QED
      BY <2>3, <3>2, <3>6
  <2>14. OnTheWay(r, q)
    BY <2>7, <2>12, <2>13 DEF OnTheWay
  <2>15. asks' = [asks EXCEPT ![p] = asks[p]] /\ Bus!Streams < MaxStreams
    <3>1. Bus!Streams \in Int /\ MaxStreams \in Int
      <4>1. Bus!Streams = Cardinality({x \in Pages : Bus!Open(x)}) + ghosts
        BY BusCounts DEF Bus!Streams
      <4>2. IsFiniteSet(Pages) /\ MaxStreams \in Nat
        BY BusCounts DEF Bus!BoundsAreSound
      <4>3. Cardinality({x \in Pages : Bus!Open(x)}) \in Nat
        BY <4>2, FS_Subset, FS_CardinalityType
      <4> QED
        BY <1>1, <4>1, <4>2, <4>3
    <3> QED
      BY <1>1, <1>2, <1>5, <3>1
  <2> QED
    BY <1>1, <1>2, <1>3, <1>5, <2>2, <2>7, <2>10, <2>11, <2>14, <2>15, PageMoves
<1> QED
  BY <1>2, <1>4, <1>5

LEMMA PageAsks ==
    ASSUME Bus!BoundsAreSound, StreamInv, NEW p \in Pages,
           Bus!Poll(p) \/ \E i \in 1..MaxAsks : Bus!Serve(p, i) \/ Bus!Arrive(p, i) \/ Bus!Fail(p, i)
    PROVE  StreamInv'
<1> DEFINE old == page[p]
           s == asks[p]
<1>1. /\ old \in Page /\ Heard(old) /\ OnTheWay(old, pipe[p]) /\ Answers(old, s)
      /\ s \in Seq(Asking) /\ Len(s) \in Nat /\ DOMAIN s = 1..Len(s) /\ pipe[p] \in Seq(Event)
      /\ page = [page EXCEPT ![p] = page[p]] /\ pipe = [pipe EXCEPT ![p] = pipe[p]]
      /\ table \in Nat /\ ghosts \in Nat /\ MaxAsks \in Nat \ {0} /\ old.shown \in Nat
      /\ page \in [Pages -> Page]
  BY PageIs DEF Page
<1>2. /\ UNCHANGED <<table, published, nextId, buffer, ghosts, restarts, pipe>>
      /\ pipe' = [pipe EXCEPT ![p] = pipe[p]]
  BY <1>1 DEF Bus!Poll, Bus!Serve, Bus!Arrive, Bus!Fail, Bus!bus, Bus!bounds
<1>3. ghosts' \in Nat /\ ghosts' <= ghosts
  BY <1>1, <1>2
\* only what it shows and whether it is behind change
<1>4. ASSUME NEW r \in Page, r = [old EXCEPT !.shown = r.shown, !.behind = r.behind],
             NEW a \in Seq(Asking), page' = [page EXCEPT ![p] = r], asks' = [asks EXCEPT ![p] = a],
             r.shown <= table, Len(a) <= MaxAsks, \A i \in 1..Len(a) : a[i] <= table,
             old.state # "off" /\ ~r.behind => \/ r.shown = table
                                               \/ \E i \in 1..Len(a) : a[i] \in {-1, table}
                                               \/ ~(~old.behind => old.shown = table \/
                                                      \E i \in 1..Len(s) : s[i] \in {-1, table})
      PROVE  StreamInv'
  <2>1. /\ r.state = old.state /\ r.since = old.since /\ r.lastId = old.lastId
        /\ r.heard = old.heard /\ r.epoch = old.epoch /\ r.gap = old.gap
    BY <1>1, <1>4 DEF Page
  <2>2. DueOf(r) = DueOf(old)
    BY <2>1 DEF DueOf
  <2>3. Heard(r)
    BY <1>1, <2>1, <2>2 DEF Heard
  <2>4. OnTheWay(r, pipe[p])
    BY <1>1, <2>1, <2>2 DEF OnTheWay
  <2>5. Answers(r, a)
    BY <1>1, <1>4, <2>1, <2>2 DEF Answers
  <2> QED
    BY <1>1, <1>2, <1>3, <1>4, <2>1, <2>3, <2>4, <2>5, PageMoves
<1>5. CASE Bus!Poll(p)
  <2> DEFINE r == [old EXCEPT !.behind = FALSE]
  <2>1. page' = [page EXCEPT ![p] = r] /\ asks' = [asks EXCEPT ![p] = <<-1>>]
    BY <1>5 DEF Bus!Poll, Bus!Unread
  <2>2. r \in Page /\ r.shown = old.shown /\ r.behind = FALSE
        /\ r = [old EXCEPT !.shown = r.shown, !.behind = r.behind]
    BY <1>1 DEF Page
  <2> DEFINE a == <<-1>>
  <2>3. a \in Seq(Asking) /\ Len(a) = 1 /\ a[1] = -1
    BY DEF Asking
  <2>4. asks' = [asks EXCEPT ![p] = a]
    BY <2>1
  <2> HIDE DEF r, a
  <2>5. r.shown <= table
    BY <1>1, <2>2 DEF Answers
  <2>6. /\ Len(a) <= MaxAsks /\ \A i \in 1..Len(a) : a[i] <= table
        /\ \E i \in 1..Len(a) : a[i] \in {-1, table}
    <3>1. 1 \in 1..Len(a) /\ \A i \in 1..Len(a) : i = 1
      BY <2>3
    <3> QED
      BY <1>1, <2>3, <3>1
  <2> QED
    BY <1>4, <2>1, <2>2, <2>3, <2>4, <2>5, <2>6
<1>6. ASSUME NEW i \in 1..MaxAsks, Bus!Serve(p, i) PROVE StreamInv'
  <2> DEFINE a == [s EXCEPT ![i] = table]
  <2>1. /\ i \in 1..Len(s) /\ s[i] = -1 /\ page' = [page EXCEPT ![p] = old]
        /\ asks' = [asks EXCEPT ![p] = a]
    BY <1>1, <1>6 DEF Bus!Serve, Bus!Unread
  <2>2. /\ a \in Seq(Asking) /\ Len(a) = Len(s) /\ a[i] = table
        /\ \A j \in 1..Len(s) : j # i => a[j] = s[j]
    BY <1>1, <2>1, ExceptSeq DEF Asking
  <2>3. old = [old EXCEPT !.shown = old.shown, !.behind = old.behind]
    BY <1>1 DEF Page
  <2> HIDE DEF a
  <2>4. \A j \in 1..Len(a) : a[j] <= table
    BY <1>1, <2>1, <2>2 DEF Answers
  <2>5. old.shown <= table /\ Len(a) <= MaxAsks /\ i \in 1..Len(a)
    BY <1>1, <2>1, <2>2 DEF Answers
  <2> QED
    BY <1>1, <1>4, <2>1, <2>2, <2>3, <2>4, <2>5
<1>7. ASSUME NEW i \in 1..MaxAsks, Bus!Arrive(p, i) \/ Bus!Fail(p, i) PROVE StreamInv'
  <2> DEFINE a == Bus!RemoveAt(s, i)
             r == [old EXCEPT !.shown = s[i], !.behind = @ \/ s[i] < old.shown]
             failed == [old EXCEPT !.behind = TRUE]
  <2>1. /\ i \in 1..Len(s) /\ asks' = [asks EXCEPT ![p] = a]
    BY <1>1, <1>7 DEF Bus!Arrive, Bus!Fail, Bus!Answered
  <2>2. /\ a \in Seq(Asking) /\ Len(a) = Len(s) - 1
        /\ \A k \in 1..Len(s) - 1 : a[k] = IF k < i THEN s[k] ELSE s[k + 1]
    BY <1>1, <2>1, Removes
  <2> HIDE DEF a
  <2>3. /\ Len(a) <= MaxAsks /\ \A k \in 1..Len(a) : a[k] <= table
    <3>1. Len(s) <= MaxAsks /\ \A k \in 1..Len(s) : s[k] <= table
      BY <1>1 DEF Answers
    <3>2. ASSUME NEW k \in 1..Len(a) PROVE a[k] <= table
      <4>1. k \in 1..Len(s) - 1 /\ k \in 1..Len(s) /\ k + 1 \in 1..Len(s)
        BY <1>1, <2>1, <2>2
      <4> QED
        BY <2>2, <3>1, <4>1
    <3> QED
      BY <1>1, <2>2, <3>1, <3>2
  <2>4. ASSUME NEW j \in 1..Len(s), j # i PROVE \E k \in 1..Len(a) : a[k] = s[j]
    <3>1. CASE j < i
      BY <1>1, <2>1, <2>2, <3>1
    <3>2. CASE j > i
      <4>1. j - 1 \in 1..Len(a) /\ a[j - 1] = s[j]
        BY <1>1, <2>1, <2>2, <3>2
      <4> QED
        BY <4>1
    <3> QED
      BY <2>1, <2>4, <3>1, <3>2
  <2>5. CASE Bus!Arrive(p, i)
    <3>1. s[i] # -1 /\ s[i] \in Nat /\ s[i] <= table
      <4>1. s[i] # -1
        BY <2>5 DEF Bus!Arrive, Bus!Answered, Bus!Unread
      <4>2. s[i] \in Asking
        BY <1>1, <2>1
      <4>3. s[i] <= table
        BY <1>1, <2>1 DEF Answers
      <4> QED
        BY <4>1, <4>2, <4>3 DEF Asking
    <3>2. page' = [page EXCEPT ![p] = r]
      BY <1>1, <2>5 DEF Bus!Arrive
    <3>3. (old.behind \/ s[i] < old.shown) \in BOOLEAN
      OBVIOUS
    <3>4. r \in Page /\ r.shown = s[i] /\ r.behind = (old.behind \/ s[i] < old.shown)
          /\ r = [old EXCEPT !.shown = r.shown, !.behind = r.behind]
      BY <1>1, <3>1, <3>3 DEF Page
    <3>5. ~r.behind => ~old.behind /\ ~(s[i] < old.shown)
      <4> HIDE DEF r
      <4> QED
        BY <3>4, Zenon
    <3> HIDE DEF r
    <3>6. ASSUME ~r.behind, ~old.behind => old.shown = table \/ \E j \in 1..Len(s) : s[j] \in {-1, table}
          PROVE  r.shown = table \/ \E k \in 1..Len(a) : a[k] \in {-1, table}
      <4>1. CASE s[i] = table
        BY <3>4, <4>1
      <4>2. CASE s[i] # table
        <5>1. old.shown # table
          BY <1>1, <3>1, <3>5, <3>6, <4>2
        <5>2. PICK j \in 1..Len(s) : s[j] \in {-1, table}
          BY <3>5, <3>6, <5>1
        <5>3. j # i
          BY <3>1, <4>2, <5>2
        <5> QED
          BY <2>4, <5>2, <5>3
      <4> QED
        BY <4>1, <4>2
    <3> QED
      BY <1>4, <2>1, <2>2, <2>3, <3>1, <3>2, <3>4, <3>6
  <2>6. CASE Bus!Fail(p, i)
    <3>1. page' = [page EXCEPT ![p] = failed]
      BY <1>1, <2>6 DEF Bus!Fail
    <3>2. failed \in Page /\ failed.shown = old.shown /\ failed.behind = TRUE
          /\ failed = [old EXCEPT !.shown = failed.shown, !.behind = failed.behind]
      BY <1>1 DEF Page
    <3> HIDE DEF failed
    <3>3. failed.shown <= table
      BY <1>1, <3>2 DEF Answers
    <3> QED
      BY <1>4, <2>1, <2>2, <2>3, <3>1, <3>2, <3>3
  <2> QED
    BY <1>7, <2>5, <2>6
<1> QED
  BY <1>5, <1>6, <1>7

LEMMA BusPublishes ==
    ASSUME Bus!BoundsAreSound, StreamInv, NEW kind \in Kinds, Bus!Publish(kind),
           table' = IF kind = "lock" THEN table + 1 ELSE table,
           UNCHANGED <<ghosts, page, asks, restarts>>
    PROVE  StreamInv'
<1> DEFINE n == Len(published)
           event == [id |-> nextId, kind |-> kind, serial |-> n + 1]
<1>1. /\ n < MaxEvents /\ published' = Append(published, kind) /\ nextId' = nextId + 1
      /\ buffer' = Bus!Buffered(event)
      /\ pipe' = [p \in Pages |-> IF Bus!Open(p) /\ kind = "lock" THEN Append(pipe[p], event) ELSE pipe[p]]
  BY DEF Bus!Publish
<1>2. /\ BusTypes /\ BufferHolds /\ n \in Nat /\ nextId \in Nat \ {0} /\ published \in Seq(Kinds)
      /\ Earlier \in Nat /\ buffer \in Seq(Event) /\ Len(buffer) \in Nat /\ BufferSize \in Nat
      /\ table \in Nat /\ table <= n /\ MaxEvents \in Nat
  <2>1. BusTypes /\ BufferHolds
    BY DEF StreamInv
  <2>2. /\ published \in Seq(Kinds) /\ nextId \in Nat \ {0} /\ Earlier \in Nat
        /\ table \in Nat /\ table <= n
    BY <2>1 DEF BusTypes
  <2>3. n \in Nat
    BY <2>2
  <2>4. buffer \in Seq(Event)
    BY <2>1 DEF BusTypes, BufferHolds
  <2>5. Len(buffer) \in Nat
    BY <2>4
  <2>6. BufferSize \in Nat /\ MaxEvents \in Nat
    BY DEF Bus!BoundsAreSound
  <2> QED
    BY <2>1, <2>2, <2>3, <2>4, <2>5, <2>6
<1>3. /\ published' \in Seq(Kinds) /\ Len(published') = n + 1 /\ published'[n + 1] = kind
      /\ \A i \in 1..n : published'[i] = published[i]
  <2>1. Append(published, kind) \in Seq(Kinds)
    BY <1>2
  <2>2. Len(Append(published, kind)) = n + 1 /\ Append(published, kind)[n + 1] = kind
    BY <1>2
  <2>3. \A i \in 1..n : Append(published, kind)[i] = published[i]
    BY <1>2
  <2> QED
    BY <1>1, <2>1, <2>2, <2>3
<1>4. Earlier' = Earlier /\ Earlier + nextId = n + 1
  BY <1>1, <1>2, <1>3 DEF Earlier
<1>5. event \in Event /\ event.id = nextId /\ event.kind = kind /\ event.serial = n + 1
  BY <1>2 DEF Event
<1> HIDE DEF event
<1>6. ASSUME NEW p \in Pages
      PROVE  /\ pipe'[p] \in Seq(Event)
             /\ IF Bus!Open(p) /\ kind = "lock" THEN pipe'[p] = Append(pipe[p], event)
                                                ELSE pipe'[p] = pipe[p]
  <2>1. IF Bus!Open(p) /\ kind = "lock" THEN pipe'[p] = Append(pipe[p], event)
                                        ELSE pipe'[p] = pipe[p]
    BY <1>1
  <2>2. pipe[p] \in Seq(Event)
    BY PageIs
  <2>3. Append(pipe[p], event) \in Seq(Event)
    BY <1>5, <2>2
  <2> QED
    BY <2>1, <2>2, <2>3
<1>7. BusTypes'
  <2>1. pipe' \in [Pages -> Seq(Event)]
    BY <1>1, <1>6
  <2>2. table' \in Nat /\ table' <= n + 1
    BY <1>2
  <2>3. nextId' \in Nat \ {0} /\ n + 1 <= MaxEvents
    BY <1>1, <1>2
  <2> QED
    BY <1>2, <1>3, <1>4, <2>1, <2>2, <2>3 DEF BusTypes
<1>8. BufferHolds'
  <2> DEFINE longer == Append(buffer, event)
             b == Len(buffer)
  <2>1. /\ longer \in Seq(Event) /\ Len(longer) = b + 1 /\ longer[b + 1] = event
        /\ \A i \in 1..b : longer[i] = buffer[i]
    BY <1>2, <1>5, AppendProperties
  <2>2. b < nextId /\ b <= BufferSize
    BY <1>2 DEF BufferHolds
  <2>3. ASSUME NEW i \in 1..b + 1
        PROVE  /\ longer[i].serial = n - b + i
               /\ longer[i].id = nextId - 1 - b + i
               /\ longer[i].kind = published'[longer[i].serial]
    <3>1. CASE i = b + 1
      <4>1. n - b + i = n + 1 /\ nextId - 1 - b + i = nextId
        BY <1>2, <3>1
      <4> QED
        BY <1>3, <1>5, <2>1, <3>1, <4>1
    <3>2. CASE i # b + 1
      <4>1. i \in 1..b /\ longer[i] = buffer[i]
        BY <1>2, <2>1, <3>2
      <4>2. /\ buffer[i].serial = n - b + i /\ buffer[i].id = nextId - 1 - b + i
            /\ buffer[i].kind = published[buffer[i].serial]
        BY <1>2, <4>1 DEF BufferHolds
      <4>3. n - b + i \in 1..n
        <5>1. b <= n
          BY <1>2, <1>4, <2>2
        <5> QED
          BY <1>2, <4>1, <5>1
      <4> QED
        BY <1>3, <4>1, <4>2, <4>3
    <3> QED
      BY <3>1, <3>2
  <2> HIDE DEF longer
  <2>4. CASE b + 1 > BufferSize
    <3>1. buffer' = Tail(longer)
      BY <1>1, <2>1, <2>4 DEF Bus!Buffered, longer
    <3>2. Len(longer) \in Nat \ {0} /\ longer # <<>>
      BY <1>2, <2>1
    <3>3. /\ buffer' \in Seq(Event) /\ Len(buffer') = b
          /\ \A i \in 1..b : buffer'[i] = longer[i + 1]
      <4>1. Len(Tail(longer)) = Len(longer) - 1
        BY <2>1, <3>2, HeadTailProperties
      <4>2. \A i \in 1..Len(Tail(longer)) : Tail(longer)[i] = longer[i + 1]
        BY <2>1, <3>2, HeadTailProperties
      <4>3. Len(longer) - 1 = b
        BY <1>2, <2>1
      <4> QED
        BY <2>1, <3>1, <3>2, <4>1, <4>2, <4>3, HeadTailProperties
    <3>4. ASSUME NEW i \in 1..b
          PROVE  /\ buffer'[i].serial = Len(published') - b + i
                 /\ buffer'[i].id = nextId' - 1 - b + i
                 /\ buffer'[i].kind = published'[buffer'[i].serial]
      <4>1. i + 1 \in 1..b + 1 /\ buffer'[i] = longer[i + 1]
        BY <1>2, <3>3
      <4>2. n - b + (i + 1) = (n + 1) - b + i /\ nextId - 1 - b + (i + 1) = (nextId + 1) - 1 - b + i
        BY <1>2
      <4> QED
        BY <1>1, <1>3, <2>3, <4>1, <4>2
    <3>5. b < nextId'
      BY <1>1, <1>2, <2>2
    <3> QED
      BY <2>2, <3>3, <3>4, <3>5 DEF BufferHolds
  <2>5. CASE ~(b + 1 > BufferSize)
    <3>1. buffer' = longer
      BY <1>1, <2>1, <2>5 DEF Bus!Buffered, longer
    <3>2. ASSUME NEW i \in 1..b + 1
          PROVE  /\ buffer'[i].serial = Len(published') - (b + 1) + i
                 /\ buffer'[i].id = nextId' - 1 - (b + 1) + i
                 /\ buffer'[i].kind = published'[buffer'[i].serial]
      <4>1. n - b + i = (n + 1) - (b + 1) + i /\ nextId - 1 - b + i = (nextId + 1) - 1 - (b + 1) + i
        BY <1>2
      <4> QED
        BY <1>1, <1>3, <2>3, <3>1, <4>1
    <3>3. b + 1 < nextId' /\ b + 1 <= BufferSize
      BY <1>1, <1>2, <2>2, <2>5
    <3> QED
      BY <2>1, <3>1, <3>2, <3>3 DEF BufferHolds
  <2> QED
    BY <2>4, <2>5
<1>9. ASSUME NEW p \in Pages PROVE PageHolds(p)'
  <2> DEFINE r == page[p]
  <2>1. /\ r \in Page /\ Heard(r) /\ OnTheWay(r, pipe[p]) /\ Answers(r, asks[p])
        /\ pipe[p] \in Seq(Event) /\ page' = page /\ asks' = asks /\ restarts' = restarts
    BY PageIs
  <2>2. r.heard \subseteq 1..n /\ r.since \in Nat /\ r.since <= n /\ r.lastId \in Nat
        /\ r.shown \in Nat
    BY <2>1 DEF Heard, Page
  <2>3. DueOf(r)' = IF kind = "lock" THEN DueOf(r) \cup {n + 1} ELSE DueOf(r)
    <3>1. \A s \in 1..n + 1 : s \in 1..n \/ s = n + 1
      BY <1>2
    <3>2. n + 1 \in 1..n + 1 /\ n + 1 > r.since /\ 1..n \subseteq 1..n + 1
      BY <1>2, <2>2
    <3>3. DueOf(r)' = {s \in 1..n + 1 : published'[s] = "lock" /\ s > r.since}
      BY <1>3, <2>1 DEF DueOf
    <3>4. DueOf(r) = {s \in 1..n : published[s] = "lock" /\ s > r.since}
      BY DEF DueOf
    <3> HIDE DEF n, r
    <3> QED
      BY <1>3, <3>1, <3>2, <3>3, <3>4
  <2>4. n + 1 \notin r.heard
    BY <1>2, <2>2
  <2>5. Heard(r)'
    <3>1. r.since <= n + 1 /\ r.heard \subseteq 1..n + 1
      BY <1>2, <2>2
    <3>2. ASSUME ~r.gap, r.lastId # 0, r.epoch = restarts
          PROVE  /\ r.lastId < nextId'
                 /\ \A s \in DueOf(r)' : s <= Earlier + r.lastId => s \in r.heard
      <4>1. r.lastId < nextId /\ \A s \in DueOf(r) : s <= Earlier + r.lastId => s \in r.heard
        BY <2>1, <3>2 DEF Heard
      <4>2. r.lastId < nextId' /\ ~(n + 1 <= Earlier + r.lastId)
        BY <1>1, <1>2, <1>4, <2>2, <4>1
      <4> QED
        BY <2>3, <4>1, <4>2
    <3>3. /\ r.epoch <= restarts /\ (r.state = "open" => r.epoch = restarts)
          /\ r.lastId = 0 => r.heard = {}
          /\ \A s \in r.heard : s <= Earlier \/ (r.epoch = restarts /\ s <= Earlier + r.lastId)
      BY <2>1 DEF Heard
    <3> HIDE DEF r
    <3>4. r' = r
      BY <2>1 DEF r
    <3> QED
      BY <1>3, <1>4, <2>1, <3>1, <3>2, <3>3, <3>4 DEF Heard
  <2>6. OnTheWay(page[p], pipe[p])'
    <3> DEFINE q == pipe[p]
    <3>0. Len(q) \in Nat
      BY <2>1
    <3>1. \A i \in 1..Len(q) :
            /\ q[i].id >= 1 /\ q[i].serial = Earlier + q[i].id /\ q[i].serial <= n
            /\ q[i].serial \in Nat /\ q[i].serial <= n + 1
            /\ \A s \in r.heard : s < q[i].serial
            /\ \A j \in 1..i - 1 : q[j].serial < q[i].serial
      <4> TAKE i \in 1..Len(q)
      <4>1. q[i].serial <= n /\ q[i] \in Event
        BY <2>1 DEF OnTheWay
      <4>2. q[i].serial \in Nat
        BY <4>1 DEF Event
      <4>3. q[i].serial <= n + 1
        BY <1>2, <4>1, <4>2
      <4> QED
        BY <2>1, <4>2, <4>3 DEF OnTheWay
    <3>2. r.state # "open" => q = <<>>
      BY <2>1 DEF OnTheWay
    <3>3. ~r.gap /\ r.state = "open" =>
            \A s \in DueOf(r) : s \in r.heard \/ \E i \in 1..Len(q) : q[i].serial = s
      BY <2>1 DEF OnTheWay
    <3>4. CASE Bus!Open(p) /\ kind = "lock"
      <4> DEFINE z == Append(q, event)
      <4>1. /\ pipe'[p] = z /\ Len(z) = Len(q) + 1 /\ z[Len(q) + 1] = event
            /\ \A i \in 1..Len(q) : z[i] = q[i]
        BY <1>5, <1>6, <2>1, <3>4, AppendProperties
      <4> HIDE DEF q, z
      <4>2. \A i \in 1..Len(z) : i \in 1..Len(q) \/ i = Len(q) + 1
        BY <3>0, <4>1
      <4>3. ASSUME NEW i \in 1..Len(z)
            PROVE  /\ z[i].id >= 1 /\ z[i].serial = Earlier + z[i].id /\ z[i].serial <= n + 1
                   /\ \A s \in r.heard : s < z[i].serial
                   /\ \A j \in 1..i - 1 : z[j].serial < z[i].serial
        <5>1. CASE i \in 1..Len(q)
          <6>1. \A j \in 1..i - 1 : z[j] = q[j]
            BY <3>0, <4>1, <5>1
          <6> QED
            BY <3>1, <4>1, <5>1, <6>1
        <5>2. CASE i = Len(q) + 1
          <6>1. \A j \in 1..i - 1 : j \in 1..Len(q)
            BY <3>0, <5>2
          <6>2. \A j \in 1..i - 1 : z[j].serial < n + 1
            BY <1>2, <3>1, <4>1, <6>1
          <6>3. \A s \in r.heard : s < n + 1
            BY <1>2, <2>2
          <6>4. nextId >= 1 /\ n + 1 <= n + 1
            BY <1>2
          <6> QED
            BY <1>4, <1>5, <4>1, <5>2, <6>2, <6>3, <6>4
        <5> QED
          BY <4>2, <5>1, <5>2
      <4>4. ASSUME ~r.gap, r.state = "open", NEW s \in DueOf(r)'
            PROVE  s \in r.heard \/ \E i \in 1..Len(z) : z[i].serial = s
        <5>1. CASE s = n + 1
          <6>1. Len(q) + 1 \in 1..Len(z)
            BY <3>0, <4>1
          <6> QED
            BY <1>5, <4>1, <5>1, <6>1
        <5>2. CASE s # n + 1
          <6>1. s \in DueOf(r)
            BY <2>3, <4>4, <5>2
          <6>2. \A i \in 1..Len(q) : i \in 1..Len(z)
            BY <3>0, <4>1
          <6> QED
            BY <3>3, <4>1, <4>4, <6>1, <6>2
        <5> QED
          BY <5>1, <5>2
      <4>5. r.state = "open"
        BY <3>4 DEF Bus!Open
      <4> HIDE DEF r
      <4>6. r' = r
        BY <2>1 DEF r
      <4> QED
        BY <1>3, <1>4, <4>1, <4>3, <4>4, <4>5, <4>6 DEF OnTheWay, r
    <3>5. CASE ~(Bus!Open(p) /\ kind = "lock")
      <4>1. pipe'[p] = q
        BY <1>6, <3>5
      <4>2. ~r.gap /\ r.state = "open" =>
              \A s \in DueOf(r)' : s \in r.heard \/ \E i \in 1..Len(q) : q[i].serial = s
        BY <2>3, <3>3, <3>5 DEF Bus!Open
      <4> HIDE DEF q
      <4> QED
        BY <1>3, <1>4, <2>1, <3>1, <3>2, <4>1, <4>2 DEF OnTheWay
    <3> QED
      BY <3>4, <3>5
  <2>7. Answers(page[p], asks[p])'
    <3>1. /\ r.shown <= table /\ Len(asks[p]) <= MaxAsks
          /\ \A i \in 1..Len(asks[p]) : asks[p][i] <= table /\ asks[p][i] \in Asking
      <4>1. asks[p] \in Seq(Asking)
        BY PageIs
      <4> QED
        BY <2>1, <4>1 DEF Answers
    <3>2. r.shown <= table' /\ \A i \in 1..Len(asks[p]) : asks[p][i] <= table'
      <4>1. \A v \in Asking : v <= table => v <= table'
        BY <1>2 DEF Asking
      <4>2. r.shown \in Asking
        BY <2>2 DEF Asking
      <4> QED
        BY <3>1, <4>1, <4>2
    <3>3. CASE kind = "lock"
      <4>1. ~(DueOf(r)' \subseteq r.heard)
        BY <2>3, <2>4, <3>3
      <4> QED
        BY <2>1, <3>1, <3>2, <4>1 DEF Answers
    <3>4. CASE kind # "lock"
      <4>1. table' = table /\ DueOf(r)' = DueOf(r)
        BY <2>3, <3>4
      <4> QED
        BY <2>1, <4>1 DEF Answers
    <3> QED
      BY <3>3, <3>4
  <2> QED
    BY <2>5, <2>6, <2>7 DEF PageHolds
<1>10. ghosts' \in Nat /\ Bus!Streams' <= MaxStreams
  BY DEF StreamInv, Bus!Streams, Bus!Open
<1> QED
  BY <1>7, <1>8, <1>9, <1>10 DEF StreamInv

LEMMA BusRestarts ==
    ASSUME Bus!BoundsAreSound, StreamInv, Bus!Restart PROVE StreamInv'
<1> DEFINE On(p) == IF Bus!Open(p) THEN "connecting" ELSE page[p].state
           r(p) == [page[p] EXCEPT !.state = On(p), !.behind = @ \/ asks[p] # <<>>]
<1>1. /\ restarts' = restarts + 1 /\ nextId' = 1 /\ buffer' = <<>> /\ ghosts' = 0
      /\ page' = [p \in Pages |-> r(p)]
      /\ pipe' = [p \in Pages |-> <<>>] /\ asks' = [p \in Pages |-> <<>>]
      /\ UNCHANGED <<table, published>>
  <2>1. page' = [p \in Pages |-> [page[p] EXCEPT !.state = IF Bus!Open(p) THEN "connecting" ELSE @,
                                                 !.behind = @ \/ asks[p] # <<>>]]
    BY DEF Bus!Restart
  <2> QED
    BY <2>1 DEF Bus!Restart
<1>2. /\ BusTypes /\ Len(published) \in Nat /\ restarts \in Nat /\ table \in Nat
      /\ BufferSize \in Nat /\ MaxStreams \in Nat /\ MaxAsks \in Nat /\ IsFiniteSet(Pages)
  BY BusCounts DEF StreamInv, BusTypes, Bus!BoundsAreSound
<1>3. Earlier' = Len(published) /\ restarts' \in Nat
  <2>1. Len(published') = Len(published) /\ nextId' = 1
    BY <1>1
  <2>2. Earlier' = Len(published) + 1 - 1
    BY <2>1 DEF Earlier
  <2>3. \A l \in Nat : l + 1 - 1 = l
    OBVIOUS
  <2>4. Len(published) \in Nat /\ restarts \in Nat /\ restarts' = restarts + 1
    BY <1>1, <1>2
  <2> QED
    BY <2>2, <2>3, <2>4
<1>4. /\ <<>> \in Seq(Event) /\ <<>> \in Seq(Asking) /\ Len(<<>>) = 0
  OBVIOUS
<1>5. ASSUME NEW p \in Pages
      PROVE  /\ r(p) \in Page /\ r(p).state = On(p) /\ r(p).state # "open"
             /\ r(p).lastId = page[p].lastId /\ r(p).heard = page[p].heard
             /\ r(p).since = page[p].since /\ r(p).epoch = page[p].epoch
             /\ r(p).gap = page[p].gap /\ r(p).shown = page[p].shown
             /\ ~r(p).behind => ~page[p].behind /\ asks[p] = <<>>
             /\ r(p).state = "off" => page[p].state = "off"
             /\ page[p].state = "off" => r(p).state = "off"
  <2>1. page[p] \in Page
    BY PageIs
  <2>2. On(p) \in {"off", "connecting", "refused"} /\ (On(p) = "off" <=> page[p].state = "off")
    BY <2>1 DEF Bus!Open, Page
  <2>3. (page[p].behind \/ asks[p] # <<>>) \in BOOLEAN
    OBVIOUS
  <2> HIDE DEF On
  <2>4. /\ r(p) \in Page /\ r(p).state = On(p)
        /\ r(p).lastId = page[p].lastId /\ r(p).heard = page[p].heard
        /\ r(p).since = page[p].since /\ r(p).epoch = page[p].epoch
        /\ r(p).gap = page[p].gap /\ r(p).shown = page[p].shown
        /\ r(p).behind = (page[p].behind \/ asks[p] # <<>>)
    BY <2>1, <2>2, <2>3 DEF Page
  <2>5. ~r(p).behind => ~page[p].behind /\ asks[p] = <<>>
    <3> HIDE DEF r
    <3> QED
      BY <2>4, Zenon
  <2> HIDE DEF r
  <2> QED
    BY <2>2, <2>4, <2>5
<1> HIDE DEF r, On
<1>6. BusTypes'
  <2>1. page' \in [Pages -> Page] /\ pipe' \in [Pages -> Seq(Event)] /\ asks' \in [Pages -> Seq(Asking)]
    BY <1>1, <1>4, <1>5
  <2> QED
    BY <1>1, <1>2, <1>3, <2>1 DEF BusTypes
<1>7. BufferHolds'
  BY <1>1, <1>2, <1>4 DEF BufferHolds
<1>8. ASSUME NEW p \in Pages PROVE PageHolds(p)'
  <2>1. page'[p] = r(p) /\ pipe'[p] = <<>> /\ asks'[p] = <<>>
    BY <1>1
  <2>2. /\ page[p] \in Page /\ Heard(page[p]) /\ Answers(page[p], asks[p])
    BY PageIs
  <2>3. DueOf(page[p])' = DueOf(page[p])
    BY <1>1, <1>5, <2>1 DEF DueOf
  <2>4. Heard(page[p])'
    <3>1. page[p].epoch \in Nat /\ page[p].epoch <= restarts /\ page[p].heard \subseteq 1..Len(published)
          /\ page[p].since <= Len(published) /\ (page[p].lastId = 0 => page[p].heard = {})
      BY <2>2 DEF Heard, Page
    <3>2. page[p].epoch <= restarts' /\ page[p].epoch # restarts'
      BY <1>1, <1>2, <3>1
    <3>3. \A s \in page[p].heard : s <= Len(published)
      BY <1>2, <3>1
    <3> QED
      BY <1>1, <1>3, <1>5, <2>1, <3>1, <3>2, <3>3 DEF Heard
  <2>5. OnTheWay(page[p], pipe[p])'
    BY <1>4, <1>5, <2>1 DEF OnTheWay
  <2>6. Answers(page[p], asks[p])'
    <3>1. ASSUME r(p).state # "off", ~r(p).gap, ~r(p).behind, DueOf(page[p]) \subseteq r(p).heard
          PROVE  r(p).shown = table
      <4>1. asks[p] = <<>> /\ Len(asks[p]) = 0 /\ ~page[p].behind
        BY <1>5, <3>1
      <4> QED
        BY <1>5, <2>2, <3>1, <4>1 DEF Answers
    <3>2. r(p).shown <= table
      BY <1>5, <2>2 DEF Answers
    <3> QED
      BY <1>1, <1>2, <1>4, <2>1, <2>3, <3>1, <3>2 DEF Answers
  <2> QED
    BY <2>4, <2>5, <2>6 DEF PageHolds
<1>9. ghosts' \in Nat /\ Bus!Streams' <= MaxStreams
  <2>1. {p \in Pages : Bus!Open(p)'} = {}
    BY <1>1, <1>5 DEF Bus!Open
  <2>2. Cardinality({p \in Pages : Bus!Open(p)'}) = 0
    BY <2>1, FS_EmptySet, Zenon
  <2>3. Bus!Streams' = Cardinality({p \in Pages : Bus!Open(p)'}) + ghosts'
    BY BusCounts DEF Bus!Streams
  <2> QED
    BY <1>1, <1>2, <2>2, <2>3
<1> QED
  BY <1>6, <1>7, <1>8, <1>9 DEF StreamInv

LEMMA StreamRests ==
    ASSUME BusTypes, BufferHolds, \A p \in Pages : PageHolds(p),
           UNCHANGED <<table, published, nextId, buffer, restarts, page, pipe, asks>>
    PROVE  BusTypes' /\ BufferHolds' /\ \A p \in Pages : PageHolds(p)'
<1>1. BusTypes'
  BY DEF BusTypes, Earlier
<1>2. BufferHolds'
  BY DEF BufferHolds
<1>3. ASSUME NEW p \in Pages PROVE PageHolds(p)'
  <2>0. Heard(page[p]) /\ OnTheWay(page[p], pipe[p]) /\ Answers(page[p], asks[p])
    BY DEF PageHolds
  <2>1. Heard(page[p])'
    BY <2>0 DEF Heard, Earlier, DueOf
  <2>2. OnTheWay(page[p], pipe[p])'
    BY <2>0 DEF OnTheWay, Earlier, DueOf
  <2>3. Answers(page[p], asks[p])'
    BY <2>0 DEF Answers, DueOf
  <2> QED
    BY <2>1, <2>2, <2>3 DEF PageHolds
<1> QED
  BY <1>1, <1>2, <1>3

LEMMA StreamNext ==
    ASSUME Bus!BoundsAreSound, StreamInv, [Bus!Next]_(Bus!vars) PROVE StreamInv'
<1>1. CASE UNCHANGED Bus!vars
  <2>1. BusTypes' /\ BufferHolds' /\ (\A p \in Pages : PageHolds(p)') /\ ghosts' \in Nat
    BY <1>1, StreamRests DEF Bus!vars, Bus!bus, Bus!bounds, StreamInv
  <2>2. Bus!Streams' = Bus!Streams
    BY <1>1 DEF Bus!vars, Bus!Streams, Bus!Open
  <2> QED
    BY <2>1, <2>2 DEF StreamInv
<1>2. CASE Bus!Change
  BY <1>2, BusPublishes DEF Bus!Change, Kinds, Bus!bounds
<1>3. CASE Bus!PublishOther
  BY <1>3, BusPublishes DEF Bus!PublishOther, Kinds, Bus!bounds
<1>4. CASE Bus!Restart
  BY <1>4, BusRestarts
<1>5. CASE Bus!Notice
  <2>1. /\ ghosts' = ghosts - 1 /\ ghosts > 0 /\ ghosts \in Nat
        /\ UNCHANGED <<table, published, nextId, buffer, page, pipe, asks, restarts>>
    BY <1>5 DEF Bus!Notice, StreamInv, Bus!bus, Bus!bounds
  <2>2. BusTypes' /\ BufferHolds' /\ \A p \in Pages : PageHolds(p)'
    BY <2>1, StreamRests DEF StreamInv
  <2>3. ghosts' \in Nat /\ ghosts' <= ghosts
    BY <2>1
  <2>4. Bus!Streams' <= MaxStreams
    <3> DEFINE c == Cardinality({p \in Pages : Bus!Open(p)})
    <3>1. Bus!Streams = c + ghosts /\ Bus!Streams' = c + ghosts'
      BY <2>1, BusCounts DEF Bus!Streams, Bus!Open
    <3>2. c \in Nat /\ MaxStreams \in Nat
      <4>1. IsFiniteSet(Pages) /\ MaxStreams \in Nat
        BY BusCounts DEF Bus!BoundsAreSound
      <4> QED
        BY <4>1, FS_Subset, FS_CardinalityType
    <3>3. c + ghosts <= MaxStreams
      BY <3>1 DEF StreamInv
    <3> HIDE DEF c
    <3> QED
      BY <2>1, <2>3, <3>1, <3>2, <3>3
  <2> QED
    BY <2>2, <2>3, <2>4 DEF StreamInv
<1>6. ASSUME NEW p \in Pages, Bus!Mount(p) \/ Bus!Unmount(p) \/ Bus!Drop(p) PROVE StreamInv'
  BY <1>6, PageComes
<1>7. ASSUME NEW p \in Pages, Bus!Connect(p) PROVE StreamInv'
  BY <1>7, PageConnects
<1>8. ASSUME NEW p \in Pages, Bus!Receive(p) PROVE StreamInv'
  BY <1>8, PageReceives
<1>9. ASSUME NEW p \in Pages,
             Bus!Poll(p) \/ \E i \in 1..MaxAsks : Bus!Serve(p, i) \/ Bus!Arrive(p, i) \/ Bus!Fail(p, i)
      PROVE  StreamInv'
  BY <1>9, PageAsks
<1> QED
  BY <1>1, <1>2, <1>3, <1>4, <1>5, <1>6, <1>7, <1>8, <1>9 DEF Bus!Next

(* A page that has its stream again missed nothing that was published, or  *)
(* asks again; and a page that waits for nothing shows its table: for any  *)
(* number of pages, tables and events, however small the buffer, and with  *)
(* streams dropped, the process restarted, and answers lost or late.       *)
THEOREM StreamsResume ==
    ASSUME Bus!BoundsAreSound
    PROVE  Bus!Init /\ [][Bus!Next]_(Bus!vars) =>
             [](Bus!ResumesWithoutAGap /\ Bus!QuietPageIsCurrent /\ Bus!StreamTypeOK)
<1>1. StreamInv => Bus!ResumesWithoutAGap /\ Bus!QuietPageIsCurrent /\ Bus!StreamTypeOK
  BY StreamIsRight
<1> QED
  BY <1>1, StreamInit, StreamNext, PTL

-----------------------------------------------------------------------------
(* The log.  below[n] is how many of the first n generations hold lines:   *)
(* all that do but the live file are full.                                 *)
Full(n) == PerFile * n
Lines(n) == Len(wrote) - Len(file[0]) - Full(n)   \* where n full files begin
LogTypes ==
    /\ next \in Nat /\ file \in [0..MaxFiles -> Seq(Nat)] /\ wrote \in Seq(Nat) /\ rows \in Seq(Nat)
    /\ shift \in (0..MaxFiles - 1) \cup {Log!NoGeneration} /\ live \in {0, Log!NoGeneration}
    /\ running /\ shift = Log!NoGeneration <=> live = 0
    /\ ~running => shift = Log!NoGeneration
    /\ uses \in [{"ends", "clicks"} -> Nat]
LiveHolds ==
    /\ Len(file[0]) <= PerFile /\ Len(file[0]) <= Len(wrote)
    /\ \A i \in 1..Len(file[0]) : file[0][i] = wrote[Lines(0) + i]
Generations(below) ==
    /\ below \in [0..MaxFiles -> Nat] /\ below[0] = 0
    /\ \A n \in 0..MaxFiles : Lines(below[n]) >= 0
    /\ \A n \in 1..MaxFiles :
         /\ \/ file[n] = <<>> /\ below[n] = below[n - 1]
            \/ Len(file[n]) = PerFile /\ below[n] = below[n - 1] + 1
         /\ \A i \in 1..Len(file[n]) : file[n][i] = wrote[Lines(below[n]) + i]
Rotating(n) == IF shift # Log!NoGeneration /\ shift < n THEN 1 ELSE 0
Holes(below) ==
    /\ \A n \in 1..MaxFiles : file[n] # <<>> => n <= below[n] + uses["ends"] + Rotating(n)
    /\ Lines(below[MaxFiles]) > 0 => MaxFiles <= below[MaxFiles] + uses["ends"] + Rotating(MaxFiles)
FilesInv ==
    /\ LogTypes /\ LiveHolds
    /\ shift # Log!NoGeneration => Len(file[0]) = PerFile /\ file[shift + 1] = <<>>
    /\ \E below : Generations(below) /\ Holes(below)
ViewInv ==
    /\ rows \in Seq(Nat) /\ feed \in Seq(Nat) /\ logPage \in Seq(Nat)
    /\ conn # "open" => feed = <<>>
    /\ conn = "open" /\ ~paused => offered \subseteq Log!Range(feed) \cup Log!Range(logPage)

LEMMA Fulls ==
    ASSUME Log!BoundsAreSound
    PROVE  /\ Full(0) = 0
           /\ \A n \in Nat : Full(n) \in Nat /\ Full(n + 1) = Full(n) + PerFile
           /\ \A m, n \in Nat : m <= n => Full(m) <= Full(n)
<1>1. PerFile \in Nat \ {0}
  BY DEF Log!BoundsAreSound
<1>2. \A n \in Nat : PerFile * n \in Nat /\ PerFile * (n + 1) = PerFile * n + PerFile
  BY <1>1
<1>3. ASSUME NEW m \in Nat, NEW n \in Nat, m <= n PROVE PerFile * m <= PerFile * n
  <2>1. n - m \in Nat
    BY <1>3
  <2>2. PerFile * (n - m) \in Nat /\ PerFile * (n - m) = PerFile * n - PerFile * m
    BY <1>1, <1>2, <2>1
  <2> QED
    BY <1>2, <2>2
<1> QED
  BY <1>1, <1>2, <1>3 DEF Full

LEMMA LineStarts == \A n : Lines(n)' = Len(wrote') - Len(file'[0]) - Full(n)
BY DEF Lines, Full

LEMMA GenerationIs ==
    ASSUME Log!BoundsAreSound, LogTypes, LiveHolds, NEW below, Generations(below), NEW n \in 1..MaxFiles
    PROVE  /\ n \in Nat /\ n - 1 \in 0..MaxFiles /\ n \in 0..MaxFiles
           /\ below[n] \in Nat /\ below[n - 1] \in Nat
           /\ Full(below[n]) \in Nat /\ Full(below[n - 1]) \in Nat
           /\ Lines(below[n]) \in Nat
           /\ file[n] \in Seq(Nat) /\ Len(file[n]) \in Nat
           /\ \/ /\ file[n] = <<>> /\ Len(file[n]) = 0
                 /\ below[n] = below[n - 1] /\ Full(below[n]) = Full(below[n - 1])
              \/ /\ file[n] # <<>> /\ Len(file[n]) = PerFile
                 /\ below[n] = below[n - 1] + 1 /\ Full(below[n]) = Full(below[n - 1]) + PerFile
           /\ Lines(below[n - 1]) = Lines(below[n]) + Len(file[n])
           /\ Lines(below[n - 1]) <= Len(wrote) - Len(file[0])
<1>1. /\ MaxFiles \in Nat \ {0} /\ PerFile \in Nat \ {0} /\ n \in Nat /\ n >= 1 /\ n <= MaxFiles
      /\ file \in [0..MaxFiles -> Seq(Nat)] /\ wrote \in Seq(Nat)
  BY DEF Log!BoundsAreSound, LogTypes
<1>2. n - 1 \in 0..MaxFiles /\ n \in 0..MaxFiles /\ 0 \in 0..MaxFiles
  BY <1>1
<1>3. /\ file[n] \in Seq(Nat) /\ Len(file[n]) \in Nat /\ Len(wrote) \in Nat
      /\ file[0] \in Seq(Nat) /\ Len(file[0]) \in Nat
  BY <1>1, <1>2
<1>4. below[n] \in Nat /\ below[n - 1] \in Nat /\ Lines(below[n]) >= 0
  BY <1>2 DEF Generations
<1>5. /\ Full(below[n]) \in Nat /\ Full(below[n - 1]) \in Nat
      /\ Full(below[n - 1] + 1) = Full(below[n - 1]) + PerFile
  BY <1>4, Fulls
<1>6. \/ file[n] = <<>> /\ below[n] = below[n - 1]
      \/ Len(file[n]) = PerFile /\ below[n] = below[n - 1] + 1
  BY DEF Generations
<1>7. \A s \in Seq(Nat) : s = <<>> <=> Len(s) = 0
  OBVIOUS
<1>8. \/ /\ file[n] = <<>> /\ Len(file[n]) = 0
         /\ below[n] = below[n - 1] /\ Full(below[n]) = Full(below[n - 1])
      \/ /\ file[n] # <<>> /\ Len(file[n]) = PerFile
         /\ below[n] = below[n - 1] + 1 /\ Full(below[n]) = Full(below[n - 1]) + PerFile
  BY <1>1, <1>3, <1>5, <1>6, <1>7
<1>9. /\ Lines(below[n]) = Len(wrote) - Len(file[0]) - Full(below[n])
      /\ Lines(below[n - 1]) = Len(wrote) - Len(file[0]) - Full(below[n - 1])
  BY DEF Lines
<1>10. /\ Lines(below[n]) \in Nat /\ Lines(below[n - 1]) = Lines(below[n]) + Len(file[n])
       /\ Lines(below[n - 1]) <= Len(wrote) - Len(file[0])
  <2>2. Full(below[n]) = Full(below[n - 1]) + Len(file[n])
    <3>1. Full(below[n - 1]) + 0 = Full(below[n - 1])
      BY <1>5
    <3> QED
      BY <1>8, <3>1
  <2>3. /\ Len(wrote) \in Nat /\ Len(file[0]) \in Nat /\ Len(file[n]) \in Nat
        /\ Full(below[n]) \in Nat /\ Full(below[n - 1]) \in Nat
        /\ Len(wrote) - Len(file[0]) - Full(below[n]) >= 0
    BY <1>3, <1>4, <1>5, <1>9
  <2>4. Lines(below[n]) \in Nat
    BY <1>9, <2>3
  <2>5. PICK w \in Nat, f \in Nat, x \in Nat, y \in Nat, l \in Nat :
          /\ w = Len(wrote) /\ f = Len(file[0]) /\ l = Len(file[n])
          /\ x = Full(below[n]) /\ y = Full(below[n - 1])
    BY <2>3
  <2>6. w - f - y = w - f - x + l /\ w - f - y <= w - f
    <3>1. x = y + l
      BY <2>2, <2>5
    <3> QED
      BY <3>1
  <2> QED
    BY <1>9, <2>4, <2>5, <2>6
<1> QED
  BY <1>1, <1>2, <1>3, <1>4, <1>5, <1>8, <1>10

LEMMA LogRests ==
    ASSUME Log!BoundsAreSound, FilesInv, LogTypes', UNCHANGED <<file, wrote>>,
           shift' \in {shift, Log!NoGeneration},
           \A n \in 0..MaxFiles : uses["ends"] + Rotating(n) <= uses'["ends"] + Rotating(n)'
    PROVE  FilesInv'
<1>1. LiveHolds'
  BY LineStarts DEF FilesInv, LiveHolds, Lines
<1>2. PICK below : Generations(below) /\ Holes(below)
  BY DEF FilesInv
<1>3. Generations(below)'
  BY <1>2, LineStarts DEF Generations, Lines
<1>4. Holes(below)'
  <2>1. /\ uses["ends"] \in Nat /\ uses'["ends"] \in Nat /\ MaxFiles \in Nat \ {0}
        /\ \A n \in 0..MaxFiles : below[n] \in Nat /\ Rotating(n) \in {0, 1} /\ Rotating(n)' \in {0, 1}
    <3>1. uses["ends"] \in Nat /\ uses'["ends"] \in Nat /\ MaxFiles \in Nat \ {0}
      BY DEF FilesInv, LogTypes, Log!BoundsAreSound
    <3> QED
      BY <1>2, <3>1 DEF Generations, Rotating
  <2>2. \A n \in 0..MaxFiles : Lines(below[n])' = Lines(below[n])
    BY LineStarts DEF Lines
  <2>3. MaxFiles \in 0..MaxFiles /\ \A n \in 1..MaxFiles : n \in 0..MaxFiles /\ n \in Nat
    BY <2>1
  <2>4. \A x, y, u, v, r, t \in Nat : x <= y + u + r /\ u + r <= v + t => x <= y + v + t
    OBVIOUS
  <2>5. ASSUME NEW n \in 1..MaxFiles, file'[n] # <<>>
        PROVE  n <= below[n] + uses'["ends"] + Rotating(n)'
    <3>1. n <= below[n] + uses["ends"] + Rotating(n)
      BY <1>2, <2>5 DEF Holes
    <3> QED
      BY <2>1, <2>3, <2>4, <3>1
  <2>6. ASSUME Lines(below[MaxFiles]) > 0
        PROVE  MaxFiles <= below[MaxFiles] + uses'["ends"] + Rotating(MaxFiles)'
    <3>1. MaxFiles <= below[MaxFiles] + uses["ends"] + Rotating(MaxFiles)
      BY <1>2, <2>6 DEF Holes
    <3> QED
      BY <2>1, <2>3, <2>4, <3>1
  <2> QED
    BY <2>2, <2>3, <2>5, <2>6 DEF Holes
<1> QED
  BY <1>1, <1>3, <1>4 DEF FilesInv, Log!NoGeneration

LEMMA FilesInit == Log!BoundsAreSound /\ Log!Init => FilesInv
<1> SUFFICES ASSUME Log!BoundsAreSound, Log!Init PROVE FilesInv
  OBVIOUS
<1> DEFINE below == [n \in 0..MaxFiles |-> 0]
<1>1. /\ MaxFiles \in Nat \ {0} /\ PerFile \in Nat \ {0}
      /\ file = [n \in 0..MaxFiles |-> <<>>] /\ wrote = <<>> /\ rows = <<>> /\ next = 1
      /\ running = TRUE /\ live = 0 /\ shift = Log!NoGeneration
      /\ uses = [b \in {"ends", "clicks"} |-> 0]
  <2>1. DOMAIN Log!Bound = {"ends", "clicks"}
    BY DEF Log!Bound
  <2> QED
    BY <2>1 DEF Log!Init, Log!BoundsAreSound
<1>2. <<>> \in Seq(Nat) /\ Len(<<>>) = 0
  OBVIOUS
<1>3. LogTypes /\ LiveHolds
  BY <1>1, <1>2 DEF LogTypes, LiveHolds, Log!NoGeneration
<1>4. Full(0) = 0
  BY Fulls
<1>5. Generations(below) /\ Holes(below)
  BY <1>1, <1>2, <1>4 DEF Generations, Holes, Lines, Rotating
<1> QED
  BY <1>1, <1>3, <1>5 DEF FilesInv

LEMMA LineIsWritten ==
    ASSUME Log!BoundsAreSound, FilesInv, Log!Write PROVE FilesInv'
<1> DEFINE w == Len(wrote)  f == Len(file[0])
<1>1. /\ shift = Log!NoGeneration /\ f < PerFile
      /\ file' = [file EXCEPT ![0] = Append(@, next)] /\ wrote' = Append(wrote, next)
      /\ rows' \in {rows, Append(rows, next)} /\ next' = next + 1
      /\ UNCHANGED <<running, live, shift, uses>>
  BY DEF Log!Write, Log!Ingested
<1>2. /\ next \in Nat /\ file \in [0..MaxFiles -> Seq(Nat)] /\ wrote \in Seq(Nat)
      /\ rows \in Seq(Nat) /\ MaxFiles \in Nat \ {0} /\ PerFile \in Nat \ {0}
  BY DEF FilesInv, LogTypes, Log!BoundsAreSound
<1>3. /\ wrote' \in Seq(Nat) /\ Len(wrote') = w + 1 /\ wrote'[w + 1] = next
      /\ \A i \in 1..w : wrote'[i] = wrote[i]
  BY <1>1, <1>2
<1>4. /\ file'[0] = Append(file[0], next) /\ \A n \in 1..MaxFiles : file'[n] = file[n]
      /\ file' \in [0..MaxFiles -> Seq(Nat)]
  <2>1. 0 \in 0..MaxFiles /\ file[0] \in Seq(Nat)
    BY <1>2
  <2>2. Append(file[0], next) \in Seq(Nat)
    BY <1>2, <2>1
  <2> QED
    BY <1>1, <1>2, <2>1, <2>2
<1>5. /\ file[0] \in Seq(Nat) /\ f \in Nat /\ w \in Nat /\ f <= w /\ Len(file'[0]) = f + 1
      /\ file'[0][f + 1] = next /\ \A i \in 1..f : file'[0][i] = file[0][i]
  <2>1. file[0] \in Seq(Nat)
    BY <1>2
  <2>2. f <= w
    BY DEF FilesInv, LiveHolds
  <2> QED
    BY <1>2, <1>4, <2>1, <2>2
<1>6. /\ \A n \in Nat : Lines(n)' = Lines(n)
      /\ Lines(0) = w - f
  <2>1. \A n \in Nat : Full(n) \in Nat /\ Full(0) = 0
    BY Fulls
  <2>2. \A p \in Nat : (w + 1) - (f + 1) - p = w - f - p
    BY <1>5
  <2>3. \A n : Lines(n)' = (w + 1) - (f + 1) - Full(n) /\ Lines(n) = w - f - Full(n)
    BY <1>3, <1>5, LineStarts DEF Lines
  <2> HIDE DEF w, f
  <2> QED
    BY <1>5, <2>1, <2>2, <2>3
<1>7. LogTypes'
  <2>1. Append(rows, next) \in Seq(Nat)
    BY <1>2
  <2>2. rows' \in Seq(Nat)
    BY <1>1, <1>2, <2>1
  <2> QED
    BY <1>1, <1>2, <1>3, <1>4, <2>2 DEF FilesInv, LogTypes, Log!NoGeneration
<1>8. LiveHolds'
  <2>1. \A i \in 1..f : file[0][i] = wrote[w - f + i]
    BY <1>6 DEF FilesInv, LiveHolds
  <2>2. Lines(0)' = w - f
    BY <1>6
  <2>3. ASSUME NEW i \in 1..f + 1 PROVE file'[0][i] = wrote'[w - f + i]
    <3>1. CASE i \in 1..f
      <4>1. w - f + i \in 1..w
        BY <1>5, <3>1
      <4> QED
        BY <1>3, <1>5, <2>1, <3>1, <4>1
    <3>2. CASE i = f + 1
      <4>1. \A x, y \in Nat : x - y + (y + 1) = x + 1
        OBVIOUS
      <4>2. w - f + i = w + 1
        BY <1>5, <3>2, <4>1
      <4> QED
        BY <1>3, <1>5, <3>2, <4>2
    <3>3. \A y \in Nat : \A j \in 1..y + 1 : j \in 1..y \/ j = y + 1
      OBVIOUS
    <3> QED
      BY <1>5, <3>1, <3>2, <3>3
  <2>4. f + 1 <= PerFile /\ f + 1 <= w + 1
    BY <1>1, <1>2, <1>5
  <2> QED
    BY <1>3, <1>5, <2>2, <2>3, <2>4 DEF LiveHolds
<1>9. PICK below : Generations(below) /\ Holes(below)
  BY DEF FilesInv
<1>10. LogTypes /\ LiveHolds /\ \A n \in 0..MaxFiles : below[n] \in Nat
  BY <1>9 DEF FilesInv, Generations
<1>11. Generations(below)'
  <2>1. \A n \in 0..MaxFiles : Lines(below[n])' >= 0
    BY <1>6, <1>9, <1>10 DEF Generations
  <2>2. ASSUME NEW n \in 1..MaxFiles, NEW i \in 1..Len(file[n])
        PROVE  file[n][i] = wrote'[Lines(below[n])' + i]
    <3>1. Lines(below[n]) + i \in 1..w
      <4>1. /\ Lines(below[n]) \in Nat /\ Len(file[n]) \in Nat
            /\ Lines(below[n]) + Len(file[n]) <= w - f
        BY <1>9, <1>10, GenerationIs
      <4> HIDE DEF w, f
      <4> QED
        BY <1>5, <4>1
    <3>2. file[n][i] = wrote[Lines(below[n]) + i]
      BY <1>9 DEF Generations
    <3>3. below[n] \in Nat
      BY <1>9, <1>10, GenerationIs
    <3> QED
      BY <1>3, <1>6, <3>1, <3>2, <3>3
  <2>3. Generations(below)
    BY <1>9
  <2> QED
    BY <1>4, <2>1, <2>2, <2>3 DEF Generations
<1>12. Holes(below)'
  <2>1. \A n \in 0..MaxFiles : Rotating(n)' = Rotating(n)
    BY <1>1 DEF Rotating, Log!NoGeneration
  <2>2. MaxFiles \in 0..MaxFiles /\ \A n \in 1..MaxFiles : n \in 0..MaxFiles
    BY <1>2
  <2>3. \A n \in 0..MaxFiles : Lines(below[n])' = Lines(below[n])
    BY <1>6, <1>10
  <2> QED
    BY <1>1, <1>4, <1>9, <2>1, <2>2, <2>3 DEF Holes
<1> QED
  BY <1>1, <1>7, <1>8, <1>11, <1>12 DEF FilesInv, Log!NoGeneration

LEMMA LogRotates ==
    ASSUME Log!BoundsAreSound, FilesInv, Log!Rotate PROVE FilesInv'
<1> DEFINE M == MaxFiles
<1>1. /\ shift = Log!NoGeneration /\ Len(file[0]) >= PerFile /\ live' = Log!NoGeneration
      /\ file' = [file EXCEPT ![M] = <<>>] /\ shift' = M - 1
      /\ UNCHANGED <<running, next, wrote, rows, uses>> /\ running
  BY DEF Log!Rotate
<1>2. /\ M \in Nat \ {0} /\ PerFile \in Nat /\ file \in [0..M -> Seq(Nat)] /\ wrote \in Seq(Nat)
      /\ uses["ends"] \in Nat /\ LogTypes /\ LiveHolds
  BY DEF FilesInv, LogTypes, Log!BoundsAreSound
<1>3. <<>> \in Seq(Nat) /\ Len(<<>>) = 0 /\ M - 1 \in 0..M /\ M - 1 \in 0..M - 1 /\ M \in 1..M
  BY <1>2
<1>4. /\ file' \in [0..M -> Seq(Nat)] /\ file'[M] = <<>> /\ \A n \in 0..M - 1 : file'[n] = file[n]
      /\ file'[0] = file[0] /\ file[0] \in Seq(Nat) /\ Len(file[0]) \in Nat /\ 0 \in 0..M
  BY <1>1, <1>2, <1>3
<1>5. \A n : Lines(n)' = Lines(n)
  BY <1>1, <1>4, LineStarts DEF Lines
<1>6. LogTypes' /\ LiveHolds'
  <2>1. LogTypes'
    <3>1. shift' \in 0..M - 1 /\ shift' # Log!NoGeneration /\ live' # 0
      BY <1>1, <1>2, <1>3 DEF Log!NoGeneration
    <3> QED
      BY <1>1, <1>2, <1>4, <3>1 DEF LogTypes, Log!NoGeneration
  <2>2. LiveHolds'
    BY <1>1, <1>2, <1>4, <1>5 DEF LiveHolds
  <2> QED
    BY <2>1, <2>2
<1>7. PICK below : Generations(below) /\ Holes(below)
  BY DEF FilesInv
<1> DEFINE b == [below EXCEPT ![M] = below[M - 1]]
<1>8. /\ below[M - 1] \in Nat /\ below[M] \in Nat
      /\ \/ file[M] = <<>> /\ below[M] = below[M - 1]
         \/ file[M] # <<>> /\ below[M] = below[M - 1] + 1
  BY <1>2, <1>3, <1>7, GenerationIs
<1>9. /\ b \in [0..M -> Nat] /\ b[M] = below[M - 1] /\ \A n \in 0..M - 1 : b[n] = below[n]
      /\ b[0] = 0
  <2>1. below \in [0..M -> Nat] /\ below[0] = 0
    BY <1>7 DEF Generations
  <2>2. \A n \in 0..M - 1 : n \in 0..M /\ n # M
    BY <1>2
  <2>3. 0 \in 0..M - 1 /\ M \in 0..M
    BY <1>2
  <2> QED
    BY <1>8, <2>1, <2>2, <2>3
<1> HIDE DEF b
<1>10. Generations(b)'
  <2>1. \A n \in 0..M : Lines(b[n])' >= 0
    <3>1. \A n \in 0..M : Lines(below[n]) >= 0
      BY <1>7 DEF Generations
    <3>2. \A n \in 0..M : n = M \/ n \in 0..M - 1
      BY <1>2
    <3> QED
      BY <1>3, <1>5, <1>9, <3>1, <3>2
  <2>2. ASSUME NEW n \in 1..M
        PROVE  /\ \/ file'[n] = <<>> /\ b[n] = b[n - 1]
                  \/ Len(file'[n]) = PerFile /\ b[n] = b[n - 1] + 1
               /\ \A i \in 1..Len(file'[n]) : file'[n][i] = wrote[Lines(b[n]) + i]
    <3>1. CASE n = M
      <4>1. b[M] = b[M - 1] /\ file'[M] = <<>> /\ 1..Len(<<>>) = {}
        BY <1>3, <1>4, <1>9
      <4> QED
        BY <3>1, <4>1
    <3>2. CASE n # M
      <4>1. n \in 0..M - 1 /\ n - 1 \in 0..M - 1
        BY <1>2, <3>2
      <4> QED
        BY <1>4, <1>7, <1>9, <4>1 DEF Generations
    <3> QED
      BY <3>1, <3>2
  <2> QED
    BY <1>1, <1>5, <1>9, <2>1, <2>2 DEF Generations
<1>11. Holes(b)'
  <2>1. \A n \in 0..M : Rotating(n)' = IF M - 1 < n THEN 1 ELSE 0
    <3>1. M - 1 # M + 1
      BY <1>2
    <3> QED
      BY <1>1, <3>1 DEF Rotating, Log!NoGeneration
  <2>2. \A n \in 0..M : Rotating(n) = 0
    BY <1>1 DEF Rotating
  <2>3. ASSUME NEW n \in 1..M, file'[n] # <<>> PROVE n <= b[n] + uses["ends"] + Rotating(n)'
    <3>1. n \in 0..M - 1 /\ n \in 0..M /\ n \in Nat
      BY <1>2, <1>4, <2>3
    <3>2. n <= below[n] + uses["ends"] + Rotating(n) /\ below[n] \in Nat
      BY <1>4, <1>7, <2>3, <3>1 DEF Holes, Generations
    <3>3. Rotating(n)' = 0
      BY <1>2, <2>1, <3>1
    <3> QED
      BY <1>2, <1>9, <2>2, <3>1, <3>2, <3>3
  <2>4. ASSUME Lines(b[M]) > 0 PROVE M <= b[M] + uses["ends"] + Rotating(M)'
    <3>1. Rotating(M)' = 1 /\ Rotating(M) = 0
      BY <1>2, <1>3, <2>1, <2>2
    <3>2. M <= below[M] + uses["ends"]
      <4>1. CASE file[M] # <<>>
        BY <1>2, <1>3, <1>7, <1>8, <3>1, <4>1 DEF Holes
      <4>2. CASE file[M] = <<>>
        <5>1. below[M] + uses["ends"] + 0 = below[M] + uses["ends"]
          BY <1>2, <1>8
        <5>2. Lines(below[M]) > 0
          BY <1>8, <1>9, <2>4, <4>2
        <5> QED
          BY <1>7, <3>1, <5>1, <5>2 DEF Holes
      <4> QED
        BY <4>1, <4>2
    <3>3. \A x, y, z, e \in Nat : x <= y + e /\ (y = z \/ y = z + 1) => x <= z + e + 1
      OBVIOUS
    <3>4. M \in Nat /\ uses["ends"] \in Nat
      BY <1>2
    <3> QED
      BY <1>8, <1>9, <3>1, <3>2, <3>3, <3>4
  <2> QED
    BY <1>1, <1>5, <2>3, <2>4 DEF Holes
<1>12. Len(file'[0]) = PerFile /\ file'[shift' + 1] = <<>>
  BY <1>1, <1>2, <1>4 DEF LiveHolds
<1> QED
  BY <1>6, <1>10, <1>11, <1>12 DEF FilesInv

(* Nothing moves from a generation that is not there. *)
LEMMA LogSkips ==
    ASSUME Log!BoundsAreSound, FilesInv, Log!Shift, file[shift] = <<>> PROVE FilesInv'
<1> DEFINE M == MaxFiles  s == shift
<1>1. /\ M \in Nat \ {0} /\ PerFile \in Nat \ {0} /\ file \in [0..M -> Seq(Nat)]
      /\ wrote \in Seq(Nat) /\ uses["ends"] \in Nat /\ LogTypes /\ LiveHolds
      /\ running /\ s # Log!NoGeneration /\ s \in 0..M - 1
      /\ Len(file[0]) = PerFile /\ file[s + 1] = <<>>
  BY DEF FilesInv, LogTypes, Log!BoundsAreSound, Log!Shift
<1>2. Len(<<>>) = 0 /\ s # 0
  BY <1>1
<1>3. /\ file' = file /\ shift' = s - 1 /\ live' = live
      /\ UNCHANGED <<running, next, wrote, rows, uses>>
  BY <1>2 DEF Log!Shift
<1>4. shift' \in 0..M - 1 /\ shift' # Log!NoGeneration /\ shift' + 1 = s
  BY <1>1, <1>2, <1>3 DEF Log!NoGeneration
<1>5. LogTypes' /\ LiveHolds' /\ \A n : Lines(n)' = Lines(n)
  <2>1. \A n : Lines(n)' = Lines(n)
    BY <1>3, LineStarts DEF Lines
  <2>2. LogTypes'
    BY <1>1, <1>3, <1>4 DEF LogTypes, Log!NoGeneration
  <2> QED
    BY <1>1, <1>3, <2>1, <2>2 DEF LiveHolds
<1>6. PICK below : Generations(below) /\ Holes(below)
  BY DEF FilesInv
<1>7. Generations(below)'
  BY <1>3, <1>5, <1>6 DEF Generations
<1>8. Holes(below)'
  <2>1. \A n \in 0..M : n # s => Rotating(n)' = Rotating(n)
    <3>1. \A n \in 0..M : n # s => (s - 1 < n <=> s < n)
      BY <1>1
    <3> QED
      BY <1>1, <1>3, <1>4, <3>1 DEF Rotating, Log!NoGeneration
  <2>2. M \in 0..M /\ M # s /\ \A n \in 1..M : n \in 0..M
    BY <1>1
  <2> QED
    BY <1>3, <1>5, <1>6, <2>1, <2>2 DEF Holes
<1> QED
  BY <1>1, <1>3, <1>4, <1>5, <1>7, <1>8 DEF FilesInv

LEMMA LogMovesUp ==
    ASSUME Log!BoundsAreSound, FilesInv, Log!Shift, file[shift] # <<>>, shift # 0 PROVE FilesInv'
<1> DEFINE M == MaxFiles
<1>0. PICK s : s = shift
  OBVIOUS
<1>1. /\ M \in Nat \ {0} /\ PerFile \in Nat \ {0} /\ file \in [0..M -> Seq(Nat)]
      /\ wrote \in Seq(Nat) /\ uses["ends"] \in Nat /\ LogTypes /\ LiveHolds
      /\ running /\ s # Log!NoGeneration /\ s \in 1..M - 1
      /\ Len(file[0]) = PerFile /\ file[s + 1] = <<>> /\ file[s] # <<>> /\ shift = s
  <2>1. /\ M \in Nat \ {0} /\ PerFile \in Nat \ {0} /\ file \in [0..M -> Seq(Nat)]
        /\ wrote \in Seq(Nat) /\ LogTypes /\ LiveHolds /\ uses \in [{"ends", "clicks"} -> Nat]
        /\ s \in (0..M - 1) \cup {Log!NoGeneration}
    BY <1>0 DEF FilesInv, LogTypes, Log!BoundsAreSound
  <2>2. running /\ s # Log!NoGeneration
    BY <1>0 DEF Log!Shift
  <2>3. Len(file[0]) = PerFile /\ file[s + 1] = <<>>
    BY <1>0, <2>2 DEF FilesInv
  <2>4. s \in 1..M - 1
    BY <1>0, <2>1, <2>2
  <2> QED
    BY <1>0, <2>1, <2>2, <2>3, <2>4
<1>2. /\ file' = [file EXCEPT ![s + 1] = file[s], ![s] = <<>>] /\ shift' = s - 1 /\ live' = live
      /\ UNCHANGED <<running, next, wrote, rows, uses>>
  BY <1>0 DEF Log!Shift, Log!Moved
<1>3. shift' \in 0..M - 1 /\ shift' # Log!NoGeneration /\ shift' + 1 = s
  BY <1>1, <1>2 DEF Log!NoGeneration
<1>4. /\ <<>> \in Seq(Nat) /\ Len(<<>>) = 0 /\ s \in 1..M /\ s + 1 \in 1..M /\ s - 1 \in 0..M
      /\ s \in 0..M /\ s + 1 \in 0..M /\ s + 1 # s /\ s - 1 # s /\ 0 \in 0..M /\ (s + 1) - 1 = s
      /\ s # 0 /\ s + 1 # 0
  BY <1>1
<1>5. /\ file' \in [0..M -> Seq(Nat)] /\ file'[s + 1] = file[s] /\ file'[s] = <<>>
      /\ \A n \in 0..M : n # s /\ n # s + 1 => file'[n] = file[n]
      /\ file'[0] = file[0]
  <2>1. file[s] \in Seq(Nat)
    BY <1>1, <1>4
  <2> QED
    BY <1>1, <1>2, <1>4, <2>1
<1>6. LogTypes' /\ LiveHolds' /\ \A n : Lines(n)' = Lines(n)
  <2>1. \A n : Lines(n)' = Lines(n)
    BY <1>2, <1>5, LineStarts DEF Lines
  <2>2. LogTypes'
    BY <1>1, <1>2, <1>3, <1>5 DEF LogTypes, Log!NoGeneration
  <2> QED
    BY <1>1, <1>2, <1>5, <2>1, <2>2 DEF LiveHolds
<1>7. PICK below : Generations(below) /\ Holes(below)
  BY DEF FilesInv
<1> DEFINE b == [below EXCEPT ![s] = below[s - 1]]
<1>8. /\ below[s] \in Nat /\ below[s - 1] \in Nat /\ below[s] = below[s - 1] + 1
      /\ below[s + 1] = below[s] /\ Len(file[s]) = PerFile
  <2>1. below[s + 1] = below[s]
    BY <1>1, <1>4, <1>7, GenerationIs
  <2> QED
    BY <1>1, <1>4, <1>7, <2>1, GenerationIs
<1>9. /\ b \in [0..M -> Nat] /\ b[s] = below[s - 1] /\ \A n \in 0..M : n # s => b[n] = below[n]
      /\ b[0] = 0
  BY <1>4, <1>7, <1>8 DEF Generations
<1> HIDE DEF b
<1>10. Generations(b)'
  <2>1. \A n \in 0..M : Lines(b[n])' >= 0
    <3>1. \A n \in 0..M : Lines(below[n]) >= 0
      BY <1>7 DEF Generations
    <3> QED
      BY <1>4, <1>6, <1>9, <3>1
  <2>2. ASSUME NEW n \in 1..M
        PROVE  /\ \/ file'[n] = <<>> /\ b[n] = b[n - 1]
                  \/ Len(file'[n]) = PerFile /\ b[n] = b[n - 1] + 1
               /\ \A i \in 1..Len(file'[n]) : file'[n][i] = wrote[Lines(b[n]) + i]
    <3>1. CASE n = s
      BY <1>4, <1>5, <1>9, <3>1
    <3>2. CASE n = s + 1
      <4>1. b[n] = b[n - 1] + 1 /\ b[n] = below[s]
        BY <1>4, <1>8, <1>9, <3>2
      <4>2. \A i \in 1..Len(file[s]) : file[s][i] = wrote[Lines(below[s]) + i]
        BY <1>4, <1>7 DEF Generations
      <4> QED
        BY <1>5, <1>8, <3>2, <4>1, <4>2
    <3>3. CASE n # s /\ n # s + 1
      <4>1. n \in 0..M /\ n - 1 \in 0..M /\ n - 1 # s
        BY <1>1, <3>3
      <4> QED
        BY <1>5, <1>7, <1>9, <3>3, <4>1 DEF Generations
    <3> QED
      BY <3>1, <3>2, <3>3
  <2>3. wrote' = wrote /\ b \in [0..M -> Nat] /\ b[0] = 0 /\ \A n : Lines(n)' = Lines(n)
    BY <1>2, <1>6, <1>9
  <2> QED
    BY <2>1, <2>2, <2>3 DEF Generations
<1>11. Holes(b)'
  <2>1. \A n \in 0..M : Rotating(n)' = (IF s - 1 < n THEN 1 ELSE 0)
                        /\ Rotating(n) = IF s < n THEN 1 ELSE 0
    BY <1>0, <1>1, <1>2, <1>3 DEF Rotating, Log!NoGeneration
  <2>2. ASSUME NEW n \in 1..M, file'[n] # <<>> PROVE n <= b[n] + uses["ends"] + Rotating(n)'
    <3>1. n # s /\ n \in 0..M /\ n \in Nat
      BY <1>1, <1>5, <2>2
    <3>2. CASE n = s + 1
      <4>1. s <= below[s] + uses["ends"] + Rotating(s)
        BY <1>1, <1>4, <1>7 DEF Holes
      <4>2. Rotating(s) = 0 /\ Rotating(n)' = 1
        BY <1>1, <1>4, <2>1, <3>2
      <4>3. b[n] = below[s] /\ below[s] \in Nat /\ uses["ends"] \in Nat /\ s \in Nat
        <5>1. b[n] = below[s]
          BY <1>4, <1>8, <1>9, <3>2
        <5>2. below[s] \in Nat
          BY <1>8
        <5> QED
          BY <1>1, <5>1, <5>2
      <4>4. \A x, y, e \in Nat : x <= y + e + 0 => x + 1 <= y + e + 1
        OBVIOUS
      <4> QED
        BY <3>2, <4>1, <4>2, <4>3, <4>4
    <3>3. CASE n # s + 1
      <4>1. n <= below[n] + uses["ends"] + Rotating(n) /\ b[n] = below[n]
        BY <1>5, <1>7, <1>9, <2>2, <3>1, <3>3 DEF Holes
      <4>2. Rotating(n) = Rotating(n)'
        <5>1. s \in Nat /\ n \in Nat
          BY <1>1, <3>1
        <5>2. \A x, y \in Nat : y # x /\ y # x + 1 => (x - 1 < y <=> x < y)
          OBVIOUS
        <5> QED
          BY <2>1, <3>1, <3>3, <5>1, <5>2
      <4> QED
        BY <4>1, <4>2
    <3> QED
      BY <3>2, <3>3
  <2>3. Rotating(M) = Rotating(M)' /\ b[M] = below[M]
    <3>1. M \in 0..M /\ M # s /\ s - 1 < M /\ s < M
      BY <1>1
    <3> QED
      BY <1>9, <2>1, <3>1
  <2>4. Lines(b[M])' = Lines(below[M]) /\ uses' = uses
    BY <1>2, <1>6, <2>3
  <2>5. Lines(b[M])' > 0 => M <= b[M] + uses["ends"] + Rotating(M)'
    BY <1>7, <2>3, <2>4 DEF Holes
  <2> QED
    BY <2>2, <2>4, <2>5 DEF Holes
<1>12. Len(file'[0]) = PerFile /\ file'[shift' + 1] = <<>>
  BY <1>1, <1>3, <1>5
<1> QED
  BY <1>6, <1>10, <1>11, <1>12 DEF FilesInv

LEMMA LogIsOpened ==
    ASSUME Log!BoundsAreSound, FilesInv, Log!Shift, shift = 0 PROVE FilesInv'
<1> DEFINE M == MaxFiles  w == Len(wrote)
<1>1. /\ M \in Nat \ {0} /\ PerFile \in Nat \ {0} /\ file \in [0..M -> Seq(Nat)]
      /\ wrote \in Seq(Nat) /\ uses["ends"] \in Nat /\ LogTypes /\ LiveHolds
      /\ running /\ shift # Log!NoGeneration
      /\ Len(file[0]) = PerFile /\ file[1] = <<>>
  BY DEF FilesInv, LogTypes, Log!BoundsAreSound, Log!Shift
<1>2. /\ <<>> \in Seq(Nat) /\ Len(<<>>) = 0 /\ 0 \in 0..M /\ 1 \in 0..M /\ 1 \in 1..M /\ M \in 1..M
      /\ file[0] \in Seq(Nat) /\ file[0] # <<>> /\ w \in Nat /\ 1 - 1 = 0
  BY <1>1
<1>3. /\ file' = [file EXCEPT ![1] = file[0], ![0] = <<>>] /\ shift' = Log!NoGeneration /\ live' = 0
      /\ UNCHANGED <<running, next, wrote, rows, uses>>
  BY <1>2 DEF Log!Shift, Log!Moved
<1>4. /\ file' \in [0..M -> Seq(Nat)] /\ file'[1] = file[0] /\ file'[0] = <<>>
      /\ \A n \in 2..M : file'[n] = file[n]
  <2>1. \A n \in 2..M : n \in 0..M /\ n # 0 /\ n # 1
    BY <1>1
  <2>2. file \in [0..M -> Seq(Nat)] /\ file' = [file EXCEPT ![1] = file[0], ![0] = <<>>]
    BY <1>1, <1>3
  <2> QED
    BY <1>2, <2>1, <2>2
<1>5. /\ \A n \in Nat : Lines(n + 1)' = Lines(n)
      /\ Lines(0)' = w
  <2>1. \A n \in Nat : Full(n) \in Nat /\ Full(n + 1) = Full(n) + PerFile /\ Full(0) = 0
    BY Fulls
  <2>2. \A n : Lines(n)' = w - 0 - Full(n) /\ Lines(n) = w - PerFile - Full(n)
    BY <1>1, <1>2, <1>3, <1>4, LineStarts DEF Lines
  <2>3. \A x, y, z \in Nat : x - 0 - (z + y) = x - y - z /\ x - 0 - 0 = x
    OBVIOUS
  <2>4. w \in Nat /\ PerFile \in Nat
    BY <1>1
  <2> HIDE DEF w
  <2>5. Lines(0)' = w
    BY <2>1, <2>2, <2>3, <2>4
  <2>6. ASSUME NEW n \in Nat PROVE Lines(n + 1)' = Lines(n)
    BY <2>1, <2>2, <2>3, <2>4
  <2> QED
    BY <2>5, <2>6
<1>6. LogTypes' /\ LiveHolds'
  <2>1. LogTypes'
    BY <1>1, <1>3, <1>4 DEF LogTypes, Log!NoGeneration
  <2>2. LiveHolds'
    BY <1>1, <1>2, <1>3, <1>4 DEF LiveHolds
  <2> QED
    BY <2>1, <2>2
<1>7. PICK below : Generations(below) /\ Holes(below)
  BY DEF FilesInv
<1> DEFINE b == [n \in 0..M |-> IF n = 0 THEN 0 ELSE below[n] + 1]
<1>8. below[0] = 0 /\ below[1] = 0 /\ \A n \in 0..M : below[n] \in Nat
  <2>1. below[0] = 0 /\ \A n \in 0..M : below[n] \in Nat
    BY <1>7 DEF Generations
  <2>2. below[1] = below[1 - 1]
    BY <1>1, <1>2, <1>7, GenerationIs
  <2> QED
    BY <1>2, <2>1, <2>2
<1>9. /\ b \in [0..M -> Nat] /\ b[0] = 0 /\ b[1] = 1
      /\ \A n \in 0..M : n # 0 => b[n] = below[n] + 1 /\ Lines(b[n])' = Lines(below[n])
  <2>1. \A n \in 0..M : n # 0 => b[n] = below[n] + 1
    OBVIOUS
  <2>2. b \in [0..M -> Nat] /\ b[0] = 0 /\ b[1] = 1
    BY <1>2, <1>8
  <2> HIDE DEF b
  <2> QED
    BY <1>5, <1>8, <2>1, <2>2
<1> HIDE DEF b
<1>10. Generations(b)'
  <2>1. \A n \in 0..M : Lines(b[n])' >= 0
    <3>1. Lines(b[0])' >= 0
      BY <1>2, <1>5, <1>9
    <3>2. \A n \in 0..M : Lines(below[n]) >= 0
      BY <1>7 DEF Generations
    <3> QED
      BY <1>9, <3>1, <3>2
  <2>2. ASSUME NEW n \in 1..M
        PROVE  /\ \/ file'[n] = <<>> /\ b[n] = b[n - 1]
                  \/ Len(file'[n]) = PerFile /\ b[n] = b[n - 1] + 1
               /\ \A i \in 1..Len(file'[n]) : file'[n][i] = wrote[Lines(b[n])' + i]
    <3>1. CASE n = 1
      <4>1. Lines(b[n])' = Lines(0) /\ b[n] = b[n - 1] + 1
        BY <1>2, <1>8, <1>9, <3>1
      <4> QED
        BY <1>1, <1>4, <3>1, <4>1 DEF LiveHolds
    <3>2. CASE n # 1
      <4>1. n \in 2..M /\ n \in 0..M /\ n - 1 \in 0..M /\ n - 1 # 0 /\ n # 0
        BY <1>1, <3>2
      <4>2. b[n] = below[n] + 1 /\ b[n - 1] = below[n - 1] + 1 /\ Lines(b[n])' = Lines(below[n])
            /\ below[n] \in Nat /\ below[n - 1] \in Nat
        BY <1>8, <1>9, <4>1
      <4>3. /\ \/ file[n] = <<>> /\ below[n] = below[n - 1]
               \/ Len(file[n]) = PerFile /\ below[n] = below[n - 1] + 1
            /\ \A i \in 1..Len(file[n]) : file[n][i] = wrote[Lines(below[n]) + i]
        BY <1>7 DEF Generations
      <4> QED
        BY <1>4, <4>1, <4>2, <4>3
    <3> QED
      BY <3>1, <3>2
  <2> QED
    BY <1>3, <1>9, <2>1, <2>2 DEF Generations
<1>11. Holes(b)'
  <2>1. \A n \in 1..M : Rotating(n)' = 0 /\ Rotating(n) = 1
    BY <1>1, <1>3 DEF Rotating, Log!NoGeneration
  <2>2. ASSUME NEW n \in 1..M, file'[n] # <<>> PROVE n <= b[n] + uses["ends"] + 0
    <3>1. n \in 0..M /\ n # 0 /\ n \in Nat
      BY <1>1
    <3>2. CASE n = 1
      <4>1. uses["ends"] \in Nat /\ b[1] = 1
        BY <1>1, <1>9
      <4>2. \A e \in Nat : 1 <= 1 + e + 0
        OBVIOUS
      <4> QED
        BY <3>2, <4>1, <4>2
    <3>3. CASE n # 1
      <4>1. n \in 2..M
        BY <1>1, <3>3
      <4>2. n <= below[n] + uses["ends"] + 1 /\ b[n] = below[n] + 1 /\ below[n] \in Nat
        BY <1>4, <1>7, <1>8, <1>9, <2>1, <2>2, <3>1, <4>1 DEF Holes
      <4> QED
        BY <1>1, <3>1, <4>2
    <3> QED
      BY <3>2, <3>3
  <2>3. ASSUME Lines(b[M])' > 0 PROVE M <= b[M] + uses["ends"] + 0
    <3>1. M \in 0..M /\ M # 0
      BY <1>1
    <3>2. b[M] = below[M] + 1 /\ Lines(below[M]) > 0 /\ below[M] \in Nat
      BY <1>8, <1>9, <2>3, <3>1
    <3>3. M <= below[M] + uses["ends"] + 1
      BY <1>2, <1>7, <2>1, <3>2 DEF Holes
    <3> QED
      BY <1>1, <3>2, <3>3
  <2> QED
    BY <1>2, <1>3, <2>1, <2>2, <2>3 DEF Holes
<1> QED
  BY <1>3, <1>6, <1>10, <1>11 DEF FilesInv, Log!NoGeneration

LEMMA LogEnds ==
    ASSUME Log!BoundsAreSound, FilesInv, Log!End \/ Log!Restart PROVE FilesInv'
<1>1. LogTypes /\ uses["ends"] \in Nat /\ DOMAIN Log!Bound = {"ends", "clicks"}
      /\ MaxFiles \in Nat
  BY DEF FilesInv, LogTypes, Log!Bound, Log!BoundsAreSound
<1>2. CASE Log!End
  <2>1. /\ running /\ running' = FALSE /\ live' = Log!NoGeneration /\ shift' = Log!NoGeneration
        /\ uses' = [uses EXCEPT !["ends"] = @ + 1] /\ UNCHANGED <<next, file, wrote, rows>>
    BY <1>2 DEF Log!End, Log!Spend
  <2>2. uses' \in [{"ends", "clicks"} -> Nat] /\ uses'["ends"] = uses["ends"] + 1
    BY <1>1, <2>1 DEF LogTypes
  <2>3. LogTypes'
    BY <1>1, <2>1, <2>2 DEF LogTypes, Log!NoGeneration
  <2>4. \A n \in 0..MaxFiles : Rotating(n) \in {0, 1} /\ Rotating(n)' = 0
    BY <2>1 DEF Rotating, Log!NoGeneration
  <2>5. \A n \in 0..MaxFiles : uses["ends"] + Rotating(n) <= uses'["ends"] + Rotating(n)'
    BY <1>1, <2>2, <2>4
  <2> QED
    BY <2>1, <2>3, <2>5, LogRests
<1>3. CASE Log!Restart
  <2>1. /\ ~running /\ running' = TRUE /\ live' = 0 /\ shift = Log!NoGeneration
        /\ UNCHANGED <<next, file, shift, wrote, rows, uses>>
    BY <1>1, <1>3 DEF Log!Restart, LogTypes
  <2>2. LogTypes'
    BY <1>1, <2>1 DEF LogTypes, Log!NoGeneration
  <2>3. \A n \in 0..MaxFiles : Rotating(n)' = Rotating(n) /\ Rotating(n) = 0
    BY <2>1 DEF Rotating, Log!NoGeneration
  <2>4. \A n \in 0..MaxFiles : uses["ends"] + Rotating(n) <= uses'["ends"] + Rotating(n)'
    BY <1>1, <2>1, <2>3
  <2> QED
    BY <2>1, <2>2, <2>4, LogRests
<1> QED
  BY <1>2, <1>3

LEMMA FilesRest ==
    ASSUME Log!BoundsAreSound, FilesInv, UNCHANGED Log!sinkVars,
           uses' = uses \/ \E b \in DOMAIN Log!Bound : uses' = [uses EXCEPT ![b] = @ + 1]
    PROVE  FilesInv'
<1>1. /\ LogTypes /\ uses \in [{"ends", "clicks"} -> Nat] /\ DOMAIN Log!Bound = {"ends", "clicks"}
      /\ MaxFiles \in Nat
  BY DEF FilesInv, LogTypes, Log!Bound, Log!BoundsAreSound
<1>2. uses' \in [{"ends", "clicks"} -> Nat] /\ uses'["ends"] >= uses["ends"]
  BY <1>1
<1>3. LogTypes'
  BY <1>1, <1>2 DEF LogTypes, Log!sinkVars, Log!NoGeneration
<1>4. \A n \in 0..MaxFiles : Rotating(n)' = Rotating(n) /\ Rotating(n) \in {0, 1}
  BY DEF Rotating, Log!NoGeneration, Log!sinkVars
<1>5. \A n \in 0..MaxFiles : uses["ends"] + Rotating(n) <= uses'["ends"] + Rotating(n)'
  <2>1. uses["ends"] \in Nat /\ uses'["ends"] \in Nat
    BY <1>1, <1>2
  <2>2. \A x, y, r \in Nat : y >= x => x + r <= y + r
    OBVIOUS
  <2> QED
    BY <1>2, <1>4, <2>1, <2>2
<1> QED
  BY <1>3, <1>5, LogRests DEF Log!sinkVars

LEMMA FilesNext ==
    ASSUME Log!BoundsAreSound, FilesInv, [Log!Next]_(Log!logVars) PROVE FilesInv'
<1>1. CASE UNCHANGED Log!logVars
  BY <1>1, FilesRest DEF Log!logVars, Log!sinkVars
<1>2. CASE Log!Write
  BY <1>2, LineIsWritten
<1>3. CASE Log!Rotate
  BY <1>3, LogRotates
<1>4. CASE Log!Shift
  BY <1>4, LogSkips, LogMovesUp, LogIsOpened
<1>5. CASE Log!End \/ Log!Restart
  BY <1>5, LogEnds
<1>6. CASE Log!Connect \/ Log!Receive \/ Log!Answer \/ Log!LateAnswer
  BY <1>6, FilesRest DEF Log!Connect, Log!Receive, Log!Answer, Log!LateAnswer
<1>7. CASE Log!Drop \/ Log!TogglePause \/ Log!ToggleLive \/ Log!ChangeFilter
  <2>1. {"ends", "clicks"} = DOMAIN Log!Bound
    BY DEF Log!Bound
  <2>2. UNCHANGED Log!sinkVars /\ \E b \in {"ends", "clicks"} : uses' = [uses EXCEPT ![b] = @ + 1]
    BY <1>7 DEF Log!Drop, Log!TogglePause, Log!ToggleLive, Log!ChangeFilter, Log!Spend
  <2> QED
    BY <2>1, <2>2, FilesRest
<1> QED
  BY <1>1, <1>2, <1>3, <1>4, <1>5, <1>6, <1>7 DEF Log!Next

(* The files, put end to end. *)
Piece(w, a, z) == SubSeq(w, a + 1, z)

LEMMA PieceIs ==
    ASSUME NEW w \in Seq(Nat), NEW a \in Nat, NEW z \in Nat, a <= z, z <= Len(w)
    PROVE  /\ Piece(w, a, z) \in Seq(Nat) /\ Len(Piece(w, a, z)) = z - a
           /\ \A j \in 1..z - a : Piece(w, a, z)[j] = w[a + j] /\ a + j \in 1..Len(w)
<1>1. /\ a + 1 \in Int /\ z \in Int /\ z - (a + 1) + 1 = z - a /\ Len(w) \in Nat
      /\ (IF a + 1 <= z THEN z - (a + 1) + 1 ELSE 0) = z - a
  OBVIOUS
<1>2. \A i \in a + 1..z : w[i] \in Nat
  <2>1. \A i \in a + 1..z : i \in 1..Len(w)
    BY <1>1
  <2> QED
    BY <2>1, ElementOfSeq
<1>3. /\ SubSeq(w, a + 1, z) \in Seq(Nat) /\ Len(SubSeq(w, a + 1, z)) = z - a
      /\ \A j \in 1..z - a : SubSeq(w, a + 1, z)[j] = w[(a + 1) + j - 1]
  <2>1. /\ SubSeq(w, a + 1, z) \in Seq(Nat)
        /\ Len(SubSeq(w, a + 1, z)) = IF a + 1 <= z THEN z - (a + 1) + 1 ELSE 0
        /\ \A j \in 1..z - (a + 1) + 1 : SubSeq(w, a + 1, z)[j] = w[(a + 1) + j - 1]
    <3>1. a + 1 \in Int /\ z \in Int
      BY <1>1
    <3>2. ASSUME NEW S, NEW m \in Int, NEW n \in Int, \A i \in m..n : w[i] \in S
          PROVE  /\ SubSeq(w, m, n) \in Seq(S)
                 /\ Len(SubSeq(w, m, n)) = IF m <= n THEN n - m + 1 ELSE 0
                 /\ \A i \in 1..n - m + 1 : SubSeq(w, m, n)[i] = w[m + i - 1]
      BY <3>2, SubSeqProperties
    <3> QED
      BY <1>2, <3>1, <3>2
  <2>2. z - (a + 1) + 1 = z - a /\ (IF a + 1 <= z THEN z - (a + 1) + 1 ELSE 0) = z - a
    BY <1>1
  <2> QED
    BY <2>1, <2>2
<1>4. ASSUME NEW j \in 1..z - a PROVE (a + 1) + j - 1 = a + j /\ a + j \in 1..Len(w)
  <2>1. j \in Nat \ {0} /\ j <= z - a /\ Len(w) \in Nat
    BY <1>1
  <2> HIDE <1>1
  <2>2. (a + 1) + j - 1 = a + j
    BY <2>1
  <2>3. a + j \in 1..Len(w)
    BY <2>1
  <2> QED
    BY <2>2, <2>3
<1> QED
  BY <1>3, <1>4 DEF Piece

LEMMA IsPiece ==
    ASSUME NEW w \in Seq(Nat), NEW a \in Nat, NEW z \in Nat, a <= z, z <= Len(w),
           NEW s \in Seq(Nat), Len(s) = z - a, \A j \in 1..z - a : s[j] = w[a + j]
    PROVE  s = Piece(w, a, z)
<1> DEFINE p == Piece(w, a, z)
<1>1. p \in Seq(Nat) /\ Len(p) = z - a /\ \A j \in 1..z - a : p[j] = w[a + j]
  BY PieceIs
<1> HIDE DEF p
<1>2. Len(s) = Len(p) /\ \A j \in 1..Len(s) : s[j] = p[j]
  BY <1>1
<1>3. s = p
  BY <1>1, <1>2, SeqEqual
<1> QED
  BY <1>3 DEF p

LEMMA Joined ==
    ASSUME NEW w \in Seq(Nat), NEW a \in Nat, NEW m \in Nat, NEW z \in Nat,
           a <= m, m <= z, z <= Len(w)
    PROVE  Piece(w, a, m) \o Piece(w, m, z) = Piece(w, a, z)
<1>1. /\ a + 1 \in 1..Len(w) + 1 /\ m \in (a + 1) - 1..Len(w) /\ z \in m..Len(w)
  OBVIOUS
<1> QED
  BY <1>1, ConcatAdjacentSubSeq DEF Piece

LEMMA Flattens ==
    ASSUME NEW w \in Seq(Nat), NEW K \in Nat \ {0}, NEW q \in [1..K -> Seq(Nat)],
           NEW e \in [0..K -> Nat], e[K] <= Len(w),
           \A i \in 1..K : e[i - 1] <= e[i] /\ q[i] = Piece(w, e[i - 1], e[i])
    PROVE  Log!FlattenSeq(q) = Piece(w, e[0], e[K]) /\ e[0] <= e[K]
<1>1. \A i \in 0..K : e[0] <= e[i]
  <2> DEFINE T == {i \in 0..K : ~(e[0] <= e[i])}
  <2> SUFFICES ASSUME T # {} PROVE FALSE
    OBVIOUS
  <2>1. PICK x \in T : \A y \in T : x <= y
    <3>1. T \subseteq Nat
      OBVIOUS
    <3> HIDE DEF T
    <3> QED
      BY <3>1, Least
  <2>2. x # 0 /\ e[0] \in Nat
    OBVIOUS
  <2>3. x - 1 \in 0..K /\ x \in 1..K /\ x - 1 < x
    BY <2>2
  <2>4. e[0] <= e[x - 1]
    BY <2>1, <2>3
  <2> QED
    BY <2>2, <2>3, <2>4
<1>2. \A i \in 0..K : e[i] <= e[K] /\ e[i] <= Len(w)
  <2> DEFINE T == {i \in Nat : i <= K /\ ~(e[K - i] <= e[K])}
  <2>1. T = {}
    <3> SUFFICES ASSUME T # {} PROVE FALSE
      OBVIOUS
    <3>1. PICK x \in T : \A y \in T : x <= y
      BY Least
    <3>2. x # 0 /\ e[K] \in Nat
      OBVIOUS
    <3>3. x - 1 \in Nat /\ x - 1 <= K /\ x - 1 < x /\ K - (x - 1) \in 1..K /\ K - (x - 1) - 1 = K - x
          /\ K - x \in 0..K
      BY <3>2
    <3>4. e[K - (x - 1)] <= e[K]
      <4>1. ~(x <= x - 1)
        BY <3>2
      <4>2. x - 1 \notin T
        BY <3>1, <4>1
      <4> QED
        BY <3>3, <4>2
    <3>5. e[K - x] <= e[K - (x - 1)]
      BY <3>3
    <3> QED
      BY <3>2, <3>3, <3>4, <3>5
  <2>2. ASSUME NEW i \in 0..K PROVE e[i] <= e[K]
    <3>1. K - i \in Nat /\ K - i <= K /\ K - (K - i) = i
      OBVIOUS
    <3> QED
      BY <2>1, <3>1
  <2> QED
    BY <2>2
<1> DEFINE F(g, i) == IF i = 1 THEN q[i] ELSE g[i - 1] \o q[i]
           X == [i \in 1..K |-> Piece(w, e[0], e[i])]
           g == CHOOSE f : f = [i \in 1..K |-> F(f, i)]
<1>3. \A i \in 1..K : X[i] = F(X, i)
  <2> SUFFICES ASSUME NEW i \in 1..K PROVE X[i] = F(X, i)
    OBVIOUS
  <2>1. CASE i = 1
    BY <2>1
  <2>2. CASE i # 1
    <3>1. i - 1 \in 1..K /\ i - 1 \in 0..K /\ i \in 0..K /\ 0 \in 0..K
      BY <2>2
    <3>2. /\ e[0] \in Nat /\ e[i - 1] \in Nat /\ e[i] \in Nat
          /\ e[0] <= e[i - 1] /\ e[i - 1] <= e[i] /\ e[i] <= Len(w)
      BY <1>1, <1>2, <3>1
    <3>3. Piece(w, e[0], e[i - 1]) \o Piece(w, e[i - 1], e[i]) = Piece(w, e[0], e[i])
      <4> HIDE DEF F, X, g
      <4>1. \A a, m, z \in Nat : a <= m /\ m <= z /\ z <= Len(w) =>
               Piece(w, a, m) \o Piece(w, m, z) = Piece(w, a, z)
        BY Joined
      <4> QED
        BY <3>2, <4>1
    <3> QED
      BY <2>2, <3>1, <3>3
  <2> QED
    BY <2>1, <2>2
<1>4. X = [i \in 1..K |-> F(X, i)]
  BY <1>3, Zenon
<1>5. g = [i \in 1..K |-> F(g, i)]
  <2> HIDE DEF F, X
  <2> QED
    BY <1>4, Zenon
<1> HIDE DEF g
<1>6. \A i \in 1..K : g[i] = F(g, i)
  <2> HIDE DEF F
  <2> QED
    BY <1>5, Zenon
<1> HIDE DEF X
<1>7. g[K] = X[K]
  <2> DEFINE T == {i \in 1..K : g[i] # X[i]}
  <2>1. T = {}
    <3> SUFFICES ASSUME T # {} PROVE FALSE
      OBVIOUS
    <3>1. PICK x \in T : \A y \in T : x <= y
      <4>1. T \subseteq Nat
        OBVIOUS
      <4> HIDE DEF T
      <4> QED
        BY <4>1, Least
    <3>2. x # 1 /\ x \in 1..K
      BY <1>3, <1>6
    <3>3. x - 1 \in 1..K /\ ~(x <= x - 1)
      BY <3>2
    <3>4. g[x - 1] = X[x - 1]
      BY <3>1, <3>3
    <3> QED
      BY <1>3, <1>6, <3>2, <3>3, <3>4
  <2> QED
    BY <2>1
<1>8. Log!FlattenSeq(q) = g[K]
  <2>1. Len(q) = K /\ K # 0
    OBVIOUS
  <2> QED
    BY <2>1 DEF Log!FlattenSeq, g
<1>9. X[K] = Piece(w, e[0], e[K])
  BY DEF X
<1> QED
  BY <1>1, <1>7, <1>8, <1>9

LEMMA Backwards ==
    ASSUME NEW s \in Seq(Nat)
    PROVE  /\ Log!Reverse(s) \in Seq(Nat) /\ Len(Log!Reverse(s)) = Len(s)
           /\ \A i \in 1..Len(s) : Log!Reverse(s)[i] = s[Len(s) - i + 1] /\ Len(s) - i + 1 \in 1..Len(s)
<1>1. Len(s) \in Nat
  OBVIOUS
<1>2. \A i \in 1..Len(s) : Len(s) - i + 1 \in 1..Len(s)
  BY <1>1
<1>3. \A i \in 1..Len(s) : s[Len(s) - i + 1] \in Nat
  BY <1>2, ElementOfSeq
<1> DEFINE n == Len(s)  r == [i \in 1..n |-> s[n - i + 1]]
<1>4. r \in [1..n -> Nat]
  BY <1>3
<1>5. r \in Seq(Nat) /\ Len(r) = n /\ \A i \in 1..n : r[i] = s[n - i + 1]
  BY <1>1, <1>4
<1>6. Log!Reverse(s) = r
  BY DEF Log!Reverse
<1> QED
  BY <1>2, <1>5, <1>6

LEMMA Ends ==
    ASSUME NEW w \in Seq(Nat), NEW a \in Nat, a <= Len(w)
    PROVE  /\ Log!IsSuffix(Piece(w, a, Len(w)), w) /\ Len(Piece(w, a, Len(w))) = Len(w) - a
           /\ a = 0 => Piece(w, a, Len(w)) = w
<1> DEFINE n == Len(w)  k == Piece(w, a, n)  r == Log!Reverse(k)  t == Log!Reverse(w)
<1>1. n \in Nat /\ n <= n /\ n - a \in Nat /\ n - a <= n
  OBVIOUS
<1>2. k \in Seq(Nat) /\ Len(k) = n - a /\ \A j \in 1..n - a : k[j] = w[a + j]
  BY <1>1, PieceIs
<1> HIDE DEF k
<1>3. /\ r \in Seq(Nat) /\ Len(r) = n - a
      /\ \A i \in 1..n - a : r[i] = k[n - a - i + 1] /\ n - a - i + 1 \in 1..n - a
  <2>1. /\ r \in Seq(Nat) /\ Len(r) = Len(k)
        /\ \A i \in 1..Len(k) : r[i] = k[Len(k) - i + 1] /\ Len(k) - i + 1 \in 1..Len(k)
    BY <1>2, Backwards
  <2> HIDE DEF r
  <2> QED
    BY <1>2, <2>1
<1>4. t \in Seq(Nat) /\ Len(t) = n /\ \A i \in 1..n : t[i] = w[n - i + 1]
  BY Backwards
<1> HIDE DEF r, t, n
<1>5. \A i \in 1..n - a : r[i] = t[i]
  <2> SUFFICES ASSUME NEW i \in 1..n - a PROVE r[i] = t[i]
    OBVIOUS
  <2>1. a + (n - a - i + 1) = n - i + 1 /\ i \in 1..n
    BY <1>1
  <2>2. r[i] = w[a + (n - a - i + 1)]
    BY <1>2, <1>3
  <2> QED
    BY <1>4, <2>1, <2>2
<1>6. SubSeq(r, 1, n - a) = SubSeq(t, 1, n - a)
  <2> DEFINE x == SubSeq(r, 1, n - a)  y == SubSeq(t, 1, n - a)
  <2>1. \A i \in 1..n - a : r[i] \in Nat /\ t[i] \in Nat
    <3>1. \A i \in 1..n - a : r[i] \in Nat
      BY <1>3, ElementOfSeq
    <3> QED
      BY <1>5, <3>1
  <2>2. /\ 1 \in Int /\ n - a \in Int /\ n - a - 1 + 1 = n - a
        /\ (IF 1 <= n - a THEN n - a - 1 + 1 ELSE 0) = n - a
    BY <1>1
  <2>3. /\ x \in Seq(Nat) /\ Len(x) = n - a /\ \A i \in 1..n - a : x[i] = r[1 + i - 1]
    BY <2>1, <2>2, SubSeqProperties
  <2>4. /\ y \in Seq(Nat) /\ Len(y) = n - a /\ \A i \in 1..n - a : y[i] = t[1 + i - 1]
    BY <2>1, <2>2, SubSeqProperties
  <2>5. \A i \in 1..n - a : 1 + i - 1 = i
    OBVIOUS
  <2> HIDE DEF x, y
  <2>6. \A i \in 1..Len(x) : x[i] = y[i]
    <3> SUFFICES ASSUME NEW i \in 1..n - a PROVE x[i] = y[i]
      BY <2>3
    <3>1. 1 + i - 1 = i
      OBVIOUS
    <3>2. x[i] = r[i] /\ y[i] = t[i]
      BY <2>3, <2>4, <3>1
    <3> QED
      BY <1>5, <3>2
  <2>7. x = y
    BY <2>3, <2>4, <2>6, SeqEqual
  <2> QED
    BY <2>7 DEF x, y
<1>7. Log!IsSuffix(k, w)
  BY <1>1, <1>3, <1>4, <1>6 DEF Log!IsSuffix, Log!IsPrefix, r, t
<1>8. a = 0 => k = w
  <2> SUFFICES ASSUME a = 0 PROVE k = w
    OBVIOUS
  <2>1. Len(k) = Len(w) /\ \A j \in 1..Len(k) : k[j] = w[j]
    <3>1. n - 0 = n /\ \A j \in 1..n : 0 + j = j
      BY <1>1
    <3> QED
      BY <1>2, <3>1 DEF n
  <2> QED
    BY <1>2, <2>1, SeqEqual
<1> QED
  BY <1>2, <1>7, <1>8 DEF k, n

LEMMA FilesHold == ASSUME Log!BoundsAreSound, FilesInv PROVE Log!FilesHoldTheEnd
<1> DEFINE K == MaxFiles + 1
           q == [n \in 1..(MaxFiles + 1) |-> file[MaxFiles + 1 - n]]
<1>1. /\ LogTypes /\ LiveHolds /\ MaxFiles \in Nat \ {0} /\ PerFile \in Nat \ {0}
      /\ file \in [0..MaxFiles -> Seq(Nat)] /\ wrote \in Seq(Nat) /\ uses["ends"] \in Nat
      /\ (shift # Log!NoGeneration => Len(file[0]) = PerFile)
  BY DEF FilesInv, LogTypes, Log!BoundsAreSound
<1>2. PICK below : Generations(below) /\ Holes(below)
  BY DEF FilesInv
<1> DEFINE e == [i \in 0..K |-> IF i = K THEN Len(wrote) ELSE Lines(below[MaxFiles - i])]
<1>3. /\ Len(wrote) \in Nat /\ file[0] \in Seq(Nat) /\ Len(file[0]) \in Nat /\ 0 \in 0..MaxFiles
      /\ Full(0) = 0 /\ Lines(0) = Len(wrote) - Len(file[0]) /\ Lines(0) \in Nat
  <2>1. /\ Len(wrote) \in Nat /\ file[0] \in Seq(Nat) /\ Len(file[0]) \in Nat /\ 0 \in 0..MaxFiles
        /\ Full(0) = 0
    <3>1. 0 \in 0..MaxFiles /\ Full(0) = 0
      BY <1>1, Fulls
    <3> QED
      BY <1>1, <3>1
  <2>2. Len(file[0]) <= Len(wrote)
    BY <1>1 DEF LiveHolds
  <2> QED
    BY <2>1, <2>2 DEF Lines
<1>4. \A n \in 0..MaxFiles : below[n] \in Nat /\ Lines(below[n]) \in Nat /\ Full(below[n]) \in Nat
  <2>1. below[0] = 0 /\ \A n \in 0..MaxFiles : below[n] \in Nat
    BY <1>2 DEF Generations
  <2>2. ASSUME NEW n \in 0..MaxFiles PROVE Lines(below[n]) \in Nat
    <3>1. CASE n = 0
      BY <1>3, <2>1, <3>1
    <3>2. CASE n # 0
      <4>1. n \in 1..MaxFiles
        BY <1>1, <3>2
      <4> QED
        BY <1>1, <1>2, <4>1, GenerationIs
    <3> QED
      BY <3>1, <3>2
  <2> QED
    BY <2>1, <2>2, Fulls
<1>5. e \in [0..K -> Nat] /\ e[K] = Len(wrote) /\ e[0] = Lines(below[MaxFiles]) /\ K \in Nat \ {0}
      /\ \A i \in 0..MaxFiles : e[i] = Lines(below[MaxFiles - i])
  <2>1. \A i \in 0..K : i # K => MaxFiles - i \in 0..MaxFiles
    BY <1>1
  <2>2. K \in Nat \ {0} /\ 0 \in 0..K /\ K \in 0..K /\ 0 # K /\ MaxFiles - 0 = MaxFiles
        /\ \A i \in 0..MaxFiles : i \in 0..K /\ i # K
    BY <1>1
  <2> QED
    BY <1>3, <1>4, <2>1, <2>2
<1>6. q \in [1..K -> Seq(Nat)]
  <2>1. \A n \in 1..K : MaxFiles + 1 - n \in 0..MaxFiles
    BY <1>1
  <2> QED
    BY <1>1, <2>1
<1> HIDE DEF e
<1>7. ASSUME NEW i \in 1..K PROVE e[i - 1] <= e[i] /\ q[i] = Piece(wrote, e[i - 1], e[i])
  <2> DEFINE n == K - i
  <2>1. n \in 0..MaxFiles /\ i - 1 \in 0..MaxFiles /\ MaxFiles - (i - 1) = n /\ q[i] = file[n]
    BY <1>1
  <2>2. e[i - 1] = Lines(below[n])
    BY <1>5, <2>1
  <2>3. CASE i = K
    <3>1. n = 0 /\ below[0] = 0
      BY <1>1, <1>2, <2>3 DEF Generations
    <3>2. e[i - 1] = Lines(0) /\ e[i] = Len(wrote)
      BY <1>5, <2>2, <2>3, <3>1
    <3>3. Len(file[0]) = e[i] - e[i - 1] /\ e[i - 1] <= e[i]
      BY <1>3, <3>2
    <3>4. \A j \in 1..Len(file[0]) : file[0][j] = wrote[Lines(0) + j]
      BY <1>1 DEF LiveHolds
    <3>5. file[0] = Piece(wrote, e[i - 1], e[i])
      <4>1. \A j \in 1..e[i] - e[i - 1] : file[0][j] = wrote[e[i - 1] + j]
        BY <3>2, <3>3, <3>4
      <4>2. e[i - 1] \in Nat /\ e[i] \in Nat /\ e[i] <= Len(wrote)
        BY <1>3, <3>2
      <4> QED
        BY <1>1, <1>3, <3>3, <4>1, <4>2, IsPiece
    <3> QED
      BY <2>1, <3>1, <3>3, <3>5
  <2>4. CASE i # K
    <3>1. n \in 1..MaxFiles /\ i \in 0..MaxFiles /\ MaxFiles - i = n - 1
      BY <1>1, <2>4
    <3>2. e[i] = Lines(below[n - 1])
      BY <1>5, <3>1
    <3>3. /\ Lines(below[n - 1]) = Lines(below[n]) + Len(file[n]) /\ Len(file[n]) \in Nat
          /\ Lines(below[n]) \in Nat /\ file[n] \in Seq(Nat)
      BY <1>1, <1>2, <3>1, GenerationIs
    <3>4. Len(file[n]) = e[i] - e[i - 1] /\ e[i - 1] <= e[i]
      BY <2>2, <3>2, <3>3
    <3>5. \A j \in 1..Len(file[n]) : file[n][j] = wrote[Lines(below[n]) + j]
      BY <1>2, <3>1 DEF Generations
    <3>6. e[i] <= Len(wrote) /\ e[i] \in Nat /\ e[i - 1] \in Nat
      <4>1. Lines(below[n - 1]) <= Len(wrote) - Len(file[0])
        BY <1>1, <1>2, <3>1, GenerationIs
      <4> HIDE DEF n
      <4> QED
        BY <1>3, <2>2, <3>2, <3>3, <4>1
    <3> HIDE DEF n
    <3>7. file[n] = Piece(wrote, e[i - 1], e[i])
      <4>1. \A j \in 1..e[i] - e[i - 1] : file[n][j] = wrote[e[i - 1] + j]
        BY <2>2, <3>4, <3>5
      <4> QED
        BY <1>1, <3>3, <3>4, <3>6, <4>1, IsPiece
    <3> QED
      BY <2>1, <3>4, <3>7
  <2> QED
    BY <2>3, <2>4
<1> HIDE DEF q
<1>8. Log!FlattenSeq(q) = Piece(wrote, e[0], Len(wrote)) /\ e[0] <= Len(wrote)
  <2>1. e[K] <= Len(wrote)
    BY <1>3, <1>5
  <2> HIDE DEF K
  <2>2. Log!FlattenSeq(q) = Piece(wrote, e[0], e[K]) /\ e[0] <= e[K]
    BY <1>1, <1>5, <1>6, <1>7, <2>1, Flattens
  <2> QED
    BY <1>5, <2>2
<1> DEFINE kept == Log!FlattenSeq(q)
<1>9. /\ Log!IsSuffix(kept, wrote) /\ Len(kept) = Len(wrote) - e[0]
      /\ e[0] = 0 => kept = wrote
  <2>1. e[0] \in Nat
    BY <1>5
  <2> QED
    BY <1>1, <1>8, <2>1, Ends
<1>10. \/ kept = wrote
       \/ Len(kept) + PerFile * uses["ends"] >= PerFile * MaxFiles
  <2> DEFINE m == below[MaxFiles]  u == uses["ends"]
  <2> SUFFICES ASSUME e[0] # 0 PROVE Len(kept) + Full(u) >= Full(MaxFiles)
    BY <1>9 DEF Full
  <2>1. Lines(m) > 0 /\ m \in Nat /\ MaxFiles \in 0..MaxFiles
    BY <1>1, <1>4, <1>5
  <2>2. MaxFiles <= m + u + Rotating(MaxFiles)
    BY <1>2, <2>1 DEF Holes
  <2>3. Len(kept) = Full(m) + Len(file[0])
    <3>1. Lines(m) = Len(wrote) - Len(file[0]) - Full(m) /\ e[0] = Lines(m)
      BY <1>5 DEF Lines
    <3>2. Len(wrote) \in Nat /\ Len(file[0]) \in Nat /\ Full(m) \in Nat
      BY <1>3, <1>4, <2>1
    <3> HIDE DEF m, kept
    <3> QED
      BY <1>9, <3>1, <3>2
  <2>4. \A x, y \in Nat : Full(x + y) = Full(x) + Full(y)
    BY <1>1 DEF Full
  <2>5. /\ Full(m) \in Nat /\ Full(u) \in Nat /\ Full(m + u) = Full(m) + Full(u)
        /\ m + u \in Nat /\ Full(m + u + 1) = Full(m + u) + PerFile /\ m + u + 1 \in Nat
    <3>1. m + u \in Nat /\ m + u + 1 \in Nat /\ u \in Nat
      BY <1>1, <2>1
    <3> HIDE DEF m, u
    <3> QED
      BY <2>1, <2>4, <3>1, Fulls
  <2> HIDE DEF m, u, kept
  <2>6. CASE shift = Log!NoGeneration
    <3>1. Rotating(MaxFiles) = 0
      BY <2>6 DEF Rotating
    <3>2. MaxFiles <= m + u /\ MaxFiles \in Nat
      BY <1>1, <2>2, <2>5, <3>1
    <3>3. Full(MaxFiles) <= Full(m + u)
      BY <2>5, <3>2, Fulls
    <3>4. Full(MaxFiles) \in Nat
      BY <3>2, Fulls
    <3> QED
      BY <1>3, <2>3, <2>5, <3>3, <3>4
  <2>7. CASE shift # Log!NoGeneration
    <3>1. Rotating(MaxFiles) \in {0, 1} /\ Len(file[0]) = PerFile
      BY <1>1, <2>7 DEF Rotating
    <3>2. MaxFiles <= m + u + 1 /\ MaxFiles \in Nat
      BY <1>1, <2>2, <2>5, <3>1
    <3>3. Full(MaxFiles) <= Full(m + u + 1)
      BY <2>5, <3>2, Fulls
    <3>4. Full(MaxFiles) \in Nat
      BY <3>2, Fulls
    <3> QED
      BY <1>3, <2>3, <2>5, <3>1, <3>3, <3>4
  <2> QED
    BY <2>6, <2>7
<1> QED
  BY <1>9, <1>10 DEF Log!FilesHoldTheEnd, q

(* The page. *)
LEMMA SeqRanges ==
    /\ \A s \in Seq(Nat) : Log!Range(s) = {s[i] : i \in 1..Len(s)} /\ Log!Range(s) \subseteq Nat
    /\ Log!Range(<<>>) = {}
<1>1. \A s \in Seq(Nat) : DOMAIN s = 1..Len(s) /\ \A i \in 1..Len(s) : s[i] \in Nat
  BY LenProperties, ElementOfSeq
<1>2. \A s \in Seq(Nat) : Log!Range(s) = {s[i] : i \in 1..Len(s)}
  BY <1>1 DEF Log!Range
<1>3. DOMAIN <<>> = {}
  OBVIOUS
<1>4. Log!Range(<<>>) = {}
  BY <1>3 DEF Log!Range
<1> QED
  BY <1>1, <1>2, <1>4

LEMMA FilteredIs == ASSUME rows \in Seq(Nat), NEW f PROVE Log!Filtered(f) \in Seq(Nat)
<1> DEFINE S == IF f = "sync" THEN Sync ELSE Log!Range(rows)
<1>1. Log!Picked(rows, S) = Bus!Picked(rows, S)
  BY DEF Log!Picked, Bus!Picked
<1>2. Bus!Picked(rows, S) \in Seq(Nat)
  <2> HIDE DEF S
  <2> QED
    BY PickedIs
<1> QED
  BY <1>1, <1>2 DEF Log!Filtered

LEMMA LatestIs ==
    ASSUME rows \in Seq(Nat), NEW limit \in Nat
    PROVE  LET all == Log!Filtered(filter)
               from == IF Len(all) > limit THEN Len(all) - limit ELSE 0
           IN  /\ all \in Seq(Nat) /\ from \in 0..Len(all)
               /\ Log!Latest(limit) = Piece(all, from, Len(all))
<1> DEFINE all == Log!Filtered(filter)
           from == IF Len(all) > limit THEN Len(all) - limit ELSE 0
<1>1. all \in Seq(Nat)
  BY FilteredIs
<1>2. Len(all) \in Nat
  BY <1>1
<1> HIDE DEF all
<1>3. from \in 0..Len(all) /\ from + 1 = IF Len(all) > limit THEN Len(all) - limit + 1 ELSE 1
  BY <1>2
<1>4. Log!Latest(limit) = Piece(all, from, Len(all))
  BY <1>3 DEF Log!Latest, Piece, all
<1> QED
  BY <1>1, <1>3, <1>4 DEF all

LEMMA ListsAreSeqs ==
    ASSUME rows \in Seq(Nat), NEW limit \in Nat PROVE Log!Latest(limit) \in Seq(Nat)
<1> DEFINE all == Log!Filtered(filter)
           from == IF Len(all) > limit THEN Len(all) - limit ELSE 0
<1>1. /\ all \in Seq(Nat) /\ from \in 0..Len(all) /\ Log!Latest(limit) = Piece(all, from, Len(all))
  BY LatestIs
<1> HIDE DEF all, from
<1>2. Len(all) \in Nat /\ from \in Nat /\ from <= Len(all) /\ Len(all) <= Len(all)
  BY <1>1
<1> QED
  BY <1>1, <1>2, PieceIs

(* A list is in a replay. *)
LEMMA ListsAreReplayed ==
    ASSUME rows \in Seq(Nat), Log!BoundsAreSound
    PROVE  Log!Range(Log!Latest(ListLimit)) \subseteq Log!Range(Log!Latest(ReplayLimit))
<1> DEFINE all == Log!Filtered(filter)
           From(limit) == IF Len(all) > limit THEN Len(all) - limit ELSE 0
           a == From(ListLimit)  b == From(ReplayLimit)  n == Len(all)
<1>0. ListLimit \in Nat /\ ReplayLimit \in Nat /\ ListLimit <= ReplayLimit
  BY DEF Log!BoundsAreSound
<1>1. /\ all \in Seq(Nat) /\ a \in 0..Len(all) /\ Log!Latest(ListLimit) = Piece(all, a, Len(all))
  BY <1>0, LatestIs
<1>2. b \in 0..Len(all) /\ Log!Latest(ReplayLimit) = Piece(all, b, Len(all))
  BY <1>0, LatestIs
<1> HIDE DEF all
<1>3. n \in Nat /\ b <= a /\ a \in Nat /\ b \in Nat /\ a <= n /\ b <= n /\ n <= n
  BY <1>0, <1>1, <1>2
<1> HIDE DEF a, b, n
<1> DEFINE x == Piece(all, a, n)  y == Piece(all, b, n)
<1>4. x \in Seq(Nat) /\ Len(x) = n - a /\ \A j \in 1..n - a : x[j] = all[a + j]
  BY <1>1, <1>3, PieceIs DEF n
<1>5. y \in Seq(Nat) /\ Len(y) = n - b /\ \A j \in 1..n - b : y[j] = all[b + j]
  BY <1>1, <1>3, PieceIs DEF n
<1> HIDE DEF x, y
<1>6. \A j \in 1..n - a : (a - b) + j \in 1..n - b /\ b + ((a - b) + j) = a + j
  BY <1>3
<1>7. \A j \in 1..Len(x) : \E i \in 1..Len(y) : y[i] = x[j]
  <2> SUFFICES ASSUME NEW j \in 1..n - a PROVE \E i \in 1..n - b : y[i] = x[j]
    BY <1>4, <1>5
  <2>1. (a - b) + j \in 1..n - b /\ b + ((a - b) + j) = a + j
    BY <1>6
  <2>2. y[(a - b) + j] = x[j]
    BY <1>4, <1>5, <2>1
  <2> QED
    BY <2>1, <2>2
<1>8. Log!Range(x) = {x[i] : i \in 1..Len(x)} /\ Log!Range(y) = {y[i] : i \in 1..Len(y)}
  BY <1>4, <1>5, SeqRanges
<1>9. Log!Range(x) \subseteq Log!Range(y)
  BY <1>7, <1>8
<1> QED
  BY <1>1, <1>2, <1>9 DEF x, y, n

LEMMA Replays ==
    ASSUME rows \in Seq(Nat), Log!BoundsAreSound
    PROVE  /\ Log!Replay \in Seq(Nat)
           /\ Log!Whole(Log!Latest(ReplayLimit)) => Log!Replay = Log!Latest(ReplayLimit)
<1> DEFINE v == Log!Latest(ReplayLimit)  R == Log!Readable(v)
           c == CHOOSE i \in R : \A j \in R : j <= i
<1>1. v \in Seq(Nat)
  BY ListsAreSeqs DEF Log!BoundsAreSound
<1> HIDE DEF v
<1>2. Len(v) \in Nat
  BY <1>1
<1>3. R \subseteq 0..Len(v) /\ 0 \in R
  BY <1>2 DEF Log!Readable
<1>4. Log!Whole(v) <=> Len(v) \in R
  BY DEF Log!Whole
<1> HIDE DEF R
<1>5. \E i \in R : \A j \in R : j <= i
  <2> DEFINE T == {n \in Nat : \E i \in R : n = Len(v) - i}
  <2>1. T \subseteq Nat /\ Len(v) \in T
    BY <1>2, <1>3
  <2>2. PICK x \in T : \A y \in T : x <= y
    <3> HIDE DEF T
    <3> QED
      BY <2>1, Least
  <2>3. PICK i \in R : x = Len(v) - i
    OBVIOUS
  <2>4. ASSUME NEW j \in R PROVE j <= i
    <3>1. Len(v) - j \in T /\ i \in Nat /\ j \in Nat
      BY <1>2, <1>3
    <3>2. x <= Len(v) - j
      BY <2>2, <3>1
    <3> HIDE DEF T
    <3> QED
      BY <1>2, <2>3, <3>1, <3>2
  <2> QED
    BY <2>4
<1>6. c \in R /\ \A j \in R : j <= c
  BY <1>5
<1> HIDE DEF c
<1>7. Log!Replay = SubSeq(v, 1, c)
  BY DEF Log!Replay, v, R, c
<1>8. SubSeq(v, 1, c) \in Seq(Nat)
  <2>1. c \in 0..Len(v)
    BY <1>3, <1>6
  <2>2. \A i \in 1..c : v[i] \in Nat
    <3>1. \A i \in 1..c : i \in 1..Len(v)
      BY <1>2, <2>1
    <3> QED
      BY <1>1, <3>1, ElementOfSeq
  <2>3. 1 \in Int /\ c \in Int
    BY <1>2, <2>1
  <2> QED
    BY <2>2, <2>3, SubSeqProperties
<1>9. Log!Whole(v) => c = Len(v)
  BY <1>2, <1>3, <1>4, <1>6
<1>10. SubSeq(v, 1, Len(v)) = v
  BY <1>1, SubSeqFull
<1> QED
  BY <1>7, <1>8, <1>9, <1>10 DEF v

LEMMA ViewInit == Log!Init => ViewInv
<1>1. <<>> \in Seq(Nat)
  OBVIOUS
<1> QED
  BY <1>1 DEF Log!Init, ViewInv

LEMMA ViewIsLeft ==
    ASSUME ViewInv, rows' \in Seq(Nat), UNCHANGED logPage,
           \/ feed' = feed /\ conn' = conn
           \/ feed' = <<>> /\ conn' # "open",
           conn' = "open" => UNCHANGED <<paused, offered>>
    PROVE  ViewInv'
<1>1. <<>> \in Seq(Nat)
  OBVIOUS
<1> QED
  BY <1>1 DEF ViewInv, Log!Range

LEMMA ViewNext ==
    ASSUME Log!BoundsAreSound, ViewInv, next \in Nat, [Log!Next]_(Log!logVars) PROVE ViewInv'
<1>1. CASE UNCHANGED Log!logVars \/ Log!Write \/ Log!Rotate \/ Log!Shift \/ Log!Restart
  <2>1. rows' \in {rows, Append(rows, next)} /\ UNCHANGED <<logPage, feed, conn, paused, offered>>
    BY <1>1 DEF Log!logVars, Log!Write, Log!Ingested, Log!Rotate, Log!Shift, Log!Restart, Log!viewVars
  <2>2. rows \in Seq(Nat)
    BY DEF ViewInv
  <2>3. Append(rows, next) \in Seq(Nat)
    BY <2>2
  <2>4. rows' \in Seq(Nat)
    BY <2>1, <2>2, <2>3
  <2> QED
    BY <2>1, <2>4, ViewIsLeft
<1>2. CASE Log!End \/ Log!Drop \/ Log!TogglePause \/ Log!ToggleLive \/ Log!ChangeFilter
  <2>1. /\ rows' = rows /\ UNCHANGED logPage /\ feed' = <<>>
        /\ conn' \in {conn, "waiting", "off"} /\ (conn = "open" => conn' # "open")
    BY <1>2 DEF Log!End, Log!Drop, Log!TogglePause, Log!ToggleLive, Log!ChangeFilter, Log!sinkVars
  <2>2. conn' # "open" /\ rows' \in Seq(Nat)
    BY <2>1 DEF ViewInv
  <2> QED
    BY <2>1, <2>2, ViewIsLeft
<1>3. CASE Log!Connect
  <2>1. /\ rows' = rows /\ conn' = "open" /\ feed' = Log!Replay /\ UNCHANGED <<paused, logPage>>
        /\ offered' = IF Log!Whole(Log!Latest(ReplayLimit)) THEN Log!Range(Log!Latest(ListLimit)) ELSE {}
    BY <1>3 DEF Log!Connect, Log!sinkVars
  <2>2. rows \in Seq(Nat) /\ logPage \in Seq(Nat)
    BY DEF ViewInv
  <2>3. feed' \in Seq(Nat)
    BY <2>1, <2>2, Replays
  <2>4. offered' \subseteq Log!Range(feed')
    <3>1. CASE Log!Whole(Log!Latest(ReplayLimit))
      BY <2>1, <2>2, <3>1, Replays, ListsAreReplayed
    <3>2. CASE ~Log!Whole(Log!Latest(ReplayLimit))
      BY <2>1, <3>2
    <3> QED
      BY <3>1, <3>2
  <2>5. Log!Range(feed)' = Log!Range(feed') /\ Log!Range(logPage)' = Log!Range(logPage')
    BY DEF Log!Range
  <2> QED
    BY <2>1, <2>2, <2>3, <2>4, <2>5 DEF ViewInv
<1>4. CASE Log!Receive
  <2>1. /\ conn = "open" /\ feed # <<>> /\ feed' = Tail(feed)
        /\ logPage' = IF paused THEN logPage ELSE <<Head(feed)>> \o logPage
        /\ UNCHANGED <<rows, conn, paused, offered>>
    BY <1>4 DEF Log!Receive, Log!sinkVars
  <2>2. rows \in Seq(Nat) /\ feed \in Seq(Nat) /\ logPage \in Seq(Nat)
    BY DEF ViewInv
  <2>3. /\ Head(feed) \in Nat /\ Tail(feed) \in Seq(Nat) /\ Len(Tail(feed)) = Len(feed) - 1
        /\ Head(feed) = feed[1] /\ \A i \in 1..Len(Tail(feed)) : Tail(feed)[i] = feed[i + 1]
        /\ Len(feed) \in Nat \ {0}
    BY <2>1, <2>2, HeadTailProperties, EmptySeq
  <2> DEFINE more == <<Head(feed)>> \o logPage
  <2>4. /\ more \in Seq(Nat) /\ Len(more) = 1 + Len(logPage) /\ more[1] = Head(feed)
        /\ \A i \in 1..Len(logPage) : more[1 + i] = logPage[i]
    <3> DEFINE h == <<Head(feed)>>
    <3>1. h \in Seq(Nat) /\ Len(h) = 1 /\ h[1] = Head(feed)
      BY <2>3
    <3> HIDE DEF h
    <3>2. /\ h \o logPage \in Seq(Nat) /\ Len(h \o logPage) = 1 + Len(logPage)
          /\ \A i \in 1..1 + Len(logPage) : (h \o logPage)[i] = IF i <= 1 THEN h[i] ELSE logPage[i - 1]
      <4>1. /\ h \o logPage \in Seq(Nat) /\ Len(h \o logPage) = Len(h) + Len(logPage)
            /\ \A i \in 1..Len(h) + Len(logPage) :
                 (h \o logPage)[i] = IF i <= Len(h) THEN h[i] ELSE logPage[i - Len(h)]
        BY <2>2, <3>1, ConcatProperties
      <4> QED
        BY <3>1, <4>1
    <3>3. Len(logPage) \in Nat
      BY <2>2
    <3>4. \A i \in 1..Len(logPage) : 1 + i \in 1..1 + Len(logPage) /\ ~(1 + i <= 1) /\ 1 + i - 1 = i
      BY <3>3
    <3>5. 1 \in 1..1 + Len(logPage)
      BY <3>3
    <3> QED
      BY <3>1, <3>2, <3>4, <3>5 DEF h
  <2> HIDE DEF more
  <2>5. ViewInv' \/ ~paused
    BY <2>1, <2>2, <2>3 DEF ViewInv
  <2>6. ASSUME ~paused PROVE ViewInv'
    <3>1. logPage' = more
      BY <2>1, <2>6 DEF more
    <3>2. Log!Range(feed) \subseteq Log!Range(Tail(feed)) \cup Log!Range(more)
      <4> SUFFICES ASSUME NEW i \in 1..Len(feed)
                   PROVE  feed[i] \in Log!Range(Tail(feed)) \cup Log!Range(more)
        <5>1. Log!Range(feed) = {feed[j] : j \in 1..Len(feed)}
          BY <2>2, SeqRanges
        <5> QED
          BY <5>1, Zenon
      <4>1. /\ Log!Range(Tail(feed)) = {Tail(feed)[j] : j \in 1..Len(Tail(feed))}
            /\ Log!Range(more) = {more[j] : j \in 1..Len(more)}
        BY <2>3, <2>4, SeqRanges
      <4>2. CASE i = 1
        <5>1. Len(logPage) \in Nat
          BY <2>2
        <5>2. 1 \in 1..Len(more)
          BY <2>4, <5>1
        <5> QED
          BY <2>3, <2>4, <4>1, <4>2, <5>2
      <4>3. CASE i # 1
        <5>1. i - 1 \in 1..Len(Tail(feed)) /\ i - 1 + 1 = i
          BY <2>3, <4>3
        <5>2. Tail(feed)[i - 1] = feed[i]
          BY <2>3, <5>1
        <5> QED
          BY <4>1, <5>1, <5>2
      <4> QED
        BY <4>2, <4>3
    <3>3. Log!Range(logPage) \subseteq Log!Range(more)
      <4>1. /\ Log!Range(logPage) = {logPage[j] : j \in 1..Len(logPage)}
            /\ Log!Range(more) = {more[j] : j \in 1..Len(more)}
        BY <2>2, <2>4, SeqRanges
      <4>2. Len(logPage) \in Nat
        BY <2>2
      <4>3. \A j \in 1..Len(logPage) : 1 + j \in 1..Len(more)
        BY <2>4, <4>2
      <4> QED
        BY <2>4, <4>1, <4>3
    <3>4. offered \subseteq Log!Range(feed) \cup Log!Range(logPage)
      BY <2>1, <2>6 DEF ViewInv
    <3>5. offered' \subseteq Log!Range(Tail(feed)) \cup Log!Range(more)
      BY <2>1, <3>2, <3>3, <3>4
    <3>6. Log!Range(feed)' = Log!Range(Tail(feed)) /\ Log!Range(logPage)' = Log!Range(more)
      BY <2>1, <3>1 DEF Log!Range
    <3> QED
      BY <2>1, <2>2, <2>3, <2>4, <3>1, <3>5, <3>6 DEF ViewInv
  <2> QED
    BY <2>5, <2>6
<1>5. CASE Log!Answer
  <2>1. /\ UNCHANGED <<rows, conn, feed, paused>>
        /\ \/ logPage' = Log!Reverse(Log!Latest(ListLimit)) /\ offered' = Log!Range(Log!Latest(ListLimit))
           \/ UNCHANGED <<logPage, offered>>
    BY <1>5 DEF Log!Answer, Log!sinkVars
  <2>2. rows \in Seq(Nat) /\ feed \in Seq(Nat) /\ logPage \in Seq(Nat)
    BY DEF ViewInv
  <2>3. CASE UNCHANGED <<logPage, offered>>
    BY <2>1, <2>2, <2>3, ViewIsLeft
  <2>4. CASE logPage' = Log!Reverse(Log!Latest(ListLimit)) /\ offered' = Log!Range(Log!Latest(ListLimit))
    <3> DEFINE v == Log!Latest(ListLimit)  r == Log!Reverse(v)
    <3>1. v \in Seq(Nat)
      BY <2>2, ListsAreSeqs DEF Log!BoundsAreSound
    <3> HIDE DEF v
    <3>2. /\ r \in Seq(Nat) /\ Len(r) = Len(v) /\ Len(v) \in Nat
          /\ \A i \in 1..Len(v) : r[i] = v[Len(v) - i + 1] /\ Len(v) - i + 1 \in 1..Len(v)
      BY <3>1, Backwards
    <3> HIDE DEF r
    <3>3. Log!Range(v) \subseteq Log!Range(r)
      <4>1. Log!Range(v) = {v[j] : j \in 1..Len(v)} /\ Log!Range(r) = {r[j] : j \in 1..Len(r)}
        BY <3>1, <3>2, SeqRanges
      <4>2. ASSUME NEW j \in 1..Len(v) PROVE \E i \in 1..Len(r) : r[i] = v[j]
        <5>1. Len(v) - j + 1 \in 1..Len(v) /\ Len(v) - (Len(v) - j + 1) + 1 = j
          BY <3>2
        <5> QED
          BY <3>2, <5>1
      <4> QED
        BY <4>1, <4>2
    <3>4. logPage' = r /\ offered' = Log!Range(v)
      BY <2>4 DEF r, v
    <3>5. Log!Range(logPage)' = Log!Range(r)
      BY <3>4 DEF Log!Range
    <3> QED
      BY <2>1, <2>2, <3>2, <3>3, <3>4, <3>5 DEF ViewInv
  <2> QED
    BY <2>1, <2>3, <2>4
<1>6. CASE Log!LateAnswer
  <2>1. /\ UNCHANGED <<rows, conn, feed, paused>> /\ offered' = {}
        /\ \E f \in {"any", "sync"} : \E n \in 0..Len(Log!Filtered(f)) :
             logPage' = Log!Reverse(SubSeq(Log!Filtered(f), 1, n))
    BY <1>6 DEF Log!LateAnswer, Log!sinkVars
  <2>2. rows \in Seq(Nat) /\ feed \in Seq(Nat)
    BY DEF ViewInv
  <2>3. PICK f \in {"any", "sync"} : \E n \in 0..Len(Log!Filtered(f)) :
          logPage' = Log!Reverse(SubSeq(Log!Filtered(f), 1, n))
    BY <2>1
  <2> DEFINE all == Log!Filtered(f)
  <2>4. all \in Seq(Nat)
    BY <2>2, FilteredIs
  <2> HIDE DEF all
  <2>5. PICK n \in 0..Len(all) : logPage' = Log!Reverse(SubSeq(all, 1, n))
    BY <2>3 DEF all
  <2>6. SubSeq(all, 1, n) \in Seq(Nat)
    <3>1. n \in Nat /\ n <= Len(all) /\ 0 \in Nat /\ 0 <= n
      BY <2>4, <2>5
    <3>2. Piece(all, 0, n) \in Seq(Nat)
      BY <2>4, <3>1, PieceIs
    <3> QED
      BY <3>2 DEF Piece
  <2>7. logPage' \in Seq(Nat)
    BY <2>5, <2>6, Backwards
  <2> QED
    BY <2>1, <2>2, <2>7 DEF ViewInv
<1> QED
  BY <1>1, <1>2, <1>3, <1>4, <1>5, <1>6 DEF Log!Next

(* The files hold the end of what was logged, however many lines a file    *)
(* takes, whatever fails while they are moved up and whenever the process  *)
(* ends; and a page shows what it was sent, in its order.                  *)
THEOREM LogsHold ==
    ASSUME Log!BoundsAreSound PROVE Log!Spec => [](Log!LogsAreKept /\ Log!LoggingTypeOK)
<1>1. FilesInv /\ ViewInv => Log!LogsAreKept /\ Log!LoggingTypeOK
  <2> SUFFICES ASSUME FilesInv, ViewInv PROVE Log!LogsAreKept /\ Log!LoggingTypeOK
    OBVIOUS
  <2>1. Log!FilesHoldTheEnd
    BY FilesHold
  <2>2. Log!PageShowsItsRows
    BY SeqRanges DEF ViewInv, Log!PageShowsItsRows
  <2>3. Log!LoggingTypeOK
    <3>1. LogTypes /\ LiveHolds /\ PerFile \in Nat /\ MaxFiles \in Nat \ {0}
      BY DEF FilesInv, Log!BoundsAreSound
    <3>2. PICK below : Generations(below)
      BY DEF FilesInv
    <3>3. ASSUME NEW n \in 0..MaxFiles PROVE Len(file[n]) <= PerFile
      <4>1. CASE n = 0
        BY <3>1, <4>1 DEF LiveHolds
      <4>2. CASE n # 0
        <5>1. n \in 1..MaxFiles
          BY <3>1, <4>2
        <5>2. Len(file[n]) = 0 \/ Len(file[n]) = PerFile
          BY <3>1, <3>2, <5>1, GenerationIs
        <5> QED
          BY <3>1, <5>2
      <4> QED
        BY <4>1, <4>2
    <3> QED
      BY <3>1, <3>3 DEF ViewInv, LogTypes, Log!LoggingTypeOK
  <2> QED
    BY <2>1, <2>2, <2>3 DEF Log!LogsAreKept
<1>2. FilesInv => next \in Nat
  BY DEF FilesInv, LogTypes
<1> QED
  BY <1>1, <1>2, FilesInit, FilesNext, ViewInit, ViewNext, PTL DEF Log!Spec

-----------------------------------------------------------------------------
(* The watchdog.  While the clock is not set, the timer and the clock go   *)
(* together, and so does the time since the ping, unless the ping has been *)
(* withheld when it was too late.                                          *)
WatchdogInv ==
    /\ age \in 0..(Deadline + 1) /\ timer \in Int /\ timer <= Mon!Interval /\ lead \in Int
    /\ ~tooSoon
    /\ ~stepped => /\ lead = -timer
                   /\ age = Mon!Interval - timer \/ (late /\ age > Deadline)

LEMMA Halves == ASSUME Mon!BoundsAreSound PROVE Mon!Interval \in Nat /\ Deadline = 2 * Mon!Interval
<1>1. \A d \in Nat : d % 2 = 0 => d \div 2 \in Nat /\ d = 2 * (d \div 2)
  OBVIOUS
<1> QED
  BY <1>1 DEF Mon!BoundsAreSound, Mon!Interval

LEMMA WatchdogInit == ASSUME Mon!BoundsAreSound PROVE Mon!WatchdogInit => WatchdogInv
BY Halves DEF Mon!WatchdogInit, WatchdogInv

LEMMA WatchdogNext ==
    ASSUME Mon!BoundsAreSound, WatchdogInv, [Mon!WatchdogNext]_(Mon!watchdogVars)
    PROVE  WatchdogInv'
<1> USE Halves DEF WatchdogInv
<1>1. CASE UNCHANGED Mon!watchdogVars
  BY <1>1 DEF Mon!watchdogVars
<1>2. CASE Mon!Tick
  <2>1. CASE lead > Mon!Interval
    <3>1. ~stepped => age > Deadline /\ -timer > Mon!Interval
      BY <2>1
    <3>2. /\ timer' = Mon!Interval /\ lead' = -Mon!Interval /\ age' = age
          /\ stepped' = stepped /\ (-timer > Mon!Interval => late')
          /\ tooSoon' = (tooSoon \/ (~stepped /\ age <= Deadline))
      BY <1>2, <2>1 DEF Mon!Tick
    <3>3. ~tooSoon'
      <4>1. ~tooSoon /\ ~(~stepped /\ age <= Deadline)
        BY <3>1
      <4> QED
        BY <3>2, <4>1, Zenon
    <3>4. ~stepped' => lead' = -timer' /\ late' /\ age' > Deadline
      BY <3>1, <3>2
    <3> QED
      BY <3>2, <3>3, <3>4
  <2>2. CASE ~(lead > Mon!Interval)
    BY <1>2, <2>2 DEF Mon!Tick
  <2> QED
    BY <2>1, <2>2
<1>3. CASE Mon!Passes
  BY <1>3 DEF Mon!Passes
<1>4. CASE Mon!ClockStep
  BY <1>4 DEF Mon!ClockStep
<1>5. CASE Mon!Sticks
  BY <1>5 DEF Mon!Sticks
<1>6. CASE Mon!Killed
  BY <1>6 DEF Mon!Killed
<1> QED
  BY <1>1, <1>2, <1>3, <1>4, <1>5, <1>6 DEF Mon!WatchdogNext

LEMMA WatchdogIsRight == WatchdogInv /\ Mon!BoundsAreSound => Mon!OnlyLateLoopsAreKilled
BY Halves DEF WatchdogInv, Mon!OnlyLateLoopsAreKilled

LEMMA Hours ==
  ASSUME Mon!BoundsAreSound
  PROVE /\ \A t \in Nat : /\ Mon!HourOf(t) \in Nat
                          /\ Mon!HourOf(t) * Hour \in Nat /\ Mon!HourOf(t) * Hour <= t
                          /\ Mon!HourOf(Mon!HourOf(t) * Hour) = Mon!HourOf(t)
        /\ \A t, u \in Nat : t <= u => Mon!HourOf(t) <= Mon!HourOf(u)
<1> DEFINE H == Hour
<1>1. H \in Nat /\ H # 0
  BY DEF Mon!BoundsAreSound
<1>2. ASSUME NEW t \in Nat PROVE t \div H \in Nat /\ (t \div H) * H \in Nat /\ (t \div H) * H <= t /\ t < (t \div H) * H + H 
  BY <1>1
<1>3. ASSUME NEW t \in Nat PROVE (t * H) \div H = t
  BY <1>1
<1>4. ASSUME NEW t \in Nat, NEW u \in Nat, t <= u PROVE t \div H <= u \div H
  BY <1>1, <1>2, <1>4
<1> QED
  BY <1>2, <1>3, <1>4 DEF Mon!HourOf

Sample == [disk : SUBSET Mon!Uses, locked : SUBSET Mon!Uses]
LEMMA SampleIs == 
   /\ Sample = [Mon!Metrics -> SUBSET Mon!Uses]
   /\ Mon!Metrics = {"disk", "locked"}
   /\ [disk : Mon!Uses, locked : Mon!Uses] = [Mon!Metrics -> Mon!Uses]
<1>1. Mon!Metrics = {"disk", "locked"}
 BY DEF Mon!Metrics, Mon!NoSample
<1>2. Sample = [Mon!Metrics -> SUBSET Mon!Uses]
 BY <1>1 DEF Sample
<1>3. [disk : Mon!Uses, locked : Mon!Uses] = [Mon!Metrics -> Mon!Uses]
  BY <1>1
<1> QED
  BY <1>1, <1>2, <1>3

LEMMA Newest ==
  ASSUME NEW T, NEW n \in Nat, T \subseteq 0..n, T # {}
  PROVE  Mon!Max(T) \in T /\ \A t \in T : t <= Mon!Max(T)
<1> DEFINE D == {n - t : t \in T}
<1>1. D \subseteq Nat /\ D # {}
  <2>1. \A t \in T : t \in 0..n
    OBVIOUS
  <2>2. \A t \in T : n - t \in Nat
    BY <2>1
  <2> QED
    BY <2>2
<1>0. \A t \in T : t \in Nat
  OBVIOUS
<1>2. PICK d \in D : \A e \in D : d <= e
  BY <1>1, Least, Zenon
<1>3. PICK m \in T : d = n - m
  BY <1>2
<1>4. \A t \in T : n - t \in D
  OBVIOUS
<1>5. \A t \in T : m >= t
  <2> TAKE t \in T
  <2>1. n - m <= n - t
    BY <1>2, <1>3, <1>4
  <2>2. m \in Nat /\ t \in Nat
    BY <1>0, <1>3
  <2> QED
    BY <2>1, <2>2
<1>6. Mon!Max(T) \in T /\ \A t \in T : Mon!Max(T) >= t
  BY <1>5, Zenon DEF Mon!Max
<1> QED
  BY <1>6

Pass == [began : Mon!Times, step : {"read", "set", "database"}, disk : Mon!Uses \cup {-1},
         alone : BOOLEAN, current : BOOLEAN]
SamplerTypes ==
    /\ now \in Mon!Times /\ disk \in Mon!Uses /\ locked \in Mon!Uses
    /\ gauge \in [disk : Mon!Uses, locked : Mon!Uses]
    /\ samples \in [Mon!Times -> Sample] /\ readings \in [0..Mon!HourOf(MaxTime) -> Sample]
    /\ passes \subseteq Pass
    /\ \A p \in passes : p.began <= now
    /\ \A ts \in Mon!Taken(samples) : ts <= now
Undisturbed ==
    \A p \in passes :
      /\ p.alone => /\ passes = {p} /\ \A ts \in Mon!Taken(samples) : ts <= p.began
                    /\ p.current /\ p.step = "database" /\ p.disk # -1 => gauge.disk = disk
      /\ p.current => p.disk \in {disk, -1}
Agrees(row) == row.locked = {locked} /\ row.disk \subseteq {disk}
Since(f) ==
    /\ f <= now /\ \A p \in passes : p.began >= f
    /\ f < now - Retained \/ f \in Mon!Taken(samples)
    /\ \A ts \in Mon!Taken(samples) : ts >= f /\ ts >= now - Retained => Agrees(samples[ts])
Sampled == /\ gauge.disk = disk /\ gauge.locked = locked /\ \A p \in passes : p.current
        /\ Mon!Taken(samples) # {} /\ \E f \in Mon!Times : Since(f)
SamplerInv == SamplerTypes /\ Undisturbed /\ (fresh => Sampled) /\ Mon!HoursAreKept

LEMMA SamplerInit == ASSUME Mon!BoundsAreSound PROVE Mon!SamplerInit => SamplerInv
<1> SUFFICES ASSUME Mon!SamplerInit PROVE SamplerInv
  OBVIOUS
<1>1. Mon!NoSample \in Sample /\ MaxTime \in Nat
  BY DEF Mon!NoSample, Sample, Mon!BoundsAreSound
<1>2. Mon!Taken(samples) = {}
  BY DEF Mon!SamplerInit, Mon!Taken
<1>3. SamplerTypes
  BY <1>1, <1>2 DEF Mon!SamplerInit, SamplerTypes, Mon!Times, Mon!Uses
<1>4. Mon!HoursAreKept
  <2>1. \A h \in DOMAIN readings : readings[h].disk = {} /\ readings[h].locked = {}
    BY DEF Mon!SamplerInit, Mon!NoSample
  <2> QED
    BY <1>2, <2>1, SampleIs DEF Mon!HoursAreKept
<1> QED
  BY <1>2, <1>3, <1>4 DEF Mon!SamplerInit, SamplerInv, Undisturbed

LEMMA SamplerIsRight == ASSUME Mon!BoundsAreSound, SamplerInv PROVE Mon!SensorsAndPagesAgree
<1> SUFFICES ASSUME fresh, passes = {}
             PROVE  /\ gauge = [disk |-> disk, locked |-> locked]
                    /\ LET newest == samples[Mon!Max(Mon!Taken(samples))] IN
                         Mon!Max(Mon!Taken(samples)) >= now - Retained =>
                           newest.locked = {locked} /\ newest.disk \subseteq {disk}
  BY DEF Mon!SensorsAndPagesAgree
<1>1. Sampled /\ SamplerTypes /\ MaxTime \in Nat /\ Retained \in Nat
  BY DEF SamplerInv, Mon!BoundsAreSound
<1>2. gauge = [disk |-> disk, locked |-> locked]
  BY <1>1 DEF Sampled, SamplerTypes
<1>3. PICK f \in Mon!Times : Since(f)
  BY <1>1 DEF Sampled
<1> DEFINE T == Mon!Taken(samples)
<1>4. T \subseteq 0..MaxTime
  BY DEF Mon!Taken, Mon!Times
<1>5. ASSUME Mon!Max(T) >= now - Retained PROVE Agrees(samples[Mon!Max(T)])
  <2>1. Mon!Max(T) \in T /\ \A t \in T : t <= Mon!Max(T)
    BY <1>1, <1>4, Newest DEF Sampled
  <2>2. Mon!Max(T) >= f
    BY <1>1, <1>3, <1>4, <1>5, <2>1 DEF Since, SamplerTypes, Mon!Times
  <2> QED
    BY <1>3, <1>5, <2>1, <2>2 DEF Since
<1> QED
  BY <1>2, <1>5 DEF Agrees

LEMMA SamplerBegins ==
    ASSUME Mon!BoundsAreSound, SamplerInv, Mon!Begin PROVE SamplerInv'
<1> DEFINE Old(p) == [p EXCEPT !.alone = FALSE]
           new == [began |-> now, step |-> "read", disk |-> -1, alone |-> passes = {},
                   current |-> TRUE]
<1>1. /\ passes' = {Old(p) : p \in passes} \cup {new}
      /\ UNCHANGED <<now, disk, locked, gauge, samples, readings, fresh, changes>>
  BY DEF Mon!Begin, Mon!Unread
<1>2. SamplerTypes /\ Undisturbed /\ Mon!HoursAreKept /\ (fresh => Sampled)
  BY DEF SamplerInv
<1>3. \A p \in passes : /\ Old(p) \in Pass /\ Old(p).began = p.began /\ Old(p).disk = p.disk
                        /\ Old(p).alone = FALSE /\ Old(p).current = p.current
  BY <1>2 DEF SamplerTypes, Pass
<1>4. /\ new \in Pass /\ new.began = now /\ new.disk = -1 /\ new.current = TRUE
      /\ new.step = "read" /\ (new.alone => passes = {})
  <2>1. (passes = {}) \in BOOLEAN
    OBVIOUS
  <2>2. new.began = now /\ new.disk = -1 /\ new.current = TRUE /\ new.step = "read"
    OBVIOUS
  <2>3. new.alone = (passes = {})
    OBVIOUS
  <2>4. new.alone => passes = {}
    BY <2>3, Zenon
  <2>5. now \in Mon!Times
    BY <1>2 DEF SamplerTypes
  <2>6. \A a \in BOOLEAN : [began |-> now, step |-> "read", disk |-> -1, alone |-> a,
                            current |-> TRUE] \in Pass
    BY <2>5 DEF Pass
  <2> HIDE DEF new
  <2> QED
    BY <2>1, <2>2, <2>4, <2>6, Zenon DEF new
<1> HIDE DEF new, Old
<1>5. \A p \in passes' : p = new \/ \E q \in passes : p = Old(q)
  BY <1>1
<1>6. SamplerTypes'
  <2>1. passes' \subseteq Pass
    BY <1>3, <1>4, <1>5
  <2>2. \A p \in passes' : p.began <= now
    BY <1>2, <1>3, <1>4, <1>5 DEF SamplerTypes, Mon!Times
  <2> QED
    BY <1>1, <1>2, <2>1, <2>2 DEF SamplerTypes, Mon!Taken
<1>7. Undisturbed'
  <2> SUFFICES ASSUME NEW p \in passes'
               PROVE  /\ p.alone => /\ passes' = {p} /\ \A ts \in Mon!Taken(samples) : ts <= p.began
                                    /\ p.step # "database"
                      /\ p.current => p.disk \in {disk, -1}
    BY <1>1 DEF Undisturbed, Mon!Taken
  <2>1. CASE p = new
    <3>1. new.alone => passes' = {new}
      BY <1>1, <1>4
    <3> QED
      BY <1>2, <1>4, <2>1, <3>1 DEF SamplerTypes
  <2>2. CASE \E q \in passes : p = Old(q)
    <3>1. PICK q \in passes : p = Old(q)
      BY <2>2
    <3>2. ~p.alone /\ p.current = q.current /\ p.disk = q.disk
      BY <1>3, <3>1
    <3> QED
      BY <1>2, <3>2 DEF Undisturbed
  <2> QED
    BY <1>5, <2>1, <2>2
<1>8. fresh' => Sampled'
  <2> SUFFICES ASSUME fresh PROVE Sampled'
    BY <1>1
  <2>1. PICK f \in Mon!Times : Since(f)
    BY <1>2 DEF Sampled
  <2>2. \A p \in passes' : p.began >= f /\ p.current
    BY <1>2, <1>3, <1>4, <1>5, <2>1 DEF Sampled, Since
  <2>3. Since(f)'
    BY <1>1, <2>1, <2>2 DEF Since, Mon!Taken, Agrees
  <2> QED
    BY <1>1, <1>2, <2>2, <2>3 DEF Sampled, Mon!Taken, Mon!Times
<1>9. Mon!HoursAreKept'
  BY <1>1, <1>2 DEF Mon!HoursAreKept, Mon!Taken, Mon!HourOf
<1> QED
  BY <1>6, <1>7, <1>8, <1>9 DEF SamplerInv

\* a pass that goes on: only its step and what it has read change
LEMMA PassGoesOn ==
    ASSUME Mon!BoundsAreSound, SamplerInv, NEW p \in passes, NEW q \in Pass,
           passes' = (passes \ {p}) \cup {q},
           UNCHANGED <<now, disk, locked, samples, readings, fresh>>,
           gauge' \in [disk : Mon!Uses, locked : Mon!Uses], gauge'.locked = gauge.locked,
           q.began = p.began, q.alone = p.alone, q.current = p.current,
           q.current => q.disk \in {disk, -1},
           fresh /\ q.current => gauge'.disk = gauge.disk,
           q.current /\ q.alone /\ q.step = "database" /\ q.disk # -1 => gauge'.disk = disk
    PROVE  SamplerInv'
<1>2. SamplerTypes /\ Undisturbed /\ Mon!HoursAreKept /\ (fresh => Sampled)
  BY DEF SamplerInv
<1>3. \A r \in passes' : r = q \/ r \in passes
  OBVIOUS
<1>6. SamplerTypes'
  BY <1>2, <1>3 DEF SamplerTypes, Mon!Taken
<1>7. Undisturbed'
  <2> SUFFICES ASSUME NEW r \in passes'
               PROVE  /\ r.alone => /\ passes' = {r} /\ \A ts \in Mon!Taken(samples) : ts <= r.began
                                    /\ r.current /\ r.step = "database" /\ r.disk # -1 =>
                                         gauge'.disk = disk
                      /\ r.current => r.disk \in {disk, -1}
    BY DEF Undisturbed, Mon!Taken
  <2>1. CASE r = q
    <3>1. q.alone => passes = {p} /\ \A ts \in Mon!Taken(samples) : ts <= p.began
      BY <1>2 DEF Undisturbed
    <3>2. q.alone => passes' = {q}
      BY <3>1
    <3> QED
      BY <2>1, <3>1, <3>2
  <2>2. CASE r # q
    <3>1. r \in passes /\ r # p
      BY <2>2
    <3>2. ~r.alone
      BY <1>2, <3>1 DEF Undisturbed
    <3> QED
      BY <1>2, <3>1, <3>2 DEF Undisturbed
  <2> QED
    BY <2>1, <2>2
<1>8. fresh' => Sampled'
  <2> SUFFICES ASSUME fresh PROVE Sampled'
    OBVIOUS
  <2>1. PICK f \in Mon!Times : Since(f)
    BY <1>2 DEF Sampled
  <2>2. \A r \in passes' : r.began >= f /\ r.current
    BY <1>2, <1>3, <2>1 DEF Sampled, Since
  <2>3. Since(f)'
    BY <2>1, <2>2 DEF Since, Mon!Taken, Agrees
  <2> QED
    BY <1>2, <2>2, <2>3 DEF Sampled, Mon!Taken, Mon!Times
<1>9. Mon!HoursAreKept'
  BY <1>2 DEF Mon!HoursAreKept, Mon!Taken, Mon!HourOf
<1> QED
  BY <1>6, <1>7, <1>8, <1>9 DEF SamplerInv

LEMMA SamplerReads ==
    ASSUME Mon!BoundsAreSound, SamplerInv, NEW p \in passes, Mon!ReadDisk(p) \/ Mon!SetDisk(p)
    PROVE  SamplerInv'
<1>1. /\ p \in Pass /\ (p.current => p.disk \in {disk, -1})
      /\ gauge \in [disk : Mon!Uses, locked : Mon!Uses] /\ disk \in Mon!Uses
      /\ fresh => p.current /\ gauge.disk = disk
  BY DEF SamplerInv, SamplerTypes, Undisturbed, Sampled
<1>2. CASE Mon!ReadDisk(p)
  <2>1. PICK value \in {disk, -1} :
          passes' = (passes \ {p}) \cup {[p EXCEPT !.step = "set", !.disk = value]}
    BY <1>2 DEF Mon!ReadDisk, Mon!Becomes, Mon!Unread
  <2> DEFINE q == [p EXCEPT !.step = "set", !.disk = value]
  <2>2. /\ q \in Pass /\ q.began = p.began /\ q.alone = p.alone /\ q.current = p.current
        /\ q.step = "set" /\ q.disk = value
    BY <1>1 DEF Pass
  <2>3. UNCHANGED <<now, disk, locked, gauge, samples, readings, fresh, changes, begins>>
    BY <1>2 DEF Mon!ReadDisk
  <2> HIDE DEF q
  <2> QED
    BY <1>1, <2>1, <2>2, <2>3, PassGoesOn DEF q
<1>3. CASE Mon!SetDisk(p)
  <2> DEFINE q == [p EXCEPT !.step = "database"]
  <2>1. /\ passes' = (passes \ {p}) \cup {q}
        /\ gauge' = IF p.disk = -1 THEN gauge ELSE [gauge EXCEPT !.disk = p.disk]
        /\ UNCHANGED <<now, disk, locked, samples, readings, fresh, changes, begins>>
    BY <1>3 DEF Mon!SetDisk, Mon!Becomes, Mon!Unread
  <2>2. /\ q \in Pass /\ q.began = p.began /\ q.alone = p.alone /\ q.current = p.current
        /\ q.disk = p.disk
    BY <1>1 DEF Pass
  <2> HIDE DEF q
  <2>3. /\ gauge' \in [disk : Mon!Uses, locked : Mon!Uses] /\ gauge'.locked = gauge.locked
        /\ p.disk # -1 => gauge'.disk = p.disk
        /\ p.disk = -1 => gauge' = gauge
    BY <1>1, <2>1 DEF Pass
  <2>4. /\ fresh /\ q.current => gauge'.disk = gauge.disk
        /\ q.current /\ q.disk # -1 => gauge'.disk = disk
        /\ q.current => q.disk \in {disk, -1}
    BY <1>1, <2>2, <2>3
  <2> QED
    BY <2>1, <2>2, <2>3, <2>4, PassGoesOn
<1> QED
  BY <1>2, <1>3

LEMMA SamplerFinishes ==
    ASSUME Mon!BoundsAreSound, SamplerInv, NEW p \in passes, Mon!Finish(p)
    PROVE  SamplerInv'
<1> DEFINE row == Mon!Sampled(p)
           b == p.began
<1>1. /\ p.step = "database" /\ passes' = passes \ {p}
      /\ gauge' = [gauge EXCEPT !.locked = locked]
      /\ UNCHANGED <<now, disk, locked, changes, begins>>
  BY DEF Mon!Finish
<1>2. SamplerTypes /\ Undisturbed /\ Mon!HoursAreKept /\ (fresh => Sampled) /\ p \in Pass
  BY DEF SamplerInv, SamplerTypes
<1>3. /\ gauge' \in [disk : Mon!Uses, locked : Mon!Uses]
      /\ gauge'.locked = locked /\ gauge'.disk = gauge.disk
  BY <1>1, <1>2 DEF SamplerTypes
<1>4. \A r \in passes' : r \in passes /\ ~r.alone
  BY <1>1, <1>2 DEF Undisturbed
<1>5. Undisturbed'
  BY <1>1, <1>2, <1>4 DEF Undisturbed
<1>6. CASE UNCHANGED <<samples, readings, fresh>>
  <2>1. SamplerTypes'
    BY <1>1, <1>2, <1>3, <1>4, <1>6 DEF SamplerTypes, Mon!Taken
  <2>2. fresh' => Sampled'
    <3> SUFFICES ASSUME fresh PROVE Sampled'
      BY <1>6
    <3>1. PICK f \in Mon!Times : Since(f)
      BY <1>2 DEF Sampled
    <3>2. Since(f)'
      BY <1>1, <1>4, <1>6, <3>1 DEF Since, Mon!Taken, Agrees
    <3> QED
      BY <1>1, <1>2, <1>3, <1>4, <1>6, <3>2 DEF Sampled, Mon!Taken, Mon!Times
  <2>3. Mon!HoursAreKept'
    BY <1>2, <1>6 DEF Mon!HoursAreKept, Mon!Taken, Mon!HourOf
  <2> QED
    BY <1>5, <2>1, <2>2, <2>3 DEF SamplerInv
<1>7. CASE /\ samples' = [samples EXCEPT ![b] = row]
           /\ readings' = [readings EXCEPT ![Mon!HourOf(b)] =
                             [k \in Mon!Metrics |-> @[k] \cup row[k]]]
           /\ fresh' = (fresh \/ Mon!Clean(p))
  <2>1. /\ b \in Mon!Times /\ b \in Nat /\ b <= now /\ p.disk \in Mon!Uses \cup {-1}
        /\ now \in Nat /\ MaxTime \in Nat /\ Retained \in Nat
    BY <1>2 DEF SamplerTypes, Pass, Mon!Times, Mon!BoundsAreSound
  <2>2. /\ row.locked = {locked}
        /\ row.disk = IF p.disk = -1 THEN samples[b].disk ELSE {p.disk}
        /\ row \in Sample /\ row # Mon!NoSample
    <3>1. row.locked = {locked} /\ row.disk = IF p.disk = -1 THEN samples[b].disk ELSE {p.disk}
      BY DEF Mon!Sampled, Mon!Unread
    <3>2. row \in Sample
      BY <1>2, <2>1 DEF Mon!Sampled, Mon!Unread, Sample, SamplerTypes
    <3> QED
      BY <3>1, <3>2 DEF Mon!NoSample
  <2> HIDE DEF row
  <2>3. /\ samples' \in [Mon!Times -> Sample] /\ samples'[b] = row
        /\ \A ts \in Mon!Times : ts # b => samples'[ts] = samples[ts]
    BY <1>2, <1>7, <2>1, <2>2 DEF SamplerTypes
  <2>4. Mon!Taken(samples') = Mon!Taken(samples) \cup {b} /\ Mon!Taken(samples)' = Mon!Taken(samples')
    BY <2>1, <2>2, <2>3 DEF Mon!Taken
  <2> DEFINE h == Mon!HourOf(b)
  <2>5. h \in 0..Mon!HourOf(MaxTime)
    BY <2>1, Hours DEF Mon!Times
  <2>6. /\ readings' \in [0..Mon!HourOf(MaxTime) -> Sample]
        /\ \A k \in Mon!Metrics : readings'[h][k] = readings[h][k] \cup row[k]
        /\ \A g \in 0..Mon!HourOf(MaxTime) : g # h => readings'[g] = readings[g]
    <3>1. readings[h] \in [Mon!Metrics -> SUBSET Mon!Uses] /\ row \in [Mon!Metrics -> SUBSET Mon!Uses]
      BY <1>2, <2>2, <2>5, SampleIs DEF SamplerTypes
    <3>2. [k \in Mon!Metrics |-> readings[h][k] \cup row[k]] \in [Mon!Metrics -> SUBSET Mon!Uses]
      BY <3>1
    <3>3. [k \in Mon!Metrics |-> readings[h][k] \cup row[k]] \in Sample
      BY <3>2, SampleIs
    <3> QED
      BY <1>2, <1>7, <2>5, <3>3 DEF SamplerTypes
  <2>7. SamplerTypes'
    BY <1>1, <1>2, <1>3, <1>4, <2>1, <2>3, <2>4, <2>6 DEF SamplerTypes
  <2>8. fresh' => Sampled'
    <3>1. ASSUME fresh PROVE Sampled'
      <4>1. PICK f \in Mon!Times : Since(f)
        BY <1>2, <3>1 DEF Sampled
      <4>2. p.current /\ p.disk \in {disk, -1} /\ b >= f /\ gauge.disk = disk
        BY <1>2, <3>1, <4>1 DEF Sampled, Since, Undisturbed
      <4>3. b >= now - Retained => Agrees(row)
        <5>1. CASE b \in Mon!Taken(samples)
          BY <2>2, <4>1, <4>2, <5>1 DEF Since, Agrees
        <5>2. CASE b \notin Mon!Taken(samples)
          BY <2>1, <2>2, <4>2, <5>2 DEF Mon!Taken, Mon!NoSample, Agrees
        <5> QED
          BY <5>1, <5>2
      <4>4. \A ts \in Mon!Taken(samples') : ts >= f /\ ts >= now - Retained => Agrees(samples'[ts])
        <5> TAKE ts \in Mon!Taken(samples')
        <5>1. CASE ts = b
          BY <2>3, <4>3, <5>1
        <5>2. CASE ts # b
          <6>1. ts \in Mon!Taken(samples) /\ samples'[ts] = samples[ts]
            BY <2>3, <2>4, <5>2 DEF Mon!Taken
          <6> QED
            BY <4>1, <6>1 DEF Since
        <5> QED
          BY <5>1, <5>2
      <4>5. Since(f)'
        <5>1. f <= now /\ (f < now - Retained \/ f \in Mon!Taken(samples)') /\ \A r \in passes' : r.began >= f
          BY <1>4, <2>4, <4>1 DEF Since
        <5> QED
          BY <1>1, <2>4, <4>4, <5>1 DEF Since, Agrees
      <4> QED
        BY <1>1, <1>2, <1>3, <1>4, <2>4, <3>1, <4>2, <4>5 DEF Sampled, Mon!Times
    <3>2. ASSUME Mon!Clean(p) PROVE Sampled'
      <4>1. p.alone /\ p.current /\ p.disk # -1
        BY <3>2 DEF Mon!Clean, Mon!Unread
      <4>2. /\ passes = {p} /\ \A ts \in Mon!Taken(samples) : ts <= b
            /\ p.disk = disk /\ gauge.disk = disk
        BY <1>1, <1>2, <4>1 DEF Undisturbed
      <4>3. passes' = {}
        BY <1>1, <4>2
      <4>4. Agrees(row)
        BY <2>2, <4>1, <4>2 DEF Agrees
      <4>5. Since(b)'
        <5>1. \A ts \in Mon!Taken(samples') : ts >= b => ts = b
          BY <1>2, <2>1, <2>4, <4>2 DEF SamplerTypes, Mon!Times, Mon!Taken
        <5>2. \A ts \in Mon!Taken(samples') : ts >= b => Agrees(samples'[ts])
          BY <2>3, <4>4, <5>1
        <5> QED
          BY <1>1, <2>1, <2>4, <4>3, <5>2 DEF Since, Agrees
      <4> QED
        BY <1>1, <1>3, <2>1, <2>4, <4>2, <4>3, <4>5 DEF Sampled, Mon!Times
    <3>3. fresh' => fresh \/ Mon!Clean(p)
      BY <1>7, Zenon
    <3> QED
      BY <3>1, <3>2, <3>3
  <2>9. Mon!HoursAreKept'
    <3> SUFFICES ASSUME NEW g \in 0..Mon!HourOf(MaxTime), NEW k \in Mon!Metrics
                 PROVE  /\ readings'[g][k] # {} =>
                             \E ts \in Mon!Taken(samples') : Mon!HourOf(ts) = g /\ samples'[ts][k] # {}
                        /\ \A ts \in Mon!Taken(samples') :
                             Mon!HourOf(ts) = g => samples'[ts][k] \subseteq readings'[g][k]
      BY <2>4, <2>6 DEF Mon!HoursAreKept, Mon!HourOf
    <3>1. /\ readings[g][k] # {} =>
               \E ts \in Mon!Taken(samples) : Mon!HourOf(ts) = g /\ samples[ts][k] # {}
          /\ \A ts \in Mon!Taken(samples) : Mon!HourOf(ts) = g => samples[ts][k] \subseteq readings[g][k]
      BY <1>2 DEF Mon!HoursAreKept, SamplerTypes
    <3>2. samples[b][k] # {} => row[k] # {}
      BY <2>2, SampleIs
    <3>3. ASSUME readings'[g][k] # {}
          PROVE  \E ts \in Mon!Taken(samples') : Mon!HourOf(ts) = g /\ samples'[ts][k] # {}
      <4>1. CASE g = h /\ row[k] # {}
        BY <2>3, <2>4, <4>1
      <4>2. CASE ~(g = h /\ row[k] # {})
        <5>1. readings[g][k] # {}
          BY <2>6, <3>3, <4>2
        <5>2. PICK ts \in Mon!Taken(samples) : Mon!HourOf(ts) = g /\ samples[ts][k] # {}
          BY <3>1, <5>1
        <5>3. samples'[ts][k] # {} /\ ts \in Mon!Taken(samples')
          BY <2>3, <2>4, <3>2, <5>2 DEF Mon!Taken
        <5> QED
          BY <5>2, <5>3
      <4> QED
        BY <4>1, <4>2
    <3>4. ASSUME NEW ts \in Mon!Taken(samples'), Mon!HourOf(ts) = g
          PROVE  samples'[ts][k] \subseteq readings'[g][k]
      <4>1. CASE ts = b
        BY <2>3, <2>6, <3>4, <4>1
      <4>2. CASE ts # b
        <5>1. ts \in Mon!Taken(samples) /\ samples'[ts] = samples[ts]
          BY <2>3, <2>4, <4>2 DEF Mon!Taken
        <5>2. readings[g][k] \subseteq readings'[g][k]
          BY <2>6
        <5> QED
          BY <3>1, <3>4, <5>1, <5>2
      <4> QED
        BY <4>1, <4>2
    <3> QED
      BY <3>3, <3>4
  <2> QED
    BY <1>5, <2>7, <2>8, <2>9 DEF SamplerInv
<1> QED
  BY <1>6, <1>7 DEF Mon!Finish

LEMMA SamplerRollsUp ==
    ASSUME Mon!BoundsAreSound, SamplerInv, Mon!RollUp
    PROVE  SamplerInv'
<1> DEFINE H(ts) == Mon!HourOf(ts)
           T == Mon!Taken(samples)
<1>1. /\ samples' = Mon!RolledUp /\ Mon!Past # {}
      /\ UNCHANGED <<now, disk, locked, passes, gauge, readings, fresh, changes, begins>>
  BY DEF Mon!RollUp
<1>2. SamplerTypes /\ Undisturbed /\ Mon!HoursAreKept /\ (fresh => Sampled)
  BY DEF SamplerInv
<1>3. /\ now \in Nat /\ MaxTime \in Nat /\ Retained \in Nat
      /\ \A ts \in Mon!Times : ts \in Nat
      /\ \A ts \in Mon!Past : ts \in Mon!Times /\ ts \in T /\ ts < now - Retained
      /\ T \subseteq Mon!Times
  BY <1>2 DEF SamplerTypes, Mon!Times, Mon!BoundsAreSound, Mon!Past, Mon!Taken
<1>4. \A ts \in Mon!Past : /\ H(ts) * Hour \in Mon!Times /\ H(ts) * Hour <= ts
                           /\ H(H(ts) * Hour) = H(ts)
  BY <1>3, Hours DEF Mon!Times
<1>5. \A ts \in Mon!Buckets : /\ ts \in Mon!Times /\ ts < now - Retained
                              /\ \E past \in Mon!Past : ts <= past /\ H(ts) = H(past)
  <2> SUFFICES ASSUME NEW past \in Mon!Past, NEW ts, ts = H(past) * Hour
               PROVE  ts \in Mon!Times /\ ts < now - Retained /\ ts <= past /\ H(ts) = H(past)
    BY DEF Mon!Buckets
  <2> QED
    BY <1>3, <1>4
<1>6. \A ts \in T : ts \in Mon!Past <=> ts < now - Retained
  BY DEF Mon!Past
<1>7. /\ \A ts \in Mon!Buckets : samples'[ts] = Mon!Bucket(ts)
      /\ \A ts \in Mon!Past \ Mon!Buckets : samples'[ts] = Mon!NoSample
      /\ \A ts \in Mon!Times \ (Mon!Past \cup Mon!Buckets) : samples'[ts] = samples[ts]
  BY <1>1, <1>3, <1>5 DEF Mon!RolledUp
<1>8. \A h, k : /\ \A ts \in Mon!Past : H(ts) = h => samples[ts][k] \subseteq Mon!InBucket(h, k)
                /\ Mon!InBucket(h, k) # {} =>
                     \E ts \in Mon!Past : H(ts) = h /\ samples[ts][k] # {}
                /\ \A e \in Mon!InBucket(h, k) :
                     \E ts \in Mon!Past : H(ts) = h /\ e \in samples[ts][k]
  <2> TAKE h, k
  <2>1. \A e : e \in Mon!InBucket(h, k) <=> \E ts \in Mon!Past : H(ts) = h /\ e \in samples[ts][k]
    BY DEF Mon!InBucket
  <2> QED
    BY <2>1
<1>9. \A ts \in Mon!Times, k \in Mon!Metrics : samples[ts][k] \subseteq Mon!Uses
  BY <1>2, SampleIs DEF SamplerTypes
<1>10. \A ts \in Mon!Buckets : /\ Mon!Bucket(ts) \in Sample
                               /\ \A k \in Mon!Metrics : Mon!Bucket(ts)[k] = Mon!InBucket(H(ts), k)
  <2> TAKE ts \in Mon!Buckets
  <2>1. \A k \in Mon!Metrics : Mon!InBucket(H(ts), k) \subseteq Mon!Uses
    BY <1>3, <1>8, <1>9
  <2>2. Mon!Bucket(ts) \in [Mon!Metrics -> SUBSET Mon!Uses]
    BY <2>1 DEF Mon!Bucket
  <2> QED
    BY <2>2, SampleIs DEF Mon!Bucket
<1>11. samples' \in [Mon!Times -> Sample]
  <2>1. Mon!NoSample \in Sample
    BY DEF Mon!NoSample, Sample
  <2> QED
    BY <1>1, <1>2, <1>10, <2>1 DEF SamplerTypes, Mon!RolledUp
<1>12. Mon!Taken(samples)' = Mon!Taken(samples')
  BY DEF Mon!Taken
<1>13. ASSUME NEW ts \in Mon!Taken(samples'), ts \notin Mon!Buckets
       PROVE  ts \in T /\ ts \notin Mon!Past /\ samples'[ts] = samples[ts]
  <2>1. ts \in Mon!Times /\ samples'[ts] # Mon!NoSample
    BY DEF Mon!Taken
  <2>2. ts \notin Mon!Past /\ samples'[ts] = samples[ts]
    BY <1>7, <1>13, <2>1
  <2> QED
    BY <2>1, <2>2 DEF Mon!Taken
<1>14. ASSUME NEW ts \in T, ts \notin Mon!Past
       PROVE  ts \in Mon!Taken(samples') /\ samples'[ts] = samples[ts]
  <2>1. ts \notin Mon!Buckets /\ ts \in Mon!Times
    BY <1>3, <1>5, <1>6, <1>14
  <2>2. samples'[ts] = samples[ts]
    BY <1>7, <1>14, <2>1
  <2> QED
    BY <2>1, <2>2 DEF Mon!Taken
<1>15. ASSUME NEW ts \in Mon!Taken(samples') PROVE ts <= now
  <2>1. CASE ts \in Mon!Buckets
    BY <1>3, <1>5, <2>1
  <2>2. CASE ts \notin Mon!Buckets
    BY <1>2, <1>13, <2>2 DEF SamplerTypes
  <2> QED
    BY <2>1, <2>2
<1>16. SamplerTypes'
  BY <1>1, <1>2, <1>11, <1>12, <1>15 DEF SamplerTypes
<1>17. Undisturbed'
  <2> SUFFICES ASSUME NEW p \in passes, p.alone, NEW ts \in Mon!Taken(samples')
               PROVE  ts <= p.began
    BY <1>1, <1>2, <1>12 DEF Undisturbed
  <2>1. \A t \in T : t <= p.began
    BY <1>2 DEF Undisturbed
  <2>2. p.began \in Nat /\ ts \in Nat
    BY <1>2, <1>3 DEF SamplerTypes, Pass, Mon!Taken
  <2>3. CASE ts \in Mon!Buckets
    <3>1. PICK past \in Mon!Past : ts <= past
      BY <1>5, <2>3
    <3> QED
      BY <1>3, <2>1, <2>2, <3>1
  <2>4. CASE ts \notin Mon!Buckets
    BY <1>13, <2>1, <2>4
  <2> QED
    BY <2>3, <2>4
<1>18. ASSUME NEW ts \in T, NEW k \in Mon!Metrics, samples[ts][k] # {}
       PROVE  \E t \in Mon!Taken(samples') : H(t) = H(ts) /\ samples'[t][k] # {}
  <2>1. CASE ts \in Mon!Past
    <3> DEFINE t == H(ts) * Hour
    <3>1. t \in Mon!Buckets /\ H(t) = H(ts) /\ t \in Mon!Times
      BY <1>4, <2>1 DEF Mon!Buckets
    <3>2. samples'[t][k] = Mon!InBucket(H(ts), k)
      BY <1>7, <1>10, <3>1
    <3>3. samples'[t][k] # {}
      BY <1>8, <1>18, <2>1, <3>2
    <3>4. samples'[t] # Mon!NoSample
      BY <3>3, SampleIs DEF Mon!NoSample
    <3> QED
      BY <3>1, <3>3, <3>4 DEF Mon!Taken
  <2>2. CASE ts \notin Mon!Past
    BY <1>14, <1>18, <2>2
  <2> QED
    BY <2>1, <2>2
<1>19. Mon!HoursAreKept'
  <2> SUFFICES ASSUME NEW h \in DOMAIN readings, NEW k \in Mon!Metrics
               PROVE  /\ readings[h][k] # {} =>
                           \E ts \in Mon!Taken(samples') : H(ts) = h /\ samples'[ts][k] # {}
                      /\ \A ts \in Mon!Taken(samples') :
                           H(ts) = h => samples'[ts][k] \subseteq readings[h][k]
    BY <1>1, <1>12 DEF Mon!HoursAreKept, Mon!HourOf
  <2>1. /\ readings[h][k] # {} => \E ts \in T : H(ts) = h /\ samples[ts][k] # {}
        /\ \A ts \in T : H(ts) = h => samples[ts][k] \subseteq readings[h][k]
    BY <1>2 DEF Mon!HoursAreKept
  <2>2. ASSUME NEW ts \in Mon!Taken(samples'), H(ts) = h
        PROVE  samples'[ts][k] \subseteq readings[h][k]
    <3>1. CASE ts \in Mon!Buckets
      <4>1. samples'[ts][k] = Mon!InBucket(h, k)
        BY <1>7, <1>10, <2>2, <3>1
      <4> QED
        BY <1>3, <1>8, <2>1, <4>1
    <3>2. CASE ts \notin Mon!Buckets
      BY <1>13, <2>1, <2>2, <3>2
    <3> QED
      BY <3>1, <3>2
  <2>3. ASSUME readings[h][k] # {}
        PROVE  \E ts \in Mon!Taken(samples') : H(ts) = h /\ samples'[ts][k] # {}
    BY <1>18, <2>1, <2>3
  <2> QED
    BY <2>2, <2>3
<1>20. fresh' => Sampled'
  <2> SUFFICES ASSUME fresh PROVE Sampled'
    BY <1>1
  <2>1. PICK f \in Mon!Times : Since(f)
    BY <1>2 DEF Sampled
  <2>2. Mon!Taken(samples') # {}
    <3>1. PICK ts \in T : TRUE
      BY <1>2 DEF Sampled
    <3>2. PICK past \in Mon!Past : TRUE
      BY <1>1
    <3>3. past \in T /\ samples[past] # Mon!NoSample
      BY <1>3 DEF Mon!Taken
    <3>4. samples[past] \in Sample
      BY <1>2, <1>3 DEF SamplerTypes
    <3>5. samples[past].disk # {} \/ samples[past].locked # {}
      BY <3>3, <3>4 DEF Sample, Mon!NoSample
    <3> QED
      BY <1>18, <3>3, <3>5, SampleIs
  <2>3. f < now - Retained \/ f \in Mon!Taken(samples')
    BY <1>6, <1>14, <2>1 DEF Since
  <2>4. \A ts \in Mon!Taken(samples') : ts >= f /\ ts >= now - Retained => Agrees(samples'[ts])
    <3> SUFFICES ASSUME NEW ts \in Mon!Taken(samples'), ts >= f, ts >= now - Retained
                 PROVE  Agrees(samples'[ts])
      OBVIOUS
    <3>1. ts \in Mon!Times
      BY DEF Mon!Taken
    <3>2. ts \notin Mon!Buckets
      BY <1>3, <1>5, <3>1
    <3> QED
      BY <1>13, <2>1, <3>2 DEF Since
  <2>5. Since(f)'
    BY <1>1, <1>12, <2>1, <2>3, <2>4 DEF Since, Agrees
  <2> QED
    BY <1>1, <1>2, <1>12, <2>2, <2>5 DEF Sampled, Mon!Times
<1> QED
  BY <1>16, <1>17, <1>19, <1>20 DEF SamplerInv

LEMMA SamplerMoves ==
    ASSUME Mon!BoundsAreSound, SamplerInv,
           Mon!Second \/ Mon!Change \/ Mon!Restarted \/ UNCHANGED Mon!samplerVars
    PROVE  SamplerInv'
<1>1. SamplerTypes /\ Undisturbed /\ Mon!HoursAreKept /\ (fresh => Sampled) /\ MaxTime \in Nat
      /\ now \in Nat /\ Retained \in Nat /\ \A ts \in Mon!Times : ts \in Nat
  BY DEF SamplerInv, Mon!BoundsAreSound, SamplerTypes, Mon!Times
<1>2. UNCHANGED <<samples, readings>>
  BY DEF Mon!Second, Mon!Change, Mon!Restarted, Mon!samplerVars
<1>3. Mon!HoursAreKept' /\ UNCHANGED Mon!Taken(samples)
  BY <1>1, <1>2 DEF Mon!HoursAreKept, Mon!Taken, Mon!HourOf
<1>4. CASE UNCHANGED Mon!samplerVars
  <2>1. Sampled => Sampled'
    BY <1>4 DEF Mon!samplerVars, Sampled, Since, Agrees, Mon!Taken, Mon!Times
  <2> QED
    BY <1>1, <1>3, <1>4, <2>1 DEF Mon!samplerVars, SamplerInv, SamplerTypes, Undisturbed
<1>5. CASE Mon!Second
  <2>1. now' \in Mon!Times /\ now' = now + 1
        /\ UNCHANGED <<disk, locked, passes, gauge, samples, readings, fresh, changes, begins>>
    BY <1>1, <1>5 DEF Mon!Second, Mon!Times
  <2>2. SamplerTypes'
    <3>0. \A n \in Mon!Times : n <= now => n <= now'
      BY <1>1, <2>1
    <3>1. \A p \in passes : p.began \in Mon!Times /\ p.began <= now
      BY <1>1 DEF SamplerTypes, Pass
    <3>2. \A p \in passes : p.began <= now'
      BY <3>0, <3>1
    <3>3. \A ts \in Mon!Taken(samples) : ts \in Mon!Times /\ ts <= now
      BY <1>1 DEF SamplerTypes, Mon!Taken
    <3>4. \A ts \in Mon!Taken(samples) : ts <= now'
      BY <3>0, <3>3
    <3> QED
      BY <1>1, <1>3, <2>1, <3>2, <3>4 DEF SamplerTypes
  <2>3. ASSUME NEW f \in Mon!Times, Since(f) PROVE Since(f)'
    <3>1. f <= now' /\ (f < now' - Retained \/ f \in Mon!Taken(samples))
      BY <1>1, <2>1, <2>3 DEF Since
    <3>2. \A ts \in Mon!Taken(samples) : ts >= f /\ ts >= now' - Retained => Agrees(samples[ts])
      BY <1>1, <2>1, <2>3 DEF Since, Mon!Taken
    <3> QED
      BY <1>3, <2>1, <2>3, <3>1, <3>2 DEF Since, Agrees
  <2>4. Sampled => Sampled'
    BY <1>3, <2>1, <2>3 DEF Sampled, Mon!Times
  <2> QED
    BY <1>1, <1>3, <2>1, <2>2, <2>4 DEF SamplerInv, Undisturbed
<1>6. CASE Mon!Change
  <2> DEFINE Old(p) == [p EXCEPT !.current = FALSE]
  <2>1. /\ passes' = {Old(p) : p \in passes} /\ fresh' = FALSE
        /\ disk' \in Mon!Uses /\ locked' \in Mon!Uses
        /\ UNCHANGED <<now, gauge, samples, readings, begins>>
    BY <1>1, <1>6 DEF Mon!Change, SamplerTypes, Mon!Uses
  <2>2. \A p \in passes : /\ Old(p) \in Pass /\ Old(p).began = p.began /\ Old(p).disk = p.disk
                          /\ Old(p).alone = p.alone /\ Old(p).current = FALSE
    BY <1>1 DEF SamplerTypes, Pass
  <2> HIDE DEF Old
  <2>3. SamplerTypes'
    BY <1>1, <1>3, <2>1, <2>2 DEF SamplerTypes
  <2>4. Undisturbed'
    <3> SUFFICES ASSUME NEW p \in passes
                 PROVE  /\ Old(p).alone => /\ passes' = {Old(p)}
                                           /\ \A ts \in Mon!Taken(samples) : ts <= Old(p).began
                        /\ ~Old(p).current
      BY <1>3, <2>1 DEF Undisturbed
    <3> QED
      BY <1>1, <2>1, <2>2 DEF Undisturbed
  <2> QED
    BY <1>3, <2>1, <2>3, <2>4 DEF SamplerInv
<1>7. CASE Mon!Restarted
  <2>1. /\ passes' = {} /\ gauge' = [disk |-> 0, locked |-> 0] /\ fresh' = FALSE
        /\ UNCHANGED <<now, disk, locked, samples, readings, begins>>
    BY <1>7 DEF Mon!Restarted
  <2> QED
    BY <1>1, <1>3, <2>1 DEF SamplerInv, SamplerTypes, Undisturbed, Mon!Uses
<1> QED
  BY <1>4, <1>5, <1>6, <1>7

LEMMA SamplerNext ==
    ASSUME Mon!BoundsAreSound, SamplerInv, Mon!SamplerNext \/ UNCHANGED Mon!samplerVars
    PROVE  SamplerInv'
<1>1. CASE Mon!Begin
  BY <1>1, SamplerBegins
<1>2. CASE \E p \in passes : Mon!ReadDisk(p) \/ Mon!SetDisk(p)
  BY <1>2, SamplerReads
<1>3. CASE \E p \in passes : Mon!Finish(p)
  BY <1>3, SamplerFinishes
<1>4. CASE Mon!RollUp
  BY <1>4, SamplerRollsUp
<1>5. CASE Mon!Second \/ Mon!Change \/ Mon!Restarted \/ UNCHANGED Mon!samplerVars
  BY <1>5, SamplerMoves
<1> QED
  BY <1>1, <1>2, <1>3, <1>4, <1>5 DEF Mon!SamplerNext

(* The gauges and the samples a sensor and a page read say how things are, *)
(* however many passes overlap and however often samples are rolled up,    *)
(* and systemd kills a loop that is late and no other.                     *)
THEOREM MonitorHolds ==
    ASSUME Mon!BoundsAreSound
    PROVE  Mon!MonitorSpec => [](Mon!MonitorIsRight /\ Mon!MonitorTypeOK)
<1> DEFINE Inv == SamplerInv /\ WatchdogInv
<1>1. Mon!MonitorInit => Inv
  BY SamplerInit, WatchdogInit DEF Mon!MonitorInit
<1>2. Inv /\ [Mon!SamplerNext \/ Mon!WatchdogNext]_(Mon!monitorVars) => Inv'
  <2> SUFFICES ASSUME Inv, [Mon!SamplerNext \/ Mon!WatchdogNext]_(Mon!monitorVars) PROVE Inv'
    OBVIOUS
  <2>1. Mon!SamplerNext \/ UNCHANGED Mon!samplerVars
    BY DEF Mon!WatchdogNext, Mon!monitorVars
  <2>2. [Mon!WatchdogNext]_(Mon!watchdogVars)
    BY DEF Mon!SamplerNext, Mon!monitorVars
  <2> QED
    BY <2>1, <2>2, SamplerNext, WatchdogNext
<1>3. Inv => Mon!MonitorIsRight /\ Mon!MonitorTypeOK
  <2> SUFFICES ASSUME Inv PROVE Mon!MonitorIsRight /\ Mon!MonitorTypeOK
    OBVIOUS
  <2>1. Mon!SensorsAndPagesAgree /\ Mon!HoursAreKept /\ Mon!OnlyLateLoopsAreKilled
    BY SamplerIsRight, WatchdogIsRight DEF SamplerInv
  <2>2. Mon!MonitorTypeOK
    BY SampleIs DEF SamplerInv, SamplerTypes, WatchdogInv, Mon!MonitorTypeOK
  <2> QED
    BY <2>1, <2>2 DEF Mon!MonitorIsRight
<1> HIDE DEF Inv
<1> QED
  BY <1>1, <1>2, <1>3, PTL DEF Mon!MonitorSpec
=============================================================================
