--------------------------- MODULE Service_proofs ---------------------------
(***************************************************************************)
(* Proofs about what the process is made of besides the shares: the        *)
(* scanner of the server and the watcher of the cache, for any trees,      *)
(* files, looks, chunks and losses, and the process itself, for any number *)
(* of failures, signals and kills; and what follows for the specification  *)
(* that the run checks.                                                    *)
(***************************************************************************)
EXTENDS Listeners_proofs

-----------------------------------------------------------------------------
(* The scanner.  While a walk that has not stopped at its ceiling goes on, *)
(* every path is accounted for: it has been seen, was not there or not to  *)
(* be read, is about to be taken, or is in a directory that is still to be *)
(* read or has not been seen itself.                                       *)

Paths == Scan!Paths
Known == Looks \cup {"dir"}
Elements(q) == {q[i] : i \in 1..Len(q)}
Closed(S) == \A p \in Paths : Parent[p] \in S => p \in S

Seen == stamped \cup Scan!PathsOf(scan.chunk)
Settled(p) ==
    \/ p \in Seen \cup scan.gone \cup scan.hidden \cup scan.dirents
    \/ Parent[p] \in Elements(scan.queue)
    \/ Parent[p] \in Dirs \ Seen
Walked ==
    /\ {p \in Paths : tree[p] = None} \subseteq scan.gone
    /\ Closed(scan.gone) /\ Closed(scan.hidden)
    /\ Scan!PathsOf(scan.changes) \subseteq {p \in Paths : index[p] # None}
    /\ ~scan.truncated => \A p \in Paths : Settled(p)
Announced ==
    breaks = 0 /\ ~closed =>
        \A p \in Paths : view[p] = index[p] \/ (scan # None /\ p \in Scan!PathsOf(scan.changes))

ScanTypes ==
    /\ tree \in [Paths -> Known \cup {None}] /\ Closed({p \in Paths : tree[p] = None})
    /\ index \in [Paths -> Known \cup {None}] /\ view \in [Paths -> Known \cup {None}]
    /\ stamped \subseteq {p \in Paths : index[p] # None}
    /\ scan \in Scan!Walks \cup {None} /\ breaks \in Nat
ScanInv == ScanTypes /\ Announced /\ (scan # None => Walked)

LEMMA Queues ==
    ASSUME NEW S, NEW q \in Seq(S)
    PROVE  /\ Elements(q) \subseteq S /\ (q = <<>> => Elements(q) = {})
           /\ q # <<>> => /\ Head(q) \in S /\ Tail(q) \in Seq(S)
                          /\ Elements(q) = {Head(q)} \cup Elements(Tail(q))
           /\ \A e \in S : /\ Append(q, e) \in Seq(S)
                           /\ Elements(Append(q, e)) = Elements(q) \cup {e}
<1>1. Len(q) \in Nat /\ \A i \in 1..Len(q) : q[i] \in S
  OBVIOUS
<1>2. Elements(q) \subseteq S /\ (q = <<>> => Elements(q) = {})
  BY <1>1 DEF Elements
<1>3. ASSUME q # <<>>
      PROVE  /\ Head(q) \in S /\ Tail(q) \in Seq(S)
             /\ Elements(q) = {Head(q)} \cup Elements(Tail(q))
  <2>1. /\ Head(q) \in S /\ Tail(q) \in Seq(S) /\ Len(q) \in Nat \ {0}
        /\ Len(Tail(q)) = Len(q) - 1 /\ Head(q) = q[1]
    BY <1>3
  <2>2. \A i \in 1..Len(Tail(q)) : Tail(q)[i] = q[i + 1]
    BY <1>3
  <2>3. ASSUME NEW e \in Elements(q) PROVE e = Head(q) \/ e \in Elements(Tail(q))
    <3>1. PICK i \in 1..Len(q) : e = q[i]
      BY DEF Elements
    <3>2. i = 1 \/ (i - 1 \in 1..Len(Tail(q)) /\ q[(i - 1) + 1] = q[i])
      BY <2>1
    <3>3. i - 1 \in 1..Len(Tail(q)) => Tail(q)[i - 1] = q[i]
      BY <2>1, <2>2, <3>2
    <3> QED
      BY <2>1, <3>1, <3>2, <3>3 DEF Elements
  <2>4. ASSUME NEW e \in Elements(Tail(q)) PROVE e \in Elements(q)
    <3>1. PICK i \in 1..Len(Tail(q)) : e = Tail(q)[i]
      BY DEF Elements
    <3>2. i + 1 \in 1..Len(q) /\ e = q[i + 1]
      BY <2>1, <2>2, <3>1
    <3> QED
      BY <3>2 DEF Elements
  <2>5. Head(q) \in Elements(q)
    BY <2>1 DEF Elements
  <2> QED
    BY <2>1, <2>3, <2>4, <2>5
<1>4. ASSUME NEW e \in S
      PROVE  Append(q, e) \in Seq(S) /\ Elements(Append(q, e)) = Elements(q) \cup {e}
  <2>1. /\ Append(q, e) \in Seq(S) /\ Len(Append(q, e)) = Len(q) + 1
        /\ \A i \in 1..Len(q) : Append(q, e)[i] = q[i]
        /\ Append(q, e)[Len(q) + 1] = e
    OBVIOUS
  <2>2. 1..(Len(q) + 1) = 1..Len(q) \cup {Len(q) + 1}
    BY <1>1
  <2> QED
    BY <2>1, <2>2 DEF Elements
<1> QED
  BY <1>2, <1>3, <1>4

LEMMA Below ==
    ASSUME Scan!TreeIsSound, NEW d
    PROVE  /\ Scan!Beneath(d) \subseteq Paths /\ Scan!Inside(d) \subseteq Scan!Beneath(d)
           /\ Closed(Scan!Beneath(d))
<1>1. \A e : Scan!Inside(e) = {p \in Paths : Parent[p] = e}
  BY DEF Scan!Inside, Paths
<1>2. Scan!Beneath(d) = {p \in Paths : \A S \in SUBSET Paths :
          (Scan!Inside(d) \subseteq S /\ \A e \in S : Scan!Inside(e) \subseteq S) => p \in S}
  BY DEF Scan!Beneath, Paths
<1>3. Scan!Inside(d) \subseteq Scan!Beneath(d)
  BY <1>1, <1>2
<1>4. ASSUME NEW p \in Paths, Parent[p] \in Scan!Beneath(d) PROVE p \in Scan!Beneath(d)
  <2>1. ASSUME NEW S \in SUBSET Paths, Scan!Inside(d) \subseteq S,
               \A e \in S : Scan!Inside(e) \subseteq S
        PROVE  p \in S
    <3>1. Parent[p] \in S
      BY <1>2, <1>4, <2>1
    <3>2. p \in Scan!Inside(Parent[p])
      BY <1>1
    <3> QED
      BY <2>1, <3>1, <3>2
  <2> QED
    BY <1>2, <2>1
<1> QED
  BY <1>2, <1>3, <1>4 DEF Closed

LEMMA Observes ==
    ASSUME None \notin Known, NEW i \in [Paths -> Known \cup {None}],
           NEW chunk \in SUBSET Scan!Entries
    PROVE  /\ Scan!Observed(i, chunk) \in [Paths -> Known \cup {None}]
           /\ Scan!PathsOf(chunk) \subseteq Paths
           /\ Scan!Changed(i, chunk) \in SUBSET Scan!Entries
           /\ Scan!PathsOf(Scan!Changed(i, chunk)) \subseteq Scan!PathsOf(chunk)
           /\ \A p \in Paths :
                /\ p \in Scan!PathsOf(chunk) => Scan!Observed(i, chunk)[p] # None
                /\ i[p] # None => Scan!Observed(i, chunk)[p] # None
                /\ Scan!Observed(i, chunk)[p] # i[p] => p \in Scan!PathsOf(Scan!Changed(i, chunk))
<1>1. \A e \in chunk : e.path \in Paths /\ e.look \in Known
  BY DEF Scan!Entries, Paths, Known
<1>2. ASSUME NEW p \in Paths, \E e \in chunk : e.path = p
      PROVE  \E e \in chunk : e.path = p /\ Scan!Observed(i, chunk)[p] = e.look
  <2>1. LET f == CHOOSE e \in chunk : e.path = p IN f \in chunk /\ f.path = p
    BY <1>2
  <2> QED
    BY <1>2, <2>1 DEF Scan!Observed, Paths
<1>3. \A p \in Paths : ~(\E e \in chunk : e.path = p) => Scan!Observed(i, chunk)[p] = i[p]
  BY DEF Scan!Observed, Paths
<1>4. DOMAIN Scan!Observed(i, chunk) = Paths
      /\ Scan!Observed(i, chunk) = [p \in Paths |-> Scan!Observed(i, chunk)[p]]
  BY DEF Scan!Observed, Paths
<1>5. \A p \in Paths : Scan!Observed(i, chunk)[p] \in Known \cup {None}
  BY <1>1, <1>2, <1>3
<1>6. Scan!Observed(i, chunk) \in [Paths -> Known \cup {None}]
  BY <1>4, <1>5
<1>7. ASSUME NEW p \in Paths, Scan!Observed(i, chunk)[p] # i[p]
      PROVE  p \in Scan!PathsOf(Scan!Changed(i, chunk))
  <2>1. PICK e \in chunk : e.path = p /\ Scan!Observed(i, chunk)[p] = e.look
    BY <1>2, <1>3, <1>7
  <2> QED
    BY <1>7, <2>1 DEF Scan!Changed, Scan!PathsOf
<1> QED
  BY <1>1, <1>2, <1>3, <1>6, <1>7 DEF Scan!PathsOf, Scan!Changed
LEMMA Constants ==
    ASSUME Scan!TreeIsSound
    PROVE  /\ None \notin Known /\ None \notin Scan!Walks /\ Paths = Dirs \cup Files
           /\ \A p \in Paths : Parent[p] \in Dirs \cup {Root} /\ Parent[p] # p
           /\ Root \notin Paths /\ Dirs \subseteq Paths
           /\ \A p \in Paths : Scan!LooksOf(p) \subseteq Known
           /\ \A p \in Dirs : Scan!LooksOf(p) = {"dir"}
<1>1. Paths = Dirs \cup Files
  BY DEF Paths, Scan!Paths
<1>2. /\ Parent \in [Paths -> Dirs \cup {Root}] /\ Root \notin Paths
      /\ \A S \in (SUBSET Paths) \ {{}} : \E p \in S : Parent[p] \notin S
      /\ None \notin Known /\ None \notin Scan!Walks
  BY DEF Scan!TreeIsSound, Known, Paths
<1>3. ASSUME NEW p \in Paths PROVE Parent[p] # p
  <2>1. {p} \in (SUBSET Paths) \ {{}}
    OBVIOUS
  <2> QED
    BY <1>2, <2>1
<1>4. /\ \A p \in Paths : Scan!LooksOf(p) \subseteq Known
      /\ \A p \in Dirs : Scan!LooksOf(p) = {"dir"}
  BY DEF Scan!LooksOf, Known
<1> QED
  BY <1>1, <1>2, <1>3, <1>4

LEMMA ScanInit == ASSUME Scan!TreeIsSound PROVE Scan!Init => ScanInv
<1> SUFFICES ASSUME Scan!Init PROVE ScanInv
  OBVIOUS
<1>1. tree \in [Paths -> Known \cup {None}]
  <2>1. tree \in [Paths -> {None, "dir"} \cup Looks]
    BY DEF Scan!Init, Paths
  <2> QED
    BY <2>1 DEF Known
<1>2. Closed({p \in Paths : tree[p] = None})
  BY Constants DEF Scan!Init, Closed, Paths
<1>3. /\ index = [p \in Paths |-> None] /\ view = [p \in Paths |-> None]
      /\ stamped = {} /\ scan = None /\ breaks = 0
  BY DEF Scan!Init, Paths
<1> QED
  BY <1>1, <1>2, <1>3 DEF ScanInv, ScanTypes, Announced

(* An entry that is emitted is seen, whether its chunk is handed over now  *)
(* or later, and what changes with it will be announced.                   *)
LEMMA Emits ==
    ASSUME Scan!TreeIsSound, ScanTypes, NEW s \in Scan!Walks, NEW p \in Paths,
           p \in Dirs \/ tree[p] # None, Scan!Emit(s, p)
    PROVE  /\ index' \in [Paths -> Known \cup {None}]
           /\ stamped' \subseteq {q \in Paths : index'[q] # None}
           /\ scan' \in Scan!Walks
           /\ scan'.by = s.by /\ scan'.queue = s.queue /\ scan'.dirents = s.dirents
           /\ scan'.truncated = s.truncated /\ scan'.gone = s.gone /\ scan'.hidden = s.hidden
           /\ Seen' = stamped \cup Scan!PathsOf(s.chunk) \cup {p}
           /\ Scan!PathsOf(s.changes) \subseteq Scan!PathsOf(scan'.changes)
           /\ Scan!PathsOf(s.changes) \subseteq {q \in Paths : index[q] # None} =>
                Scan!PathsOf(scan'.changes) \subseteq {q \in Paths : index'[q] # None}
           /\ \A q \in Paths : index'[q] # index[q] => q \in Scan!PathsOf(scan'.changes)
<1> DEFINE entry == [path |-> p, look |-> IF p \in Dirs THEN "dir" ELSE tree[p]]
           chunk == s.chunk \cup {entry}
<1>1. None \notin Known /\ None \notin Scan!Walks
  BY Constants
<1>2. entry \in Scan!Entries /\ entry.path = p
  BY DEF ScanTypes, Scan!Entries, Paths, Known
<1>3. chunk \in SUBSET Scan!Entries
  BY <1>2 DEF Scan!Walks
<1>4. Scan!PathsOf(chunk) = Scan!PathsOf(s.chunk) \cup {p}
  BY <1>2 DEF Scan!PathsOf
<1>5. \/ /\ index' = Scan!Observed(index, chunk)
         /\ stamped' = stamped \cup Scan!PathsOf(chunk)
         /\ scan' = [s EXCEPT !.chunk = {}, !.changes = @ \cup Scan!Changed(index, chunk)]
      \/ /\ scan' = [s EXCEPT !.chunk = chunk] /\ UNCHANGED <<index, stamped>>
  BY DEF Scan!Emit
<1> HIDE DEF chunk, entry
<1>6. index \in [Paths -> Known \cup {None}] /\ stamped \subseteq {q \in Paths : index[q] # None}
  BY DEF ScanTypes
<1>7. CASE /\ index' = Scan!Observed(index, chunk)
           /\ stamped' = stamped \cup Scan!PathsOf(chunk)
           /\ scan' = [s EXCEPT !.chunk = {}, !.changes = @ \cup Scan!Changed(index, chunk)]
  <2>1. /\ index' \in [Paths -> Known \cup {None}] /\ Scan!PathsOf(chunk) \subseteq Paths
        /\ Scan!Changed(index, chunk) \in SUBSET Scan!Entries
        /\ Scan!PathsOf(Scan!Changed(index, chunk)) \subseteq Scan!PathsOf(chunk)
        /\ \A q \in Paths :
             /\ q \in Scan!PathsOf(chunk) => index'[q] # None
             /\ index[q] # None => index'[q] # None
             /\ index'[q] # index[q] => q \in Scan!PathsOf(Scan!Changed(index, chunk))
    BY <1>1, <1>3, <1>6, <1>7, Observes
  <2>2. /\ scan' \in Scan!Walks
        /\ scan'.by = s.by /\ scan'.queue = s.queue /\ scan'.dirents = s.dirents
        /\ scan'.truncated = s.truncated /\ scan'.gone = s.gone /\ scan'.hidden = s.hidden
        /\ scan'.chunk = {} /\ scan'.changes = s.changes \cup Scan!Changed(index, chunk)
    BY <1>7, <2>1 DEF Scan!Walks
  <2>3. /\ Scan!PathsOf(scan'.changes) = Scan!PathsOf(s.changes)
              \cup Scan!PathsOf(Scan!Changed(index, chunk))
        /\ Scan!PathsOf(scan'.chunk) = {}
    BY <2>2 DEF Scan!PathsOf
  <2>4. Seen' = stamped \cup Scan!PathsOf(s.chunk) \cup {p}
    <3>1. Seen' = stamped' \cup Scan!PathsOf(scan'.chunk)
      BY DEF Seen, Scan!PathsOf
    <3> QED
      BY <1>4, <1>7, <2>3, <3>1
  <2> QED
    BY <1>6, <1>7, <2>1, <2>2, <2>3, <2>4
<1>8. CASE scan' = [s EXCEPT !.chunk = chunk] /\ UNCHANGED <<index, stamped>>
  <2>1. /\ scan' \in Scan!Walks
        /\ scan'.by = s.by /\ scan'.queue = s.queue /\ scan'.dirents = s.dirents
        /\ scan'.truncated = s.truncated /\ scan'.gone = s.gone /\ scan'.hidden = s.hidden
        /\ scan'.chunk = chunk /\ scan'.changes = s.changes
    BY <1>3, <1>8 DEF Scan!Walks
  <2>2. Seen' = stamped' \cup Scan!PathsOf(scan'.chunk)
    BY DEF Seen, Scan!PathsOf
  <2> QED
    BY <1>4, <1>6, <1>8, <2>1, <2>2
<1> QED
  BY <1>5, <1>7, <1>8

LEMMA ScanReads ==
    ASSUME Scan!TreeIsSound, ScanInv, Scan!ReadDirectory PROVE ScanInv'
<1> DEFINE d == Head(scan.queue)
           s == [scan EXCEPT !.queue = Tail(@)]
<1>1. /\ scan # None /\ scan.dirents = {} /\ scan.queue # <<>>
      /\ \/ scan' = [s EXCEPT !.dirents = {p \in Scan!Inside(d) : tree[p] # None}]
         \/ scan' = [s EXCEPT !.hidden = @ \cup Scan!Beneath(d)]
      /\ UNCHANGED <<tree, index, stamped, view, closed, breaks>>
  BY DEF Scan!ReadDirectory, Scan!Running, Scan!loop
<1>2. /\ scan \in Scan!Walks /\ Walked /\ Announced /\ ScanTypes /\ None \notin Scan!Walks
  BY <1>1, Constants DEF ScanInv, ScanTypes
<1>3. /\ scan.queue \in Seq(Dirs \cup {Root}) /\ scan.hidden \subseteq Paths
  BY <1>2 DEF Scan!Walks, Paths
<1>4. /\ Tail(scan.queue) \in Seq(Dirs \cup {Root})
      /\ Elements(scan.queue) = {d} \cup Elements(Tail(scan.queue))
  BY <1>1, <1>3, Queues
<1>5. Scan!Inside(d) = {p \in Paths : Parent[p] = d}
  BY DEF Scan!Inside, Paths
<1>6. /\ Scan!Beneath(d) \subseteq Paths /\ Scan!Inside(d) \subseteq Scan!Beneath(d)
      /\ Closed(Scan!Beneath(d))
  BY Below
<1> HIDE DEF d
<1>7. s \in Scan!Walks /\ s.queue = Tail(scan.queue) /\ s.dirents = {}
      /\ s.chunk = scan.chunk /\ s.changes = scan.changes /\ s.truncated = scan.truncated
      /\ s.gone = scan.gone /\ s.hidden = scan.hidden
  BY <1>1, <1>2, <1>4 DEF Scan!Walks
<1> HIDE DEF s
<1>8. /\ scan' \in Scan!Walks /\ scan'.queue = Tail(scan.queue)
      /\ scan'.chunk = scan.chunk /\ scan'.changes = scan.changes
      /\ scan'.truncated = scan.truncated /\ scan'.gone = scan.gone
      /\ \/ scan'.dirents = {p \in Scan!Inside(d) : tree[p] # None} /\ scan'.hidden = scan.hidden
         \/ scan'.dirents = {} /\ scan'.hidden = scan.hidden \cup Scan!Beneath(d)
  BY <1>1, <1>5, <1>6, <1>7, ZenonT(60) DEF Scan!Walks, Paths
<1>9. Seen' = Seen
  BY <1>1, <1>8 DEF Seen, Scan!PathsOf
<1>10. ASSUME NEW p \in Paths, Settled(p), {q \in Paths : tree[q] = None} \subseteq scan.gone
       PROVE  Settled(p)'
  <2>1. CASE p \in Seen \cup scan.gone \cup scan.hidden \/ Parent[p] \in Dirs \ Seen
    BY <1>8, <1>9, <2>1 DEF Settled
  <2>2. CASE Parent[p] \in Elements(Tail(scan.queue))
    BY <1>8, <2>2 DEF Settled
  <2>3. CASE Parent[p] = d
    BY <1>5, <1>6, <1>8, <1>10, <2>3 DEF Settled
  <2> QED
    BY <1>1, <1>4, <1>10, <2>1, <2>2, <2>3 DEF Settled
<1>11. Closed(scan'.hidden)
  BY <1>2, <1>6, <1>8 DEF Closed, Walked
<1>12. Walked'
  BY <1>1, <1>2, <1>8, <1>10, <1>11 DEF Walked, Closed, Scan!PathsOf
<1>13. ScanTypes' /\ Announced'
  BY <1>1, <1>2, <1>8 DEF ScanTypes, Announced, Closed, Scan!PathsOf
<1> QED
  BY <1>12, <1>13 DEF ScanInv
(* An entry of the directory that is being read is taken, and emitted with *)
(* a walk s that may go on into it.                                        *)
LEMMA Takes ==
    ASSUME Scan!TreeIsSound, ScanInv, scan # None, NEW p \in scan.dirents,
           p \in Dirs \/ tree[p] # None, NEW s \in Scan!Walks,
           s.chunk = scan.chunk, s.changes = scan.changes, s.gone = scan.gone,
           s.hidden = scan.hidden, Scan!Emit(s, p),
           \/ s.truncated
           \/ /\ s.truncated = scan.truncated /\ s.dirents = scan.dirents \ {p}
              /\ Elements(scan.queue) \subseteq Elements(s.queue)
              /\ p \in Dirs => p \in Elements(s.queue),
           UNCHANGED <<tree, view, closed, breaks>>
    PROVE  ScanInv'
<1>1. /\ scan \in Scan!Walks /\ Walked /\ Announced /\ ScanTypes
      /\ None \notin Scan!Walks /\ None \notin Known
  BY Constants DEF ScanInv, ScanTypes
<1>2. p \in Paths
  BY <1>1 DEF Scan!Walks, Paths
<1>3. /\ index' \in [Paths -> Known \cup {None}]
      /\ stamped' \subseteq {q \in Paths : index'[q] # None}
      /\ scan' \in Scan!Walks
      /\ scan'.queue = s.queue /\ scan'.dirents = s.dirents
      /\ scan'.truncated = s.truncated /\ scan'.gone = s.gone /\ scan'.hidden = s.hidden
      /\ Seen' = stamped \cup Scan!PathsOf(s.chunk) \cup {p}
      /\ Scan!PathsOf(s.changes) \subseteq Scan!PathsOf(scan'.changes)
      /\ Scan!PathsOf(s.changes) \subseteq {q \in Paths : index[q] # None} =>
           Scan!PathsOf(scan'.changes) \subseteq {q \in Paths : index'[q] # None}
      /\ \A q \in Paths : index'[q] # index[q] => q \in Scan!PathsOf(scan'.changes)
  BY <1>1, <1>2, Emits
<1>4. Seen' = Seen \cup {p}
  BY <1>3 DEF Seen
<1>5. ScanTypes'
  BY <1>1, <1>3 DEF ScanTypes, Closed
<1>6. Announced'
  <2>1. SUFFICES ASSUME breaks = 0, ~closed, NEW q \in Paths
                 PROVE  view[q] = index'[q] \/ q \in Scan!PathsOf(scan'.changes)
    BY <1>1, <1>3 DEF Announced, Scan!PathsOf
  <2>2. view[q] = index[q] \/ q \in Scan!PathsOf(s.changes)
    BY <1>1, <2>1 DEF Announced
  <2> QED
    BY <1>3, <2>2
<1>7. Walked'
  <2>1. /\ {q \in Paths : tree'[q] = None} \subseteq scan'.gone
        /\ Closed(scan'.gone) /\ Closed(scan'.hidden)
        /\ Scan!PathsOf(scan'.changes) \subseteq {q \in Paths : index'[q] # None}
    BY <1>1, <1>3 DEF Walked
  <2>2. ASSUME ~s.truncated, NEW q \in Paths PROVE Settled(q)'
    <3>1. Settled(q)
      BY <1>1, <2>2 DEF Walked
    <3>2. CASE q \in Seen \cup scan.gone \cup scan.hidden
      BY <1>3, <1>4, <3>2 DEF Settled
    <3>3. CASE q \in scan.dirents
      BY <1>3, <1>4, <2>2, <3>3 DEF Settled
    <3>4. CASE Parent[q] \in Elements(scan.queue)
      BY <1>3, <2>2, <3>4 DEF Settled
    <3>5. CASE Parent[q] \in Dirs \ Seen
      BY <1>3, <1>4, <2>2, <3>5 DEF Settled
    <3> QED
      BY <3>1, <3>2, <3>3, <3>4, <3>5 DEF Settled
  <2> QED
    BY <1>3, <2>1, <2>2 DEF Walked, Closed, Scan!PathsOf
<1> QED
  BY <1>5, <1>6, <1>7 DEF ScanInv

(* An entry that is passed over: it is gone, or is marked as hidden.       *)
LEMMA PassesOver ==
    ASSUME Scan!TreeIsSound, ScanInv, scan # None, NEW p \in scan.dirents, p \in Files,
           scan' \in Scan!Walks, scan'.queue = scan.queue, scan'.dirents = scan.dirents \ {p},
           scan'.chunk = scan.chunk, scan'.changes = scan.changes,
           scan'.truncated = scan.truncated, scan'.gone = scan.gone,
           \/ scan'.hidden = scan.hidden /\ tree[p] = None
           \/ scan'.hidden = scan.hidden \cup {p},
           UNCHANGED <<tree, index, stamped, view, closed, breaks>>
    PROVE  ScanInv'
<1>1. /\ scan \in Scan!Walks /\ Walked /\ Announced /\ ScanTypes
      /\ None \notin Scan!Walks /\ p \in Paths
  BY Constants DEF ScanInv, ScanTypes, Scan!Walks, Paths
<1>2. Seen' = Seen
  BY DEF Seen, Scan!PathsOf
<1>3. ASSUME NEW q \in Paths PROVE Parent[q] # p
  BY <1>3, Constants DEF Scan!TreeIsSound
<1>4. Closed(scan'.hidden)
  BY <1>1, <1>3 DEF Closed, Walked
<1>5. p \in scan'.gone \cup scan'.hidden
  BY <1>1 DEF Walked
<1>6. ASSUME NEW q \in Paths, Settled(q) PROVE Settled(q)'
  BY <1>2, <1>5, <1>6 DEF Settled
<1>7. Walked'
  BY <1>1, <1>4, <1>6 DEF Walked, Closed, Scan!PathsOf
<1>8. ScanTypes' /\ Announced'
  BY <1>1 DEF ScanTypes, Announced, Closed, Scan!PathsOf
<1> QED
  BY <1>7, <1>8 DEF ScanInv

LEMMA ScanTakes ==
    ASSUME Scan!TreeIsSound, ScanInv, Scan!TakeEntry PROVE ScanInv'
<1>1. /\ scan # None /\ UNCHANGED <<tree, view, closed, breaks>> /\ scan \in Scan!Walks
      /\ ScanTypes
  BY SMTT(40) DEF Scan!TakeEntry, Scan!Running, Scan!loop, ScanInv, ScanTypes
<1> DEFINE s(p) == [scan EXCEPT !.dirents = @ \ {p}]
           counted(p) == [s(p) EXCEPT !.count = @ + 1]
           into(p) == [counted(p) EXCEPT !.queue = Append(@, p)]
           last(p) == [counted(p) EXCEPT !.truncated = TRUE, !.queue = <<>>, !.dirents = {}]
           hides(p) == [s(p) EXCEPT !.hidden = @ \cup {p}]
<1>2. PICK p \in scan.dirents :
        \/ p \in Dirs /\ Scan!Emit(into(p), p)
        \/ /\ p \in Files /\ tree[p] # None
           /\ Scan!Emit(IF counted(p).count < ceiling THEN counted(p) ELSE last(p), p)
        \/ p \in Files /\ tree[p] = None /\ scan' = s(p) /\ UNCHANGED <<index, stamped>>
        \/ p \in Files /\ scan' = hides(p) /\ UNCHANGED <<index, stamped>>
  BY DEF Scan!TakeEntry
<1>3. scan.dirents \subseteq Paths /\ scan.queue \in Seq(Dirs \cup {Root}) /\ scan.count \in Nat
      /\ p \in Paths
  BY <1>1 DEF Scan!Walks, Paths
<1>4. /\ s(p) \in Scan!Walks /\ s(p).queue = scan.queue /\ s(p).dirents = scan.dirents \ {p}
      /\ s(p).chunk = scan.chunk /\ s(p).changes = scan.changes /\ s(p).count = scan.count
      /\ s(p).truncated = scan.truncated /\ s(p).gone = scan.gone /\ s(p).hidden = scan.hidden
  BY <1>1, <1>3 DEF Scan!Walks
<1> HIDE DEF s
<1>5. /\ counted(p) \in Scan!Walks /\ counted(p).queue = scan.queue
      /\ counted(p).dirents = scan.dirents \ {p}
      /\ counted(p).chunk = scan.chunk /\ counted(p).changes = scan.changes
      /\ counted(p).truncated = scan.truncated /\ counted(p).gone = scan.gone
      /\ counted(p).hidden = scan.hidden
  BY <1>3, <1>4 DEF Scan!Walks
<1> HIDE DEF counted
<1>6. CASE p \in Dirs /\ Scan!Emit(into(p), p)
  <2>1. /\ Append(scan.queue, p) \in Seq(Dirs \cup {Root})
        /\ Elements(Append(scan.queue, p)) = Elements(scan.queue) \cup {p}
    BY <1>3, <1>6, Queues
  <2>2. /\ into(p) \in Scan!Walks /\ into(p).queue = Append(scan.queue, p)
        /\ into(p).dirents = scan.dirents \ {p}
        /\ into(p).chunk = scan.chunk /\ into(p).changes = scan.changes
        /\ into(p).truncated = scan.truncated /\ into(p).gone = scan.gone
        /\ into(p).hidden = scan.hidden
    BY <1>5, <2>1 DEF Scan!Walks
  <2> HIDE DEF into
  <2> QED
    BY <1>1, <1>6, <2>1, <2>2, Takes
<1>7. CASE /\ p \in Files /\ tree[p] # None
           /\ Scan!Emit(IF counted(p).count < ceiling THEN counted(p) ELSE last(p), p)
  <2>1. /\ last(p) \in Scan!Walks /\ last(p).truncated
        /\ last(p).chunk = scan.chunk /\ last(p).changes = scan.changes
        /\ last(p).gone = scan.gone /\ last(p).hidden = scan.hidden
    <3>1. <<>> \in Seq(Dirs \cup {Root})
      OBVIOUS
    <3> QED
      BY <1>5, <3>1 DEF Scan!Walks
  <2> HIDE DEF last
  <2>2. CASE counted(p).count < ceiling
    <3>1. Scan!Emit(counted(p), p) /\ p \notin Dirs
      BY <1>7, <2>2 DEF Scan!TreeIsSound
    <3> QED
      BY <1>1, <1>5, <1>7, <3>1, Takes
  <2>3. CASE ~(counted(p).count < ceiling)
    <3>1. Scan!Emit(last(p), p)
      BY <1>7, <2>3
    <3> QED
      BY <1>1, <1>7, <2>1, <3>1, Takes
  <2> QED
    BY <2>2, <2>3
<1>8. CASE p \in Files /\ tree[p] = None /\ scan' = s(p) /\ UNCHANGED <<index, stamped>>
  BY <1>1, <1>4, <1>8, PassesOver
<1>9. CASE p \in Files /\ scan' = hides(p) /\ UNCHANGED <<index, stamped>>
  <2>1. /\ hides(p) \in Scan!Walks /\ hides(p).queue = scan.queue
        /\ hides(p).dirents = scan.dirents \ {p}
        /\ hides(p).chunk = scan.chunk /\ hides(p).changes = scan.changes
        /\ hides(p).truncated = scan.truncated /\ hides(p).gone = scan.gone
        /\ hides(p).hidden = scan.hidden \cup {p}
    BY <1>3, <1>4 DEF Scan!Walks, Paths
  <2> HIDE DEF hides
  <2> QED
    BY <1>1, <1>9, <2>1, PassesOver
<1> QED
  BY <1>2, <1>6, <1>7, <1>8, <1>9
(* When a walk is through, nothing is left to account for: of the paths    *)
(* that are not, one would be in a directory that is.                      *)
LEMMA AllSettled ==
    ASSUME Scan!TreeIsSound, ScanInv, scan # None, scan.dirents = {}, scan.queue = <<>>,
           ~scan.truncated, NEW p \in Paths
    PROVE  p \in Seen \cup scan.gone \cup scan.hidden
<1>1. Walked /\ \A q \in Paths : Settled(q)
  BY DEF ScanInv, Walked
<1>2. Elements(scan.queue) = {}
  BY Queues DEF ScanInv, ScanTypes, Scan!Walks, Elements
<1> DEFINE missing == {q \in Paths : q \notin Seen \cup scan.gone \cup scan.hidden}
<1>3. SUFFICES ASSUME missing # {} PROVE FALSE
  OBVIOUS
<1>4. PICK q \in missing : Parent[q] \notin missing
  <2>1. missing \in (SUBSET Paths) \ {{}}
    BY <1>3
  <2> HIDE DEF missing
  <2> QED
    BY <2>1 DEF Scan!TreeIsSound, Paths
<1>5. Parent[q] \in Dirs \ Seen
  BY <1>1, <1>2, <1>4 DEF Settled
<1>6. Parent[q] \in scan.gone \cup scan.hidden
  BY <1>4, <1>5, Constants
<1> QED
  BY <1>1, <1>4, <1>6 DEF Walked, Closed

LEMMA ScanCompletes ==
    ASSUME Scan!TreeIsSound, ScanInv, Scan!Complete PROVE ScanInv' /\ Scan!RemovalsAreReal
<1> DEFINE noted == Scan!Observed(index, scan.chunk)
           changed == Scan!Changed(index, scan.chunk)
           gathered == scan.changes \cup changed
           reaped == Scan!Reaped(scan, stamped')
<1>1. /\ scan # None /\ scan.dirents = {} /\ scan.queue = <<>> /\ scan' = None
      /\ stamped' = stamped \cup Scan!PathsOf(scan.chunk)
      /\ index' = [p \in Paths |-> IF p \in reaped THEN None ELSE noted[p]]
      /\ view' = [p \in Paths |-> IF p \in reaped THEN None
                                 ELSE IF p \in Scan!PathsOf(gathered) THEN noted[p] ELSE view[p]]
      /\ closed' = (closed \/ (stopping /\ scan.by = "tick"))
      /\ UNCHANGED <<tree, breaks>>
  BY DEF Scan!Complete, Scan!Running, Scan!Rescheduled, Paths
<1>2. /\ scan \in Scan!Walks /\ Walked /\ Announced /\ ScanTypes
      /\ None \notin Scan!Walks /\ None \notin Known
  BY <1>1, Constants DEF ScanInv, ScanTypes
<1>3. /\ index \in [Paths -> Known \cup {None}] /\ view \in [Paths -> Known \cup {None}]
      /\ stamped \subseteq {p \in Paths : index[p] # None}
      /\ Scan!PathsOf(scan.changes) \subseteq {p \in Paths : index[p] # None}
      /\ scan.chunk \in SUBSET Scan!Entries
  BY <1>2 DEF ScanTypes, Walked, Scan!Walks
<1>4. /\ noted \in [Paths -> Known \cup {None}]
      /\ Scan!PathsOf(scan.chunk) \subseteq Paths
      /\ Scan!PathsOf(changed) \subseteq Scan!PathsOf(scan.chunk)
      /\ \A p \in Paths :
           /\ p \in Scan!PathsOf(scan.chunk) => noted[p] # None
           /\ index[p] # None => noted[p] # None
           /\ noted[p] # index[p] => p \in Scan!PathsOf(changed)
  BY <1>2, <1>3, Observes
<1>5. Scan!PathsOf(gathered) = Scan!PathsOf(scan.changes) \cup Scan!PathsOf(changed)
  BY DEF Scan!PathsOf
<1>6. reaped = IF scan.truncated THEN {}
               ELSE {p \in Paths : index[p] # None} \ stamped'
  BY DEF Scan!Reaped, Paths
<1>7. Seen = stamped'
  BY <1>1 DEF Seen
<1> HIDE DEF noted, changed, gathered, reaped
<1>8. ScanTypes'
  BY <1>1, <1>2, <1>3, <1>4, <1>6 DEF ScanTypes, Closed
<1>9. Announced'
  <2>1. SUFFICES ASSUME breaks = 0, ~closed, NEW p \in Paths PROVE view'[p] = index'[p]
    BY <1>1 DEF Announced
  <2>2. view[p] = index[p] \/ p \in Scan!PathsOf(scan.changes)
    BY <1>2, <2>1 DEF Announced
  <2> QED
    BY <1>1, <1>4, <1>5, <2>2
<1>10. ASSUME NEW p \in Scan!Paths, view[p] # None, view'[p] = None
       PROVE  p \in scan.gone \cup scan.hidden
  <2>1. p \in Paths
    BY DEF Paths
  <2>2. CASE p \in reaped
    BY <1>1, <1>6, <1>7, <2>1, <2>2, AllSettled
  <2>3. CASE p \notin reaped /\ p \in Scan!PathsOf(gathered)
    BY <1>1, <1>3, <1>4, <1>5, <1>10, <2>1, <2>3
  <2>4. CASE p \notin reaped /\ p \notin Scan!PathsOf(gathered)
    BY <1>1, <1>10, <2>1, <2>4
  <2> QED
    BY <2>2, <2>3, <2>4
<1>11. Scan!RemovalsAreReal
  BY <1>10 DEF Scan!RemovalsAreReal
<1> QED
  BY <1>1, <1>8, <1>9, <1>11 DEF ScanInv

(* A walk begins.                                                          *)
LEMMA ScanBegins ==
    ASSUME Scan!TreeIsSound, ScanInv, scan = None, NEW by \in {"tick", "owner"}, Scan!Begin(by),
           UNCHANGED <<tree, index, view, closed, breaks>>
    PROVE  ScanInv'
<1>1. /\ scan' = [by |-> by, queue |-> <<Root>>, dirents |-> {}, count |-> 0, chunk |-> {},
                  changes |-> {}, truncated |-> FALSE,
                  gone |-> {p \in Paths : tree[p] = None}, hidden |-> {}]
      /\ stamped' = {}
  BY DEF Scan!Begin, Scan!FirstStep, Paths
<1>2. /\ <<Root>> \in Seq(Dirs \cup {Root}) /\ Elements(<<Root>>) = {Root}
      /\ {p \in Paths : tree[p] = None} \subseteq Scan!Paths
  BY DEF Elements, Paths
<1>3. /\ scan' \in Scan!Walks /\ scan'.queue = <<Root>> /\ scan'.chunk = {} /\ scan'.changes = {}
      /\ scan'.gone = {p \in Paths : tree[p] = None} /\ scan'.hidden = {}
  BY <1>1, <1>2 DEF Scan!Walks
<1>4. Seen' = {} /\ Scan!PathsOf(scan'.changes) = {}
  BY <1>1, <1>3 DEF Seen, Scan!PathsOf
<1>5. ASSUME NEW p \in Paths PROVE Settled(p)'
  BY <1>2, <1>3, <1>4, Constants DEF Settled
<1>6. Walked'
  BY <1>3, <1>4, <1>5 DEF Walked, ScanInv, ScanTypes, Closed, Scan!PathsOf
<1>7. ScanTypes' /\ Announced'
  BY <1>1, <1>3 DEF ScanInv, ScanTypes, Announced, Closed
<1> QED
  BY <1>6, <1>7 DEF ScanInv

LEMMA ScanTouched ==
    ASSUME Scan!TreeIsSound, ScanInv, Scan!Touch PROVE ScanInv'
<1>1. /\ scan' = IF scan # None
                 THEN [scan EXCEPT !.gone = @ \cup {p \in Paths : tree'[p] = None}] ELSE scan
      /\ UNCHANGED <<index, stamped, view, closed, breaks>>
  BY DEF Scan!Touch, Scan!Running, Scan!loop, Paths
<1>2. PICK p \in Paths, look \in Looks \cup {None, "dir"} :
        /\ look \in Scan!LooksOf(p) \cup {None} /\ look # tree[p]
        /\ look # None /\ Parent[p] # Root => tree[Parent[p]] # None
        /\ tree' = [q \in Paths |-> IF q = p THEN look
                                   ELSE IF look = None /\ q \in Scan!Beneath(p) THEN None
                                   ELSE tree[q]]
  BY DEF Scan!Touch, Paths
<1>3. ScanTypes /\ tree \in [Paths -> Known \cup {None}]
  BY DEF ScanInv, ScanTypes
<1>4. tree' \in [Paths -> Known \cup {None}]
  BY <1>2, <1>3 DEF Known
<1>5. ASSUME NEW q \in Paths, Parent[q] \in Paths, tree'[Parent[q]] = None
      PROVE  tree'[q] = None
  <2>1. Closed({r \in Paths : tree[r] = None}) /\ Closed(Scan!Beneath(p))
        /\ q \in Scan!Inside(Parent[q]) /\ Scan!Inside(p) \subseteq Scan!Beneath(p)
    BY <1>3, Below DEF ScanTypes, Scan!Inside, Paths
  <2>2. CASE look = None
    <3>1. CASE tree[Parent[q]] = None
      BY <1>2, <1>5, <2>1, <2>2, <3>1 DEF Closed
    <3>2. CASE Parent[q] = p
      BY <1>2, <1>5, <2>1, <2>2, <3>2
    <3>3. CASE Parent[q] \in Scan!Beneath(p)
      BY <1>2, <1>5, <2>1, <2>2, <3>3 DEF Closed
    <3> QED
      BY <1>2, <1>5, <3>1, <3>2, <3>3
  <2>3. CASE look # None
    <3>1. tree[Parent[q]] = None /\ Parent[q] # p
      BY <1>2, <1>5, <2>3
    <3>2. q # p
      BY <1>2, <1>5, <2>3, <3>1, Constants
    <3> QED
      BY <1>2, <1>5, <2>1, <2>3, <3>1, <3>2 DEF Closed
  <2> QED
    BY <2>2, <2>3
<1> DEFINE empty == {r \in Paths : tree'[r] = None}
<1>6. Closed(empty)
  BY <1>5 DEF Closed
<1>7. ScanTypes' /\ Announced'
  <2>1. scan # None => /\ scan' \in Scan!Walks /\ scan' # None /\ scan'.changes = scan.changes
    BY <1>1, <1>3, Constants DEF ScanTypes, Scan!Walks, Paths
  <2>2. ScanTypes'
    BY <1>1, <1>3, <1>4, <1>6, <2>1 DEF ScanTypes, Closed
  <2>3. Announced'
    BY <1>1, <2>1 DEF ScanInv, Announced, Scan!PathsOf
  <2> QED
    BY <2>2, <2>3
<1>8. ASSUME scan # None PROVE Walked'
  <2>1. /\ scan \in Scan!Walks /\ Walked
    BY <1>8 DEF ScanInv, ScanTypes
  <2>2. /\ scan'.gone = scan.gone \cup empty /\ scan'.hidden = scan.hidden
        /\ scan'.dirents = scan.dirents /\ scan'.queue = scan.queue
        /\ scan'.chunk = scan.chunk /\ scan'.changes = scan.changes
        /\ scan'.truncated = scan.truncated
    BY <1>1, <1>8, <2>1 DEF Scan!Walks
  <2>3. Closed(scan'.gone) /\ Closed(scan'.hidden)
    BY <1>6, <2>1, <2>2 DEF Closed, Walked
  <2>4. Seen' = Seen
    BY <1>1, <2>2 DEF Seen, Scan!PathsOf
  <2>5. \A q \in Paths : Settled(q) => Settled(q)'
    BY <2>2, <2>4 DEF Settled
  <2> QED
    BY <1>1, <2>1, <2>2, <2>3, <2>5 DEF Walked, Closed, Scan!PathsOf
<1>9. scan' # None => scan # None
  BY <1>1
<1> QED
  BY <1>7, <1>8, <1>9 DEF ScanInv

LEMMA ScanNext ==
    ASSUME Scan!TreeIsSound, ScanInv, [Scan!Next]_(Scan!scannerVars)
    PROVE  ScanInv' /\ (view' # view => Scan!RemovalsAreReal)
<1>1. ASSUME UNCHANGED <<tree, index, stamped, scan, view, closed, breaks>> PROVE ScanInv'
  BY <1>1 DEF ScanInv, ScanTypes, Announced, Walked, Settled, Seen, Closed, Scan!PathsOf
<1>2. ASSUME UNCHANGED <<tree, index, stamped, scan, view, breaks>>, closed => closed'
      PROVE  ScanInv'
  BY <1>2, SMTT(40) DEF ScanInv, ScanTypes, Announced, Walked, Settled, Seen, Closed, Scan!PathsOf
<1>3. CASE Scan!ReadDirectory \/ Scan!TakeEntry \/ Scan!Touch
  BY <1>3, ScanReads, ScanTakes, ScanTouched DEF Scan!ReadDirectory, Scan!TakeEntry, Scan!Touch
<1>4. CASE Scan!Complete
  BY <1>4, ScanCompletes
<1>5. CASE Scan!Break
  <2>1. /\ scan' = None /\ UNCHANGED <<tree, index, stamped, view>>
        /\ closed => closed' /\ breaks' = breaks
        /\ ~closed => breaks' = breaks + 1
    BY <1>5 DEF Scan!Break, Scan!Rescheduled
  <2> QED
    BY <2>1 DEF ScanInv, ScanTypes, Announced, Closed
<1>6. CASE Scan!Tick
  <2>1. CASE stopped \/ scan # None
    BY <1>1, <1>6, <2>1 DEF Scan!Tick, Scan!Running
  <2>2. CASE ~stopped /\ scan = None
    <3>1. Scan!Begin("tick") /\ UNCHANGED <<tree, index, view, closed, breaks>>
      BY <1>6, <2>2 DEF Scan!Tick, Scan!Running
    <3> QED
      BY <2>2, <3>1, ScanBegins
  <2> QED
    BY <1>6, <2>1, <2>2 DEF Scan!Tick
<1>7. CASE Scan!ScanOnce
  BY <1>7, ScanBegins DEF Scan!ScanOnce, Scan!Running
<1>8. CASE Scan!Start
  BY <1>1, <1>8 DEF Scan!Start
<1>9. CASE Scan!Stop
  BY <1>2, <1>9 DEF Scan!Stop
<1>10. CASE UNCHANGED Scan!scannerVars
  BY <1>1, <1>10 DEF Scan!scannerVars
<1> QED
  BY <1>3, <1>4, <1>5, <1>6, <1>7, <1>8, <1>9, <1>10 DEF Scan!Next, Scan!Walk

(* Between two walks a listener knows what the index holds, as long as no  *)
(* walk has broken, whatever the office does meanwhile and whether chunks  *)
(* are full or not.                                                        *)
THEOREM ListenersAgree ==
    ASSUME Scan!TreeIsSound PROVE Scan!Spec => []Scan!ListenersKnowTheIndex
<1>1. ScanInv => Scan!ListenersKnowTheIndex
  <2>1. SUFFICES ASSUME ScanInv, scan = None, breaks = 0, ~closed PROVE view = index
    BY DEF Scan!ListenersKnowTheIndex, Scan!Running
  <2>2. \A p \in Paths : view[p] = index[p]
    BY <2>1 DEF ScanInv, Announced
  <2> QED
    BY <2>1, <2>2 DEF ScanInv, ScanTypes
<1> QED
  BY <1>1, ScanInit, ScanNext, PTL DEF Scan!Spec

(* What a listener is told is gone was gone at some time of that walk, or  *)
(* it or a directory above it could not be read: a walk that fails, or     *)
(* stops at its ceiling, removes nothing.                                  *)
THEOREM RemovalsHold ==
    ASSUME Scan!TreeIsSound PROVE Scan!Spec => [][Scan!RemovalsAreReal]_view
<1>1. ScanInv /\ [Scan!Next]_(Scan!scannerVars) => [Scan!RemovalsAreReal]_view
  BY ScanNext
<1> QED
  BY <1>1, ScanInit, ScanNext, PTL DEF Scan!Spec

(* The types of the scanner: a directory is never seen as a file, a chunk  *)
(* that waits is not full, and no timer is set but by a start, the tick of *)
(* a scan that is over, or the tick that could not scan.                   *)
Fits(p, look) == look \in Scan!LooksOf(p) \cup {None}
Kept(chunk) ==
    /\ IsFiniteSet(chunk) /\ (chunk # {} => Cardinality(chunk) < ChunkSize)
    /\ \A e \in chunk : Fits(e.path, e.look)
ScanFits ==
    /\ \A p \in Paths : Fits(p, tree[p]) /\ Fits(p, index[p]) /\ Fits(p, view[p])
    /\ scan # None => Kept(scan.chunk)
TimersFit ==
    /\ timers \in Nat /\ loops \in Nat
    /\ timers + (IF scan # None /\ scan.by = "tick" THEN 1 ELSE 0) <= loops
SwitchesFit == stopped \in BOOLEAN /\ closed \in BOOLEAN /\ stopping \in BOOLEAN

LEMMA ScanCounts ==
    /\ \A S : Scan!Cardinality(S) = Cardinality(S)
    /\ \A S : Scan!IsFiniteSet(S) <=> IsFiniteSet(S)
<1>1. \A S : Scan!Cardinality(S) = Cardinality(S)
  BY DEF Scan!Cardinality, Cardinality
<1>2. \A S : Scan!IsFiniteSet(S) <=> IsFiniteSet(S)
  BY DEF Scan!IsFiniteSet, IsFiniteSet
<1> QED
  BY <1>1, <1>2

LEMMA Fitted ==
    ASSUME NEW i, NEW chunk, \A e \in chunk : Fits(e.path, e.look), NEW p \in Paths, Fits(p, i[p])
    PROVE  Fits(p, Scan!Observed(i, chunk)[p])
<1>1. CASE \E e \in chunk : e.path = p
  <2> DEFINE f == CHOOSE e \in chunk : e.path = p
  <2>1. f \in chunk /\ f.path = p
    BY <1>1
  <2>2. Scan!Observed(i, chunk)[p] = f.look
    BY <1>1 DEF Scan!Observed, Paths
  <2> QED
    BY <2>1, <2>2
<1>2. CASE ~ \E e \in chunk : e.path = p
  BY <1>2 DEF Scan!Observed, Paths
<1> QED
  BY <1>1, <1>2

LEMMA FitsInit == ASSUME Scan!TreeIsSound PROVE Scan!Init => ScanFits /\ TimersFit /\ SwitchesFit
<1> SUFFICES ASSUME Scan!Init PROVE ScanFits /\ TimersFit /\ SwitchesFit
  OBVIOUS
<1>1. /\ \A p \in Paths : tree[p] \in Scan!LooksOf(p) \cup {None}
      /\ index = [p \in Paths |-> None] /\ view = [p \in Paths |-> None]
      /\ scan = None /\ timers = 0 /\ loops = 0
      /\ stopped = TRUE /\ closed = FALSE /\ stopping = FALSE
  BY DEF Scan!Init, Paths
<1>2. ScanFits
  BY <1>1 DEF ScanFits, Fits
<1>3. TimersFit
  BY <1>1 DEF TimersFit
<1>4. SwitchesFit
  BY <1>1 DEF SwitchesFit
<1> QED
  BY <1>2, <1>3, <1>4

(* What is emitted fits, and a chunk that it fills is handed over.         *)
LEMMA FittingEmits ==
    ASSUME Scan!TreeIsSound, ScanFits, NEW s, s \in Scan!Walks, NEW p \in Paths,
           p \in Dirs \/ tree[p] # None, Kept(s.chunk), Scan!Emit(s, p),
           UNCHANGED <<tree, view>>
    PROVE  ScanFits' /\ scan'.by = s.by
<1> DEFINE entry == [path |-> p, look |-> IF p \in Dirs THEN "dir" ELSE tree[p]]
           chunk == s.chunk \cup {entry}
<1>1. Fits(entry.path, entry.look)
  <2>1. entry.path = p /\ entry.look = IF p \in Dirs THEN "dir" ELSE tree[p]
    OBVIOUS
  <2>2. p \in Dirs => Scan!LooksOf(p) = {"dir"}
    BY Constants
  <2> QED
    BY <2>1, <2>2 DEF ScanFits, Fits
<1>2. IsFiniteSet(chunk) /\ Cardinality(chunk) \in Nat /\ \A e \in chunk : Fits(e.path, e.look)
  BY <1>1, FS_AddElement, FS_CardinalityType DEF Kept
<1>3. \/ /\ index' = Scan!Observed(index, chunk)
         /\ scan' = [s EXCEPT !.chunk = {}, !.changes = @ \cup Scan!Changed(index, chunk)]
      \/ /\ ~(Cardinality(chunk) >= ChunkSize)
         /\ scan' = [s EXCEPT !.chunk = chunk] /\ UNCHANGED index
  BY ScanCounts DEF Scan!Emit
<1> HIDE DEF entry, chunk
<1>4. CASE /\ index' = Scan!Observed(index, chunk)
           /\ scan' = [s EXCEPT !.chunk = {}, !.changes = @ \cup Scan!Changed(index, chunk)]
  <2>1. scan'.chunk = {} /\ scan'.by = s.by
    BY <1>4 DEF Scan!Walks
  <2>2. Kept({})
    BY FS_EmptySet DEF Kept
  <2>3. \A q \in Paths : Fits(q, index'[q])
    BY <1>2, <1>4, Fitted DEF ScanFits
  <2>4. \A q \in Paths : Fits(q, tree'[q]) /\ Fits(q, view'[q])
    BY DEF ScanFits
  <2>5. \A q \in Paths : Fits(q, tree[q])' /\ Fits(q, index[q])' /\ Fits(q, view[q])'
    BY <2>3, <2>4 DEF Fits, Scan!LooksOf
  <2>6. Kept(scan.chunk)'
    BY <2>1, <2>2 DEF Kept, Fits, Scan!LooksOf
  <2> QED
    BY <2>1, <2>5, <2>6 DEF ScanFits
<1>5. CASE /\ ~(Cardinality(chunk) >= ChunkSize)
           /\ scan' = [s EXCEPT !.chunk = chunk] /\ UNCHANGED index
  <2>1. scan'.chunk = chunk /\ scan'.by = s.by
    BY <1>5 DEF Scan!Walks
  <2>2. Kept(chunk)
    <3>1. Cardinality(chunk) < ChunkSize
      BY <1>2, <1>5 DEF Scan!TreeIsSound
    <3> QED
      BY <1>2, <3>1 DEF Kept
  <2>3. \A q \in Paths : Fits(q, tree[q])' /\ Fits(q, index[q])' /\ Fits(q, view[q])'
    BY <1>5 DEF ScanFits, Fits, Scan!LooksOf
  <2>4. Kept(scan.chunk)'
    BY <2>1, <2>2 DEF Kept, Fits, Scan!LooksOf
  <2> QED
    BY <2>3, <2>4, <2>1 DEF ScanFits
<1> QED
  BY <1>3, <1>4, <1>5

LEMMA FitsRests ==
    ASSUME ScanFits, UNCHANGED <<tree, index, view>>,
           scan' # None => scan # None /\ scan'.chunk = scan.chunk
    PROVE  ScanFits'
<1>1. \A p \in Paths : Fits(p, tree[p])' /\ Fits(p, index[p])' /\ Fits(p, view[p])'
  BY DEF ScanFits, Fits, Scan!LooksOf
<1>2. scan' # None => Kept(scan.chunk)'
  BY DEF ScanFits, Kept, Fits, Scan!LooksOf
<1> QED
  BY <1>1, <1>2 DEF ScanFits

LEMMA FittingTakes ==
    ASSUME Scan!TreeIsSound, ScanTypes, ScanFits, Scan!TakeEntry PROVE ScanFits' /\ scan'.by = scan.by
<1>1. scan # None /\ UNCHANGED <<tree, view>> /\ scan \in Scan!Walks
  BY SMTT(40) DEF Scan!TakeEntry, Scan!Running, ScanTypes
<1> DEFINE s(p) == [scan EXCEPT !.dirents = @ \ {p}]
           counted(p) == [s(p) EXCEPT !.count = @ + 1]
           into(p) == [counted(p) EXCEPT !.queue = Append(@, p)]
           last(p) == [counted(p) EXCEPT !.truncated = TRUE, !.queue = <<>>, !.dirents = {}]
           hides(p) == [s(p) EXCEPT !.hidden = @ \cup {p}]
<1>2. PICK p \in scan.dirents :
        \/ p \in Dirs /\ Scan!Emit(into(p), p)
        \/ /\ p \in Files /\ tree[p] # None
           /\ Scan!Emit(IF counted(p).count < ceiling THEN counted(p) ELSE last(p), p)
        \/ scan' = s(p) /\ UNCHANGED <<index, stamped>>
        \/ scan' = hides(p) /\ UNCHANGED <<index, stamped>>
  BY DEF Scan!TakeEntry
<1>3. scan.dirents \subseteq Paths /\ scan.queue \in Seq(Dirs \cup {Root}) /\ scan.count \in Nat
      /\ p \in Paths /\ Kept(scan.chunk)
  BY <1>1 DEF Scan!Walks, Paths, ScanFits
<1>4. s(p) \in Scan!Walks /\ s(p).by = scan.by /\ s(p).chunk = scan.chunk
      /\ s(p).queue = scan.queue /\ s(p).count = scan.count /\ s(p).hidden = scan.hidden
  BY <1>1, <1>3 DEF Scan!Walks
<1> HIDE DEF s
<1>5. counted(p) \in Scan!Walks /\ counted(p).by = scan.by /\ counted(p).chunk = scan.chunk
      /\ counted(p).queue = scan.queue
  BY <1>3, <1>4 DEF Scan!Walks
<1> HIDE DEF counted
<1>6. ASSUME p \in Dirs
      PROVE  into(p) \in Scan!Walks /\ into(p).by = scan.by /\ into(p).chunk = scan.chunk
  <2>1. Append(scan.queue, p) \in Seq(Dirs \cup {Root})
    BY <1>3, <1>6, Queues
  <2> QED
    BY <1>5, <2>1 DEF Scan!Walks
<1>7. last(p) \in Scan!Walks /\ last(p).by = scan.by /\ last(p).chunk = scan.chunk
  <2>1. <<>> \in Seq(Dirs \cup {Root})
    OBVIOUS
  <2> QED
    BY <1>5, <2>1 DEF Scan!Walks
<1>8. hides(p) \in Scan!Walks /\ hides(p).by = scan.by /\ hides(p).chunk = scan.chunk
  BY <1>3, <1>4 DEF Scan!Walks, Paths
<1> HIDE DEF into, last, hides
<1>9. CASE p \in Dirs /\ Scan!Emit(into(p), p)
  BY <1>1, <1>3, <1>6, <1>9, FittingEmits
<1>10. CASE /\ p \in Files /\ tree[p] # None
            /\ Scan!Emit(IF counted(p).count < ceiling THEN counted(p) ELSE last(p), p)
  <2>1. PICK w : w \in {counted(p), last(p)} /\ Scan!Emit(w, p)
    BY <1>10
  <2>2. w \in Scan!Walks /\ w.by = scan.by /\ w.chunk = scan.chunk
    BY <1>5, <1>7, <2>1
  <2> QED
    BY <1>1, <1>3, <1>10, <2>1, <2>2, FittingEmits
<1>11. CASE (scan' = s(p) \/ scan' = hides(p)) /\ UNCHANGED <<index, stamped>>
  <2>1. scan'.chunk = scan.chunk /\ scan'.by = scan.by
    BY <1>4, <1>8, <1>11
  <2> QED
    BY <1>1, <1>11, <2>1, FitsRests
<1> QED
  BY <1>2, <1>9, <1>10, <1>11

LEMMA FittingCompletes ==
    ASSUME Scan!TreeIsSound, ScanFits, Scan!Complete PROVE ScanFits'
<1> DEFINE noted == Scan!Observed(index, scan.chunk)
           announced == Scan!PathsOf(scan.changes \cup Scan!Changed(index, scan.chunk))
           reaped == Scan!Reaped(scan, stamped')
<1>1. /\ scan # None /\ scan' = None /\ tree' = tree
      /\ index' = [p \in Paths |-> IF p \in reaped THEN None ELSE noted[p]]
      /\ view' = [p \in Paths |-> IF p \in reaped THEN None
                                 ELSE IF p \in announced THEN noted[p] ELSE view[p]]
  BY DEF Scan!Complete, Scan!Running, Paths
<1>2. \A p \in Paths : Fits(p, noted[p])
  BY <1>1, Fitted DEF ScanFits, Kept
<1> HIDE DEF noted, announced, reaped
<1>3. ASSUME NEW p \in Paths PROVE Fits(p, tree'[p]) /\ Fits(p, index'[p]) /\ Fits(p, view'[p])
  BY <1>1, <1>2 DEF ScanFits, Fits
<1>4. \A p \in Paths : Fits(p, tree[p])' /\ Fits(p, index[p])' /\ Fits(p, view[p])'
  BY <1>3 DEF Fits, Scan!LooksOf
<1> QED
  BY <1>1, <1>4 DEF ScanFits

LEMMA FittingBegins ==
    ASSUME ScanFits, NEW by, Scan!Begin(by), UNCHANGED <<tree, index, view>>
    PROVE  ScanFits' /\ scan'.by = by
<1>1. scan'.chunk = {} /\ scan'.by = by
  BY DEF Scan!Begin, Scan!FirstStep
<1>2. Kept({})
  BY FS_EmptySet DEF Kept
<1>3. Kept(scan.chunk)'
  BY <1>1, <1>2 DEF Kept, Fits, Scan!LooksOf
<1>4. \A p \in Paths : Fits(p, tree[p])' /\ Fits(p, index[p])' /\ Fits(p, view[p])'
  BY DEF ScanFits, Fits, Scan!LooksOf
<1> QED
  BY <1>1, <1>3, <1>4 DEF ScanFits

LEMMA FittingTouched ==
    ASSUME ScanTypes, Scan!TreeIsSound, ScanFits, Scan!Touch PROVE ScanFits' /\ (scan # None => scan'.by = scan.by)
                     /\ (scan = None <=> scan' = None)
<1>1. /\ scan' = IF scan # None
                 THEN [scan EXCEPT !.gone = @ \cup {p \in Paths : tree'[p] = None}] ELSE scan
      /\ UNCHANGED <<index, view>>
  BY DEF Scan!Touch, Scan!Running, Paths
<1>2. PICK p \in Paths, look \in Looks \cup {None, "dir"} :
        /\ look \in Scan!LooksOf(p) \cup {None}
        /\ tree' = [q \in Paths |-> IF q = p THEN look
                                ELSE IF look = None /\ q \in Scan!Beneath(p) THEN None
                                ELSE tree[q]]
  BY DEF Scan!Touch, Paths
<1>3. scan # None => scan' # None /\ scan'.chunk = scan.chunk /\ scan'.by = scan.by
  BY <1>1, Constants DEF ScanTypes, Scan!Walks, Paths
<1>4. \A q \in Paths : Fits(q, tree'[q]) /\ Fits(q, index'[q]) /\ Fits(q, view'[q])
  BY <1>1, <1>2 DEF ScanFits, Fits
<1>5. \A q \in Paths : Fits(q, tree[q])' /\ Fits(q, index[q])' /\ Fits(q, view[q])'
  BY <1>4 DEF Fits, Scan!LooksOf
<1>6. scan' # None => Kept(scan.chunk)'
  BY <1>1, <1>3 DEF ScanFits, Kept, Fits, Scan!LooksOf
<1> QED
  BY <1>1, <1>3, <1>5, <1>6 DEF ScanFits

LEMMA FitsNext ==
    ASSUME Scan!TreeIsSound, ScanTypes, ScanFits, [Scan!Next]_(Scan!scannerVars) PROVE ScanFits'
<1>1. CASE Scan!ReadDirectory
  <2>1. scan # None /\ UNCHANGED <<tree, index, view>> /\ scan \in Scan!Walks
    BY <1>1, SMTT(40) DEF Scan!ReadDirectory, Scan!Running, ScanTypes
  <2>2. scan'.chunk = scan.chunk
    BY <1>1, <2>1 DEF Scan!ReadDirectory, Scan!Walks
  <2> QED
    BY <2>1, <2>2, FitsRests
<1>2. CASE Scan!TakeEntry
  BY <1>2, FittingTakes
<1>3. CASE Scan!Complete
  BY <1>3, FittingCompletes
<1>4. CASE Scan!Break
  BY <1>4, FitsRests DEF Scan!Break
<1>5. CASE Scan!Tick
  BY <1>5, FittingBegins, FitsRests DEF Scan!Tick
<1>6. CASE Scan!ScanOnce
  BY <1>6, FittingBegins DEF Scan!ScanOnce
<1>7. CASE Scan!Touch
  BY <1>7, FittingTouched
<1>8. CASE Scan!Start \/ Scan!Stop \/ UNCHANGED Scan!scannerVars
  BY <1>8, FitsRests DEF Scan!Start, Scan!Stop, Scan!scannerVars
<1> QED
  BY <1>1, <1>2, <1>3, <1>4, <1>5, <1>6, <1>7, <1>8 DEF Scan!Next, Scan!Walk

LEMMA SwitchesNext == SwitchesFit /\ [Scan!Next]_(Scan!scannerVars) => SwitchesFit'
<1> SUFFICES ASSUME SwitchesFit, [Scan!Next]_(Scan!scannerVars) PROVE SwitchesFit'
  OBVIOUS
<1>1. ASSUME NEW by, Scan!Rescheduled(by), stopped' = stopped PROVE SwitchesFit'
  <2>1. closed' \in BOOLEAN
    BY <1>1 DEF Scan!Rescheduled
  <2>2. stopping' \in BOOLEAN
    BY <1>1 DEF Scan!Rescheduled
  <2> QED
    BY <1>1, <2>1, <2>2 DEF SwitchesFit
<1>2. CASE Scan!Complete \/ Scan!Break
  BY <1>1, <1>2 DEF Scan!Complete, Scan!Break
<1>3. ASSUME UNCHANGED <<stopped, closed, stopping>> PROVE SwitchesFit'
  BY <1>3 DEF SwitchesFit
<1>4. CASE Scan!ReadDirectory \/ Scan!TakeEntry \/ Scan!Touch
  <2>1. UNCHANGED Scan!loop
    BY <1>4 DEF Scan!ReadDirectory, Scan!TakeEntry, Scan!Touch
  <2> QED
    BY <1>3, <2>1 DEF Scan!loop
<1>5. CASE Scan!Tick \/ Scan!ScanOnce \/ UNCHANGED Scan!scannerVars
  BY <1>3, <1>5 DEF Scan!Tick, Scan!ScanOnce, Scan!scannerVars
<1>6. CASE Scan!Start
  BY <1>6 DEF Scan!Start, SwitchesFit
<1>7. CASE Scan!Stop
  <2>1. stopping' \in BOOLEAN
    BY <1>7 DEF Scan!Stop
  <2>2. closed' \in BOOLEAN
    BY <1>7 DEF Scan!Stop
  <2>3. stopped' = TRUE
    BY <1>7 DEF Scan!Stop
  <2> QED
    BY <2>1, <2>2, <2>3 DEF SwitchesFit
<1> QED
  BY <1>2, <1>4, <1>5, <1>6, <1>7 DEF Scan!Next, Scan!Walk

LEMMA TimersNext ==
    ASSUME Scan!TreeIsSound, ScanTypes, ScanFits, TimersFit, [Scan!Next]_(Scan!scannerVars)
    PROVE  TimersFit'
<1> DEFINE owes == IF scan # None /\ scan.by = "tick" THEN 1 ELSE 0
<1>1. timers \in Nat /\ loops \in Nat /\ owes \in 0..1 /\ timers + owes <= loops
  BY DEF TimersFit
<1>2. ASSUME UNCHANGED <<timers, loops>>, scan' # None => scan # None /\ scan'.by = scan.by
      PROVE  TimersFit'
  <2>1. owes' <= owes
    BY <1>2
  <2> QED
    BY <1>1, <1>2, <2>1 DEF TimersFit
<1>3. CASE Scan!ReadDirectory
  <2>1. scan # None /\ UNCHANGED Scan!loop /\ scan \in Scan!Walks
    BY <1>3, SMTT(40) DEF Scan!ReadDirectory, Scan!Running, ScanTypes
  <2>2. scan'.by = scan.by
    BY <1>3, <2>1 DEF Scan!ReadDirectory, Scan!Walks
  <2> QED
    BY <1>2, <2>1, <2>2 DEF Scan!loop
<1>4. CASE Scan!TakeEntry
  <2>1. scan # None /\ UNCHANGED Scan!loop
    BY <1>4, SMTT(40) DEF Scan!TakeEntry, Scan!Running
  <2>2. scan'.by = scan.by
    BY <1>4, FittingTakes
  <2> QED
    BY <1>2, <2>1, <2>2 DEF Scan!loop
<1>5. CASE Scan!Complete \/ Scan!Break
  <2>1. /\ scan # None /\ scan' = None /\ loops' = loops
        /\ timers' = IF scan.by = "tick" /\ ~stopped THEN timers + 1 ELSE timers
    BY <1>5 DEF Scan!Complete, Scan!Break, Scan!Running, Scan!Rescheduled
  <2> QED
    BY <2>1 DEF TimersFit
<1>6. CASE Scan!Tick
  <2>1. CASE ~stopped /\ scan # None
    BY <1>2, <1>6, <2>1 DEF Scan!Tick, Scan!Running
  <2>2. CASE stopped
    BY <1>6, <2>2 DEF Scan!Tick, TimersFit
  <2>3. CASE ~stopped /\ scan = None
    <3>1. timers > 0 /\ timers' = timers - 1 /\ loops' = loops
      BY <1>6, <2>3 DEF Scan!Tick, Scan!Running
    <3> QED
      BY <2>3, <3>1 DEF TimersFit
  <2> QED
    BY <2>1, <2>2, <2>3
<1>7. CASE Scan!ScanOnce
  <2>1. scan = None /\ Scan!Begin("owner") /\ loops' = loops + 1 /\ timers' = timers
    BY <1>7 DEF Scan!ScanOnce, Scan!Running
  <2>2. scan'.by = "owner"
    BY <2>1, FittingBegins, <1>7 DEF Scan!ScanOnce
  <2> QED
    BY <2>1, <2>2 DEF TimersFit
<1>8. CASE Scan!Start
  BY <1>8 DEF Scan!Start, TimersFit
<1>9. CASE Scan!Stop
  BY <1>9 DEF Scan!Stop, TimersFit
<1>10. CASE Scan!Touch
  <2>1. UNCHANGED Scan!loop
    BY <1>10 DEF Scan!Touch
  <2> QED
    BY <1>2, <1>10, <2>1, FittingTouched DEF Scan!loop
<1>11. CASE UNCHANGED Scan!scannerVars
  BY <1>2, <1>11 DEF Scan!scannerVars
<1> QED
  BY <1>3, <1>4, <1>5, <1>6, <1>7, <1>8, <1>9, <1>10, <1>11 DEF Scan!Next, Scan!Walk

(* The types of the scanner.                                               *)
THEOREM ScannerIsTyped == ASSUME Scan!TreeIsSound PROVE Scan!Spec => []Scan!TypeOK
<1>1. ScanTypes /\ ScanFits /\ TimersFit /\ SwitchesFit => Scan!TypeOK
  <2> SUFFICES ASSUME ScanTypes, ScanFits, TimersFit, SwitchesFit PROVE Scan!TypeOK
    OBVIOUS
  <2>1. \A p \in Paths : {tree[p], view[p], index[p]} \subseteq Scan!LooksOf(p) \cup {None}
    BY DEF ScanFits, Fits
  <2>2. ASSUME scan # None
        PROVE  /\ \A i \in 1..Len(scan.queue) : scan.queue[i] \in Dirs \cup {Root}
               /\ scan.chunk # {} => Scan!Cardinality(scan.chunk) < ChunkSize
    <3>1. scan.queue \in Seq(Dirs \cup {Root})
      BY <2>2 DEF ScanTypes, Scan!Walks
    <3>2. \A i \in 1..Len(scan.queue) : scan.queue[i] \in Dirs \cup {Root}
      BY <3>1
    <3> QED
      BY <2>2, <3>2, ScanCounts DEF ScanFits, Kept
  <2>3. stamped \subseteq {p \in Paths : index[p] # None}
    BY DEF ScanTypes
  <2>4. timers \in 0..loops
    BY DEF TimersFit
  <2>5. {stopped, closed, stopping} \subseteq BOOLEAN
    BY DEF SwitchesFit
  <2> QED
    BY <2>1, <2>2, <2>3, <2>4, <2>5 DEF Scan!TypeOK, Scan!Running, Paths
<1>2. ScanInv => ScanTypes
  BY DEF ScanInv
<1> QED
  BY <1>1, <1>2, ScanInit, ScanNext, FitsInit, FitsNext, SwitchesNext, TimersNext, PTL DEF Scan!Spec

-----------------------------------------------------------------------------
(* The watcher.  While it is blind, a path it has not been blind to is as  *)
(* it was, told or not; otherwise the look it remembers is what chokidar   *)
(* told last, and so is what the listener believes or will be told.        *)

Told(p) == IF Watch!Blind THEN cache[p] ELSE told[p]
Believed(p) == IF unlinked[p] # None THEN None
               ELSE IF debounces[p] # None THEN debounces[p] ELSE heard[p]
Tracks(p) ==
    /\ Watch!Blind => told[p] \in {cache[p], None}
    /\ phase = "on" =>
         /\ Watch!LookOf(known[p]) = Watch!LookOf(Told(p))
         /\ Believed(p) = Watch!LookOf(Told(p))
         /\ unlinked[p] # None => Told(p) = None /\ debounces[p] = None
    /\ phase # "on" =>
         /\ unlinked[p] = None /\ debounces[p] = None
         /\ known[p] = None \/ Watch!LookOf(known[p]) = Watch!LookOf(cache[p])
         /\ told[p] # None => Watch!LookOf(known[p]) = Watch!LookOf(told[p])

WatchTypes ==
    /\ cache \in [CachePaths -> Watch!Found \cup {None}]
    /\ told \in [CachePaths -> Watch!Found \cup {None}]
    /\ known \in [CachePaths -> Watch!Found \cup {None}]
    /\ unlinked \in [CachePaths -> Watch!Found \cup {None}]
    /\ debounces \in [CachePaths -> Looks \cup {None}] /\ heard \in [CachePaths -> Looks \cup {None}]
    /\ objects \in Nat /\ phase \in {"off", "priming", "on"}
WatchInv == WatchTypes /\ \A p \in CachePaths \ (revived \cup unseen) : Tracks(p)

LEMMA Sights ==
    ASSUME Watch!NoneIsNothing
    PROVE  /\ Watch!LookOf(None) = None
           /\ \A x \in Watch!Found : x # None /\ Watch!LookOf(x) = x.look /\ x.look \in Looks
           /\ None \notin Looks
           /\ \A x \in Watch!Found \cup {None} : /\ Watch!LookOf(x) \in Looks \cup {None}
                                                 /\ Watch!LookOf(x) = None => x = None
BY DEF Watch!NoneIsNothing, Watch!Found, Watch!LookOf

LEMMA WatchInit == ASSUME Watch!NoneIsNothing PROVE Watch!Init => WatchInv
<1> SUFFICES ASSUME Watch!Init PROVE WatchInv
  OBVIOUS
<1>1. cache \in [CachePaths -> Watch!Found \cup {None}]
  <2>1. cache \in [CachePaths -> {None} \cup [object : {1}, look : Looks]]
    BY DEF Watch!Init
  <2>2. [object : {1}, look : Looks] \subseteq Watch!Found
    BY DEF Watch!Found
  <2> QED
    BY <2>1, <2>2
<1> QED
  BY <1>1 DEF Watch!Init, WatchInv, WatchTypes, Tracks, Watch!Nothing

(* A path that a step leaves as it was.                                    *)
LEMMA Untouched ==
    ASSUME NEW p \in CachePaths, Tracks(p), UNCHANGED <<root, opening, phase>>,
           cache'[p] = cache[p], told'[p] = told[p], known'[p] = known[p],
           debounces'[p] = debounces[p], unlinked'[p] = unlinked[p], heard'[p] = heard[p]
    PROVE  Tracks(p)'
BY DEF Tracks, Told, Believed, Watch!Blind

LEMMA WatchFires ==
    ASSUME Watch!NoneIsNothing, WatchInv, NEW q \in CachePaths,
           Watch!DebounceFires(q) \/ Watch!UnlinkFires(q)
    PROVE  WatchInv'
<1>1. /\ UNCHANGED <<root, opening, phase, cache, told, known, revived, unseen, objects>>
      /\ WatchTypes
  BY DEF Watch!DebounceFires, Watch!UnlinkFires, Watch!watch, Watch!world, WatchInv
<1>2. CASE Watch!DebounceFires(q)
  <2>1. /\ debounces[q] # None /\ heard' = [heard EXCEPT ![q] = debounces[q]]
        /\ debounces' = [debounces EXCEPT ![q] = None] /\ unlinked' = unlinked
    BY <1>2 DEF Watch!DebounceFires, Watch!CancelDebounce
  <2>2. WatchTypes'
    BY <1>1, <2>1 DEF WatchTypes
  <2>3. ASSUME NEW p \in CachePaths \ (revived' \cup unseen') PROVE Tracks(p)'
    <3>1. Tracks(p)
      BY <1>1 DEF WatchInv
    <3>2. CASE p # q
      BY <1>1, <2>1, <3>1, <3>2, Untouched DEF WatchTypes
    <3>3. CASE p = q
      BY <1>1, <2>1, <3>1, <3>3 DEF WatchTypes, Tracks, Told, Believed, Watch!Blind
    <3> QED
      BY <3>2, <3>3
  <2> QED
    BY <2>2, <2>3 DEF WatchInv
<1>3. CASE Watch!UnlinkFires(q)
  <2>1. /\ unlinked[q] # None /\ heard' = [heard EXCEPT ![q] = None]
        /\ unlinked' = [unlinked EXCEPT ![q] = None] /\ debounces' = debounces
    BY <1>3 DEF Watch!UnlinkFires
  <2>2. WatchTypes'
    BY <1>1, <2>1 DEF WatchTypes
  <2>3. ASSUME NEW p \in CachePaths \ (revived' \cup unseen') PROVE Tracks(p)'
    <3>1. Tracks(p)
      BY <1>1 DEF WatchInv
    <3>2. CASE p # q
      BY <1>1, <2>1, <3>1, <3>2, Untouched DEF WatchTypes
    <3>3. CASE p = q
      BY <1>1, <2>1, <3>1, <3>3 DEF WatchTypes, Tracks, Told, Believed, Watch!Blind
    <3> QED
      BY <3>2, <3>3
  <2> QED
    BY <2>2, <2>3 DEF WatchInv
<1> QED
  BY <1>2, <1>3
LEMMA WatchNotices ==
    ASSUME Watch!NoneIsNothing, WatchInv, NEW q \in CachePaths, phase = "on",
           cache[q] \in Watch!Found, Watch!Noticed(q, cache[q]),
           told' = [told EXCEPT ![q] = cache[q]],
           UNCHANGED <<root, opening, phase, cache, unseen, objects>>
    PROVE  WatchInv'
<1>1. /\ WatchTypes /\ UNCHANGED <<unlinked, heard>>
      /\ known' = [known EXCEPT ![q] = cache[q]]
      /\ debounces' = IF known[q] # None /\ Watch!SameContent(known[q], cache[q])
                      THEN debounces ELSE [debounces EXCEPT ![q] = cache[q].look]
      /\ revived' = revived \cup {p \in {q} : unlinked[p] # None}
  BY DEF Watch!Noticed, Watch!Revives, WatchInv
<1>2. WatchTypes'
  BY <1>1, Sights DEF WatchTypes
<1>3. ASSUME NEW p \in CachePaths \ (revived' \cup unseen') PROVE Tracks(p)'
  <2>1. Tracks(p) /\ p \in CachePaths
    BY <1>1 DEF WatchInv
  <2>2. CASE p # q
    BY <1>1, <2>1, <2>2, Untouched DEF WatchTypes
  <2>3. CASE p = q
    <3>1. /\ unlinked'[q] = None /\ unlinked[q] = None /\ heard'[q] = heard[q]
          /\ known'[q] = cache[q] /\ told'[q] = cache[q] /\ cache'[q] = cache[q]
      BY <1>1, <2>3 DEF WatchTypes
    <3>2. Told(q)' = cache[q]
      BY <3>1 DEF Told
    <3>3. Believed(q)' = cache[q].look
      <4>1. CASE known[q] # None /\ Watch!SameContent(known[q], cache[q])
        <5>1. debounces'[q] = debounces[q]
          BY <1>1, <4>1
        <5>2. Believed(q) = cache[q].look
          BY <1>1, <2>1, <2>3, <4>1, Sights DEF Tracks, WatchTypes, Watch!SameContent
        <5> QED
          BY <3>1, <5>1, <5>2 DEF Believed
      <4>2. CASE ~(known[q] # None /\ Watch!SameContent(known[q], cache[q]))
        <5>1. debounces'[q] = cache[q].look /\ cache[q].look # None
          BY <1>1, <4>2, Sights DEF WatchTypes
        <5> QED
          BY <3>1, <5>1 DEF Believed
      <4> QED
        BY <4>1, <4>2
    <3> QED
      BY <2>3, <3>1, <3>2, <3>3, Sights DEF Tracks
  <2> QED
    BY <2>2, <2>3
<1> QED
  BY <1>2, <1>3 DEF WatchInv

LEMMA WatchRenames ==
    ASSUME Watch!NoneIsNothing, WatchInv, NEW q \in CachePaths, NEW from \in CachePaths,
           phase = "on", cache[q] \in Watch!Found, unlinked[from] # None,
           Watch!Renamed(from, q, cache[q]), told' = [told EXCEPT ![q] = cache[q]],
           UNCHANGED <<root, opening, phase, cache, unseen, objects>>
    PROVE  WatchInv'
<1>1. /\ WatchTypes
      /\ unlinked' = [unlinked EXCEPT ![from] = None]
      /\ known' = [known EXCEPT ![from] = None, ![q] = cache[q]]
      /\ debounces' = [debounces EXCEPT ![q] = None]
      /\ heard' = [heard EXCEPT ![from] = None, ![q] = cache[q].look]
      /\ revived' = revived \cup {p \in {q} \ {from} : unlinked[p] # None}
  BY DEF Watch!Renamed, Watch!Revives, Watch!CancelDebounce, WatchInv
<1>2. WatchTypes'
  BY <1>1, Sights DEF WatchTypes
<1>3. ASSUME NEW p \in CachePaths \ (revived' \cup unseen') PROVE Tracks(p)'
  <2>1. Tracks(p) /\ p \in CachePaths
    BY <1>1 DEF WatchInv
  <2>2. CASE p # q /\ p # from
    BY <1>1, <2>1, <2>2, Untouched DEF WatchTypes
  <2>3. CASE p = q
    <3>1. /\ unlinked'[q] = None /\ known'[q] = cache[q] /\ debounces'[q] = None
          /\ heard'[q] = cache[q].look /\ told'[q] = cache[q]
      BY <1>1, <2>3 DEF WatchTypes
    <3>2. Told(q)' = cache[q] /\ Believed(q)' = cache[q].look
      BY <3>1 DEF Told, Believed
    <3> QED
      BY <2>3, <3>1, <3>2, Sights DEF Tracks
  <2>4. CASE p = from /\ p # q
    <3>1. /\ unlinked'[p] = None /\ known'[p] = None /\ debounces'[p] = debounces[p]
          /\ heard'[p] = None /\ told'[p] = told[p]
      BY <1>1, <2>4 DEF WatchTypes
    <3>2. Told(p) = None /\ debounces[p] = None
      BY <2>1, <2>4 DEF Tracks
    <3>3. Told(p)' = None /\ Believed(p)' = None
      BY <3>1, <3>2 DEF Told, Believed, Watch!Blind
    <3>4. Watch!Blind' => told'[p] \in {cache'[p], None}
      BY <2>1, <3>1 DEF Tracks, Watch!Blind
    <3> QED
      BY <3>1, <3>3, <3>4, Sights DEF Tracks
  <2> QED
    BY <2>2, <2>3, <2>4
<1> QED
  BY <1>2, <1>3 DEF WatchInv

LEMMA WatchUnlinks ==
    ASSUME Watch!NoneIsNothing, WatchInv, NEW q \in CachePaths, cache[q] = None,
           told[q] # None, Watch!OnUnlink(q), told' = [told EXCEPT ![q] = cache[q]],
           UNCHANGED <<root, opening, phase, cache, unseen, objects>>
    PROVE  WatchInv'
<1>1. /\ WatchTypes /\ revived' = revived
      /\ debounces' = [debounces EXCEPT ![q] = None] /\ known' = [known EXCEPT ![q] = None]
      /\ IF known[q] = None THEN heard' = [heard EXCEPT ![q] = None] /\ unlinked' = unlinked
         ELSE unlinked' = [unlinked EXCEPT ![q] = known[q]] /\ heard' = heard
  BY DEF Watch!OnUnlink, Watch!Unlinked, Watch!CancelDebounce, WatchInv
<1>2. WatchTypes'
  BY <1>1 DEF WatchTypes
<1>3. ASSUME NEW p \in CachePaths \ (revived' \cup unseen') PROVE Tracks(p)'
  <2>1. Tracks(p) /\ p \in CachePaths
    BY <1>1 DEF WatchInv
  <2>2. CASE p # q
    BY <1>1, <2>1, <2>2, Untouched DEF WatchTypes
  <2>3. CASE p = q
    <3>1. ~Watch!Blind /\ phase = "on" /\ Told(q) = told[q]
      BY <2>1, <2>3 DEF Tracks, Told, Watch!Blind
    <3>2. known[q] # None
      BY <1>1, <2>1, <2>3, <3>1, Sights DEF Tracks, WatchTypes
    <3>3. /\ unlinked'[q] = known[q] /\ known'[q] = None /\ debounces'[q] = None
          /\ told'[q] = None
      BY <1>1, <3>2 DEF WatchTypes
    <3>4. Told(q)' = None /\ Believed(q)' = None
      BY <3>2, <3>3 DEF Told, Believed
    <3> QED
      BY <2>3, <3>1, <3>3, <3>4, Sights DEF Tracks, Watch!Blind
  <2> QED
    BY <2>2, <2>3
<1> QED
  BY <1>2, <1>3 DEF WatchInv

LEMMA WatchTells ==
    ASSUME Watch!NoneIsNothing, WatchInv, NEW q \in CachePaths, Watch!Tell(q) PROVE WatchInv'
<1>1. /\ told[q] # cache[q] /\ told' = [told EXCEPT ![q] = cache[q]]
      /\ UNCHANGED <<root, opening, phase, cache, unseen, objects>> /\ WatchTypes
      /\ phase # "off"
      /\ IF cache[q] = None THEN Watch!OnUnlink(q)
         ELSE IF told[q] = None THEN Watch!OnAdd(q, cache[q])
         ELSE Watch!OnChange(q, cache[q])
  BY DEF Watch!Tell, Watch!watch, Watch!world, WatchInv
<1>2. CASE cache[q] = None
  BY <1>1, <1>2, WatchUnlinks
<1>3. ASSUME cache[q] # None, phase # "on", Watch!Noticed(q, cache[q]), told[q] # None
      PROVE  WatchInv'
  <2>1. /\ UNCHANGED <<unlinked, heard>> /\ revived \subseteq revived'
        /\ known' = [known EXCEPT ![q] = cache[q]]
        /\ \/ debounces' = debounces
           \/ debounces' = [debounces EXCEPT ![q] = cache[q].look]
    BY <1>3 DEF Watch!Noticed, Watch!Revives
  <2>2. WatchTypes'
    BY <1>1, <1>3, <2>1, Sights DEF WatchTypes
  <2>3. ASSUME NEW p \in CachePaths \ (revived' \cup unseen') PROVE Tracks(p)'
    <3>1. Tracks(p) /\ p \in CachePaths
      BY <1>1, <2>1 DEF WatchInv
    <3>2. p # q
      BY <1>1, <1>3, <3>1 DEF Tracks, Watch!Blind
    <3> QED
      BY <1>1, <2>1, <3>1, <3>2, Untouched DEF WatchTypes
  <2> QED
    BY <2>2, <2>3 DEF WatchInv
<1>4. CASE cache[q] # None /\ told[q] # None
  BY <1>1, <1>3, <1>4, WatchNotices DEF Watch!OnChange, WatchTypes
<1>5. CASE cache[q] # None /\ told[q] = None /\ phase = "priming"
  <2>1. known' = [known EXCEPT ![q] = cache[q]]
        /\ UNCHANGED <<debounces, unlinked, heard, revived>>
    BY <1>1, <1>5 DEF Watch!OnAdd
  <2>2. WatchTypes'
    BY <1>1, <1>5, <2>1 DEF WatchTypes
  <2>3. ASSUME NEW p \in CachePaths \ (revived' \cup unseen') PROVE Tracks(p)'
    <3>1. Tracks(p) /\ p \in CachePaths
      BY <1>1, <2>1 DEF WatchInv
    <3>2. CASE p # q
      BY <1>1, <2>1, <3>1, <3>2, Untouched DEF WatchTypes
    <3>3. CASE p = q
      BY <1>1, <1>5, <2>1, <3>1, <3>3 DEF WatchTypes, Tracks
    <3> QED
      BY <3>2, <3>3
  <2> QED
    BY <2>2, <2>3 DEF WatchInv
<1>6. CASE cache[q] # None /\ told[q] = None /\ phase # "priming"
  <2>1. /\ cache[q] \in Watch!Found
        /\ \/ \E from \in Watch!PendingRename(cache[q]) : Watch!Renamed(from, q, cache[q])
           \/ Watch!Noticed(q, cache[q])
    BY <1>1, <1>6 DEF Watch!OnAdd, WatchTypes
  <2>2. phase = "on"
    BY <1>1, <1>6 DEF WatchTypes
  <2>3. ASSUME NEW from \in Watch!PendingRename(cache[q]), Watch!Renamed(from, q, cache[q])
        PROVE  WatchInv'
    <3>1. from \in CachePaths /\ unlinked[from] # None
      BY DEF Watch!PendingRename
    <3> QED
      BY <1>1, <2>1, <2>2, <2>3, <3>1, WatchRenames
  <2> QED
    BY <1>1, <2>1, <2>2, <2>3, WatchNotices
<1> QED
  BY <1>1, <1>2, <1>4, <1>5, <1>6

(* A path that a step leaves blind, in the same phase.                     *)
LEMMA StaysBlind ==
    ASSUME NEW p \in CachePaths, Tracks(p), Watch!Blind', phase' = phase,
           Watch!Blind \/ told[p] = cache[p], cache'[p] = cache[p],
           told'[p] \in {told[p], None} \/ (phase = "on" /\ told'[p] = cache[p]),
           known'[p] = known[p], debounces'[p] = debounces[p],
           unlinked'[p] = unlinked[p], heard'[p] = heard[p]
    PROVE  Tracks(p)'
<1>1. Told(p) = cache[p] /\ Told(p)' = cache[p]
  BY DEF Told
<1>2. told'[p] \in {cache[p], None}
  BY DEF Tracks
<1>3. Believed(p)' = Believed(p)
  BY DEF Believed
<1>4. CASE phase = "on"
  BY <1>1, <1>2, <1>3, <1>4 DEF Tracks
<1>5. CASE phase # "on"
  BY <1>2, <1>5 DEF Tracks
<1> QED
  BY <1>4, <1>5

(* The watch is begun, or its root is missed, lost or found again.         *)
LEMMA WatchIsMoved ==
    ASSUME Watch!NoneIsNothing, WatchInv,
           \/ Watch!LimitReached \/ Watch!CheckRoot \/ Watch!RestoreRoot \/ Watch!RemoveRoot
           \/ \E why \in {"limit", "root"} : Watch!Reopens(why)
    PROVE  WatchInv'
<1> DEFINE same == UNCHANGED <<phase, known, debounces, unlinked, heard, revived, objects>>
<1>1. WatchTypes
  BY DEF WatchInv
<1>2. CASE Watch!LimitReached
  <2>1. /\ same /\ UNCHANGED <<told, cache>> /\ unseen' = unseen \cup Watch!Untold
        /\ opening' # {}
    BY <1>2 DEF Watch!LimitReached, Watch!events
  <2>2. ASSUME NEW p \in CachePaths \ (revived' \cup unseen') PROVE Tracks(p)'
    <3>1. Tracks(p) /\ p \in CachePaths /\ told[p] = cache[p]
      BY <2>1 DEF WatchInv, Watch!Untold
    <3> QED
      BY <2>1, <3>1, StaysBlind DEF Watch!Blind
  <2> QED
    BY <1>1, <2>1, <2>2 DEF WatchInv, WatchTypes
<1>3. CASE Watch!CheckRoot
  <2>1. /\ same /\ UNCHANGED <<told, cache, root>> /\ unseen \subseteq unseen'
        /\ \/ UNCHANGED <<opening, unseen>>
           \/ opening' = opening \cup {"root"} /\ unseen' = unseen \cup Watch!Untold
    BY <1>3 DEF Watch!CheckRoot, Watch!events
  <2>2. ASSUME NEW p \in CachePaths \ (revived' \cup unseen') PROVE Tracks(p)'
    <3>1. Tracks(p) /\ p \in CachePaths
      BY <2>1 DEF WatchInv
    <3>2. CASE UNCHANGED opening
      BY <2>1, <3>1, <3>2, Untouched
    <3>3. CASE opening' # {} /\ unseen' = unseen \cup Watch!Untold
      <4>1. told[p] = cache[p]
        BY <3>3 DEF Watch!Untold
      <4> QED
        BY <2>1, <3>1, <3>3, <4>1, StaysBlind DEF Watch!Blind
    <3> QED
      BY <2>1, <3>2, <3>3
  <2> QED
    BY <1>1, <2>1, <2>2 DEF WatchInv, WatchTypes
<1>4. CASE Watch!RestoreRoot
  <2>1. same /\ UNCHANGED <<told, cache, unseen>> /\ root # "watched" /\ root' # "watched"
    BY <1>4 DEF Watch!RestoreRoot, Watch!events
  <2>2. ASSUME NEW p \in CachePaths \ (revived' \cup unseen') PROVE Tracks(p)'
    BY <2>1, StaysBlind DEF WatchInv, Watch!Blind
  <2> QED
    BY <1>1, <2>1, <2>2 DEF WatchInv, WatchTypes
<1>5. CASE Watch!RemoveRoot
  <2>1. /\ same /\ told' = told /\ cache' = Watch!Nothing /\ root' # "watched"
        /\ unseen' = (unseen \cup Watch!Changed) \cup Watch!Untold
    BY <1>5 DEF Watch!RemoveRoot, Watch!events
  <2>2. ASSUME NEW p \in CachePaths \ (revived' \cup unseen') PROVE Tracks(p)'
    <3>1. Tracks(p) /\ p \in CachePaths /\ told[p] = cache[p] /\ cache'[p] = cache[p]
      BY <2>1 DEF WatchInv, Watch!Untold, Watch!Changed
    <3> QED
      BY <2>1, <3>1, StaysBlind DEF Watch!Blind
  <2>3. cache' \in [CachePaths -> Watch!Found \cup {None}]
    BY <2>1 DEF Watch!Nothing
  <2> QED
    BY <1>1, <2>1, <2>2, <2>3 DEF WatchInv, WatchTypes
<1>6. ASSUME NEW why \in {"limit", "root"}, Watch!Reopens(why) PROVE WatchInv'
  <2>1. /\ same /\ UNCHANGED <<cache, unseen>> /\ opening # {} /\ opening' # {} /\ phase = "on"
        /\ told' \in {cache, Watch!Nothing}
    BY <1>6 DEF Watch!Reopens, Watch!reopened, Watch!events, Watch!world, Watch!Retold
  <2>2. ASSUME NEW p \in CachePaths \ (revived' \cup unseen') PROVE Tracks(p)'
    <3>1. Tracks(p) /\ p \in CachePaths
      BY <2>1 DEF WatchInv
    <3>2. told'[p] \in {cache[p], None}
      BY <2>1, <3>1 DEF Watch!Nothing
    <3> QED
      BY <2>1, <3>1, <3>2, StaysBlind DEF Watch!Blind
  <2>3. told' \in [CachePaths -> Watch!Found \cup {None}]
    BY <1>1, <2>1 DEF WatchTypes, Watch!Nothing
  <2> QED
    BY <1>1, <2>1, <2>2, <2>3 DEF WatchInv, WatchTypes
<1> QED
  BY <1>2, <1>3, <1>4, <1>5, <1>6

(* The phases, and an inventory taken when all there is has been told.     *)
LEMMA WatchPhases ==
    ASSUME Watch!NoneIsNothing, WatchInv,
           Watch!Start \/ Watch!Ready \/ Watch!Stop \/ Watch!Reopened
    PROVE  WatchInv'
<1>1. WatchTypes
  BY DEF WatchInv
<1>2. CASE Watch!Start
  <2>1. /\ UNCHANGED <<told, cache, known, debounces, unlinked, heard, revived, unseen, objects>>
        /\ phase = "off" /\ phase' = "priming"
    BY <1>2 DEF Watch!Start, Watch!events, Watch!world
  <2>2. ASSUME NEW p \in CachePaths \ (revived' \cup unseen') PROVE Tracks(p)'
    BY <2>1 DEF WatchInv, Tracks, Watch!Blind
  <2> QED
    BY <1>1, <2>1, <2>2 DEF WatchInv, WatchTypes
<1> DEFINE inventory == /\ UNCHANGED <<told, cache, known, debounces, unlinked, revived, unseen, objects>>
                        /\ told = cache /\ phase' = "on" /\ heard' = Watch!Inventory
<1>3. ASSUME inventory, Watch!Blind, phase \in {"priming", "on"} PROVE WatchInv'
  <2>1. WatchTypes'
    BY <1>1, <1>3, Sights DEF WatchTypes, Watch!Inventory
  <2>2. ASSUME NEW p \in CachePaths \ (revived' \cup unseen') PROVE Tracks(p)'
    <3>1. Tracks(p) /\ p \in CachePaths /\ told[p] = cache[p]
      BY <1>3 DEF WatchInv
    <3>2. Told(p) = cache[p] /\ Told(p)' = cache[p] /\ told'[p] = cache'[p]
      BY <1>3, <3>1 DEF Told
    <3>3. heard'[p] = Watch!LookOf(cache[p])
      BY <1>3, <3>1 DEF Watch!Inventory
    <3>4. /\ Watch!LookOf(known[p]) = Watch!LookOf(cache[p])
          /\ unlinked[p] # None => cache[p] = None /\ debounces[p] = None
          /\ debounces[p] # None => debounces[p] = Watch!LookOf(cache[p])
      <4>1. CASE phase = "on"
        BY <3>1, <3>2, <4>1 DEF Tracks, Believed
      <4>2. CASE phase # "on"
        BY <3>1, <4>2, Sights DEF Tracks
      <4> QED
        BY <4>1, <4>2
    <3>5. Believed(p)' = Watch!LookOf(cache[p])
      BY <1>3, <3>3, <3>4, Sights DEF Believed
    <3> QED
      BY <1>3, <3>2, <3>4, <3>5 DEF Tracks, Watch!LookOf
  <2> QED
    BY <2>1, <2>2 DEF WatchInv
<1>4. CASE Watch!Ready
  BY <1>3, <1>4 DEF Watch!Ready, Watch!events, Watch!world, Watch!Blind
<1>5. CASE Watch!Reopened
  BY <1>3, <1>5 DEF Watch!Reopened, Watch!reopened, Watch!events, Watch!world, Watch!Blind
<1>6. CASE Watch!Stop
  <2>1. /\ UNCHANGED <<cache, known, heard, revived, objects>> /\ phase' = "off"
        /\ debounces' = Watch!Nothing /\ unlinked' = Watch!Nothing /\ told' = Watch!Nothing
        /\ unseen' = unseen \cup Watch!Untold
    BY <1>6 DEF Watch!Stop
  <2>2. WatchTypes'
    BY <1>1, <2>1 DEF WatchTypes, Watch!Nothing
  <2>3. ASSUME NEW p \in CachePaths \ (revived' \cup unseen') PROVE Tracks(p)'
    <3>1. Tracks(p) /\ p \in CachePaths /\ told[p] = cache[p]
      BY <2>1 DEF WatchInv, Watch!Untold
    <3>2. known[p] = None \/ Watch!LookOf(known[p]) = Watch!LookOf(cache[p])
      BY <3>1 DEF Tracks, Told
    <3> QED
      BY <2>1, <3>1, <3>2, Sights DEF Tracks, Watch!Nothing, Watch!LookOf
  <2> QED
    BY <2>2, <2>3 DEF WatchInv
<1> QED
  BY <1>2, <1>4, <1>5, <1>6

(* Changes of the cache: seen later, or a path the watcher was blind to.   *)
LEMMA WatchIsTouched ==
    ASSUME Watch!NoneIsNothing, WatchInv, Watch!Touched, UNCHANGED revived,
           cache' \in [CachePaths -> Watch!Found \cup {None}], objects' \in Nat
    PROVE  WatchInv'
<1>1. /\ UNCHANGED <<root, opening, phase, told, known, debounces, unlinked, heard>>
      /\ unseen' = IF Watch!Blind THEN unseen \cup Watch!Changed ELSE unseen
      /\ WatchTypes
  BY DEF Watch!Touched, Watch!watch, Watch!events, WatchInv
<1>2. WatchTypes'
  BY <1>1 DEF WatchTypes
<1>3. ASSUME NEW p \in CachePaths \ (revived' \cup unseen') PROVE Tracks(p)'
  <2>1. Tracks(p) /\ p \in CachePaths
    BY <1>1 DEF WatchInv
  <2>2. CASE Watch!Blind
    <3>1. cache'[p] = cache[p]
      BY <1>1, <2>2 DEF Watch!Changed
    <3> QED
      BY <1>1, <2>1, <3>1, Untouched
  <2>3. CASE ~Watch!Blind
    BY <1>1, <2>1, <2>3 DEF Tracks, Told, Believed, Watch!Blind
  <2> QED
    BY <2>2, <2>3
<1> QED
  BY <1>2, <1>3 DEF WatchInv

LEMMA WatchNext ==
    ASSUME Watch!NoneIsNothing, WatchInv, [Watch!Next]_(Watch!watcherVars) PROVE WatchInv'
<1>1. WatchTypes
  BY DEF WatchInv
<1>2. CASE \E p \in CachePaths : Watch!Tell(p)
  BY <1>2, WatchTells
<1>3. CASE Watch!Timers
  BY <1>3, WatchFires DEF Watch!Timers
<1>4. CASE Watch!Start \/ Watch!Ready \/ Watch!Stop \/ Watch!Reopened
  BY <1>4, WatchPhases
<1>5. CASE \/ Watch!LimitReached \/ Watch!CheckRoot \/ Watch!RestoreRoot \/ Watch!RemoveRoot
           \/ \E why \in {"limit", "root"} : Watch!Reopens(why)
  BY <1>5, WatchIsMoved
<1>6. ASSUME NEW p \in CachePaths, Watch!Remove(p) PROVE WatchInv'
  <2>1. cache' = [cache EXCEPT ![p] = None] /\ objects' = objects /\ Watch!Touched
    BY <1>6 DEF Watch!Remove
  <2>2. cache' \in [CachePaths -> Watch!Found \cup {None}] /\ objects' \in Nat
    BY <1>1, <2>1 DEF WatchTypes
  <2> QED
    BY <2>1, <2>2, WatchIsTouched DEF Watch!Touched, Watch!events
<1>7. ASSUME NEW p \in CachePaths, NEW look \in Looks, Watch!Write(p, look) PROVE WatchInv'
  <2>1. /\ Watch!Touched
        /\ \/ /\ cache[p] # None /\ cache' = [cache EXCEPT ![p].look = look]
              /\ objects' = objects
           \/ /\ objects' = objects + 1
              /\ cache' = [cache EXCEPT ![p] = [object |-> objects', look |-> look]]
    BY <1>7 DEF Watch!Write
  <2>2. objects' \in Nat
    BY <1>1, <2>1 DEF WatchTypes
  <2>3. [object |-> objects', look |-> look] \in Watch!Found
    BY <2>2 DEF Watch!Found
  <2>4. cache[p] # None => [cache[p] EXCEPT !.look = look] \in Watch!Found
    BY <1>1 DEF WatchTypes, Watch!Found
  <2>5. cache' \in [CachePaths -> Watch!Found \cup {None}]
    BY <1>1, <2>1, <2>3, <2>4 DEF WatchTypes
  <2> QED
    BY <2>1, <2>2, <2>5, WatchIsTouched DEF Watch!Touched, Watch!events
<1>8. ASSUME NEW p \in CachePaths, NEW q \in CachePaths, Watch!Rename(p, q) PROVE WatchInv'
  <2>1. /\ cache' = [cache EXCEPT ![p] = None, ![q] = cache[p]] /\ objects' = objects
        /\ Watch!Touched
    BY <1>8 DEF Watch!Rename
  <2>2. cache' \in [CachePaths -> Watch!Found \cup {None}] /\ objects' \in Nat
    BY <1>1, <2>1 DEF WatchTypes
  <2> QED
    BY <2>1, <2>2, WatchIsTouched DEF Watch!Touched, Watch!events
<1>9. CASE UNCHANGED Watch!watcherVars
  <2>1. /\ UNCHANGED <<cache, root, told, opening, phase, known, debounces, unlinked, heard>>
        /\ UNCHANGED <<revived, unseen, objects>>
    BY <1>9 DEF Watch!watcherVars
  <2> QED
    BY <2>1 DEF WatchInv, WatchTypes, Tracks, Told, Believed, Watch!Blind
<1> QED
  BY <1>2, <1>3, <1>4, <1>5, <1>6, <1>7, <1>8, <1>9 DEF Watch!Next

(* When nothing waits the listener has been told of every change, but for  *)
(* the paths that came back inside their rename window, or changed while   *)
(* nothing was watched: with any number of files, changes and lost watches *)
(* and with the timers in any order.                                       *)
THEOREM ListenersHearAll ==
    ASSUME Watch!NoneIsNothing PROVE Watch!Spec => []Watch!ListenerIsToldAll
<1>1. WatchInv => Watch!ListenerIsToldAll
  <2>1. SUFFICES ASSUME WatchInv, Watch!AtRest, NEW p \in CachePaths \ (revived \cup unseen)
                 PROVE  heard[p] = Watch!LookOf(cache[p])
    BY DEF Watch!ListenerIsToldAll
  <2>2. Tracks(p) /\ p \in CachePaths /\ phase = "on" /\ told = cache
    BY <2>1 DEF WatchInv, Watch!AtRest
  <2>3. unlinked[p] = None /\ debounces[p] = None
    BY <2>1, <2>2 DEF Watch!AtRest, Watch!Nothing
  <2> QED
    BY <2>2, <2>3 DEF Tracks, Told, Believed
<1> QED
  BY <1>1, WatchInit, WatchNext, PTL DEF Watch!Spec

(* The types of the watcher: whatever it remembers is an object that was.  *)
Sighted(x) == x = None \/ x.object \in 1..objects
WatchFits ==
    /\ objects \in Nat \ {0}
    /\ \A p \in CachePaths :
         Sighted(cache[p]) /\ Sighted(told[p]) /\ Sighted(known[p]) /\ Sighted(unlinked[p])
SetsFit ==
    /\ root \in {"watched", "gone", "again"} /\ opening \subseteq {"limit", "root", "index"}
    /\ revived \subseteq CachePaths /\ unseen \subseteq CachePaths

LEMMA WatchFitsInit == ASSUME Watch!NoneIsNothing PROVE Watch!Init => WatchFits /\ SetsFit
<1> SUFFICES ASSUME Watch!Init PROVE WatchFits /\ SetsFit
  OBVIOUS
<1>1. /\ \A p \in CachePaths : cache[p] = None \/ cache[p].object = 1
      /\ \A p \in CachePaths : told[p] = None /\ known[p] = None /\ unlinked[p] = None
      /\ objects = 1
  <2>1. cache \in [CachePaths -> {None} \cup [object : {1}, look : Looks]]
    BY DEF Watch!Init
  <2> QED
    BY <2>1 DEF Watch!Init, Watch!Nothing
<1>2. WatchFits
  BY <1>1 DEF WatchFits, Sighted
<1>3. SetsFit
  BY DEF Watch!Init, SetsFit
<1> QED
  BY <1>2, <1>3

LEMMA SetsNext == SetsFit /\ [Watch!Next]_(Watch!watcherVars) => SetsFit'
<1> SUFFICES ASSUME SetsFit, [Watch!Next]_(Watch!watcherVars) PROVE SetsFit'
  OBVIOUS
<1> USE DEF SetsFit
<1>1. ASSUME NEW p \in CachePaths, Watch!Tell(p) PROVE SetsFit'
  <2>1. UNCHANGED <<root, opening, unseen>>
    BY <1>1 DEF Watch!Tell, Watch!watch, Watch!world
  <2>2. revived' \subseteq CachePaths
    BY <1>1 DEF Watch!Tell, Watch!OnUnlink, Watch!Unlinked, Watch!OnAdd, Watch!OnChange,
                Watch!Noticed, Watch!Renamed, Watch!Revives
  <2> QED
    BY <2>1, <2>2
<1>2. CASE Watch!Timers
  BY <1>2 DEF Watch!Timers, Watch!DebounceFires, Watch!UnlinkFires, Watch!watch, Watch!world
<1>3. CASE Watch!Start \/ Watch!Ready
  BY <1>3 DEF Watch!Start, Watch!Ready, Watch!events, Watch!world
<1>4. Watch!Untold \subseteq CachePaths /\ Watch!Changed \subseteq CachePaths
  BY DEF Watch!Untold, Watch!Changed
<1>5. CASE Watch!Stop \/ Watch!LimitReached \/ Watch!CheckRoot
  BY <1>4, <1>5 DEF Watch!Stop, Watch!LimitReached, Watch!CheckRoot, Watch!events, Watch!world
<1>6. CASE \E why \in {"limit", "root"} : Watch!Reopens(why)
  BY <1>6 DEF Watch!Reopens, Watch!reopened, Watch!events, Watch!world
<1>7. CASE Watch!Reopened
  BY <1>7 DEF Watch!Reopened, Watch!reopened, Watch!events, Watch!world
<1>8. ASSUME Watch!Touched PROVE SetsFit'
  BY <1>4, <1>8 DEF Watch!Touched, Watch!watch, Watch!events
<1>9. CASE \E p \in CachePaths : Watch!Remove(p) \/ (\E look \in Looks : Watch!Write(p, look))
                                \/ (\E q \in CachePaths : Watch!Rename(p, q))
  BY <1>8, <1>9 DEF Watch!Remove, Watch!Write, Watch!Rename
<1>10. CASE Watch!RemoveRoot \/ Watch!RestoreRoot \/ UNCHANGED Watch!watcherVars
  BY <1>4, <1>10 DEF Watch!RemoveRoot, Watch!RestoreRoot, Watch!events, Watch!watcherVars
<1> QED
  BY <1>1, <1>2, <1>3, <1>5, <1>6, <1>7, <1>9, <1>10 DEF Watch!Next

(* What is remembered next was there, or was remembered.                   *)
Recalled(x) == x = None \/ \E q \in CachePaths : x \in {cache[q], told[q], known[q], unlinked[q]}
LEMMA StillSighted ==
    ASSUME WatchFits, objects' = objects,
           \A p \in CachePaths : Recalled(cache'[p]) /\ Recalled(told'[p]) /\ Recalled(known'[p]) /\ Recalled(unlinked'[p])
    PROVE  WatchFits'
<1>1. ASSUME NEW x, Recalled(x) PROVE Sighted(x)
  <2>1. CASE x = None
    BY <2>1 DEF Sighted
  <2>2. CASE \E q \in CachePaths : x \in {cache[q], told[q], known[q], unlinked[q]}
    BY <2>2 DEF WatchFits
  <2> QED
    BY <1>1, <2>1, <2>2 DEF Recalled
<1> QED
  BY <1>1 DEF WatchFits, Sighted

LEMMA Unsighted ==
    \A p \in CachePaths : /\ Recalled(None) /\ Watch!Nothing[p] = None
                           /\ Recalled(cache[p]) /\ Recalled(told[p]) /\ Recalled(known[p]) /\ Recalled(unlinked[p])
BY DEF Recalled, Watch!Nothing

LEMMA WatchFitsTells ==
    ASSUME WatchTypes, WatchFits, NEW p \in CachePaths, Watch!Tell(p) PROVE WatchFits'
<1>1. UNCHANGED <<cache, objects>> /\ told' = [told EXCEPT ![p] = cache[p]]
  BY DEF Watch!Tell, Watch!world
<1>2. /\ DOMAIN told = CachePaths /\ DOMAIN known = CachePaths /\ DOMAIN unlinked = CachePaths
  BY DEF WatchTypes
<1>3. ASSUME known' = [known EXCEPT ![p] = cache[p]], unlinked' = unlinked PROVE WatchFits'
  BY <1>1, <1>2, <1>3, Unsighted, StillSighted
<1>4. CASE Watch!OnUnlink(p)
  BY <1>1, <1>2, <1>4, Unsighted, StillSighted DEF Watch!OnUnlink, Watch!Unlinked
<1>5. CASE Watch!OnChange(p, cache[p])
  BY <1>3, <1>5 DEF Watch!OnChange, Watch!Noticed
<1>6. ASSUME NEW from \in CachePaths, Watch!Renamed(from, p, cache[p]) PROVE WatchFits'
  BY <1>1, <1>2, <1>6, Unsighted, StillSighted DEF Watch!Renamed
<1>7. CASE Watch!OnAdd(p, cache[p])
  BY <1>3, <1>6, <1>7 DEF Watch!OnAdd, Watch!Noticed, Watch!PendingRename
<1> QED
  BY <1>4, <1>5, <1>7 DEF Watch!Tell

LEMMA WatchFitsNext ==
    ASSUME Watch!NoneIsNothing, WatchTypes, WatchFits, [Watch!Next]_(Watch!watcherVars)
    PROVE  WatchFits'
<1>1. /\ DOMAIN told = CachePaths /\ DOMAIN known = CachePaths /\ DOMAIN unlinked = CachePaths
      /\ DOMAIN cache = CachePaths
  BY DEF WatchTypes
<1>2. ASSUME UNCHANGED <<cache, objects, known, unlinked>>,
             \/ told' = told \/ told' = cache \/ told' = Watch!Nothing
      PROVE  WatchFits'
  BY <1>2, Unsighted, StillSighted
<1>3. ASSUME NEW p \in CachePaths, Watch!DebounceFires(p) PROVE WatchFits'
  BY <1>2, <1>3 DEF Watch!DebounceFires, Watch!world
<1>4. ASSUME NEW p \in CachePaths, Watch!UnlinkFires(p) PROVE WatchFits'
  BY <1>1, <1>4, Unsighted, StillSighted DEF Watch!UnlinkFires, Watch!world
<1>5. CASE Watch!Start \/ Watch!Ready \/ Watch!LimitReached \/ Watch!CheckRoot
  BY <1>2, <1>5 DEF Watch!Start, Watch!Ready, Watch!LimitReached, Watch!CheckRoot, Watch!events,
                    Watch!world
<1>6. CASE Watch!Stop
  BY <1>6, Unsighted, StillSighted DEF Watch!Stop
<1>7. CASE \E why \in {"limit", "root"} : Watch!Reopens(why)
  BY <1>2, <1>7 DEF Watch!Reopens, Watch!Retold, Watch!reopened, Watch!events, Watch!world
<1>8. CASE Watch!Reopened \/ Watch!RestoreRoot \/ UNCHANGED Watch!watcherVars
  BY <1>2, <1>8 DEF Watch!Reopened, Watch!RestoreRoot, Watch!reopened, Watch!events, Watch!world,
                    Watch!watcherVars
<1>9. ASSUME Watch!Touched \/ Watch!RemoveRoot
      PROVE  UNCHANGED <<told, known, unlinked>>
  BY <1>9 DEF Watch!Touched, Watch!RemoveRoot, Watch!events
<1>10. CASE Watch!RemoveRoot
  BY <1>9, <1>10, Unsighted, StillSighted DEF Watch!RemoveRoot
<1>11. ASSUME NEW p \in CachePaths, Watch!Remove(p) PROVE WatchFits'
  BY <1>1, <1>9, <1>11, Unsighted, StillSighted DEF Watch!Remove
<1>12. ASSUME NEW p \in CachePaths, NEW q \in CachePaths, Watch!Rename(p, q) PROVE WatchFits'
  BY <1>1, <1>9, <1>12, Unsighted, StillSighted DEF Watch!Rename
<1>13. ASSUME NEW p \in CachePaths, NEW look \in Looks, Watch!Write(p, look) PROVE WatchFits'
  <2>1. UNCHANGED <<told, known, unlinked>>
    BY <1>9, <1>13 DEF Watch!Write
  <2>2. objects' \in Nat \ {0} /\ objects <= objects'
    BY <1>13 DEF Watch!Write, WatchFits
  <2>3. \A x : Sighted(x) => Sighted(x)'
    BY <2>2 DEF Sighted, WatchFits
  <2>4. ASSUME NEW q \in CachePaths PROVE Sighted(cache[q])'
    <3>1. CASE q # p
      <4>1. cache'[q] = cache[q]
        BY <1>1, <1>13, <3>1 DEF Watch!Write
      <4> QED
        BY <2>2, <4>1 DEF WatchFits, Sighted
    <3>2. CASE q = p
      <4>1. \/ cache'[p].object = cache[p].object /\ cache[p] # None
            \/ cache'[p].object = objects'
        BY <1>1, <1>13 DEF Watch!Write, WatchTypes, Watch!Found
      <4> QED
        BY <2>2, <3>2, <4>1 DEF WatchFits, Sighted
    <3> QED
      BY <3>1, <3>2
  <2>5. \A q \in CachePaths : Sighted(told[q])' /\ Sighted(known[q])' /\ Sighted(unlinked[q])'
    BY <2>1, <2>2 DEF WatchFits, Sighted
  <2> QED
    BY <2>2, <2>4, <2>5 DEF WatchFits
<1> QED
  BY <1>3, <1>4, <1>5, <1>6, <1>7, <1>8, <1>10, <1>11, <1>12, <1>13, WatchFitsTells
     DEF Watch!Next, Watch!Timers

(* The types of the watcher.                                               *)
THEOREM WatcherIsTyped == ASSUME Watch!NoneIsNothing PROVE Watch!Spec => []Watch!TypeOK
<1>1. WatchTypes /\ WatchFits /\ SetsFit => Watch!TypeOK
  <2> SUFFICES ASSUME WatchTypes, WatchFits, SetsFit PROVE Watch!TypeOK
    OBVIOUS
  <2>1. \A p \in CachePaths : {heard[p], debounces[p]} \subseteq Looks \cup {None}
    BY DEF WatchTypes
  <2>2. \A p \in CachePaths : \A x \in {cache[p], told[p], known[p], unlinked[p]} :
          x # None => x.object \in 1..objects /\ x.look \in Looks
    BY DEF WatchTypes, WatchFits, Sighted, Watch!Found
  <2> QED
    BY <2>1, <2>2 DEF Watch!TypeOK, WatchTypes, SetsFit
<1>2. WatchInv => WatchTypes
  BY DEF WatchInv
<1> QED
  BY <1>1, <1>2, WatchInit, WatchNext, WatchFitsInit, WatchFitsNext, SetsNext, PTL DEF Watch!Spec

-----------------------------------------------------------------------------
(* The process.  Unless a stop threw, all that is up is the stop of a      *)
(* stage that is still in the list, a cleanup still in its list, or the    *)
(* listener; the list of stages is a beginning of the stages there are;    *)
(* and the cleanups are gone before the first stage is stopped.            *)

StageNames == {"secret-key", "database", "migrations", "logging", "config", "watchdog"}
LEMMA StageList ==
    /\ Len(Life!Stages) = 6
    /\ Life!Stages[2] = "database" /\ Life!Stages[4] = "logging"
    /\ Life!Stages[6] = "watchdog"
    /\ \A i \in 1..6 : /\ Life!Stages[i] \in StageNames
                       /\ Life!Stages[i] = "database" => i = 2
                       /\ Life!Stages[i] = "logging" => i = 4
                       /\ Life!Stages[i] = "watchdog" => i = 6
    /\ Life!ToSet(Life!Stages) = StageNames
<1>1. Len(Life!Stages) = 6 /\ DOMAIN Life!Stages = 1..6
  BY DEF Life!Stages
<1>2. /\ Life!Stages[1] = "secret-key" /\ Life!Stages[2] = "database"
      /\ Life!Stages[3] = "migrations" /\ Life!Stages[4] = "logging"
      /\ Life!Stages[5] = "config" /\ Life!Stages[6] = "watchdog"
  BY DEF Life!Stages
<1>3. \A i \in 1..6 : i = 1 \/ i = 2 \/ i = 3 \/ i = 4 \/ i = 5 \/ i = 6
  OBVIOUS
<1>4. 1 \in 1..6 /\ 2 \in 1..6 /\ 3 \in 1..6 /\ 4 \in 1..6 /\ 5 \in 1..6 /\ 6 \in 1..6
  OBVIOUS
<1> QED
  BY <1>1, <1>2, <1>3, <1>4 DEF StageNames, Life!ToSet

LEMMA WiringList ==
    /\ Len(Life!Wiring) = 11
    /\ \A i \in 1..11 : Life!Wiring[i] \in Life!Cleaned \cup {"firewall and certificate",
                                                             "listener", "samba"}
BY DEF Life!Wiring, Life!Cleaned

(* A sequence, and what is left of it without its last element.            *)
LEMMA Fronts ==
    ASSUME NEW S, NEW s \in Seq(S), s # <<>>
    PROVE  /\ Len(s) \in Nat \ {0}
           /\ Life!Front(s) \in Seq(S) /\ Len(Life!Front(s)) = Len(s) - 1
           /\ \A i \in 1..Len(s) - 1 : Life!Front(s)[i] = s[i]
           /\ Life!Last(s) = s[Len(s)]
           /\ Life!ToSet(s) \subseteq Life!ToSet(Life!Front(s)) \cup {Life!Last(s)}
           /\ Life!ToSet(Life!Front(s)) \subseteq Life!ToSet(s)
<1>1. Len(s) \in Nat \ {0}
  OBVIOUS
<1>2. /\ Life!Front(s) \in Seq(S) /\ Len(Life!Front(s)) = Len(s) - 1
      /\ \A i \in 1..Len(s) - 1 : Life!Front(s)[i] = s[i]
  <2> DEFINE front == Len(s) - 1
  <2>1. 1 \in Int /\ front \in Nat /\ \A i \in 1..front : s[i] \in S
    BY <1>1
  <2> HIDE DEF front
  <2>2. /\ SubSeq(s, 1, front) \in Seq(S)
        /\ Len(SubSeq(s, 1, front)) = IF 1 <= front THEN front - 1 + 1 ELSE 0
        /\ \A i \in 1..front - 1 + 1 : SubSeq(s, 1, front)[i] = s[1 + i - 1]
    BY <2>1, SubSeqProperties
  <2>3. Len(SubSeq(s, 1, front)) = front
    BY <2>1, <2>2
  <2>4. \A i \in 1..front : SubSeq(s, 1, front)[i] = s[i]
    <3>1. \A i \in 1..front : i \in 1..front - 1 + 1 /\ 1 + i - 1 = i
      BY <2>1
    <3> QED
      BY <2>2, <3>1
  <2>5. Life!Front(s) = SubSeq(s, 1, front)
    BY DEF Life!Front, front
  <2> QED
    BY <2>2, <2>3, <2>4, <2>5 DEF front
<1>3. Life!Last(s) = s[Len(s)]
  BY DEF Life!Last
<1>4. DOMAIN s = 1..Len(s) /\ DOMAIN Life!Front(s) = 1..Len(s) - 1
  BY <1>1, <1>2
<1>5. \A i \in 1..Len(s) : i \in 1..Len(s) - 1 \/ i = Len(s)
  BY <1>1
<1>6. \A i \in 1..Len(s) - 1 : i \in 1..Len(s)
  BY <1>1
<1>7. Life!ToSet(s) \subseteq Life!ToSet(Life!Front(s)) \cup {Life!Last(s)}
  BY <1>2, <1>3, <1>4, <1>5 DEF Life!ToSet
<1>8. Life!ToSet(Life!Front(s)) \subseteq Life!ToSet(s)
  BY <1>2, <1>4, <1>6 DEF Life!ToSet
<1> QED
  BY <1>1, <1>2, <1>3, <1>7, <1>8

LEMMA Appends ==
    ASSUME NEW S, NEW s \in Seq(S), NEW e \in S
    PROVE  /\ Append(s, e) \in Seq(S) /\ Len(Append(s, e)) = Len(s) + 1
           /\ \A i \in 1..Len(s) : Append(s, e)[i] = s[i]
           /\ Append(s, e)[Len(s) + 1] = e
           /\ Life!ToSet(Append(s, e)) = Life!ToSet(s) \cup {e}
<1>1. /\ Append(s, e) \in Seq(S) /\ Len(Append(s, e)) = Len(s) + 1
      /\ \A i \in 1..Len(s) : Append(s, e)[i] = s[i]
      /\ Append(s, e)[Len(s) + 1] = e
  OBVIOUS
<1>2. Len(s) \in Nat
  OBVIOUS
<1> QED
  BY <1>1, <1>2 DEF Life!ToSet

LEMMA Empties == <<>> \in Seq(StageNames) /\ Len(<<>>) = 0 /\ Life!ToSet(<<>>) = {}
BY DEF Life!ToSet

InOrder ==
    /\ stages \in Seq(StageNames) /\ Len(stages) <= 6
    /\ \A i \in 1..Len(stages) : stages[i] = Life!Stages[i]
Accounted ==
    \A x \in up : \/ x = "database" /\ Len(stages) >= 2
                  \/ x = "logging" /\ Len(stages) >= 4
                  \/ x = "watchdog" /\ Len(stages) >= 6
                  \/ x \in Life!ToSet(cleanups) \/ x = "listener"
Open == Len(stages) >= 2 => "database" \in up
Things == Life!Users \cup Life!Stopped \cup {"heartbeat"}

ProcessTypes ==
    /\ processPhase \in {"down", "boot", "wire", "running", "undo", "service", "failed"}
    /\ at \in 1..11 /\ (processPhase = "boot" => at <= 6)
    /\ ending \in {"none", "signal", "failed"}
    /\ up \subseteq Things /\ left \subseteq Things
    /\ cleanups \in Seq(Life!Cleaned)
    /\ troubles \in Nat
ProcessPhases ==
    /\ processPhase = "boot" => Len(stages) = at - 1 /\ cleanups = <<>>
    /\ processPhase \in {"wire", "running"} => Len(stages) = 6
    /\ processPhase \in {"undo", "service"} => ending \in {"signal", "failed"}
    /\ processPhase = "failed" => ending = "failed" /\ stages = <<>>
    /\ processPhase = "down" => stages = <<>> /\ cleanups = <<>> /\ up = {}
ProcessCalm ==
    /\ left = {}
    /\ processPhase # "down" => Accounted /\ Open
    /\ processPhase \in {"service", "failed"} => /\ cleanups = <<>>
                                                 /\ ending = "signal" => "listener" \notin up
ProcessInv == /\ ProcessTypes /\ InOrder /\ ProcessPhases
              /\ troubles = 0 => ProcessCalm

LEMMA ProcessInit == Life!Init => ProcessInv
<1> SUFFICES ASSUME Life!Init PROVE ProcessInv
  OBVIOUS
<1>1. ProcessTypes /\ ProcessPhases
  BY DEF Life!Init, ProcessTypes, ProcessPhases
<1>2. InOrder
  BY Empties DEF Life!Init, InOrder
<1> QED
  BY <1>1, <1>2 DEF Life!Init, ProcessInv, ProcessCalm

LEMMA ProcessNext == ProcessInv /\ [Life!Next]_(Life!lifecycleVars) => ProcessInv'
<1> SUFFICES ASSUME ProcessInv, [Life!Next]_(Life!lifecycleVars) PROVE ProcessInv'
  OBVIOUS
<1>0. ProcessTypes /\ InOrder /\ ProcessPhases /\ (troubles = 0 => ProcessCalm)
      /\ Len(stages) \in Nat /\ Len(cleanups) \in Nat
  BY DEF ProcessInv, InOrder, ProcessTypes
<1>1. CASE Life!Start
  BY <1>0, <1>1 DEF Life!Start, Life!world, ProcessInv, ProcessTypes, InOrder, ProcessPhases,
                    ProcessCalm, Accounted, Open
<1>2. CASE UNCHANGED Life!lifecycleVars
  BY <1>0, <1>2 DEF Life!lifecycleVars, ProcessInv, ProcessTypes, InOrder, ProcessPhases,
                    ProcessCalm, Accounted, Open
<1>3. ASSUME processPhase' = "down", up' = {}, stages' = <<>>, cleanups' = <<>>, UNCHANGED at,
             left' \subseteq Things, ending' \in {"none", "signal", "failed"},
             troubles' \in Nat, troubles' = 0 => left' = {}
      PROVE  ProcessInv'
  BY <1>0, <1>3, Empties DEF ProcessInv, ProcessTypes, InOrder, ProcessPhases, ProcessCalm
<1>4. CASE Life!Signal
  <2>1. CASE processPhase = "running"
    <3>1. /\ processPhase' = "undo" /\ ending' = "signal"
          /\ UNCHANGED <<up, stages, cleanups, at, left, troubles>>
      BY <1>4, <2>1 DEF Life!Signal
    <3> QED
      BY <1>0, <2>1, <3>1 DEF ProcessInv, ProcessTypes, InOrder, ProcessPhases,
                              ProcessCalm, Accounted, Open
  <2>2. CASE processPhase # "running" /\ ending = "signal"
    <3>1. UNCHANGED <<processPhase, ending, up, stages, cleanups, at, left, troubles>>
      BY <1>4, <2>2 DEF Life!Signal
    <3> QED
      BY <1>0, <3>1 DEF ProcessInv, ProcessTypes, InOrder, ProcessPhases,
                        ProcessCalm, Accounted, Open
  <2>3. CASE processPhase # "running" /\ ending # "signal"
    <3>1. /\ processPhase' = "down" /\ up' = {} /\ stages' = <<>> /\ cleanups' = <<>>
          /\ UNCHANGED <<ending, at, left, troubles>>
      BY <1>4, <2>3 DEF Life!Signal
    <3> QED
      BY <1>0, <1>3, <3>1 DEF ProcessTypes, ProcessCalm
  <2> QED
    BY <2>1, <2>2, <2>3
<1>5. CASE Life!Kill \/ Life!SystemdKills
  <2>1. /\ processPhase' = "down" /\ up' = {} /\ stages' = <<>> /\ cleanups' = <<>>
        /\ UNCHANGED <<ending, at, left, troubles>>
    BY <1>0, <1>5 DEF Life!Kill, Life!SystemdKills, Life!world, ProcessPhases
  <2> QED
    BY <1>0, <1>3, <2>1 DEF ProcessTypes, ProcessCalm
<1>6. CASE Life!StartStage
  <2>1. processPhase = "boot" /\ at \in 1..6 /\ UNCHANGED <<cleanups, left, troubles>>
    BY <1>0, <1>6 DEF Life!StartStage, ProcessTypes
  <2>2. CASE /\ up' = IF Life!Stages[at] \in Life!Stopped THEN up \cup {Life!Stages[at]} ELSE up
             /\ stages' = Append(stages, Life!Stages[at])
             /\ at' = IF at = 6 THEN 1 ELSE at + 1
             /\ processPhase' = IF at = 6 THEN "wire" ELSE "boot"
             /\ ending' = ending
    <3>1. Life!Stages[at] \in StageNames /\ Len(stages) = at - 1 /\ cleanups = <<>>
      BY <1>0, <2>1, StageList DEF ProcessPhases
    <3>2. /\ stages' \in Seq(StageNames) /\ Len(stages') = at
          /\ \A i \in 1..at - 1 : stages'[i] = stages[i]
          /\ stages'[at] = Life!Stages[at]
      <4>1. stages \in Seq(StageNames) /\ Len(stages) + 1 = at
        BY <1>0, <2>1, <3>1 DEF InOrder
      <4> QED
        BY <2>2, <3>1, <4>1, Appends
    <3>3. InOrder'
      BY <1>0, <2>1, <3>1, <3>2 DEF InOrder
    <3>4. ProcessTypes' /\ ProcessPhases'
      BY <1>0, <2>1, <2>2, <3>1, <3>2 DEF ProcessTypes, ProcessPhases, Things
    <3>5. ASSUME troubles = 0 PROVE ProcessCalm'
      <4>1. ProcessCalm /\ Accounted /\ Open
        BY <1>0, <2>1, <3>5 DEF ProcessCalm
      <4>2. Accounted'
        BY <1>0, <2>1, <2>2, <3>1, <3>2, <4>1, StageList DEF Accounted, Life!Stopped
      <4>3. Open'
        BY <1>0, <2>1, <2>2, <3>1, <3>2, <4>1, StageList DEF Open, Life!Stopped
      <4> QED
        BY <2>1, <2>2, <4>1, <4>2, <4>3 DEF ProcessCalm
    <3> QED
      BY <2>1, <3>3, <3>4, <3>5 DEF ProcessInv
  <2>3. CASE processPhase' = "service" /\ ending' = "failed" /\ UNCHANGED <<at, up, stages>>
    BY <1>0, <2>1, <2>3 DEF ProcessInv, ProcessTypes, InOrder, ProcessPhases,
                            ProcessCalm, Accounted, Open
  <2> QED
    BY <1>6, <2>2, <2>3, StageList DEF Life!StartStage
<1>7. CASE Life!Wire
  <2> DEFINE step == Life!Wiring[at]
             onward == /\ at' = IF at = 11 THEN 1 ELSE at + 1
                       /\ processPhase' = IF at = 11 THEN "running" ELSE "wire"
  <2>1. /\ processPhase = "wire" /\ at \in 1..11 /\ UNCHANGED <<stages, left, troubles>>
        /\ step \in Life!Cleaned \cup {"firewall and certificate", "listener", "samba"}
    BY <1>0, <1>7, WiringList DEF Life!Wire, ProcessTypes
  <2> HIDE DEF onward
  <2>0. onward => at' \in 1..11 /\ processPhase' \in {"wire", "running"}
    <3>1. at \in 1..11
      BY <2>1
    <3>2. (IF at = 11 THEN 1 ELSE at + 1) \in 1..11
      BY <3>1
    <3> QED
      BY <3>2 DEF onward
  <2>2. CASE /\ onward
             /\ up' = IF step \in Life!Users \cup {"heartbeat"} THEN up \cup {step} ELSE up
             /\ cleanups' = IF step \in Life!Cleaned THEN Append(cleanups, step) ELSE cleanups
             /\ ending' = ending
    <3>1. step \in Life!Users \cup {"heartbeat"} => step \in Life!Cleaned \cup {"listener"}
      BY DEF Life!Users, Life!Cleaned
    <3>2. /\ cleanups' \in Seq(Life!Cleaned)
          /\ Life!ToSet(cleanups) \subseteq Life!ToSet(cleanups')
          /\ step \in Life!Cleaned => step \in Life!ToSet(cleanups')
      BY <1>0, <2>2, Appends DEF ProcessTypes
    <3> HIDE DEF step
    <3>3. ProcessTypes' /\ ProcessPhases' /\ InOrder'
      <4>1. up' \subseteq Things
        BY <1>0, <2>1, <2>2 DEF ProcessTypes, Things
      <4> QED
        BY <1>0, <2>1, <2>2, <3>2, <4>1, <2>0 DEF ProcessTypes, ProcessPhases, InOrder
    <3>4. ASSUME troubles = 0 PROVE ProcessCalm'
      BY <1>0, <2>1, <2>2, <3>1, <3>2, <3>4, <2>0 DEF ProcessCalm, Accounted, Open
    <3> QED
      BY <2>1, <3>3, <3>4 DEF ProcessInv
  <2>3. CASE onward /\ UNCHANGED <<up, cleanups, ending>>
    <3> HIDE DEF step
    <3>1. ProcessTypes' /\ ProcessPhases' /\ InOrder'
      BY <1>0, <2>1, <2>3, <2>0 DEF ProcessTypes, ProcessPhases, InOrder
    <3>2. ASSUME troubles = 0 PROVE ProcessCalm'
      BY <1>0, <2>1, <2>3, <3>2, <2>0 DEF ProcessCalm, Accounted, Open
    <3> QED
      BY <2>1, <3>1, <3>2 DEF ProcessInv
  <2>4. CASE processPhase' = "undo" /\ ending' = "failed" /\ UNCHANGED <<at, up, cleanups>>
    BY <1>0, <2>1, <2>4 DEF ProcessInv, ProcessTypes, InOrder, ProcessPhases,
                            ProcessCalm, Accounted, Open
  <2> QED
    BY <1>7, <2>2, <2>3, <2>4, WiringList DEF Life!Wire, onward
<1>8. CASE Life!Undo
  <2>1. /\ processPhase = "undo" /\ cleanups # <<>> /\ UNCHANGED <<at, ending>>
        /\ cleanups \in Seq(Life!Cleaned)
    BY <1>0, <1>8 DEF Life!Undo, ProcessTypes
  <2>2. /\ Life!Front(cleanups) \in Seq(Life!Cleaned)
        /\ Life!ToSet(cleanups) \subseteq
             Life!ToSet(Life!Front(cleanups)) \cup {Life!Last(cleanups)}
        /\ Life!Last(cleanups) \in Life!Cleaned
    BY <2>1, Fronts
  <2>3. CASE /\ up' = up \ {Life!Last(cleanups)} /\ cleanups' = Life!Front(cleanups)
             /\ UNCHANGED <<processPhase, stages, left, troubles>>
    <3>1. ProcessTypes' /\ ProcessPhases' /\ InOrder'
      BY <1>0, <2>1, <2>2, <2>3 DEF ProcessTypes, ProcessPhases, InOrder
    <3>2. ASSUME troubles = 0 PROVE ProcessCalm'
      BY <1>0, <2>1, <2>2, <2>3, <3>2 DEF ProcessCalm, Accounted, Open, Life!Cleaned
    <3> QED
      BY <2>3, <3>1, <3>2 DEF ProcessInv
  <2>4. CASE troubles' = troubles + 1 /\ Life!Exit
    BY <1>0, <1>3, <2>1, <2>4 DEF Life!Exit, ProcessTypes
  <2>5. CASE /\ troubles' = troubles + 1 /\ cleanups' = Life!Front(cleanups)
             /\ processPhase' = "service" /\ UNCHANGED <<up, stages, left>>
    <3>1. ProcessTypes' /\ ProcessPhases' /\ InOrder'
      BY <1>0, <2>1, <2>2, <2>5 DEF ProcessTypes, ProcessPhases, InOrder
    <3> QED
      BY <1>0, <2>5, <3>1 DEF ProcessInv, ProcessTypes
  <2> QED
    BY <1>8, <2>3, <2>4, <2>5 DEF Life!Undo, Life!Trouble
<1>9. CASE Life!Undone
  <2>1. /\ processPhase = "undo" /\ cleanups = <<>> /\ processPhase' = "service"
        /\ up' = IF ending = "signal" THEN up \ {"listener"} ELSE up
        /\ UNCHANGED <<at, stages, cleanups, ending, left, troubles>>
    BY <1>9 DEF Life!Undone, Life!world
  <2> QED
    BY <1>0, <2>1 DEF ProcessInv, ProcessTypes, InOrder, ProcessPhases,
                      ProcessCalm, Accounted, Open
<1>10. CASE Life!StopStage
  <2> DEFINE n == Len(stages)
  <2>1. /\ processPhase = "service" /\ stages # <<>> /\ stages \in Seq(StageNames)
        /\ stages' = Life!Front(stages)
        /\ UNCHANGED <<processPhase, at, cleanups, ending, left>>
    BY <1>0, <1>10 DEF Life!StopStage, InOrder
  <2>2. /\ n \in 1..6 /\ stages' \in Seq(StageNames) /\ Len(stages') = n - 1
        /\ \A i \in 1..n - 1 : stages'[i] = stages[i]
        /\ Life!Last(stages) = Life!Stages[n]
    <3>1. n \in 1..6
      <4>1. n \in Nat \ {0}
        BY <2>1, Fronts
      <4>2. n <= 6
        BY <1>0 DEF InOrder
      <4> HIDE DEF n
      <4> QED
        BY <4>1, <4>2
    <3>2. /\ stages' \in Seq(StageNames) /\ Len(stages') = n - 1
          /\ \A i \in 1..n - 1 : stages'[i] = stages[i]
          /\ Life!Last(stages) = stages[n]
      BY <2>1, Fronts
    <3> QED
      BY <1>0, <3>1, <3>2 DEF InOrder
  <2> HIDE DEF n
  <2>3. InOrder'
    BY <1>0, <2>2 DEF InOrder, n
  <2>4. CASE up' = up \ {Life!Last(stages)} /\ troubles' = troubles
    <3>1. ProcessTypes' /\ ProcessPhases'
      BY <1>0, <2>1, <2>4 DEF ProcessTypes, ProcessPhases
    <3>2. ASSUME troubles = 0 PROVE ProcessCalm'
      <4>1. ProcessCalm /\ Accounted /\ Open /\ cleanups = <<>>
        BY <1>0, <2>1, <3>2 DEF ProcessCalm
      <4>2. Accounted'
        <5> SUFFICES ASSUME NEW x \in up'
                     PROVE  \/ x = "database" /\ n - 1 >= 2
                            \/ x = "logging" /\ n - 1 >= 4
                            \/ x = "watchdog" /\ n - 1 >= 6
                            \/ x = "listener"
          BY <2>2 DEF Accounted
        <5>1. x \in up /\ x # Life!Stages[n] /\ n \in 1..6
          BY <2>2, <2>4
        <5>2. \/ x = "database" /\ n >= 2
              \/ x = "logging" /\ n >= 4
              \/ x = "watchdog" /\ n >= 6
              \/ x = "listener"
          BY <4>1, <5>1, Empties DEF Accounted, n
        <5>3. (x = "database" => n # 2) /\ (x = "logging" => n # 4) /\ (x = "watchdog" => n # 6)
          BY <5>1, StageList
        <5> QED
          BY <5>1, <5>2, <5>3
      <4>3. Open'
        BY <2>1, <2>2, <2>4, <4>1, StageList DEF Open, n
      <4> QED
        BY <2>1, <2>4, <4>1, <4>2, <4>3 DEF ProcessCalm
    <3> QED
      BY <2>3, <2>4, <3>1, <3>2 DEF ProcessInv
  <2>5. CASE troubles' = troubles + 1 /\ up' = up
    <3>1. ProcessTypes' /\ ProcessPhases'
      BY <1>0, <2>1, <2>5 DEF ProcessTypes, ProcessPhases
    <3> QED
      BY <1>0, <2>3, <2>5, <3>1 DEF ProcessInv, ProcessTypes
  <2> QED
    BY <1>10, <2>4, <2>5 DEF Life!StopStage, Life!Trouble
<1>11. CASE Life!Ended
  <2>1. /\ processPhase = "service" /\ stages = <<>> /\ Len(stages) = 0
        /\ UNCHANGED <<at, ending, troubles>>
    BY <1>11, Empties DEF Life!Ended
  <2>2. CASE /\ ending = "failed" /\ "listener" \in up /\ processPhase' = "failed"
             /\ UNCHANGED <<up, stages, cleanups, left>>
    BY <1>0, <2>1, <2>2 DEF ProcessInv, ProcessTypes, InOrder, ProcessPhases,
                            ProcessCalm, Accounted, Open
  <2>3. CASE ~(ending = "failed" /\ "listener" \in up) /\ Life!Exit
    <3>1. ASSUME troubles = 0 PROVE up = {}
      <4>1. Accounted /\ cleanups = <<>> /\ (ending = "signal" => "listener" \notin up)
            /\ ending \in {"signal", "failed"}
        BY <1>0, <2>1, <3>1 DEF ProcessCalm, ProcessPhases
      <4> QED
        BY <2>1, <2>3, <4>1, Empties DEF Accounted
    <3> QED
      BY <1>0, <1>3, <2>1, <2>3, <3>1 DEF Life!Exit, ProcessTypes
  <2> QED
    BY <1>11, <2>2, <2>3 DEF Life!Ended
<1> QED
  BY <1>1, <1>2, <1>4, <1>5, <1>6, <1>7, <1>8, <1>9, <1>10, <1>11
     DEF Life!Next, Life!Process

(* The types of the process. *)
THEOREM ProcessIsTyped == Life!Spec => []Life!TypeOK
<1>1. ProcessInv => Life!TypeOK
  <2> SUFFICES ASSUME ProcessInv PROVE Life!TypeOK
    OBVIOUS
  <2>1. Life!ToSet(stages) \subseteq Life!ToSet(Life!Stages)
    BY StageList DEF ProcessInv, InOrder, Life!ToSet
  <2>2. Life!ToSet(cleanups) \subseteq Life!Cleaned
    BY DEF ProcessInv, ProcessTypes, Life!ToSet
  <2> QED
    BY <2>1, <2>2, WiringList DEF ProcessInv, ProcessTypes, Things, Life!TypeOK
<1> QED
  BY <1>1, ProcessInit, ProcessNext, PTL DEF Life!Spec

(* Whatever step of the start fails, whatever signal or kill comes when:   *)
(* whoever writes to the database has been stopped before it closes, and a *)
(* process that exits of itself has stopped all it started, unless a stop  *)
(* threw (and but for the listener of a start that failed).                *)
THEOREM ProcessEndsInOrder == Life!Spec => []Life!EndsInOrder
<1>1. ProcessInv => Life!EndsInOrder
  <2> SUFFICES ASSUME ProcessInv PROVE Life!EndsInOrder
    OBVIOUS
  <2>1. troubles \in Nat /\ (troubles = 0 => ProcessCalm) /\ ProcessPhases
        /\ Len(stages) \in Nat
    BY DEF ProcessInv, ProcessTypes, InOrder
  <2>2. Life!DatabaseClosesLast
    <3> SUFFICES ASSUME processPhase \in {"service", "failed"}, "database" \notin up,
                        NEW u \in up \cap (Life!Users \cup {"logging"}), troubles = 0
                 PROVE  ending = "failed" /\ u = "listener"
      BY <2>1 DEF Life!DatabaseClosesLast
    <3>1. /\ Accounted /\ Open /\ cleanups = <<>>
          /\ ending = "signal" => "listener" \notin up
          /\ ending \in {"signal", "failed"}
      BY <2>1 DEF ProcessCalm, ProcessPhases
    <3>2. u # "database" /\ u # "watchdog"
      BY DEF Life!Users, Life!Cleaned
    <3> QED
      BY <2>1, <3>1, <3>2, Empties DEF Accounted, Open
  <2>3. Life!ExitsClean
    BY <2>1 DEF Life!ExitsClean, ProcessCalm
  <2> QED
    BY <2>2, <2>3 DEF Life!EndsInOrder
<1> QED
  BY <1>1, ProcessInit, ProcessNext, PTL DEF Life!Spec
-----------------------------------------------------------------------------
(* What the run checks.  A step of the whole is one of the part that moves, *)
(* and leaves the others as they were.                                     *)

LEMMA ProcessMoves == [MCNext]_mcvars => [Life!Next]_(Life!lifecycleVars)
BY DEF MCNext, mcvars, lifecycleVars, Life!lifecycleVars

(* However the process started and whatever it was told, it closes its     *)
(* database last, and exits in the order it came up, beside the others.    *)
THEOREM ProcessStaysInOrder == MCSpec => []EndsInOrder
<1>1. MCInit => Life!Init
  BY DEF MCInit
<1>2. MCSpec => Life!Spec
  BY <1>1, ProcessMoves, PTL DEF MCSpec, Life!Spec
<1>3. Life!EndsInOrder => EndsInOrder
  BY DEF EndsInOrder
<1> QED
  BY <1>2, <1>3, ProcessEndsInOrder, PTL

LEMMA ScannerMoves == [MCNext]_mcvars => [Scan!Next]_(Scan!scannerVars)
BY DEF MCNext, mcvars, scannerVars, Scan!scannerVars

LEMMA WatcherMoves == [MCNext]_mcvars => [Watch!Next]_(Watch!watcherVars)
BY DEF MCNext, mcvars, watcherVars, Watch!watcherVars

LEMMA StreamMoves == [MCNext]_mcvars => [Bus!Next]_(Bus!vars)
BY DEF MCNext, mcvars, streamVars, Bus!vars, Bus!bus, Bus!bounds

LEMMA LogMoves == [MCNext]_mcvars => [Log!Next]_(Log!logVars)
BY DEF MCNext, mcvars, logVars, Log!logVars

LEMMA MonitorMoves ==
    [MCNext]_mcvars => [Mon!SamplerNext \/ Mon!WatchdogNext]_(Mon!monitorVars)
BY DEF MCNext, mcvars, monitorVars, Mon!monitorVars, Mon!samplerVars, Mon!watchdogVars

(* Whoever listens is told, for any number of files, pages, events, lines, *)
(* samples and failures: the index of the scanner, the files of the cache, *)
(* the table a page lists, the lines that were logged, and how the machine *)
(* goes.                                                                   *)
THEOREM AllAreTold == MCSpec => []ListenersAreTold
<1>1. MCInit => Scan!Init /\ Watch!Init /\ Bus!Init /\ Log!Init /\ Mon!MonitorInit
  BY DEF MCInit
<1>2. MCSpec => Scan!Spec
  BY <1>1, ScannerMoves, PTL DEF MCSpec, Scan!Spec
<1>3. MCSpec => Watch!Spec
  BY <1>1, WatcherMoves, PTL DEF MCSpec, Watch!Spec
<1>4. MCSpec => Bus!Init /\ [][Bus!Next]_(Bus!vars)
  BY <1>1, StreamMoves, PTL DEF MCSpec
<1>5. MCSpec => Log!Spec
  BY <1>1, LogMoves, PTL DEF MCSpec, Log!Spec
<1>6. MCSpec => Mon!MonitorSpec
  BY <1>1, MonitorMoves, PTL DEF MCSpec, Mon!MonitorSpec
<1>7. MCSpec => []Scan!ListenersKnowTheIndex
  BY <1>2, ListenersAgree, TreeAssumption
<1>8. MCSpec => []Watch!ListenerIsToldAll
  BY <1>3, ListenersHearAll, LooksAssumption
<1>9. MCSpec => [](Bus!ResumesWithoutAGap /\ Bus!QuietPageIsCurrent /\ Bus!StreamTypeOK)
  BY <1>4, StreamsResume, BoundsAssumption
<1>10. MCSpec => [](Log!LogsAreKept /\ Log!LoggingTypeOK)
  BY <1>5, LogsHold, BoundsAssumption
<1>11. MCSpec => [](Mon!MonitorIsRight /\ Mon!MonitorTypeOK)
  BY <1>6, MonitorHolds, BoundsAssumption
<1>12. /\ Scan!ListenersKnowTheIndex /\ Watch!ListenerIsToldAll
       /\ Bus!ResumesWithoutAGap /\ Bus!QuietPageIsCurrent /\ Bus!StreamTypeOK
       /\ Log!LogsAreKept /\ Log!LoggingTypeOK
       /\ Mon!MonitorIsRight /\ Mon!MonitorTypeOK
       => ListenersAreTold
  BY DEF ListenersAreTold
<1> QED
  BY <1>7, <1>8, <1>9, <1>10, <1>11, <1>12, PTL

(* The types of all of them. *)
THEOREM TypesHold == MCSpec => []Types
<1>1. MCInit => Scan!Init /\ Watch!Init /\ Life!Init /\ Bus!Init /\ Log!Init /\ Mon!MonitorInit
  BY DEF MCInit
<1>2. MCSpec => Scan!Spec /\ Watch!Spec
  BY <1>1, ScannerMoves, WatcherMoves, PTL DEF MCSpec, Scan!Spec, Watch!Spec
<1>3. MCSpec => Life!Spec
  BY <1>1, ProcessMoves, PTL DEF MCSpec, Life!Spec
<1>4. MCSpec => Bus!Init /\ [][Bus!Next]_(Bus!vars)
  BY <1>1, StreamMoves, PTL DEF MCSpec
<1>5. MCSpec => Log!Spec /\ Mon!MonitorSpec
  BY <1>1, LogMoves, MonitorMoves, PTL DEF MCSpec, Log!Spec, Mon!MonitorSpec
<1>6. MCSpec => []Scan!TypeOK /\ []Watch!TypeOK
  BY <1>2, ScannerIsTyped, WatcherIsTyped, TreeAssumption, LooksAssumption
<1>7. MCSpec => []Life!TypeOK
  BY <1>3, ProcessIsTyped
<1>8. MCSpec => [](Bus!ResumesWithoutAGap /\ Bus!QuietPageIsCurrent /\ Bus!StreamTypeOK)
  BY <1>4, StreamsResume, BoundsAssumption
<1>9. MCSpec => [](Log!LogsAreKept /\ Log!LoggingTypeOK)
  BY <1>5, LogsHold, BoundsAssumption
<1>10. MCSpec => [](Mon!MonitorIsRight /\ Mon!MonitorTypeOK)
  BY <1>5, MonitorHolds, BoundsAssumption
<1>11. /\ Scan!TypeOK /\ Watch!TypeOK /\ Life!TypeOK
       /\ Bus!ResumesWithoutAGap /\ Bus!QuietPageIsCurrent /\ Bus!StreamTypeOK
       /\ Log!LogsAreKept /\ Log!LoggingTypeOK
       /\ Mon!MonitorIsRight /\ Mon!MonitorTypeOK
       => Types
  BY DEF Types
<1> QED
  BY <1>6, <1>7, <1>8, <1>9, <1>10, <1>11, PTL
=============================================================================
