--------------------- MODULE LinkedBlockingQueueProofs ---------------------
(***************************************************************************)
(* Proofs about LinkedBlockingQueue for every number of threads, entries   *)
(* and every bound.  The inductive invariant is the type invariant with    *)
(* the layout of the memory: some sequence s is what head, flink and tail  *)
(* link, and some sequence f[t] is what each thread t still has to free.   *)
(* There is one such sequence only, so it is what Chain finds, and each    *)
(* step on the pointers is the step of BoundedFifo on the sequence.        *)
(***************************************************************************)
EXTENDS LinkedBlockingQueue, SequenceTheorems, WellFoundedInduction, TLAPS

Lists == [Threads -> Seq(Entries)]
Bounded(f) == \A t \in Threads : Len(f[t]) <= SizeBound
WellLaidOut == \E s \in Seq(Entries), f \in Lists : Layout(s, f) /\ Bounded(f)
LbqInv == TypeOK /\ WellLaidOut

-----------------------------------------------------------------------------
\* What SMT needs to know of the two sequence operators.
LEMMA AppendFacts ==
  ASSUME NEW s \in Seq(Entries), NEW e \in Entries
  PROVE  /\ Append(s, e) \in Seq(Entries) /\ Append(s, e) # <<>>
         /\ Len(Append(s, e)) = Len(s) + 1
         /\ \A i \in 1 .. Len(s) : Append(s, e)[i] = s[i]
         /\ Append(s, e)[Len(s) + 1] = e
OBVIOUS

LEMMA TailFacts ==
  ASSUME NEW s \in Seq(Entries), s # <<>>
  PROVE  /\ Tail(s) \in Seq(Entries)
         /\ Len(s) \in Nat \ {0}
         /\ Len(Tail(s)) = Len(s) - 1
         /\ \A i \in 1 .. Len(s) - 1 : Tail(s)[i] = s[i + 1]
         /\ Tail(s) = <<>> <=> Len(s) = 1
<1>1. /\ Tail(s) \in Seq(Entries)
      /\ Len(s) \in Nat \ {0}
      /\ Len(Tail(s)) = Len(s) - 1
      /\ \A i \in 1 .. Len(s) - 1 : Tail(s)[i] = s[i + 1]
  BY HeadTailProperties, EmptySeq
<1>2. Tail(s) = <<>> <=> Len(Tail(s)) = 0
  BY <1>1, EmptySeq
<1> QED BY <1>1, <1>2

LEMMA ItemsFacts ==
  ASSUME NEW s \in Seq(Entries)
  PROVE  /\ ItemsOf(s) = {s[i] : i \in 1 .. Len(s)}
         /\ Len(s) \in Nat
         /\ s = <<>> <=> Len(s) = 0
         /\ \A i \in 1 .. Len(s) : s[i] \in Entries
BY DEF ItemsOf

\* The first entry leaves, the rest is linked from where its flink points.
LEMMA LinkedTail ==
  ASSUME NEW p, NEW s \in Seq(Entries), Linked(p, s), s # <<>>
  PROVE  /\ p = s[1]
         /\ Linked(flink[p], Tail(s))
         /\ ItemsOf(s) = ItemsOf(Tail(s)) \union {p}
         /\ NoRepeats(s) => NoRepeats(Tail(s)) /\ p \notin ItemsOf(Tail(s))
<1> DEFINE r == Tail(s)
           n == Len(s) - 1
<1>0. /\ r \in Seq(Entries) /\ Len(r) = n /\ n \in Nat /\ Len(s) = n + 1
      /\ \A i \in 1 .. n : r[i] = s[i + 1]
      /\ r = <<>> <=> n = 0
  BY TailFacts
<1> HIDE DEF r, n
<1>1. /\ p = s[1] /\ flink[s[n + 1]] = NULL
      /\ \A i \in 1 .. n : flink[s[i]] = s[i + 1]
  BY <1>0 DEF Linked
<1>2. Linked(flink[p], r)
  <2>1. CASE n = 0 BY <2>1, <1>0, <1>1 DEF Linked
  <2>2. CASE n # 0 
    <3>1. 1 \in 1 .. n /\ n \in 1 .. n BY <2>2, <1>0
    <3>2. flink[p] = r[1] /\ flink[r[n]] = NULL BY <3>1, <1>0, <1>1
    <3>3. \A i \in 1 .. n - 1 : flink[r[i]] = r[i + 1]
      <4> TAKE i \in 1 .. n - 1
      <4>1. i \in 1 .. n /\ i + 1 \in 1 .. n BY <1>0
      <4> QED BY <4>1, <1>0, <1>1
    <3> QED BY <3>2, <3>3, <1>0, <2>2 DEF Linked
  <2> QED BY <2>1, <2>2
<1>3. ItemsOf(s) = {s[i] : i \in 1 .. n + 1} /\ ItemsOf(r) = {r[i] : i \in 1 .. n}
  BY <1>0, ItemsFacts
<1>4. ItemsOf(s) = ItemsOf(r) \union {p}
  <2>1. \A i \in 1 .. n + 1 : i = 1 \/ (i - 1 \in 1 .. n /\ s[i] = r[i - 1])
    BY <1>0
  <2>2. \A i \in 1 .. n : i + 1 \in 1 .. n + 1 /\ r[i] = s[i + 1]
    BY <1>0
  <2>3. 1 \in 1 .. n + 1 BY <1>0
  <2> QED BY <1>1, <1>3, <2>1, <2>2, <2>3
<1>5. ASSUME NoRepeats(s) PROVE NoRepeats(r) /\ p \notin ItemsOf(r)
  <2>1. \A i \in 1 .. n : i + 1 \in 1 .. n + 1 /\ i + 1 # 1 /\ r[i] = s[i + 1]
    BY <1>0
  <2>2. 1 \in 1 .. n + 1 BY <1>0
  <2>3. NoRepeats(r) BY <1>5, <2>1, <1>0 DEF NoRepeats
  <2>4. \A i \in 1 .. n : r[i] # s[1] BY <1>5, <2>1, <2>2, <1>0 DEF NoRepeats
  <2> QED BY <2>3, <2>4, <1>1, <1>3
<1> QED BY <1>1, <1>2, <1>4, <1>5 DEF r

\* Writing the flink of an entry that is not in the list does not matter.
LEMMA LinkedFrame ==
  ASSUME TypeOK, NEW p, NEW s \in Seq(Entries), Linked(p, s), NEW e \in Entries,
         e \notin ItemsOf(s), flink' = [flink EXCEPT ![e] = NULL] \/ flink' = flink
  PROVE  Linked(p, s)'
<1>1. \A i \in 1 .. Len(s) : s[i] \in Entries /\ s[i] # e
  BY ItemsFacts
<1>2. \A i \in 1 .. Len(s) : flink'[s[i]] = flink[s[i]]
  BY <1>1 DEF TypeOK
<1>3. CASE s = <<>> BY <1>3 DEF Linked
<1>4. CASE s # <<>>
  <2>1. Len(s) \in Nat \ {0} BY <1>4, ItemsFacts
  <2>2. Len(s) \in 1 .. Len(s) /\ \A i \in 1 .. Len(s) - 1 : i \in 1 .. Len(s)
    BY <2>1
  <2> QED BY <1>2, <1>4, <2>2 DEF Linked
<1> QED BY <1>3, <1>4

LEMMA LinkedAppend ==
  ASSUME TypeOK, NEW s \in Seq(Entries), Linked(head, s), NEW e \in Entries,
         e \notin ItemsOf(s), NoRepeats(s),
         tail = IF s = <<>> THEN NULL ELSE s[Len(s)],
         flink' = IF IsEmpty THEN ResetFlink(e) ELSE [ResetFlink(e) EXCEPT ![tail] = e],
         head' = IF IsEmpty THEN e ELSE head
  PROVE  /\ Linked(head, Append(s, e))'
         /\ NoRepeats(Append(s, e))
         /\ ItemsOf(Append(s, e)) = ItemsOf(s) \union {e}
<1> DEFINE r == Append(s, e)
           n == Len(s)
<1>0. /\ r \in Seq(Entries) /\ r # <<>> /\ Len(r) = n + 1 /\ n \in Nat
      /\ \A i \in 1 .. n : r[i] = s[i] /\ s[i] \in Entries /\ s[i] # e
      /\ r[n + 1] = e /\ (s = <<>> <=> n = 0)
  BY AppendFacts, ItemsFacts
<1>1. ItemsOf(r) = {r[i] : i \in 1 .. n + 1} /\ ItemsOf(s) = {s[i] : i \in 1 .. n}
  BY <1>0, ItemsFacts
<1>2. IsEmpty <=> n = 0
  <2>1. CASE n = 0 BY <2>1, <1>0 DEF Linked, IsEmpty
  <2>2. CASE n # 0
    <3>1. 1 \in 1 .. n BY <2>2, <1>0
    <3> QED BY <2>2, <3>1, <1>0, LbqAssumption DEF Linked, IsEmpty
  <2> QED BY <2>1, <2>2
<1> HIDE DEF r, n
<1>3. Linked(head, r)'
  <2>1. CASE n = 0
    BY <2>1, <1>0, <1>2 DEF Linked, ResetFlink, TypeOK
  <2>2. CASE n # 0
    <3>1. 1 \in 1 .. n /\ n \in 1 .. n BY <2>2, <1>0
    <3>2. tail = s[n] /\ tail \in Entries /\ tail # e BY <3>1, <1>0, <2>2 DEF n
    <3>3. flink' = [[flink EXCEPT ![e] = NULL] EXCEPT ![tail] = e]
      BY <1>2, <2>2 DEF ResetFlink
    <3>4. flink'[e] = NULL /\ flink'[tail] = e
      BY <3>2, <3>3 DEF TypeOK
    <3>5. head' = r[1]
      BY <1>2, <1>0, <2>2, <3>1 DEF Linked
    <3>6. \A i \in 1 .. n - 1 : flink'[s[i]] = s[i + 1]
      <4> TAKE i \in 1 .. n - 1
      <4>1. i \in 1 .. n /\ i + 1 \in 1 .. n /\ i # n BY <1>0
      <4>2. s[i] # tail BY <4>1, <3>1, <3>2 DEF NoRepeats, n
      <4>3. flink[s[i]] = s[i + 1] BY <1>0, <2>2 DEF Linked, n
      <4> QED BY <4>1, <4>2, <4>3, <3>3, <1>0 DEF TypeOK
    <3>7. \A i \in 1 .. n : flink'[r[i]] = r[i + 1]
      <4> TAKE i \in 1 .. n
      <4>1. CASE i = n BY <4>1, <3>1, <3>2, <3>4, <1>0
      <4>2. CASE i # n
        <5>1. i \in 1 .. n - 1 /\ i + 1 \in 1 .. n BY <4>2, <1>0
        <5> QED BY <5>1, <3>6, <1>0
      <4> QED BY <4>1, <4>2
    <3> QED BY <3>4, <3>5, <3>7, <1>0 DEF Linked
  <2> QED BY <2>1, <2>2
<1>4. NoRepeats(r)
  BY <1>0 DEF NoRepeats, n
<1>5. ItemsOf(r) = ItemsOf(s) \union {e}
  <2>1. \A i \in 1 .. n + 1 : i = n + 1 \/ i \in 1 .. n BY <1>0
  <2>2. n + 1 \in 1 .. n + 1 /\ \A i \in 1 .. n : i \in 1 .. n + 1 BY <1>0
  <2> QED BY <1>0, <1>1, <2>1, <2>2
<1> QED BY <1>3, <1>4, <1>5 DEF r

-----------------------------------------------------------------------------
\* One lemma for each way a step changes the layout.

LEMMA LayoutUnchanged ==
  ASSUME NEW s \in Seq(Entries), NEW f \in Lists, Layout(s, f),
         UNCHANGED <<head, tail, flink, currentSize, alive, allocated, held, list>>
  PROVE  Layout(s, f)'
BY DEF Layout, Linked

LEMMA LayoutRefused ==
  ASSUME TypeOK, NEW s \in Seq(Entries), NEW f \in Lists, Layout(s, f),
         NEW e \in Entries, e \notin allocated, flink' = ResetFlink(e),
         UNCHANGED <<head, tail, currentSize, alive, allocated, held, list>>
  PROVE  Layout(s, f)'
<1>1. flink' = [flink EXCEPT ![e] = NULL] BY DEF ResetFlink
<1>2. e \notin ItemsOf(s) /\ \A t \in Threads : e \notin ItemsOf(f[t]) BY DEF Layout
<1>3. alive => Linked(head, s)'
  <2> SUFFICES ASSUME alive PROVE Linked(head, s)' OBVIOUS
  <2>1. Linked(head, s) BY DEF Layout
  <2>2. \A p : Linked(p, s) => Linked(p, s)' BY <1>1, <1>2, LinkedFrame
  <2> QED BY <2>1, <2>2 DEF Linked
<1>4. \A t \in Threads : Linked(list[t], f[t])'
  <2> TAKE t \in Threads
  <2>1. f[t] \in Seq(Entries) /\ Linked(list[t], f[t]) BY DEF Layout, Lists
  <2>2. \A p : Linked(p, f[t]) => Linked(p, f[t])' BY <1>1, <1>2, <2>1, LinkedFrame
  <2> QED BY <2>1, <2>2 DEF Linked
<1> QED BY <1>3, <1>4 DEF Layout

LEMMA LayoutFreeHeld ==
  ASSUME NEW s \in Seq(Entries), NEW f \in Lists, Layout(s, f),
         NEW e \in Entries, FreeHeld(e)
  PROVE  Layout(s, f)'
<1>1. /\ UNCHANGED <<head, tail, flink, currentSize, alive, list>>
      /\ held' = held \ {e} /\ allocated' = allocated \ {e} /\ e \in held
  BY DEF FreeHeld, queue, flags
<1>2. e \notin ItemsOf(s) /\ \A t \in Threads : e \notin ItemsOf(f[t]) BY <1>1 DEF Layout
<1>3. (alive => Linked(head, s)') /\ \A t \in Threads : Linked(list[t], f[t])'
  BY <1>1 DEF Layout, Linked
<1>4. allocated' = held' \union ItemsOf(s) \union UNION {ItemsOf(f[t]) : t \in Threads}
  BY <1>1, <1>2 DEF Layout
<1> QED BY <1>1, <1>3, <1>4 DEF Layout

LEMMA LayoutAccepted ==
  ASSUME TypeOK, NEW s \in Seq(Entries), NEW f \in Lists, Layout(s, f),
         NEW e \in Entries, e \notin allocated, alive,
         head' = IF IsEmpty THEN e ELSE head,
         flink' = IF IsEmpty THEN ResetFlink(e) ELSE [ResetFlink(e) EXCEPT ![tail] = e],
         tail' = e, currentSize' = currentSize + 1,
         allocated' = allocated \union {e},
         UNCHANGED <<alive, held, list>>
  PROVE  Layout(Append(s, e), f)'
<1>1. e \notin ItemsOf(s) /\ e \notin held /\ \A t \in Threads : e \notin ItemsOf(f[t])
  BY DEF Layout
<1>2. /\ Linked(head, Append(s, e))' /\ NoRepeats(Append(s, e))
      /\ ItemsOf(Append(s, e)) = ItemsOf(s) \union {e}
  BY <1>1, LinkedAppend DEF Layout
<1>3. /\ Len(Append(s, e)) = currentSize' 
      /\ tail' = Append(s, e)[Len(Append(s, e))] /\ Append(s, e) # <<>>
  BY AppendFacts DEF Layout
<1>4. \A t \in Threads : Linked(list[t], f[t])'
  <2> TAKE t \in Threads
  <2>1. f[t] \in Seq(Entries) /\ Linked(list[t], f[t]) /\ e \notin ItemsOf(f[t]) /\ Apart(s, f[t])
    BY <1>1 DEF Layout, Lists
  <2>2. CASE f[t] = <<>> BY <2>1, <2>2 DEF Linked
  <2>3. CASE f[t] # <<>>
    <3>1. \A i \in 1 .. Len(f[t]) : f[t][i] \in Entries /\ f[t][i] \in ItemsOf(f[t])
      BY <2>1, ItemsFacts
    <3>2. tail = NULL \/ tail \in ItemsOf(s)
      BY ItemsFacts DEF Layout
    <3>3. \A i \in 1 .. Len(f[t]) : f[t][i] # tail /\ f[t][i] # e
      BY <3>1, <3>2, <2>1, LbqAssumption DEF Apart
    <3>4. \A i \in 1 .. Len(f[t]) : flink'[f[t][i]] = flink[f[t][i]]
      BY <3>1, <3>3 DEF TypeOK, ResetFlink
    <3>5. Len(f[t]) \in 1 .. Len(f[t]) /\ \A i \in 1 .. Len(f[t]) - 1 : i \in 1 .. Len(f[t])
      BY <2>1, <2>3, ItemsFacts
    <3> QED BY <2>1, <2>3, <3>4, <3>5 DEF Linked
  <2> QED BY <2>2, <2>3
<1>5. \A t \in Threads : Apart(Append(s, e), f[t])
  BY <1>1, <1>2 DEF Layout, Apart
<1>6. allocated' = held' \union ItemsOf(Append(s, e)) \union UNION {ItemsOf(f[t]) : t \in Threads}
  BY <1>2 DEF Layout
<1> QED BY <1>1, <1>2, <1>3, <1>4, <1>5, <1>6 DEF Layout

\* A linked entry exists exactly when the queue is not empty.
LEMMA HeadOfLayout ==
  ASSUME NEW s \in Seq(Entries), NEW f \in Lists, Layout(s, f), alive, ~IsEmpty
  PROVE  /\ s # <<>> /\ head \in ItemsOf(s) /\ head \in Entries
         /\ currentSize \in Nat \ {0}
<1>1. s # <<>> BY DEF Layout, Linked, IsEmpty
<1>2. Len(s) \in Nat \ {0} /\ 1 \in 1 .. Len(s) /\ head = s[1]
  BY <1>1, ItemsFacts DEF Layout, Linked
<1> QED BY <1>1, <1>2, ItemsFacts DEF Layout

LEMMA LayoutUnlink ==
  ASSUME TypeOK, NEW s \in Seq(Entries), NEW f \in Lists, Layout(s, f), alive, ~IsEmpty,
         Unlink, UNCHANGED alive
  PROVE  Layout(Tail(s), f)'
<1>1. /\ head' = flink[head] /\ currentSize' = currentSize - 1
      /\ tail' = IF flink[head] = NULL THEN NULL ELSE tail
      /\ held' = held \union {head} /\ UNCHANGED <<flink, allocated, list, alive>>
  BY DEF Unlink
<1>2. s # <<>> /\ head \in ItemsOf(s) BY HeadOfLayout
<1>3. /\ Linked(flink[head], Tail(s)) /\ NoRepeats(Tail(s)) /\ head \notin ItemsOf(Tail(s))
      /\ ItemsOf(s) = ItemsOf(Tail(s)) \union {head}
  BY <1>2, LinkedTail DEF Layout
<1>4. Linked(head, Tail(s))' /\ \A t \in Threads : Linked(list[t], f[t])'
  BY <1>1, <1>3 DEF Linked, Layout
<1>5. Len(Tail(s)) = currentSize' BY <1>1, <1>2, TailFacts DEF Layout
<1>6. tail' = IF Tail(s) = <<>> THEN NULL ELSE Tail(s)[Len(Tail(s))]
  <2>1. CASE Tail(s) = <<>> BY <2>1, <1>1, <1>3 DEF Linked
  <2>2. CASE Tail(s) # <<>>
    <3> DEFINE n == Len(s) - 1
    <3>1. n \in 1 .. n /\ Len(s) = n + 1 /\ Len(Tail(s)) = n BY <2>2, <1>2, TailFacts
    <3>2. Tail(s)[n] = s[n + 1] BY <3>1, <1>2, TailFacts
    <3>3. flink[head] = Tail(s)[1] /\ 1 \in 1 .. Len(Tail(s)) BY <2>2, <3>1, <1>3 DEF Linked
    <3>4. flink[head] # NULL
      <4>1. Tail(s) \in Seq(Entries) BY <1>2, TailFacts
      <4> QED BY <3>3, <4>1, ItemsFacts, LbqAssumption
    <3> QED BY <1>1, <3>1, <3>2, <3>4, <2>2, <1>2 DEF Layout
  <2> QED BY <2>1, <2>2
<1>7. ItemsOf(Tail(s)) \intersect held' = {} BY <1>1, <1>3 DEF Layout
<1>8. \A t \in Threads : ItemsOf(f[t]) \intersect held' = {} /\ Apart(Tail(s), f[t])
  BY <1>1, <1>2, <1>3 DEF Layout, Apart
<1>9. allocated' = held' \union ItemsOf(Tail(s)) \union UNION {ItemsOf(f[t]) : t \in Threads}
  BY <1>1, <1>3 DEF Layout
<1> QED BY <1>1, <1>3, <1>4, <1>5, <1>6, <1>7, <1>8, <1>9 DEF Layout

\* A flush or a destroy hands the whole list to thread t.
LEMMA LayoutTakeAll ==
  ASSUME NEW s \in Seq(Entries), NEW f \in Lists, Layout(s, f), alive,
         NEW t \in Threads, list[t] = NULL, TypeOK,
         list' = [list EXCEPT ![t] = head],
         \/ alive' = FALSE
         \/ /\ alive' = TRUE /\ head' = NULL
            /\ tail' = (IF IsEmpty THEN tail ELSE NULL)
            /\ currentSize' = (IF IsEmpty THEN currentSize ELSE 0),
         UNCHANGED <<flink, allocated, held>>
  PROVE  Layout(<<>>, [f EXCEPT ![t] = s])'
<1> DEFINE g == [f EXCEPT ![t] = s]
<1>0. /\ f[t] = <<>> /\ g[t] = s /\ \A u \in Threads \ {t} : g[u] = f[u] /\ f[u] \in Seq(Entries)
      /\ ItemsOf(<<>>) = {}
  <2>1. f[t] \in Seq(Entries) /\ Linked(list[t], f[t]) BY DEF Layout, Lists
  <2>2. f[t] = <<>>
    <3> SUFFICES ASSUME f[t] # <<>> PROVE FALSE OBVIOUS
    <3>1. 1 \in 1 .. Len(f[t]) BY <2>1, ItemsFacts
    <3> QED BY <2>1, <3>1, ItemsFacts, LbqAssumption DEF Linked
  <2> QED BY <2>2 DEF Lists, ItemsOf
<1> HIDE DEF g
<1>1. Linked(head, s) BY DEF Layout
<1>2. \A u \in Threads : Linked(list[u], g[u])'
  <2> TAKE u \in Threads
  <2>1. CASE u = t BY <2>1, <1>0, <1>1 DEF Linked, TypeOK
  <2>2. CASE u # t
    <3>1. Linked(list[u], f[u]) /\ g[u] = f[u] /\ list'[u] = list[u]
      BY <2>2, <1>0 DEF Layout, TypeOK
    <3> QED BY <3>1 DEF Linked
  <2> QED BY <2>1, <2>2
<1>3. alive' => /\ Linked(head, <<>>)' /\ currentSize' = 0 /\ tail' = NULL
  <2> SUFFICES ASSUME alive' PROVE Linked(head, <<>>)' /\ currentSize' = 0 /\ tail' = NULL
    OBVIOUS
  <2>1. CASE IsEmpty
    <3>1. s = <<>>
      <4> SUFFICES ASSUME s # <<>> PROVE FALSE OBVIOUS
      <4>1. 1 \in 1 .. Len(s) BY ItemsFacts
      <4> QED BY <2>1, <1>1, <4>1, ItemsFacts, LbqAssumption DEF Linked, IsEmpty
    <3> QED BY <2>1, <3>1 DEF Layout, Linked, IsEmpty
  <2>2. CASE ~IsEmpty BY <2>2 DEF Linked
  <2> QED BY <2>1, <2>2
<1>4. \A u \in Threads : /\ NoRepeats(g[u]) /\ Apart(<<>>, g[u])
                         /\ ItemsOf(g[u]) \intersect held = {}
  BY <1>0 DEF Layout, Apart
<1>5. \A u \in Threads : \A v \in Threads \ {u} : Apart(g[u], g[v])
  BY <1>0 DEF Layout, Apart
<1>6. UNION {ItemsOf(g[u]) : u \in Threads} = ItemsOf(s) \union UNION {ItemsOf(f[u]) : u \in Threads}
  <2>1. \A u \in Threads : ItemsOf(g[u]) \subseteq ItemsOf(s) \union UNION {ItemsOf(f[v]) : v \in Threads}
    BY <1>0
  <2>2. ItemsOf(s) = ItemsOf(g[t]) BY <1>0
  <2>3. \A u \in Threads : ItemsOf(f[u]) \subseteq ItemsOf(g[u]) BY <1>0
  <2> QED BY <2>1, <2>2, <2>3
<1>7. NoRepeats(<<>>) BY DEF NoRepeats
<1>8. allocated' = held' \union ItemsOf(<<>>) \union UNION {ItemsOf(g[u]) : u \in Threads}
  BY <1>0, <1>6 DEF Layout
<1>9. UNCHANGED held /\ Len(<<>>) = 0 /\ ItemsOf(<<>>) \intersect held = {} BY <1>0
<1>10. Layout(<<>>, g)'
  BY <1>2, <1>3, <1>4, <1>5, <1>7, <1>8, <1>9 DEF Layout
<1> QED BY <1>10 DEF g

LEMMA LayoutFreeNext ==
  ASSUME TypeOK, NEW s \in Seq(Entries), NEW f \in Lists, Layout(s, f),
         NEW t \in Threads, FreeNextOfList(t)
  PROVE  Layout(s, [f EXCEPT ![t] = Tail(f[t])])'
<1> DEFINE p == list[t]
           g == [f EXCEPT ![t] = Tail(f[t])]
<1>1. /\ p # NULL /\ allocated' = allocated \ {p} /\ list' = [list EXCEPT ![t] = flink[p]]
      /\ UNCHANGED <<head, tail, flink, currentSize, alive, held>>
  BY DEF FreeNextOfList, queue, flags
<1>2. f[t] \in Seq(Entries) /\ Linked(p, f[t]) /\ f[t] # <<>>
  BY <1>1 DEF Layout, Lists, Linked
<1>3. /\ Linked(flink[p], Tail(f[t])) /\ NoRepeats(Tail(f[t])) /\ p \notin ItemsOf(Tail(f[t]))
      /\ ItemsOf(f[t]) = ItemsOf(Tail(f[t])) \union {p}
  BY <1>2, LinkedTail DEF Layout
<1>4. g[t] = Tail(f[t]) /\ \A u \in Threads \ {t} : g[u] = f[u]
  BY DEF Lists
<1> HIDE DEF p, g
<1>5. \A u \in Threads : Linked(list[u], g[u])'
  <2> TAKE u \in Threads
  <2>1. CASE u = t BY <2>1, <1>1, <1>3, <1>4 DEF Linked, TypeOK
  <2>2. CASE u # t
    <3>1. Linked(list[u], f[u]) /\ g[u] = f[u] /\ list'[u] = list[u]
      BY <2>2, <1>1, <1>4 DEF Layout, TypeOK
    <3> QED BY <3>1, <1>1 DEF Linked
  <2> QED BY <2>1, <2>2
<1>6. \A u \in Threads : /\ NoRepeats(g[u]) /\ Apart(s, g[u])
                         /\ ItemsOf(g[u]) \intersect held = {}
  BY <1>3, <1>4 DEF Layout, Apart
<1>7. \A u \in Threads : \A v \in Threads \ {u} : Apart(g[u], g[v])
  BY <1>3, <1>4 DEF Layout, Apart
<1>8. p \notin held /\ p \notin ItemsOf(s) /\ \A u \in Threads : p \notin ItemsOf(g[u])
  BY <1>3, <1>4 DEF Layout, Apart
<1>9. UNION {ItemsOf(f[u]) : u \in Threads} = {p} \union UNION {ItemsOf(g[u]) : u \in Threads}
  <2>1. \A u \in Threads : ItemsOf(f[u]) \subseteq {p} \union ItemsOf(g[u]) BY <1>3, <1>4
  <2>2. \A u \in Threads : ItemsOf(g[u]) \subseteq ItemsOf(f[u]) BY <1>3, <1>4
  <2>3. p \in ItemsOf(f[t]) BY <1>3
  <2> QED BY <2>1, <2>2, <2>3
<1>10. allocated' = held' \union ItemsOf(s) \union UNION {ItemsOf(g[u]) : u \in Threads}
  BY <1>1, <1>8, <1>9 DEF Layout
<1>11. alive => Linked(head, s)' BY <1>1 DEF Layout, Linked
<1>12. Layout(s, g)'
  BY <1>1, <1>5, <1>6, <1>7, <1>10, <1>11 DEF Layout
<1> QED BY <1>12 DEF g

LEMMA LayoutInitialize ==
  ASSUME NEW s \in Seq(Entries), NEW f \in Lists, Layout(s, f), LbqInitializeLinkedBlockingQueue
  PROVE  Layout(s, f)'
<1>1. /\ ~alive /\ head' = NULL /\ tail' = NULL /\ currentSize' = 0
      /\ UNCHANGED <<flink, allocated, held, list>>
  BY DEF LbqInitializeLinkedBlockingQueue, memory
<1>2. s = <<>> /\ Len(s) = 0 BY <1>1 DEF Layout
<1>3. Linked(head, s)' /\ \A t \in Threads : Linked(list[t], f[t])'
  BY <1>1, <1>2 DEF Layout, Linked
<1> QED BY <1>1, <1>2, <1>3 DEF Layout

-----------------------------------------------------------------------------
LEMMA InitLbqInv == Init => LbqInv
<1> SUFFICES ASSUME Init PROVE LbqInv OBVIOUS
<1>1. TypeOK
  <2>1. /\ everUsed \in BOOLEAN /\ shutdown \in BOOLEAN /\ draining \in BOOLEAN
        /\ pendingUserWake \in BOOLEAN /\ alive \in BOOLEAN
    BY Zenon DEF Init
  <2>2. /\ head \in Pointers /\ tail \in Pointers /\ flink \in [Entries -> Pointers]
        /\ currentSize \in 0 .. SizeBound
    BY LbqAssumption DEF Init, Pointers
  <2> QED BY <2>1, <2>2 DEF Init, TypeOK, Pointers, Codes
<1>2. Layout(<<>>, [t \in Threads |-> <<>>])
  BY DEF Init, Layout, Linked, NoRepeats, Apart, ItemsOf
<1>3. <<>> \in Seq(Entries) /\ [t \in Threads |-> <<>>] \in Lists
  BY DEF Lists
<1>4. Bounded([t \in Threads |-> <<>>])
  <2>1. Len(<<>>) = 0 /\ 0 <= SizeBound BY LbqAssumption
  <2> QED BY <2>1 DEF Bounded
<1> QED BY <1>1, <1>2, <1>3, <1>4 DEF LbqInv, WellLaidOut

LEMMA ReturnType == ASSUME NEW c \in Codes, Return(c) PROVE result' \in Codes
BY DEF Return

LEMMA NextType ==
  ASSUME LbqInv, [Next]_vars
  PROVE  TypeOK'
<1> USE DEF LbqInv
<1>1. (alive /\ ~IsEmpty) => head \in Entries /\ currentSize \in Nat \ {0}
  BY HeadOfLayout DEF WellLaidOut
<1>2. ASSUME alive, ~IsEmpty, Unlink
      PROVE  /\ head' \in Pointers /\ tail' \in Pointers /\ currentSize' \in 0 .. SizeBound
             /\ held' \subseteq Entries /\ result' \in Codes
             /\ UNCHANGED <<flink, everUsed, allocated, list>>
  BY <1>1, <1>2, LbqAssumption DEF Unlink, TypeOK, Pointers, Return, Codes
<1>3. ASSUME NEW t \in Threads, NEW e \in Entries, LbqOfferQueueItem(t, e) PROVE TypeOK'
  <2>1. flink' \in [Entries -> Pointers] /\ pc' \in [Threads -> {"idle", "signal", "blocked", "woken"}]
    BY <1>3 DEF LbqOfferQueueItem, TypeOK, Pointers, ResetFlink, OwesSignal, IsEmpty
  <2>2. head' \in Pointers /\ tail' \in Pointers /\ currentSize' \in 0 .. SizeBound
    BY <1>3, LbqAssumption DEF LbqOfferQueueItem, TypeOK, Pointers, AtBound
  <2>3. result' \in Codes BY <1>3 DEF LbqOfferQueueItem, Return, Codes
  <2>4. everUsed' \in BOOLEAN /\ allocated' \subseteq Entries
    BY <1>3 DEF LbqOfferQueueItem, TypeOK
  <2>5. UNCHANGED <<flags, held, list>> BY <1>3 DEF LbqOfferQueueItem
  <2> QED BY <2>1, <2>2, <2>3, <2>4, <2>5 DEF TypeOK, flags
<1>4. ASSUME NEW t \in Threads, LbqPeekQueueElement(t) PROVE TypeOK'
  BY <1>4 DEF LbqPeekQueueElement, Refuses, Return, Codes, TypeOK, queue, flags, memory
<1>5. ASSUME NEW t \in Threads, LbqPollQueueElement(t) PROVE TypeOK'
  <2>1. CASE Refuses /\ UNCHANGED <<queue, memory>>
    BY <1>5, <2>1 DEF LbqPollQueueElement, Refuses, Return, Codes, TypeOK, queue, flags, memory
  <2>2. CASE ~shutdown /\ ~IsEmpty /\ Unlink
    BY <1>5, <2>2, <1>2 DEF LbqPollQueueElement, Ready, TypeOK, flags
  <2> QED BY <1>5, <2>1, <2>2 DEF LbqPollQueueElement
<1>6. ASSUME NEW t \in Threads, LbqWaitForQueueElement(t) PROVE TypeOK'
  <2>0. alive /\ pc' \in [Threads -> {"idle", "signal", "blocked", "woken"}]
    BY <1>6 DEF LbqWaitForQueueElement, TypeOK
  <2>1. CASE UNCHANGED <<queue, memory>>
    <3>1. /\ result' \in Codes /\ pendingUserWake' \in BOOLEAN
          /\ UNCHANGED <<shutdown, draining, alive>>
      BY <1>6, <2>1 DEF LbqWaitForQueueElement, Return, Codes, TypeOK, flags, Unlink
    <3> QED BY <2>0, <2>1, <3>1 DEF TypeOK, queue, memory
  <2>2. CASE ~IsEmpty /\ Unlink /\ UNCHANGED flags
    BY <2>0, <2>2, <1>2 DEF TypeOK, flags
  <2> QED BY <1>6, <2>1, <2>2 DEF LbqWaitForQueueElement
<1>7. ASSUME NEW t \in Threads, SpuriousWake(t) \/ PltSignalConditionVariable(t) PROVE TypeOK'
  BY <1>7 DEF SpuriousWake, PltSignalConditionVariable, TypeOK, queue, flags, memory
<1>8. ASSUME NEW t \in Threads,
             LbqSignalQueueShutdown(t) \/ LbqSignalQueueDrain(t) \/ LbqSignalQueueUserWake(t)
      PROVE TypeOK'
  BY <1>8 DEF LbqSignalQueueShutdown, LbqSignalQueueDrain, LbqSignalQueueUserWake, OwesSignal,
              TypeOK, queue, flags, memory
<1>9. ASSUME NEW t \in Threads, LbqFlushQueueItems(t) PROVE TypeOK'
  BY <1>9, LbqAssumption DEF LbqFlushQueueItems, TypeOK, Pointers, flags, memory
<1>10. ASSUME NEW t \in Threads, FreeNextOfList(t) PROVE TypeOK'
  BY <1>10 DEF FreeNextOfList, TypeOK, Pointers, queue, flags
<1>11. ASSUME NEW e \in Entries, FreeHeld(e) PROVE TypeOK'
  BY <1>11 DEF FreeHeld, TypeOK, queue, flags
<1>12. ASSUME NEW t \in Threads, LbqDestroyLinkedBlockingQueue(t) PROVE TypeOK'
  BY <1>12 DEF LbqDestroyLinkedBlockingQueue, TypeOK, queue
<1>13. ASSUME LbqInitializeLinkedBlockingQueue PROVE TypeOK'
  <2>1. /\ (everUsed \in BOOLEAN /\ shutdown \in BOOLEAN /\ draining \in BOOLEAN)'
        /\ (pendingUserWake \in BOOLEAN /\ alive \in BOOLEAN)'
    BY <1>13, Zenon DEF LbqInitializeLinkedBlockingQueue
  <2>2. head' \in Pointers /\ tail' \in Pointers /\ currentSize' \in 0 .. SizeBound
    BY <1>13, LbqAssumption DEF LbqInitializeLinkedBlockingQueue, Pointers
  <2>3. UNCHANGED <<flink, memory, pc, result>> BY <1>13 DEF LbqInitializeLinkedBlockingQueue
  <2> QED BY <2>1, <2>2, <2>3 DEF TypeOK, memory
<1>14. ASSUME UNCHANGED vars PROVE TypeOK'
  BY <1>14 DEF vars, queue, flags, memory, TypeOK
<1> QED
  BY <1>3, <1>4, <1>5, <1>6, <1>7, <1>8, <1>9, <1>10, <1>11, <1>12, <1>13, <1>14
  DEF Next, Call, Threads

LEMMA NextLayout ==
  ASSUME LbqInv, [Next]_vars
  PROVE  WellLaidOut'
<1> USE DEF LbqInv
<1>0. PICK s \in Seq(Entries), f \in Lists : Layout(s, f) /\ Bounded(f) BY DEF WellLaidOut
<1>1. ASSUME UNCHANGED <<head, tail, flink, currentSize, alive, allocated, held, list>>
      PROVE  WellLaidOut'
  BY <1>0, <1>1, LayoutUnchanged DEF WellLaidOut
<1>2. ASSUME NEW t \in Threads, NEW e \in Entries, LbqOfferQueueItem(t, e) PROVE WellLaidOut'
  <2>1. alive /\ e \notin allocated /\ UNCHANGED <<alive, held, list>>
    BY <1>2 DEF LbqOfferQueueItem, Ready, flags
  <2>2. CASE flink' = ResetFlink(e) /\ UNCHANGED <<head, tail, currentSize, allocated>>
    BY <1>0, <2>1, <2>2, LayoutRefused DEF WellLaidOut
  <2>3. CASE /\ head' = IF IsEmpty THEN e ELSE head
             /\ flink' = IF IsEmpty THEN ResetFlink(e) ELSE [ResetFlink(e) EXCEPT ![tail] = e]
             /\ tail' = e /\ currentSize' = currentSize + 1
             /\ allocated' = allocated \union {e}
    <3>1. Layout(Append(s, e), f)' BY <1>0, <2>1, <2>3, LayoutAccepted
    <3>2. Append(s, e) \in Seq(Entries) BY AppendFacts
    <3> QED BY <1>0, <3>1, <3>2 DEF WellLaidOut
  <2> QED BY <1>2, <2>2, <2>3 DEF LbqOfferQueueItem
<1>3. ASSUME alive, ~IsEmpty, Unlink, UNCHANGED alive PROVE WellLaidOut'
  <2>1. Layout(Tail(s), f)' BY <1>0, <1>3, LayoutUnlink
  <2>2. Tail(s) \in Seq(Entries) BY <1>0, <1>3, HeadOfLayout, TailFacts
  <2> QED BY <1>0, <2>1, <2>2 DEF WellLaidOut
<1>4. ASSUME NEW t \in Threads, LbqPollQueueElement(t) PROVE WellLaidOut'
  BY <1>1, <1>3, <1>4 DEF LbqPollQueueElement, Ready, queue, flags, memory
<1>5. ASSUME NEW t \in Threads, LbqWaitForQueueElement(t) PROVE WellLaidOut'
  BY <1>1, <1>3, <1>5 DEF LbqWaitForQueueElement, queue, flags, memory
<1>6. ASSUME NEW t \in Threads,
             \/ LbqPeekQueueElement(t) \/ SpuriousWake(t) \/ PltSignalConditionVariable(t)
             \/ LbqSignalQueueShutdown(t) \/ LbqSignalQueueDrain(t) \/ LbqSignalQueueUserWake(t)
      PROVE  WellLaidOut'
  BY <1>1, <1>6 DEF LbqPeekQueueElement, SpuriousWake, PltSignalConditionVariable,
     LbqSignalQueueShutdown, LbqSignalQueueDrain, LbqSignalQueueUserWake, queue, flags, memory
<1>7. ASSUME NEW t \in Threads, LbqFlushQueueItems(t) \/ LbqDestroyLinkedBlockingQueue(t)
      PROVE  WellLaidOut'
  <2>1. /\ alive /\ list[t] = NULL /\ list' = [list EXCEPT ![t] = head]
        /\ UNCHANGED <<flink, allocated, held>>
    BY <1>7 DEF LbqFlushQueueItems, LbqDestroyLinkedBlockingQueue, Ready, queue
  <2>2. \/ alive' = FALSE
        \/ /\ alive' = TRUE /\ head' = NULL
           /\ tail' = (IF IsEmpty THEN tail ELSE NULL)
           /\ currentSize' = (IF IsEmpty THEN currentSize ELSE 0)
    <3>1. CASE LbqFlushQueueItems(t) 
      <4>1. alive /\ alive' = alive BY <2>1, <3>1 DEF LbqFlushQueueItems, flags
      <4>2. alive' = TRUE BY <4>1 DEF TypeOK
      <4> QED BY <3>1, <4>2 DEF LbqFlushQueueItems
    <3>2. CASE LbqDestroyLinkedBlockingQueue(t) BY <3>2 DEF LbqDestroyLinkedBlockingQueue
    <3> QED BY <1>7, <3>1, <3>2
  <2>3. Layout(<<>>, [f EXCEPT ![t] = s])' BY <1>0, <2>1, <2>2, LayoutTakeAll
  <2>4. <<>> \in Seq(Entries) /\ [f EXCEPT ![t] = s] \in Lists BY DEF Lists
  <2>5. Len(s) <= SizeBound BY <1>0, <2>1, LbqAssumption DEF Layout, TypeOK
  <2>6. Bounded([f EXCEPT ![t] = s]) BY <1>0, <2>5 DEF Bounded, Lists
  <2> QED BY <2>3, <2>4, <2>6 DEF WellLaidOut
<1>8. ASSUME NEW t \in Threads, FreeNextOfList(t) PROVE WellLaidOut'
  <2>1. Layout(s, [f EXCEPT ![t] = Tail(f[t])])' BY <1>0, <1>8, LayoutFreeNext
  <2>2. f[t] # <<>> /\ f[t] \in Seq(Entries)
    BY <1>0, <1>8 DEF FreeNextOfList, Layout, Linked, Lists
  <2>3. Tail(f[t]) \in Seq(Entries) BY <2>2, TailFacts
  <2>4. [f EXCEPT ![t] = Tail(f[t])] \in Lists BY <2>3 DEF Lists
  <2>5. Len(Tail(f[t])) <= SizeBound
    <3>1. Len(Tail(f[t])) = Len(f[t]) - 1 /\ Len(f[t]) \in Nat BY <2>2, TailFacts
    <3>2. Len(f[t]) <= SizeBound BY <1>0 DEF Bounded
    <3> QED BY <3>1, <3>2, LbqAssumption
  <2>6. Bounded([f EXCEPT ![t] = Tail(f[t])]) BY <1>0, <2>5 DEF Bounded, Lists
  <2> QED BY <2>1, <2>4, <2>6 DEF WellLaidOut
<1>9. ASSUME NEW e \in Entries, FreeHeld(e) PROVE WellLaidOut'
  BY <1>0, <1>9, LayoutFreeHeld DEF WellLaidOut
<1>10. ASSUME LbqInitializeLinkedBlockingQueue PROVE WellLaidOut'
  BY <1>0, <1>10, LayoutInitialize DEF WellLaidOut
<1>11. ASSUME UNCHANGED vars PROVE WellLaidOut'
  BY <1>1, <1>11 DEF vars, queue, flags, memory
<1> QED
  BY <1>2, <1>4, <1>5, <1>6, <1>7, <1>8, <1>9, <1>10, <1>11 DEF Next, Call, Threads

-----------------------------------------------------------------------------
(***************************************************************************)
(* The memory of the queue is sound for any threads, entries and bound:    *)
(* what head, flink and tail link is a list of currentSize different       *)
(* entries, disjoint from every list being freed and from the entries      *)
(* handed out, and nothing else is allocated.                              *)
(***************************************************************************)
THEOREM LbqMemorySound == Spec => []LbqInv
<1>1. Init => LbqInv BY InitLbqInv
<1>2. LbqInv /\ [Next]_vars => LbqInv' BY NextType, NextLayout DEF LbqInv
<1> QED BY <1>1, <1>2, PTL DEF Spec

(***************************************************************************)
(* Type correctness; that currentSize stays within 0 .. SizeBound rests on *)
(* the layout, since the pops decrement it without looking at it.          *)
(***************************************************************************)
THEOREM LbqTypeCorrect == Spec => []TypeOK
<1>1. LbqInv => TypeOK BY DEF LbqInv
<1> QED BY <1>1, LbqMemorySound, PTL

-----------------------------------------------------------------------------
(* What Chain computes. *)

\* A set of numbers has a least one.
LEMMA LeastNumber ==
  ASSUME NEW S, S \subseteq Nat, S # {}
  PROVE  \E m \in S : \A x \in S : m <= x
<1>1. PICK m \in S : \A y \in S : ~ (<<y, m>> \in OpToRel(<, Nat))
  BY WFMin, NatLessThanWellFounded, Zenon
<1>2. \A y \in S : ~(y < m) BY <1>1 DEF OpToRel
<1> QED BY <1>2

\* Of two lists that the pointers link from p, each begins with the other.
LEMMA LinkedPrefix ==
  ASSUME NEW p, NEW s \in Seq(Entries), NEW r \in Seq(Entries), Linked(p, s), Linked(p, r)
  PROVE  \A i \in 1 .. Len(s) : i \in 1 .. Len(r) /\ s[i] = r[i]
<1> DEFINE Differ == {i \in 1 .. Len(s) : ~(i \in 1 .. Len(r) /\ s[i] = r[i])}
<1> SUFFICES ASSUME Differ # {} PROVE FALSE OBVIOUS
<1>1. /\ Len(s) \in Nat /\ \A i \in 1 .. Len(s) : s[i] \in Entries
      /\ Len(r) \in Nat /\ (r = <<>> <=> Len(r) = 0) /\ (s = <<>> <=> Len(s) = 0)
  BY ItemsFacts
<1>2. PICK m \in Differ : \A i \in Differ : m <= i
  <2>1. Differ \subseteq Nat BY <1>1
  <2> HIDE DEF Differ
  <2> QED BY <2>1, LeastNumber
<1>3. m \in 1 .. Len(s) /\ s[m] # NULL /\ s # <<>> BY <1>1, LbqAssumption
<1>4. CASE m = 1
  <2>1. p = s[1] /\ p # NULL BY <1>3, <1>4 DEF Linked
  <2>2. r # <<>> /\ p = r[1] BY <2>1 DEF Linked
  <2>3. 1 \in 1 .. Len(r) BY <2>2, <1>1
  <2> QED BY <2>1, <2>2, <2>3, <1>4
<1>5. CASE m # 1
  <2>1. m - 1 \in 1 .. Len(s) - 1 /\ m - 1 \in 1 .. Len(s) /\ (m - 1) + 1 = m /\ ~(m <= m - 1)
    BY <1>1, <1>3, <1>5
  <2>2. m - 1 \in 1 .. Len(r) /\ s[m - 1] = r[m - 1] BY <2>1, <1>2
  <2>3. flink[s[m - 1]] = s[m] BY <2>1, <1>3 DEF Linked
  <2>4. r # <<>> BY <2>2, <1>1
  <2>5. m - 1 # Len(r) BY <2>2, <2>3, <2>4, <1>3 DEF Linked
  <2>6. m - 1 \in 1 .. Len(r) - 1 /\ m \in 1 .. Len(r) BY <2>1, <2>2, <2>5, <1>1, <1>3
  <2>7. flink[r[m - 1]] = r[m] BY <2>1, <2>4, <2>6 DEF Linked
  <2> QED BY <2>2, <2>3, <2>6, <2>7
<1> QED BY <1>4, <1>5

LEMMA LinkedOnce ==
  ASSUME NEW p, NEW s \in Seq(Entries), NEW r \in Seq(Entries), Linked(p, s), Linked(p, r)
  PROVE  s = r
<1>1. Len(s) \in Nat /\ Len(r) \in Nat BY ItemsFacts
<1>2. \A i \in 1 .. Len(s) : i \in 1 .. Len(r) /\ s[i] = r[i] BY LinkedPrefix
<1>3. \A i \in 1 .. Len(r) : i \in 1 .. Len(s) BY LinkedPrefix
<1>4. Len(s) = Len(r)
  <2>1. Len(s) <= Len(r)
    <3>1. CASE Len(s) = 0 BY <3>1, <1>1
    <3>2. CASE Len(s) # 0
      <4>1. Len(s) \in 1 .. Len(s) BY <3>2, <1>1
      <4> QED BY <4>1, <1>1, <1>2
    <3> QED BY <3>1, <3>2
  <2>2. Len(r) <= Len(s)
    <3>1. CASE Len(r) = 0 BY <3>1, <1>1
    <3>2. CASE Len(r) # 0
      <4>1. Len(r) \in 1 .. Len(r) BY <3>2, <1>1
      <4> QED BY <4>1, <1>1, <1>3
    <3> QED BY <3>1, <3>2
  <2> QED BY <2>1, <2>2, <1>1
<1> QED BY <1>2, <1>4, SeqEqual

\* So Chain is that list, if the queue can hold it.
LEMMA ChainIs ==
  ASSUME NEW p, NEW s \in Seq(Entries), Linked(p, s), Len(s) <= SizeBound
  PROVE  Chain(p) = s
<1> DEFINE Short == UNION {[1 .. n -> Entries] : n \in 0 .. SizeBound}
           chains == {r \in Short : Linked(p, r)}
<1>1. s \in Short
  <2>1. Len(s) \in 0 .. SizeBound /\ s \in [1 .. Len(s) -> Entries] BY ItemsFacts, LbqAssumption
  <2> QED BY <2>1
<1>2. \A r \in Short : r \in Seq(Entries)
  <2> TAKE r \in Short
  <2>1. PICK n \in 0 .. SizeBound : r \in [1 .. n -> Entries] OBVIOUS
  <2>2. n \in Nat BY LbqAssumption
  <2> QED BY <2>1, <2>2, SeqDef
<1> HIDE DEF Short
<1>3. \A r \in chains : r = s BY <1>2, LinkedOnce
<1>4. s \in chains BY <1>1
<1>5. Chain(p) = IF chains = {} THEN <<>> ELSE CHOOSE r \in chains : TRUE BY DEF Chain, Short
<1> HIDE DEF chains
<1> QED BY <1>3, <1>4, <1>5

\* What the pointers lay out is what the abstract queue holds.
LEMMA ItemsLaidOut ==
  TypeOK => \A s \in Seq(Entries), f \in Lists : Layout(s, f) => Items = s
<1> SUFFICES ASSUME TypeOK, NEW s \in Seq(Entries), NEW f \in Lists, Layout(s, f) PROVE Items = s
  OBVIOUS
<1>1. CASE alive
  <2>1. Linked(head, s) /\ Len(s) <= SizeBound BY <1>1, LbqAssumption DEF Layout, TypeOK
  <2> QED BY <1>1, <2>1, ChainIs DEF Items
<1>2. CASE ~alive BY <1>2 DEF Items, Layout
<1> QED BY <1>1, <1>2

LEMMA ListsAre ==
  ASSUME NEW s \in Seq(Entries), NEW f \in Lists, Layout(s, f), Bounded(f)
  PROVE  [t \in Threads |-> Chain(list[t])] = f
<1>1. \A t \in Threads : Chain(list[t]) = f[t]
  <2> TAKE t \in Threads
  <2>1. f[t] \in Seq(Entries) /\ Linked(list[t], f[t]) /\ Len(f[t]) <= SizeBound
    BY DEF Lists, Layout, Bounded
  <2> QED BY <2>1, ChainIs
<1> QED BY <1>1 DEF Lists

(***************************************************************************)
(* Every entry is in one place only, wherever the threads are between the  *)
(* calls of the queue and the freeing of what they flushed: no entry is    *)
(* lost and none is freed twice.                                           *)
(***************************************************************************)
THEOREM LbqEntriesAccounted == Spec => []EntriesAccounted
<1>1. LbqInv => EntriesAccounted
  <2> SUFFICES ASSUME LbqInv PROVE EntriesAccounted OBVIOUS
  <2>1. PICK s \in Seq(Entries), f \in Lists : Layout(s, f) /\ Bounded(f) BY DEF LbqInv, WellLaidOut
  <2>2. Items = s /\ [t \in Threads |-> Chain(list[t])] = f BY <2>1, ItemsLaidOut, ListsAre DEF LbqInv
  <2> QED BY <2>1, <2>2 DEF EntriesAccounted
<1> QED BY <1>1, LbqMemorySound, PTL

-----------------------------------------------------------------------------
(* The refinement of BoundedFifo, step by step. *)

\* The same, after a step.
LEMMA ItemsAfter ==
  TypeOK' => \A s \in Seq(Entries), f \in Lists : Layout(s, f)' => Items' = s
<1>1. (TypeOK => \A s \in Seq(Entries), f \in Lists : Layout(s, f) => Items = s)'
  BY ItemsLaidOut, PTL
<1> QED BY <1>1

LEMMA EmptyIs ==
  ASSUME NEW s \in Seq(Entries), NEW f \in Lists, Layout(s, f), alive
  PROVE  IsEmpty <=> s = <<>>
<1>1. s # <<>> => head \in Entries
  <2>1. s # <<>> => 1 \in 1 .. Len(s) BY ItemsFacts
  <2> QED BY <2>1, ItemsFacts DEF Layout, Linked
<1> QED BY <1>1, LbqAssumption DEF Layout, Linked, IsEmpty

\* A step that leaves the list, the flags and the result alone is not seen.
LEMMA NotSeen ==
  ASSUME Items' = Items, UNCHANGED <<flags, result>>
  PROVE  UNCHANGED Fifo!vars
BY DEF Fifo!vars, flags

\* What a poll and a wait do to an entry is a Take.
LEMMA UnlinkTakes ==
  ASSUME LbqInv, TypeOK', alive, ~shutdown, ~IsEmpty, Unlink, UNCHANGED flags
  PROVE  Fifo!Take
<1>1. PICK s \in Seq(Entries), f \in Lists : Layout(s, f) BY DEF LbqInv, WellLaidOut
<1>2. Layout(Tail(s), f)' BY <1>1, LayoutUnlink DEF LbqInv, flags
<1>3. s # <<>> BY <1>1, HeadOfLayout
<1>4. Items = s /\ Items' = Tail(s)
  <2>1. Tail(s) \in Seq(Entries) BY <1>3, TailFacts
  <2> QED BY <2>1, <1>1, <1>2, ItemsLaidOut, ItemsAfter DEF LbqInv
<1> QED BY <1>3, <1>4 DEF Fifo!Take, Fifo!Return, Fifo!flags, flags, Unlink, Return

\* What a peek and a poll say of a list they leave alone.
LEMMA Refused ==
  ASSUME LbqInv, alive, Refuses, Items' = Items, UNCHANGED flags
  PROVE  Fifo!Next
<1>1. IsEmpty <=> Items = <<>>
  <2>1. PICK s \in Seq(Entries), f \in Lists : Layout(s, f) BY DEF LbqInv, WellLaidOut
  <2> QED BY <2>1, ItemsLaidOut, EmptyIs DEF LbqInv
<1>2. Fifo!Interrupted \/ Fifo!NothingThere
  BY <1>1 DEF Refuses, Return, Fifo!Interrupted, Fifo!NothingThere, Fifo!Return, Fifo!flags, flags
<1> QED BY <1>2 DEF Fifo!Next

LEMMA NextImplements ==
  ASSUME LbqInv, LbqInv', [Next]_vars
  PROVE  [Fifo!Next]_(Fifo!vars)
<1> USE DEF LbqInv
<1>0. PICK s \in Seq(Entries), f \in Lists : Layout(s, f) BY DEF WellLaidOut
<1>1. Items = s BY <1>0, ItemsLaidOut
<1>2. alive => (IsEmpty <=> Items = <<>>) BY <1>0, <1>1, EmptyIs
<1>3. alive => Len(Items) = currentSize BY <1>0, <1>1 DEF Layout
<1>4. ASSUME UNCHANGED <<head, tail, flink, currentSize, alive, allocated, held, list>>
      PROVE  Items' = Items
  <2>1. Layout(s, f)' BY <1>0, <1>4, LayoutUnchanged
  <2> QED BY <2>1, <1>1, ItemsAfter
<1>5. ASSUME NEW t \in Threads, NEW e \in Entries, LbqOfferQueueItem(t, e) PROVE Fifo!Next
  <2>1. alive /\ e \notin allocated /\ UNCHANGED <<shutdown, draining, pendingUserWake, alive, held, list>>
    BY <1>5 DEF LbqOfferQueueItem, Ready, flags
  <2>2. CASE /\ flink' = ResetFlink(e) /\ UNCHANGED <<head, tail, currentSize, allocated>>
             /\ \/ (shutdown \/ draining) /\ Return("INTERRUPTED")
                \/ ~shutdown /\ ~draining /\ AtBound /\ Return("BOUND_EXCEEDED")
    <3>1. Layout(s, f)' BY <1>0, <2>1, <2>2, LayoutRefused
    <3>2. Items' = Items BY <3>1, <1>1, ItemsAfter
    <3> QED BY <2>1, <2>2, <3>2, <1>3 DEF AtBound, Fifo!Next, Fifo!Offer, Fifo!flags, Fifo!Return, Return
  <2>3. CASE /\ ~shutdown /\ ~draining /\ ~AtBound
             /\ head' = IF IsEmpty THEN e ELSE head
             /\ flink' = IF IsEmpty THEN ResetFlink(e) ELSE [ResetFlink(e) EXCEPT ![tail] = e]
             /\ tail' = e /\ currentSize' = currentSize + 1
             /\ allocated' = allocated \union {e} /\ Return("SUCCESS")
    <3>1. Layout(Append(s, e), f)' BY <1>0, <2>1, <2>3, LayoutAccepted
    <3>2. Append(s, e) \in Seq(Entries) BY AppendFacts
    <3>3. Items' = Append(Items, e) BY <3>1, <3>2, <1>1, ItemsAfter
    <3>4. Len(Items) < SizeBound BY <2>1, <2>3, <1>3, LbqAssumption DEF AtBound, TypeOK
    <3> QED BY <2>1, <2>3, <3>3, <3>4 DEF Fifo!Next, Fifo!Offer, Fifo!flags, Fifo!Return, Return
  <2> QED BY <1>5, <2>2, <2>3 DEF LbqOfferQueueItem
<1>6. ASSUME NEW t \in Threads, LbqPeekQueueElement(t) PROVE Fifo!Next
  <2>1. alive /\ UNCHANGED flags /\ Items' = Items
    BY <1>6, <1>4 DEF LbqPeekQueueElement, Ready, queue, flags, memory
  <2>2. CASE Refuses BY <2>1, <2>2, Refused
  <2>3. CASE ~shutdown /\ ~IsEmpty /\ Return("SUCCESS")
    <3>1. Fifo!Look BY <2>1, <2>3, <1>2 DEF Fifo!Look, Fifo!Return, Fifo!flags, flags, Return
    <3> QED BY <2>1, <3>1 DEF Fifo!Next
  <2> QED BY <1>6, <2>2, <2>3 DEF LbqPeekQueueElement
<1>7. ASSUME NEW t \in Threads, LbqPollQueueElement(t) PROVE Fifo!Next
  <2>1. alive /\ UNCHANGED flags BY <1>7 DEF LbqPollQueueElement, Ready
  <2>2. CASE Refuses /\ UNCHANGED <<queue, memory>>
    <3>1. Items' = Items BY <2>1, <2>2, <1>4 DEF queue, flags, memory
    <3> QED BY <2>1, <2>2, <3>1, Refused
  <2>3. CASE ~shutdown /\ ~IsEmpty /\ Unlink
    <3>1. Fifo!Take BY <2>1, <2>3, UnlinkTakes
    <3> QED BY <2>1, <3>1 DEF Fifo!Next
  <2> QED BY <1>7, <2>2, <2>3 DEF LbqPollQueueElement
<1>8. ASSUME NEW t \in Threads, LbqWaitForQueueElement(t) PROVE Fifo!Next \/ UNCHANGED Fifo!vars
  <2>1. alive BY <1>8 DEF LbqWaitForQueueElement
  <2>2. CASE UNCHANGED <<queue, flags, memory, result>>
    <3>1. Items' = Items BY <2>2, <1>4 DEF queue, flags, memory
    <3> QED BY <2>2, <3>1, NotSeen
  <2>3. CASE (shutdown \/ (draining /\ IsEmpty)) /\ Return("INTERRUPTED") /\ UNCHANGED <<queue, flags, memory>>
    <3>1. Items' = Items BY <2>3, <1>4 DEF queue, flags, memory
    <3>2. Fifo!Interrupted
      BY <2>1, <2>3, <3>1, <1>2 DEF Fifo!Interrupted, Fifo!Return, Fifo!flags, flags, Return
    <3> QED BY <2>1, <3>2 DEF Fifo!Next
  <2>4. CASE /\ ~shutdown /\ pendingUserWake
             /\ pendingUserWake' = FALSE /\ Return("USER_WAKE")
             /\ UNCHANGED <<queue, shutdown, draining, alive, memory>>
    <3>1. Items' = Items BY <2>4, <1>4 DEF queue, memory
    <3>2. Fifo!Woken BY <2>4, <3>1 DEF Fifo!Woken, Fifo!Return, Return
    <3> QED BY <2>1, <3>2 DEF Fifo!Next
  <2>5. CASE ~shutdown /\ ~IsEmpty /\ Unlink /\ UNCHANGED flags
    <3>1. Fifo!Take BY <2>1, <2>5, UnlinkTakes
    <3> QED BY <2>1, <3>1 DEF Fifo!Next
  <2> QED BY <1>8, <2>2, <2>3, <2>4, <2>5, Zenon DEF LbqWaitForQueueElement
<1>9. ASSUME NEW t \in Threads,
             LbqSignalQueueShutdown(t) \/ LbqSignalQueueDrain(t) \/ LbqSignalQueueUserWake(t)
      PROVE  Fifo!Next
  <2>1. alive /\ UNCHANGED <<alive, result>> /\ Items' = Items
    BY <1>9, <1>4 DEF LbqSignalQueueShutdown, LbqSignalQueueDrain, LbqSignalQueueUserWake, Ready,
                      queue, memory
  <2>2. Fifo!Close \/ Fifo!RequestWake
    BY <1>9, <2>1 DEF LbqSignalQueueShutdown, LbqSignalQueueDrain, LbqSignalQueueUserWake,
                      Fifo!Close, Fifo!RequestWake
  <2> QED BY <2>1, <2>2 DEF Fifo!Next
<1>10. ASSUME NEW t \in Threads, LbqFlushQueueItems(t) \/ LbqDestroyLinkedBlockingQueue(t)
       PROVE  Fifo!Next
  <2>1. /\ alive /\ list[t] = NULL /\ list' = [list EXCEPT ![t] = head]
        /\ UNCHANGED <<flink, allocated, held>>
    BY <1>10 DEF LbqFlushQueueItems, LbqDestroyLinkedBlockingQueue, Ready, queue
  <2>2. \/ alive' = FALSE
        \/ /\ alive' = TRUE /\ head' = NULL
           /\ tail' = (IF IsEmpty THEN tail ELSE NULL)
           /\ currentSize' = (IF IsEmpty THEN currentSize ELSE 0)
    <3>1. CASE LbqFlushQueueItems(t)
      <4>1. alive /\ alive' = alive BY <2>1, <3>1 DEF LbqFlushQueueItems, flags
      <4>2. alive' = TRUE BY <4>1 DEF TypeOK
      <4> QED BY <3>1, <4>2 DEF LbqFlushQueueItems
    <3>2. CASE LbqDestroyLinkedBlockingQueue(t) BY <3>2 DEF LbqDestroyLinkedBlockingQueue
    <3> QED BY <1>10, <3>1, <3>2
  <2>3. Layout(<<>>, [f EXCEPT ![t] = s])' BY <1>0, <2>1, <2>2, LayoutTakeAll
  <2>4. <<>> \in Seq(Entries) /\ [f EXCEPT ![t] = s] \in Lists BY DEF Lists
  <2>5. Items' = <<>> BY <2>3, <2>4, ItemsAfter
  <2>6. CASE LbqFlushQueueItems(t)
    <3>1. Fifo!Flush BY <2>5, <2>6 DEF LbqFlushQueueItems, Fifo!Flush, Fifo!flags, flags
    <3> QED BY <2>1, <3>1 DEF Fifo!Next
  <2>7. CASE LbqDestroyLinkedBlockingQueue(t)
    <3>1. Fifo!Destroy BY <2>5, <2>7 DEF LbqDestroyLinkedBlockingQueue, Fifo!Destroy
    <3> QED BY <2>1, <3>1 DEF Fifo!Next
  <2> QED BY <1>10, <2>6, <2>7
<1>11. ASSUME NEW t \in Threads, SpuriousWake(t) \/ PltSignalConditionVariable(t)
       PROVE  UNCHANGED Fifo!vars
  <2>1. UNCHANGED <<flags, result>> /\ Items' = Items
    BY <1>11, <1>4 DEF SpuriousWake, PltSignalConditionVariable, queue, flags, memory
  <2> QED BY <2>1, NotSeen
<1>12. ASSUME NEW t \in Threads, FreeNextOfList(t) PROVE UNCHANGED Fifo!vars
  <2>1. Layout(s, [f EXCEPT ![t] = Tail(f[t])])' BY <1>0, <1>12, LayoutFreeNext
  <2>2. f[t] # <<>> /\ f[t] \in Seq(Entries)
    BY <1>0, <1>12 DEF FreeNextOfList, Layout, Linked, Lists
  <2>3. Tail(f[t]) \in Seq(Entries) BY <2>2, TailFacts
  <2>4. [f EXCEPT ![t] = Tail(f[t])] \in Lists BY <2>3 DEF Lists
  <2>5. Items' = Items BY <2>1, <2>4, <1>1, ItemsAfter
  <2> QED BY <1>12, <2>5, NotSeen DEF FreeNextOfList
<1>13. ASSUME NEW e \in Entries, FreeHeld(e) PROVE UNCHANGED Fifo!vars
  <2>1. Layout(s, f)' BY <1>0, <1>13, LayoutFreeHeld
  <2>2. Items' = Items BY <2>1, <1>1, ItemsAfter
  <2> QED BY <1>13, <2>2, NotSeen DEF FreeHeld
<1>14. ASSUME LbqInitializeLinkedBlockingQueue PROVE Fifo!Next
  <2>1. Layout(s, f)' BY <1>0, <1>14, LayoutInitialize
  <2>2. s = <<>> BY <1>0, <1>14 DEF Layout, LbqInitializeLinkedBlockingQueue
  <2>3. Items' = <<>> BY <2>1, <2>2, ItemsAfter
  <2>4. Fifo!Initialize BY <1>14, <2>3 DEF LbqInitializeLinkedBlockingQueue, Fifo!Initialize
  <2> QED BY <2>4 DEF Fifo!Next
<1>15. ASSUME UNCHANGED vars PROVE UNCHANGED Fifo!vars
  <2>1. UNCHANGED <<flags, result>> /\ Items' = Items
    BY <1>15, <1>4 DEF vars, queue, flags, memory
  <2> QED BY <2>1, NotSeen
<1> QED
  BY <1>5, <1>6, <1>7, <1>8, <1>9, <1>10, <1>11, <1>12, <1>13, <1>14, <1>15 DEF Next, Call, Threads

(***************************************************************************)
(* The linked list is a bounded FIFO, for any threads, entries and bound:  *)
(* what is offered is taken in that order, refused when the queue is full  *)
(* or closed, and gone after a flush; pointers that are written while an   *)
(* old list is still freed, and signals that come late, change nothing.    *)
(***************************************************************************)
THEOREM LbqImplementsFifo == Spec => ImplementsFifo
<1>1. Init => Fifo!Init
  <2> SUFFICES ASSUME Init PROVE Fifo!Init OBVIOUS
  <2>1. Linked(head, <<>>) /\ Len(<<>>) <= SizeBound /\ <<>> \in Seq(Entries)
    BY LbqAssumption DEF Init, Linked
  <2>2. Items = <<>> BY <2>1, ChainIs DEF Items
  <2> QED BY <2>2 DEF Init, Fifo!Init
<1>2. LbqInv /\ LbqInv' /\ [Next]_vars => [Fifo!Next]_(Fifo!vars) BY NextImplements
<1> QED BY <1>1, <1>2, LbqMemorySound, PTL DEF Spec, ImplementsFifo, Fifo!Spec

-----------------------------------------------------------------------------
\* Together inductive: a queue is only destroyed when nobody waits on it.
WakeupInv == /\ NoLostWakeup
             /\ ~alive => pc[Consumer] # "blocked"

\* A step that leaves the loop condition alone, or makes it true, and loses
\* no signal, loses no wake-up.
LEMMA WakeupKept ==
  ASSUME WakeupInv, UNCHANGED alive, MustWait => MustWait',
         pc'[Consumer] = "blocked" => pc[Consumer] = "blocked",
         \A t \in Threads : pc[t] = "signal" => pc'[t] = "signal"
  PROVE  WakeupInv'
BY DEF WakeupInv, NoLostWakeup

LEMMA WakeupOwed ==
  ASSUME WakeupInv, UNCHANGED alive, NEW t \in Threads, TypeOK, OwesSignal(t), pc[t] = "idle"
  PROVE  WakeupInv'
<1>1. pc'[t] = "signal" /\ \A u \in Threads \ {t} : pc'[u] = pc[u]
  BY DEF OwesSignal, TypeOK
<1>2. Consumer \in Threads BY DEF Threads
<1>3. pc'[Consumer] = "blocked" => pc[Consumer] = "blocked" BY <1>1, <1>2
<1> QED BY <1>1, <1>3 DEF WakeupInv, NoLostWakeup

LEMMA NextWakeup ==
  ASSUME LbqInv, WakeupInv, [Next]_vars
  PROVE  WakeupInv'
<1> USE DEF LbqInv
<1>0. Consumer \in Threads /\ (\A t \in Callers : t \in Threads) BY DEF Threads
<1>1. ASSUME NEW t \in Callers, Call(t) PROVE WakeupInv'
  <2>0. alive /\ pc[t] = "idle" /\ t \in Threads
    BY <1>0, <1>1 DEF Call, Ready, LbqOfferQueueItem, LbqPeekQueueElement, LbqPollQueueElement,
       LbqFlushQueueItems, LbqSignalQueueShutdown, LbqSignalQueueDrain, LbqSignalQueueUserWake,
       LbqDestroyLinkedBlockingQueue
  <2>1. ASSUME NEW e \in Entries, LbqOfferQueueItem(t, e) PROVE WakeupInv'
    <3>0. UNCHANGED flags BY <2>1 DEF LbqOfferQueueItem
    <3>1. CASE OwesSignal(t) BY <2>0, <3>0, <3>1, WakeupOwed DEF flags
    <3>2. CASE UNCHANGED pc /\ (IsEmpty => head' = head)
      BY <3>0, <3>2, WakeupKept DEF MustWait, IsEmpty, flags
    <3> QED BY <2>1, <3>1, <3>2 DEF LbqOfferQueueItem
  <2>2. ASSUME LbqPeekQueueElement(t) PROVE WakeupInv'
    BY <2>2, WakeupKept DEF LbqPeekQueueElement, MustWait, IsEmpty, queue, flags
  <2>3. ASSUME LbqPollQueueElement(t) PROVE WakeupInv'
    BY <2>3, WakeupKept DEF LbqPollQueueElement, MustWait, IsEmpty, queue, flags
  <2>4. ASSUME LbqFlushQueueItems(t) PROVE WakeupInv'
    BY <2>4, WakeupKept DEF LbqFlushQueueItems, MustWait, IsEmpty, flags
  <2>5. ASSUME LbqSignalQueueShutdown(t) \/ LbqSignalQueueDrain(t) \/ LbqSignalQueueUserWake(t)
        PROVE WakeupInv'
    BY <2>0, <2>5, WakeupOwed
    DEF LbqSignalQueueShutdown, LbqSignalQueueDrain, LbqSignalQueueUserWake
  <2>6. ASSUME LbqDestroyLinkedBlockingQueue(t) PROVE WakeupInv'
    BY <1>0, <2>6 DEF LbqDestroyLinkedBlockingQueue, WakeupInv, NoLostWakeup
  <2> QED BY <1>1, <2>1, <2>2, <2>3, <2>4, <2>5, <2>6 DEF Call
<1>2. ASSUME NEW t \in Threads, PltSignalConditionVariable(t) PROVE WakeupInv'
  <2>1. pc'[Consumer] # "blocked" BY <1>0, <1>2 DEF PltSignalConditionVariable
  <2> QED BY <2>1 DEF WakeupInv, NoLostWakeup
<1>3. ASSUME NEW t \in Threads, FreeNextOfList(t) PROVE WakeupInv'
  BY <1>3, WakeupKept DEF FreeNextOfList, MustWait, IsEmpty, queue, flags
<1>4. ASSUME LbqWaitForQueueElement(Consumer) PROVE WakeupInv'
  <2>0. alive /\ UNCHANGED alive BY <1>4 DEF LbqWaitForQueueElement, flags
  <2>1. CASE pc' = [pc EXCEPT ![Consumer] = "idle"]
    <3>1. pc'[Consumer] = "idle" BY <1>0, <2>1 DEF TypeOK
    <3> QED BY <2>0, <3>1 DEF WakeupInv, NoLostWakeup
  <2>2. CASE MustWait /\ UNCHANGED <<queue, flags>>
    <3>1. MustWait' BY <2>2 DEF MustWait, IsEmpty, queue, flags
    <3> QED BY <2>0, <3>1 DEF WakeupInv, NoLostWakeup
  <2> QED BY <1>4, <2>1, <2>2 DEF LbqWaitForQueueElement
<1>5. ASSUME SpuriousWake(Consumer) PROVE WakeupInv'
  <2>1. pc'[Consumer] = "woken" BY <1>0, <1>5 DEF SpuriousWake, TypeOK
  <2> QED BY <2>1 DEF WakeupInv, NoLostWakeup
<1>6. ASSUME NEW e \in Entries, FreeHeld(e) PROVE WakeupInv'
  BY <1>6, WakeupKept DEF FreeHeld, MustWait, IsEmpty, queue, flags
<1>7. ASSUME LbqInitializeLinkedBlockingQueue PROVE WakeupInv'
  BY <1>7 DEF LbqInitializeLinkedBlockingQueue, WakeupInv, NoLostWakeup
<1>8. ASSUME UNCHANGED vars PROVE WakeupInv'
  BY <1>8, WakeupKept DEF vars, MustWait, IsEmpty, queue, flags
<1> QED BY <1>1, <1>2, <1>3, <1>4, <1>5, <1>6, <1>7, <1>8 DEF Next

(***************************************************************************)
(* No wake-up of the waiting thread is lost, whatever the other threads    *)
(* do between an unlock and the signal that follows it, provided that one  *)
(* thread waits (the type of Consumer).                                    *)
(***************************************************************************)
THEOREM LbqNoLostWakeup == Spec => []NoLostWakeup
<1>1. Init => WakeupInv
  BY DEF Init, WakeupInv, NoLostWakeup, Threads
<1>2. LbqInv /\ WakeupInv /\ [Next]_vars => WakeupInv' BY NextWakeup
<1>3. WakeupInv => NoLostWakeup BY DEF WakeupInv
<1> QED BY <1>1, <1>2, <1>3, LbqMemorySound, PTL DEF Spec
=============================================================================
