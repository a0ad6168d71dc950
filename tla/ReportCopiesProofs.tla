------------------------- MODULE ReportCopiesProofs -------------------------
(***************************************************************************)
(* Proofs about ReportCopies, for any reports, any clock and any limit of  *)
(* the history: what a filter keeps, that the history is in order, and     *)
(* that the copies of a plain report verify.                               *)
(***************************************************************************)
EXTENDS ReportCopies, SequenceTheorems, SumLemmas

(* p is what is in kept of the first n of the list, in the same order.     *)
Thins(p, list, n, kept) ==
  /\ Len(p) <= n
  /\ (\E i \in 1..n : list[i] \notin kept) => Len(p) < n
  /\ \E from \in [1..Len(p) -> 1..n] :
       /\ \A j \in 1..Len(p) : p[j] = list[from[j]] /\ p[j] \in kept
       /\ \A j, k \in 1..Len(p) : j < k => from[j] < from[k]
       /\ \A i \in 1..n : list[i] \in kept => \E j \in 1..Len(p) : from[j] = i

(* What the local function of Filtered is, on the first n of the list.     *)
Firsts(list, kept, n, first) ==
  first = [m \in 0..n |->
             IF m = 0 THEN <<>>
             ELSE IF list[m] \in kept THEN Append(first[m - 1], list[m]) ELSE first[m - 1]]

(* A filter is the last value of the function its definition chooses.      *)
LEMMA FilteredUnfolds ==
  ASSUME NEW list, NEW kept
  PROVE  Filtered(list, kept) = (CHOOSE first : Firsts(list, kept, Len(list), first))[Len(list)]
BY DEF Filtered, Firsts

(* What that function is at each point.                                    *)
LEMMA FirstsAt ==
  ASSUME NEW list, NEW kept, NEW n \in Nat, NEW f, Firsts(list, kept, n, f), NEW m \in 0..n
  PROVE  f[m] = IF m = 0 THEN <<>>
                ELSE IF list[m] \in kept THEN Append(f[m - 1], list[m]) ELSE f[m - 1]
<1>. DEFINE F(first) ==
              [k \in 0..n |->
                 IF k = 0 THEN <<>>
                 ELSE IF list[k] \in kept THEN Append(first[k - 1], list[k]) ELSE first[k - 1]]
<1>1. f = F(f)
  BY DEF Firsts
<1>2. F(f)[m] = IF m = 0 THEN <<>>
                ELSE IF list[m] \in kept THEN Append(f[m - 1], list[m]) ELSE f[m - 1]
  OBVIOUS
<1>. HIDE DEF F
<1>. QED  BY <1>1, <1>2

(* There is such a function, built up from the front of the list.          *)
LEMMA FirstsExist ==
  ASSUME NEW list, NEW kept
  PROVE  \A n \in Nat : \E first : Firsts(list, kept, n, first)
<1>. DEFINE N == {n \in Nat : \E first : Firsts(list, kept, n, first)}
            Next1(first, m) == IF list[m] \in kept THEN Append(first[m - 1], list[m]) ELSE first[m - 1]
<1>1. 0 \in N
  <2>1. Firsts(list, kept, 0, [m \in 0..0 |-> <<>>])
    BY DEF Firsts
  <2>. QED  BY <2>1
<1>2. ASSUME NEW n \in Nat, n \in N PROVE n + 1 \in N
  <2>1. PICK f : Firsts(list, kept, n, f)
    BY <1>2
  <2>. DEFINE g == [m \in 0..(n + 1) |-> IF m = n + 1 THEN Next1(f, n + 1) ELSE f[m]]
  <2>2. ASSUME NEW m \in 0..(n + 1)
        PROVE  g[m] = IF m = 0 THEN <<>> ELSE Next1(g, m)
    <3>1. CASE m = 0
      BY <2>1, <3>1 DEF Firsts
    <3>2. CASE m = n + 1
      <4>1. g[m] = Next1(f, m) /\ m # 0 /\ g[m - 1] = f[m - 1]
        BY <3>2
      <4>. HIDE DEF g
      <4>. QED  BY <4>1
    <3>3. CASE m \in 1..n
      <4>1. g[m] = f[m] /\ g[m - 1] = f[m - 1] /\ m # 0
        BY <3>3
      <4>2. m \in 0..n /\ m # 0
        BY <3>3
      <4>3. f[m] = Next1(f, m)
        BY <2>1, <4>2, FirstsAt
      <4>. HIDE DEF g
      <4>. QED  BY <4>1, <4>3
    <3>. QED  BY <3>1, <3>2, <3>3
  <2>3. g = [m \in 0..(n + 1) |-> g[m]]
    OBVIOUS
  <2>4. Firsts(list, kept, n + 1, g)
    <3>. HIDE DEF g
    <3>. QED  BY <2>2, <2>3 DEF Firsts
  <2>. QED  BY <2>4
<1>3. Nat \subseteq N
  <2>. HIDE DEF N
  <2>. QED  BY <1>1, <1>2, CountingUp
<1>. QED  BY <1>3

(* A map of the positions shows what is kept.                              *)
LEMMA ThinsBy ==
  ASSUME NEW p, NEW list, NEW n \in Nat, NEW kept,
         NEW from \in [1..Len(p) -> 1..n],
         Len(p) <= n, (\E i \in 1..n : list[i] \notin kept) => Len(p) < n,
         \A j \in 1..Len(p) : p[j] = list[from[j]] /\ p[j] \in kept,
         \A j, k \in 1..Len(p) : j < k => from[j] < from[k],
         \A i \in 1..n : list[i] \in kept => \E j \in 1..Len(p) : from[j] = i
  PROVE  Thins(p, list, n, kept)
<1>1. \E e \in [1..Len(p) -> 1..n] :
        /\ \A j \in 1..Len(p) : p[j] = list[e[j]] /\ p[j] \in kept
        /\ \A j, k \in 1..Len(p) : j < k => e[j] < e[k]
        /\ \A i \in 1..n : list[i] \in kept => \E j \in 1..Len(p) : e[j] = i
  <2>. WITNESS from \in [1..Len(p) -> 1..n]
  <2>. QED  OBVIOUS
<1>. QED  BY <1>1 DEF Thins

(* One element more is kept, or is not.                                    *)
LEMMA ThinsOneMore ==
  ASSUME NEW S, NEW list \in Seq(S), NEW kept, NEW n \in Nat, n + 1 <= Len(list),
         NEW p \in Seq(S), Thins(p, list, n, kept), NEW q,
         q = IF list[n + 1] \in kept THEN Append(p, list[n + 1]) ELSE p
  PROVE  q \in Seq(S) /\ Thins(q, list, n + 1, kept)
<1>0. list[n + 1] \in S /\ Len(p) \in Nat /\ Len(p) <= n
  BY DEF Thins
<1>1. PICK from \in [1..Len(p) -> 1..n] :
        /\ \A j \in 1..Len(p) : p[j] = list[from[j]] /\ p[j] \in kept
        /\ \A j, k \in 1..Len(p) : j < k => from[j] < from[k]
        /\ \A i \in 1..n : list[i] \in kept => \E j \in 1..Len(p) : from[j] = i
  BY DEF Thins
<1>2. (\E i \in 1..n : list[i] \notin kept) => Len(p) < n
  BY DEF Thins
<1>3. CASE list[n + 1] \notin kept
  <2>1. q = p
    BY <1>3
  <2>2. from \in [1..Len(p) -> 1..(n + 1)]
    BY <1>0, <1>1
  <2>3. \A i \in 1..(n + 1) : list[i] \in kept => \E j \in 1..Len(p) : from[j] = i
    <3>1. \A i \in 1..(n + 1) : i \in 1..n \/ i = n + 1
      OBVIOUS
    <3>. QED  BY <1>1, <1>3, <3>1
  <2>4. Len(p) <= n + 1 /\ Len(p) < n + 1 /\ n + 1 \in Nat
    BY <1>0
  <2>5. Thins(p, list, n + 1, kept)
    <3>. HIDE DEF Thins
    <3>1. /\ \A j \in 1..Len(p) : p[j] = list[from[j]] /\ p[j] \in kept
          /\ \A j, k \in 1..Len(p) : j < k => from[j] < from[k]
      BY <1>1
    <3>. QED  BY <2>2, <2>3, <2>4, <3>1, ThinsBy
  <2>. QED  BY <2>1, <2>5
<1>4. CASE list[n + 1] \in kept
  <2>. DEFINE l == Len(p)
              more == [j \in 1..(l + 1) |-> IF j = l + 1 THEN n + 1 ELSE from[j]]
  <2>1. q \in Seq(S) /\ Len(q) = l + 1 /\ q[l + 1] = list[n + 1] /\ \A j \in 1..l : q[j] = p[j]
    BY <1>0, <1>4
  <2>2. \A j \in 1..l : from[j] \in 1..n
    BY <1>1
  <2>3. more \in [1..(l + 1) -> 1..(n + 1)]
    BY <1>0, <2>2
  <2>4. more[l + 1] = n + 1 /\ \A j \in 1..l : more[j] = from[j]
    BY <1>0
  <2>. HIDE DEF more
  <2>5. \A j \in 1..(l + 1) : q[j] = list[more[j]] /\ q[j] \in kept
    <3>1. \A j \in 1..l : q[j] = list[more[j]] /\ q[j] \in kept
      BY <1>1, <2>1, <2>4
    <3>2. q[l + 1] = list[more[l + 1]] /\ q[l + 1] \in kept
      BY <1>4, <2>1, <2>4
    <3>. QED  BY <1>0, <3>1, <3>2
  <2>6. \A j, k \in 1..(l + 1) : j < k => more[j] < more[k]
    <3>. SUFFICES ASSUME NEW j \in 1..(l + 1), NEW k \in 1..(l + 1), j < k PROVE more[j] < more[k]
      OBVIOUS
    <3>1. j \in 1..l /\ more[j] = from[j] /\ from[j] \in 1..n
      BY <1>0, <2>2, <2>4
    <3>2. CASE k = l + 1
      BY <2>4, <3>1, <3>2
    <3>3. CASE k \in 1..l
      BY <1>1, <2>4, <3>1, <3>3
    <3>. QED  BY <1>0, <3>2, <3>3
  <2>7. \A i \in 1..(n + 1) : list[i] \in kept => \E j \in 1..(l + 1) : more[j] = i
    <3>. SUFFICES ASSUME NEW i \in 1..(n + 1), list[i] \in kept PROVE \E j \in 1..(l + 1) : more[j] = i
      OBVIOUS
    <3>1. CASE i = n + 1
      BY <1>0, <2>4, <3>1
    <3>2. CASE i \in 1..n
      <4>1. PICK j \in 1..l : from[j] = i
        BY <1>1, <3>2
      <4>. QED  BY <1>0, <2>4, <4>1
    <3>. QED  BY <3>1, <3>2
  <2>8. (\E i \in 1..(n + 1) : list[i] \notin kept) => l + 1 < n + 1
    BY <1>0, <1>2, <1>4
  <2>9. l + 1 <= n + 1 /\ n + 1 \in Nat
    BY <1>0
  <2>10. Thins(q, list, n + 1, kept)
    <3>. DEFINE L == Len(q)
    <3>1. L = l + 1
      BY <2>1
    <3>. HIDE DEF l, L
    <3>2. /\ more \in [1..L -> 1..(n + 1)]
          /\ L <= n + 1 /\ ((\E i \in 1..(n + 1) : list[i] \notin kept) => L < n + 1)
          /\ \A j \in 1..L : q[j] = list[more[j]] /\ q[j] \in kept
          /\ \A j, k \in 1..L : j < k => more[j] < more[k]
          /\ \A i \in 1..(n + 1) : list[i] \in kept => \E j \in 1..L : more[j] = i
      BY <2>3, <2>5, <2>6, <2>7, <2>8, <2>9, <3>1
    <3>. QED  BY <2>9, <3>2, ThinsBy DEF L
  <2>. QED  BY <2>1, <2>10
<1>. QED  BY <1>3, <1>4

(* A filter keeps what it is told to, in its order.                        *)
LEMMA FilteredThins ==
  ASSUME NEW S, NEW list \in Seq(S), NEW kept
  PROVE  Filtered(list, kept) \in Seq(S) /\ Thins(Filtered(list, kept), list, Len(list), kept)
<1>. DEFINE f == CHOOSE first : Firsts(list, kept, Len(list), first)
            N == {n \in Nat : n <= Len(list) => f[n] \in Seq(S) /\ Thins(f[n], list, n, kept)}
<1>0. Len(list) \in Nat
  OBVIOUS
<1>1. Firsts(list, kept, Len(list), f)
  BY <1>0, FirstsExist
<1>. HIDE DEF f
<1>2. f[0] = <<>>
  BY <1>0, <1>1 DEF Firsts
<1>3. \A n \in Nat : n + 1 <= Len(list) =>
        f[n + 1] = IF list[n + 1] \in kept THEN Append(f[n], list[n + 1]) ELSE f[n]
  <2>. SUFFICES ASSUME NEW n \in Nat, n + 1 <= Len(list)
                PROVE  f[n + 1] = IF list[n + 1] \in kept THEN Append(f[n], list[n + 1]) ELSE f[n]
    OBVIOUS
  <2>1. n + 1 \in 0..Len(list) /\ n + 1 # 0 /\ (n + 1) - 1 = n
    BY <1>0
  <2>2. f[n + 1] = IF n + 1 = 0 THEN <<>>
                   ELSE IF list[n + 1] \in kept THEN Append(f[(n + 1) - 1], list[n + 1]) ELSE f[(n + 1) - 1]
    BY <1>1, <2>1 DEF Firsts
  <2>. QED  BY <2>1, <2>2
<1>4. 0 \in N
  <2>1. f[0] \in Seq(S) /\ Len(f[0]) = 0
    BY <1>2
  <2>2. 1..0 = {}
    OBVIOUS
  <2>3. [j \in {} |-> 0] \in [1..0 -> 1..0]
    BY <2>2
  <2>4. Thins(f[0], list, 0, kept)
    BY <2>1, <2>2, <2>3 DEF Thins
  <2>. QED  BY <2>1, <2>4
<1>5. ASSUME NEW n \in Nat, n \in N PROVE n + 1 \in N
  <2>. SUFFICES ASSUME n + 1 <= Len(list)
                PROVE  f[n + 1] \in Seq(S) /\ Thins(f[n + 1], list, n + 1, kept)
    OBVIOUS
  <2>1. f[n] \in Seq(S) /\ Thins(f[n], list, n, kept)
    BY <1>0, <1>5
  <2>2. f[n + 1] = IF list[n + 1] \in kept THEN Append(f[n], list[n + 1]) ELSE f[n]
    BY <1>3
  <2>. QED  BY <2>1, <2>2, ThinsOneMore
<1>6. Nat \subseteq N
  <2>. HIDE DEF N
  <2>. QED  BY <1>4, <1>5, CountingUp
<1>7. Filtered(list, kept) = f[Len(list)]
  BY FilteredUnfolds DEF f
<1>. QED  BY <1>0, <1>6, <1>7

-----------------------------------------------------------------------------
(* What a record holds.                                                    *)
LEMMA RecordKind ==
  ASSUME NEW r \in Records
  PROVE  /\ r.savedAt \in Nat
         /\ \E report \in Pasted : r.reportId = report.requestHash /\ r.report = Sanitized(report)
<1>1. PICK report \in Pasted, now \in 0..MaxTime : r = Record(report, now)
  BY DEF Records
<1>2. r.savedAt = now /\ r.reportId = report.requestHash /\ r.report = Sanitized(report)
  BY <1>1 DEF Record
<1>. QED  BY <1>2, CopiesAssumption

(* A filter of an ordered list.                                            *)
LEMMA FilteredIsOrdered ==
  ASSUME NEW list \in Seq(Records), NewestFirst(list), NEW kept, NEW p, p = Filtered(list, kept)
  PROVE  /\ p \in Seq(Records) /\ NewestFirst(p) /\ Len(p) <= Len(list)
         /\ \A j \in DOMAIN p : p[j] \in kept /\ \E i \in DOMAIN list : p[j] = list[i]
         /\ \A i \in DOMAIN list : list[i] \in kept => \E j \in DOMAIN p : p[j] = list[i]
         /\ (\E i \in DOMAIN list : list[i] \notin kept) => Len(p) < Len(list)
<1>1. p \in Seq(Records) /\ Thins(p, list, Len(list), kept)
  BY FilteredThins
<1>2. PICK from \in [1..Len(p) -> 1..Len(list)] :
        /\ \A j \in 1..Len(p) : p[j] = list[from[j]] /\ p[j] \in kept
        /\ \A j, k \in 1..Len(p) : j < k => from[j] < from[k]
        /\ \A i \in 1..Len(list) : list[i] \in kept => \E j \in 1..Len(p) : from[j] = i
  BY <1>1 DEF Thins
<1>3. DOMAIN p = 1..Len(p) /\ DOMAIN list = 1..Len(list)
  BY <1>1
<1>4. NewestFirst(p)
  <2>. SUFFICES ASSUME NEW j \in DOMAIN p, NEW k \in DOMAIN p, j < k
                PROVE  p[j].savedAt >= p[k].savedAt /\ p[j].reportId # p[k].reportId
    BY DEF NewestFirst
  <2>1. p[j] = list[from[j]] /\ p[k] = list[from[k]] /\ from[j] < from[k]
        /\ from[j] \in DOMAIN list /\ from[k] \in DOMAIN list
    BY <1>2, <1>3
  <2>. QED  BY <2>1 DEF NewestFirst
<1>5. Len(p) <= Len(list) /\ ((\E i \in DOMAIN list : list[i] \notin kept) => Len(p) < Len(list))
  BY <1>1, <1>3 DEF Thins
<1>6. \A j \in DOMAIN p : p[j] \in kept /\ \E i \in DOMAIN list : p[j] = list[i]
  BY <1>2, <1>3
<1>7. \A i \in DOMAIN list : list[i] \in kept => \E j \in DOMAIN p : p[j] = list[i]
  BY <1>2, <1>3
<1>. QED  BY <1>1, <1>4, <1>5, <1>6, <1>7

(* What is cut is the end of the list.                                     *)
LEMMA CutIsBeginning ==
  ASSUME NEW list \in Seq(Records), NEW c, c = Cut(list)
  PROVE  /\ c \in Seq(Records) /\ Len(c) <= MaxRecords
         /\ Len(c) = Len(list) \/ (Len(c) = MaxRecords /\ Len(list) >= MaxRecords)
         /\ \A i \in 1..Len(c) : i \in 1..Len(list) /\ c[i] = list[i]
<1>. DEFINE n == IF Len(list) < MaxRecords THEN Len(list) ELSE MaxRecords
<1>1. n \in Nat /\ n <= Len(list) /\ n <= MaxRecords /\ Len(list) \in Nat /\ MaxRecords \in Nat
      /\ (n = Len(list) \/ (n = MaxRecords /\ Len(list) >= MaxRecords))
  <2>1. Len(list) \in Nat /\ MaxRecords \in Nat
    BY CopiesAssumption
  <2>. QED  BY <2>1
<1>2. \A i \in 1..n : list[i] \in Records
  BY <1>1
<1>3. c = SubSeq(list, 1, n)
  BY DEF Cut
<1>. HIDE DEF n
<1>4. /\ c \in Seq(Records) /\ Len(c) = IF 1 <= n THEN n - 1 + 1 ELSE 0
      /\ \A i \in 1..(n - 1 + 1) : c[i] = list[1 + i - 1]
  BY <1>1, <1>2, <1>3, SubSeqProperties
<1>5. Len(c) = n /\ \A i \in 1..n : c[i] = list[i]
  BY <1>1, <1>4
<1>. QED  BY <1>1, <1>4, <1>5

(* What is cut off at the end leaves the rest in order.                    *)
LEMMA BeginningIsOrdered ==
  ASSUME NEW list \in Seq(Records), NewestFirst(list), NEW c, c = Cut(list)
  PROVE  NewestFirst(c)
<1>1. c \in Seq(Records) /\ \A i \in 1..Len(c) : i \in 1..Len(list) /\ c[i] = list[i]
  BY CutIsBeginning
<1>2. DOMAIN c = 1..Len(c) /\ DOMAIN list = 1..Len(list)
  BY <1>1
<1>. QED  BY <1>1, <1>2 DEF NewestFirst

(* A record that is put before those it is not older than.                 *)
LEMMA InsertedIsOrdered ==
  ASSUME NEW list \in Seq(Records), NewestFirst(list), NEW r \in Records,
         \A i \in DOMAIN list : list[i].reportId # r.reportId,
         NEW all, all = Inserted(r, list)
  PROVE  /\ all \in Seq(Records) /\ NewestFirst(all)
         /\ \E j \in DOMAIN all : all[j] = r
         /\ \A i \in DOMAIN list : \E j \in DOMAIN all : all[j] = list[i]
         /\ \A j \in DOMAIN all : all[j] = r \/ \E i \in DOMAIN list : all[j] = list[i]
<1>. DEFINE Newer == {x \in Range(list) : x.savedAt > r.savedAt}
            Older == {x \in Range(list) : x.savedAt <= r.savedAt}
            before == Filtered(list, Newer)
            after == Filtered(list, Older)
<1>1. /\ before \in Seq(Records) /\ NewestFirst(before)
      /\ \A j \in DOMAIN before : before[j] \in Newer /\ \E i \in DOMAIN list : before[j] = list[i]
      /\ \A i \in DOMAIN list : list[i] \in Newer => \E j \in DOMAIN before : before[j] = list[i]
  <2>. HIDE DEF Newer
  <2>. QED  BY FilteredIsOrdered
<1>2. /\ after \in Seq(Records) /\ NewestFirst(after)
      /\ \A j \in DOMAIN after : after[j] \in Older /\ \E i \in DOMAIN list : after[j] = list[i]
      /\ \A i \in DOMAIN list : list[i] \in Older => \E j \in DOMAIN after : after[j] = list[i]
  <2>. HIDE DEF Older
  <2>. QED  BY FilteredIsOrdered
<1>3. all = (before \o <<r>>) \o after
  BY DEF Inserted
<1>4. \A j \in DOMAIN before : before[j].savedAt > r.savedAt /\ before[j].reportId # r.reportId
  BY <1>1
<1>5. \A j \in DOMAIN after : after[j].savedAt <= r.savedAt /\ after[j].reportId # r.reportId
  BY <1>2
<1>6. \A j \in DOMAIN before, k \in DOMAIN after : before[j].reportId # after[k].reportId
  <2>. SUFFICES ASSUME NEW j \in DOMAIN before, NEW k \in DOMAIN after,
                       before[j].reportId = after[k].reportId
                PROVE  FALSE
    OBVIOUS
  <2>1. PICK m \in DOMAIN list : before[j] = list[m]
    BY <1>1
  <2>2. PICK n \in DOMAIN list : after[k] = list[n]
    BY <1>2
  <2>3. m = n
    BY <2>1, <2>2 DEF NewestFirst
  <2>4. list[m].savedAt > r.savedAt /\ list[m].savedAt <= r.savedAt /\ list[m] \in Records
    BY <1>4, <1>5, <2>1, <2>2, <2>3
  <2>. QED  BY <2>4, RecordKind
<1>7. ASSUME NEW i \in DOMAIN list PROVE list[i] \in Newer \/ list[i] \in Older
  <2>1. list[i] \in Records /\ list[i] \in Range(list)
    BY DEF Range
  <2>2. list[i].savedAt \in Nat /\ r.savedAt \in Nat
    BY <2>1, RecordKind
  <2>. QED  BY <2>1, <2>2
<1>. HIDE DEF Newer, Older, before, after
<1>. DEFINE b == Len(before)
            a == Len(after)
<1>8. /\ all \in Seq(Records) /\ DOMAIN all = 1..(b + 1 + a) /\ b \in Nat /\ a \in Nat
      /\ DOMAIN before = 1..b /\ DOMAIN after = 1..a
      /\ \A j \in 1..b : all[j] = before[j]
      /\ all[b + 1] = r
      /\ \A j \in 1..a : all[b + 1 + j] = after[j]
  <2>. DEFINE head == before \o <<r>>
  <2>1. <<r>> \in Seq(Records) /\ Len(<<r>>) = 1 /\ <<r>>[1] = r
    OBVIOUS
  <2>2. /\ head \in Seq(Records) /\ Len(head) = b + 1
        /\ \A j \in 1..(b + 1) : head[j] = IF j <= b THEN before[j] ELSE <<r>>[j - b]
    BY <1>1, <2>1, ConcatProperties
  <2>. HIDE DEF head
  <2>3. /\ all \in Seq(Records) /\ Len(all) = b + 1 + a
        /\ \A j \in 1..(b + 1 + a) : all[j] = IF j <= b + 1 THEN head[j] ELSE after[j - (b + 1)]
    <3>1. all = head \o after
      BY <1>3 DEF head
    <3>2. head \in Seq(Records) /\ after \in Seq(Records)
      BY <1>2, <2>2
    <3>3. /\ head \o after \in Seq(Records) /\ Len(head \o after) = Len(head) + Len(after)
          /\ \A j \in 1..(Len(head) + Len(after)) :
               (head \o after)[j] = IF j <= Len(head) THEN head[j] ELSE after[j - Len(head)]
      BY <3>2, ConcatProperties
    <3>. HIDE DEF b
    <3>. QED  BY <2>2, <3>1, <3>3
  <2>4. b \in Nat /\ a \in Nat /\ DOMAIN before = 1..b /\ DOMAIN after = 1..a /\ DOMAIN all = 1..(b + 1 + a)
    BY <1>1, <1>2, <2>3
  <2>. HIDE DEF a, b
  <2>5. \A j \in 1..b : all[j] = before[j]
    BY <2>2, <2>3, <2>4
  <2>6. all[b + 1] = r
    <3>1. all[b + 1] = head[b + 1] /\ head[b + 1] = <<r>>[(b + 1) - b] /\ (b + 1) - b = 1
      BY <2>2, <2>3, <2>4
    <3>. QED  BY <2>1, <3>1
  <2>7. ASSUME NEW j \in 1..a PROVE all[b + 1 + j] = after[j]
    <3>1. b + 1 + j \in 1..(b + 1 + a) /\ ~(b + 1 + j <= b + 1) /\ (b + 1 + j) - (b + 1) = j
      BY <2>4
    <3>2. all[b + 1 + j] = after[(b + 1 + j) - (b + 1)]
      BY <2>3, <3>1
    <3>. QED  BY <3>1, <3>2
  <2>. QED  BY <2>3, <2>4, <2>5, <2>6, <2>7
<1>. HIDE DEF a, b
<1>9. \A j \in 1..(b + 1 + a) : j \in 1..b \/ j = b + 1 \/ \E k \in 1..a : j = b + 1 + k
  <2>. SUFFICES ASSUME NEW j \in 1..(b + 1 + a), j \notin 1..b, j # b + 1
                PROVE  \E k \in 1..a : j = b + 1 + k
    OBVIOUS
  <2>1. j - (b + 1) \in 1..a /\ j = b + 1 + (j - (b + 1))
    BY <1>8
  <2>. QED  BY <2>1
<1>10. /\ r.savedAt \in Nat
       /\ \A x \in 1..b : before[x].savedAt \in Nat /\ before[x].savedAt > r.savedAt /\ before[x].reportId # r.reportId
       /\ \A x \in 1..a : after[x].savedAt \in Nat /\ after[x].savedAt <= r.savedAt /\ after[x].reportId # r.reportId
       /\ \A x \in 1..b, y \in 1..a : before[x].reportId # after[y].reportId
  <2>1. \A x \in Records : x.savedAt \in Nat
    BY RecordKind
  <2>2. (\A x \in 1..b : before[x] \in Records) /\ (\A x \in 1..a : after[x] \in Records)
    BY <1>1, <1>2, <1>8
  <2>. QED  BY <1>4, <1>5, <1>6, <1>8, <2>1, <2>2
<1>11. NewestFirst(all)
  <2>. DEFINE InOrder(x, y) == x.savedAt >= y.savedAt /\ x.reportId # y.reportId
  <2>a. DOMAIN before = 1..b /\ DOMAIN after = 1..a
    BY <1>8
  <2>1. \A x, y \in 1..b : x < y => InOrder(before[x], before[y])
    <3>1. \A x, y \in DOMAIN before : x < y => InOrder(before[x], before[y])
      BY <1>1 DEF NewestFirst
    <3>. HIDE DEF InOrder
    <3>. QED  BY <2>a, <3>1
  <2>2. \A x, y \in 1..a : x < y => InOrder(after[x], after[y])
    <3>1. \A x, y \in DOMAIN after : x < y => InOrder(after[x], after[y])
      BY <1>2 DEF NewestFirst
    <3>. HIDE DEF InOrder
    <3>. QED  BY <2>a, <3>1
  <2>3. /\ \A x \in 1..b : InOrder(before[x], r)
        /\ \A y \in 1..a : InOrder(r, after[y])
        /\ \A x \in 1..b, y \in 1..a : InOrder(before[x], after[y])
    BY <1>10
  <2>. SUFFICES ASSUME NEW j \in 1..(b + 1 + a), NEW k \in 1..(b + 1 + a), j < k
                PROVE  InOrder(all[j], all[k])
    BY <1>8 DEF NewestFirst
  <2>. HIDE DEF InOrder
  <2>4. b \in Nat /\ a \in Nat
    BY <1>8
  <2>5. CASE j \in 1..b
    <3>1. all[j] = before[j]
      BY <1>8, <2>5
    <3>2. CASE k \in 1..b
      BY <1>8, <2>1, <2>5, <3>1, <3>2
    <3>3. CASE k = b + 1
      BY <1>8, <2>3, <2>5, <3>1, <3>3
    <3>4. ASSUME NEW n \in 1..a, k = b + 1 + n PROVE InOrder(all[j], all[k])
      BY <1>8, <2>3, <2>5, <3>1, <3>4
    <3>. QED  BY <1>9, <3>2, <3>3, <3>4
  <2>6. CASE j = b + 1
    <3>1. all[j] = r
      BY <1>8, <2>6
    <3>2. k \notin 1..b /\ k # b + 1
      BY <2>4, <2>6
    <3>3. PICK n \in 1..a : k = b + 1 + n
      BY <1>9, <3>2
    <3>. QED  BY <1>8, <2>3, <3>1, <3>3
  <2>7. ASSUME NEW m \in 1..a, j = b + 1 + m PROVE InOrder(all[j], all[k])
    <3>1. all[j] = after[m]
      BY <1>8, <2>7
    <3>2. k \notin 1..b /\ k # b + 1
      BY <2>4, <2>7
    <3>3. PICK n \in 1..a : k = b + 1 + n
      BY <1>9, <3>2
    <3>4. all[k] = after[n] /\ m < n
      BY <1>8, <2>4, <2>7, <3>3
    <3>. QED  BY <2>2, <3>1, <3>4
  <2>. QED  BY <1>9, <2>5, <2>6, <2>7
<1>12. ASSUME NEW i \in DOMAIN list PROVE \E j \in DOMAIN all : all[j] = list[i]
  <2>1. CASE list[i] \in Newer
    <3>1. PICK j \in DOMAIN before : before[j] = list[i]
      BY <1>1, <2>1
    <3>. QED  BY <1>8, <3>1
  <2>2. CASE list[i] \in Older
    <3>1. PICK j \in DOMAIN after : after[j] = list[i]
      BY <1>2, <2>2
    <3>2. j \in 1..a /\ b \in Nat /\ a \in Nat
      BY <1>8, <3>1
    <3>3. b + 1 + j \in 1..(b + 1 + a)
      BY <3>2
    <3>4. all[b + 1 + j] = after[j]
      BY <1>8, <3>2
    <3>. QED  BY <1>8, <3>1, <3>3, <3>4
  <2>. QED  BY <1>7, <2>1, <2>2
<1>13. b + 1 \in DOMAIN all /\ all[b + 1] = r
  BY <1>8
<1>14. ASSUME NEW j \in DOMAIN all PROVE all[j] = r \/ \E i \in DOMAIN list : all[j] = list[i]
  <2>1. CASE j \in 1..b
    BY <1>1, <1>8, <2>1
  <2>2. CASE j = b + 1
    BY <1>8, <2>2
  <2>3. ASSUME NEW k \in 1..a, j = b + 1 + k PROVE \E i \in DOMAIN list : all[j] = list[i]
    <3>1. all[j] = after[k] /\ k \in DOMAIN after
      BY <1>8, <2>3
    <3>. QED  BY <1>2, <3>1
  <2>. QED  BY <1>8, <1>9, <2>1, <2>2, <2>3
<1>. QED  BY <1>8, <1>11, <1>12, <1>13, <1>14

-----------------------------------------------------------------------------
(* What is left of the history without a report.                           *)
LEMMA WithoutMeans ==
  ASSUME NEW list \in Seq(Records), NewestFirst(list), NEW id, NEW p, p = Without(list, id)
  PROVE  /\ p \in Seq(Records) /\ NewestFirst(p) /\ Len(p) <= Len(list)
         /\ \A j \in DOMAIN p : p[j].reportId # id /\ \E i \in DOMAIN list : p[j] = list[i]
         /\ \A i \in DOMAIN list : list[i].reportId # id => \E j \in DOMAIN p : p[j] = list[i]
         /\ (\E i \in DOMAIN list : list[i].reportId = id) => Len(p) < Len(list)
<1>. DEFINE kept == {r \in Range(list) : r.reportId # id}
<1>1. \A i \in DOMAIN list : list[i] \in kept <=> list[i].reportId # id
  BY DEF Range
<1>2. p = Filtered(list, kept)
  BY DEF Without
<1>. HIDE DEF kept
<1>3. /\ p \in Seq(Records) /\ NewestFirst(p) /\ Len(p) <= Len(list)
      /\ \A j \in DOMAIN p : p[j] \in kept /\ \E i \in DOMAIN list : p[j] = list[i]
      /\ \A i \in DOMAIN list : list[i] \in kept => \E j \in DOMAIN p : p[j] = list[i]
      /\ (\E i \in DOMAIN list : list[i] \notin kept) => Len(p) < Len(list)
  BY <1>2, FilteredIsOrdered
<1>4. \A j \in DOMAIN p : p[j].reportId # id
  BY <1>3 DEF kept
<1>. QED  BY <1>1, <1>3, <1>4

(* What a save makes of the history.                                       *)
LEMMA SaveMeans ==
  ASSUME HistoryInv, NEW report \in Pasted, Save(report)
  PROVE  \E r \in Records, all \in Seq(Records) :
           /\ history' = Cut(all) /\ NewestFirst(all) /\ r.reportId = report.requestHash
           /\ \E j \in DOMAIN all : all[j] = r
           /\ \A i \in DOMAIN history : history[i].reportId # r.reportId =>
                \E j \in DOMAIN all : all[j] = history[i]
           /\ \A j \in DOMAIN all : all[j] = r \/ \E i \in DOMAIN history : all[j] = history[i]
<1>1. history \in Seq(Records) /\ NewestFirst(history)
  BY DEF Save, HistoryInv
<1>2. PICK now \in 0..MaxTime : history' = Cut(Inserted(Record(report, now), Existing(report)))
  BY DEF Save
<1>. DEFINE r == Record(report, now)
            old == Existing(report)
            all == Inserted(r, old)
<1>3. r \in Records /\ r.reportId = report.requestHash
  BY DEF Records, Record
<1>. HIDE DEF r
<1>4. /\ old \in Seq(Records) /\ NewestFirst(old)
      /\ \A j \in DOMAIN old : old[j].reportId # r.reportId /\ \E i \in DOMAIN history : old[j] = history[i]
      /\ \A i \in DOMAIN history : history[i].reportId # r.reportId => \E j \in DOMAIN old : old[j] = history[i]
  BY <1>1, <1>3, WithoutMeans DEF Existing
<1>. HIDE DEF old
<1>5. /\ all \in Seq(Records) /\ NewestFirst(all)
      /\ \E j \in DOMAIN all : all[j] = r
      /\ \A i \in DOMAIN old : \E j \in DOMAIN all : all[j] = old[i]
      /\ \A j \in DOMAIN all : all[j] = r \/ \E i \in DOMAIN old : all[j] = old[i]
  BY <1>3, <1>4, InsertedIsOrdered
<1>6. history' = Cut(all)
  BY <1>2 DEF r, old
<1>. HIDE DEF all
<1>7. \A i \in DOMAIN history : history[i].reportId # r.reportId => \E j \in DOMAIN all : all[j] = history[i]
  BY <1>4, <1>5
<1>8. \A j \in DOMAIN all : all[j] = r \/ \E i \in DOMAIN history : all[j] = history[i]
  BY <1>4, <1>5
<1>. QED  BY <1>3, <1>5, <1>6, <1>7, <1>8

(* The history is empty at first.                                          *)
LEMMA HistoryInitInv == CopiesInit => HistoryInv
<1>. SUFFICES ASSUME CopiesInit PROVE HistoryInv
  OBVIOUS
<1>1. history = <<>> /\ MaxRecords \in Nat
  BY CopiesAssumption DEF CopiesInit
<1>2. history \in Seq(Records) /\ Len(history) = 0 /\ DOMAIN history = {}
  BY <1>1
<1>. QED  BY <1>1, <1>2 DEF HistoryInv, NewestFirst

(* HistoryInv is inductive: one step per action.                           *)
LEMMA HistoryStepKeepsInv == HistoryInv /\ HistoryStep => HistoryInv'
<1>. SUFFICES ASSUME HistoryInv, HistoryStep, history' # Unreadable
              PROVE  history' \in Seq(Records) /\ Len(history') <= MaxRecords /\ NewestFirst(history')
  BY DEF HistoryInv, NewestFirst
<1>0. MaxRecords \in Nat
  BY CopiesAssumption
<1>1. ASSUME NEW report \in Pasted, Save(report)
      PROVE  history' \in Seq(Records) /\ Len(history') <= MaxRecords /\ NewestFirst(history')
  <2>1. PICK all \in Seq(Records) : history' = Cut(all) /\ NewestFirst(all)
    BY <1>1, SaveMeans
  <2>2. NewestFirst(history')
    BY <2>1, BeginningIsOrdered
  <2>. QED  BY <2>1, <2>2, CutIsBeginning
<1>2. ASSUME history # Unreadable, NEW k \in DOMAIN history, Remove(history[k].reportId)
      PROVE  history' \in Seq(Records) /\ Len(history') <= MaxRecords /\ NewestFirst(history')
  <2>1. history \in Seq(Records) /\ NewestFirst(history) /\ Len(history) <= MaxRecords
    BY <1>2 DEF HistoryInv
  <2>2. history' = Without(history, history[k].reportId)
    BY <1>2 DEF Remove
  <2>3. history' \in Seq(Records) /\ NewestFirst(history') /\ Len(history') <= Len(history)
    BY <2>1, <2>2, WithoutMeans
  <2>4. Len(history') \in Nat /\ Len(history) \in Nat
    BY <2>1, <2>3
  <2>. QED  BY <1>0, <2>1, <2>3, <2>4
<1>3. CASE Clear
  <2>1. history' = <<>>
    BY <1>3 DEF Clear
  <2>2. history' \in Seq(Records) /\ Len(history') = 0 /\ DOMAIN history' = {}
    BY <2>1
  <2>. QED  BY <1>0, <2>2 DEF NewestFirst
<1>4. CASE Spoil
  BY <1>4 DEF Spoil
<1>. QED  BY <1>1, <1>2, <1>3, <1>4 DEF HistoryStep

(* In a list without repetition there are as many reports as records.      *)
LEMMA OneOfEach ==
  ASSUME NEW list \in Seq(Records), NewestFirst(list)
  PROVE  IsFiniteSet(ReportIds(list)) /\ Cardinality(ReportIds(list)) = Len(list)
<1>. DEFINE ids == [i \in 1..Len(list) |-> list[i].reportId]
<1>1. DOMAIN list = 1..Len(list) /\ Len(list) \in Nat
  OBVIOUS
<1>2. \A i, j \in 1..Len(list) : ids[i] = ids[j] => i = j
  <2>. SUFFICES ASSUME NEW i \in 1..Len(list), NEW j \in 1..Len(list), i # j
                PROVE  list[i].reportId # list[j].reportId
    OBVIOUS
  <2>1. i < j \/ j < i
    BY <1>1
  <2>. QED  BY <1>1, <2>1 DEF NewestFirst
<1>3. ids \in Bijection(1..Len(list), ReportIds(list))
  <2>1. ids \in [1..Len(list) -> ReportIds(list)]
    BY <1>1 DEF ReportIds
  <2>2. \A t \in ReportIds(list) : \E i \in 1..Len(list) : ids[i] = t
    BY <1>1 DEF ReportIds
  <2>. HIDE DEF ids
  <2>3. ids \in Injection(1..Len(list), ReportIds(list))
    BY <1>2, <2>1 DEF Injection, IsInjective
  <2>4. ids \in Surjection(1..Len(list), ReportIds(list))
    BY <2>1, <2>2 DEF Surjection
  <2>. QED  BY <2>3, <2>4 DEF Bijection
<1>4. IsFiniteSet(1..Len(list)) /\ Cardinality(1..Len(list)) = Len(list)
  BY <1>1, FS_Interval
<1>. HIDE DEF ids
<1>. QED  BY <1>3, <1>4, FS_Bijection DEF ExistsBijection

Lost == {i \in DOMAIN history : history[i].reportId \notin ReportIds(history')}

(* A save loses only what is cut, and what is cut is oldest.  The report   *)
(* that is saved is not among it: either it takes the place of its older   *)
(* copy and nothing is cut, or it was not there.                           *)
LEMMA SavingLosesOldest ==
  ASSUME HistoryInv, NEW report \in Pasted, Save(report), NEW i \in Lost
  PROVE  /\ Len(history') = MaxRecords
         /\ \A j \in DOMAIN history' : history'[j].savedAt >= history[i].savedAt
<1>1. history \in Seq(Records) /\ NewestFirst(history) /\ Len(history) <= MaxRecords
  BY DEF Save, HistoryInv
<1>2. PICK r \in Records, all \in Seq(Records) :
        /\ history' = Cut(all) /\ NewestFirst(all) /\ r.reportId = report.requestHash
        /\ \E j \in DOMAIN all : all[j] = r
        /\ \A k \in DOMAIN history : history[k].reportId # r.reportId =>
             \E j \in DOMAIN all : all[j] = history[k]
        /\ \A j \in DOMAIN all : all[j] = r \/ \E k \in DOMAIN history : all[j] = history[k]
  BY SaveMeans
<1>3. /\ history' \in Seq(Records) /\ Len(history') <= MaxRecords
      /\ Len(history') = Len(all) \/ (Len(history') = MaxRecords /\ Len(all) >= MaxRecords)
      /\ \A j \in 1..Len(history') : j \in 1..Len(all) /\ history'[j] = all[j]
  BY <1>2, CutIsBeginning
<1>4. /\ DOMAIN all = 1..Len(all) /\ DOMAIN history' = 1..Len(history')
      /\ Len(all) \in Nat /\ Len(history') \in Nat /\ Len(history) \in Nat /\ MaxRecords \in Nat
  BY <1>1, <1>2, <1>3, CopiesAssumption
<1>a. /\ Len(history) <= MaxRecords /\ Len(history') <= MaxRecords
      /\ Len(history') = Len(all) \/ (Len(history') = MaxRecords /\ Len(all) >= MaxRecords)
      /\ Len(all) \in Nat /\ Len(history') \in Nat /\ Len(history) \in Nat /\ MaxRecords \in Nat
  BY <1>1, <1>3, <1>4
<1>5. i \in DOMAIN history /\ \A j \in DOMAIN history' : history'[j].reportId # history[i].reportId
  BY DEF Lost, ReportIds
<1>6. \A p \in DOMAIN all : all[p].reportId = history[i].reportId => p > Len(history')
  <2>. SUFFICES ASSUME NEW p \in DOMAIN all, all[p].reportId = history[i].reportId, p <= Len(history')
                PROVE  FALSE
    BY <1>4
  <2>1. p \in 1..Len(history')
    BY <1>4
  <2>2. history'[p] = all[p] /\ p \in DOMAIN history'
    BY <1>3, <1>4, <2>1
  <2>. QED  BY <1>5, <2>2
<1>7. history[i].reportId # r.reportId
  <2>. SUFFICES ASSUME history[i].reportId = r.reportId PROVE FALSE
    OBVIOUS
  <2>1. ReportIds(all) \subseteq ReportIds(history)
    BY <1>2, <1>5 DEF ReportIds
  <2>2. Cardinality(ReportIds(all)) = Len(all)
    BY <1>2, OneOfEach
  <2>3. IsFiniteSet(ReportIds(history)) /\ Cardinality(ReportIds(history)) = Len(history)
    BY <1>1, OneOfEach
  <2>4. Len(all) <= Len(history)
    BY <2>1, <2>2, <2>3, FS_Subset
  <2>5. Len(history') = Len(all)
    BY <1>a, <2>4
  <2>6. PICK p \in DOMAIN all : all[p] = r
    BY <1>2
  <2>7. p > Len(history')
    BY <1>6, <2>6
  <2>. QED  BY <1>4, <2>5, <2>7
<1>8. PICK p \in DOMAIN all : all[p] = history[i]
  BY <1>2, <1>5, <1>7
<1>9. p > Len(history') /\ p \in 1..Len(all)
  BY <1>4, <1>6, <1>8
<1>10. Len(history') = MaxRecords
  BY <1>a, <1>9
<1>11. ASSUME NEW j \in DOMAIN history' PROVE history'[j].savedAt >= history[i].savedAt
  <2>1. j \in 1..Len(history')
    BY <1>4
  <2>2. j \in 1..Len(all) /\ history'[j] = all[j]
    BY <1>3, <2>1
  <2>3. j < p
    BY <1>a, <1>9, <2>1
  <2>4. all[j].savedAt >= all[p].savedAt
    BY <1>2, <1>4, <2>2, <2>3 DEF NewestFirst
  <2>. QED  BY <1>8, <2>2, <2>4
<1>. QED  BY <1>10, <1>11

(* Removing loses the one that is removed.                                 *)
LEMMA RemovingLosesOne ==
  ASSUME HistoryInv, history # Unreadable, NEW k \in DOMAIN history, Remove(history[k].reportId)
  PROVE  Len(history') < Len(history) /\ Cardinality(Lost) = 1
<1>. DEFINE id == history[k].reportId
<1>1. history \in Seq(Records) /\ NewestFirst(history)
  BY DEF HistoryInv
<1>2. history' = Without(history, id)
  BY DEF Remove
<1>3. /\ \A j \in DOMAIN history' : history'[j].reportId # id
      /\ \A i \in DOMAIN history : history[i].reportId # id => \E j \in DOMAIN history' : history'[j] = history[i]
      /\ (\E i \in DOMAIN history : history[i].reportId = id) => Len(history') < Len(history)
  <2>. HIDE DEF id
  <2>. QED  BY <1>1, <1>2, WithoutMeans
<1>4. ASSUME NEW i \in DOMAIN history, i # k PROVE history[i].reportId # id
  <2>1. i < k \/ k < i
    BY <1>1, <1>4
  <2>. QED  BY <1>1, <2>1 DEF NewestFirst
<1>5. Lost = {k}
  BY <1>3, <1>4 DEF Lost, ReportIds
<1>. QED  BY <1>3, <1>5, FS_Singleton

(* What the history keeps, of each step of it.                             *)
LEMMA SavedStays ==
  ASSUME HistoryInv, HistoryStep, history # Unreadable, history' # Unreadable
  PROVE  /\ Cardinality(ReportIds(history')) = Len(history')
         /\ Lost # {} =>
              \/ history' = <<>>
              \/ Len(history') < Len(history) /\ Cardinality(Lost) = 1
              \/ /\ Len(history') = MaxRecords
                 /\ \A i \in Lost, j \in DOMAIN history' : history'[j].savedAt >= history[i].savedAt
<1>1. history' \in Seq(Records) /\ NewestFirst(history')
  <2>1. HistoryInv'
    BY HistoryStepKeepsInv
  <2>. QED  BY <2>1 DEF HistoryInv, NewestFirst
<1>2. Cardinality(ReportIds(history')) = Len(history')
  BY <1>1, OneOfEach
<1>3. ASSUME NEW report \in Pasted, Save(report), Lost # {}
      PROVE  /\ Len(history') = MaxRecords
             /\ \A i \in Lost, j \in DOMAIN history' : history'[j].savedAt >= history[i].savedAt
  BY <1>3, SavingLosesOldest
<1>4. ASSUME NEW k \in DOMAIN history, Remove(history[k].reportId)
      PROVE  Len(history') < Len(history) /\ Cardinality(Lost) = 1
  BY <1>4, RemovingLosesOne
<1>. QED  BY <1>2, <1>3, <1>4 DEF HistoryStep, Clear, Spoil

-----------------------------------------------------------------------------
(* Requests with one hash have the same reports.                           *)
LEMMA SameHashSameReport ==
  ASSUME NEW first \in Body, NEW second \in Body, HashOf(first) = HashOf(second),
         NEW report, IsReportOf(first, report)
  PROVE  IsReportOf(second, report)
<1>1. /\ first.network = second.network
      /\ first.unsignedTransactionGroup = second.unsignedTransactionGroup
      /\ first.policyProfile = second.policyProfile
      /\ first.accountStateChecks = second.accountStateChecks
      /\ (IF first.policy = None THEN EmptyPolicy ELSE first.policy)
           = (IF second.policy = None THEN EmptyPolicy ELSE second.policy)
  BY DEF HashOf
<1>2. Judgement(first) = Judgement(second)
  BY <1>1 DEF Judgement
<1>3. \A context : Analysis(first, context) = Analysis(second, context)
  BY <1>1, <1>2 DEF Analysis
<1>. QED  BY <1>1, <1>3 DEF IsReportOf, BindInspectionReport

(* A report of a plain request, and what is cut down of it, verifies with  *)
(* both verifiers: nothing is cut that the checksum is taken of.           *)
LEMMA PlainReportVerifies ==
  ASSUME NEW request \in Body, request.policyProfile = None, request.accountStateChecks = None,
         NEW report, IsReportOf(request, report)
  PROVE  /\ VerifyInspectionReportBinding(request, report)
         /\ BrowserVerifies(request, report)
         /\ Sanitized(report) = report
<1>. DEFINE plain == Analysis(request, None)
<1>1. report = BindInspectionReport(request, plain)
  BY DEF IsReportOf
<1>2. /\ report.analysis = plain /\ report.requestHash = HashOf(request)
      /\ report.reportChecksum = Checksum(HashOf(request), plain)
  BY <1>1 DEF BindInspectionReport
<1>3. DOMAIN plain = {"judgement", "release"}
  BY DEF Analysis
<1>4. plain = [field \in {"judgement", "release"} |-> plain[field]]
  BY DEF Analysis
<1>. HIDE DEF plain
<1>5. ASSUME NEW fields, {"judgement", "release"} \subseteq fields PROVE Kept(plain, fields) = plain
  <2>1. fields \intersect DOMAIN plain = {"judgement", "release"}
    BY <1>3, <1>5
  <2>. QED  BY <1>4, <2>1 DEF Kept, Restrict
<1>6. [request EXCEPT !.accountStateChecks = None] = request
  BY DEF Body
<1>7. BrowserHashOf(request) = HashOf(request)
  BY <1>6 DEF BrowserHashOf
<1>8. VerifyInspectionReportBinding(request, report)
  BY <1>2, <1>5 DEF VerifyInspectionReportBinding
<1>9. BrowserVerifies(request, report)
  BY <1>2, <1>5, <1>7 DEF BrowserVerifies
<1>10. Sanitized(report) = report
  <2>1. Kept(report.analysis, {"judgement", "release"}) = report.analysis
    BY <1>2, <1>5
  <2>2. [report EXCEPT !.analysis = report.analysis] = report
    BY <1>1 DEF BindInspectionReport
  <2>. QED  BY <2>1, <2>2 DEF Sanitized
<1>. QED  BY <1>8, <1>9, <1>10
=============================================================================
