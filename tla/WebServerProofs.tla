--------------------------- MODULE WebServerProofs ---------------------------
(***************************************************************************)
(* Proofs about WebServer, for any number of clients, descriptors, stops   *)
(* and requests, and for tables of any size.                               *)
(***************************************************************************)
EXTENDS WebServer, FiniteSetTheorems, TLAPS

----------------------------------------------------------------------------
(* The tables of sessions and challenges. *)

Entry == [n : Nat, live : BOOLEAN]

\* A table q with max places, from which the numbers of S have not expired, when top is
\* the last number that was issued: entries are ordered by age, the expired ones are the
\* oldest, and a number that had to give way is older than all of a full, live table.
Sized(q, max) == q \in Seq(Entry) /\ Len(q) <= max

Issued(q, S, top) ==
  /\ S \subseteq 1..top
  /\ \A i \in 1..Len(q) : q[i].n \in 1..top /\ (q[i].live => q[i].n \in S)

Ordered(q) ==
  \A i, j \in 1..Len(q) : i < j => q[i].n < q[j].n /\ (q[i].live => q[j].live)

OldestExpired(q) == \E k \in 0..Len(q) : \A i \in 1..Len(q) : q[i].live <=> i > k

Held(q, n) == \E i \in 1..Len(q) : q[i].n = n /\ q[i].live

Outlived(q, n) == \A i \in 1..Len(q) : q[i].live /\ n < q[i].n

NoneLost(q, S, max) == \A n \in S : Held(q, n) \/ (Len(q) = max /\ Outlived(q, n))

TableOK(q, S, max, top) ==
  /\ Sized(q, max) /\ Issued(q, S, top)
  /\ Ordered(q) /\ OldestExpired(q)
  /\ NoneLost(q, S, max)

\* A new entry at the end of a table with room for it.
LEMMA AppendKeeps ==
  ASSUME NEW q, NEW S, NEW max \in Nat \ {0}, NEW top \in Nat, NEW n \in Nat,
         TableOK(q, S, max, top), n > top, Len(q) < max
  PROVE  TableOK(Append(q, [n |-> n, live |-> TRUE]), S \cup {n}, max, n)
<1> DEFINE r == Append(q, [n |-> n, live |-> TRUE])
<1>1. q \in Seq(Entry) /\ Len(q) \in Nat
  BY DEF TableOK, Sized
<1>2. r \in Seq(Entry) /\ Len(r) = Len(q) + 1
  BY <1>1 DEF Entry
<1>3. /\ \A i \in 1..Len(q) : r[i] = q[i]
      /\ r[Len(q) + 1].n = n /\ r[Len(q) + 1].live
  BY <1>1
<1> HIDE DEF r
<1>4. Sized(r, max)
  BY <1>1, <1>2 DEF Sized
<1>5. Issued(r, S \cup {n}, n)
  <2>1. Issued(q, S, top)
    BY DEF TableOK
  <2> QED
    BY <2>1, <1>1, <1>2, <1>3 DEF Issued
<1>6. Ordered(r)
  <2> SUFFICES ASSUME NEW i \in 1..Len(r), NEW j \in 1..Len(r), i < j
               PROVE  r[i].n < r[j].n /\ (r[i].live => r[j].live)
    BY DEF Ordered
  <2>1. i \in 1..Len(q) /\ r[i].n \in 1..top
    BY <1>1, <1>2, <1>3 DEF TableOK, Issued
  <2>2. CASE j = Len(q) + 1
    BY <2>1, <2>2, <1>3
  <2>3. CASE j # Len(q) + 1
    <3>1. j \in 1..Len(q)
      BY <2>3, <1>1, <1>2
    <3>2. r[i] = q[i] /\ r[j] = q[j]
      BY <2>1, <3>1, <1>3
    <3> QED
      BY <2>1, <3>1, <3>2 DEF TableOK, Ordered
  <2> QED
    BY <2>2, <2>3
<1>7. NoneLost(r, S \cup {n}, max)
  <2> SUFFICES ASSUME NEW m \in S \cup {n}
               PROVE  Held(r, m)
    BY DEF NoneLost
  <2>1. CASE m = n
    BY <2>1, <1>1, <1>2, <1>3 DEF Held
  <2>2. CASE m \in S
    <3>1. Held(q, m)
      BY <2>2, <1>1 DEF TableOK, NoneLost
    <3> QED
      BY <3>1, <1>1, <1>2, <1>3 DEF Held
  <2> QED
    BY <2>1, <2>2
<1>8. OldestExpired(r)
  <2>1. PICK k \in 0..Len(q) : \A i \in 1..Len(q) : q[i].live <=> i > k
    BY DEF TableOK, OldestExpired
  <2>2. k \in 0..Len(r) /\ \A i \in 1..Len(r) : r[i].live <=> i > k
    BY <2>1, <1>1, <1>2, <1>3
  <2> QED
    BY <2>2 DEF OldestExpired
<1> QED
  BY <1>4, <1>5, <1>6, <1>7, <1>8 DEF TableOK, r

\* What gives way is older than the rest of the table, and the rest is live if it was.
LEMMA OldestGivesWay ==
  ASSUME NEW q, NEW S, NEW max \in Nat \ {0}, NEW top \in Nat, NEW n \in Nat,
         TableOK(q, S, max, top), n > top, Len(q) = max
  PROVE  TableOK(Append(Tail(q), [n |-> n, live |-> TRUE]), S \cup {n}, max, n)
<1> DEFINE t == Tail(q)
           r == Append(t, [n |-> n, live |-> TRUE])
<1>1. q \in Seq(Entry) /\ Len(q) \in Nat
  BY DEF TableOK, Sized
<1>2. t \in Seq(Entry) /\ Len(t) = max - 1 /\ \A i \in 1..Len(t) : t[i] = q[i + 1]
  BY <1>1
<1> HIDE DEF t
<1>3. r \in Seq(Entry) /\ Len(r) = max
  BY <1>2 DEF Entry
<1>4. /\ \A i \in 1..(max - 1) : r[i] = q[i + 1]
      /\ r[max].n = n /\ r[max].live
  BY <1>2
<1> HIDE DEF r
<1>5. Sized(r, max)
  BY <1>3 DEF Sized
<1>6. Issued(r, S \cup {n}, n)
  <2>1. Issued(q, S, top)
    BY DEF TableOK
  <2>2. ASSUME NEW i \in 1..max
        PROVE  r[i].n \in 1..n /\ (r[i].live => r[i].n \in S \cup {n})
    <3>1. CASE i = max
      BY <3>1, <1>4
    <3>2. CASE i # max
      BY <3>2, <2>1, <1>4 DEF Issued
    <3> QED
      BY <3>1, <3>2
  <2>3. S \cup {n} \subseteq 1..n
    BY <2>1 DEF Issued
  <2> QED
    BY <2>2, <2>3, <1>3 DEF Issued
<1>7. Ordered(r)
  <2> SUFFICES ASSUME NEW i \in 1..max, NEW j \in 1..max, i < j
               PROVE  r[i].n < r[j].n /\ (r[i].live => r[j].live)
    BY <1>3 DEF Ordered
  <2>1. i + 1 \in 1..max /\ r[i] = q[i + 1] /\ q[i + 1].n \in 1..top
    BY <1>4 DEF TableOK, Issued
  <2>2. CASE j = max
    BY <2>1, <2>2, <1>4
  <2>3. CASE j # max
    <3>1. j + 1 \in 1..max /\ r[j] = q[j + 1] /\ i + 1 < j + 1
      BY <2>3, <1>4
    <3> QED
      BY <2>1, <3>1 DEF TableOK, Ordered
  <2> QED
    BY <2>2, <2>3
<1>8. NoneLost(r, S \cup {n}, max)
  <2> SUFFICES ASSUME NEW m \in S \cup {n}
               PROVE  Held(r, m) \/ Outlived(r, m)
    BY <1>3 DEF NoneLost
  <2>1. CASE m = n
    BY <2>1, <1>3, <1>4 DEF Held
  <2>2. ASSUME m \in S, NEW k \in 1..2, \A j \in k..max : q[j].live /\ m < q[j].n
        PROVE  Outlived(r, m)
    <3>1. m \in 1..top
      BY <2>2 DEF TableOK, Issued
    <3>2. ASSUME NEW j \in 1..(max - 1) PROVE r[j].live /\ m < r[j].n
      <4>1. j + 1 \in k..max /\ r[j] = q[j + 1]
        BY <1>4
      <4> QED
        BY <4>1, <2>2
    <3> QED
      BY <3>1, <3>2, <1>3, <1>4 DEF Outlived
  <2>3. CASE m \in S /\ Outlived(q, m)
    BY <2>2, <2>3 DEF Outlived
  <2>4. CASE m \in S /\ Held(q, m)
    <3>1. PICK i \in 1..max : q[i].n = m /\ q[i].live
      BY <2>4 DEF Held
    <3>2. CASE i = 1
      <4>1. \A j \in 2..max : q[j].live /\ m < q[j].n
        BY <3>1, <3>2 DEF TableOK, Ordered
      <4> QED
        BY <4>1, <2>2, <2>4
    <3>3. CASE i # 1
      <4>1. i - 1 \in 1..(max - 1) /\ r[i - 1] = q[(i - 1) + 1] /\ (i - 1) + 1 = i
        BY <3>3, <1>4
      <4> QED
        BY <4>1, <3>1, <1>3 DEF Held
    <3> QED
      BY <3>2, <3>3
  <2> QED
    BY <2>1, <2>3, <2>4 DEF TableOK, NoneLost
<1>9. OldestExpired(r)
  <2>1. PICK k \in 0..max : \A i \in 1..max : q[i].live <=> i > k
    BY DEF TableOK, OldestExpired
  <2>2. PICK h \in 0..max : h = IF k = 0 THEN 0 ELSE k - 1
    OBVIOUS
  <2>3. ASSUME NEW i \in 1..max PROVE r[i].live <=> i > h
    <3>1. CASE i = max
      BY <3>1, <1>4, <2>2
    <3>2. CASE i # max
      <4>1. i + 1 \in 1..max /\ r[i] = q[i + 1]
        BY <3>2, <1>4
      <4>2. r[i].live <=> i + 1 > k
        BY <4>1, <2>1
      <4> QED
        BY <4>2, <2>2
    <3> QED
      BY <3>1, <3>2
  <2> QED
    BY <2>3, <1>3 DEF OldestExpired
<1> QED
  BY <1>5, <1>6, <1>7, <1>8, <1>9 DEF TableOK, r, t

\* Push: of a full table the oldest entry, live or not, gives way.
LEMMA PushKeeps ==
  ASSUME NEW q, NEW S, NEW max \in Nat \ {0}, NEW top \in Nat, NEW n \in Nat,
         TableOK(q, S, max, top), n > top
  PROVE  TableOK(Push(q, n, max), S \cup {n}, max, n)
<1>1. Len(q) \in Nat /\ Len(q) <= max
  BY DEF TableOK, Sized
<1>2. CASE Len(q) < max
  BY <1>2, <1>1, AppendKeeps DEF Push
<1>3. CASE Len(q) = max
  BY <1>3, OldestGivesWay DEF Push
<1> QED
  BY <1>1, <1>2, <1>3

\* Numbers issued for something else leave a table as it is.
LEMMA TopMayGrow ==
  ASSUME NEW q, NEW S, NEW max \in Nat \ {0}, NEW top \in Nat, NEW n \in Nat,
         TableOK(q, S, max, top), n >= top
  PROVE  TableOK(q, S, max, n)
BY DEF TableOK, Issued

\* An empty table has lost nothing.
LEMMA EmptyTable ==
  ASSUME NEW max \in Nat \ {0}, NEW top \in Nat
  PROVE  TableOK(<<>>, {}, max, top)
BY DEF TableOK, Sized, Issued, Ordered, OldestExpired, NoneLost

\* Changing whether an entry is live keeps its number.
LEMMA SwitchedOff ==
  ASSUME NEW e \in Entry, NEW b \in BOOLEAN
  PROVE  /\ [e EXCEPT !.live = b] \in Entry
         /\ [e EXCEPT !.live = b].n = e.n
         /\ [e EXCEPT !.live = b].live = b
BY DEF Entry

\* The k oldest entries expire.
LEMMA ExpiryKeeps ==
  ASSUME NEW q, NEW S, NEW max \in Nat \ {0}, NEW top \in Nat, NEW k \in 1..Len(q),
         TableOK(q, S, max, top), q[k].live
  PROVE  TableOK(Expired(q, k), S \ 1..q[k].n, max, top)
<1> DEFINE r == Expired(q, k)
<1>1. q \in Seq(Entry) /\ Len(q) \in Nat /\ DOMAIN q = 1..Len(q)
  BY DEF TableOK, Sized
<1>2. \A i \in 1..Len(q) : r[i] = [q[i] EXCEPT !.live = q[i].live /\ i > k]
  BY <1>1 DEF Expired
<1>3. \A i \in 1..Len(q) : r[i] \in Entry /\ r[i].n = q[i].n
  <2> SUFFICES ASSUME NEW i \in 1..Len(q) PROVE r[i] \in Entry /\ r[i].n = q[i].n
    OBVIOUS
  <2>1. q[i] \in Entry /\ (q[i].live /\ i > k) \in BOOLEAN
    BY <1>1
  <2> QED
    BY <2>1, <1>2, SwitchedOff
<1>4. \A i \in 1..Len(q) : r[i].live <=> (q[i].live /\ i > k)
  <2> SUFFICES ASSUME NEW i \in 1..Len(q) PROVE r[i].live = (q[i].live /\ i > k)
    OBVIOUS
  <2>1. q[i] \in Entry /\ (q[i].live /\ i > k) \in BOOLEAN
    BY <1>1
  <2> QED
    BY <2>1, <1>2, SwitchedOff
<1>5. r \in Seq(Entry) /\ Len(r) = Len(q)
  <2>1. r = [i \in 1..Len(q) |-> r[i]]
    BY <1>1 DEF Expired
  <2> QED
    BY <2>1, <1>1, <1>3
<1> HIDE DEF r
<1>6. Issued(r, S \ 1..q[k].n, top)
  <2>1. ASSUME NEW i \in 1..Len(q)
        PROVE  r[i].n \in 1..top /\ (r[i].live => r[i].n \in S \ 1..q[k].n)
    <3>1. r[i].n = q[i].n /\ q[i].n \in 1..top /\ q[k].n \in 1..top
      BY <1>3 DEF TableOK, Issued
    <3>2. ASSUME r[i].live PROVE q[i].n \in S /\ q[k].n < q[i].n
      BY <3>2, <1>4 DEF TableOK, Issued, Ordered
    <3> QED
      BY <3>1, <3>2
  <2> QED
    BY <2>1, <1>5 DEF TableOK, Issued
<1>7. Ordered(r)
  BY <1>3, <1>4, <1>5 DEF TableOK, Ordered
<1>8. NoneLost(r, S \ 1..q[k].n, max)
  <2> SUFFICES ASSUME NEW n \in S, n \notin 1..q[k].n
               PROVE  Held(r, n)
    BY DEF NoneLost
  <2>0. n \in 1..top /\ q[k].n \in 1..top
    BY DEF TableOK, Issued
  <2>1. n \in 1..top /\ q[k].n \in 1..top /\ n > q[k].n
    BY <2>0
  <2>2. ~Outlived(q, n)
    BY <2>1 DEF Outlived
  <2>3. PICK i \in 1..Len(q) : q[i].n = n /\ q[i].live
    BY <2>2 DEF TableOK, NoneLost, Held
  <2>4. i > k
    <3>1. CASE i < k
      BY <3>1, <2>1, <2>3 DEF TableOK, Ordered
    <3>2. i # k
      BY <2>1, <2>3
    <3> QED
      BY <3>1, <3>2, <1>1
  <2> QED
    BY <2>3, <2>4, <1>3, <1>4, <1>5 DEF Held
<1>9. OldestExpired(r)
  <2>1. ASSUME NEW i \in 1..Len(q) PROVE r[i].live <=> i > k
    BY <1>1, <1>4 DEF TableOK, Ordered
  <2> QED
    BY <2>1, <1>1, <1>5 DEF OldestExpired
<1> QED
  BY <1>5, <1>6, <1>7, <1>8, <1>9 DEF TableOK, Sized, r

\* The entries that are left are the last ones, in their order.
LEMMA UnexpiredIsSuffix ==
  ASSUME NEW q \in Seq(Entry), NEW k \in 0..Len(q),
         \A i \in 1..Len(q) : q[i].live <=> i > k
  PROVE  /\ Unexpired(q) \in Seq(Entry) /\ Len(Unexpired(q)) = Len(q) - k
         /\ \A j \in 1..(Len(q) - k) : Unexpired(q)[j] = q[j + k]
<1> DEFINE left    == {i \in DOMAIN q : q[i].live}
           upto(i) == {h \in left : h <= i}
           nth(j)  == CHOOSE i \in left : Cardinality(upto(i)) = j
<1>1. Len(q) \in Nat /\ DOMAIN q = 1..Len(q) /\ k \in Nat /\ k <= Len(q)
  OBVIOUS
<1>2. left = (k + 1)..Len(q)
  BY <1>1
<1> HIDE DEF left
<1>3. Cardinality(left) = Len(q) - k
  <2>1. Cardinality((k + 1)..Len(q)) = IF k + 1 > Len(q) THEN 0 ELSE Len(q) - (k + 1) + 1
    <3>1. k + 1 \in Int /\ Len(q) \in Int
      BY <1>1
    <3> QED
      BY <3>1, FS_Interval
  <2> QED
    BY <2>1, <1>1, <1>2
<1>4. ASSUME NEW j \in 1..(Len(q) - k) PROVE nth(j) = j + k
  <2>1. ASSUME NEW i \in left PROVE Cardinality(upto(i)) = i - k
    <3>1. upto(i) = (k + 1)..i
      BY <1>1, <1>2
    <3> HIDE DEF upto
    <3>2. k + 1 \in Int /\ i \in Int /\ i >= k + 1
      BY <1>1, <1>2
    <3>3. Cardinality((k + 1)..i) = IF k + 1 > i THEN 0 ELSE i - (k + 1) + 1
      BY <3>2, FS_Interval
    <3>4. (IF k + 1 > i THEN 0 ELSE i - (k + 1) + 1) = i - k
      BY <3>2, <1>1
    <3> QED
      BY <3>1, <3>3, <3>4
  <2> HIDE DEF upto
  <2>2. j + k \in left
    BY <1>1, <1>2
  <2>3. Cardinality(upto(j + k)) = j
    BY <2>1, <2>2, <1>1
  <2>4. nth(j) \in left /\ Cardinality(upto(nth(j))) = j
    BY <2>2, <2>3
  <2> HIDE DEF nth
  <2>5. nth(j) - k = j
    BY <2>1, <2>4
  <2>6. nth(j) \in Int
    BY <2>4, <1>1, <1>2
  <2> QED
    BY <2>5, <2>6, <1>1
<1>5. Unexpired(q) = [j \in 1..(Len(q) - k) |-> q[nth(j)]]
  BY <1>3 DEF Unexpired, left
<1> HIDE DEF nth
<1>6. Unexpired(q) = [j \in 1..(Len(q) - k) |-> q[j + k]]
  BY <1>4, <1>5
<1>7. \A j \in 1..(Len(q) - k) : q[j + k] \in Entry
  BY <1>1
<1> QED
  BY <1>1, <1>6, <1>7

\* create_nonce loses nothing by dropping what has expired.
LEMMA DroppingKeeps ==
  ASSUME NEW q, NEW S, NEW max \in Nat \ {0}, NEW top \in Nat, TableOK(q, S, max, top)
  PROVE  TableOK(Unexpired(q), S, max, top)
<1> DEFINE u == Unexpired(q)
<1>1. q \in Seq(Entry) /\ Len(q) \in Nat
  BY DEF TableOK, Sized
<1>2. PICK k \in 0..Len(q) : \A i \in 1..Len(q) : q[i].live <=> i > k
  BY DEF TableOK, OldestExpired
<1>3. /\ u \in Seq(Entry) /\ Len(u) = Len(q) - k
      /\ \A j \in 1..(Len(q) - k) : u[j] = q[j + k]
  BY <1>1, <1>2, UnexpiredIsSuffix
<1> HIDE DEF u
<1>4. Sized(u, max)
  BY <1>1, <1>3 DEF TableOK, Sized
<1>5. ASSUME NEW j \in 1..Len(u)
      PROVE  j + k \in 1..Len(q) /\ u[j] = q[j + k] /\ q[j + k].live
  BY <1>1, <1>2, <1>3
<1>6. Issued(u, S, top)
  BY <1>5 DEF TableOK, Issued
<1>7. Ordered(u)
  <2> SUFFICES ASSUME NEW i \in 1..Len(u), NEW j \in 1..Len(u), i < j
               PROVE  u[i].n < u[j].n /\ u[j].live
    BY DEF Ordered
  <2>1. i + k < j + k
    BY <1>1, <1>3
  <2> QED
    BY <2>1, <1>5 DEF TableOK, Ordered
<1>8. NoneLost(u, S, max)
  <2> SUFFICES ASSUME NEW n \in S PROVE Held(u, n) \/ (Len(u) = max /\ Outlived(u, n))
    BY DEF NoneLost
  <2>1. CASE Held(q, n)
    <3>1. PICK i \in 1..Len(q) : q[i].n = n /\ q[i].live
      BY <2>1 DEF Held
    <3>2. i - k \in 1..Len(u) /\ (i - k) + k = i
      BY <3>1, <1>1, <1>2, <1>3
    <3> QED
      BY <3>1, <3>2, <1>5 DEF Held
  <2>2. CASE Len(q) = max /\ Outlived(q, n)
    <3>1. k = 0
      BY <2>2, <1>1, <1>2 DEF Outlived
    <3>2. Outlived(u, n)
      BY <2>2, <1>5 DEF Outlived
    <3> QED
      BY <2>2, <3>1, <3>2, <1>1, <1>3
  <2> QED
    BY <2>1, <2>2 DEF TableOK, NoneLost
<1>9. OldestExpired(u)
  <2>1. Len(u) \in Nat
    BY <1>1, <1>3
  <2>2. 0 \in 0..Len(u) /\ \A j \in 1..Len(u) : u[j].live <=> j > 0
    BY <2>1, <1>5
  <2> QED
    BY <2>2 DEF OldestExpired
<1> QED
  BY <1>4, <1>6, <1>7, <1>8, <1>9 DEF TableOK, u

\* A number that is not held has max newer ones, none of them expired.
LEMMA NotHeldIsOld ==
  ASSUME NEW q, NEW S, NEW max \in Nat \ {0}, NEW top \in Nat, TableOK(q, S, max, top),
         NEW n \in S, Cardinality(Newer(S, n)) < max
  PROVE  Valid(q, n)
<1>1. q \in Seq(Entry) /\ Len(q) \in Nat /\ DOMAIN q = 1..Len(q)
  BY DEF TableOK, Sized
<1>2. n \in 1..top
  BY DEF TableOK, Issued
<1>3. CASE Held(q, n)
  BY <1>1, <1>2, <1>3 DEF Held, Valid
<1>4. CASE Len(q) = max /\ Outlived(q, n)
  <2> DEFINE f == [i \in 1..max |-> q[i].n]
  <2>1. \A i \in 1..max : q[i].n \in Newer(S, n)
    BY <1>4 DEF TableOK, Issued, Outlived, Newer
  <2>2. \A i, j \in 1..max : q[i].n = q[j].n => i = j
    <3> SUFFICES ASSUME NEW i \in 1..max, NEW j \in 1..max, q[i].n = q[j].n, i # j PROVE FALSE
      OBVIOUS
    <3>1. q[i].n \in 1..top /\ q[j].n \in 1..top
      BY <1>4 DEF TableOK, Issued
    <3>2. i < j \/ j < i
      OBVIOUS
    <3> QED
      BY <3>1, <3>2, <1>4 DEF TableOK, Ordered
  <2>3. f \in Injection(1..max, Newer(S, n))
    BY <2>1, <2>2 DEF Injection, IsInjective
  <2>4. IsFiniteSet(Newer(S, n))
    <3>1. Newer(S, n) \in SUBSET (1..top)
      BY DEF TableOK, Issued, Newer
    <3>2. IsFiniteSet(1..top)
      BY FS_Interval
    <3> QED
      BY <3>1, <3>2, FS_Subset
  <2>5. Cardinality(1..max) = max
    BY FS_Interval
  <2>6. Cardinality(1..max) <= Cardinality(Newer(S, n)) /\ Cardinality(Newer(S, n)) \in Nat
    BY <2>3, <2>4, FS_Injection, FS_CardinalityType
  <2> QED
    BY <2>5, <2>6
<1> QED
  BY <1>3, <1>4 DEF TableOK, NoneLost

Tables ==
  /\ serial \in Nat
  /\ fresh = [token |-> fresh.token, nonce |-> fresh.nonce]
  /\ TableOK(tokens, fresh.token, MaxTokens, serial)
  /\ TableOK(nonces, fresh.nonce, MaxNonces, serial)

\* What a step does to the tables.
LEMMA SessionAdded ==
  ASSUME Tables, NEW by \in {1, 2},
         serial' = serial + by, fresh' = [fresh EXCEPT !.token = @ \cup {serial + 1}],
         tokens' = Push(tokens, serial + 1, MaxTokens), UNCHANGED nonces
  PROVE  Tables'
<1>1. /\ serial \in Nat /\ serial + 1 \in Nat /\ serial' \in Nat
      /\ serial + 1 > serial /\ serial' >= serial + 1 /\ serial' >= serial
  BY DEF Tables
<1>2. fresh'.token = fresh.token \cup {serial + 1} /\ fresh'.nonce = fresh.nonce
  BY DEF Tables
<1>3. fresh' = [token |-> fresh'.token, nonce |-> fresh'.nonce]
  BY DEF Tables
<1>4. TableOK(tokens', fresh'.token, MaxTokens, serial + 1)
  BY <1>1, <1>2, PushKeeps, AuthAssumption DEF Tables
<1>5. TableOK(tokens', fresh'.token, MaxTokens, serial')
  BY <1>1, <1>4, TopMayGrow, AuthAssumption
<1>6. TableOK(nonces', fresh'.nonce, MaxNonces, serial')
  BY <1>1, <1>2, TopMayGrow, AuthAssumption DEF Tables
<1> QED
  BY <1>1, <1>3, <1>5, <1>6 DEF Tables

\* A new challenge displaces the oldest one.
LEMMA ChallengeAdded ==
  ASSUME Tables, NEW c, CreateNonce(c), UNCHANGED tokens
  PROVE  Tables'
<1>1. /\ serial \in Nat /\ serial' = serial + 1 /\ serial' \in Nat
      /\ serial' > serial /\ serial' >= serial
  BY DEF Tables, CreateNonce
<1>2. fresh'.nonce = fresh.nonce \cup {serial'} /\ fresh'.token = fresh.token
  BY DEF Tables, CreateNonce
<1>3. fresh' = [token |-> fresh'.token, nonce |-> fresh'.nonce]
  BY DEF Tables, CreateNonce
<1>4. TableOK(Unexpired(nonces), fresh.nonce, MaxNonces, serial)
  BY DroppingKeeps, <1>1, AuthAssumption DEF Tables
<1>5. nonces' = Push(Unexpired(nonces), serial', MaxNonces)
  BY <1>1 DEF CreateNonce
<1>6. TableOK(nonces', fresh'.nonce, MaxNonces, serial')
  BY <1>1, <1>2, <1>4, <1>5, PushKeeps, AuthAssumption
<1>7. TableOK(tokens', fresh'.token, MaxTokens, serial')
  BY <1>1, <1>2, TopMayGrow, AuthAssumption DEF Tables
<1> QED
  BY <1>1, <1>3, <1>6, <1>7 DEF Tables

\* A pairing takes a number and no place in the tables.
LEMMA PairingAdded ==
  ASSUME Tables, serial' = serial + 1, UNCHANGED <<tokens, nonces, fresh>>
  PROVE  Tables'
<1>1. serial \in Nat /\ serial' \in Nat /\ serial' >= serial
  BY DEF Tables
<1> QED
  BY <1>1, TopMayGrow, AuthAssumption DEF Tables

\* Entries expire oldest first, and those dropped are no longer due a place.
LEMMA TablesExpire ==
  ASSUME Tables, NoncesExpire \/ TokensExpire
  PROVE  Tables'
<1>1. CASE NoncesExpire
  <2>1. PICK k \in DOMAIN nonces :
          /\ nonces[k].live /\ nonces' = Expired(nonces, k)
          /\ fresh' = [fresh EXCEPT !.nonce = @ \ 1..nonces[k].n]
          /\ UNCHANGED <<auth, saved, tokens, held, serial>>
    BY <1>1 DEF NoncesExpire
  <2>2. k \in 1..Len(nonces)
    BY DEF Tables, TableOK, Sized
  <2>3. fresh'.nonce = fresh.nonce \ 1..nonces[k].n /\ fresh'.token = fresh.token
    BY <2>1 DEF Tables
  <2>4. fresh' = [token |-> fresh'.token, nonce |-> fresh'.nonce]
    BY <2>1 DEF Tables
  <2>5. TableOK(nonces', fresh'.nonce, MaxNonces, serial)
    BY <2>1, <2>2, <2>3, ExpiryKeeps, AuthAssumption DEF Tables
  <2> QED
    BY <2>1, <2>3, <2>4, <2>5 DEF Tables
<1>2. CASE TokensExpire
  <2>1. PICK k \in DOMAIN tokens :
          /\ tokens[k].live /\ tokens' = Expired(tokens, k)
          /\ fresh' = [fresh EXCEPT !.token = @ \ 1..tokens[k].n]
          /\ UNCHANGED <<auth, saved, nonces, held, serial>>
    BY <1>2 DEF TokensExpire
  <2>2. k \in 1..Len(tokens)
    BY DEF Tables, TableOK, Sized
  <2>3. fresh'.token = fresh.token \ 1..tokens[k].n /\ fresh'.nonce = fresh.nonce
    BY <2>1 DEF Tables
  <2>4. fresh' = [token |-> fresh'.token, nonce |-> fresh'.nonce]
    BY <2>1 DEF Tables
  <2>5. TableOK(tokens', fresh'.token, MaxTokens, serial)
    BY <2>1, <2>2, <2>3, ExpiryKeeps, AuthAssumption DEF Tables
  <2> QED
    BY <2>1, <2>3, <2>4, <2>5 DEF Tables
<1> QED
  BY <1>1, <1>2

\* A restart empties the tables.
LEMMA TablesEmptied ==
  ASSUME Tables, NEW f, AuthRestart(f)
  PROVE  Tables'
BY EmptyTable, AuthAssumption DEF Tables, AuthRestart, NoneFresh

\* The tables start empty.
LEMMA TablesInit ==
  ASSUME WebInit
  PROVE  Tables
BY EmptyTable, AuthAssumption DEF Tables, WebInit, AuthInit, NoneFresh

\* Every request, expiry and stop keeps the tables in order.
LEMMA TablesNext ==
  ASSUME Tables, [WebNext]_webVars
  PROVE  Tables'
<1> SUFFICES ASSUME ~UNCHANGED <<tokens, nonces, serial, fresh>> PROVE Tables'
  BY DEF Tables
<1>1. CASE HandleClient
  <2>1. PICK fd \in Fd :
          \/ ReadsNothing(fd) \/ AnswerUnrouted(fd) \/ AnswerRead(fd) \/ AnswerGuarded(fd)
          \/ AnswerEvents(fd) \/ AnswerSetup(fd) \/ AnswerLogin(fd) \/ AnswerPairing(fd)
          \/ AnswerUpload(fd)
    BY <1>1 DEF HandleClient
  <2>2. CASE ReadsNothing(fd) \/ AnswerUnrouted(fd) \/ AnswerRead(fd) \/ AnswerEvents(fd)
    BY <2>2 DEF ReadsNothing, AnswerUnrouted, AnswerRead, AnswerEvents, authVars
  <2>3. CASE AnswerGuarded(fd) \/ AnswerUpload(fd)
    <3>1. \E c \in Client, how \in How : Challenged(c, how)
      BY <2>3 DEF AnswerGuarded, AnswerUpload, authVars
    <3> QED
      BY <3>1, ChallengeAdded DEF Challenged
  <2>4. CASE AnswerSetup(fd)
    <3>1. \E c, how, required, pw, hashed, f : SetupPost(c, how, required, pw, hashed, f)
      BY <2>4 DEF AnswerSetup, authVars
    <3> QED
      BY <3>1, SessionAdded DEF SetupPost
  <2>5. CASE AnswerLogin(fd)
    <3>1. \E c, pw : AuthPost(c, pw)
      BY <2>5 DEF AnswerLogin, authVars
    <3> QED
      BY <3>1, SessionAdded DEF AuthPost, AddSessionToken
  <2>6. CASE AnswerPairing(fd)
    <3>1. \E c, how, f : RequestPost(c, how, f)
      BY <2>6 DEF AnswerPairing, authVars
    <3> QED
      BY <3>1, PairingAdded DEF RequestPost
  <2> QED
    BY <2>1, <2>2, <2>3, <2>4, <2>5, <2>6
<1>2. CASE HandleAccept \/ PeerLeaves \/ PushStarts \/ PushStep \/ StatusGrows
  BY <1>2 DEF HandleAccept, PeerLeaves, PushStarts, PushStep, StatusGrows, authVars
<1>3. CASE Stopped \/ StoppedInSetup \/ StoppedInPairing
  BY <1>3, TablesEmptied DEF Stopped, StoppedInSetup, StoppedInPairing
<1>4. CASE TimePasses
  BY <1>4, TablesExpire DEF TimePasses
<1>5. CASE UNCHANGED webVars
  BY <1>5 DEF webVars, authVars
<1> QED
  BY <1>1, <1>2, <1>3, <1>4, <1>5 DEF WebNext

\* NewestAreKept for tables of every size: whatever order entries were added and have
\* expired, a session or a challenge gives way only to as many newer live ones as there
\* are places.
THEOREM NewestAlwaysKept == WebSpec => []NewestAreKept
<1>1. Tables => NewestAreKept
  <2> SUFFICES ASSUME Tables PROVE NewestAreKept
    OBVIOUS
  <2>1. serial \in Nat
    BY DEF Tables
  <2>2. ASSUME NEW n \in fresh.token, Cardinality(Newer(fresh.token, n)) < MaxTokens
        PROVE  Valid(tokens, n)
    BY <2>1, <2>2, NotHeldIsOld, AuthAssumption DEF Tables
  <2>3. ASSUME NEW n \in fresh.nonce, Cardinality(Newer(fresh.nonce, n)) < MaxNonces
        PROVE  Valid(nonces, n)
    BY <2>1, <2>3, NotHeldIsOld, AuthAssumption DEF Tables
  <2> QED
    BY <2>2, <2>3 DEF NewestAreKept
<1> QED
  BY <1>1, TablesInit, TablesNext, PTL DEF WebSpec

----------------------------------------------------------------------------
(* The clients of the event stream. *)

Sockets ==
  /\ conn \in [Fd -> {"closed", "open", "stream"}]
  /\ sse \in Seq(Fd) /\ push \in Nat
  /\ EventsGoToListeners

Listed(fd) == \E i \in 1..Len(sse) : sse[i] = fd

\* sse_remove_client: the entry is gone, the others stay, each of them once.
LEMMA RemovedOnce ==
  ASSUME Sockets, NEW fd \in Fd, Listed(fd)
  PROVE  LET r == SseRemoveClient(fd)
         IN  /\ r \in Seq(Fd) /\ Len(r) = Len(sse) - 1
             /\ \A i \in 1..Len(r) : r[i] # fd /\ Listed(r[i])
             /\ \A i, j \in 1..Len(r) : i # j => r[i] # r[j]
<1> DEFINE p == Position(fd)
           m == [sse EXCEPT ![p] = Last(sse)]
           r == SseRemoveClient(fd)
<1>1. sse \in Seq(Fd) /\ Len(sse) \in Nat /\ DOMAIN sse = 1..Len(sse)
  BY DEF Sockets
<1>2. p \in 1..Len(sse) /\ sse[p] = fd
  BY <1>1 DEF Position, Listed
<1>3. \A i, j \in 1..Len(sse) : i # j => sse[i] # sse[j]
  BY <1>1 DEF Sockets, EventsGoToListeners
<1> HIDE DEF p
<1>4. /\ m \in Seq(Fd) /\ Len(m) = Len(sse)
      /\ \A i \in 1..Len(sse) : m[i] = IF i = p THEN sse[Len(sse)] ELSE sse[i]
  BY <1>1, <1>2 DEF Last
<1>5. r = SubSeq(m, 1, Len(m) - 1)
  BY <1>1 DEF SseRemoveClient, Listed, Front, p
<1> HIDE DEF m, r
<1>6. /\ r \in Seq(Fd) /\ Len(r) = Len(sse) - 1
      /\ \A i \in 1..Len(r) : r[i] = m[i]
  BY <1>1, <1>2, <1>4, <1>5
<1>7. \A i \in 1..Len(r) : r[i] = IF i = p THEN sse[Len(sse)] ELSE sse[i]
  BY <1>1, <1>4, <1>6
<1>8. \A i \in 1..Len(r) : r[i] # fd /\ Listed(r[i])
  BY <1>1, <1>2, <1>3, <1>6, <1>7 DEF Listed
<1>9. \A i, j \in 1..Len(r) : i # j => r[i] # r[j]
  BY <1>1, <1>2, <1>3, <1>6, <1>7
<1> QED
  BY <1>6, <1>8, <1>9 DEF r

\* A client that is not listed, or has just been removed, may be closed.
LEMMA ClosedUnlisted ==
  ASSUME Sockets, NEW fd \in Fd, ~Listed(fd), NEW v \in {"closed", "open", "stream"},
         conn' = [conn EXCEPT ![fd] = v], push' \in Nat, UNCHANGED sse
  PROVE  Sockets'
<1>1. conn' \in [Fd -> {"closed", "open", "stream"}]
  BY DEF Sockets
<1>2. \A i \in 1..Len(sse) : sse[i] \in Fd /\ sse[i] # fd /\ conn'[sse[i]] = conn[sse[i]]
  BY DEF Sockets, Listed
<1> QED
  BY <1>1, <1>2 DEF Sockets, EventsGoToListeners

\* Only a stream is in the list of event clients.
LEMMA OpenIsUnlisted ==
  ASSUME Sockets, NEW fd \in Fd, conn[fd] # "stream"
  PROVE  ~Listed(fd)
BY DEF Sockets, EventsGoToListeners, Listed

\* A connection that asks for events is listed once, under a descriptor that nobody else
\* has.
LEMMA StreamAdded ==
  ASSUME Sockets, NEW fd \in Fd, conn[fd] = "open", Streaming(fd)
  PROVE  Sockets'
<1>1. ~Listed(fd)
  BY OpenIsUnlisted
<1>2. conn' = [conn EXCEPT ![fd] = "stream"] /\ push' = push /\ push \in Nat
  BY DEF Streaming, Sockets
<1>3. CASE Len(sse) >= MaxSseClients
  <2>1. sse' = sse
    BY <1>3 DEF Streaming, SseRegisterClient
  <2> QED
    BY <1>1, <1>2, <2>1, ClosedUnlisted
<1>4. CASE ~(Len(sse) >= MaxSseClients)
  <2>1. sse' = Append(sse, fd)
    BY <1>4 DEF Streaming, SseRegisterClient
  <2>2. sse \in Seq(Fd) /\ Len(sse) \in Nat /\ conn \in [Fd -> {"closed", "open", "stream"}]
    BY DEF Sockets
  <2>3. /\ sse' \in Seq(Fd) /\ Len(sse') = Len(sse) + 1 /\ DOMAIN sse' = 1..(Len(sse) + 1)
        /\ \A i \in 1..Len(sse) : sse'[i] = sse[i]
        /\ sse'[Len(sse) + 1] = fd
    BY <2>1, <2>2
  <2>4. \A i \in 1..Len(sse) :
          sse[i] # fd /\ conn'[sse[i]] = "stream" /\ \A j \in 1..(i - 1) : sse[i] # sse[j]
    BY <1>1, <1>2, <2>2 DEF Sockets, EventsGoToListeners, Listed
  <2>5. ASSUME NEW i \in 1..(Len(sse) + 1)
        PROVE  conn'[sse'[i]] = "stream" /\ \A j \in 1..(i - 1) : sse'[i] # sse'[j]
    <3>1. CASE i = Len(sse) + 1
      <4>1. sse'[i] = fd /\ conn'[fd] = "stream"
        BY <3>1, <1>2, <2>2, <2>3
      <4>2. ASSUME NEW j \in 1..(i - 1) PROVE sse'[i] # sse'[j]
        <5>1. j \in 1..Len(sse)
          BY <3>1, <2>2
        <5> QED
          BY <5>1, <4>1, <2>3, <2>4
      <4> QED
        BY <4>1, <4>2
    <3>2. CASE i # Len(sse) + 1
      <4>1. i \in 1..Len(sse) /\ \A j \in 1..(i - 1) : j \in 1..Len(sse)
        BY <3>2, <2>2
      <4> QED
        BY <4>1, <2>3, <2>4
    <3> QED
      BY <3>1, <3>2
  <2>6. Len(sse') <= MaxSseClients
    BY <1>4, <2>2, <2>3, WebAssumption
  <2>7. conn' \in [Fd -> {"closed", "open", "stream"}]
    BY <1>2, <2>2
  <2> QED
    BY <1>2, <2>3, <2>5, <2>6, <2>7 DEF Sockets, EventsGoToListeners
<1> QED
  BY <1>3, <1>4

\* sse_push_status closes the client it cannot write to and looks at the one that took
\* its place.
LEMMA PushStepSockets ==
  ASSUME Sockets, PushStep
  PROVE  Sockets'
<1>1. sse \in Seq(Fd) /\ Len(sse) \in Nat /\ push \in Nat /\ push > 0
  BY DEF Sockets, PushStep
<1>2. CASE push > Len(sse) \/ ~gone[sse[push]]
  BY <1>1, <1>2 DEF Sockets, EventsGoToListeners, PushStep
<1>3. CASE ~(push > Len(sse)) /\ gone[sse[push]]
  <2> DEFINE fd == sse[push]
             r  == SseRemoveClient(fd)
  <2>1. push \in 1..Len(sse) /\ fd \in Fd /\ Listed(fd)
    BY <1>1, <1>3 DEF Listed
  <2>2. conn' = [conn EXCEPT ![fd] = "closed"] /\ sse' = r /\ push' = push
    BY <1>3 DEF PushStep
  <2>3. /\ r \in Seq(Fd) /\ Len(r) = Len(sse) - 1
        /\ \A i \in 1..Len(r) : r[i] # fd /\ Listed(r[i])
        /\ \A i, j \in 1..Len(r) : i # j => r[i] # r[j]
    BY <2>1, RemovedOnce
  <2> HIDE DEF fd, r
  <2>4. conn \in [Fd -> {"closed", "open", "stream"}] /\ Len(sse) <= MaxSseClients
    BY DEF Sockets, EventsGoToListeners
  <2>5. \A g \in Fd : Listed(g) => conn[g] = "stream"
    BY OpenIsUnlisted
  <2>6. ASSUME NEW i \in 1..Len(r)
        PROVE  conn'[r[i]] = "stream" /\ \A j \in 1..(i - 1) : r[i] # r[j]
    <3>1. r[i] \in Fd /\ r[i] # fd /\ conn[r[i]] = "stream"
      BY <2>3, <2>5
    <3>2. \A j \in 1..(i - 1) : j \in 1..Len(r) /\ i # j
      BY <1>1, <2>3
    <3> QED
      BY <2>1, <2>2, <2>3, <2>4, <3>1, <3>2
  <2>7. Len(r) <= MaxSseClients
    BY <1>1, <2>3, <2>4, WebAssumption
  <2>8. DOMAIN r = 1..Len(r)
    BY <2>3
  <2>9. conn' \in [Fd -> {"closed", "open", "stream"}]
    BY <2>1, <2>2, <2>4
  <2> QED
    BY <1>1, <2>2, <2>3, <2>6, <2>7, <2>8, <2>9 DEF Sockets, EventsGoToListeners
<1> QED
  BY <1>2, <1>3

\* Every step of the event loop, in the middle of a push too, keeps the list to open
\* streams.
LEMMA SocketsNext ==
  ASSUME Sockets, [WebNext]_webVars
  PROVE  Sockets'
<1>1. CASE HandleAccept
  <2>1. PICK fd \in Fd : conn[fd] = "closed" /\ conn' = [conn EXCEPT ![fd] = "open"]
    BY <1>1 DEF HandleAccept
  <2>2. sse' = sse /\ push' \in Nat
    BY <1>1 DEF HandleAccept, Sockets
  <2> QED
    BY <2>1, <2>2, OpenIsUnlisted, ClosedUnlisted
<1>2. CASE HandleClient
  <2>1. PICK fd \in Fd :
          /\ conn[fd] = "open"
          /\ \/ ReadsNothing(fd) \/ AnswerUnrouted(fd) \/ AnswerRead(fd) \/ AnswerGuarded(fd)
             \/ AnswerEvents(fd) \/ AnswerSetup(fd) \/ AnswerLogin(fd) \/ AnswerPairing(fd)
             \/ AnswerUpload(fd)
    BY <1>2 DEF HandleClient
  <2>2. ~Listed(fd) /\ push \in Nat
    BY <2>1, OpenIsUnlisted DEF Sockets
  <2>3. CASE Answered(fd)
    BY <2>2, <2>3, ClosedUnlisted DEF Answered
  <2>4. CASE ReadsNothing(fd)
    <3>1. SseRemoveClient(fd) = sse
      BY <2>2 DEF SseRemoveClient, Listed, Sockets
    <3> QED
      BY <2>2, <2>4, <3>1, ClosedUnlisted DEF ReadsNothing
  <2>5. CASE AnswerEvents(fd)
    BY <2>1, <2>3, <2>5, StreamAdded DEF AnswerEvents
  <2>6. CASE \/ AnswerUnrouted(fd) \/ AnswerRead(fd) \/ AnswerGuarded(fd) \/ AnswerSetup(fd)
             \/ AnswerLogin(fd) \/ AnswerPairing(fd) \/ AnswerUpload(fd)
    BY <2>3, <2>6 DEF AnswerUnrouted, AnswerRead, AnswerGuarded, AnswerSetup,
       AnswerLogin,
                      AnswerPairing, AnswerUpload
  <2> QED
    BY <2>1, <2>4, <2>5, <2>6
<1>3. CASE PushStep
  BY <1>3, PushStepSockets
<1>4. CASE Stopped \/ StoppedInSetup \/ StoppedInPairing
  <2>1. Restarted
    BY <1>4 DEF Stopped, StoppedInSetup, StoppedInPairing
  <2>2. conn' \in [Fd -> {"closed", "open", "stream"}] /\ sse' = <<>> /\ push' = 0
    BY <2>1 DEF Restarted
  <2> QED
    BY <2>2, WebAssumption DEF Sockets, EventsGoToListeners
<1>5. CASE PushStarts
  BY <1>5 DEF PushStarts, Sockets, EventsGoToListeners
<1>6. CASE PeerLeaves
  BY <1>6 DEF PeerLeaves, Sockets, EventsGoToListeners
<1>7. CASE TimePasses \/ StatusGrows \/ UNCHANGED webVars
  BY <1>7 DEF TimePasses, StatusGrows, webVars, sockVars, Sockets, EventsGoToListeners
<1> QED
  BY <1>1, <1>2, <1>3, <1>4, <1>5, <1>6, <1>7 DEF WebNext

\* EventsGoToListeners for every number of descriptors and event clients: an event is
\* never written to a descriptor that was closed and given to somebody else, although
\* the list is changed while sse_push_status walks it.
THEOREM EventsAlwaysGoToListeners == WebSpec => []EventsGoToListeners
<1>1. WebInit => Sockets
  BY WebAssumption DEF WebInit, Sockets, EventsGoToListeners
<1>2. Sockets => EventsGoToListeners
  BY DEF Sockets
<1> QED
  BY <1>1, <1>2, SocketsNext, PTL DEF WebSpec

----------------------------------------------------------------------------
(* The settings, in force and in the file. *)

Settings ==
  [setup : BOOLEAN, disabled : BOOLEAN, pw : Password \cup {None}, digest : Nat]

HasWayIn(a, t) ==
  ~IsDisabled(a) /\ a.pw = None => t \cap {"between", "cut", "unhashed"} # {}
Protects(a, w, t) == w /\ t \cap {"cut", "kept"} = {} => ~IsDisabled(a)

SettingsOK(a, w, t) == a \in Settings /\ HasWayIn(a, t) /\ Protects(a, w, t)

\* Both properties, of the settings in force and of those a restart would load.
SettingsInv ==
  /\ saved \in Settings /\ serial \in Nat
  /\ SettingsOK(auth, wanted, flaws) /\ SettingsOK(LoadConfig(saved), wanted, torn)

\* What is wrong with a file excuses whatever it is loaded as.
FileOK(x, w) == x.file \in Settings /\ SettingsOK(LoadConfig(x.file), w, x.torn)

\* Loading the settings infers a missing setup mark and keeps the rest.
LEMMA LoadedConfig ==
  ASSUME NEW f \in Settings
  PROVE  /\ LoadConfig(f) \in Settings /\ LoadConfig(f).pw = f.pw
         /\ LoadConfig(f).disabled = f.disabled
         /\ LoadConfig(f).setup <=> (f.setup \/ f.pw # None \/ f.disabled)
<1>1. (f.setup \/ f.pw # None \/ f.disabled) \in BOOLEAN
  OBVIOUS
<1> QED
  BY <1>1 DEF LoadConfig, Settings

\* Settings that are complete are loaded as they were saved.
LEMMA LoadedAsSaved ==
  ASSUME NEW f, NEW w, NEW t, SettingsOK(f, w, t), f.setup
  PROVE  SettingsOK(LoadConfig(f), w, t)
<1>1. f \in Settings
  BY DEF SettingsOK
<1> QED
  BY <1>1, LoadedConfig DEF SettingsOK, HasWayIn, Protects, IsDisabled

\* The settings after save k of the three of a setup.
SaveIs(k, a, required, pw, hashed) ==
  /\ a \in Settings
  /\ a.pw = IF required /\ pw # None /\ hashed THEN pw ELSE auth.pw
  /\ a.setup <=> (k # 1 \/ auth.setup)
  /\ a.disabled <=> IF k = 3 THEN ~required ELSE auth.disabled

\* What each of the saves of a setup is to write.
LEMMA SavesOfSetup ==
  ASSUME auth \in Settings, serial \in Nat,
         NEW required \in BOOLEAN, NEW pw \in Password \cup {None}, NEW hashed \in BOOLEAN
  PROVE  LET q == SetupSaves(required, pw, hashed) IN
         /\ SaveIs(3, Last(q), required, pw, hashed)
         /\ \A k \in DOMAIN Front(q) : k \in 1..2 /\ SaveIs(k, q[k], required, pw, hashed)
         /\ \A k \in DOMAIN q : q[k] \in Settings
<1> DEFINE a0 == [auth EXCEPT !.digest = serial + 2]
           a1 == IF required /\ pw # None THEN (IF hashed THEN [a0 EXCEPT !.pw = pw] ELSE a0)
                 ELSE auth
           a2 == [a1 EXCEPT !.setup = TRUE]
           a3 == [a2 EXCEPT !.disabled = ~required]
           s  == SetupSaves(required, pw, hashed)
<1>1. s = <<a1, a2, a3>>
  BY DEF SetupSaves
<1>2. /\ a1 \in Settings
      /\ a1.pw = (IF required /\ pw # None /\ hashed THEN pw ELSE auth.pw)
      /\ a1.setup = auth.setup /\ a1.disabled = auth.disabled
  <2>0. /\ a0 \in Settings /\ a0.pw = auth.pw
        /\ a0.setup = auth.setup /\ a0.disabled = auth.disabled
    <3>1. serial + 2 \in Nat
      OBVIOUS
    <3> QED
      BY <3>1 DEF Settings
  <2>1. CASE required /\ pw # None /\ hashed
    <3>1. a1 = [a0 EXCEPT !.pw = pw]
      BY <2>1
    <3> HIDE DEF a1, a0
    <3>2. a1 \in Settings /\ a1.pw = pw /\ a1.setup = a0.setup /\ a1.disabled = a0.disabled
      BY <2>0, <3>1 DEF Settings
    <3> QED
      BY <2>0, <2>1, <3>2
  <2>2. CASE required /\ pw # None /\ ~hashed
    <3>1. a1 = a0
      BY <2>2
    <3> HIDE DEF a1, a0
    <3> QED
      BY <2>0, <2>2, <3>1
  <2>3. CASE ~(required /\ pw # None)
    <3>1. a1 = auth
      BY <2>3
    <3> HIDE DEF a1, a0
    <3> QED
      BY <2>3, <3>1
  <2> QED
    BY <2>1, <2>2, <2>3
<1> HIDE DEF a1
<1>3. a2 \in Settings /\ a2.pw = a1.pw /\ a2.setup /\ a2.disabled = a1.disabled
  BY <1>2 DEF Settings
<1> HIDE DEF a2
<1>4. a3 \in Settings /\ a3.pw = a2.pw /\ a3.setup = a2.setup /\ (a3.disabled <=> ~required)
  BY <1>3 DEF Settings
<1> HIDE DEF a3
<1>5. s[1] = a1 /\ s[2] = a2 /\ s[3] = a3 /\ Len(s) = 3 /\ s \in Seq(Settings)
  BY <1>1, <1>2, <1>3, <1>4
<1> HIDE DEF s
<1>6. Last(s) = a3
  BY <1>5 DEF Last
<1>7. DOMAIN Front(s) = 1..2
  BY <1>5 DEF Front
<1>8. /\ SaveIs(1, a1, required, pw, hashed) /\ SaveIs(2, a2, required, pw, hashed)
      /\ SaveIs(3, a3, required, pw, hashed)
  BY <1>2, <1>3, <1>4 DEF SaveIs
<1>9. ASSUME NEW k \in 1..2 PROVE SaveIs(k, s[k], required, pw, hashed)
  <2>1. k = 1 \/ k = 2
    OBVIOUS
  <2> QED
    BY <2>1, <1>5, <1>8
<1>10. \A k \in DOMAIN s : s[k] \in Settings
  BY <1>5
<1> QED
  BY <1>6, <1>7, <1>8, <1>9, <1>10 DEF s

\* A file that was cut short is excused.
LEMMA CutIsExcused ==
  ASSUME NEW q, NEW w, \A k \in DOMAIN q : q[k] \in Settings, NEW x \in Cut(q)
  PROVE  FileOK(x, w) /\ x.torn = {"cut"}
<1>0. PICK f \in UNION {CutShort(q[k]) : k \in DOMAIN q} : x = [file |-> f, torn |-> {"cut"}]
  BY DEF Cut
<1>1. PICK k \in DOMAIN q : f \in CutShort(q[k])
  OBVIOUS
<1>2. q[k] \in Settings
  OBVIOUS
<1>3. f \in Settings
  <2>1. PICK n \in 0..3 : f = [setup |-> n >= 1 /\ q[k].setup, disabled |-> n >= 2 /\ q[k].disabled,
                               pw |-> IF n = 3 THEN q[k].pw ELSE None, digest |-> 0]
    BY <1>1 DEF CutShort
  <2>2. /\ (n >= 1 /\ q[k].setup) \in BOOLEAN /\ (n >= 2 /\ q[k].disabled) \in BOOLEAN
        /\ (IF n = 3 THEN q[k].pw ELSE None) \in Password \cup {None} /\ 0 \in Nat
    BY <1>2 DEF Settings
  <2> HIDE DEF Settings
  <2> QED
    BY <2>1, <2>2 DEF Settings
<1>4. x.file = f /\ x.torn = {"cut"}
  BY <1>0
<1>5. LoadConfig(f) \in Settings
  BY <1>3, LoadedConfig
<1> QED
  BY <1>3, <1>4, <1>5 DEF FileOK, SettingsOK, HasWayIn, Protects

\* A file between two saves of a setup asks for credentials if the settings in force do,
\* and has a way in unless the model marks it.
LEMMA BetweenIsExcused ==
  ASSUME SettingsInv, NEW c, NEW how, NEW required \in BOOLEAN,
         NEW pw \in Password \cup {None}, NEW hashed \in BOOLEAN,
         SetupAllowed(c, how, required, pw),
         NEW x \in Between(SetupSaves(required, pw, hashed), Gap(required, hashed))
  PROVE  FileOK(x, wanted) /\ x = [file |-> x.file, torn |-> x.torn]
<1> DEFINE q == SetupSaves(required, pw, hashed)
<1>1. auth \in Settings /\ serial \in Nat /\ SettingsOK(auth, wanted, flaws)
  BY DEF SettingsInv, SettingsOK
<1>2. PICK k \in DOMAIN Front(q) : x = [file |-> q[k], torn |-> flaws \cup Gap(required, hashed)]
  BY DEF Between
<1>3. k \in 1..2 /\ SaveIs(k, q[k], required, pw, hashed)
  BY <1>1, SavesOfSetup
<1> HIDE DEF q
<1>4. x.file = q[k] /\ x.torn = flaws \cup Gap(required, hashed)
  BY <1>2
<1>5. LET f == x.file IN
      /\ f \in Settings /\ (f.disabled <=> auth.disabled) /\ (auth.setup => f.setup)
      /\ required /\ hashed => f.pw # None
  BY <1>3, <1>4 DEF SaveIs, SetupAllowed, HasPassword
<1>6. LET a == LoadConfig(x.file) IN
      /\ a \in Settings /\ (a.disabled <=> auth.disabled) /\ (auth.setup => a.setup)
      /\ required /\ hashed => a.pw # None
  BY <1>5, LoadedConfig
<1>7. HasWayIn(LoadConfig(x.file), x.torn)
  BY <1>4, <1>6 DEF HasWayIn, Gap, Unhashed
<1>8. Protects(LoadConfig(x.file), wanted, x.torn)
  BY <1>1, <1>4, <1>6 DEF SettingsOK, Protects, IsDisabled
<1> QED
  BY <1>2, <1>5, <1>6, <1>7, <1>8 DEF FileOK, SettingsOK

\* A file that a save left as it was is excused from protecting.
LEMMA KeptIsExcused ==
  ASSUME NEW a, NEW w, NEW v, NEW t, SettingsOK(a, w, t)
  PROVE  SettingsOK(a, v, t \cup {"kept"})
<1>1. HasWayIn(a, t \cup {"kept"})
  BY DEF SettingsOK, HasWayIn
<1>2. Protects(a, v, t \cup {"kept"})
  BY DEF Protects
<1> QED
  BY <1>1, <1>2 DEF SettingsOK

\* Whatever the saves of a request leave in the file, the model marks what is wrong.
LEMMA FilesAreExcused ==
  ASSUME SettingsInv, NEW q, NEW gap, NEW good, NEW w,
         \A k \in DOMAIN q : q[k] \in Settings,
         Last(q) \in Settings, SettingsOK(LoadConfig(Last(q)), w, good),
         \A y \in Between(q, gap) : FileOK(y, wanted) /\ y = [file |-> y.file, torn |-> y.torn],
         NEW x \in FilesAfter(q, gap, good)
  PROVE  FileOK(x, w)
<1>1. CASE x = [file |-> Last(q), torn |-> good]
  BY <1>1 DEF FileOK
<1>2. CASE x = [file |-> saved, torn |-> torn \cup {"kept"}]
  <2>1. x.file = saved /\ x.torn = torn \cup {"kept"}
    BY <1>2
  <2> QED
    BY <2>1, KeptIsExcused DEF FileOK, SettingsInv
<1>3. CASE x \in {[y EXCEPT !.torn = @ \cup {"kept"}] : y \in Between(q, gap)}
  <2>1. PICK y \in Between(q, gap) : x = [y EXCEPT !.torn = @ \cup {"kept"}]
    BY <1>3
  <2>2. y = [file |-> y.file, torn |-> y.torn] /\ FileOK(y, wanted)
    OBVIOUS
  <2>3. x.file = y.file /\ x.torn = y.torn \cup {"kept"}
    BY <2>1, <2>2
  <2> QED
    BY <2>2, <2>3, KeptIsExcused DEF FileOK
<1>4. CASE x \in Cut(q)
  BY <1>4, CutIsExcused
<1> QED
  BY <1>1, <1>2, <1>3, <1>4 DEF FilesAfter

\* A setup that is allowed keeps a password, or stores one, before it asks for it.
LEMMA SetupSettings ==
  ASSUME SettingsInv, NEW c, NEW how, NEW required \in BOOLEAN,
         NEW pw \in Password \cup {None}, NEW hashed \in BOOLEAN,
         NEW x \in FilesAfter(SetupSaves(required, pw, hashed), Gap(required, hashed),
                              Unhashed(hashed)),
         SetupPost(c, how, required, pw, hashed, x.file),
         wanted' = required, flaws' = Unhashed(hashed), torn' = x.torn
  PROVE  SettingsInv'
<1> DEFINE q == SetupSaves(required, pw, hashed)
<1>1. auth \in Settings /\ serial \in Nat
  BY DEF SettingsInv, SettingsOK
<1>2. /\ SaveIs(3, auth', required, pw, hashed) /\ auth' = Last(q) /\ saved' = x.file
      /\ serial' \in Nat /\ \A k \in DOMAIN q : q[k] \in Settings
      /\ SetupAllowed(c, how, required, pw)
  BY <1>1, SavesOfSetup DEF SetupPost
<1>3. required /\ hashed => auth'.pw # None
  BY <1>2 DEF SaveIs, SetupAllowed, HasPassword
<1>4. SettingsOK(auth', required, Unhashed(hashed)) /\ auth'.setup
  BY <1>2, <1>3 DEF SaveIs, SettingsOK, HasWayIn, Protects, IsDisabled, Unhashed
<1>5. SettingsOK(LoadConfig(auth'), required, Unhashed(hashed)) /\ auth' \in Settings
  BY <1>4, LoadedAsSaved DEF SettingsOK
<1>6. \A y \in Between(q, Gap(required, hashed)) :
        FileOK(y, wanted) /\ y = [file |-> y.file, torn |-> y.torn]
  BY <1>2, BetweenIsExcused
<1>7. FileOK(x, required)
  <2>1. Last(q) \in Settings /\ SettingsOK(LoadConfig(Last(q)), required, Unhashed(hashed))
    BY <1>2, <1>5
  <2> HIDE DEF q
  <2>2. x \in FilesAfter(q, Gap(required, hashed), Unhashed(hashed))
    BY DEF q
  <2> QED
    BY <1>2, <1>6, <2>1, <2>2, FilesAreExcused
<1> QED
  BY <1>2, <1>4, <1>7 DEF SettingsInv, SettingsOK, FileOK

\* A pairing, saved or not, keeps a way in and keeps the protection.
LEMMA PairingSettings ==
  ASSUME SettingsInv, NEW c, NEW how, NEW f, RequestPost(c, how, f),
         UNCHANGED <<wanted, flaws>>,
         \/ ~auth.setup /\ torn' = torn
         \/ /\ auth.setup
            /\ \E x \in FilesAfter(<<[auth EXCEPT !.digest = serial + 1]>>, {}, flaws) :
                 f = x.file /\ torn' = x.torn
  PROVE  SettingsInv'
<1> DEFINE b == [auth EXCEPT !.digest = serial + 1]
           q == <<b>>
<1>1. auth \in Settings /\ serial \in Nat /\ serial + 1 \in Nat /\ serial' \in Nat /\ auth' = b
  BY DEF SettingsInv, SettingsOK, RequestPost
<1>2. b \in Settings /\ b.pw = auth.pw /\ b.setup = auth.setup /\ b.disabled = auth.disabled
  BY <1>1 DEF Settings
<1> HIDE DEF b
<1>3. SettingsOK(b, wanted, flaws)
  BY <1>2 DEF SettingsInv, SettingsOK, HasWayIn, Protects, IsDisabled
<1>4. CASE auth.setup
  <2>1. PICK x \in FilesAfter(q, {}, flaws) : saved' = x.file /\ torn' = x.torn
    BY <1>4 DEF RequestPost, b
  <2>2. /\ Last(q) = b /\ DOMAIN Front(q) = {} /\ \A k \in DOMAIN q : q[k] \in Settings
    BY <1>2 DEF Last, Front
  <2> HIDE DEF q
  <2>3. Between(q, {}) = {}
    BY <2>2 DEF Between
  <2>4. SettingsOK(LoadConfig(b), wanted, flaws)
    BY <1>2, <1>3, <1>4, LoadedAsSaved
  <2>5. FileOK(x, wanted)
    BY <1>2, <2>2, <2>3, <2>4, FilesAreExcused
  <2> QED
    BY <1>1, <1>3, <2>1, <2>5 DEF SettingsInv, FileOK
<1>5. CASE ~auth.setup
  <2>1. saved' = saved /\ torn' = torn
    BY <1>5 DEF RequestPost
  <2> QED
    BY <1>1, <1>3, <2>1 DEF SettingsInv
<1> QED
  BY <1>4, <1>5

\* A restart from a file that is excused.
LEMMA RestartSettings ==
  ASSUME SettingsInv, NEW x, FileOK(x, wanted), AuthRestart(x.file),
         torn' = x.torn, flaws' = x.torn, UNCHANGED wanted
  PROVE  SettingsInv'
BY DEF SettingsInv, FileOK, AuthRestart

\* A new printer asks for no credentials.
LEMMA SettingsInit ==
  ASSUME WebInit
  PROVE  SettingsInv
<1>1. /\ Unset \in Settings /\ Unset.pw = None /\ Unset.setup = FALSE
      /\ Unset.disabled = FALSE
  BY DEF Unset, Settings
<1>2. LoadConfig(Unset) \in Settings /\ ~LoadConfig(Unset).setup
  BY <1>1, LoadedConfig
<1> QED
  BY <1>1, <1>2 DEF SettingsInv, SettingsOK, HasWayIn, Protects, IsDisabled, WebInit,
     AuthInit

\* Every request, stop and restart keeps the settings in force and in the file
\* consistent.
LEMMA SettingsNext ==
  ASSUME SettingsInv, [WebNext]_webVars
  PROVE  SettingsInv'
<1>1. CASE UNCHANGED <<auth, saved, wanted, flaws, torn>> /\ serial' \in Nat
  BY <1>1 DEF SettingsInv
<1>2. serial \in Nat /\ serial + 1 \in Nat
  BY DEF SettingsInv
<1>3. CASE HandleClient
  <2>1. PICK fd \in Fd :
          \/ ReadsNothing(fd) \/ AnswerUnrouted(fd) \/ AnswerRead(fd) \/ AnswerGuarded(fd)
          \/ AnswerEvents(fd) \/ AnswerSetup(fd) \/ AnswerLogin(fd) \/ AnswerPairing(fd)
          \/ AnswerUpload(fd)
    BY <1>3 DEF HandleClient
  <2>2. CASE ReadsNothing(fd) \/ AnswerUnrouted(fd) \/ AnswerRead(fd) \/ AnswerEvents(fd)
    BY <1>1, <1>2, <2>2
    DEF ReadsNothing, AnswerUnrouted, AnswerRead, AnswerEvents, authVars, histVars
  <2>3. CASE AnswerGuarded(fd) \/ AnswerUpload(fd)
    BY <1>1, <1>2, <2>3
    DEF AnswerGuarded, AnswerUpload, Challenged, CreateNonce, authVars, histVars
  <2>4. CASE AnswerSetup(fd)
    <3>1. PICK c \in Client, how \in How, required \in BOOLEAN, pw \in Password \cup {None},
               hashed \in BOOLEAN :
            \/ /\ \E x \in FilesAfter(SetupSaves(required, pw, hashed), Gap(required, hashed),
                                      Unhashed(hashed)) :
                    SetupPost(c, how, required, pw, hashed, x.file) /\ torn' = x.torn
               /\ wanted' = required /\ flaws' = Unhashed(hashed)
            \/ UNCHANGED <<authVars, histVars>>
      BY <2>4 DEF AnswerSetup
    <3> QED
      BY <1>1, <1>2, <3>1, SetupSettings DEF authVars, histVars
  <2>5. CASE AnswerLogin(fd)
    BY <1>1, <1>2, <2>5 DEF AnswerLogin, AuthPost, AddSessionToken, authVars, histVars
  <2>6. CASE AnswerPairing(fd)
    <3>1. PICK c \in Client, how \in How :
            \/ /\ auth.setup
               /\ \E x \in FilesAfter(<<[auth EXCEPT !.digest = serial + 1]>>, {}, flaws) :
                    torn' = x.torn /\ RequestPost(c, how, x.file)
            \/ ~auth.setup /\ RequestPost(c, how, saved) /\ torn' = torn
            \/ UNCHANGED <<authVars, torn>>
      BY <2>6 DEF AnswerPairing
    <3>2. wanted' = wanted /\ flaws' = flaws
      BY <2>6 DEF AnswerPairing
    <3>3. CASE UNCHANGED <<authVars, torn>>
      BY <1>1, <1>2, <3>2, <3>3 DEF authVars
    <3> QED
      BY <3>1, <3>2, <3>3, PairingSettings
  <2> QED
    BY <2>1, <2>2, <2>3, <2>4, <2>5, <2>6
<1>4. CASE Stopped
  <2>1. AuthRestart(saved) /\ flaws' = torn /\ UNCHANGED <<wanted, torn>>
    BY <1>4 DEF Stopped
  <2> QED
    BY <2>1 DEF AuthRestart, SettingsInv
<1>5. CASE StoppedInSetup
  <2>1. PICK c \in Client, how \in How, required \in BOOLEAN, pw \in Password \cup {None},
             hashed \in BOOLEAN :
          /\ SetupAllowed(c, how, required, pw)
          /\ \E x \in Between(SetupSaves(required, pw, hashed), Gap(required, hashed))
                        \cup Cut(SetupSaves(required, pw, hashed)) :
               AuthRestart(x.file) /\ torn' = x.torn /\ flaws' = x.torn
    BY <1>5 DEF StoppedInSetup
  <2>2. wanted' = wanted
    BY <1>5 DEF StoppedInSetup
  <2>3. PICK x \in Between(SetupSaves(required, pw, hashed), Gap(required, hashed))
                     \cup Cut(SetupSaves(required, pw, hashed)) :
          AuthRestart(x.file) /\ torn' = x.torn /\ flaws' = x.torn
    BY <2>1
  <2>4. auth \in Settings /\ serial \in Nat
    BY DEF SettingsInv, SettingsOK
  <2>5. FileOK(x, wanted)
    <3> DEFINE q == SetupSaves(required, pw, hashed)
    <3>1. \A k \in DOMAIN q : q[k] \in Settings
      BY <2>4, SavesOfSetup
    <3>2. CASE x \in Between(q, Gap(required, hashed))
      BY <2>1, <3>2, BetweenIsExcused
    <3>3. CASE x \in Cut(q)
      <4> HIDE DEF q
      <4> QED
        BY <3>1, <3>3, CutIsExcused
    <3> QED
      BY <2>3, <3>2, <3>3
  <2> QED
    BY <2>2, <2>3, <2>5, RestartSettings
<1>6. CASE StoppedInPairing
  <2>1. PICK x \in Cut(<<auth>>) : AuthRestart(x.file) /\ torn' = x.torn /\ flaws' = x.torn
    BY <1>6 DEF StoppedInPairing
  <2>2. wanted' = wanted
    BY <1>6 DEF StoppedInPairing
  <2>3. \A k \in DOMAIN <<auth>> : <<auth>>[k] \in Settings
    BY DEF SettingsInv, SettingsOK
  <2>4. FileOK(x, wanted)
    BY <2>3, CutIsExcused
  <2> QED
    BY <2>1, <2>2, <2>4, RestartSettings
<1>7. CASE HandleAccept \/ PeerLeaves \/ PushStarts \/ PushStep \/ StatusGrows
  BY <1>1, <1>2, <1>7
  DEF HandleAccept, PeerLeaves, PushStarts, PushStep, StatusGrows, authVars, histVars
<1>8. CASE TimePasses
  BY <1>1, <1>2, <1>8 DEF TimePasses, NoncesExpire, TokensExpire, histVars
<1>9. CASE UNCHANGED webVars
  BY <1>1, <1>2, <1>9 DEF webVars, authVars, histVars
<1> QED
  BY <1>3, <1>4, <1>5, <1>6, <1>7, <1>8, <1>9 DEF WebNext

\* RefusalHasAWayIn for every set of passwords and number of stops: a printer that asks for
\* credentials has a password to log in with, but for the failures it names.
THEOREM RefusalAlwaysHasAWayIn == WebSpec => []RefusalHasAWayIn
<1>1. SettingsInv => RefusalHasAWayIn
  BY DEF SettingsInv, SettingsOK, HasWayIn, RefusalHasAWayIn
<1> QED
  BY <1>1, SettingsInit, SettingsNext, PTL DEF WebSpec

\* ProtectionPersists likewise: only a restart from a file that a save cut short or failed
\* to write opens a printer whose owner asked for credentials.
THEOREM ProtectionAlwaysPersists == WebSpec => []ProtectionPersists
<1>1. SettingsInv => ProtectionPersists
  BY DEF SettingsInv, SettingsOK, Protects, ProtectionPersists
<1> QED
  BY <1>1, SettingsInit, SettingsNext, PTL DEF WebSpec
=============================================================================
