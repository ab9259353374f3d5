-------------------------- MODULE BulkWriteProofs --------------------------
(***************************************************************************)
(* Proofs about BulkWrite, for queues of any length and operations of any  *)
(* sizes and fates.                                                        *)
(***************************************************************************)
EXTENDS BulkWrite, SequenceTheorems, FiniteSetTheorems, TLAPS

Passed == {plan[j] : j \in 1..pos}

(* What execute starts from, and what never changes *)
StartInv ==
    /\ pc = "build" => /\ plan = <<>> /\ pos = 0 /\ left = <<>> /\ tried = <<>>
                       /\ opCount = 0 /\ errors = {} /\ upserted = {}
                       /\ \A t \in Types : count[t] = 0
    /\ pc \in {"build", "run"} => outcome = "none"
    /\ useCmd => ~w0

(* The plan goes through the whole queue, in its order if it is ordered. *)
PlanInv ==
    pc # "build" =>
        /\ Len(plan) = Len(queue)
        /\ \A j \in 1..Len(plan) : plan[j] \in Ops
        /\ \A j, k \in 1..Len(plan) : plan[j] = plan[k] => j = k
        /\ \A i \in Ops : \E j \in 1..Len(plan) : plan[j] = i
        /\ ordered => \A j \in 1..Len(plan) : plan[j] = j

(* Chunks of the lengths l lie one after the other in a plan of length n:  *)
(* e[i] is where the i-th ends.                                            *)
Ends(l, from, n, e) ==
    /\ e \in [0..Len(l) -> 0..n] /\ e[0] = from
    /\ \A i \in 1..Len(l) : e[i] = e[i - 1] + l[i]

LeftInv == pc = "run" => \E e : Ends(left, pos, Len(plan), e)

(* Only operations that have been passed were tried. *)
PassedInv == pc = "run" => Tried \subseteq Passed

(* The failures are told, once and for what failed; an upsert is told for  *)
(* each operation that was one.                                            *)
ReportIsTrue ==
    /\ \A i \in Tried : Fails(i) => i \in Told
    /\ \A i \in Told : Fails(i) \/ (~useCmd /\ Rejected(i))
    /\ \A e, f \in errors : e.op = f.op => e = f
    /\ {u.op : u \in upserted} = {i \in Tried : Fate(i) = "upsert"}
    /\ \A u, v \in upserted : u.op = v.op => u = v

(* Each operation passed was tried or has an error, and what execute has   *)
(* reported, or would report if it ended here, is true.                    *)
ToldInv ==
    ~w0 => /\ pc = "run" => Told \subseteq Passed /\ Passed \subseteq Tried \cup Told
           /\ pc = "run" \/ Reported => ReportIsTrue

(* The counts are those of the operations that were tried. *)
Succeeded(t) == {i \in Tried : Type(i) = t /\ Fate(i) = "ok"}

CountInv == ~w0 /\ (pc = "run" \/ Reported) => \A t \in Types : count[t] = Cardinality(Succeeded(t))

(* An ordered bulk that goes on has had no error. *)
OrderInv ==
    ordered /\ ~w0 =>
        /\ pc = "run" => errors = {} /\ Len(tried) = pos /\ opCount = pos
        /\ \A k \in 1..Len(tried) : tried[k] = k
        /\ \A e \in errors \cup upserted : e.index = e.op - 1

IInv == TypeOK /\ StartInv /\ PlanInv /\ LeftInv /\ PassedInv /\ ToldInv /\ CountInv /\ OrderInv
        /\ NoneTwice /\ StopsAtError /\ Complete /\ ConcernMeansWritten

-----------------------------------------------------------------------------
(* The operators *)

LEMMA PlanIs ==
  ASSUME queue \in Seq(OpSet), NEW p \in Plans
  PROVE  /\ p \in Seq(Nat) /\ Len(p) = Len(queue)
         /\ \A j \in 1..Len(p) : p[j] \in Ops
         /\ \A j, k \in 1..Len(p) : p[j] = p[k] => j = k
         /\ \A i \in Ops : \E j \in 1..Len(p) : p[j] = i
         /\ ordered => \A j \in 1..Len(p) : p[j] = j
<1>1. p \in [Ops -> Ops] /\ Len(queue) \in Nat /\ Ops \subseteq Nat
  BY DEF Plans, Ops
<1>2. p \in Seq(Nat) /\ Len(p) = Len(queue) /\ 1..Len(p) = Ops
  BY <1>1 DEF Ops
<1>3. CASE ordered
  BY <1>2, <1>3 DEF Plans
<1>4. CASE ~ordered
  <2>1. /\ \A i \in Ops : \E j \in Ops : p[j] = i
        /\ \A j, k \in Ops : j < k /\ Type(p[j]) = Type(p[k]) => p[j] < p[k]
    BY <1>4 DEF Plans
  <2>2. ASSUME NEW j \in Ops, NEW k \in Ops, p[j] = p[k] PROVE j = k
    <3>1. j \in Nat /\ k \in Nat /\ p[j] \in Nat /\ Type(p[j]) = Type(p[k])
      BY <1>1, <2>2
    <3>2. (j < k => p[j] < p[k]) /\ (k < j => p[k] < p[j])
      BY <2>1, <3>1, Zenon
    <3> QED
      BY ONLY <2>2, <3>1, <3>2
  <2> QED
    BY <1>1, <1>2, <1>4, <2>1, <2>2
<1> QED
  BY <1>3, <1>4

(* The number of pieces of length k that n operations are cut into *)
LEMMA PiecesCount ==
  ASSUME NEW n \in Nat \ {0}, NEW k \in Nat \ {0}
  PROVE  LET m == (n + k - 1) \div k
         IN  m \in Nat \ {0} /\ (m - 1) * k < n /\ n <= m * k
<1> DEFINE m == (n + k - 1) \div k
<1>1. m \in Int /\ m * k <= n + k - 1 /\ n + k - 1 < (m + 1) * k
  OBVIOUS
<1> HIDE DEF m
<1>2. (m + 1) * k = m * k + k /\ (m - 1) * k = m * k - k
  BY <1>1
<1>3. (m - 1) * k < n /\ n <= m * k
  BY <1>1, <1>2
<1>4. m > 0
  BY <1>1, <1>3
<1> QED
  BY <1>1, <1>3, <1>4 DEF m

LEMMA Multiples ==
  ASSUME NEW a \in Nat, NEW b \in Nat, NEW k \in Nat, a <= b
  PROVE  a * k <= b * k
OBVIOUS

(* The chunks lie where the one lay that was split into them. *)
LEMMA SplitLies ==
  ASSUME NEW l \in Seq(Nat \ {0}), l # <<>>, NEW from \in Nat, NEW n \in Nat,
         NEW e, Ends(l, from, n, e), NEW k \in Nat \ {0}
  PROVE  /\ Pieces(Head(l), k) \o Tail(l) \in Seq(Nat \ {0})
         /\ \E f : Ends(Pieces(Head(l), k) \o Tail(l), from, n, f)
<1> DEFINE h == Head(l)
           m == (h + k - 1) \div k
           p == Pieces(h, k)
           r == p \o Tail(l)
           T(i) == i * k
           f == [i \in 0..Len(r) |-> IF i < m THEN from + T(i) ELSE e[i - m + 1]]
<1>1. /\ h \in Nat \ {0} /\ h = l[1] /\ Len(l) \in Nat \ {0}
      /\ Tail(l) \in Seq(Nat \ {0}) /\ Len(Tail(l)) = Len(l) - 1
      /\ \A i \in 1..Len(Tail(l)) : Tail(l)[i] = l[i + 1]
  BY HeadTailProperties, EmptySeq
<1>2. m \in Nat \ {0} /\ T(m - 1) < h /\ h <= T(m)
  BY <1>1, PiecesCount
<1>3. p = [i \in 1..m |-> IF T(i) <= h THEN k ELSE h - T(i - 1)]
  BY DEF Pieces
<1>t. /\ T(0) = 0 /\ \A i \in Nat : T(i) \in Nat
      /\ \A i \in Nat \ {0} : T(i) = T(i - 1) + k
  OBVIOUS
<1>u. \A i, j \in Nat : i <= j => T(i) <= T(j)
  BY Multiples
<1> HIDE DEF m, p, h, T
<1>h. h \in Nat \ {0}
  BY <1>1
<1>m. T(m - 1) < h
  BY <1>2
<1>n. m \in Nat \ {0} /\ h <= T(m)
  BY <1>2
<1>4. ASSUME NEW i \in 1..m
      PROVE  /\ i < m => p[i] = k
             /\ i = m => p[i] = h - T(m - 1)
  <2>1. ASSUME i < m PROVE p[i] = k
    <3>1. i \in Nat /\ m - 1 \in Nat /\ i <= m - 1
      BY <1>2, <2>1
    <3>2. T(i) <= T(m - 1) /\ T(i) \in Nat /\ T(m - 1) \in Nat
      BY ONLY <1>t, <1>u, <3>1
    <3>3. T(i) <= h
      BY ONLY <1>h, <1>m, <3>2
    <3> QED
      BY ONLY i \in 1..m, <1>3, <3>3
  <2>2. ASSUME i = m PROVE p[i] = h - T(m - 1)
    <3>1. T(m) = T(m - 1) + k
      BY <1>2, <1>t
    <3>2. T(m - 1) \in Nat
      BY <1>2, <1>t
    <3>3. T(m) <= h => h - T(m - 1) = k
      BY ONLY <1>h, <1>n, <3>1, <3>2, k \in Nat
    <3> QED
      BY ONLY <1>3, <2>2, <3>3, i \in 1..m
  <2> QED
    BY <2>1, <2>2
<1>5. p \in Seq(Nat \ {0}) /\ Len(p) = m
  <2>1. ASSUME NEW i \in 1..m PROVE p[i] \in Nat \ {0}
    <3>1. T(m - 1) \in Nat
      BY <1>2, <1>t
    <3>2. (i < m \/ i = m) /\ h - T(m - 1) \in Nat \ {0}
      BY ONLY <1>h, <1>m, <1>n, <3>1, i \in 1..m
    <3> QED
      BY ONLY <1>4, <3>2, i \in 1..m, k \in Nat \ {0}
  <2> QED
    BY <1>2, <1>3, <2>1
<1>6. /\ r \in Seq(Nat \ {0}) /\ Len(r) = m + Len(l) - 1
      /\ \A i \in 1..Len(r) : r[i] = IF i <= m THEN p[i] ELSE l[i - m + 1]
  <2>1. \A t \in Seq(Nat \ {0}) :
           /\ p \o t \in Seq(Nat \ {0}) /\ Len(p \o t) = m + Len(t)
           /\ \A i \in 1..(m + Len(t)) : (p \o t)[i] = IF i <= m THEN p[i] ELSE t[i - m]
    BY ONLY <1>5, ConcatProperties
  <2>2. /\ r \in Seq(Nat \ {0}) /\ Len(r) = m + Len(Tail(l))
        /\ \A i \in 1..Len(r) : r[i] = IF i <= m THEN p[i] ELSE Tail(l)[i - m]
    BY <1>1, <2>1
  <2> HIDE DEF r
  <2>3. ASSUME NEW i \in 1..Len(r), i > m PROVE Tail(l)[i - m] = l[i - m + 1]
    <3>1. i - m \in 1..Len(Tail(l))
      BY <1>1, <1>n, <2>2, <2>3
    <3> QED
      BY ONLY <1>1, <3>1
  <2> QED
    BY <1>1, <1>2, <2>2, <2>3
<1> HIDE DEF r
<1>7. /\ e \in [0..Len(l) -> 0..n] /\ e[0] = from
      /\ \A i \in 1..Len(l) : e[i] = e[i - 1] + l[i]
  BY DEF Ends
<1>8. e[1] = from + h /\ e[1] \in 0..n
  BY <1>1, <1>7
<1>9. ASSUME NEW i \in 0..Len(r)
      PROVE  /\ i < m => from + T(i) <= e[1] /\ from + T(i) >= from
             /\ i >= m => i - m + 1 \in 1..Len(l)
  <2>1. ASSUME i < m PROVE from + T(i) <= e[1] /\ from + T(i) >= from
    <3>1. i \in Nat /\ m - 1 \in Nat /\ i <= m - 1
      BY <1>1, <1>2, <1>6, <2>1
    <3>2. T(i) <= T(m - 1) /\ T(i) \in Nat /\ T(m - 1) \in Nat
      BY ONLY <1>t, <1>u, <3>1
    <3> QED
      BY ONLY <1>1, <1>2, <1>8, <3>2, from \in Nat
  <2>2. ASSUME i >= m PROVE i - m + 1 \in 1..Len(l)
    BY <1>1, <1>2, <1>6, <2>2
  <2> QED
    BY <2>1, <2>2
<1>10. /\ DOMAIN f = 0..Len(r) /\ f = [i \in 0..Len(r) |-> f[i]]
       /\ \A i \in 0..Len(r) : f[i] = IF i < m THEN from + T(i) ELSE e[i - m + 1]
  OBVIOUS
<1> HIDE DEF f
<1>11. Len(r) \in Nat /\ 0 \in 0..Len(r) /\ f[0] = from
  <2>1. Len(r) \in Nat /\ 0 \in 0..Len(r)
    BY ONLY <1>1, <1>2, <1>6
  <2>2. f[0] = from + T(0)
    BY ONLY <1>n, <1>10, <2>1
  <2> QED
    BY ONLY <1>t, <2>1, <2>2, from \in Nat
<1>12. f \in [0..Len(r) -> 0..n]
  <2>1. ASSUME NEW i \in 0..Len(r) PROVE f[i] \in 0..n
    <3>0. i \in Nat /\ T(i) \in Nat
      BY <1>11, <1>t
    <3>1. CASE i < m
      BY ONLY <1>1, <1>8, <1>9, <1>10, <3>0, <3>1, from \in Nat, n \in Nat, i \in 0..Len(r)
    <3>2. CASE i >= m
      BY ONLY <1>2, <1>7, <1>9, <1>10, <3>0, <3>2, i \in 0..Len(r), n \in Nat
    <3> QED
      BY <1>2, <3>0, <3>1, <3>2
  <2> QED
    BY <1>10, <2>1
<1>13. ASSUME NEW i \in 1..Len(r) PROVE f[i] = f[i - 1] + r[i]
  <2>1. /\ i \in 0..Len(r) /\ i - 1 \in 0..Len(r) /\ i \in Nat \ {0} /\ i - 1 \in Nat
        /\ T(i) = T(i - 1) + k /\ T(i - 1) \in Nat
    <3>1. /\ i \in 0..Len(r) /\ i - 1 \in 0..Len(r) /\ i \in Nat \ {0} /\ i - 1 \in Nat
      BY <1>11
    <3> QED
      BY ONLY <1>t, <3>1
  <2>2. CASE i < m
    <3>1. f[i] = from + T(i) /\ f[i - 1] = from + T(i - 1)
      BY ONLY <1>2, <1>10, <2>1, <2>2
    <3>2. i \in 1..m /\ i <= m
      BY <1>2, <2>1, <2>2
    <3>3. r[i] = p[i] /\ p[i] = k
      BY ONLY <1>4, <1>6, <2>2, <3>2, i \in 1..Len(r)
    <3> QED
      BY ONLY <2>1, <3>1, <3>3, from \in Nat, k \in Nat
  <2>3. CASE i = m
    <3>1. f[i] = e[1] /\ f[i - 1] = from + T(i - 1)
      BY ONLY <1>2, <1>10, <2>1, <2>3
    <3>2. r[i] = h - T(i - 1)
      BY <1>2, <1>4, <1>6, <2>1, <2>3
    <3> QED
      BY ONLY <1>1, <1>8, <2>1, <3>1, <3>2, from \in Nat
  <2>4. CASE i > m
    <3>1. i - m + 1 \in 1..Len(l) /\ (i - m + 1) - 1 = i - m /\ (i - 1) - m + 1 = i - m
      BY <1>2, <1>9, <2>1, <2>4
    <3>2. e[i - m + 1] = e[i - m] + l[i - m + 1]
      BY ONLY <1>7, <3>1
    <3>3. ~(i < m) /\ ~(i - 1 < m) /\ ~(i <= m)
      BY <1>2, <2>1, <2>4
    <3>4. f[i] = e[i - m + 1] /\ f[i - 1] = e[i - m]
      BY ONLY <1>10, <2>1, <3>1, <3>3
    <3>5. r[i] = l[i - m + 1]
      BY ONLY <1>6, <3>3, i \in 1..Len(r)
    <3> QED
      BY ONLY <3>2, <3>4, <3>5
  <2> QED
    BY <1>2, <2>1, <2>2, <2>3, <2>4
<1> QED
  BY <1>6, <1>11, <1>12, <1>13 DEF r, p, h, Ends

LEMMA Prepend ==
  ASSUME NEW x \in Nat \ {0}, NEW t \in Seq(Nat \ {0})
  PROVE  /\ <<x>> \o t \in Seq(Nat \ {0}) /\ Len(<<x>> \o t) = Len(t) + 1
         /\ (<<x>> \o t)[1] = x
         /\ \A i \in 1..Len(t) : (<<x>> \o t)[i + 1] = t[i]
<1> DEFINE d == <<x>>
<1>1. d \in Seq(Nat \ {0}) /\ Len(d) = 1 /\ d[1] = x /\ Len(t) \in Nat
  OBVIOUS
<1> HIDE DEF d
<1> DEFINE r == d \o t
<1>2. /\ r \in Seq(Nat \ {0}) /\ Len(r) = Len(d) + Len(t)
      /\ \A i \in 1..(Len(d) + Len(t)) : r[i] = IF i <= Len(d) THEN d[i] ELSE t[i - Len(d)]
  BY <1>1, ConcatProperties
<1> HIDE DEF r
<1>3. Len(r) = Len(t) + 1 /\ r[1] = x
  <2>1. 1 \in 1..(Len(d) + Len(t)) /\ 1 <= Len(d)
    BY ONLY <1>1
  <2> QED
    BY ONLY <1>1, <1>2, <2>1
<1>4. ASSUME NEW i \in 1..Len(t) PROVE r[i + 1] = t[i]
  <2>1. i + 1 \in 1..(Len(d) + Len(t)) /\ ~(i + 1 <= Len(d)) /\ i + 1 - Len(d) = i
    BY ONLY <1>1, i \in 1..Len(t)
  <2>2. r[i + 1] = t[i + 1 - Len(d)]
    BY ONLY <1>2, <2>1
  <2> QED
    BY ONLY <2>1, <2>2
<1> QED
  BY <1>2, <1>3, <1>4 DEF r, d

LEMMA PassLies ==
  ASSUME NEW l \in Seq(Nat \ {0}), l # <<>>, NEW from \in Nat, NEW n \in Nat,
         NEW e, Ends(l, from, n, e), NEW k \in 1..Head(l),
         NEW r, r = IF k = Head(l) THEN Tail(l) ELSE <<Head(l) - k>> \o Tail(l)
  PROVE  /\ r \in Seq(Nat \ {0}) /\ from + k \in 0..n
         /\ \E f : Ends(r, from + k, n, f)
<1>1. /\ l[1] = Head(l) /\ l[1] \in Nat \ {0} /\ Len(l) \in Nat \ {0}
      /\ Tail(l) \in Seq(Nat \ {0}) /\ Len(Tail(l)) = Len(l) - 1
      /\ \A i \in 1..Len(Tail(l)) : Tail(l)[i] = l[i + 1]
  BY HeadTailProperties, EmptySeq
<1>2. /\ e \in [0..Len(l) -> 0..n] /\ e[0] = from
      /\ \A i \in 1..Len(l) : e[i] = e[i - 1] + l[i]
  BY DEF Ends
<1>3. e[1] = from + l[1] /\ e[1] \in 0..n /\ k \in 1..l[1] /\ from + k \in 0..n
  <2>1. e[1] = from + l[1] /\ e[1] \in 0..n
    <3>1. 1 \in 1..Len(l) /\ 1 \in 0..Len(l) /\ 1 - 1 = 0
      BY <1>1
    <3> QED
      BY <1>2, <3>1
  <2>2. k \in 1..l[1]
    BY <1>1
  <2> QED
    BY ONLY <1>1, <2>1, <2>2, from \in Nat, n \in Nat
<1>4. CASE k = Head(l)
  <2> DEFINE f == [i \in 0..Len(r) |-> e[i + 1]]
  <2>1. r = Tail(l) /\ Len(r) = Len(l) - 1
    BY <1>1, <1>4
  <2>2. /\ \A i \in 0..Len(r) : f[i] = e[i + 1] /\ i + 1 \in 1..Len(l)
        /\ f = [i \in 0..Len(r) |-> f[i]]
    BY ONLY <1>1, <2>1
  <2> HIDE DEF f
  <2>3. f \in [0..Len(r) -> 0..n]
    BY ONLY <1>1, <1>2, <2>1, <2>2
  <2>4. f[0] = from + k
    BY <1>1, <1>2, <1>3, <1>4, <2>1, <2>2
  <2>5. ASSUME NEW i \in 1..Len(r) PROVE f[i] = f[i - 1] + r[i]
    <3>1. i + 1 \in 1..Len(l) /\ (i + 1) - 1 = i /\ i \in 0..Len(r) /\ i - 1 \in 0..Len(r) /\ (i - 1) + 1 = i
      BY ONLY <1>1, <2>1, i \in 1..Len(r)
    <3>2. e[i + 1] = e[i] + l[i + 1]
      BY ONLY <1>2, <3>1
    <3>3. f[i] = e[i + 1] /\ f[i - 1] = e[i] /\ r[i] = l[i + 1]
      BY <1>1, <2>1, <2>2, <3>1
    <3> QED
      BY ONLY <3>2, <3>3
  <2>6. Ends(r, from + k, n, f)
    BY <2>3, <2>4, <2>5 DEF Ends
  <2> QED
    BY <1>1, <1>3, <2>1, <2>6
<1>5. CASE k # Head(l)
  <2> DEFINE f == [i \in 0..Len(l) |-> IF i = 0 THEN from + k ELSE e[i]]
  <2>1. r = <<l[1] - k>> \o Tail(l) /\ l[1] - k \in Nat \ {0}
    BY <1>1, <1>3, <1>5
  <2>2. /\ r \in Seq(Nat \ {0}) /\ Len(r) = Len(Tail(l)) + 1 /\ r[1] = l[1] - k
        /\ \A i \in 1..Len(Tail(l)) : r[i + 1] = Tail(l)[i]
    BY ONLY <1>1, <2>1, Prepend
  <2>3. Len(r) = Len(l)
    BY ONLY <1>1, <2>2
  <2>4. ASSUME NEW i \in 2..Len(l) PROVE r[i] = l[i]
    <3>1. i - 1 \in 1..Len(Tail(l)) /\ (i - 1) + 1 = i
      BY <1>1
    <3> QED
      BY ONLY <1>1, <2>2, <3>1
  <2>5. /\ \A i \in 0..Len(l) : f[i] = IF i = 0 THEN from + k ELSE e[i]
        /\ f = [i \in 0..Len(l) |-> f[i]]
    OBVIOUS
  <2> HIDE DEF f
  <2>6. f \in [0..Len(l) -> 0..n]
    BY <1>2, <1>3, <2>5
  <2>7. f[0] = from + k
    BY <1>1, <2>5
  <2>8. ASSUME NEW i \in 1..Len(l) PROVE f[i] = f[i - 1] + r[i]
    <3>1. CASE i = 1
      <4>1. f[1] = e[1] /\ f[1 - 1] = from + k /\ r[1] = l[1] - k
        <5>1. 1 \in 0..Len(l) /\ 0 \in 0..Len(l) /\ 1 - 1 = 0
          BY <1>1
        <5>2. f[1] = e[1] /\ f[0] = from + k
          BY ONLY <2>5, <5>1
        <5> QED
          BY ONLY <2>2, <5>1, <5>2
      <4> QED
        BY ONLY <1>1, <1>3, <3>1, <4>1, from \in Nat
    <3>2. CASE i # 1
      <4>1. /\ i \in 0..Len(l) /\ i - 1 \in 0..Len(l) /\ i # 0 /\ i - 1 # 0
            /\ i \in 2..Len(l)
        BY ONLY <1>1, <3>2, i \in 1..Len(l)
      <4>2. f[i] = e[i] /\ f[i - 1] = e[i - 1]
        BY ONLY <2>5, <4>1
      <4> QED
        BY ONLY <1>2, <2>4, <4>1, <4>2, i \in 1..Len(l)
    <3> QED
      BY <3>1, <3>2
  <2>9. Ends(r, from + k, n, f)
    BY <2>3, <2>6, <2>7, <2>8 DEF Ends
  <2> QED
    BY <1>3, <2>2, <2>9
<1> QED
  BY <1>4, <1>5

-----------------------------------------------------------------------------
(* What the server is sent *)

(* A step has the server try "done", which is next in the plan. *)
Sent(done) ==
    /\ done \in Seq(Nat) /\ pos + Len(done) <= Len(plan)
    /\ \A k \in 1..Len(done) : done[k] = plan[pos + k]
    /\ ordered => \A k \in 1..(Len(done) - 1) : ~Fails(done[k])
    /\ tried' = tried \o done

Elements(s) == {s[k] : k \in 1..Len(s)}

(* Nothing of it was passed before, so nothing is tried twice. *)
LEMMA SentIsNew ==
  ASSUME TypeOK, PlanInv, PassedInv, NoneTwice, pc = "run", NEW done, Sent(done)
  PROVE  /\ tried' \in Seq(Nat) /\ Len(tried') = Len(tried) + Len(done)
         /\ \A k \in 1..Len(tried) : tried'[k] = tried[k]
         /\ \A k \in 1..Len(done) : tried'[Len(tried) + k] = done[k]
         /\ Tried' = Tried \cup Elements(done)
         /\ Elements(done) \subseteq Ops /\ Elements(done) \cap Passed = {}
         /\ \A j, k \in 1..Len(done) : done[j] = done[k] => j = k
         /\ NoneTwice'
<1>1. /\ tried \in Seq(Nat) /\ done \in Seq(Nat) /\ tried' = tried \o done
      /\ Len(tried) \in Nat /\ Len(done) \in Nat
  BY DEF TypeOK, Sent
<1>2. /\ tried' \in Seq(Nat) /\ Len(tried') = Len(tried) + Len(done)
      /\ \A i \in 1..(Len(tried) + Len(done)) :
            tried'[i] = IF i <= Len(tried) THEN tried[i] ELSE done[i - Len(tried)]
  BY ONLY <1>1, ConcatProperties
<1>3. \A k \in 1..Len(tried) : tried'[k] = tried[k]
  BY ONLY <1>1, <1>2
<1>4. ASSUME NEW k \in 1..Len(done) PROVE tried'[Len(tried) + k] = done[k]
  <2>1. /\ Len(tried) + k \in 1..(Len(tried) + Len(done)) /\ ~(Len(tried) + k <= Len(tried))
        /\ Len(tried) + k - Len(tried) = k
    BY <1>1
  <2> QED
    BY ONLY <1>2, <2>1
<1>5. \A i \in 1..Len(tried') :
         i \in 1..Len(tried) \/ \E k \in 1..Len(done) : i = Len(tried) + k
  <2>1. ASSUME NEW i \in 1..Len(tried'), i \notin 1..Len(tried)
        PROVE  i - Len(tried) \in 1..Len(done) /\ i = Len(tried) + (i - Len(tried))
    BY ONLY <1>1, <1>2, <2>1, i \in 1..Len(tried')
  <2> QED
    BY <2>1
<1>6. Tried' = Tried \cup Elements(done)
  <2>1. ASSUME NEW x \in Tried' PROVE x \in Tried \cup Elements(done)
    <3>1. PICK i \in 1..Len(tried') : x = tried'[i]
      BY DEF Tried
    <3>2. i \in 1..Len(tried) \/ \E k \in 1..Len(done) : i = Len(tried) + k
      BY <1>5
    <3> QED
      BY ONLY <1>3, <1>4, <3>1, <3>2 DEF Tried, Elements
  <2>2. \A k \in 1..Len(tried) : k \in 1..Len(tried')
    BY <1>1, <1>2
  <2>3. \A k \in 1..Len(done) : Len(tried) + k \in 1..Len(tried')
    BY <1>1, <1>2
  <2>4. ASSUME NEW x \in Tried \cup Elements(done) PROVE x \in Tried'
    <3>1. CASE x \in Tried
      <4>1. PICK k \in 1..Len(tried) : x = tried[k]
        BY <3>1 DEF Tried
      <4> QED
        BY <1>3, <2>2, <4>1 DEF Tried
    <3>2. CASE x \in Elements(done)
      <4>1. PICK k \in 1..Len(done) : x = done[k]
        BY <3>2 DEF Elements
      <4> QED
        BY <1>4, <2>3, <4>1 DEF Tried
    <3> QED
      BY <3>1, <3>2
  <2> QED
    BY <2>1, <2>4
<1>7. /\ pos \in Nat /\ Len(plan) \in Nat /\ pos + Len(done) <= Len(plan) /\ pos <= Len(plan)
      /\ \A k \in 1..Len(done) : done[k] = plan[pos + k]
      /\ \A j \in 1..Len(plan) : plan[j] \in Ops
      /\ \A j, k \in 1..Len(plan) : plan[j] = plan[k] => j = k
  BY DEF TypeOK, Sent, PlanInv
<1>8. \A k \in 1..Len(done) : pos + k \in 1..Len(plan) /\ pos + k \in Nat /\ pos + k > pos
  BY ONLY <1>1, <1>7
<1>9. Elements(done) \subseteq Ops
  BY <1>7, <1>8 DEF Elements
<1>10. ASSUME NEW k \in 1..Len(done), NEW j \in 1..pos PROVE done[k] # plan[j]
  <2>1. j \in 1..Len(plan) /\ j # pos + k
    BY ONLY <1>7, <1>8, k \in 1..Len(done), j \in 1..pos
  <2> QED
    BY <1>7, <1>8, <2>1
<1>11. Elements(done) \cap Passed = {}
  BY <1>10 DEF Elements, Passed
<1>12. \A i \in 1..Len(tried) : tried[i] \in Passed
  BY DEF PassedInv, Tried
<1>13. \A i \in 1..Len(tried), k \in 1..Len(done) : tried[i] # done[k]
  BY <1>11, <1>12 DEF Elements
<1>14. ASSUME NEW j \in 1..Len(done), NEW k \in 1..Len(done), done[j] = done[k] PROVE j = k
  <2>1. pos + j = pos + k
    BY <1>7, <1>8, <1>14
  <2> QED
    BY ONLY <1>1, <1>7, <2>1, j \in 1..Len(done), k \in 1..Len(done)
<1>15. \A j, k \in 1..Len(tried) : tried[j] = tried[k] => j = k
  BY DEF NoneTwice
<1>16. ASSUME NEW j \in 1..Len(tried'), NEW k \in 1..Len(tried'), tried'[j] = tried'[k] PROVE j = k
  <2>1. CASE j \in 1..Len(tried) /\ k \in 1..Len(tried)
    BY ONLY <1>3, <1>15, <1>16, <2>1
  <2>2. CASE j \in 1..Len(tried) /\ k \notin 1..Len(tried)
    <3>1. PICK b \in 1..Len(done) : k = Len(tried) + b
      BY <1>5, <2>2
    <3> QED
      BY ONLY <1>3, <1>4, <1>13, <1>16, <2>2, <3>1
  <2>3. CASE j \notin 1..Len(tried) /\ k \in 1..Len(tried)
    <3>1. PICK a \in 1..Len(done) : j = Len(tried) + a
      BY <1>5, <2>3
    <3> QED
      BY ONLY <1>3, <1>4, <1>13, <1>16, <2>3, <3>1
  <2>4. CASE j \notin 1..Len(tried) /\ k \notin 1..Len(tried)
    <3>1. PICK a \in 1..Len(done) : j = Len(tried) + a
      BY <1>5, <2>4
    <3>2. PICK b \in 1..Len(done) : k = Len(tried) + b
      BY <1>5, <2>4
    <3>3. tried'[j] = done[a] /\ tried'[k] = done[b]
      BY <1>4, <3>1, <3>2
    <3> QED
      BY ONLY <1>14, <1>16, <3>1, <3>2, <3>3
  <2> QED
    BY <2>1, <2>2, <2>3, <2>4
<1>17. NoneTwice'
  BY <1>16 DEF NoneTwice
<1> QED
  BY <1>2, <1>3, <1>4, <1>6, <1>9, <1>11, <1>14, <1>17

(* An ordered bulk that goes on has had no error. *)
LEMMA NoneFailed ==
  ASSUME OrderInv, ToldInv, pc = "run", ordered, ~w0
  PROVE  \A i \in Tried : ~Fails(i)
<1>1. Told = {}
  BY DEF OrderInv, Told
<1> QED
  BY <1>1 DEF ToldInv, ReportIsTrue

(* An ordered bulk goes on where it stopped, and it has not failed yet. *)
LEMMA SentInOrder ==
  ASSUME TypeOK, PlanInv, PassedInv, NoneTwice, OrderInv, ToldInv, pc = "run",
         ordered, ~w0, NEW done, Sent(done)
  PROVE  /\ \A k \in 1..Len(tried') : tried'[k] = k
         /\ \A k \in 1..(Len(tried') - 1) : ~Fails(tried'[k])
<1>1. /\ Len(tried') = Len(tried) + Len(done)
      /\ \A k \in 1..Len(tried) : tried'[k] = tried[k]
      /\ \A k \in 1..Len(done) : tried'[Len(tried) + k] = done[k]
  BY SentIsNew
<1>2. /\ Len(tried) = pos /\ pos \in Nat /\ Len(done) \in Nat
      /\ Len(plan) \in Nat /\ pos + Len(done) <= Len(plan)
      /\ \A k \in 1..Len(tried) : tried[k] = k
      /\ \A j \in 1..Len(plan) : plan[j] = j
      /\ \A k \in 1..Len(done) : done[k] = plan[pos + k]
      /\ \A k \in 1..(Len(done) - 1) : ~Fails(done[k])
  BY DEF TypeOK, Sent, PlanInv, OrderInv
<1>3. \A k \in 1..Len(tried) : ~Fails(tried[k])
  BY NoneFailed DEF Tried
<1>4. ASSUME NEW k \in 1..Len(tried')
      PROVE  tried'[k] = k /\ (k # Len(tried') => ~Fails(tried'[k]))
  <2>1. CASE k \in 1..Len(tried)
    BY <1>1, <1>2, <1>3, <2>1
  <2>2. CASE k \notin 1..Len(tried)
    <3>1. PICK j \in 1..Len(done) : k = Len(tried) + j
      <4>1. k - Len(tried) \in 1..Len(done) /\ k = Len(tried) + (k - Len(tried))
        BY ONLY <1>1, <1>2, <2>2, k \in 1..Len(tried')
      <4> QED
        BY <4>1
    <3>2. pos + j \in 1..Len(plan) /\ (k # Len(tried') => j \in 1..(Len(done) - 1))
      BY ONLY <1>1, <1>2, <3>1, j \in 1..Len(done)
    <3>3. tried'[k] = done[j] /\ done[j] = plan[pos + j] /\ plan[pos + j] = pos + j
      BY <1>1, <1>2, <3>1, <3>2
    <3> QED
      BY <1>2, <3>1, <3>2, <3>3
  <2> QED
    BY <2>1, <2>2
<1>5. \A k \in 1..(Len(tried') - 1) : k \in 1..Len(tried') /\ k # Len(tried')
  BY <1>1, <1>2
<1> QED
  BY <1>4, <1>5

-----------------------------------------------------------------------------
(* What a result says of the operations it is about *)

LEMMA EntriesOf ==
  ASSUME opCount \in Nat, NEW done \in Seq(Nat), NEW fates
  PROVE  /\ Entries(done, fates) \subseteq [index : Nat, op : Nat]
         /\ {e.op : e \in Entries(done, fates)} = {i \in Elements(done) : Fate(i) \in fates}
         /\ \A e \in Entries(done, fates) :
               \E k \in 1..Len(done) : e.op = done[k] /\ e.index = opCount + k - 1
<1> DEFINE E == Entries(done, fates)
           K == {j \in 1..Len(done) : Fate(done[j]) \in fates}
           entry(k) == [index |-> opCount + k - 1, op |-> done[k]]
<1>1. E = {entry(k) : k \in K}
  BY DEF Entries
<1>2. ASSUME NEW k \in K
      PROVE  /\ entry(k) \in [index : Nat, op : Nat]
             /\ entry(k).op = done[k] /\ entry(k).index = opCount + k - 1
             /\ k \in 1..Len(done) /\ done[k] \in Elements(done) /\ Fate(done[k]) \in fates
  BY DEF Elements
<1> HIDE DEF entry, E
<1>3. ASSUME NEW i \in Elements(done), Fate(i) \in fates PROVE \E k \in K : i = done[k]
  BY <1>3 DEF Elements
<1> HIDE DEF K
<1>4. E \subseteq [index : Nat, op : Nat]
  BY <1>1, <1>2
<1>5. {e.op : e \in E} = {i \in Elements(done) : Fate(i) \in fates}
  <2>1. ASSUME NEW e \in E PROVE e.op \in Elements(done) /\ Fate(e.op) \in fates
    BY <1>1, <1>2
  <2>2. ASSUME NEW i \in Elements(done), Fate(i) \in fates PROVE \E e \in E : e.op = i
    <3>1. PICK k \in K : i = done[k]
      BY <1>3, <2>2
    <3>2. entry(k) \in E /\ entry(k).op = i
      BY <1>1, <1>2, <3>1
    <3> QED
      BY <3>2
  <2> QED
    BY <2>1, <2>2
<1>6. \A e \in E : \E k \in 1..Len(done) : e.op = done[k] /\ e.index = opCount + k - 1
  BY <1>1, <1>2
<1> QED
  BY <1>4, <1>5, <1>6 DEF E

LEMMA SameNumber ==
  ASSUME NEW S, NEW T, IsFiniteSet(S), NEW f \in [S -> T],
         \A a, b \in S : f[a] = f[b] => a = b, \A y \in T : \E a \in S : f[a] = y
  PROVE  IsFiniteSet(T) /\ Cardinality(T) = Cardinality(S)
<1>1. f \in Injection(S, T) /\ f \in Surjection(S, T)
  BY DEF Injection, IsInjective, Surjection
<1>2. f \in Bijection(S, T)
  BY <1>1 DEF Bijection
<1> QED
  BY <1>2, FS_Bijection DEF ExistsBijection

(* The applied operations of a type, counted by their places or themselves *)
LEMMA AppliedNumber ==
  ASSUME NEW done \in Seq(Nat), NEW t,
         \A j, k \in 1..Len(done) : done[j] = done[k] => j = k
  PROVE  LET S == {i \in Elements(done) : Type(i) = t /\ Fate(i) = "ok"}
         IN  /\ IsFiniteSet(S) /\ Cardinality(S) = Cardinality(Applied(done, t))
             /\ Cardinality(S) \in Nat
<1> DEFINE S == {i \in Elements(done) : Type(i) = t /\ Fate(i) = "ok"}
           A == Applied(done, t)
           f == [k \in A |-> done[k]]
<1>1. A \subseteq 1..Len(done) /\ \A k \in A : done[k] \in S
  BY DEF Applied, Elements
<1>2. \A i \in S : \E k \in A : done[k] = i
  BY DEF Applied, Elements
<1> HIDE DEF A, S
<1>3. IsFiniteSet(A)
  <2>1. IsFiniteSet(1..Len(done))
    BY FS_Interval
  <2> QED
    BY <1>1, <2>1, FS_Subset
<1>4. /\ f \in [A -> S] /\ \A a, b \in A : f[a] = f[b] => a = b
      /\ \A y \in S : \E a \in A : f[a] = y
  BY <1>1, <1>2
<1> HIDE DEF f
<1>5. IsFiniteSet(S) /\ Cardinality(S) = Cardinality(A)
  BY <1>3, <1>4, SameNumber
<1> QED
  BY <1>5, FS_CardinalityType DEF S, A

(* Tried operations are finitely many. *)
LEMMA FinitelyMany ==
  ASSUME NEW s \in Seq(Nat) PROVE IsFiniteSet(Elements(s))
<1> DEFINE f == [k \in 1..Len(s) |-> s[k]]
<1>1. f \in Surjection(1..Len(s), Elements(s))
  BY DEF Surjection, Elements
<1>2. IsFiniteSet(1..Len(s))
  BY FS_Interval
<1> QED
  BY <1>1, <1>2, FS_Surjection

Frame == UNCHANGED <<queue, ordered, w0, useCmd, plan>>

OpsOf(S)    == {e.op : e \in S}
Distinct(S) == \A e, f \in S : e.op = f.op => e = f

(* One entry for each operation stays so: those of "done" are new. *)
LEMMA EntriesAdd ==
  ASSUME TypeOK, PlanInv, PassedInv, NoneTwice, pc = "run", NEW done, Sent(done),
         NEW S \in SUBSET [index : Nat, op : Nat], OpsOf(S) \subseteq Passed, Distinct(S),
         NEW fates, NEW R, R = S \cup Entries(done, fates)
  PROVE  /\ R \in SUBSET [index : Nat, op : Nat] /\ Distinct(R)
         /\ OpsOf(R) = OpsOf(S) \cup {i \in Elements(done) : Fate(i) \in fates}
<1> DEFINE E == Entries(done, fates)
<1>1. /\ Elements(done) \cap Passed = {}
      /\ \A j, k \in 1..Len(done) : done[j] = done[k] => j = k
  BY SentIsNew
<1>2. opCount \in Nat /\ done \in Seq(Nat)
  BY DEF TypeOK, Sent
<1>3. /\ E \subseteq [index : Nat, op : Nat]
      /\ {e.op : e \in E} = {i \in Elements(done) : Fate(i) \in fates}
      /\ \A e \in E : \E k \in 1..Len(done) : e.op = done[k] /\ e.index = opCount + k - 1
  BY <1>2, EntriesOf
<1> HIDE DEF E
<1>4. R = S \cup E
  BY DEF E
<1>5. \A e \in E : e.op \notin Passed
  BY <1>1, <1>3
<1>6. \A e \in S : e.op \in Passed
  BY DEF OpsOf
<1>7. ASSUME NEW e \in E, NEW f \in E, e.op = f.op PROVE e = f
  <2>1. PICK j \in 1..Len(done) : e.op = done[j] /\ e.index = opCount + j - 1
    BY <1>3
  <2>2. PICK k \in 1..Len(done) : f.op = done[k] /\ f.index = opCount + k - 1
    BY <1>3
  <2>3. e.index = f.index
    BY <1>1, <1>7, <2>1, <2>2
  <2>4. e \in [index : Nat, op : Nat] /\ f \in [index : Nat, op : Nat]
    BY <1>3
  <2> QED
    BY ONLY <1>7, <2>3, <2>4
<1>8. Distinct(R)
  BY <1>4, <1>5, <1>6, <1>7 DEF Distinct
<1>9. OpsOf(R) = OpsOf(S) \cup {e.op : e \in E}
  BY <1>4 DEF OpsOf
<1> QED
  BY <1>3, <1>4, <1>8, <1>9

LEMMA MergeTells ==
  ASSUME TypeOK, PlanInv, PassedInv, NoneTwice, ToldInv, pc = "run", ~w0,
         NEW done, Sent(done), Frame,
         errors' = errors \cup Entries(done, {"error", "dollar"}),
         upserted' = upserted \cup Entries(done, {"upsert"})
  PROVE  /\ ReportIsTrue'
         /\ errors' \subseteq [index : Nat, op : Nat] /\ upserted' \subseteq [index : Nat, op : Nat]
         /\ Told' = Told \cup {i \in Elements(done) : Fails(i)}
<1>1. /\ Tried \subseteq Passed /\ Told \subseteq Passed /\ ReportIsTrue
      /\ errors \in SUBSET [index : Nat, op : Nat]
      /\ upserted \in SUBSET [index : Nat, op : Nat]
  BY DEF PassedInv, ToldInv, TypeOK, ReportIsTrue
<1>2. Tried' = Tried \cup Elements(done)
  BY SentIsNew
<1>3. /\ errors' \in SUBSET [index : Nat, op : Nat] /\ Distinct(errors)'
      /\ OpsOf(errors') = OpsOf(errors) \cup {i \in Elements(done) : Fate(i) \in {"error", "dollar"}}
  <2> DEFINE F == {"error", "dollar"}
  <2>1. errors' = errors \cup Entries(done, F)
    OBVIOUS
  <2> HIDE DEF F
  <2>2. errors \in SUBSET [index : Nat, op : Nat] /\ OpsOf(errors) \subseteq Passed /\ Distinct(errors)
    BY <1>1 DEF Told, ReportIsTrue, OpsOf, Distinct
  <2>3. /\ errors' \in SUBSET [index : Nat, op : Nat] /\ Distinct(errors')
        /\ OpsOf(errors') = OpsOf(errors) \cup {i \in Elements(done) : Fate(i) \in F}
    BY ONLY TypeOK, PlanInv, PassedInv, NoneTwice, pc = "run", Sent(done), <2>1, <2>2, EntriesAdd
  <2> QED
    BY <2>3 DEF F
<1>4. /\ upserted' \in SUBSET [index : Nat, op : Nat] /\ Distinct(upserted)'
      /\ OpsOf(upserted') = OpsOf(upserted) \cup {i \in Elements(done) : Fate(i) \in {"upsert"}}
  <2> DEFINE F == {"upsert"}
  <2>1. upserted' = upserted \cup Entries(done, F)
    OBVIOUS
  <2> HIDE DEF F
  <2>2. upserted \in SUBSET [index : Nat, op : Nat] /\ OpsOf(upserted) \subseteq Passed /\ Distinct(upserted)
    BY <1>1 DEF Told, ReportIsTrue, OpsOf, Distinct
  <2>3. /\ upserted' \in SUBSET [index : Nat, op : Nat] /\ Distinct(upserted')
        /\ OpsOf(upserted') = OpsOf(upserted) \cup {i \in Elements(done) : Fate(i) \in F}
    BY ONLY TypeOK, PlanInv, PassedInv, NoneTwice, pc = "run", Sent(done), <2>1, <2>2, EntriesAdd
  <2> QED
    BY <2>3 DEF F
<1>5. queue' = queue /\ useCmd' = useCmd
  BY DEF Frame
<1>6. \A i : /\ Fails(i)' <=> Fails(i)
             /\ Rejected(i)' <=> Rejected(i)
             /\ Fate(i)' = Fate(i)
  BY <1>5 DEF Fails, Rejected, Fate
<1>7. \A i \in Tried' : Fails(i)' => i \in Told'
  BY <1>1, <1>2, <1>3, <1>6 DEF ReportIsTrue, OpsOf, Told, Fails
<1>8. \A i \in Told' : Fails(i)' \/ (~useCmd' /\ Rejected(i)')
  BY <1>1, <1>3, <1>5, <1>6 DEF ReportIsTrue, OpsOf, Told, Fails
<1>9. {u.op : u \in upserted'} = {i \in Tried' : Fate(i)' = "upsert"}
  BY <1>1, <1>2, <1>4, <1>6 DEF ReportIsTrue, OpsOf
<1>10. Told' = Told \cup {i \in Elements(done) : Fails(i)}
  BY <1>3 DEF Told, OpsOf, Fails
<1> QED
  BY <1>3, <1>4, <1>7, <1>8, <1>9, <1>10 DEF ReportIsTrue, Distinct

LEMMA MergeCounts ==
  ASSUME TypeOK, PlanInv, PassedInv, NoneTwice, pc = "run",
         NEW done, Sent(done), queue' = queue,
         count' = [t \in Types |-> count[t] + Cardinality(Applied(done, t))]
  PROVE  /\ count' \in [Types -> Nat]
         /\ \A t \in Types : count[t] = Cardinality(Succeeded(t))
                                => count'[t] = Cardinality(Succeeded(t)')
<1>1. /\ Tried' = Tried \cup Elements(done) /\ Elements(done) \cap Passed = {}
      /\ \A j, k \in 1..Len(done) : done[j] = done[k] => j = k
  BY SentIsNew
<1>2. Tried \subseteq Passed /\ done \in Seq(Nat) /\ tried \in Seq(Nat) /\ count \in [Types -> Nat]
  BY DEF PassedInv, Sent, TypeOK
<1>3. ASSUME NEW t \in Types
      PROVE  /\ Cardinality(Applied(done, t)) \in Nat
             /\ Cardinality(Succeeded(t)') = Cardinality(Succeeded(t)) + Cardinality(Applied(done, t))
             /\ Cardinality(Succeeded(t)) \in Nat
  <2> DEFINE S == {i \in Elements(done) : Type(i) = t /\ Fate(i) = "ok"}
  <2>1. IsFiniteSet(S) /\ Cardinality(S) = Cardinality(Applied(done, t)) /\ Cardinality(S) \in Nat
    BY <1>1, <1>2, AppliedNumber
  <2>2. IsFiniteSet(Succeeded(t)) /\ Cardinality(Succeeded(t)) \in Nat
    <3>1. IsFiniteSet(Elements(tried)) /\ Succeeded(t) \subseteq Elements(tried)
      BY <1>2, FinitelyMany DEF Succeeded, Tried, Elements
    <3> QED
      BY <3>1, FS_Subset, FS_CardinalityType
  <2>3. Succeeded(t)' = Succeeded(t) \cup S /\ Succeeded(t) \cap S = {}
    BY <1>1, <1>2 DEF Succeeded, Type, Fate
  <2> HIDE DEF S
  <2>4. Cardinality(Succeeded(t) \cup S) = Cardinality(Succeeded(t)) + Cardinality(S) - Cardinality(Succeeded(t) \cap S)
    BY <2>1, <2>2, FS_Union
  <2>5. Cardinality(Succeeded(t) \cap S) = 0
    BY <2>3, FS_EmptySet
  <2> QED
    BY <2>1, <2>2, <2>3, <2>4, <2>5
<1> QED
  BY <1>2, <1>3

-----------------------------------------------------------------------------
(* The steps *)

(* The chunk in front lies in the plan. *)
LEMMA HeadFits ==
  ASSUME TypeOK, LeftInv, pc = "run", left # <<>>
  PROVE  Head(left) \in Nat \ {0} /\ pos + Head(left) <= Len(plan)
<1>1. /\ left \in Seq(Nat \ {0}) /\ pos \in Nat /\ Len(plan) \in Nat
      /\ Head(left) \in Nat \ {0}
  BY EmptySeq, HeadTailProperties DEF TypeOK
<1>2. PICK e : Ends(left, pos, Len(plan), e)
  BY DEF LeftInv
<1>3. Head(left) \in 1..Head(left)
  BY <1>1
<1>4. pos + Head(left) \in 0..Len(plan)
  BY <1>1, <1>2, <1>3, PassLies
<1> QED
  BY <1>1, <1>4

LEMMA Passes ==
  ASSUME TypeOK, LeftInv, pc = "run", left # <<>>, plan' = plan,
         NEW k \in 1..Head(left), Pass(k)
  PROVE  /\ left' \in Seq(Nat \ {0}) /\ pos' = pos + k /\ pos' \in 0..Len(plan')
         /\ LeftInv'
         /\ Passed' = Passed \cup {plan[pos + j] : j \in 1..k}
<1>1. /\ left \in Seq(Nat \ {0}) /\ pos \in Nat /\ Len(plan) \in Nat /\ k \in Nat
      /\ Head(left) \in Nat \ {0}
  BY HeadFits DEF TypeOK
<1>2. /\ pos' = pos + k
      /\ left' = IF k = Head(left) THEN Tail(left) ELSE <<Head(left) - k>> \o Tail(left)
  BY DEF Pass
<1>3. PICK e : Ends(left, pos, Len(plan), e)
  BY DEF LeftInv
<1>4. /\ left' \in Seq(Nat \ {0}) /\ pos + k \in 0..Len(plan)
      /\ \E f : Ends(left', pos + k, Len(plan), f)
  BY <1>1, <1>2, <1>3, PassLies
<1>5. LeftInv'
  BY <1>2, <1>4 DEF LeftInv, Ends
<1>6. Passed' = Passed \cup {plan[pos + j] : j \in 1..k}
  <2>1. \A j \in 1..pos' : j \in 1..pos \/ (j - pos \in 1..k /\ pos + (j - pos) = j)
    BY <1>1, <1>2
  <2>2. \A j \in 1..k : pos + j \in 1..pos'
    BY <1>1, <1>2
  <2>3. \A j \in 1..pos : j \in 1..pos'
    BY <1>1, <1>2
  <2> QED
    BY <2>1, <2>2, <2>3 DEF Passed
<1> QED
  BY <1>2, <1>4, <1>5, <1>6

(* The plan stays, and execute has not returned or now has. *)
LEMMA GoesOn ==
  ASSUME IInv, pc = "run", Frame, pc' \in {"run", "done", "hang"},
         pc' = "run" => outcome' = "none"
  PROVE  PlanInv' /\ StartInv'
<1>1. PlanInv /\ StartInv /\ pc # "build"
  BY DEF IInv
<1>2. PlanInv'
  BY <1>1 DEF PlanInv, Ops, Frame
<1>3. StartInv'
  BY <1>1 DEF StartInv, Frame
<1> QED
  BY <1>2, <1>3

(* A result is merged in: the server has tried "done", of the c operations *)
(* that are passed.                                                        *)
LEMMA Merged ==
  ASSUME IInv, pc = "run", left # <<>>, Frame, NEW done, Sent(done), NEW c \in 1..Head(left),
         Len(done) <= c, Pass(c),
         errors' = errors \cup Entries(done, {"error", "dollar"}),
         upserted' = upserted \cup Entries(done, {"upsert"}),
         count' = [t \in Types |-> count[t] + Cardinality(Applied(done, t))],
         opCount' = opCount + c, wcError' \in BOOLEAN, assert_no_write_error,
         ~w0 => Len(done) = c \/ (ordered /\ \E i \in Elements(done) : Fails(i))
  PROVE  IInv'
<1>1. /\ TypeOK /\ StartInv /\ PlanInv /\ LeftInv /\ PassedInv /\ ToldInv /\ CountInv /\ OrderInv
      /\ NoneTwice /\ StopsAtError
  BY DEF IInv
<1>2. /\ queue' = queue /\ ordered' = ordered /\ w0' = w0 /\ useCmd' = useCmd /\ plan' = plan
  BY DEF Frame
<1>3. /\ ordered /\ errors' # {} => pc' = "done" /\ outcome' = "WriteError"
      /\ ~(ordered /\ errors' # {}) => pc' = "run" /\ outcome' = outcome
  BY DEF assert_no_write_error, Throw
<1>4. outcome = "none"
  BY <1>1 DEF StartInv
<1>5. /\ tried' \in Seq(Nat) /\ Len(tried') = Len(tried) + Len(done)
      /\ Tried' = Tried \cup Elements(done)
      /\ Elements(done) \subseteq Ops /\ NoneTwice'
  BY <1>1, SentIsNew
<1>6. /\ left' \in Seq(Nat \ {0}) /\ pos' = pos + c /\ pos' \in 0..Len(plan')
      /\ LeftInv' /\ Passed' = Passed \cup {plan[pos + j] : j \in 1..c}
  BY <1>1, <1>2, Passes
<1>7. Len(done) \in Nat /\ c \in Nat /\ pos \in Nat /\ opCount \in Nat
  BY <1>1, HeadFits DEF TypeOK, Sent
<1>8. /\ Elements(done) \subseteq Passed'
      /\ Len(done) = c => Passed' = Passed \cup Elements(done)
  <2>1. \A k \in 1..Len(done) : done[k] = plan[pos + k]
    BY DEF Sent
  <2>2. ASSUME NEW i \in Elements(done) PROVE i \in Passed'
    <3>1. PICK k \in 1..Len(done) : i = done[k]
      BY DEF Elements
    <3>2. k \in 1..c
      BY <1>7
    <3> QED
      BY <1>6, <2>1, <3>1, <3>2
  <2>3. ASSUME Len(done) = c, NEW i \in Passed', i \notin Passed PROVE i \in Elements(done)
    <3>1. PICK k \in 1..c : i = plan[pos + k]
      BY <1>6, <2>3
    <3> QED
      BY <2>1, <2>3, <3>1 DEF Elements
  <2> QED
    BY <1>6, <2>2, <2>3
<1>9. PassedInv'
  BY <1>1, <1>5, <1>6, <1>8 DEF PassedInv
<1>10. ASSUME ~w0
       PROVE  /\ ReportIsTrue' /\ Told' = Told \cup {i \in Elements(done) : Fails(i)}
  BY <1>1, <1>10, MergeTells
<1>11. /\ errors' \subseteq [index : Nat, op : Nat] /\ upserted' \subseteq [index : Nat, op : Nat]
  <2>1. /\ errors \subseteq [index : Nat, op : Nat] /\ upserted \subseteq [index : Nat, op : Nat]
        /\ done \in Seq(Nat)
    BY <1>1 DEF TypeOK, Sent
  <2>2. \A F : Entries(done, F) \subseteq [index : Nat, op : Nat]
    BY <1>7, <2>1, EntriesOf
  <2> QED
    BY <2>1, <2>2
<1>12. TypeOK'
  <2>1. count' \in [Types -> Nat]
    BY <1>1, <1>2, MergeCounts
  <2>2. /\ queue \in Seq(OpSet) /\ {ordered, w0, useCmd} \subseteq BOOLEAN /\ plan \in Seq(Nat)
        /\ pc' \in {"build", "run", "done", "hang"}
        /\ outcome' \in {"none", "result", "WriteError", "WriteConcernError",
                         "DocumentSizeError", "DatabaseError", "no_ops"}
    BY <1>1, <1>3, <1>4 DEF TypeOK
  <2>3. opCount' \in Nat
    BY <1>7
  <2>4. queue' \in Seq(OpSet) /\ {ordered', w0', useCmd'} \subseteq BOOLEAN /\ plan' \in Seq(Nat)
    BY <1>2, <2>2
  <2> QED
    BY <1>5, <1>6, <1>11, <2>1, <2>2, <2>3, <2>4 DEF TypeOK
<1>13. ASSUME ~w0, pc' = "run" PROVE Told' \subseteq Passed' /\ Passed' \subseteq Tried' \cup Told'
  <2>1. Told \subseteq Passed /\ Passed \subseteq Tried \cup Told
    BY <1>1, <1>13 DEF ToldInv
  <2>2. CASE Len(done) = c
    BY <1>5, <1>8, <1>10, <1>13, <2>1, <2>2
  <2>3. CASE ordered /\ \E i \in Elements(done) : Fails(i)
    <3>1. Told' # {}
      BY <1>10, <1>13, <2>3
    <3>2. errors' # {}
      BY <3>1 DEF Told
    <3> QED
      BY <1>3, <1>13, <2>3, <3>2
  <2> QED
    BY <1>13, <2>2, <2>3
<1>14. ToldInv'
  BY <1>2, <1>10, <1>13 DEF ToldInv
<1>15. CountInv'
  <2>1. \A t \in Types : count[t] = Cardinality(Succeeded(t))
                            => count'[t] = Cardinality(Succeeded(t)')
    BY <1>1, <1>2, MergeCounts
  <2>2. ~w0 => \A t \in Types : count[t] = Cardinality(Succeeded(t))
    BY <1>1 DEF CountInv
  <2> QED
    BY <1>2, <2>1, <2>2 DEF CountInv
<1>16. ASSUME ordered, ~w0
       PROVE  /\ \A k \in 1..Len(tried') : tried'[k] = k
              /\ \A k \in 1..(Len(tried') - 1) : ~Fails(tried'[k])
  BY <1>1, <1>16, SentInOrder
<1>17. OrderInv'
  <2>1. ASSUME ordered, ~w0
        PROVE  Len(tried) = pos /\ opCount = pos /\ errors = {}
               /\ \A e \in upserted : e.index = e.op - 1
    BY <1>1, <2>1 DEF OrderInv
  <2>2. ASSUME ordered, ~w0, pc' = "run"
        PROVE  errors' = {} /\ Len(tried') = pos' /\ opCount' = pos'
    <3>1. errors' = {}
      BY <1>3, <2>2
    <3>2. \A i \in Elements(done) : ~Fails(i)
      BY <1>10, <2>2, <3>1 DEF Told
    <3>3. Len(done) = c
      BY <2>2, <3>2
    <3>4. Len(tried) = pos /\ opCount = pos
      BY <2>1, <2>2
    <3> QED
      BY ONLY <1>5, <1>6, <1>7, <3>1, <3>3, <3>4, opCount' = opCount + c
  <2>3. ASSUME ordered, ~w0, NEW F, NEW e \in Entries(done, F) PROVE e.index = e.op - 1
    <3>1. PICK k \in 1..Len(done) : e.op = done[k] /\ e.index = opCount + k - 1
      BY <1>7, EntriesOf DEF Sent
    <3>2. done[k] = plan[pos + k] /\ pos + k \in 1..Len(plan) /\ \A j \in 1..Len(plan) : plan[j] = j
      BY <1>1, <1>7, <2>3 DEF Sent, PlanInv, TypeOK
    <3>3. e.op = pos + k /\ opCount = pos
      BY <2>1, <2>3, <3>1, <3>2
    <3> QED
      BY ONLY <1>7, <3>1, <3>3, k \in 1..Len(done)
  <2>4. ASSUME ordered, ~w0, NEW e \in errors' \cup upserted' PROVE e.index = e.op - 1
    BY <2>1, <2>3, <2>4
  <2> QED
    BY <1>2, <1>16, <2>2, <2>4 DEF OrderInv
<1>18. StopsAtError'
  BY <1>2, <1>16 DEF StopsAtError, InQueueOrder, Fails, Fate
<1>19. Complete' /\ ConcernMeansWritten'
  <2>1. outcome' # "WriteConcernError" /\ (Reported' => ordered' /\ errors' # {})
    BY <1>2, <1>3, <1>4 DEF Reported
  <2>2. ConcernMeansWritten'
    BY <2>1 DEF ConcernMeansWritten
  <2>3. ~w0 => ReportIsTrue'
    BY <1>10
  <2>4. Complete'
    BY <1>2, <2>1, <2>3 DEF Complete, ReportIsTrue, Tried, Told
  <2> QED
    BY <2>2, <2>4
<1>20. PlanInv' /\ StartInv'
  BY <1>3, <1>4, GoesOn
<1> QED
  BY <1>5, <1>6, <1>9, <1>12, <1>14, <1>15, <1>17, <1>18, <1>19, <1>20 DEF IInv

(* Nothing was sent. *)
LEMMA SentNothing ==
  ASSUME TypeOK, UNCHANGED tried PROVE Sent(<<>>)
BY DEF TypeOK, Sent

LEMMA SentOp ==
  ASSUME TypeOK, LeftInv, PlanInv, pc = "run", left # <<>>, tried' = Append(tried, Op)
  PROVE  Sent(<<Op>>)
<1>1. pos + 1 <= Len(plan) /\ pos \in Nat /\ plan \in Seq(Nat) /\ Len(plan) \in Nat
  BY HeadFits DEF TypeOK
<1>2. Op \in Nat
  BY <1>1 DEF Op
<1>3. tried' = tried \o <<Op>>
  BY <1>2, AppendIsConcat DEF TypeOK
<1> QED
  BY <1>1, <1>2, <1>3 DEF Sent, Op

LEMMA PartOf ==
  ASSUME NEW s \in Seq(Nat), NEW a \in Nat, NEW h \in Nat \ {0}, a + h <= Len(s)
  PROVE  LET c == SubSeq(s, a + 1, a + h)
         IN  c \in Seq(Nat) /\ Len(c) = h /\ \A k \in 1..h : c[k] = s[a + k]
<1> DEFINE c == SubSeq(s, a + 1, a + h)
           b == a + 1
           z == a + h
<1>1. b \in Int /\ z \in Int /\ b <= z /\ z - b + 1 = h /\ \A k \in 1..h : b + k - 1 = a + k
  OBVIOUS
<1>2. \A i \in b..z : i \in 1..Len(s)
  OBVIOUS
<1>3. \A i \in b..z : s[i] \in Nat
  BY ONLY <1>2, s \in Seq(Nat)
<1>4. c = SubSeq(s, b, z)
  OBVIOUS
<1> HIDE DEF b, z, c
<1>5. /\ c \in Seq(Nat) /\ Len(c) = IF b <= z THEN z - b + 1 ELSE 0
      /\ \A k \in 1..(z - b + 1) : c[k] = s[b + k - 1]
  BY ONLY <1>1, <1>3, <1>4, SubSeqProperties
<1> QED
  BY ONLY <1>1, <1>5 DEF c

(* The first n operations of the chunk in front *)
LEMMA SentOfChunk ==
  ASSUME TypeOK, LeftInv, pc = "run", left # <<>>,
         NEW n \in 1..Head(left), Processes(n), tried' = tried \o SubSeq(Chunk, 1, n)
  PROVE  /\ Sent(SubSeq(Chunk, 1, n)) /\ Len(SubSeq(Chunk, 1, n)) = n /\ Len(Chunk) = Head(left)
         /\ n = Head(left) \/ (ordered /\ Fails(SubSeq(Chunk, 1, n)[n]))
<1> DEFINE h == Head(left)
           d == SubSeq(Chunk, 1, n)
<1>1. /\ h \in Nat \ {0} /\ pos + h <= Len(plan) /\ n \in 1..h
      /\ plan \in Seq(Nat) /\ pos \in Nat /\ Len(plan) \in Nat
  BY HeadFits DEF TypeOK
<1>2. Chunk = SubSeq(plan, pos + 1, pos + h) /\ tried' = tried \o d
  BY DEF Chunk
<1>3. /\ ordered => \A k \in 1..(n - 1) : ~Fails(Chunk[k])
      /\ n = h \/ (ordered /\ Fails(Chunk[n]))
  BY DEF Processes
<1> HIDE DEF h
<1>4. Chunk \in Seq(Nat) /\ Len(Chunk) = h /\ \A k \in 1..h : Chunk[k] = plan[pos + k]
  BY ONLY <1>1, <1>2, PartOf
<1>5. n \in Nat \ {0} /\ 0 + n <= Len(Chunk) /\ 0 + n = n /\ \A k \in 1..n : 0 + k = k
  BY ONLY <1>1, <1>4
<1>6. d = SubSeq(Chunk, 0 + 1, 0 + n)
  BY ONLY <1>5 DEF d
<1> HIDE DEF d
<1>7. d \in Seq(Nat) /\ Len(d) = n /\ \A k \in 1..n : d[k] = Chunk[0 + k]
  BY ONLY <1>4, <1>5, <1>6, 0 \in Nat, PartOf
<1>8. \A k \in 1..n : d[k] = Chunk[k] /\ k \in 1..h
  BY ONLY <1>1, <1>5, <1>7
<1>9. \A k \in 1..Len(d) : d[k] = plan[pos + k]
  BY ONLY <1>4, <1>7, <1>8
<1>10. ordered => \A k \in 1..(Len(d) - 1) : ~Fails(d[k])
  <2>1. \A k \in 1..(n - 1) : k \in 1..n
    BY ONLY <1>5
  <2> QED
    BY ONLY <1>3, <1>7, <1>8, <2>1
<1>11. pos + Len(d) <= Len(plan)
  BY ONLY <1>1, <1>7
<1>12. Sent(d)
  BY <1>2, <1>7, <1>9, <1>10, <1>11 DEF Sent
<1>13. n \in 1..n
  BY <1>5
<1> QED
  BY <1>3, <1>4, <1>7, <1>8, <1>12, <1>13 DEF d, h

(* The bulk is over, and execute dies without a report. *)
LEMMA Dies ==
  ASSUME IInv, pc = "run", Frame, NEW done, Sent(done),
         UNCHANGED <<pos, left, result>>, Throw("DatabaseError")
  PROVE  IInv'
<1>1. /\ TypeOK /\ StartInv /\ PlanInv /\ PassedInv /\ ToldInv /\ OrderInv /\ NoneTwice
  BY DEF IInv
<1>2. /\ queue' = queue /\ ordered' = ordered /\ w0' = w0 /\ useCmd' = useCmd /\ plan' = plan
      /\ pos' = pos /\ left' = left /\ opCount' = opCount /\ errors' = errors
      /\ upserted' = upserted /\ count' = count /\ wcError' = wcError
      /\ pc' = "done" /\ outcome' = "DatabaseError"
  BY DEF Frame, result, Throw
<1>3. /\ tried' \in Seq(Nat) /\ NoneTwice'
  BY <1>1, SentIsNew
<1>4. TypeOK'
  BY <1>1, <1>2, <1>3 DEF TypeOK
<1>5. /\ LeftInv' /\ PassedInv' /\ ToldInv' /\ CountInv' /\ Complete' /\ ConcernMeansWritten'
  BY <1>2 DEF LeftInv, PassedInv, ToldInv, CountInv, Complete, ConcernMeansWritten, Reported
<1>6. ASSUME ordered, ~w0
      PROVE  /\ \A k \in 1..Len(tried') : tried'[k] = k
             /\ \A k \in 1..(Len(tried') - 1) : ~Fails(tried'[k])
  BY <1>1, <1>6, SentInOrder
<1>7. OrderInv'
  BY <1>1, <1>2, <1>6 DEF OrderInv
<1>8. StopsAtError'
  BY <1>2, <1>6 DEF StopsAtError, InQueueOrder, Fails, Fate
<1>9. PlanInv' /\ StartInv'
  BY <1>2, GoesOn
<1> QED
  BY <1>3, <1>4, <1>5, <1>7, <1>8, <1>9 DEF IInv

(* With w:0 nobody hears what became of the operations. *)
LEMMA Unheard ==
  ASSUME IInv, pc = "run", left # <<>>, w0, Frame, NEW done, Sent(done),
         NEW k \in 1..Head(left), Len(done) <= k, Pass(k), opCount' \in Nat,
         UNCHANGED <<errors, upserted, count, wcError, pc, outcome>>
  PROVE  IInv'
<1>1. /\ TypeOK /\ StartInv /\ PlanInv /\ LeftInv /\ PassedInv /\ NoneTwice
  BY DEF IInv
<1>2. /\ queue' = queue /\ ordered' = ordered /\ w0' = w0 /\ useCmd' = useCmd /\ plan' = plan
      /\ pc' = "run" /\ outcome' = outcome
  BY DEF Frame
<1>3. /\ tried' \in Seq(Nat) /\ NoneTwice' /\ Tried' = Tried \cup Elements(done)
  BY <1>1, SentIsNew
<1>4. /\ left' \in Seq(Nat \ {0}) /\ pos' = pos + k /\ pos' \in 0..Len(plan')
      /\ LeftInv' /\ Passed' = Passed \cup {plan[pos + j] : j \in 1..k}
  BY <1>1, <1>2, Passes
<1>5. TypeOK'
  BY <1>1, <1>2, <1>3, <1>4 DEF TypeOK
<1>6. PassedInv'
  <2>1. \A j \in 1..Len(done) : j \in 1..k /\ done[j] = plan[pos + j]
    BY <1>1, HeadFits DEF Sent
  <2>2. Elements(done) \subseteq Passed'
    BY <1>4, <2>1 DEF Elements
  <2> QED
    BY <1>1, <1>3, <1>4, <2>2 DEF PassedInv
<1>7. w0'
  BY <1>2
<1>8. /\ ToldInv' /\ CountInv' /\ OrderInv' /\ StopsAtError' /\ Complete' /\ ConcernMeansWritten'
  BY <1>7 DEF ToldInv, CountInv, OrderInv, StopsAtError, Complete, ConcernMeansWritten
<1>9. PlanInv' /\ StartInv'
  BY <1>1, <1>2, GoesOn DEF StartInv
<1> QED
  BY <1>3, <1>4, <1>5, <1>6, <1>8, <1>9 DEF IInv

LEMMA RunCommandStep ==
  ASSUME IInv, RunCommand PROVE IInv'
<1>1. /\ TypeOK /\ LeftInv /\ StartInv /\ pc = "run" /\ useCmd /\ left # <<>>
  BY DEF IInv, RunCommand, Commanding
<1>2. Frame /\ assert_no_write_error /\ Pass(Head(left)) /\ wcError' \in {wcError, TRUE}
  BY DEF RunCommand, Frame
<1>3. PICK n \in 1..Head(left) :
         /\ Processes(n) /\ tried' = tried \o SubSeq(Chunk, 1, n)
         /\ merge_result(Chunk, SubSeq(Chunk, 1, n))
  BY DEF RunCommand
<1> DEFINE done == SubSeq(Chunk, 1, n)
<1>4. /\ Sent(done) /\ Len(done) = n /\ Len(Chunk) = Head(left)
      /\ n = Head(left) \/ (ordered /\ Fails(done[n]))
  BY <1>1, <1>3, SentOfChunk
<1>5. /\ errors' = errors \cup Entries(done, {"error", "dollar"})
      /\ upserted' = upserted \cup Entries(done, {"upsert"})
      /\ count' = [t \in Types |-> count[t] + Cardinality(Applied(done, t))]
      /\ opCount' = opCount + Head(left)
  BY <1>3, <1>4 DEF merge_result
<1>6. wcError' \in BOOLEAN
  BY <1>1, <1>2 DEF TypeOK
<1>7. Head(left) \in 1..Head(left) /\ n \in 1..n /\ n <= Head(left)
  BY <1>1, HeadFits
<1>8. ~w0 => Len(done) = Head(left) \/ (ordered /\ \E i \in Elements(done) : Fails(i))
  BY <1>4, <1>7 DEF Elements
<1> HIDE DEF done
<1> QED
  BY <1>1, <1>2, <1>4, <1>5, <1>6, <1>7, <1>8, Merged

LEMMA CommandDiedStep ==
  ASSUME IInv, CommandDied PROVE IInv'
<1>1. /\ TypeOK /\ LeftInv /\ pc = "run" /\ left # <<>> /\ Frame /\ Throw("DatabaseError")
      /\ UNCHANGED <<pos, left, result>> /\ TriedOrNot
  BY DEF IInv, CommandDied, Commanding, Frame
<1>2. \E done : Sent(done)
  <2>1. CASE UNCHANGED tried
    BY <1>1, <2>1, SentNothing
  <2>2. CASE \E n \in 1..Head(left) : Processes(n) /\ tried' = tried \o SubSeq(Chunk, 1, n)
    BY <1>1, <2>2, SentOfChunk
  <2> QED
    BY <1>1, <2>1, <2>2 DEF TriedOrNot
<1> QED
  BY <1>1, <1>2, Dies

LEMMA LegacyDiedStep ==
  ASSUME IInv, LegacyDied PROVE IInv'
<1>1. /\ TypeOK /\ LeftInv /\ PlanInv /\ pc = "run" /\ left # <<>> /\ Frame /\ Throw("DatabaseError")
      /\ UNCHANGED <<pos, left, result>> /\ tried' \in {tried, Append(tried, Op)}
  BY DEF IInv, LegacyDied, Legacy, Frame
<1>2. \E done : Sent(done)
  BY <1>1, SentNothing, SentOp
<1> QED
  BY <1>1, <1>2, Dies

LEMMA LegacyUnsafeStep ==
  ASSUME IInv, LegacyUnsafe PROVE IInv'
<1>1. /\ TypeOK /\ LeftInv /\ PlanInv /\ pc = "run" /\ left # <<>> /\ w0 /\ Frame
      /\ tried' = Append(tried, Op) /\ opCount' = opCount + 1 /\ Pass(1)
      /\ UNCHANGED <<errors, upserted, count, wcError, pc, outcome>>
  BY DEF IInv, LegacyUnsafe, Legacy, Frame
<1>2. Sent(<<Op>>) /\ Len(<<Op>>) <= 1 /\ 1 \in 1..Head(left)
  BY <1>1, SentOp, HeadFits
<1>3. opCount' \in Nat
  BY <1>1 DEF TypeOK
<1> QED
  BY <1>1, <1>2, <1>3, Unheard

LEMMA LegacySafeStep ==
  ASSUME IInv, LegacySafe PROVE IInv'
<1>1. /\ TypeOK /\ LeftInv /\ PlanInv /\ pc = "run" /\ left # <<>> /\ Frame
      /\ tried' = Append(tried, Op)
  BY DEF IInv, LegacySafe, Legacy, Frame
<1>2. Sent(<<Op>>) /\ Len(<<Op>>) = 1 /\ 1 \in 1..Head(left) /\ Head(left) \in 1..Head(left)
      /\ 1 <= Head(left)
  BY <1>1, SentOp, HeadFits
<1>3. CASE w0 /\ Fails(Op) /\ Pass(Head(left)) /\ UNCHANGED <<result, pc, outcome>>
  <2>1. opCount' \in Nat /\ UNCHANGED <<errors, upserted, count, wcError, pc, outcome>>
    BY <1>1, <1>3 DEF TypeOK, result
  <2> QED
    BY <1>1, <1>2, <1>3, <2>1, Unheard
<1>4. CASE /\ merge_result(<<Op>>, <<Op>>)
           /\ wcError' \in IF Fails(Op) THEN {wcError} ELSE {wcError, TRUE}
           /\ Pass(1) /\ assert_no_write_error
  <2>1. wcError' \in BOOLEAN
    BY <1>1, <1>4 DEF TypeOK
  <2> DEFINE done == <<Op>>
  <2>2. /\ errors' = errors \cup Entries(done, {"error", "dollar"})
        /\ upserted' = upserted \cup Entries(done, {"upsert"})
        /\ count' = [t \in Types |-> count[t] + Cardinality(Applied(done, t))]
        /\ opCount' = opCount + 1
    BY <1>2, <1>4 DEF merge_result
  <2>3. Sent(done) /\ Len(done) = 1 /\ Len(done) <= 1
    BY <1>2
  <2> HIDE DEF done
  <2> QED
    BY <1>1, <1>2, <1>4, <2>1, <2>2, <2>3, Merged
<1> QED
  BY <1>3, <1>4 DEF LegacySafe

LEMMA TooLargeStep ==
  ASSUME IInv, TooLarge PROVE IInv'
<1>1. /\ TypeOK /\ StartInv /\ PlanInv /\ LeftInv /\ PassedInv /\ ToldInv /\ CountInv /\ OrderInv
      /\ NoneTwice /\ StopsAtError /\ Complete /\ ConcernMeansWritten
  BY DEF IInv
<1>2. /\ pc = "run" /\ left # <<>> /\ Frame
      /\ queue' = queue /\ ordered' = ordered /\ w0' = w0 /\ useCmd' = useCmd /\ plan' = plan
      /\ pos' = pos /\ opCount' = opCount /\ errors' = errors
      /\ upserted' = upserted /\ count' = count /\ wcError' = wcError /\ tried' = tried
  BY DEF TooLarge, Commanding, result, Frame
<1>3. outcome = "none"
  BY <1>1, <1>2 DEF StartInv
<1>4. \/ pc' = "done" /\ outcome' = "DocumentSizeError" /\ left' = left
      \/ pc' = "hang" /\ outcome' = outcome /\ left' = left
      \/ pc' = "run" /\ outcome' = outcome /\ left' \in Seq(Nat \ {0}) /\ LeftInv'
  <2>1. PICK k \in 0..Head(left) :
          \/ Head(left) = 1 /\ Throw("DocumentSizeError") /\ UNCHANGED left
          \/ Head(left) > 1 /\ k > 0 /\ split_chunk(k) /\ UNCHANGED <<pc, outcome>>
          \/ Head(left) > 1 /\ k = 0 /\ pc' = "hang" /\ UNCHANGED <<left, outcome>>
    BY DEF TooLarge
  <2>2. CASE k > 0 /\ split_chunk(k) /\ UNCHANGED <<pc, outcome>>
    <3>1. PICK e : Ends(left, pos, Len(plan), e)
      BY <1>1, <1>2 DEF LeftInv
    <3>2. k \in Nat \ {0} /\ left \in Seq(Nat \ {0}) /\ pos \in Nat /\ Len(plan) \in Nat
      BY <1>1, <1>2, <2>2, HeadFits DEF TypeOK
    <3>3. left' = Pieces(Head(left), k) \o Tail(left)
      BY <2>2 DEF split_chunk
    <3>4. left' \in Seq(Nat \ {0}) /\ \E f : Ends(left', pos, Len(plan), f)
      BY <1>2, <3>1, <3>2, <3>3, SplitLies
    <3> QED
      BY <1>2, <2>2, <3>4 DEF LeftInv, Ends
  <2> QED
    BY <2>1, <2>2 DEF Throw
<1>5. pc' # "build" /\ outcome' \in {"none", "DocumentSizeError"} /\ ~Reported' /\ LeftInv'
  BY <1>3, <1>4 DEF Reported, LeftInv
<1>6. TypeOK'
  BY <1>1, <1>2, <1>4, <1>5 DEF TypeOK
<1>7. PassedInv' /\ OrderInv' /\ CountInv'
  BY <1>1, <1>2, <1>5 DEF PassedInv, OrderInv, CountInv, Tried, Passed, Succeeded, Type, Fate
<1>8. ToldInv'
  <2>1. Tried' = Tried /\ Told' = Told /\ Passed' = Passed
    BY <1>2 DEF Tried, Told, Passed
  <2>2. \A i : /\ Fails(i)' <=> Fails(i)
               /\ Rejected(i)' <=> Rejected(i)
               /\ Fate(i)' = Fate(i)
    BY <1>2 DEF Fails, Rejected, Fate
  <2>3. ReportIsTrue => ReportIsTrue'
    BY <1>2, <2>1, <2>2 DEF ReportIsTrue
  <2> QED
    BY <1>1, <1>2, <1>5, <2>1, <2>3 DEF ToldInv
<1>9. NoneTwice' /\ StopsAtError'
  BY <1>1, <1>2 DEF NoneTwice, StopsAtError, InQueueOrder, Fails, Fate
<1>10. Complete' /\ ConcernMeansWritten'
  BY <1>5 DEF Complete, ConcernMeansWritten
<1>11. PlanInv' /\ StartInv'
  BY <1>2, <1>3, <1>4, GoesOn
<1> QED
  BY <1>5, <1>6, <1>7, <1>8, <1>9, <1>10, <1>11 DEF IInv

LEMMA LegacyRejectStep ==
  ASSUME IInv, LegacyReject PROVE IInv'
<1>1. /\ TypeOK /\ StartInv /\ PlanInv /\ LeftInv /\ PassedInv /\ ToldInv /\ CountInv /\ OrderInv
      /\ NoneTwice /\ StopsAtError
  BY DEF IInv
<1>2. /\ pc = "run" /\ ~useCmd /\ left # <<>> /\ Frame /\ tried' = tried /\ Rejected(Op)
      /\ queue' = queue /\ ordered' = ordered /\ w0' = w0 /\ useCmd' = useCmd /\ plan' = plan
  BY DEF LegacyReject, Legacy, Frame
<1>3. /\ Head(left) \in Nat \ {0} /\ 1 \in 1..Head(left) /\ Head(left) \in 1..Head(left)
      /\ pos + 1 <= Len(plan)
  <2>1. Head(left) \in Nat \ {0} /\ pos + Head(left) <= Len(plan)
    BY ONLY <1>1, <1>2, HeadFits
  <2>2. pos \in Nat /\ Len(plan) \in Nat
    BY <1>1 DEF TypeOK
  <2> QED
    BY ONLY <2>1, <2>2
<1>4. CASE w0 /\ Pass(IF ordered THEN Head(left) ELSE 1) /\ UNCHANGED <<result, pc, outcome>>
  <2>1. PICK k \in 1..Head(left) : Pass(k)
    BY <1>3, <1>4
  <2>2. /\ opCount' \in Nat /\ UNCHANGED <<errors, upserted, count, wcError, pc, outcome>>
    BY <1>1, <1>4 DEF TypeOK, result
  <2>3. Sent(<<>>) /\ Len(<<>>) <= k
    BY <1>1, <1>2, <1>3, SentNothing
  <2> QED
    BY <1>2, <1>4, <2>1, <2>2, <2>3, Unheard
<1>5. CASE /\ ~w0 /\ Pass(1) /\ errors' = errors \cup {[index |-> opCount, op |-> Op]}
           /\ opCount' = opCount + 1 /\ assert_no_write_error
           /\ UNCHANGED <<upserted, count, wcError>>
  <2>1. /\ left' \in Seq(Nat \ {0}) /\ pos' = pos + 1 /\ pos' \in 0..Len(plan')
        /\ LeftInv' /\ Passed' = Passed \cup {plan[pos + j] : j \in 1..1}
    BY <1>1, <1>2, <1>3, <1>5, Passes
  <2>2. /\ ordered => pc' = "done" /\ outcome' = "WriteError"
        /\ ~ordered => pc' = "run" /\ outcome' = outcome
        /\ outcome = "none" /\ errors' # {}
    BY <1>1, <1>2, <1>5 DEF assert_no_write_error, Throw, StartInv
  <2>3. /\ pos \in Nat /\ Len(plan) \in Nat /\ pos + 1 \in 1..Len(plan) /\ Op = plan[pos + 1]
        /\ opCount \in Nat
    BY <1>1, <1>3 DEF TypeOK, Op
  <2>4. Op \in Nat /\ Op \notin Passed
    <3>1. plan \in Seq(Nat) /\ \A j, k \in 1..Len(plan) : plan[j] = plan[k] => j = k
      BY <1>1, <1>2 DEF TypeOK, PlanInv
    <3>2. \A j \in 1..pos : j \in 1..Len(plan) /\ j # pos + 1
      BY <2>3
    <3> QED
      BY <2>3, <3>1, <3>2 DEF Passed
  <2>5. /\ Tried' = Tried /\ Passed' = Passed \cup {Op} /\ Told' = Told \cup {Op}
    <3>1. Tried' = Tried
      BY <1>2 DEF Tried
    <3>2. Passed' = Passed \cup {Op}
      BY <2>1, <2>3
    <3>3. Told' = Told \cup {Op}
      <4> DEFINE r == [index |-> opCount, op |-> Op]
      <4>1. errors' = errors \cup {r} /\ r.op = Op
        BY <1>5
      <4> HIDE DEF r
      <4> QED
        BY ONLY <4>1 DEF Told
    <3> QED
      BY <3>1, <3>2, <3>3
  <2>6. /\ Tried \subseteq Passed /\ Told \subseteq Passed /\ Passed \subseteq Tried \cup Told
        /\ ReportIsTrue
    BY <1>1, <1>2, <1>5 DEF PassedInv, ToldInv
  <2>7. /\ \A i : /\ Fails(i)' <=> Fails(i)
                  /\ Rejected(i)' <=> Rejected(i)
                  /\ Fate(i)' = Fate(i)
    BY <1>2 DEF Fails, Rejected, Fate
  <2>8. \A e, f \in errors' : e.op = f.op => e = f
    <3>1. \A e \in errors : e.op \in Passed
      BY <2>6 DEF Told
    <3>2. \A e, f \in errors : e.op = f.op => e = f
      BY <2>6 DEF ReportIsTrue
    <3> QED
      BY <1>5, <2>4, <3>1, <3>2
  <2>9. ReportIsTrue'
    BY <1>2, <1>5, <2>5, <2>6, <2>7, <2>8 DEF ReportIsTrue
  <2>10. ToldInv'
    BY <2>5, <2>6, <2>9 DEF ToldInv
  <2>11. PassedInv'
    BY <2>5, <2>6 DEF PassedInv
  <2>12. CountInv'
    BY <1>1, <1>2, <1>5, <2>5 DEF CountInv, Succeeded, Type, Fate
  <2>13. OrderInv'
    <3>1. ASSUME ordered, ~w0
          PROVE  /\ opCount = pos /\ errors = {} /\ \A j \in 1..Len(plan) : plan[j] = j
                 /\ \A k \in 1..Len(tried) : tried[k] = k
                 /\ \A e \in upserted : e.index = e.op - 1
      BY <1>1, <1>2, <3>1 DEF OrderInv, PlanInv
    <3>2. ASSUME ordered, ~w0 PROVE \A e \in errors' \cup upserted' : e.index = e.op - 1
      <4>1. Op = pos + 1 /\ opCount = Op - 1
        BY <2>3, <3>1, <3>2
      <4> QED
        BY <1>5, <3>1, <3>2, <4>1
    <3> QED
      BY <1>2, <2>2, <3>1, <3>2 DEF OrderInv
  <2>14. NoneTwice' /\ StopsAtError'
    BY <1>1, <1>2 DEF NoneTwice, StopsAtError, InQueueOrder, Fails, Fate
  <2>15. Complete' /\ ConcernMeansWritten'
    <3>1. outcome' # "WriteConcernError" /\ (Reported' => ordered' /\ errors' # {})
      BY <1>2, <2>2 DEF Reported
    <3>2. ConcernMeansWritten'
      BY <3>1 DEF ConcernMeansWritten
    <3>3. Complete'
      BY <1>2, <2>9, <3>1 DEF Complete, ReportIsTrue, Tried, Told
    <3> QED
      BY <3>2, <3>3
  <2>16. TypeOK'
    <3>1. errors' \subseteq [index : Nat, op : Nat] /\ opCount' \in Nat
      BY <1>1, <1>5, <2>3, <2>4 DEF TypeOK
    <3> QED
      BY <1>1, <1>2, <1>5, <2>1, <2>2, <3>1 DEF TypeOK
  <2>17. PlanInv' /\ StartInv'
    BY <1>2, <2>2, GoesOn
  <2> QED
    BY <2>1, <2>10, <2>11, <2>12, <2>13, <2>14, <2>15, <2>16, <2>17 DEF IInv
<1> QED
  BY <1>4, <1>5 DEF LegacyReject

LEMMA StartBatchStep ==
  ASSUME IInv, StartBatch PROVE IInv'
<1>1. /\ TypeOK /\ StartInv /\ PlanInv /\ PassedInv /\ ToldInv /\ CountInv /\ OrderInv
      /\ NoneTwice /\ StopsAtError /\ Complete /\ ConcernMeansWritten
  BY DEF IInv
<1>2. /\ pc = "run" /\ Frame
      /\ queue' = queue /\ ordered' = ordered /\ w0' = w0 /\ useCmd' = useCmd /\ plan' = plan
      /\ pos' = pos /\ opCount' = opCount /\ errors' = errors /\ upserted' = upserted
      /\ count' = count /\ wcError' = wcError /\ tried' = tried
      /\ pc' = pc /\ outcome' = outcome
  BY DEF StartBatch, result, Frame
<1>3. PICK m \in 1..MaxBatch : pos + m <= Len(plan) /\ left' = <<m>>
  BY DEF StartBatch
<1>4. pos \in Nat /\ Len(plan) \in Nat /\ m \in Nat \ {0}
  BY <1>1, BulkWriteAssumption DEF TypeOK
<1>5. left' \in Seq(Nat \ {0}) /\ LeftInv'
  <2> DEFINE e == [i \in 0..1 |-> IF i = 0 THEN pos ELSE pos + m]
  <2>1. Ends(<<m>>, pos, Len(plan), e)
    BY <1>3, <1>4 DEF Ends
  <2> HIDE DEF e
  <2> QED
    BY <1>2, <1>3, <1>4, <2>1 DEF LeftInv, Ends
<1>6. TypeOK'
  BY <1>1, <1>2, <1>5 DEF TypeOK
<1>7. /\ Tried' = Tried /\ Told' = Told /\ Passed' = Passed /\ (Reported' <=> Reported)
      /\ \A i : /\ Fails(i)' <=> Fails(i)
                /\ Rejected(i)' <=> Rejected(i)
                /\ Fate(i)' = Fate(i)
                /\ Type(i)' = Type(i)
  BY <1>2 DEF Tried, Told, Passed, Reported, Fails, Rejected, Fate, Type
<1>8. PassedInv' /\ OrderInv' /\ CountInv'
  BY <1>1, <1>2, <1>7 DEF PassedInv, OrderInv, CountInv, Succeeded
<1>9. ToldInv'
  <2>1. ReportIsTrue => ReportIsTrue'
    BY <1>2, <1>7 DEF ReportIsTrue
  <2> QED
    BY <1>1, <1>2, <1>7, <2>1 DEF ToldInv
<1>10. NoneTwice' /\ StopsAtError'
  BY <1>1, <1>2 DEF NoneTwice, StopsAtError, InQueueOrder, Fails, Fate
<1>11. outcome' = "none"
  BY <1>1, <1>2 DEF StartInv
<1>12. Complete' /\ ConcernMeansWritten'
  BY <1>11 DEF Complete, ConcernMeansWritten, Reported
<1>13. PlanInv' /\ StartInv'
  BY <1>2, <1>11, GoesOn
<1> QED
  BY <1>5, <1>6, <1>8, <1>9, <1>10, <1>12, <1>13 DEF IInv

LEMMA FinishStep ==
  ASSUME IInv, Finish PROVE IInv'
<1>1. /\ TypeOK /\ StartInv /\ PlanInv /\ LeftInv /\ PassedInv /\ ToldInv /\ CountInv /\ OrderInv
      /\ NoneTwice /\ StopsAtError
  BY DEF IInv
<1>2. /\ pc = "run" /\ Frame /\ pos = Len(plan)
      /\ queue' = queue /\ ordered' = ordered /\ w0' = w0 /\ useCmd' = useCmd /\ plan' = plan
      /\ pos' = pos /\ left' = left /\ opCount' = opCount /\ errors' = errors
      /\ upserted' = upserted /\ count' = count /\ wcError' = wcError /\ tried' = tried
      /\ pc' = "done" /\ outcome' \in {"WriteError", "WriteConcernError", "result"}
      /\ outcome' = "WriteConcernError" => errors = {}
  BY DEF Finish, Throw, result, Frame
<1>3. TypeOK'
  BY <1>1, <1>2 DEF TypeOK
<1>4. /\ Tried' = Tried /\ Told' = Told /\ Ops' = Ops
      /\ \A i : /\ Fails(i)' <=> Fails(i)
                /\ Rejected(i)' <=> Rejected(i)
                /\ Fate(i)' = Fate(i)
                /\ Type(i)' = Type(i)
  BY <1>2 DEF Tried, Told, Ops, Fails, Rejected, Fate, Type
<1>5. LeftInv' /\ PassedInv' /\ CountInv' /\ OrderInv'
  BY <1>1, <1>2, <1>4 DEF LeftInv, PassedInv, CountInv, OrderInv, Succeeded
<1>6. ReportIsTrue => ReportIsTrue'
  BY <1>2, <1>4 DEF ReportIsTrue
<1>7. ToldInv'
  BY <1>1, <1>2, <1>6 DEF ToldInv
<1>8. NoneTwice' /\ StopsAtError'
  BY <1>1, <1>2 DEF NoneTwice, StopsAtError, InQueueOrder, Fails, Fate
<1>9. PlanInv' /\ StartInv'
  BY <1>2, GoesOn
<1>10. Passed = Ops
  BY <1>1, <1>2 DEF PlanInv, Passed
<1>11. ~w0 => /\ Tried \cup Told = Ops /\ ReportIsTrue
              /\ errors = {} => Told = {}
  BY <1>1, <1>2, <1>10 DEF PassedInv, ToldInv, Told
<1>12. Complete'
  BY <1>2, <1>4, <1>6, <1>11 DEF Complete, ReportIsTrue, Tried, Told
<1>13. ASSUME outcome' = "WriteConcernError", ~w0, NEW i \in Ops
       PROVE  ~Fails(i) /\ \E k \in 1..Len(tried) : tried[k] = i
  BY <1>2, <1>11, <1>13 DEF ReportIsTrue, Tried
<1>14. ConcernMeansWritten'
  BY <1>2, <1>4, <1>13 DEF ConcernMeansWritten
<1> QED
  BY <1>3, <1>5, <1>7, <1>8, <1>9, <1>12, <1>14 DEF IInv

LEMMA ExecuteStep ==
  ASSUME IInv, Execute PROVE IInv'
<1>1. TypeOK /\ StartInv
  BY DEF IInv
<1>2. /\ pc = "build" /\ queue' = queue /\ ordered' = ordered /\ w0' = w0 /\ useCmd' = useCmd
      /\ pos' = pos /\ left' = left /\ opCount' = opCount /\ errors' = errors
      /\ upserted' = upserted /\ count' = count /\ wcError' = wcError /\ tried' = tried
  BY DEF Execute, result
<1>3. /\ plan = <<>> /\ pos = 0 /\ left = <<>> /\ tried = <<>>
      /\ opCount = 0 /\ errors = {} /\ upserted = {} /\ outcome = "none"
      /\ \A t \in Types : count[t] = 0
  BY <1>1, <1>2 DEF StartInv
<1>4. \/ pc' = "done" /\ outcome' = "no_ops" /\ plan' = plan /\ queue = <<>>
      \/ pc' = "run" /\ outcome' = "none" /\ plan' \in Plans
  BY <1>3 DEF Execute, Throw
<1>5. plan' \in Seq(Nat) /\ PlanInv'
  <2>1. CASE queue = <<>> /\ plan' = plan
    BY <1>2, <1>3, <2>1 DEF PlanInv, Ops
  <2>2. CASE plan' \in Plans
    <3>1. /\ plan' \in Seq(Nat) /\ Len(plan') = Len(queue)
          /\ \A j \in 1..Len(plan') : plan'[j] \in Ops
          /\ \A j, k \in 1..Len(plan') : plan'[j] = plan'[k] => j = k
          /\ \A i \in Ops : \E j \in 1..Len(plan') : plan'[j] = i
          /\ ordered => \A j \in 1..Len(plan') : plan'[j] = j
      BY <1>1, <2>2, PlanIs DEF TypeOK
    <3> QED
      BY <1>2, <3>1 DEF PlanInv, Ops
  <2> QED
    BY <1>4, <2>1, <2>2
<1>6. Len(plan') \in Nat
  BY <1>5
<1>7. TypeOK'
  BY <1>1, <1>2, <1>3, <1>4, <1>5, <1>6 DEF TypeOK
<1>8. StartInv'
  BY <1>1, <1>2, <1>4 DEF StartInv
<1>9. LeftInv'
  <2> DEFINE e == [i \in 0..0 |-> 0]
  <2>1. Ends(<<>>, 0, Len(plan'), e)
    BY <1>6 DEF Ends
  <2> HIDE DEF e
  <2> QED
    BY <1>2, <1>3, <2>1 DEF LeftInv, Ends
<1>10. Tried' = {} /\ Told' = {} /\ Passed' = {} /\ \A t : Succeeded(t)' = {}
  BY <1>2, <1>3 DEF Tried, Told, Passed, Succeeded
<1>11. PassedInv' /\ ToldInv'
  BY <1>2, <1>3, <1>10 DEF PassedInv, ToldInv, ReportIsTrue
<1>12. CountInv'
  BY <1>2, <1>3, <1>10, FS_EmptySet DEF CountInv
<1>13. OrderInv' /\ NoneTwice' /\ StopsAtError'
  BY <1>2, <1>3 DEF OrderInv, NoneTwice, StopsAtError, InQueueOrder
<1>14. Complete' /\ ConcernMeansWritten'
  BY <1>4 DEF Complete, ConcernMeansWritten, Reported
<1> QED
  BY <1>5, <1>7, <1>8, <1>9, <1>11, <1>12, <1>13, <1>14 DEF IInv

LEMMA EnqueueStep ==
  ASSUME IInv, NEW o \in OpSet, Enqueue(o) PROVE IInv'
<1>1. TypeOK /\ StartInv
  BY DEF IInv
<1>2. /\ pc = "build" /\ queue' = Append(queue, o) /\ ordered' = ordered /\ w0' = w0
      /\ useCmd' = useCmd /\ plan' = plan
      /\ pos' = pos /\ left' = left /\ opCount' = opCount /\ errors' = errors
      /\ upserted' = upserted /\ count' = count /\ wcError' = wcError /\ tried' = tried
      /\ pc' = pc /\ outcome' = outcome
  BY DEF Enqueue, result
<1>3. /\ tried = <<>> /\ errors = {} /\ upserted = {} /\ outcome = "none"
  BY <1>1, <1>2 DEF StartInv
<1>4. TypeOK'
  BY <1>1, <1>2, AppendProperties DEF TypeOK
<1>5. StartInv'
  BY <1>1, <1>2 DEF StartInv
<1>6. PlanInv' /\ LeftInv' /\ PassedInv' /\ ToldInv' /\ CountInv' /\ Complete' /\ ConcernMeansWritten'
  BY <1>2, <1>3 DEF PlanInv, LeftInv, PassedInv, ToldInv, CountInv, Complete, ConcernMeansWritten, Reported
<1>7. OrderInv' /\ NoneTwice' /\ StopsAtError'
  BY <1>2, <1>3 DEF OrderInv, NoneTwice, StopsAtError, InQueueOrder
<1> QED
  BY <1>4, <1>5, <1>6, <1>7 DEF IInv

LEMMA Begins ==
  ASSUME Init PROVE IInv
<1>1. /\ queue = <<>> /\ plan = <<>> /\ pos = 0 /\ left = <<>> /\ tried = <<>>
      /\ opCount = 0 /\ errors = {} /\ upserted = {} /\ pc = "build" /\ outcome = "none"
      /\ count = [t \in Types |-> 0] /\ wcError = FALSE
      /\ ordered \in BOOLEAN /\ useCmd \in WriteCommands
      /\ w0 \in BOOLEAN /\ (useCmd => ~w0)
  BY DEF Init
<1>2. useCmd \in BOOLEAN
  BY <1>1, BulkWriteAssumption
<1>3. TypeOK
  <2>1. count \in [Types -> Nat]
    BY <1>1
  <2>2. /\ queue \in Seq(OpSet) /\ plan \in Seq(Nat) /\ pos \in 0..Len(plan)
        /\ left \in Seq(Nat \ {0}) /\ tried \in Seq(Nat) /\ {ordered, w0, useCmd} \subseteq BOOLEAN
    BY ONLY <1>1, <1>2
  <2> QED
    BY ONLY <1>1, <2>1, <2>2 DEF TypeOK
<1>4. StartInv
  BY <1>1 DEF StartInv
<1>5. PlanInv /\ LeftInv /\ PassedInv /\ ToldInv /\ CountInv /\ Complete /\ ConcernMeansWritten
  BY <1>1 DEF PlanInv, LeftInv, PassedInv, ToldInv, CountInv, Complete, ConcernMeansWritten, Reported
<1>6. OrderInv /\ NoneTwice /\ StopsAtError
  BY <1>1 DEF OrderInv, NoneTwice, StopsAtError, InQueueOrder
<1> QED
  BY <1>3, <1>4, <1>5, <1>6 DEF IInv

LEMMA Stutters ==
  ASSUME IInv, UNCHANGED vars PROVE IInv'
<1>1. /\ queue' = queue /\ ordered' = ordered /\ w0' = w0 /\ useCmd' = useCmd /\ plan' = plan
      /\ pos' = pos /\ left' = left /\ opCount' = opCount /\ errors' = errors
      /\ upserted' = upserted /\ count' = count /\ wcError' = wcError /\ tried' = tried
      /\ pc' = pc /\ outcome' = outcome
  BY DEF vars, result
<1>2. /\ Tried' = Tried /\ Told' = Told /\ Passed' = Passed /\ Ops' = Ops
      /\ (Reported' <=> Reported)
      /\ \A i : /\ Fails(i)' <=> Fails(i)
                /\ Rejected(i)' <=> Rejected(i)
                /\ Fate(i)' = Fate(i)
                /\ Type(i)' = Type(i)
  BY <1>1 DEF Tried, Told, Passed, Ops, Reported, Fails, Rejected, Fate, Type
<1>3. TypeOK' /\ StartInv' /\ PlanInv' /\ LeftInv'
  BY <1>1, <1>2 DEF IInv, TypeOK, StartInv, PlanInv, LeftInv
<1>4. ReportIsTrue => ReportIsTrue'
  BY <1>1, <1>2 DEF ReportIsTrue
<1>5. PassedInv' /\ ToldInv' /\ CountInv' /\ OrderInv'
  BY <1>1, <1>2, <1>4 DEF IInv, PassedInv, ToldInv, CountInv, OrderInv, Succeeded
<1>6. NoneTwice' /\ StopsAtError'
  BY <1>1, <1>2 DEF IInv, NoneTwice, StopsAtError, InQueueOrder
<1>7. Complete' /\ ConcernMeansWritten'
  BY <1>1, <1>2 DEF IInv, Complete, ConcernMeansWritten
<1> QED
  BY <1>3, <1>5, <1>6, <1>7 DEF IInv

(* The invariant holds in every state of the bulk. *)
THEOREM Invariant == Spec => []IInv
<1>1. ASSUME IInv, [Next]_vars PROVE IInv'
  <2>1. CASE \E o \in OpSet : insert(o) \/ update(o) \/ remove(o)
    BY <1>1, <2>1, EnqueueStep DEF insert, update, remove
  <2>2. CASE Execute
    BY <1>1, <2>2, ExecuteStep
  <2>3. CASE StartBatch
    BY <1>1, <2>3, StartBatchStep
  <2>4. CASE RunCommand
    BY <1>1, <2>4, RunCommandStep
  <2>5. CASE CommandDied
    BY <1>1, <2>5, CommandDiedStep
  <2>6. CASE TooLarge
    BY <1>1, <2>6, TooLargeStep
  <2>7. CASE LegacyReject
    BY <1>1, <2>7, LegacyRejectStep
  <2>8. CASE LegacySafe
    BY <1>1, <2>8, LegacySafeStep
  <2>9. CASE LegacyDied
    BY <1>1, <2>9, LegacyDiedStep
  <2>10. CASE LegacyUnsafe
    BY <1>1, <2>10, LegacyUnsafeStep
  <2>11. CASE Finish
    BY <1>1, <2>11, FinishStep
  <2>12. CASE UNCHANGED vars
    BY <1>1, <2>12, Stutters
  <2> QED
    BY <1>1, <2>1, <2>2, <2>3, <2>4, <2>5, <2>6, <2>7, <2>8, <2>9, <2>10, <2>11, <2>12 DEF Next, Run
<1> QED
  BY <1>1, Begins, PTL DEF Spec

-----------------------------------------------------------------------------
(* The theorems *)

(* Every variable has its type. *)
THEOREM TypeCorrect == Spec => []TypeOK
<1>1. IInv => TypeOK
  BY DEF IInv
<1> QED
  BY <1>1, Invariant, PTL

(* An ordered bulk stops at the first error (BulkWrite.pm, execute and     *)
(* _assert_no_write_error).                                                *)
THEOREM OrderedStops == Spec => []StopsAtError
<1>1. IInv => StopsAtError
  BY DEF IInv
<1> QED
  BY <1>1, Invariant, PTL

(* However batches are cut into chunks, no operation is sent twice         *)
(* (BulkWrite.pm, _split_chunk and the loops of the batches).              *)
THEOREM NothingTwice == Spec => []NoneTwice
<1>1. IInv => NoneTwice
  BY DEF IInv
<1> QED
  BY <1>1, Invariant, PTL

(* A report of execute is complete: every operation was tried or is told   *)
(* as an error, and the errors are those of the failures.                  *)
THEOREM ReportIsComplete == Spec => []Complete
<1>1. IInv => Complete
  BY DEF IInv
<1> QED
  BY <1>1, Invariant, PTL

(* The index of an error or an upsert is the place of its operation in the *)
(* queue (WriteResult.pm, _merge_result).                                  *)
THEOREM IndexesAreRight == Spec => []IndexesPoint
<1>1. IInv => IndexesPoint
  BY DEF IInv, OrderInv, IndexesPoint
<1> QED
  BY <1>1, Invariant, PTL

(* The entries of upserts are as many as the operations that were one. *)
LEMMA UpsertsCounted ==
  ASSUME upserted \subseteq [index : Nat, op : Nat], tried \in Seq(Nat), ReportIsTrue
  PROVE  Cardinality(upserted) = Cardinality({i \in Tried : Fate(i) = "upsert"})
<1> DEFINE S == {i \in Tried : Fate(i) = "upsert"}
           f == [u \in upserted |-> u.op]
<1>1. {u.op : u \in upserted} = S /\ \A u, v \in upserted : u.op = v.op => u = v
  BY DEF ReportIsTrue
<1>2. IsFiniteSet(S)
  <2>1. IsFiniteSet(Elements(tried)) /\ S \subseteq Elements(tried)
    BY FinitelyMany DEF Tried, Elements
  <2> QED
    BY <2>1, FS_Subset
<1> HIDE DEF S
<1>3. /\ \A u \in upserted : f[u] = u.op /\ f[u] \in S
      /\ \A y \in S : \E u \in upserted : f[u] = y
      /\ f \in [upserted -> S]
  BY <1>1
<1> HIDE DEF f
<1>4. f \in Injection(upserted, S) /\ f \in Surjection(upserted, S)
  BY <1>1, <1>3 DEF Injection, IsInjective, Surjection
<1>5. IsFiniteSet(upserted)
  BY <1>2, <1>4, FS_Injection
<1>6. \A u, v \in upserted : f[u] = f[v] => u = v
  BY <1>1, <1>3
<1> QED
  BY <1>3, <1>5, <1>6, SameNumber DEF S

(* The counts of a report are the numbers of operations that succeeded.    *)
THEOREM CountsAreRight == Spec => []CountsAgree
<1>1. ASSUME IInv PROVE CountsAgree
  <2>1. ASSUME Reported, ~w0
        PROVE  /\ \A t \in Types : count[t] = Cardinality(Succeeded(t))
               /\ Cardinality(upserted) = Cardinality({i \in Tried : Fate(i) = "upsert"})
    BY <1>1, <2>1, UpsertsCounted DEF IInv, TypeOK, CountInv, ToldInv
  <2> QED
    BY <2>1 DEF CountsAgree, Succeeded, Tried
<1> QED
  BY <1>1, Invariant, PTL

(* A write concern error is thrown only when all writes were accepted.     *)
THEOREM ConcernIsLast == Spec => []ConcernMeansWritten
<1>1. IInv => ConcernMeansWritten
  BY DEF IInv
<1> QED
  BY <1>1, Invariant, PTL

-----------------------------------------------------------------------------
(* The refinement: what BulkWrite does is what Bulk promises *)

(* A legacy server is only sent what the driver lets pass; whether there   *)
(* are errors is what execute says; and an ordered bulk that tells of an   *)
(* operation has had all before it tried, and none of them refused.        *)
RefusedInv ==
    /\ ~useCmd => \A i \in Tried : ~Rejected(i)
    /\ w0 => errors = {}
    /\ outcome = "WriteError" => errors # {}
    /\ outcome \in {"result", "WriteConcernError"} => errors = {}
    /\ Tried \cup Told \subseteq Ops
    /\ ordered /\ ~w0 => \A i \in Told : \A j \in 1..(i - 1) : j \in Tried /\ ~Refused(j)

(* What every step of execute does once the plan is made: it sends "done", *)
(* and what it tells of is refused and comes first in what is left.        *)
Works(done) ==
    /\ Frame /\ Sent(done)
    /\ ~useCmd => \A i \in Elements(done) : ~Rejected(i)
    /\ w0 => errors' = {}
    /\ outcome' = "WriteError" => errors' # {}
    /\ outcome' \in {"result", "WriteConcernError"} => errors' = {}
    /\ \A e \in errors' : e.op \in Ops
    /\ ordered /\ ~w0 => \A e \in errors' : \A j \in 1..(e.op - 1) :
          j \in 1..pos \/ (j \in Elements(done) /\ ~Refused(j))
    /\ \/ pc' \in {"run", "hang"} /\ outcome' = "none"
       \/ pc' = "done" /\ outcome' # "none"

(* What an ordered bulk that goes on has passed was tried and not refused. *)
LEMMA PassedGood ==
  ASSUME IInv, RefusedInv, pc = "run", ordered, ~w0
  PROVE  errors = {} /\ \A j \in 1..pos : j \in Tried /\ ~Refused(j)
<1>1. errors = {} /\ Len(tried) = pos /\ \A k \in 1..Len(tried) : tried[k] = k
  BY DEF IInv, OrderInv
<1>2. \A i \in Tried : ~Fails(i)
  BY NoneFailed DEF IInv
<1>3. \A j \in 1..pos : j \in Tried
  BY <1>1 DEF Tried
<1>4. ~useCmd => \A i \in Tried : ~Rejected(i)
  BY DEF RefusedInv
<1> QED
  BY <1>1, <1>2, <1>3, <1>4 DEF Refused

(* A step that tells of nothing new *)
LEMMA WorksSilently ==
  ASSUME IInv, RefusedInv, pc = "run", Frame, NEW done, Sent(done),
         ~useCmd => \A i \in Elements(done) : ~Rejected(i),
         errors' = errors,
         outcome' = "WriteError" => errors # {},
         outcome' \in {"result", "WriteConcernError"} => errors = {},
         \/ pc' \in {"run", "hang"} /\ outcome' = "none"
         \/ pc' = "done" /\ outcome' # "none"
  PROVE  Works(done)
<1>1. ordered /\ ~w0 => errors = {}
  BY PassedGood
<1>2. w0 => errors = {}
  BY DEF RefusedInv
<1>3. \A e \in errors : e.op \in Ops
  BY DEF RefusedInv, Told
<1> QED
  BY <1>1, <1>2, <1>3 DEF Works

LEMMA RunCommandWorks ==
  ASSUME IInv, RefusedInv, RunCommand PROVE \E done : Works(done)
<1>1. /\ TypeOK /\ LeftInv /\ StartInv /\ PlanInv /\ pc = "run" /\ useCmd /\ left # <<>> /\ ~w0
  BY DEF IInv, RunCommand, Commanding, StartInv
<1>2. Frame /\ assert_no_write_error /\ outcome = "none"
  BY <1>1 DEF RunCommand, Frame, StartInv
<1>3. PICK n \in 1..Head(left) :
         /\ Processes(n) /\ tried' = tried \o SubSeq(Chunk, 1, n)
         /\ merge_result(Chunk, SubSeq(Chunk, 1, n))
  BY DEF RunCommand
<1> DEFINE done == SubSeq(Chunk, 1, n)
           E == Entries(done, {"error", "dollar"})
<1>4. Sent(done)
  BY <1>1, <1>3, SentOfChunk
<1>5. errors' = errors \cup E
  BY <1>3 DEF merge_result
<1> HIDE DEF done
<1>6. /\ done \in Seq(Nat) /\ pos + Len(done) <= Len(plan) /\ pos \in Nat /\ Len(done) \in Nat
      /\ Len(plan) \in Nat /\ opCount \in Nat
      /\ \A k \in 1..Len(done) : done[k] = plan[pos + k]
      /\ ordered => \A k \in 1..(Len(done) - 1) : ~Fails(done[k])
  BY <1>1, <1>4 DEF Sent, TypeOK
<1>7. /\ {e.op : e \in E} = {i \in Elements(done) : Fate(i) \in {"error", "dollar"}}
  BY <1>6, EntriesOf
<1> HIDE DEF E
<1>8. \A e \in E : e.op \in Elements(done) /\ Fails(e.op)
  BY <1>7 DEF Fails
<1>9. \A e \in errors' : e.op \in Ops
  <2>1. Elements(done) \subseteq Ops
    BY <1>1, <1>4, SentIsNew DEF IInv
  <2>2. \A e \in errors : e.op \in Ops
    BY DEF RefusedInv, Told
  <2> QED
    BY <1>5, <1>8, <2>1, <2>2
<1>10. ASSUME ordered, NEW e \in errors', NEW j \in 1..(e.op - 1)
       PROVE  j \in 1..pos \/ (j \in Elements(done) /\ ~Refused(j))
  <2>1. e \in E
    BY <1>1, <1>5, <1>10, PassedGood
  <2>2. PICK k \in 1..Len(done) : e.op = done[k]
    BY <1>8, <2>1 DEF Elements
  <2>3. \A m \in 1..Len(done) : done[m] = pos + m
    <3>1. \A m \in 1..Len(done) : pos + m \in 1..Len(plan)
      BY <1>6
    <3>2. \A m \in 1..Len(plan) : plan[m] = m
      BY <1>1, <1>10 DEF PlanInv
    <3> QED
      BY <1>6, <3>1, <3>2
  <2>4. CASE j \notin 1..pos
    <3>1. j - pos \in 1..(Len(done) - 1) /\ j - pos \in 1..Len(done) /\ pos + (j - pos) = j
      BY <1>6, <2>2, <2>3, <2>4
    <3>2. done[j - pos] = j /\ ~Fails(j)
      BY <1>6, <1>10, <2>3, <3>1
    <3> QED
      BY <1>1, <3>1, <3>2 DEF Elements, Refused
  <2> QED
    BY <2>4
<1>11. /\ outcome' = "WriteError" => errors' # {}
       /\ outcome' \notin {"result", "WriteConcernError"}
       /\ \/ pc' \in {"run", "hang"} /\ outcome' = "none"
          \/ pc' = "done" /\ outcome' # "none"
  BY <1>1, <1>2 DEF assert_no_write_error, Throw
<1> QED
  BY <1>1, <1>2, <1>4, <1>9, <1>10, <1>11 DEF Works

LEMMA LegacyRejectWorks ==
  ASSUME IInv, RefusedInv, LegacyReject PROVE \E done : Works(done)
<1>1. /\ TypeOK /\ LeftInv /\ StartInv /\ PlanInv /\ pc = "run" /\ ~useCmd /\ left # <<>>
      /\ Frame /\ tried' = tried /\ outcome = "none"
  BY DEF IInv, LegacyReject, Legacy, Frame, StartInv
<1>2. Sent(<<>>) /\ Elements(<<>>) = {}
  BY <1>1, SentNothing DEF Elements
<1>3. CASE UNCHANGED <<result, pc, outcome>>
  <2>1. errors' = errors /\ pc' = "run" /\ outcome' = "none"
    BY <1>1, <1>3 DEF result
  <2> QED
    BY <1>1, <1>2, <2>1, WorksSilently
<1>4. CASE ~w0 /\ errors' = errors \cup {[index |-> opCount, op |-> Op]} /\ assert_no_write_error
  <2>1. /\ pos \in Nat /\ Len(plan) \in Nat /\ pos + 1 \in 1..Len(plan)
    BY <1>1, HeadFits DEF TypeOK
  <2>2. Op \in Ops /\ (ordered => Op = pos + 1)
    BY <1>1, <2>1 DEF PlanInv, Op
  <2>3. \A e \in errors' : e \in errors \/ e.op = Op
    BY <1>4
  <2>4. \A e \in errors' : e.op \in Ops
    BY <2>2, <2>3 DEF RefusedInv, Told
  <2>5. ASSUME ordered, NEW e \in errors', NEW j \in 1..(e.op - 1) PROVE j \in 1..pos
    <3>1. e.op = pos + 1
      BY <1>1, <1>4, <2>2, <2>3, <2>5, PassedGood
    <3> QED
      BY <2>1, <3>1
  <2>6. /\ outcome' = "WriteError" => errors' # {}
        /\ outcome' \notin {"result", "WriteConcernError"}
        /\ \/ pc' \in {"run", "hang"} /\ outcome' = "none"
           \/ pc' = "done" /\ outcome' # "none"
    BY <1>1, <1>4 DEF assert_no_write_error, Throw
  <2> QED
    BY <1>1, <1>2, <1>4, <2>4, <2>5, <2>6 DEF Works
<1> QED
  BY <1>3, <1>4 DEF LegacyReject

LEMMA LegacySafeWorks ==
  ASSUME IInv, RefusedInv, LegacySafe PROVE \E done : Works(done)
<1>1. /\ TypeOK /\ LeftInv /\ StartInv /\ PlanInv /\ pc = "run" /\ ~useCmd /\ left # <<>>
      /\ Frame /\ tried' = Append(tried, Op) /\ outcome = "none" /\ ~Rejected(Op)
  BY DEF IInv, LegacySafe, Legacy, Frame, StartInv
<1>2. Sent(<<Op>>) /\ Elements(<<Op>>) = {Op}
  BY <1>1, SentOp DEF Elements
<1>3. CASE UNCHANGED <<result, pc, outcome>>
  <2>1. errors' = errors /\ pc' = "run" /\ outcome' = "none"
    BY <1>1, <1>3 DEF result
  <2> QED
    BY <1>1, <1>2, <2>1, WorksSilently
<1>4. CASE ~(w0 /\ Fails(Op)) /\ merge_result(<<Op>>, <<Op>>) /\ assert_no_write_error
  <2>1. /\ pos \in Nat /\ Len(plan) \in Nat /\ pos + 1 \in 1..Len(plan)
    BY <1>1, HeadFits DEF TypeOK
  <2>2. Op \in Ops /\ (ordered => Op = pos + 1) /\ Op \in Nat /\ opCount \in Nat
    <3>1. plan \in Seq(Nat) /\ opCount \in Nat
      BY <1>1 DEF TypeOK
    <3>2. Op \in Ops /\ (ordered => Op = pos + 1)
      BY <1>1, <2>1 DEF PlanInv, Op
    <3> QED
      BY <2>1, <3>1, <3>2 DEF Op
  <2> DEFINE E == Entries(<<Op>>, {"error", "dollar"})
  <2>3. /\ errors' = errors \cup E
    BY <1>4 DEF merge_result
  <2>4. {e.op : e \in E} = {i \in Elements(<<Op>>) : Fate(i) \in {"error", "dollar"}}
    <3>1. <<Op>> \in Seq(Nat)
      BY <2>2
    <3> QED
      BY <2>2, <3>1, EntriesOf
  <2> HIDE DEF E
  <2>5. \A e \in E : e.op = Op /\ Fails(Op)
    BY <1>2, <2>4 DEF Fails
  <2>6. w0 => errors' = {}
    BY <1>4, <2>3, <2>5 DEF RefusedInv
  <2>7. \A e \in errors' : e.op \in Ops
    BY <2>2, <2>3, <2>5 DEF RefusedInv, Told
  <2>8. ASSUME ordered, ~w0, NEW e \in errors', NEW j \in 1..(e.op - 1) PROVE j \in 1..pos
    <3>1. e.op = pos + 1
      BY <1>1, <2>2, <2>3, <2>5, <2>8, PassedGood
    <3> QED
      BY <2>1, <3>1
  <2>9. /\ outcome' = "WriteError" => errors' # {}
        /\ outcome' \notin {"result", "WriteConcernError"}
        /\ \/ pc' \in {"run", "hang"} /\ outcome' = "none"
           \/ pc' = "done" /\ outcome' # "none"
    BY <1>1, <1>4 DEF assert_no_write_error, Throw
  <2> QED
    BY <1>1, <1>2, <2>6, <2>7, <2>8, <2>9 DEF Works
<1> QED
  BY <1>3, <1>4 DEF LegacySafe

(* The other steps tell of nothing new. *)
LEMMA DiesWorks ==
  ASSUME IInv, RefusedInv, CommandDied \/ LegacyDied PROVE \E done : Works(done)
<1>1. /\ TypeOK /\ LeftInv /\ PlanInv /\ pc = "run" /\ left # <<>> /\ Frame
      /\ errors' = errors /\ pc' = "done" /\ outcome' = "DatabaseError"
  BY DEF IInv, CommandDied, LegacyDied, Commanding, Legacy, Frame, Throw, result
<1>2. \E done : Sent(done) /\ (~useCmd => \A i \in Elements(done) : ~Rejected(i))
  <2>1. CASE tried' = tried
    BY <1>1, <2>1, SentNothing DEF Elements
  <2>2. CASE /\ useCmd
             /\ \E n \in 1..Head(left) : Processes(n) /\ tried' = tried \o SubSeq(Chunk, 1, n)
    BY <1>1, <2>2, SentOfChunk
  <2>3. CASE tried' = Append(tried, Op) /\ ~Rejected(Op)
    <3>1. Sent(<<Op>>) /\ Elements(<<Op>>) = {Op}
      BY <1>1, <2>3, SentOp DEF Elements
    <3> QED
      BY <2>3, <3>1
  <2> QED
    BY <2>1, <2>2, <2>3 DEF CommandDied, LegacyDied, TriedOrNot, Commanding
<1> QED
  BY <1>1, <1>2, WorksSilently

LEMMA LegacyUnsafeWorks ==
  ASSUME IInv, RefusedInv, LegacyUnsafe PROVE \E done : Works(done)
<1>1. /\ TypeOK /\ LeftInv /\ PlanInv /\ pc = "run" /\ left # <<>> /\ Frame
      /\ tried' = Append(tried, Op) /\ ~Rejected(Op)
      /\ errors' = errors /\ pc' = "run" /\ outcome' = "none"
  BY DEF IInv, LegacyUnsafe, Legacy, Frame, StartInv
<1>2. Sent(<<Op>>) /\ Elements(<<Op>>) = {Op}
  BY <1>1, SentOp DEF Elements
<1> QED
  BY <1>1, <1>2, WorksSilently

LEMMA QuietWorks ==
  ASSUME IInv, RefusedInv, StartBatch \/ TooLarge \/ Finish PROVE \E done : Works(done)
<1>1. /\ TypeOK /\ pc = "run" /\ Frame /\ tried' = tried /\ errors' = errors /\ outcome = "none"
  BY DEF IInv, StartBatch, TooLarge, Finish, Commanding, Frame, StartInv, result
<1>2. Sent(<<>>) /\ Elements(<<>>) = {}
  BY <1>1, SentNothing DEF Elements
<1>3. /\ outcome' = "WriteError" => errors # {}
      /\ outcome' \in {"result", "WriteConcernError"} => errors = {}
      /\ \/ pc' \in {"run", "hang"} /\ outcome' = "none"
         \/ pc' = "done" /\ outcome' # "none"
  BY <1>1 DEF StartBatch, TooLarge, Finish, Throw
<1> QED
  BY <1>1, <1>2, <1>3, WorksSilently

(* What execute has sent so far stays sent, and what it tells is so. *)
LEMMA Worked ==
  ASSUME IInv, RefusedInv, pc = "run", NEW done, Works(done)
  PROVE  /\ RefusedInv'
         /\ Len(tried) \in Nat /\ Len(tried') \in Nat /\ Len(tried') >= Len(tried)
         /\ \A k \in 1..Len(tried) : tried'[k] = tried[k]
         /\ queue' = queue /\ ordered' = ordered /\ w0' = w0 /\ useCmd' = useCmd
<1>1. TypeOK /\ PlanInv /\ PassedInv /\ NoneTwice /\ Sent(done)
  BY DEF IInv, Works
<1>2. /\ tried' \in Seq(Nat) /\ Len(tried') = Len(tried) + Len(done)
      /\ \A k \in 1..Len(tried) : tried'[k] = tried[k]
      /\ Tried' = Tried \cup Elements(done) /\ Elements(done) \subseteq Ops
  BY <1>1, SentIsNew
<1>3. Len(tried) \in Nat /\ Len(done) \in Nat
  BY <1>1 DEF TypeOK, Sent
<1>4. queue' = queue /\ ordered' = ordered /\ w0' = w0 /\ useCmd' = useCmd
  BY DEF Works, Frame
<1>5. /\ Ops' = Ops
      /\ \A i : (Rejected(i)' <=> Rejected(i)) /\ (Refused(i)' <=> Refused(i))
  BY <1>4 DEF Ops, Rejected, Refused, Fails, Fate
<1>6. ~useCmd' => \A i \in Tried' : ~Rejected(i)'
  BY <1>2, <1>4, <1>5 DEF RefusedInv, Works
<1>7. ASSUME ordered, ~w0, NEW e \in errors', NEW j \in 1..(e.op - 1)
      PROVE  j \in Tried' /\ ~Refused(j)
  <2>1. j \in 1..pos \/ (j \in Elements(done) /\ ~Refused(j))
    BY <1>7 DEF Works
  <2>2. \A m \in 1..pos : m \in Tried /\ ~Refused(m)
    BY <1>7, PassedGood
  <2> QED
    BY <1>2, <2>1, <2>2
<1>8. ordered' /\ ~w0' => \A i \in Told' : \A j \in 1..(i - 1) : j \in Tried' /\ ~Refused(j)'
  BY <1>4, <1>5, <1>7 DEF Told
<1>9. /\ w0' => errors' = {}
      /\ outcome' = "WriteError" => errors' # {}
      /\ outcome' \in {"result", "WriteConcernError"} => errors' = {}
      /\ Tried' \cup Told' \subseteq Ops'
  BY <1>2, <1>4, <1>5 DEF Works, Told, RefusedInv
<1>10. RefusedInv'
  BY <1>6, <1>8, <1>9 DEF RefusedInv
<1> QED
  BY <1>2, <1>3, <1>4, <1>10

(* Before execute nothing was tried or told. *)
LEMMA NothingYet ==
  ASSUME IInv, pc = "build", Execute \/ \E o \in OpSet : Enqueue(o)
  PROVE  /\ tried = <<>> /\ tried' = <<>> /\ errors = {} /\ errors' = {}
         /\ outcome = "none" /\ outcome' \in {"none", "no_ops"}
         /\ Tried = {} /\ Tried' = {} /\ Told = {} /\ Told' = {} /\ RefusedInv'
<1>1. tried = <<>> /\ errors = {} /\ outcome = "none"
  BY DEF IInv, StartInv
<1>2. tried' = tried /\ errors' = errors /\ outcome' \in {outcome, "no_ops"}
  BY DEF Execute, Enqueue, result, Throw
<1>3. Tried = {} /\ Tried' = {} /\ Told = {} /\ Told' = {}
  BY <1>1, <1>2 DEF Tried, Told
<1> QED
  BY <1>1, <1>2, <1>3 DEF RefusedInv

(* Every step of the bulk is of one of these kinds. *)
LEMMA Steps ==
  ASSUME IInv, RefusedInv, [Next]_vars
  PROVE  \/ pc = "build" /\ Execute
         \/ pc = "build" /\ \E o \in OpSet : Enqueue(o)
         \/ pc = "run" /\ \E done : Works(done)
         \/ UNCHANGED vars
<1>1. CASE \E o \in OpSet : insert(o) \/ update(o) \/ remove(o)
  BY <1>1 DEF insert, update, remove, Enqueue
<1>2. CASE Execute
  BY <1>2 DEF Execute
<1>3. CASE RunCommand \/ CommandDied \/ LegacyDied \/ StartBatch \/ TooLarge \/ Finish
  <2>1. pc = "run"
    BY <1>3 DEF RunCommand, CommandDied, LegacyDied, StartBatch, TooLarge, Finish, Commanding, Legacy
  <2> QED
    BY <1>3, <2>1, RunCommandWorks, DiesWorks, QuietWorks
<1>4. CASE LegacyReject \/ LegacySafe \/ LegacyUnsafe
  <2>1. pc = "run"
    BY <1>4 DEF LegacyReject, LegacySafe, LegacyUnsafe, Legacy
  <2> QED
    BY <1>4, <2>1, LegacyRejectWorks, LegacySafeWorks, LegacyUnsafeWorks
<1>5. CASE UNCHANGED vars
  BY <1>5
<1> QED
  BY <1>1, <1>2, <1>3, <1>4, <1>5 DEF Next, Run

LEMMA RefusedStep ==
  ASSUME IInv, RefusedInv, [Next]_vars PROVE RefusedInv'
<1>1. CASE pc = "build" /\ (Execute \/ \E o \in OpSet : Enqueue(o))
  BY <1>1, NothingYet
<1>2. CASE pc = "run" /\ \E done : Works(done)
  BY <1>2, Worked
<1>3. CASE UNCHANGED vars
  <2>1. /\ queue' = queue /\ ordered' = ordered /\ w0' = w0 /\ useCmd' = useCmd
        /\ errors' = errors /\ tried' = tried /\ outcome' = outcome
    BY <1>3 DEF vars, result
  <2>2. /\ Tried' = Tried /\ Told' = Told /\ Ops' = Ops
        /\ \A i : (Rejected(i)' <=> Rejected(i)) /\ (Refused(i)' <=> Refused(i))
    BY <2>1 DEF Tried, Told, Ops, Rejected, Refused, Fails, Fate
  <2> QED
    BY <2>1, <2>2 DEF RefusedInv
<1> QED
  BY <1>1, <1>2, <1>3, Steps

(* The queue as Bulk sees it *)
LEMMA BadIs ==
  ASSUME TypeOK
  PROVE  /\ Bad \in Seq(BOOLEAN) /\ Len(Bad) = Len(queue) /\ Len(queue) \in Nat
         /\ Promise!Ops = Ops /\ \A i \in Ops : Bad[i] = Refused(i)
<1>1. Len(queue) \in Nat
  BY DEF TypeOK
<1>2. Bad = [i \in 1..Len(queue) |-> Refused(i)]
  BY Zenon DEF Bad, Ops
<1>3. \A i : Refused(i) \in BOOLEAN
  BY Zenon DEF Refused
<1>4. Bad \in [1..Len(queue) -> BOOLEAN]
  BY <1>2, <1>3, Zenon
<1>5. Bad \in Seq(BOOLEAN) /\ Len(Bad) = Len(queue)
  BY <1>1, <1>4
<1>6. \A i \in Ops : Bad[i] = Refused(i)
  BY <1>2, Zenon DEF Ops
<1> QED
  BY <1>1, <1>5, <1>6 DEF Promise!Ops, Ops

(* What is due is what an ordered bulk has no refused operation before. *)
LEMMA DueIs ==
  ASSUME TypeOK
  PROVE  Promise!Due = IF ordered THEN {i \in Ops : \A j \in 1..(i - 1) : ~Refused(j)} ELSE Ops
<1>1. Promise!Ops = Ops /\ \A i \in Ops : Bad[i] = Refused(i)
  BY BadIs
<1>2. \A i \in Ops : \A j \in 1..(i - 1) : j \in Ops
  BY DEF Ops, TypeOK
<1> QED
  BY <1>1, <1>2, Zenon DEF Promise!Due

(* What has been done and is told keeps to the promise. *)
SaysInv ==
    /\ Promise!Proper
    /\ Reported => /\ ~w0 => Promise!Due \subseteq Tried \cup Told
                   /\ Told = IF ~w0 THEN {i \in Promise!Due : Bad[i]} ELSE {}
                   /\ outcome = "WriteError" <=> Told # {}

LEMMA Says ==
  ASSUME IInv, RefusedInv PROVE SaysInv
<1>1. /\ TypeOK /\ NoneTwice /\ StopsAtError /\ Complete /\ tried \in Seq(Nat)
      /\ Len(tried) \in Nat /\ Len(queue) \in Nat
  BY DEF IInv, TypeOK
<1>2. /\ Promise!Ops = Ops /\ Promise!Tried = Tried
      /\ \A i \in Ops : Bad[i] = Refused(i)
  BY <1>1, BadIs DEF Tried, Promise!Tried
<1>3. Promise!Due = IF ordered THEN {i \in Ops : \A j \in 1..(i - 1) : ~Refused(j)} ELSE Ops
  BY <1>1, DueIs
<1>4. Tried \subseteq Ops /\ Told \subseteq Ops /\ Ops = 1..Len(queue)
  BY DEF RefusedInv, Ops
<1>5. Promise!Proper
  <2>1. ASSUME ordered, ~w0
        PROVE  Tried \subseteq Promise!Due /\ \A k \in 1..Len(tried) : tried[k] = k
    <3>1. /\ \A k \in 1..Len(tried) : tried[k] = k
          /\ \A k \in 1..(Len(tried) - 1) : ~Fails(tried[k])
      BY <1>1, <2>1 DEF StopsAtError, InQueueOrder
    <3>2. ASSUME NEW i \in Tried, NEW j \in 1..(i - 1) PROVE ~Refused(j)
      <4>1. i \in 1..Len(tried)
        BY <3>1 DEF Tried
      <4>2. j \in 1..(Len(tried) - 1) /\ j \in 1..Len(tried)
        BY <1>1, <4>1
      <4>3. j = tried[j] /\ j \in Tried /\ ~Fails(j)
        BY <3>1, <4>2 DEF Tried
      <4> QED
        BY <4>3 DEF RefusedInv, Refused
    <3> QED
      BY <1>3, <1>4, <2>1, <3>1, <3>2
  <2> QED
    BY <1>1, <1>2, <1>4, <2>1 DEF Promise!Proper, NoneTwice
<1>6. ASSUME Reported, ~w0
      PROVE  Promise!Due \subseteq Tried \cup Told /\ Told = {i \in Promise!Due : Bad[i]}
  <2>1. /\ ~ordered \/ errors = {} => Ops = Tried \cup Told
        /\ {i \in Tried : Fails(i)} \subseteq Told
        /\ \A i \in Told : Refused(i)
    BY <1>1, <1>6 DEF Complete, Refused
  <2>2. ASSUME NEW d \in Promise!Due PROVE d \in Tried \cup Told
    <3>1. CASE ~ordered \/ errors = {}
      BY <1>3, <2>1, <2>2, <3>1
    <3>2. CASE ordered /\ errors # {}
      <4>1. PICK i \in Told : TRUE
        BY <3>2 DEF Told
      <4>2. /\ i \in Nat /\ d \in Nat \ {0} /\ Refused(i) /\ 1 <= i
            /\ \A j \in 1..(d - 1) : ~Refused(j)
        BY <1>1, <1>3, <1>4, <2>1, <2>2, <3>2
      <4>3. ~(i <= d - 1)
        BY <4>2
      <4>4. d = i \/ d \in 1..(i - 1)
        BY <4>2, <4>3
      <4> QED
        BY <1>6, <3>2, <4>1, <4>4 DEF RefusedInv
    <3> QED
      BY <3>1, <3>2
  <2>3. ASSUME NEW i \in Told PROVE i \in Promise!Due /\ Bad[i]
    BY <1>2, <1>3, <1>4, <1>6, <2>1, <2>3 DEF RefusedInv
  <2>4. ASSUME NEW i \in Promise!Due, Bad[i] PROVE i \in Told
    <3>1. i \in Ops /\ Refused(i)
      BY <1>2, <1>3, <2>4
    <3> QED
      BY <2>1, <2>2, <2>4, <3>1 DEF RefusedInv, Refused
  <2> QED
    BY <2>2, <2>3, <2>4
<1>7. (errors = {} <=> Told = {}) /\ (w0 => Told = {})
  BY DEF Told, RefusedInv
<1>8. Reported => (outcome = "WriteError" <=> errors # {})
  BY DEF Reported, RefusedInv
<1> QED
  BY <1>5, <1>6, <1>7, <1>8 DEF SaysInv

LEMMA PromiseStep ==
  ASSUME IInv, RefusedInv, IInv', SaysInv', [Next]_vars
  PROVE  [Promise!Next]_(Promise!vars)
<1>1. CASE pc = "build" /\ Execute
  <2>1. /\ tried = <<>> /\ tried' = <<>> /\ outcome = "none"
        /\ ~Reported /\ ~Reported'
        /\ queue' = queue /\ ordered' = ordered /\ w0' = w0 /\ useCmd' = useCmd
    BY <1>1, NothingYet DEF Execute, Reported
  <2>2. Bad' = Bad
    BY <2>1 DEF Bad, Ops, Refused, Fails, Rejected, Fate
  <2>3. /\ Said = "nothing" /\ Said' \in {"wait", "died"}
    BY <1>1, <2>1 DEF Execute, Throw, Said
  <2>4. Promise!Proper'
    BY DEF SaysInv
  <2>5. (IF Reported THEN Told ELSE {})' = (IF Reported THEN Told ELSE {})
    BY <2>1
  <2>6. CASE Said' = "wait"
    BY <2>1, <2>2, <2>3, <2>5, <2>6 DEF Promise!Next, Promise!Begin
  <2>7. CASE Said' = "died"
    <3>1. Promise!Proceeds
      BY <2>1, <2>2, <2>4 DEF Promise!Proceeds
    <3> QED
      BY <2>3, <2>5, <2>7, <3>1 DEF Promise!Next, Promise!Die
  <2> QED
    BY <2>3, <2>6, <2>7
<1>2. CASE pc = "build" /\ \E o \in OpSet : Enqueue(o)
  <2>1. PICK o \in OpSet : Enqueue(o)
    BY <1>2
  <2>2. /\ tried' = tried /\ ~Reported /\ ~Reported' /\ pc' = "build"
        /\ queue' = Append(queue, o) /\ ordered' = ordered /\ w0' = w0 /\ useCmd' = useCmd
    BY <1>2, <2>1, NothingYet DEF Enqueue, Reported
  <2>3. Said = "nothing" /\ Said' = "nothing"
    BY <1>2, <2>2 DEF Said
  <2>4. \E b \in BOOLEAN : Bad' = Append(Bad, b)
    <3>1. /\ Bad \in Seq(BOOLEAN) /\ Len(Bad) = Len(queue) /\ Len(queue) \in Nat
          /\ \A i \in Ops : Bad[i] = Refused(i)
      BY BadIs DEF IInv
    <3>2. /\ Len(queue') = Len(queue) + 1
          /\ \A i \in 1..Len(queue) : queue'[i] = queue[i]
      BY <2>2, AppendProperties DEF IInv, TypeOK
    <3>3. \A i \in Ops : Refused(i)' = Refused(i)
      BY <2>2, <3>2 DEF Ops, Refused, Fails, Rejected, Fate
    <3> DEFINE n == Len(queue) + 1
    <3>4. Bad' = [i \in 1..n |-> Refused(i)']
      BY <3>2, Zenon DEF Bad, Ops
    <3>5. \A i \in 1..n : Bad'[i] = Refused(i)' /\ Refused(i)' \in BOOLEAN
      BY <3>4, Zenon DEF Refused
    <3> DEFINE b == Bad'[n]
               s == Append(Bad, b)
    <3>6. n \in 1..n /\ b \in BOOLEAN /\ Bad' = [i \in 1..n |-> Bad'[i]]
      <4>1. n \in 1..n
        BY <3>1
      <4> QED
        BY <3>4, <3>5, <4>1, Zenon
    <3> HIDE DEF b
    <3>7. /\ s \in Seq(BOOLEAN) /\ Len(s) = n /\ s[n] = b
          /\ \A i \in 1..Len(queue) : s[i] = Bad[i]
      BY <3>1, <3>6, AppendProperties
    <3> HIDE DEF s
    <3>8. ASSUME NEW i \in 1..n PROVE s[i] = Bad'[i]
      <4>1. i = n \/ i \in Ops
        BY <3>1 DEF Ops
      <4>2. CASE i = n
        BY <3>7, <4>2, Zenon DEF b
      <4>3. CASE i \in Ops
        BY <3>1, <3>3, <3>5, <3>7, <4>3, Zenon DEF Ops
      <4> QED
        BY <4>1, <4>2, <4>3
    <3>9. s = Bad'
      <4>1. s = [i \in 1..n |-> s[i]]
        BY <3>7
      <4> QED
        BY <3>6, <3>8, <4>1, Zenon
    <3> QED
      BY <3>6, <3>9 DEF s
  <2> QED
    BY <2>2, <2>3, <2>4 DEF Promise!Next, Promise!Enqueue
<1>3. CASE pc = "run" /\ \E done : Works(done)
  <2>1. PICK done : Works(done)
    BY <1>3
  <2>2. /\ Len(tried') >= Len(tried) /\ \A k \in 1..Len(tried) : tried'[k] = tried[k]
        /\ queue' = queue /\ ordered' = ordered /\ w0' = w0 /\ useCmd' = useCmd
    BY <1>3, <2>1, Worked
  <2>3. Bad' = Bad
    BY <2>2 DEF Bad, Ops, Refused, Fails, Rejected, Fate
  <2>4. Promise!Proper'
    BY DEF SaysInv
  <2>5. Promise!Proceeds
    BY <2>2, <2>3, <2>4 DEF Promise!Proceeds
  <2>6. ~Reported /\ Said = "wait"
    BY <1>3 DEF IInv, StartInv, Reported, Said
  <2>7. CASE pc' \in {"run", "hang"} /\ outcome' = "none"
    <3>1. ~Reported' /\ Said' = "wait"
      BY <2>7 DEF Reported, Said
    <3> QED
      BY <2>5, <2>6, <3>1 DEF Promise!Next, Promise!Work
  <2>8. CASE pc' = "done" /\ ~Reported'
    <3>1. Said' = "died"
      BY <2>8 DEF Said
    <3> QED
      BY <2>5, <2>6, <2>8, <3>1 DEF Promise!Next, Promise!Die
  <2>9. CASE pc' = "done" /\ Reported'
    <3>1. Said' = outcome' /\ outcome' \in {"result", "WriteError", "WriteConcernError"}
      BY <2>9 DEF Said, Reported
    <3>2. /\ ~w0' => Promise!Due' \subseteq Tried' \cup Told'
          /\ Told' = IF ~w0' THEN {i \in Promise!Due' : Bad'[i]} ELSE {}
          /\ outcome' = "WriteError" <=> Told' # {}
      BY <2>9 DEF SaysInv
    <3>3. Promise!Due' = Promise!Due
      BY <2>2, <2>3 DEF Promise!Due, Promise!Ops
    <3>4. Promise!Tried' = Tried'
      BY DEF Promise!Tried, Tried
    <3>5. (IF Reported THEN Told ELSE {})' = Told'
      BY <2>9
    <3> QED
      BY <2>2, <2>3, <2>5, <2>6, <3>1, <3>2, <3>3, <3>4, <3>5 DEF Promise!Next, Promise!Report
  <2> QED
    BY <2>1, <2>7, <2>8, <2>9 DEF Works
<1>4. CASE UNCHANGED vars
  BY <1>4 DEF vars, result, Promise!vars, Bad, Ops, Refused, Fails, Rejected, Fate, Said,
              Reported, Told
<1> QED
  BY <1>1, <1>2, <1>3, <1>4, Steps

(* The refinement: through batches, chunks, both protocols and every       *)
(* failure, the bulk does what Bulk promises (BulkWrite.pm, execute).      *)
THEOREM PromiseIsKept == Spec => KeepsPromise
<1>1. Init => Promise!Init /\ RefusedInv
  <2> SUFFICES ASSUME Init PROVE Promise!Init /\ RefusedInv
    OBVIOUS
  <2>1. /\ queue = <<>> /\ ordered \in BOOLEAN /\ w0 \in BOOLEAN /\ tried = <<>>
        /\ errors = {} /\ pc = "build" /\ outcome = "none"
    BY DEF Init
  <2>2. Tried = {} /\ Told = {} /\ ~Reported /\ Said = "nothing"
    BY <2>1 DEF Tried, Told, Reported, Said
  <2>3. Bad = <<>>
    <3>1. Bad \in Seq(BOOLEAN) /\ Len(Bad) = 0
      BY <2>1, Begins, BadIs DEF IInv
    <3> QED
      BY <3>1, EmptySeq
  <2> QED
    BY <2>1, <2>2, <2>3 DEF Promise!Init, RefusedInv
<1>2. IInv /\ RefusedInv /\ [Next]_vars => RefusedInv'
  BY RefusedStep
<1>3. IInv /\ RefusedInv => SaysInv
  BY Says
<1>4. IInv /\ RefusedInv /\ IInv' /\ SaysInv' /\ [Next]_vars => [Promise!Next]_(Promise!vars)
  BY PromiseStep
<1> QED
  BY <1>1, <1>2, <1>3, <1>4, Invariant, PTL DEF Spec, KeepsPromise, Promise!Spec
=============================================================================
