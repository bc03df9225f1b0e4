------------------------- MODULE RecordScreenProofs -------------------------
(***************************************************************************)
(* Proofs of the properties of RecordScreen, for any machines, records and *)
(* days, any number of requests and screens, and lists of any length.      *)
(***************************************************************************)
EXTENDS RecordScreen, FiniteSetTheorems, WellFoundedInduction, TLAPS

-----------------------------------------------------------------------------
(* Induction.  The least number principle, without an operator parameter.  *)
LEMMA LeastNat ==
  ASSUME NEW T, T \subseteq Nat, T # {}
  PROVE  \E x \in T : \A y \in T : x <= y
<1> DEFINE R == OpToRel(<, Nat)
<1>1. IsWellFoundedOn(R, Nat)
  BY NatLessThanWellFounded
<1>2. \A x, y \in Nat : <<y, x>> \in R <=> y < x
  BY DEF OpToRel
<1> HIDE DEF R
<1>3. PICK x \in T : \A y \in T : ~(<<y, x>> \in R)
  BY <1>1, WFMin
<1>4. ASSUME NEW y \in T PROVE x <= y
  <2>1. x \in Nat /\ y \in Nat
    OBVIOUS
  <2>2. ~(y < x)
    BY <1>2, <1>3, <2>1
  <2> QED BY <2>1, <2>2
<1> QED BY <1>4

(* A set of indices that has 0, and i with i - 1, has all of them.         *)
LEMMA AllIndices ==
  ASSUME NEW n \in Nat, NEW G, 0 \in G, \A i \in 1..n : i - 1 \in G => i \in G
  PROVE  \A i \in 0..n : i \in G
<1> DEFINE Bad == {i \in 0..n : i \notin G}
<1>1. ASSUME Bad # {} PROVE FALSE
  <2>1. Bad \subseteq Nat
    OBVIOUS
  <2>2. PICK m \in Bad : \A y \in Bad : m <= y
    BY <1>1, <2>1, LeastNat
  <2>3. m \in 1..n /\ m - 1 \in 0..n
    BY <2>2
  <2>4. m - 1 \notin Bad
    BY <2>1, <2>2, <2>3
  <2> QED BY <2>2, <2>3, <2>4
<1> QED BY <1>1

(* The loops.  A loop over s with step g, on states D, has values.         *)
Runs(f, D, g, init, s, n) ==
  /\ f \in [0..n -> D] /\ f[0] = init
  /\ \A i \in 1..n : f[i] = g[<<f[i - 1], s[i]>>]

LEMMA LoopRuns ==
  ASSUME NEW D, NEW E, NEW g \in [D \X E -> D], NEW init \in D, NEW s \in Seq(E)
  PROVE  \E f : Runs(f, D, g, init, s, Len(s))
<1> DEFINE G == {n \in 0..Len(s) : \E f : Runs(f, D, g, init, s, n)}
<1>1. 0 \in G
  <2>1. Runs([i \in 0..0 |-> init], D, g, init, s, 0)
    BY DEF Runs
  <2> QED BY <2>1
<1>2. ASSUME NEW n \in 1..Len(s), n - 1 \in G PROVE n \in G
  <2>1. PICK f : Runs(f, D, g, init, s, n - 1)
    BY <1>2
  <2>2. /\ n \in Nat \ {0} /\ n - 1 \in 0..(n - 1) /\ s[n] \in E
        /\ f \in [0..(n - 1) -> D] /\ f[0] = init
        /\ \A i \in 1..(n - 1) : f[i] = g[<<f[i - 1], s[i]>>]
    BY <1>2, <2>1 DEF Runs
  <2> DEFINE x == g[<<f[n - 1], s[n]>>]
             h == [i \in 0..n |-> IF i = n THEN x ELSE f[i]]
  <2>3. x \in D
    BY <2>2
  <2> HIDE DEF x
  <2>4. h \in [0..n -> D] /\ h[0] = init /\ h[n] = x
    BY <2>2, <2>3
  <2>5. \A i \in 0..(n - 1) : h[i] = f[i]
    BY <2>2
  <2> HIDE DEF h
  <2>6. ASSUME NEW i \in 1..n PROVE h[i] = g[<<h[i - 1], s[i]>>]
    <3>1. CASE i = n
      BY <2>2, <2>4, <2>5, <3>1 DEF x
    <3>2. CASE i # n
      <4>1. i \in 1..(n - 1) /\ i \in 0..(n - 1) /\ i - 1 \in 0..(n - 1)
        BY <2>2, <3>2
      <4> QED BY <2>2, <2>5, <4>1
    <3> QED BY <3>1, <3>2
  <2>7. Runs(h, D, g, init, s, n)
    BY <2>4, <2>6 DEF Runs
  <2> QED BY <2>7
<1>3. Len(s) \in Nat
  OBVIOUS
<1> HIDE DEF G
<1>4. \A i \in 0..Len(s) : i \in G
  BY <1>1, <1>2, <1>3, AllIndices
<1>5. Len(s) \in G
  BY <1>3, <1>4
<1> QED BY <1>5 DEF G

-----------------------------------------------------------------------------
(* Lists.                                                                  *)
LEMMA ReverseFacts ==
  ASSUME NEW S, NEW s \in Seq(S)
  PROVE  /\ Reverse(s) \in Seq(S) /\ Len(Reverse(s)) = Len(s)
         /\ \A i \in 1..Len(s) :
              /\ Reverse(s)[i] = s[Len(s) - i + 1] /\ Len(s) - i + 1 \in 1..Len(s)
              /\ s[i] = Reverse(s)[Len(s) - i + 1]
         /\ Reverse(Reverse(s)) = s
         /\ ToSet(Reverse(s)) = ToSet(s)
<1> DEFINE n == Len(s)  t == Reverse(s)
<1>1. n \in Nat /\ t \in Seq(S) /\ Len(t) = n
  BY DEF Reverse
<1>2. ASSUME NEW i \in 1..n
      PROVE  t[i] = s[n - i + 1] /\ n - i + 1 \in 1..n /\ s[i] = t[n - i + 1]
  <2>1. n - i + 1 \in 1..n /\ (n - (n - i + 1)) + 1 = i
    BY <1>1
  <2>2. \A j \in 1..n : t[j] = s[(n - j) + 1]
    BY DEF Reverse
  <2> QED BY <2>1, <2>2
<1>3. Reverse(t) = s
  <2>1. Reverse(t) \in Seq(S) /\ Len(Reverse(t)) = n
    BY <1>1 DEF Reverse
  <2>2. \A i \in 1..n : Reverse(t)[i] = t[(n - i) + 1]
    BY <1>1 DEF Reverse
  <2> HIDE DEF t
  <2>3. \A i \in 1..n : Reverse(t)[i] = s[i]
    BY <1>2, <2>2
  <2> QED BY <2>1, <2>3
<1>4. ToSet(t) = ToSet(s)
  <2>1. DOMAIN t = 1..n /\ DOMAIN s = 1..n
    BY <1>1
  <2> HIDE DEF t
  <2> QED BY <1>2, <2>1 DEF ToSet
<1> QED BY <1>1, <1>2, <1>3, <1>4

Fields == [machine : Machines, key : Nat, time : Nat, coin : Nat, goods : Nat]

(* The contents of the database are lists of records.                      *)
LEMMA ContentsType ==
  /\ \A m \in Machines : Len(Contents[m]) \in Nat /\ DOMAIN Contents[m] = 1..Len(Contents[m])
  /\ \A m \in Machines : \A n \in 1..Len(Contents[m]) : Contents[m][n] \in Seq(Fields)
<1>1. Contents \in [Machines -> Seq(Seq(Fields))]
  BY ContentsAssumption DEF Fields
<1> HIDE DEF Fields
<1>2. \A m \in Machines : Contents[m] \in Seq(Seq(Fields))
  BY <1>1
<1> QED BY <1>2

LEMMA RecordFields ==
  ASSUME NEW r \in Record
  PROVE  /\ r.machine \in Machines /\ r.key \in Nat /\ r.time \in Nat
         /\ r.coin \in Nat /\ r.goods \in Nat
<1>1. PICK m \in Machines : \E c \in ToSet(Contents[m]) : r \in ToSet(c)
  BY DEF Record
<1>2. PICK c \in ToSet(Contents[m]) : r \in ToSet(c)
  BY <1>1
<1>3. c \in Seq(Fields)
  BY <1>2, ContentsType DEF ToSet
<1> HIDE DEF Fields
<1>4. r \in Fields
  BY <1>2, <1>3 DEF ToSet
<1> QED BY <1>4 DEF Fields

(* A list in the order of the keys, one way or the other, of one machine.  *)
Falling(list) == \A j, k \in DOMAIN list : j < k => list[k].key < list[j].key
OneMachine(list) == \A j, k \in DOMAIN list : list[j].machine = list[k].machine
Ordered(list) ==
  list \in Seq(Record) /\ (Sorted(list) \/ Falling(list)) /\ OneMachine(list)

LEMMA FallingReverse ==
  ASSUME NEW s \in Seq(Record)
  PROVE  (Sorted(Reverse(s)) <=> Falling(s)) /\ (Falling(Reverse(s)) <=> Sorted(s))
<1> DEFINE n == Len(s)
<1>1. n \in Nat /\ DOMAIN s = 1..n /\ DOMAIN Reverse(s) = 1..n
  BY ReverseFacts
<1>2. \A i \in 1..n : /\ Reverse(s)[i] = s[n - i + 1] /\ n - i + 1 \in 1..n
                      /\ s[i] = Reverse(s)[n - i + 1]
  BY ReverseFacts
<1> DEFINE t == Reverse(s)
<1> HIDE DEF n, t
<1>3. \A j, k \in 1..n : j < k => n - k + 1 < n - j + 1
  BY <1>1
<1>4. ASSUME Sorted(t), NEW j \in 1..n, NEW k \in 1..n, j < k PROVE s[k].key < s[j].key
  BY <1>1, <1>2, <1>3, <1>4 DEF Sorted, t
<1>5. ASSUME Falling(s), NEW j \in 1..n, NEW k \in 1..n, j < k PROVE t[j].key < t[k].key
  BY <1>1, <1>2, <1>3, <1>5 DEF Falling, t
<1>6. ASSUME Falling(t), NEW j \in 1..n, NEW k \in 1..n, j < k PROVE s[j].key < s[k].key
  BY <1>1, <1>2, <1>3, <1>6 DEF Falling, t
<1>7. ASSUME Sorted(s), NEW j \in 1..n, NEW k \in 1..n, j < k PROVE t[k].key < t[j].key
  BY <1>1, <1>2, <1>3, <1>7 DEF Sorted, t
<1> QED BY <1>1, <1>4, <1>5, <1>6, <1>7 DEF Sorted, Falling, t

LEMMA OrderedReverse == ASSUME NEW s, Ordered(s) PROVE Ordered(Reverse(s))
<1>1. s \in Seq(Record) /\ Reverse(s) \in Seq(Record)
  BY ReverseFacts DEF Ordered
<1>2. Sorted(Reverse(s)) \/ Falling(Reverse(s))
  BY <1>1, FallingReverse DEF Ordered
<1>3. OneMachine(Reverse(s))
  <2>1. /\ DOMAIN Reverse(s) = 1..Len(s) /\ DOMAIN s = 1..Len(s)
        /\ \A i \in 1..Len(s) : Reverse(s)[i] = s[Len(s) - i + 1] /\ Len(s) - i + 1 \in 1..Len(s)
    BY <1>1, ReverseFacts
  <2> QED BY <2>1 DEF Ordered, OneMachine
<1> QED BY <1>1, <1>2, <1>3 DEF Ordered

(* The records at some of the first n places of t, in order.               *)
Kept(s, t, n) ==
  \E h \in [1..Len(s) -> 1..n] :
    /\ \A i, j \in 1..Len(s) : i < j => h[i] < h[j]
    /\ \A i \in 1..Len(s) : s[i] = t[h[i]]

LEMMA KeptOrdered ==
  ASSUME NEW t, Ordered(t), NEW s \in Seq(Record), Kept(s, t, Len(t))
  PROVE  Ordered(s)
<1>1. PICK h \in [1..Len(s) -> 1..Len(t)] :
        /\ \A i, j \in 1..Len(s) : i < j => h[i] < h[j]
        /\ \A i \in 1..Len(s) : s[i] = t[h[i]]
  BY DEF Kept
<1>2. DOMAIN s = 1..Len(s) /\ DOMAIN t = 1..Len(t)
  BY DEF Ordered
<1>3. Sorted(t) => Sorted(s)
  BY <1>1, <1>2 DEF Sorted
<1>4. Falling(t) => Falling(s)
  BY <1>1, <1>2 DEF Falling
<1>5. OneMachine(s)
  BY <1>1, <1>2 DEF OneMachine, Ordered
<1> QED BY <1>3, <1>4, <1>5 DEF Ordered

LEMMA KeptMore ==
  ASSUME NEW s \in Seq(Record), NEW t \in Seq(Record), NEW n \in 1..Len(t),
         Kept(s, t, n - 1)
  PROVE  Kept(s, t, n) /\ Kept(Append(s, t[n]), t, n) /\ Kept(<<t[n]>>, t, n)
<1> DEFINE l == Len(s)
<1>0. n \in Nat /\ l \in Nat /\ t[n] \in Record
  OBVIOUS
<1>1. PICK h \in [1..l -> 1..(n - 1)] :
        /\ \A i, j \in 1..l : i < j => h[i] < h[j]
        /\ \A i \in 1..l : s[i] = t[h[i]]
  BY DEF Kept
<1>2. h \in [1..l -> 1..n]
  BY <1>0
<1>3. Kept(s, t, n)
  BY <1>1, <1>2 DEF Kept
<1>4. Kept(Append(s, t[n]), t, n)
  <2> DEFINE a == Append(s, t[n])  g == [i \in 1..(l + 1) |-> IF i = l + 1 THEN n ELSE h[i]]
  <2>1. Len(a) = l + 1 /\ (\A i \in 1..l : a[i] = s[i]) /\ a[l + 1] = t[n]
    BY <1>0
  <2>2. g \in [1..(l + 1) -> 1..n] /\ (\A i \in 1..l : g[i] = h[i]) /\ g[l + 1] = n
    BY <1>0, <1>2
  <2> HIDE DEF a, g
  <2>3. ASSUME NEW i \in 1..(l + 1), NEW j \in 1..(l + 1), i < j PROVE g[i] < g[j]
    <3>i. i \in 1..l
      BY <1>0, <2>3
    <3>1. i \in 1..l /\ g[i] = h[i] /\ h[i] \in 1..(n - 1)
      BY <2>2, <3>i
    <3>2. CASE j = l + 1
      BY <1>0, <2>2, <3>1, <3>2
    <3>3. CASE j # l + 1
      <4>1. j \in 1..l
        BY <1>0, <3>3
      <4> QED BY <1>1, <2>2, <2>3, <3>1, <4>1
    <3> QED BY <3>2, <3>3
  <2>4. ASSUME NEW i \in 1..(l + 1) PROVE a[i] = t[g[i]]
    <3>1. i \in 1..l \/ i = l + 1
      BY <1>0
    <3> QED BY <1>1, <2>1, <2>2, <3>1
  <2>5. Kept(a, t, n)
    BY <2>1, <2>2, <2>3, <2>4 DEF Kept
  <2> QED BY <2>5 DEF a
<1>5. Kept(<<t[n]>>, t, n)
  <2> DEFINE o == <<t[n]>>  g == [i \in 1..1 |-> n]
  <2>1. Len(o) = 1 /\ o[1] = t[n] /\ g \in [1..1 -> 1..n] /\ g[1] = n
    BY <1>0
  <2> HIDE DEF o, g
  <2>2. \A i, j \in 1..1 : i < j => g[i] < g[j]
    OBVIOUS
  <2>3. \A i \in 1..1 : o[i] = t[g[i]]
    BY <2>1
  <2> QED BY <2>1, <2>2, <2>3 DEF Kept, o
<1> QED BY <1>3, <1>4, <1>5

LEMMA KeptNone == ASSUME NEW t, NEW n PROVE Kept(<<>>, t, n)
<1>1. Len(<<>>) = 0 /\ 1..0 = {}
  OBVIOUS
<1>2. [i \in {} |-> 1] \in [{} -> 1..n]
  OBVIOUS
<1> QED BY <1>1, <1>2 DEF Kept

LEMMA SetOfAppend ==
  ASSUME NEW s \in Seq(Record), NEW r \in Record
  PROVE  ToSet(Append(s, r)) = ToSet(s) \cup {r}
<1> DEFINE a == Append(s, r)  n == Len(s)
<1>1. /\ DOMAIN s = 1..n /\ DOMAIN a = 1..(n + 1) /\ a[n + 1] = r /\ n \in Nat
      /\ \A i \in 1..n : a[i] = s[i]
  OBVIOUS
<1> HIDE DEF a, n
<1>2. \A i : i \in 1..(n + 1) <=> i \in 1..n \/ i = n + 1
  BY <1>1
<1>3. ToSet(a) = ToSet(s) \cup {r}
  BY <1>1, <1>2 DEF ToSet
<1> QED BY <1>3 DEF a

LEMMA SetOfOne == ASSUME NEW r PROVE ToSet(<<r>>) = {r}
<1>1. DOMAIN <<r>> = {1} /\ <<r>>[1] = r
  OBVIOUS
<1> QED BY <1>1 DEF ToSet

LEMMA SetOfNone == ToSet(<<>>) = {}
<1>1. DOMAIN <<>> = {}
  OBVIOUS
<1> QED BY <1>1 DEF ToSet

(* What onDateSet selects: the records that pass its test, in order.       *)
LEMMA DayListFacts ==
  ASSUME NEW list \in Seq(Record), NEW day
  PROVE  /\ DayList(list, day) \in Seq(Record)
         /\ Kept(DayList(list, day), list, Len(list))
         /\ ToSet(DayList(list, day)) = {r \in ToSet(list) : OnThatDay(r, day)}
<1> DEFINE n == Len(list)
           D == Seq(Record)
           g == [p \in D \X Record |-> IF OnThatDay(p[2], day) THEN Append(p[1], p[2]) ELSE p[1]]
           Turn(f, i) == IF i = 0 THEN <<>>
                         ELSE IF OnThatDay(list[i], day) THEN Append(f[i - 1], list[i])
                         ELSE f[i - 1]
           kept == CHOOSE f : f = [i \in 0..n |-> Turn(f, i)]
<1>n. n \in Nat /\ \A i \in 1..n : list[i] \in Record
  OBVIOUS
<1>1. kept = [i \in 0..n |-> Turn(kept, i)]
  <2>1. g \in [D \X Record -> D] /\ <<>> \in D
    OBVIOUS
  <2>2. \A s \in D, r \in Record :
          g[<<s, r>>] = IF OnThatDay(r, day) THEN Append(s, r) ELSE s
    OBVIOUS
  <2> HIDE DEF g
  <2>3. PICK f : Runs(f, D, g, <<>>, list, n)
    BY <2>1, LoopRuns
  <2>4. f = [i \in 0..n |-> f[i]] /\ f[0] = <<>>
    BY <2>3 DEF Runs
  <2>5. ASSUME NEW i \in 0..n PROVE f[i] = Turn(f, i)
    <3>1. CASE i = 0
      BY <2>4, <3>1
    <3>2. CASE i # 0
      <4>1. i \in 1..n /\ i - 1 \in 0..n
        BY <1>n, <3>2
      <4>2. f[i] = g[<<f[i - 1], list[i]>>] /\ f[i - 1] \in D /\ list[i] \in Record
        BY <1>n, <2>3, <4>1 DEF Runs
      <4> QED BY <2>2, <3>2, <4>2
    <3> QED BY <3>1, <3>2
  <2>6. f = [i \in 0..n |-> Turn(f, i)]
    BY <2>4, <2>5
  <2> QED BY <2>6
<1>2. DayList(list, day) = kept[n]
  BY DEF DayList
<1> HIDE DEF kept, g
<1>3. kept[0] = <<>>
  BY <1>1, <1>n
<1>4. \A i \in 1..n : kept[i] = IF OnThatDay(list[i], day) THEN Append(kept[i - 1], list[i])
                                ELSE kept[i - 1]
  <2> SUFFICES ASSUME NEW i \in 1..n PROVE kept[i] = Turn(kept, i)
    BY <1>n
  <2>1. i \in 0..n
    BY <1>n
  <2> HIDE DEF Turn, n
  <2> QED BY <1>1, <2>1
<1> DEFINE Passed(i) == {list[j] : j \in {k \in 1..i : OnThatDay(list[k], day)}}
           G == {i \in 0..n : /\ kept[i] \in Seq(Record) /\ Kept(kept[i], list, i)
                              /\ ToSet(kept[i]) = Passed(i)}
<1>5. 0 \in G
  <2>1. Passed(0) = {}
    OBVIOUS
  <2>2. <<>> \in Seq(Record) /\ Kept(<<>>, list, 0) /\ ToSet(<<>>) = {} /\ 0 \in 0..n
    BY <1>n, KeptNone, SetOfNone
  <2> HIDE DEF Passed
  <2> QED BY <1>3, <2>1, <2>2
<1>6. ASSUME NEW i \in 1..n, i - 1 \in G PROVE i \in G
  <2>1. /\ kept[i - 1] \in Seq(Record) /\ Kept(kept[i - 1], list, i - 1)
        /\ ToSet(kept[i - 1]) = Passed(i - 1) /\ list[i] \in Record
    BY <1>6, <1>n
  <2>2. Kept(kept[i - 1], list, i) /\ Kept(Append(kept[i - 1], list[i]), list, i)
    BY <2>1, KeptMore
  <2>3. \A k : k \in 1..i <=> k \in 1..(i - 1) \/ k = i
    BY <1>n
  <2>4. Passed(i) = IF OnThatDay(list[i], day) THEN Passed(i - 1) \cup {list[i]} ELSE Passed(i - 1)
    BY <2>3
  <2> HIDE DEF Passed
  <2>5. CASE OnThatDay(list[i], day)
    <3>1. kept[i] = Append(kept[i - 1], list[i])
      BY <1>4, <2>5
    <3>2. kept[i] \in Seq(Record)
      BY <2>1, <3>1
    <3>3. ToSet(kept[i]) = Passed(i)
      BY <2>1, <2>4, <2>5, <3>1, SetOfAppend
    <3>4. Kept(kept[i], list, i)
      BY <2>2, <3>1
    <3> QED BY <1>n, <3>2, <3>3, <3>4
  <2>6. CASE ~OnThatDay(list[i], day)
    BY <1>n, <1>4, <2>1, <2>2, <2>4, <2>6
  <2> QED BY <2>5, <2>6
<1> HIDE DEF G
<1>7. n \in G
  <2>1. \A i \in 0..n : i \in G
    BY <1>n, <1>5, <1>6, AllIndices
  <2> QED BY <1>n, <2>1
<1>8. Passed(n) = {r \in ToSet(list) : OnThatDay(r, day)}
  <2>1. DOMAIN list = 1..n
    OBVIOUS
  <2> QED BY <2>1 DEF ToSet
<1> QED BY <1>2, <1>7, <1>8 DEF G

(* The comparisons of the filters, and one turn of their loops.            *)
LEMMA BeatsFacts ==
  ASSUME NEW pos, NEW a \in Nat, NEW b \in Nat, NEW c \in Nat
  PROVE  /\ ~Beats(pos, a, a)
         /\ Beats(pos, c, b) /\ ~Beats(pos, a, b) => ~Beats(pos, a, c) /\ a # c
         /\ ~Beats(pos, a, b) /\ ~Beats(pos, b, a) => a = b
  BY DEF Beats

LEMMA KeyType == ASSUME NEW pos, NEW r \in Record PROVE Key(pos, r) \in Nat
  BY RecordFields DEF Key

ScanState == [base : Nat, list : Seq(Record)]

LEMMA ScanFacts ==
  ASSUME NEW pos, NEW acc \in ScanState, NEW r \in Record
  PROVE  /\ Scan(pos, acc, r) \in ScanState
         /\ Beats(pos, Key(pos, r), acc.base) =>
              Scan(pos, acc, r).base = Key(pos, r) /\ Scan(pos, acc, r).list = <<r>>
         /\ ~Beats(pos, Key(pos, r), acc.base) =>
              /\ Scan(pos, acc, r).base = acc.base
              /\ Scan(pos, acc, r).list = IF Key(pos, r) = acc.base
                                          THEN Append(acc.list, r) ELSE acc.list
<1>1. acc.base \in Nat /\ acc.list \in Seq(Record) /\ Key(pos, r) \in Nat
  BY KeyType DEF ScanState
<1> DEFINE b == Key(pos, r)  l == Append(acc.list, r)
<1>2. l \in Seq(Record) /\ <<r>> \in Seq(Record)
  BY <1>1
<1>3. CASE Beats(pos, b, acc.base)
  <2>1. Scan(pos, acc, r) = [base |-> b, list |-> <<r>>]
    BY <1>3 DEF Scan
  <2> HIDE DEF b
  <2> QED BY <1>1, <1>2, <1>3, <2>1 DEF ScanState, b
<1>4. CASE ~Beats(pos, b, acc.base) /\ b = acc.base
  <2>1. Scan(pos, acc, r) = [acc EXCEPT !.list = l]
    BY <1>4 DEF Scan
  <2> HIDE DEF l
  <2>2. /\ [acc EXCEPT !.list = l] \in ScanState /\ [acc EXCEPT !.list = l].list = l
        /\ [acc EXCEPT !.list = l].base = acc.base
    BY <1>1, <1>2 DEF ScanState
  <2> QED BY <1>4, <2>1, <2>2 DEF l
<1>5. CASE ~Beats(pos, b, acc.base) /\ b # acc.base
  BY <1>5 DEF Scan
<1> QED BY <1>3, <1>4, <1>5

(* What a filter selects: the records that no other beats, in order.       *)
Best(pos, list) ==
  {r \in ToSet(list) : \A x \in ToSet(list) : ~Beats(pos, Key(pos, x), Key(pos, r))}

LEMMA ExtremesFacts ==
  ASSUME NEW list \in Seq(Record), list # <<>>, NEW pos
  PROVE  /\ Extremes(pos, list) \in Seq(Record)
         /\ Kept(Extremes(pos, list), list, Len(list))
         /\ ToSet(Extremes(pos, list)) = Best(pos, list)
<1> DEFINE n == Len(list)
           D == ScanState
           g == [p \in D \X Record |-> Scan(pos, p[1], p[2])]
           first == [base |-> Key(pos, list[1]), list |-> <<>>]
           Turn(f, i) == IF i = 0 THEN first ELSE Scan(pos, f[i - 1], list[i])
           scanned == CHOOSE f : f = [i \in 0..n |-> Turn(f, i)]
<1>n. n \in Nat /\ 1 \in 1..n /\ \A i \in 1..n : list[i] \in Record
  OBVIOUS
<1>0. first \in D /\ first.base = Key(pos, list[1]) /\ first.list = <<>>
  <2>1. Key(pos, list[1]) \in Nat /\ <<>> \in Seq(Record)
    BY <1>n, KeyType
  <2> QED BY <2>1 DEF ScanState
<1> HIDE DEF first
<1>1. scanned = [i \in 0..n |-> Turn(scanned, i)]
  <2>1. g \in [D \X Record -> D]
    BY ScanFacts
  <2>2. \A s \in D, r \in Record : g[<<s, r>>] = Scan(pos, s, r)
    OBVIOUS
  <2> HIDE DEF g, D
  <2>3. PICK f : Runs(f, D, g, first, list, n)
    BY <1>0, <2>1, LoopRuns
  <2>4. f = [i \in 0..n |-> f[i]] /\ f[0] = first
    BY <2>3 DEF Runs
  <2>5. ASSUME NEW i \in 0..n PROVE f[i] = Turn(f, i)
    <3>1. CASE i = 0
      BY <2>4, <3>1
    <3>2. CASE i # 0
      <4>1. i \in 1..n /\ i - 1 \in 0..n
        BY <1>n, <3>2
      <4>2. f[i] = g[<<f[i - 1], list[i]>>] /\ f[i - 1] \in D /\ list[i] \in Record
        BY <1>n, <2>3, <4>1 DEF Runs
      <4> QED BY <2>2, <3>2, <4>2
    <3> QED BY <3>1, <3>2
  <2>6. f = [i \in 0..n |-> Turn(f, i)]
    BY <2>4, <2>5
  <2> QED BY <2>6
<1>2. Extremes(pos, list) = scanned[n].list
  BY DEF Extremes, first
<1> HIDE DEF scanned, g
<1>3. scanned[0] = first
  BY <1>1, <1>n
<1>4. ASSUME NEW i \in 1..n PROVE scanned[i] = Scan(pos, scanned[i - 1], list[i])
  <2>1. i \in 0..n /\ i # 0
    BY <1>n
  <2>2. scanned[i] = Turn(scanned, i)
    <3> HIDE DEF Turn, n
    <3> QED BY <1>1, <2>1
  <2> QED BY <2>1, <2>2
<1> DEFINE At(b, i) == {list[j] : j \in {k \in 1..i : Key(pos, list[k]) = b}}
           G == {i \in 0..n :
                   /\ scanned[i] \in ScanState /\ Kept(scanned[i].list, list, i)
                   /\ \A j \in 1..i : ~Beats(pos, Key(pos, list[j]), scanned[i].base)
                   /\ \E j \in 1..n : Key(pos, list[j]) = scanned[i].base
                   /\ ToSet(scanned[i].list) = At(scanned[i].base, i)}
<1>5. 0 \in G
  <2>1. At(scanned[0].base, 0) = {}
    OBVIOUS
  <2>2. Kept(<<>>, list, 0) /\ ToSet(<<>>) = {} /\ 0 \in 0..n /\ 1..0 = {}
    BY <1>n, KeptNone, SetOfNone
  <2> HIDE DEF At
  <2> QED BY <1>n, <1>0, <1>3, <2>1, <2>2
<1>6. ASSUME NEW i \in 1..n, i - 1 \in G PROVE i \in G
  <2> DEFINE a == scanned[i - 1]  b == scanned[i]  r == list[i]  v == Key(pos, r)
  <2>1. /\ a \in ScanState /\ Kept(a.list, list, i - 1)
        /\ \A j \in 1..(i - 1) : ~Beats(pos, Key(pos, list[j]), a.base)
        /\ \E j \in 1..n : Key(pos, list[j]) = a.base
        /\ ToSet(a.list) = At(a.base, i - 1)
    BY <1>6
  <2>2. r \in Record /\ v \in Nat /\ a.base \in Nat /\ a.list \in Seq(Record) /\ i \in Nat
        /\ i \in 0..n
    BY <1>n, <2>1, KeyType DEF ScanState
  <2>3. b = Scan(pos, a, r)
    BY <1>4
  <2>4. \A k : k \in 1..i <=> k \in 1..(i - 1) \/ k = i
    BY <2>2
  <2>5. \A k \in 1..(i - 1) : k \in 1..n /\ Key(pos, list[k]) \in Nat
    BY <1>n, <2>2, KeyType
  <2>6. Kept(a.list, list, i) /\ Kept(Append(a.list, r), list, i) /\ Kept(<<r>>, list, i)
    BY <2>1, <2>2, KeptMore
  <2> HIDE DEF a, b, v, n
  <2>7. CASE Beats(pos, v, a.base)
    <3>1. b \in ScanState /\ b.base = v /\ b.list = <<r>>
      BY <2>1, <2>2, <2>3, <2>7, ScanFacts DEF v
    <3>2. \A j \in 1..(i - 1) : ~Beats(pos, Key(pos, list[j]), v) /\ Key(pos, list[j]) # v
      BY <2>1, <2>2, <2>5, <2>7, BeatsFacts
    <3>3. \A j \in 1..i : ~Beats(pos, Key(pos, list[j]), v)
      BY <2>2, <2>4, <3>2, BeatsFacts DEF v
    <3>4. At(v, i) = {r}
      BY <2>4, <3>2 DEF v
    <3>5. ToSet(<<r>>) = {r}
      BY SetOfOne
    <3> HIDE DEF At
    <3> QED BY <2>2, <2>6, <3>1, <3>3, <3>4, <3>5 DEF b, v
  <2>8. CASE ~Beats(pos, v, a.base)
    <3>1. /\ b \in ScanState /\ b.base = a.base
          /\ b.list = IF v = a.base THEN Append(a.list, r) ELSE a.list
      BY <2>1, <2>2, <2>3, <2>8, ScanFacts DEF v
    <3>2. \A j \in 1..i : ~Beats(pos, Key(pos, list[j]), a.base)
      BY <2>1, <2>4, <2>8 DEF v
    <3>3. At(a.base, i) = IF v = a.base THEN At(a.base, i - 1) \cup {r} ELSE At(a.base, i - 1)
      BY <2>4 DEF v
    <3>4. ToSet(Append(a.list, r)) = ToSet(a.list) \cup {r}
      BY <2>2, SetOfAppend
    <3> HIDE DEF At
    <3>5. ToSet(b.list) = At(b.base, i) /\ Kept(b.list, list, i)
      BY <2>1, <2>6, <3>1, <3>3, <3>4
    <3> QED BY <2>1, <2>2, <3>1, <3>2, <3>5 DEF b
  <2> QED BY <2>7, <2>8
<1> HIDE DEF G
<1>7. n \in G
  <2>1. \A i \in 0..n : i \in G
    BY <1>n, <1>5, <1>6, AllIndices
  <2> QED BY <1>n, <2>1
<1> DEFINE base == scanned[n].base
<1>8. /\ scanned[n] \in ScanState /\ Kept(scanned[n].list, list, n)
      /\ \A j \in 1..n : ~Beats(pos, Key(pos, list[j]), base)
      /\ \E j \in 1..n : Key(pos, list[j]) = base
      /\ ToSet(scanned[n].list) = At(base, n)
  BY <1>7 DEF G
<1>9. base \in Nat /\ scanned[n].list \in Seq(Record)
  BY <1>8 DEF ScanState
<1> HIDE DEF base
<1>10. At(base, n) = Best(pos, list)
  <2>1. DOMAIN list = 1..n /\ \A j \in 1..n : Key(pos, list[j]) \in Nat
    BY <1>n, KeyType
  <2>2. ToSet(list) = {list[j] : j \in 1..n}
    BY <2>1 DEF ToSet
  <2>3. ASSUME NEW j \in 1..n
        PROVE  Key(pos, list[j]) = base
                 <=> \A k \in 1..n : ~Beats(pos, Key(pos, list[k]), Key(pos, list[j]))
    BY <1>8, <1>9, <2>1, BeatsFacts
  <2> QED BY <2>2, <2>3 DEF Best
<1> QED BY <1>2, <1>8, <1>9, <1>10

-----------------------------------------------------------------------------
(* The inductive invariant.                                                *)
IsSnapshot(list, st) ==
  \E m \in Machines : \E n \in 0..st[m] :
    list \in {Content(m, n), Reverse(Content(m, n))}
StoredInv == \A m \in Machines : stored[m] <= Len(Contents[m])

(* Every list that may be shown is in order, the filtered ones too.        *)
ListsInv == Ordered(private) /\ Ordered(rows)

(* The list of a picked day stays the current one, and so do its records,  *)
(* until a Loader's Listener replaces it.                                  *)
OfDay(list, day) == \A k \in DOMAIN list : Queried(list[k], day)
DayInv ==
  label # All => /\ aliased => screen = "slave" /\ finished
                 /\ ~aliased => OfDay(private, label) /\ OfDay(rows, label)

RecordInv ==
  /\ TypeOK /\ StoredInv /\ (screen # "home" => machine \in Machines)
  /\ IsSnapshot(rawDataList, stored) /\ ListsInv /\ DayInv

LEMMA ContentOrdered ==
  ASSUME NEW m \in Machines, NEW n \in 0..Len(Contents[m])
  PROVE  Ordered(Content(m, n))
<1>1. CASE n = 0
  <2>1. Content(m, n) = <<>> /\ <<>> \in Seq(Record) /\ DOMAIN <<>> = {}
    BY <1>1 DEF Content
  <2> QED BY <2>1 DEF Ordered, Sorted, OneMachine
<1>2. CASE n # 0
  <2> DEFINE s == Contents[m][n]
  <2>1. n \in DOMAIN Contents[m] /\ s \in Seq(Fields) /\ Content(m, n) = s
    BY <1>2, ContentsType DEF Content
  <2>2. s \in ToSet(Contents[m])
    BY <2>1 DEF ToSet
  <2>3. DOMAIN s = 1..Len(s) /\ Len(s) \in Nat
    BY <2>1
  <2>4. \A i \in 1..Len(s) : s[i].machine = m /\ \A j \in 1..(i - 1) : s[j].key < s[i].key
    BY <2>1, <2>3, ContentsAssumption
  <2> HIDE DEF s
  <2>5. \A i \in 1..Len(s) : s[i] \in Record
    BY <2>2, <2>3 DEF Record, ToSet
  <2>6. s \in Seq(Record)
    BY <2>1, <2>5
  <2>7. OneMachine(s)
    BY <2>3, <2>4 DEF OneMachine
  <2>8. Sorted(s)
    <3> SUFFICES ASSUME NEW i \in 1..Len(s), NEW j \in 1..Len(s), i < j
                 PROVE  s[i].key < s[j].key
      BY <2>3 DEF Sorted
    <3>1. i \in 1..(j - 1)
      BY <2>3
    <3> QED BY <2>4, <3>1
  <2> QED BY <2>1, <2>6, <2>7, <2>8 DEF Ordered
<1> QED BY <1>1, <1>2

LEMMA SnapshotOrdered ==
  ASSUME NEW list, NEW st \in [Machines -> Nat],
         \A m \in Machines : st[m] <= Len(Contents[m]), IsSnapshot(list, st)
  PROVE  Ordered(list) /\ IsSnapshot(Reverse(list), st)
<1>1. PICK m \in Machines : \E n \in 0..st[m] :
        list \in {Content(m, n), Reverse(Content(m, n))}
  BY DEF IsSnapshot
<1>2. PICK n \in 0..st[m] : list \in {Content(m, n), Reverse(Content(m, n))}
  BY <1>1
<1> DEFINE s == Content(m, n)
<1>3. Ordered(s)
  <2>1. Len(Contents[m]) \in Nat
    BY ContentsType
  <2>2. n \in 0..Len(Contents[m])
    BY <2>1
  <2> QED BY <2>2, ContentOrdered
<1> HIDE DEF s
<1>4. s \in Seq(Record) /\ Reverse(Reverse(s)) = s
  BY <1>3, ReverseFacts DEF Ordered
<1>5. Ordered(list)
  BY <1>2, <1>3, OrderedReverse DEF s
<1>6. Reverse(list) \in {s, Reverse(s)}
  BY <1>2, <1>4 DEF s
<1> QED BY <1>5, <1>6 DEF IsSnapshot, s

LEMMA SharedFacts ==
  ASSUME RecordInv
  PROVE  /\ Ordered(rawDataList) /\ rawDataList \in Seq(Record)
         /\ Ordered(Reverse(rawDataList)) /\ Reverse(rawDataList) \in Seq(Record)
         /\ IsSnapshot(Reverse(rawDataList), stored)
<1>1. Ordered(rawDataList) /\ IsSnapshot(Reverse(rawDataList), stored)
  BY SnapshotOrdered DEF RecordInv, TypeOK, StoredInv
<1>2. Ordered(Reverse(rawDataList))
  BY <1>1, OrderedReverse
<1> QED BY <1>1, <1>2 DEF Ordered

LEMMA EmptyOrdered == Ordered(<<>>) /\ \A day : OfDay(<<>>, day)
<1>1. <<>> \in Seq(Record) /\ DOMAIN <<>> = {}
  OBVIOUS
<1> QED BY <1>1 DEF Ordered, Sorted, OneMachine, OfDay

(* The test of onDateSet is that of the calendar day, but for the odd hour.*)
LEMMA QueriedTest ==
  ASSUME NEW r \in Record, NEW day \in Days
  PROVE  OnThatDay(r, day) <=> Queried(r, day)
<1>1. /\ Len(Calendar) \in Nat /\ DayLength \in Nat \ {0}
      /\ \A d \in 1..Len(Calendar) : Calendar[d] \in Nat
  BY CalendarAssumption
<1>2. day \in 1..Len(Calendar) /\ day + 1 \in 1..Len(Calendar)
  BY <1>1 DEF Days
<1> DEFINE t == r.time  from == Calendar[day]  next == Calendar[day + 1]
<1>3. t \in Nat /\ from \in Nat /\ next \in Nat /\ from < next
  BY <1>1, <1>2, RecordFields, CalendarAssumption DEF Days
<1>4. /\ OnThatDay(r, day) <=> (from - 1 < t /\ t < from + DayLength)
      /\ SameDay(r, day) <=> (from <= t /\ t < next)
      /\ OddHour(r, day) <=> \/ from + DayLength <= t /\ t < next
                             \/ next <= t /\ t < from + DayLength
  BY DEF OnThatDay, TimeConvertTimestamp, SameDay, OddHour
<1> HIDE DEF t, from, next
<1>5. CASE OddHour(r, day)
  BY <1>1, <1>3, <1>4, <1>5 DEF Queried
<1>6. CASE ~OddHour(r, day)
  BY <1>1, <1>3, <1>4, <1>6 DEF Queried
<1> QED BY <1>5, <1>6

LEMMA OfDaySet ==
  ASSUME NEW s \in Seq(Record), NEW t \in Seq(Record), NEW day, OfDay(t, day),
         ToSet(s) \subseteq ToSet(t)
  PROVE  OfDay(s, day)
  BY DEF OfDay, ToSet

LEMMA RecordInit == ASSUME Init PROVE RecordInv
<1>1. /\ stored \in [Machines -> Nat] /\ \A m \in Machines : stored[m] = 0
  BY DEF Init
<1>2. <<>> \in Seq(Record) /\ <<>> \in Seq([machine : Machines, loader : 0..MaxOpens])
  OBVIOUS
<1>3. finished \in BOOLEAN /\ aliased \in BOOLEAN /\ posted \in BOOLEAN
  BY DEF Init
<1>4. TypeOK
  BY <1>1, <1>2, <1>3, BoundsAssumption DEF Init, TypeOK
<1>5. PICK m \in Machines : TRUE
  BY ContentsAssumption
<1>6. Content(m, 0) = <<>> /\ \A x \in Machines : Len(Contents[x]) \in Nat
  BY ContentsType DEF Content
<1>7. StoredInv
  BY <1>1, <1>6 DEF StoredInv
<1>8. IsSnapshot(rawDataList, stored)
  BY <1>1, <1>5, <1>6 DEF IsSnapshot, Init
<1>9. ListsInv /\ DayInv
  BY EmptyOrdered DEF Init, ListsInv, DayInv
<1> QED BY <1>4, <1>7, <1>8, <1>9 DEF RecordInv, Init

-----------------------------------------------------------------------------
(* One lemma per action.                                                   *)
Load == [machine : Machines, loader : 0..MaxOpens]

LEMMA StoreStep ==
  ASSUME RecordInv, NEW m \in Machines, Store(m) PROVE RecordInv'
<1>1. /\ stored[m] < Len(Contents[m]) /\ stored' = [stored EXCEPT ![m] = @ + 1]
      /\ UNCHANGED <<rawDataList, loads, requests, screen, machine, opened, loaders,
                     finished, aliased, private, rows, label, spinner, posted>>
  BY DEF Store, netVars, screenVars, listVars
<1>l. \A x \in Machines : Len(Contents[x]) \in Nat
  BY ContentsType
<1>2. /\ stored' \in [Machines -> Nat] /\ stored \in [Machines -> Nat]
      /\ \A x \in Machines : stored[x] <= stored'[x]
      /\ stored'[m] = stored[m] + 1 /\ \A x \in Machines \ {m} : stored'[x] = stored[x]
  BY <1>1 DEF RecordInv, TypeOK
<1>3. TypeOK'
  BY <1>1, <1>2 DEF RecordInv, TypeOK
<1>4. StoredInv'
  <2>1. stored'[m] <= Len(Contents[m])
    BY <1>1, <1>l, <1>2
  <2> QED BY <1>2, <2>1 DEF RecordInv, StoredInv
<1>5. IsSnapshot(rawDataList', stored')
  <2>0. PICK x \in Machines : \E n \in 0..stored[x] :
          rawDataList \in {Content(x, n), Reverse(Content(x, n))}
    BY DEF RecordInv, IsSnapshot
  <2>1. PICK n \in 0..stored[x] : rawDataList \in {Content(x, n), Reverse(Content(x, n))}
    BY <2>0
  <2>2. stored[x] \in Nat /\ stored'[x] \in Nat /\ stored[x] <= stored'[x]
    BY <1>2
  <2>3. n \in 0..stored'[x]
    BY <2>2
  <2> QED BY <1>1, <2>1, <2>3 DEF IsSnapshot
<1> QED BY <1>1, <1>3, <1>4, <1>5 DEF RecordInv, ListsInv, DayInv

LEMMA LoadType ==
  ASSUME RecordInv, NEW m \in Machines, NEW loader \in 0..MaxOpens,
         LoadRawDataList(m, loader)
  PROVE  requests' \in 0..MaxLoads /\ loads' \in Seq(Load)
<1>1. requests \in 0..MaxLoads /\ loads \in Seq(Load)
  BY DEF RecordInv, TypeOK, Load
<1>2. requests' \in 0..MaxLoads
  BY <1>1, BoundsAssumption DEF LoadRawDataList
<1>3. [machine |-> m, loader |-> loader] \in Load
  BY DEF Load
<1>4. loads' = Append(loads, [machine |-> m, loader |-> loader])
  BY DEF LoadRawDataList
<1> HIDE DEF Load
<1>5. loads' \in Seq(Load)
  BY <1>1, <1>3, <1>4
<1> QED BY <1>2, <1>5

LEMMA OnDataChangeStep ==
  ASSUME RecordInv, OnDataChange PROVE RecordInv'
<1>1. /\ loads # <<>> /\ rawDataList' = Snapshot(Head(loads).machine) /\ loads' = Tail(loads)
      /\ UNCHANGED <<stored, requests, screen, machine, opened, loaders,
                     finished, aliased, private, rows, label, spinner, posted>>
  BY DEF OnDataChange, screenVars, listVars
<1> DEFINE m == Head(loads).machine
<1>2. loads' \in Seq(Load) /\ m \in Machines
  <2>1. loads \in Seq(Load)
    BY DEF RecordInv, TypeOK, Load
  <2>2. Head(loads) \in Load /\ Tail(loads) \in Seq(Load)
    BY <1>1, <2>1
  <2> QED BY <1>1, <2>2 DEF Load
<1>3. stored[m] \in Nat /\ stored[m] \in 0..stored[m] /\ Len(Contents[m]) \in Nat
  BY <1>2, ContentsType DEF RecordInv, TypeOK
<1> HIDE DEF m
<1>4. stored[m] \in 0..Len(Contents[m])
  BY <1>2, <1>3 DEF RecordInv, StoredInv
<1>5. Ordered(Content(m, stored[m]))
  BY <1>2, <1>4, ContentOrdered
<1>6. rawDataList' = Content(m, stored[m])
  BY <1>1 DEF Snapshot, m
<1>7. rawDataList' \in Seq(Record)
  BY <1>5, <1>6 DEF Ordered
<1>8. IsSnapshot(rawDataList', stored')
  BY <1>1, <1>2, <1>3, <1>6 DEF IsSnapshot
<1>9. TypeOK'
  BY <1>1, <1>2, <1>7 DEF RecordInv, TypeOK, Load
<1> QED BY <1>1, <1>8, <1>9 DEF RecordInv, StoredInv, ListsInv, DayInv

LEMMA OnCancelledStep ==
  ASSUME RecordInv, OnCancelled PROVE RecordInv'
<1>1. /\ loads # <<>> /\ loads' = Tail(loads)
      /\ UNCHANGED <<stored, requests, rawDataList, screen, machine, opened, loaders,
                     finished, aliased, private, rows, label, spinner, posted>>
  BY DEF OnCancelled, screenVars, listVars
<1>2. loads' \in Seq(Load)
  <2>1. loads \in Seq(Load)
    BY DEF RecordInv, TypeOK, Load
  <2> QED BY <1>1, <2>1
<1>3. TypeOK'
  BY <1>1, <1>2 DEF RecordInv, TypeOK, Load
<1> QED BY <1>1, <1>3 DEF RecordInv, StoredInv, ListsInv, DayInv, IsSnapshot

(* Opening and leaving a screen, and making it again without a list.       *)
LEMMA FreshStep ==
  ASSUME RecordInv, UNCHANGED <<stored, rawDataList>>,
         requests' \in 0..MaxLoads, loads' \in Seq(Load),
         screen' \in {"home", "slave", "manage"}, machine' \in Machines \cup {NoMachine},
         screen' # "home" => machine' \in Machines,
         opened' \in 0..MaxOpens, loaders' \subseteq SUBSET (1..MaxOpens),
         finished' \in BOOLEAN, aliased' \in BOOLEAN, private' = <<>>, rows' = <<>>,
         label' = All, spinner' \in 0..4, posted' \in BOOLEAN
  PROVE  RecordInv'
<1>1. <<>> \in Seq(Record)
  OBVIOUS
<1>2. TypeOK'
  BY <1>1 DEF RecordInv, TypeOK, Load
<1>3. ListsInv' /\ DayInv'
  BY EmptyOrdered DEF ListsInv, DayInv
<1> QED BY <1>2, <1>3 DEF RecordInv, StoredInv, IsSnapshot

LEMMA OpenStep ==
  ASSUME RecordInv, NEW m \in Machines, OpenSlave(m) \/ OpenManage(m) PROVE RecordInv'
<1>0. opened \in 0..MaxOpens /\ opened < MaxOpens /\ loaders \subseteq SUBSET (1..MaxOpens)
  BY DEF RecordInv, TypeOK, OpenSlave, OpenManage
<1>1. opened + 1 \in 0..MaxOpens /\ opened + 1 \in 1..MaxOpens /\ 0 \in 0..MaxOpens
  BY <1>0, BoundsAssumption
<1>2. requests' \in 0..MaxLoads /\ loads' \in Seq(Load)
  BY <1>1, LoadType DEF OpenSlave, OpenManage
<1>3. /\ screen' \in {"slave", "manage"} /\ machine' = m /\ opened' = opened + 1
      /\ finished' = FALSE /\ spinner' = 0 /\ UNCHANGED <<stored, rawDataList>>
      /\ aliased' = FALSE /\ private' = <<>> /\ rows' = <<>> /\ label' = All /\ posted' = TRUE
  BY DEF OpenSlave, OpenManage, FreshActivity
<1>4. loaders' \subseteq SUBSET (1..MaxOpens)
  <2>1. loaders' = loaders \/ loaders' = loaders \cup {{opened + 1}}
    BY DEF OpenSlave, OpenManage
  <2>2. {opened + 1} \in SUBSET (1..MaxOpens)
    BY <1>1
  <2> QED BY <1>0, <2>1, <2>2
<1>5. finished' \in BOOLEAN /\ posted' \in BOOLEAN /\ aliased' \in BOOLEAN
  BY <1>3
<1> QED BY <1>1, <1>2, <1>3, <1>4, <1>5, FreshStep

LEMMA LeaveStep == ASSUME RecordInv, Leave PROVE RecordInv'
<1>1. /\ screen' = "home" /\ machine' = NoMachine /\ finished' = FALSE
      /\ aliased' = FALSE /\ private' = <<>> /\ rows' = <<>>
      /\ label' = All /\ spinner' = 0 /\ posted' = FALSE
      /\ UNCHANGED <<stored, rawDataList, opened, loaders, loads, requests>>
  BY DEF Leave, netVars
<1>2. finished' \in BOOLEAN /\ posted' \in BOOLEAN /\ aliased' \in BOOLEAN
  BY <1>1
<1>3. /\ requests' \in 0..MaxLoads /\ loads' \in Seq(Load) /\ opened' \in 0..MaxOpens
      /\ loaders' \subseteq SUBSET (1..MaxOpens)
  BY <1>1 DEF RecordInv, TypeOK, Load
<1> QED BY <1>1, <1>2, <1>3, FreshStep

LEMMA PickFilterStep ==
  ASSUME RecordInv, NEW pos \in 0..4, PickFilter(pos) PROVE RecordInv'
<1>1. /\ spinner' = pos /\ posted' = TRUE
      /\ UNCHANGED <<stored, requests, loads, rawDataList, screen, machine, opened, loaders,
                     finished, aliased, private, rows, label>>
  BY DEF PickFilter, netVars, screenVars
<1>2. posted' \in BOOLEAN
  BY <1>1
<1>3. TypeOK'
  BY <1>1, <1>2 DEF RecordInv, TypeOK
<1> QED BY <1>1, <1>3 DEF RecordInv, StoredInv, ListsInv, DayInv, IsSnapshot

(* A step that lays out the shared list, or puts it in the place of        *)
(* currentList.                                                            *)
LEMMA SharedStep ==
  ASSUME RecordInv, stored' = stored,
         rawDataList' \in {rawDataList, Reverse(rawDataList)}, rows' = rawDataList',
         private' = <<>>, aliased' = TRUE,
         label' = All \/ (label' = label /\ screen' = "slave" /\ finished' = TRUE),
         requests' \in 0..MaxLoads, loads' \in Seq(Load), UNCHANGED <<screen, machine>>,
         opened' \in 0..MaxOpens, loaders' \subseteq SUBSET (1..MaxOpens),
         finished' \in BOOLEAN, spinner' \in 0..4, posted' \in BOOLEAN
  PROVE  RecordInv'
<1>1. /\ rawDataList' \in Seq(Record) /\ Ordered(rawDataList')
      /\ IsSnapshot(rawDataList', stored)
  BY SharedFacts DEF RecordInv
<1>2. aliased' \in BOOLEAN
  OBVIOUS
<1>3. <<>> \in Seq(Record) /\ label' \in Days \cup {All}
  BY DEF RecordInv, TypeOK
<1>4. TypeOK'
  BY <1>1, <1>2, <1>3 DEF RecordInv, TypeOK, Load
<1>5. ListsInv'
  BY <1>1, EmptyOrdered DEF ListsInv
<1>6. DayInv'
  BY DEF DayInv
<1> QED BY <1>1, <1>4, <1>5, <1>6 DEF RecordInv, StoredInv

LEMMA LoaderDoneStep ==
  ASSUME RecordInv, NEW L \in loaders, LoaderDone(L) PROVE RecordInv'
<1> DEFINE list == IF Cardinality(L) % 2 = 1 THEN Reverse(rawDataList) ELSE rawDataList
<1>1. /\ loaders' = loaders \ {L} /\ rawDataList' = list
      /\ UNCHANGED <<stored, screen, machine, opened, label, spinner, posted, loads, requests>>
  BY DEF LoaderDone, netVars
<1>2. list \in {rawDataList, Reverse(rawDataList)}
  OBVIOUS
<1>3. /\ loaders' \subseteq SUBSET (1..MaxOpens)
      /\ requests' \in 0..MaxLoads /\ loads' \in Seq(Load)
      /\ opened' \in 0..MaxOpens /\ spinner' \in 0..4 /\ posted' \in BOOLEAN
  BY <1>1 DEF RecordInv, TypeOK, Load
<1>4. CASE screen = "slave" /\ opened \in L
  <2>1. finished' = TRUE /\ rows' = list /\ aliased' = TRUE /\ private' = <<>>
    BY <1>4 DEF LoaderDone
  <2>2. finished' \in BOOLEAN
    BY <2>1
  <2> HIDE DEF list
  <2> QED BY <1>1, <1>2, <1>3, <1>4, <2>1, <2>2, SharedStep
<1>5. CASE ~(screen = "slave" /\ opened \in L)
  <2>1. UNCHANGED <<finished, rows, aliased, private>>
    BY <1>5 DEF LoaderDone
  <2> HIDE DEF list
  <2>2. rawDataList' \in Seq(Record) /\ IsSnapshot(rawDataList', stored)
    BY <1>1, <1>2, SharedFacts DEF RecordInv
  <2>3. TypeOK'
    BY <1>1, <1>3, <2>1, <2>2 DEF RecordInv, TypeOK, Load
  <2> QED BY <1>1, <2>1, <2>2, <2>3 DEF RecordInv, StoredInv, ListsInv, DayInv
<1> QED BY <1>4, <1>5

LEMMA RecreateStep == ASSUME RecordInv, Recreate PROVE RecordInv'
<1>0. /\ opened \in 0..MaxOpens /\ opened < MaxOpens /\ loaders \subseteq SUBSET (1..MaxOpens)
      /\ screen # "home"
  BY DEF RecordInv, TypeOK, Recreate
<1>1. /\ opened' = opened + 1
      /\ loaders' = {IF opened \in L THEN L \cup {opened + 1} ELSE L : L \in loaders}
      /\ UNCHANGED <<stored, screen, machine, finished, spinner, loads, requests>>
  BY DEF Recreate, netVars
<1>2. opened + 1 \in 0..MaxOpens /\ opened + 1 \in 1..MaxOpens
  BY <1>0, BoundsAssumption
<1>3. loaders' \subseteq SUBSET (1..MaxOpens)
  <2> SUFFICES ASSUME NEW x \in loaders' PROVE x \subseteq 1..MaxOpens
    OBVIOUS
  <2>1. PICK L \in loaders : x = IF opened \in L THEN L \cup {opened + 1} ELSE L
    BY <1>1
  <2> QED BY <1>0, <1>2, <2>1
<1>4. /\ requests' \in 0..MaxLoads /\ loads' \in Seq(Load) /\ opened' \in 0..MaxOpens
      /\ spinner' \in 0..4 /\ finished' \in BOOLEAN
      /\ screen' \in {"home", "slave", "manage"} /\ machine' \in Machines \cup {NoMachine}
      /\ screen' # "home" => machine' \in Machines
  BY <1>1, <1>2 DEF RecordInv, TypeOK, Load
<1>5. CASE finished
  <2>1. /\ rawDataList' = Reverse(rawDataList) /\ rows' = Reverse(rawDataList)
        /\ aliased' = TRUE /\ private' = <<>> /\ label' = All /\ posted' = TRUE
    BY <1>5 DEF Recreate, LayoutShared
  <2>2. posted' \in BOOLEAN
    BY <2>1
  <2> QED BY <1>1, <1>3, <1>4, <2>1, <2>2, SharedStep
<1>6. CASE ~finished
  <2>1. /\ UNCHANGED rawDataList /\ aliased' = FALSE /\ private' = <<>> /\ rows' = <<>>
        /\ label' = All /\ posted' = TRUE
    BY <1>6 DEF Recreate, FreshActivity
  <2>2. posted' \in BOOLEAN /\ aliased' \in BOOLEAN
    BY <2>1
  <2> QED BY <1>1, <1>3, <1>4, <2>1, <2>2, FreshStep
<1> QED BY <1>5, <1>6

LEMMA ReloadStep == ASSUME RecordInv, Reload PROVE RecordInv'
<1>1. /\ Idle /\ LoadRawDataList(machine, 0) /\ label' = All
      /\ rawDataList' = Reverse(rawDataList) /\ rows' = Reverse(rawDataList)
      /\ aliased' = TRUE /\ private' = <<>> /\ spinner' = 0 /\ posted' = (spinner # 0)
      /\ UNCHANGED <<stored, screen, machine, opened, loaders, finished>>
  BY DEF Reload, LayoutShared, SelectFirst, screenVars
<1>2. machine \in Machines
  BY <1>1 DEF Idle, RecordInv
<1>3. requests' \in 0..MaxLoads /\ loads' \in Seq(Load)
  <2>1. 0 \in 0..MaxOpens
    BY BoundsAssumption
  <2> QED BY <1>1, <1>2, <2>1, LoadType
<1>4. posted' \in BOOLEAN
  BY <1>1
<1>5. /\ opened' \in 0..MaxOpens /\ loaders' \subseteq SUBSET (1..MaxOpens)
      /\ finished' \in BOOLEAN
  BY <1>1 DEF RecordInv, TypeOK
<1> QED BY <1>1, <1>3, <1>4, <1>5, SharedStep

LEMMA DayListOfDay ==
  ASSUME RecordInv, NEW day \in Days
  PROVE  LET list == Reverse(DayList(rawDataList, day)) IN
         /\ list \in Seq(Record) /\ Ordered(list) /\ OfDay(list, day)
         /\ ToSet(list) = {r \in ToSet(rawDataList) : Queried(r, day)}
<1> DEFINE s == DayList(rawDataList, day)  list == Reverse(s)
<1>1. /\ rawDataList \in Seq(Record) /\ Ordered(rawDataList)
  BY SharedFacts
<1>2. /\ s \in Seq(Record) /\ Kept(s, rawDataList, Len(rawDataList))
      /\ ToSet(s) = {r \in ToSet(rawDataList) : OnThatDay(r, day)}
  BY <1>1, DayListFacts
<1> HIDE DEF s
<1>3. Ordered(s)
  BY <1>1, <1>2, KeptOrdered
<1>4. list \in Seq(Record) /\ Ordered(list) /\ ToSet(list) = ToSet(s)
  BY <1>2, <1>3, OrderedReverse, ReverseFacts
<1>5. \A r \in ToSet(rawDataList) : r \in Record
  BY <1>1 DEF ToSet
<1>6. ToSet(list) = {r \in ToSet(rawDataList) : Queried(r, day)}
  BY <1>2, <1>4, <1>5, QueriedTest
<1> HIDE DEF list
<1>7. OfDay(list, day)
  BY <1>6 DEF OfDay, ToSet
<1> QED BY <1>4, <1>6, <1>7 DEF list, s

LEMMA OnDateSetStep ==
  ASSUME RecordInv, NEW day \in Days, OnDateSet(day) PROVE RecordInv'
<1> DEFINE list == Reverse(DayList(rawDataList, day))
<1>1. /\ label' = day /\ rows' = list /\ private' = list /\ aliased' = FALSE
      /\ spinner' = 0 /\ posted' = (spinner # 0)
      /\ UNCHANGED <<rawDataList, stored, requests, loads, screen, machine, opened,
                     loaders, finished>>
  BY DEF OnDateSet, LayoutOwn, SelectFirst, netVars, screenVars
<1>2. list \in Seq(Record) /\ Ordered(list) /\ OfDay(list, day)
  BY DayListOfDay
<1> HIDE DEF list
<1>3. aliased' \in BOOLEAN /\ posted' \in BOOLEAN
  BY <1>1
<1>4. TypeOK'
  BY <1>1, <1>2, <1>3 DEF RecordInv, TypeOK
<1>5. ListsInv'
  BY <1>1, <1>2 DEF ListsInv
<1>6. DayInv'
  BY <1>1, <1>2 DEF DayInv
<1> QED BY <1>1, <1>4, <1>5, <1>6 DEF RecordInv, StoredInv, IsSnapshot

(* The current list, and what a filter makes of it.                        *)
LEMMA CurrentFacts ==
  ASSUME RecordInv
  PROVE  /\ currentList \in Seq(Record) /\ Ordered(currentList)
         /\ label # All /\ ~aliased => OfDay(currentList, label)
<1>1. /\ rawDataList \in Seq(Record) /\ Ordered(rawDataList)
      /\ private \in Seq(Record) /\ Ordered(private)
  BY SharedFacts DEF RecordInv, ListsInv, TypeOK
<1> QED BY <1>1 DEF currentList, RecordInv, DayInv

LEMMA FilteredFacts ==
  ASSUME RecordInv, currentList # <<>>
  PROVE  LET list == Reverse(Extremes(spinner, currentList)) IN
         /\ list \in Seq(Record) /\ Ordered(list)
         /\ ToSet(list) = Best(spinner, currentList)
         /\ label # All /\ ~aliased => OfDay(list, label)
<1> DEFINE s == Extremes(spinner, currentList)  list == Reverse(s)
<1>1. currentList \in Seq(Record) /\ Ordered(currentList)
  BY CurrentFacts
<1>2. /\ s \in Seq(Record) /\ Kept(s, currentList, Len(currentList))
      /\ ToSet(s) = Best(spinner, currentList)
  BY <1>1, ExtremesFacts
<1> HIDE DEF s
<1>3. Ordered(s)
  BY <1>1, <1>2, KeptOrdered
<1>4. list \in Seq(Record) /\ Ordered(list) /\ ToSet(list) = ToSet(s)
  BY <1>2, <1>3, OrderedReverse, ReverseFacts
<1>5. ToSet(list) \subseteq ToSet(currentList)
  BY <1>2, <1>4 DEF Best
<1> HIDE DEF list
<1>6. label # All /\ ~aliased => OfDay(list, label)
  BY <1>1, <1>4, <1>5, CurrentFacts, OfDaySet
<1> QED BY <1>2, <1>4, <1>6 DEF list, s

LEMMA OnItemSelectedStep ==
  ASSUME RecordInv, OnItemSelected PROVE RecordInv'
<1>1. /\ posted' = FALSE
      /\ UNCHANGED <<stored, aliased, label, spinner, requests, loads, screen, machine,
                     opened, loaders, finished>>
  BY DEF OnItemSelected, netVars, screenVars
<1>2. posted' \in BOOLEAN
  BY <1>1
<1>3. ASSUME rawDataList' \in Seq(Record), IsSnapshot(rawDataList', stored),
             private' \in Seq(Record), Ordered(private'), rows' \in Seq(Record), Ordered(rows'),
             label # All /\ ~aliased => OfDay(private', label) /\ OfDay(rows', label)
      PROVE  RecordInv'
  <2>1. TypeOK'
    BY <1>1, <1>2, <1>3 DEF RecordInv, TypeOK
  <2>2. ListsInv' /\ DayInv'
    BY <1>1, <1>3 DEF RecordInv, ListsInv, DayInv
  <2> QED BY <1>1, <1>3, <2>1, <2>2 DEF RecordInv, StoredInv
<1>4. /\ rawDataList \in Seq(Record) /\ IsSnapshot(rawDataList, stored)
      /\ private \in Seq(Record) /\ Ordered(private) /\ rows \in Seq(Record) /\ Ordered(rows)
      /\ label # All /\ ~aliased => OfDay(private, label) /\ OfDay(rows, label)
  BY DEF RecordInv, TypeOK, ListsInv, DayInv
<1>5. CASE UNCHANGED <<rawDataList, private, rows>>
  BY <1>3, <1>4, <1>5
<1>6. CASE aliased /\ LayoutShared /\ UNCHANGED private
  BY <1>3, <1>4, <1>6, SharedFacts DEF LayoutShared
<1>7. CASE ~aliased /\ LayoutOwn(private) /\ private' = Reverse(private)
  <2>1. /\ Reverse(private) \in Seq(Record) /\ Ordered(Reverse(private))
        /\ ToSet(Reverse(private)) = ToSet(private)
    BY <1>4, OrderedReverse, ReverseFacts
  <2>2. label # All => OfDay(Reverse(private), label)
    BY <1>4, <1>7, <2>1, OfDaySet
  <2> QED BY <1>3, <1>4, <1>7, <2>1, <2>2 DEF LayoutOwn
<1>8. CASE /\ currentList # <<>> /\ LayoutOwn(Extremes(spinner, currentList))
           /\ UNCHANGED private
  <2> DEFINE list == Reverse(Extremes(spinner, currentList))
  <2>1. /\ list \in Seq(Record) /\ Ordered(list)
        /\ label # All /\ ~aliased => OfDay(list, label)
    BY <1>8, FilteredFacts
  <2>2. rows' = list /\ UNCHANGED rawDataList
    BY <1>8 DEF LayoutOwn
  <2> HIDE DEF list
  <2> QED BY <1>3, <1>4, <1>8, <2>1, <2>2
<1> QED BY <1>5, <1>6, <1>7, <1>8 DEF OnItemSelected

LEMMA RecordStep == ASSUME RecordInv, [Next]_vars PROVE RecordInv'
<1>1. CASE \E m \in Machines : Store(m) \/ OpenSlave(m) \/ OpenManage(m)
  BY <1>1, StoreStep, OpenStep
<1>2. CASE OnDataChange \/ OnCancelled
  BY <1>2, OnDataChangeStep, OnCancelledStep
<1>3. CASE \E L \in loaders : LoaderDone(L)
  BY <1>3, LoaderDoneStep
<1>4. CASE Leave \/ Recreate \/ Reload
  BY <1>4, LeaveStep, RecreateStep, ReloadStep
<1>5. CASE \E day \in Days : OnDateSet(day)
  BY <1>5, OnDateSetStep
<1>6. CASE \E pos \in 0..4 : PickFilter(pos)
  BY <1>6, PickFilterStep
<1>7. CASE OnItemSelected
  BY <1>7, OnItemSelectedStep
<1>8. CASE UNCHANGED vars
  <2>1. TypeOK'
    BY <1>8 DEF vars, RecordInv, TypeOK
  <2> QED BY <1>8, <2>1 DEF vars, RecordInv, StoredInv, IsSnapshot, ListsInv, DayInv
<1> QED BY <1>1, <1>2, <1>3, <1>4, <1>5, <1>6, <1>7, <1>8 DEF Next

-----------------------------------------------------------------------------
LEMMA AlwaysInv == Spec => []RecordInv
<1>1. Init => RecordInv
  BY RecordInit
<1>2. RecordInv /\ [Next]_vars => RecordInv'
  BY RecordStep
<1> QED BY <1>1, <1>2, PTL DEF Spec

(* The fields of the activities and of RawDataManager keep their types.    *)
THEOREM TypeCorrect == Spec => []TypeOK
<1>1. RecordInv => TypeOK
  BY DEF RecordInv
<1> QED BY <1>1, AlwaysInv, PTL

(* The list RawDataManager shares is always what one machine had stored at *)
(* some time, or its reverse: the in-place Collections.reverse of every    *)
(* layoutListView, by however many screens and Loaders, neither loses nor  *)
(* mixes nor shuffles records.                                             *)
THEOREM SharedSnapshot == Spec => []SharedIsSnapshot
<1>1. RecordInv => SharedIsSnapshot
  BY DEF RecordInv, IsSnapshot, SharedIsSnapshot
<1> QED BY <1>1, AlwaysInv, PTL

(* What a screen shows (layoutListView) is of one machine and in the order *)
(* of the keys, one way or the other, under every filter and date, whatever*)
(* the timestamps in the records and whatever records were replaced.       *)
THEOREM ScreenSorted == Spec => []RowsSorted
<1>1. ASSUME RecordInv PROVE RowsSorted
  <2>1. Ordered(rows)
    BY <1>1 DEF RecordInv, ListsInv
  <2>2. Sorted(rows) \/ Sorted(Reverse(rows))
    BY <2>1, FallingReverse DEF Ordered
  <2> QED BY <2>1, <2>2 DEF RowsSorted, Ordered, OneMachine
<1> QED BY <1>1, AlwaysInv, PTL

(* Once onDateSet has picked a day, only records of that calendar day, and *)
(* of the odd hour after a short one, are shown until reload(), unless a   *)
(* Loader's Listener replaces the list.                                    *)
THEOREM DayViewKept == Spec => []DayView
<1>1. ASSUME RecordInv PROVE DayView
  <2>1. DayInv
    BY <1>1 DEF RecordInv
  <2> QED BY <2>1 DEF DayInv, DayView, OfDay
<1> QED BY <1>1, AlwaysInv, PTL

(* onDateSet shows all the loaded records of the calendar day and no other *)
(* one, its first and last second included, except in the odd hour of a    *)
(* day that has not 86400 seconds, for any calendar.                       *)
THEOREM DateQueryShowsTheDay == Spec => DateQueryExact
<1>1. ASSUME RecordInv, NEW day \in Days, OnDateSet(day)
      PROVE  ToSet(rows') = {r \in ToSet(rawDataList) : Queried(r, day)}
  <2>1. rows' = Reverse(DayList(rawDataList, day))
    BY <1>1 DEF OnDateSet, LayoutOwn
  <2> QED BY <1>1, <2>1, DayListOfDay
<1>2. RecordInv /\ [Next]_vars =>
        [\A day \in Days : OnDateSet(day) =>
           ToSet(rows') = {r \in ToSet(rawDataList) : Queried(r, day)}]_vars
  BY <1>1
<1> QED BY <1>2, AlwaysInv, PTL DEF Spec, DateQueryExact

(* A list in the order of the keys has each of its records once.           *)
LEMMA OrderedOnce ==
  ASSUME NEW s, Ordered(s) PROVE Len(s) = Cardinality(ToSet(s))
<1> DEFINE n == Len(s)  T == ToSet(s)
<1>1. s \in Seq(Record) /\ n \in Nat /\ DOMAIN s = 1..n
  BY DEF Ordered
<1>2. \A i \in 1..n : s[i].key \in Nat
  BY <1>1, RecordFields
<1>3. ASSUME NEW i \in 1..n, NEW j \in 1..n, s[i] = s[j] PROVE i = j
  <2>1. CASE i < j
    BY <1>1, <1>2, <1>3, <2>1 DEF Ordered, Sorted, Falling
  <2>2. CASE j < i
    BY <1>1, <1>2, <1>3, <2>2 DEF Ordered, Sorted, Falling
  <2> QED BY <1>1, <2>1, <2>2
<1>4. T = {s[i] : i \in 1..n}
  BY <1>1 DEF ToSet
<1> HIDE DEF T
<1>5. s \in [1..n -> T]
  BY <1>1, <1>4
<1>6. s \in Injection(1..n, T)
  BY <1>1, <1>3, <1>5 DEF Injection, IsInjective
<1>7. s \in Surjection(1..n, T)
  BY <1>4, <1>5 DEF Surjection
<1>8. IsFiniteSet(1..n) /\ Cardinality(1..n) = n
  BY <1>1, FS_Interval
<1>9. Cardinality(T) = Cardinality(1..n)
  BY <1>6, <1>7, <1>8, FS_Surjection
<1> QED BY <1>8, <1>9 DEF T

(* A filter of onItemSelected shows exactly the records of the current     *)
(* list that no other one beats, each once.                                *)
THEOREM FilterShowsTheBest == Spec => FilterExact
<1> DEFINE Chosen == OnItemSelected /\ spinner # 0 /\ currentList # <<>>
<1>1. ASSUME RecordInv, Chosen
      PROVE  /\ ToSet(rows') = Best(spinner, currentList)
             /\ Len(rows') = Cardinality(Best(spinner, currentList))
  <2>1. rows' = Reverse(Extremes(spinner, currentList))
    BY <1>1 DEF OnItemSelected, LayoutOwn
  <2>2. Ordered(rows') /\ ToSet(rows') = Best(spinner, currentList)
    BY <1>1, <2>1, FilteredFacts
  <2>3. Len(rows') = Cardinality(ToSet(rows'))
    BY <2>2, OrderedOnce
  <2> QED BY <2>2, <2>3
<1>2. RecordInv /\ [Next]_vars =>
        [(OnItemSelected /\ spinner # 0 /\ currentList # <<>>) =>
           LET best == {r \in ToSet(currentList) : \A x \in ToSet(currentList) :
                          ~Beats(spinner, Key(spinner, x), Key(spinner, r))} IN
           ToSet(rows') = best /\ Len(rows') = Cardinality(best)]_vars
  BY <1>1 DEF Best
<1> QED BY <1>2, AlwaysInv, PTL DEF Spec, FilterExact

=============================================================================
