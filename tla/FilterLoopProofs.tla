-------------------------- MODULE FilterLoopProofs --------------------------
(***************************************************************************)
(* The filter loop is correct for lists of every length and all values.    *)
(***************************************************************************)
EXTENDS FilterLoop, TLAPS

(* The loop invariant: base is the best of the values seen so far and the  *)
(* first one; kept are the positions seen that have it, in order.          *)
LoopInv ==
  /\ pos \in 1..4 /\ values \in Seq(Int) /\ values # <<>>
  /\ i \in 1..(Len(values) + 1) /\ base \in Int /\ kept \in Seq(Int)
  /\ i = 1 => base = values[1]
  /\ \A j \in 1..(i - 1) : ~Beats(values[j], base)
  /\ \E j \in 1..Len(values) : values[j] = base
  /\ i > 1 => \E j \in 1..(i - 1) : values[j] = base
  /\ \A k \in 1..Len(kept) : kept[k] \in 1..(i - 1) /\ values[kept[k]] = base
  /\ \A j \in 1..(i - 1) : values[j] = base => \E k \in 1..Len(kept) : kept[k] = j
  /\ \A k \in 1..(Len(kept) - 1) : kept[k] < kept[k + 1]

(* Beats is a strict total order of the integers.                          *)
LEMMA BeatsOrder ==
  ASSUME pos \in 1..4
  PROVE  /\ \A a \in Int : ~Beats(a, a)
         /\ \A a, b, c \in Int : ~Beats(a, b) /\ ~Beats(b, c) => ~Beats(a, c)
         /\ \A a, b \in Int : Beats(a, b) => ~Beats(b, a) /\ a # b
         /\ \A a, b \in Int : ~Beats(a, b) /\ ~Beats(b, a) => a = b
BY DEF Beats

(* The invariant holds before the first iteration.                         *)
LEMMA LoopInit == ASSUME Init PROVE LoopInv
<1>1. values \in Seq(Int) /\ values # <<>> /\ Len(values) \in Nat \ {0}
  BY ListsAssumption DEF Init
<1>2. values[1] \in Int
  BY <1>1
<1> QED BY <1>1, <1>2 DEF Init, LoopInv

(* Each kind of iteration keeps it.                                        *)
LEMMA LoopStep == ASSUME LoopInv, [Next]_vars PROVE LoopInv'
<1> DEFINE n == Len(values)
<1>0. /\ pos \in 1..4 /\ values \in Seq(Int) /\ values # <<>> /\ n \in Nat
      /\ i \in 1..(n + 1) /\ base \in Int /\ kept \in Seq(Int)
      /\ Len(kept) \in Nat
      /\ \A j \in 1..n : values[j] \in Int
  BY DEF LoopInv
<1>b. /\ \A a \in Int : ~Beats(a, a)
      /\ \A a, b, c \in Int : ~Beats(a, b) /\ ~Beats(b, c) => ~Beats(a, c)
      /\ \A a, b \in Int : Beats(a, b) => ~Beats(b, a) /\ a # b
  BY <1>0, BeatsOrder
<1>d. \A j \in 1..(i - 1) : ~Beats(values[j], base)
  BY DEF LoopInv
<1>1. CASE Better
  <2>1. /\ i \in 1..n /\ values[i] \in Int /\ Beats(values[i], base)
        /\ base' = values[i] /\ i' = i + 1
        /\ pos' = pos /\ values' = values
        /\ kept' = <<i>>
    BY <1>0, <1>1 DEF Better
  <2>2. Len(kept') = 1 /\ kept'[1] = i /\ kept' \in Seq(Int)
    BY <1>0, <2>1
  <2>3. ASSUME NEW j \in 1..i PROVE ~Beats(values[j], values[i])
    <3>1. CASE j = i
      BY <1>b, <2>1, <3>1
    <3>2. CASE j # i
      <4>1. j \in 1..(i - 1) /\ values[j] \in Int
        BY <1>0, <2>1, <3>2
      <4>2. ~Beats(values[j], base) /\ ~Beats(base, values[i])
        BY <1>0, <1>b, <1>d, <2>1, <4>1
      <4> QED BY <1>0, <1>b, <2>1, <4>1, <4>2
    <3> QED BY <3>1, <3>2
  <2>4. ASSUME NEW j \in 1..i, values[j] = values[i] PROVE j = i
    BY <1>0, <1>b, <2>1, <2>4 DEF LoopInv
  <2>5. \A j \in 1..(i' - 1) : ~Beats(values[j], base)'
    BY <1>0, <2>1, <2>3 DEF Beats
  <2>6. \A k \in 1..Len(kept') : kept'[k] \in 1..(i' - 1) /\ values'[kept'[k]] = base'
    BY <1>0, <2>1, <2>2
  <2>7. \A j \in 1..(i' - 1) : values'[j] = base' => \E k \in 1..Len(kept') : kept'[k] = j
    BY <1>0, <2>1, <2>2, <2>4
  <2>8. /\ \E j \in 1..Len(values') : values'[j] = base'
        /\ \E j \in 1..(i' - 1) : values'[j] = base'
        /\ i' \in 1..(Len(values') + 1) /\ i' # 1
    BY <1>0, <2>1
  <2>9. \A k \in 1..(Len(kept') - 1) : kept'[k] < kept'[k + 1]
    BY <2>2
  <2> QED BY <1>0, <2>1, <2>2, <2>5, <2>6, <2>7, <2>8, <2>9 DEF LoopInv
<1>2. CASE Equal
  <2>1. /\ i \in 1..n /\ values[i] = base /\ i' = i + 1
        /\ pos' = pos /\ values' = values /\ base' = base
        /\ kept' = Append(kept, i)
    BY <1>0, <1>2 DEF Equal
  <2>2. /\ kept' \in Seq(Int) /\ Len(kept') = Len(kept) + 1
        /\ kept'[Len(kept) + 1] = i
        /\ \A k \in 1..Len(kept) : kept'[k] = kept[k]
    BY <1>0, <2>1
  <2>3. \A k \in 1..Len(kept) : kept[k] \in 1..(i - 1) /\ values[kept[k]] = base
    BY DEF LoopInv
  <2>4. \A k \in 1..Len(kept') : kept'[k] \in 1..(i' - 1) /\ values'[kept'[k]] = base'
    BY <1>0, <2>1, <2>2, <2>3
  <2>5. ASSUME NEW j \in 1..(i' - 1), values'[j] = base'
        PROVE  \E k \in 1..Len(kept') : kept'[k] = j
    <3>1. CASE j = i
      <4>1. Len(kept) + 1 \in 1..Len(kept')
        BY <1>0, <2>2
      <4> QED BY <2>2, <3>1, <4>1
    <3>2. CASE j # i
      <4>1. j \in 1..(i - 1) /\ values[j] = base
        BY <1>0, <2>1, <2>5, <3>2
      <4>2. PICK k \in 1..Len(kept) : kept[k] = j
        BY <4>1 DEF LoopInv
      <4>3. k \in 1..Len(kept') /\ kept'[k] = j
        BY <1>0, <2>2, <4>2
      <4> QED BY <4>3
    <3> QED BY <3>1, <3>2
  <2>6. ASSUME NEW k \in 1..(Len(kept') - 1) PROVE kept'[k] < kept'[k + 1]
    <3>1. CASE k = Len(kept)
      BY <1>0, <2>1, <2>2, <2>3, <3>1
    <3>2. CASE k # Len(kept)
      <4>1. k \in 1..(Len(kept) - 1) /\ k + 1 \in 1..Len(kept)
        BY <1>0, <2>2, <3>2
      <4>2. kept[k] < kept[k + 1]
        BY <4>1 DEF LoopInv
      <4> QED BY <1>0, <2>2, <4>1, <4>2
    <3> QED BY <3>1, <3>2
  <2>7. \A j \in 1..(i' - 1) : ~Beats(values[j], base)'
    <3>1. ASSUME NEW j \in 1..i PROVE ~Beats(values[j], base)
      <4>1. j = i \/ j \in 1..(i - 1)
        BY <1>0
      <4> QED BY <1>0, <1>b, <1>d, <2>1, <4>1
    <3> QED BY <1>0, <2>1, <3>1 DEF Beats
  <2>8. /\ \E j \in 1..Len(values') : values'[j] = base'
        /\ \E j \in 1..(i' - 1) : values'[j] = base'
        /\ i' \in 1..(Len(values') + 1) /\ i' # 1
    BY <1>0, <2>1
  <2> QED BY <1>0, <2>1, <2>2, <2>4, <2>5, <2>6, <2>7, <2>8 DEF LoopInv
<1>3. CASE Worse
  <2>1. /\ i \in 1..n /\ Beats(base, values[i]) /\ i' = i + 1
        /\ pos' = pos /\ values' = values /\ base' = base /\ kept' = kept
    BY <1>0, <1>3 DEF Worse
  <2>2. ~Beats(values[i], base) /\ values[i] # base
    BY <1>0, <1>b, <2>1
  <2>3. i # 1
    BY <2>2 DEF LoopInv
  <2>4. \A j \in 1..(i' - 1) : ~Beats(values[j], base)'
    <3>1. ASSUME NEW j \in 1..i PROVE ~Beats(values[j], base)
      <4>1. j = i \/ j \in 1..(i - 1)
        BY <1>0
      <4> QED BY <1>d, <2>2, <4>1
    <3> QED BY <1>0, <2>1, <3>1 DEF Beats
  <2>5. \A j \in 1..(i' - 1) : values'[j] = base' => \E k \in 1..Len(kept') : kept'[k] = j
    <3>1. \A j \in 1..(i' - 1) : values[j] = base => j \in 1..(i - 1)
      BY <1>0, <2>1, <2>2
    <3> QED BY <2>1, <3>1 DEF LoopInv
  <2>6. \A k \in 1..Len(kept) : kept[k] \in 1..(i' - 1) /\ values[kept[k]] = base
    BY <1>0, <2>1 DEF LoopInv
  <2>7. \E j \in 1..(i' - 1) : values[j] = base
    BY <1>0, <2>1, <2>3 DEF LoopInv
  <2>8. /\ \E j \in 1..n : values[j] = base
        /\ \A k \in 1..(Len(kept) - 1) : kept[k] < kept[k + 1]
    BY DEF LoopInv
  <2>9. i' \in 1..(Len(values') + 1) /\ i' # 1
    BY <1>0, <2>1
  <2> QED BY <1>0, <2>1, <2>4, <2>5, <2>6, <2>7, <2>8, <2>9 DEF LoopInv
<1>4. CASE UNCHANGED vars
  BY <1>4 DEF vars, LoopInv, Beats
<1> QED BY <1>1, <1>2, <1>3, <1>4 DEF Next

(* The one pass over the list, which compares each record only with the    *)
(* best so far, keeps exactly the extreme records, for every list.         *)
THEOREM FilterCorrect == Spec => []KeptExact
<1>1. LoopInv => KeptExact
  <2> SUFFICES ASSUME LoopInv, i > Len(values)
               PROVE  /\ {kept[k] : k \in 1..Len(kept)} =
                           {j \in 1..Len(values) :
                              \A l \in 1..Len(values) : ~Beats(values[l], values[j])}
                      /\ \A k \in 1..(Len(kept) - 1) : kept[k] < kept[k + 1]
    BY DEF KeptExact
  <2>1. /\ i - 1 = Len(values) /\ i > 1 /\ base \in Int /\ Len(values) \in Nat
        /\ pos \in 1..4 /\ \A l \in 1..Len(values) : values[l] \in Int
    <3>1. /\ values \in Seq(Int) /\ values # <<>> /\ i \in 1..(Len(values) + 1)
          /\ base \in Int /\ pos \in 1..4
      BY DEF LoopInv
    <3> QED BY <3>1
  <2>2. PICK b \in 1..Len(values) : values[b] = base
    BY DEF LoopInv
  <2>3. \A l \in 1..Len(values) : ~Beats(values[l], base)
    BY <2>1 DEF LoopInv
  <2>4. ASSUME NEW j \in 1..Len(values),
               \A l \in 1..Len(values) : ~Beats(values[l], values[j])
        PROVE  values[j] = base
    <3>1. ~Beats(values[b], values[j]) /\ ~Beats(values[j], base)
      BY <2>3, <2>4
    <3>2. values[j] \in Int /\ values[b] = base
      BY <2>1, <2>2
    <3> QED BY <2>1, <3>1, <3>2 DEF Beats
  <2>5. ASSUME NEW k \in 1..Len(kept)
        PROVE  /\ kept[k] \in 1..Len(values)
               /\ \A l \in 1..Len(values) : ~Beats(values[l], values[kept[k]])
    <3>1. kept[k] \in 1..Len(values) /\ values[kept[k]] = base
      BY <2>1 DEF LoopInv
    <3> QED BY <2>3, <3>1
  <2>6. ASSUME NEW j \in 1..Len(values), values[j] = base
        PROVE  \E k \in 1..Len(kept) : kept[k] = j
    BY <2>1, <2>6 DEF LoopInv
  <2>7. {kept[k] : k \in 1..Len(kept)} =
          {j \in 1..Len(values) :
             \A l \in 1..Len(values) : ~Beats(values[l], values[j])}
    BY <2>4, <2>5, <2>6
  <2> QED BY <2>7 DEF LoopInv
<1> QED BY <1>1, LoopInit, LoopStep, PTL DEF Spec

=============================================================================
