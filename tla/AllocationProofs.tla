-------------------------- MODULE AllocationProofs --------------------------
(***************************************************************************)
(* Theorems about Allocation, for every total of the integer type and      *)
(* every list of weights: the loops of allocate neither lose a unit nor    *)
(* depart from the largest-remainder method.                               *)
(***************************************************************************)
EXTENDS Allocation, MoneyProofs

-----------------------------------------------------------------------------
(***************************************************************************)
(* The inductive invariant, by the loops: the first one sums the weights,  *)
(* the second has divided the parts below i, the third has handed i - 1    *)
(* units of the leftover to the first parts in order.                      *)
(***************************************************************************)
Given(k) ==
    [j \in Parts |-> IF Cardinality(Ahead(j)) < k THEN FloorShares(Magnitude, eff)[j] + 1
                     ELSE FloorShares(Magnitude, eff)[j]]

Summing ==
    pc = "sum" =>
      /\ i <= Len(weights) + 1 /\ eff = weights
      /\ \A j \in 1 .. i - 1 : weights[j] >= 0
      /\ sum = SumOf([j \in 1 .. i - 1 |-> weights[j]])
      /\ share = Zeros /\ rem = Zeros /\ allocated = 0

Weighed ==
    pc \in {"divide", "hand", "done"} =>
      /\ Len(weights) > 0
      /\ eff \in [Parts -> Nat] /\ eff = Effective(weights)
      /\ sum = SumOf(eff) /\ sum > 0

Dividing ==
    pc = "divide" =>
      /\ i <= Len(weights) + 1
      /\ share = [j \in Parts |-> IF j < i THEN FloorShares(Magnitude, eff)[j] ELSE 0]
      /\ rem = [j \in Parts |-> IF j < i THEN Remainders(Magnitude, eff)[j] ELSE 0]
      /\ allocated = SumOf(share)

Divided ==
    pc \in {"hand", "done"} =>
      rem = Remainders(Magnitude, eff) /\ allocated = SumOf(FloorShares(Magnitude, eff))

Handing ==
    pc = "hand" =>
      /\ order = Sorted
      /\ i <= Leftover + 1
      /\ share = Given(i - 1)
      /\ SumOf(share) = allocated + (i - 1)

Signed ==
    pc = "done" =>
      /\ share = Given(Leftover)
      /\ SumOf(share) = Magnitude
      /\ result = [j \in Parts |-> IF total < 0 THEN -share[j] ELSE share[j]]

Inv == TypeOK /\ Summing /\ Weighed /\ Dividing /\ Divided /\ Handing /\ Signed

\* What the assumptions and the type invariant say of the arguments.
LEMMA Arguments ==
    ASSUME total \in Totals, weights \in WeightSeqs
    PROVE  /\ total \in Int64 /\ total \in Int
           /\ Len(weights) \in Nat /\ weights \in [Parts -> Int]
           /\ Magnitude \in Nat /\ Magnitude = Abs(total)
<1>1. total \in Int64 /\ total \in Int
  BY TotalsAssumption, MaxIntAssumption DEF Int64, MinInt
<1>2. weights \in Seq(Int)
  BY WeightsAssumption
<1>3. Len(weights) \in Nat /\ weights \in [1 .. Len(weights) -> Int]
  BY <1>2
<1> QED
  BY <1>1, <1>3 DEF Parts, Magnitude, Abs

\* The sort has one outcome: its k-th part is the one with k - 1 ahead.
LEMMA SortedIs ==
    ASSUME Len(weights) \in Nat, rem \in [Parts -> Nat]
    PROVE  /\ Sorted \in [Parts -> Parts]
           /\ \A k, j \in Parts : Sorted[k] = j <=> Cardinality(Ahead(j)) = k - 1
<1> DEFINE n == Len(weights)
<1>1. n \in Nat /\ rem \in [1 .. n -> Int] /\ Parts = 1 .. n
  BY DEF Parts
<1>2. \A j \in Parts : Ahead(j) = Precede(rem, j)
  BY DEF Ahead, Precede
<1> HIDE DEF n
<1>3. ASSUME NEW k \in Parts PROVE \E j \in Parts : Cardinality(Ahead(j)) = k - 1
  <2>1. k - 1 \in 0 .. n - 1
    BY <1>1
  <2>2. \E j \in 1 .. n : Cardinality(Precede(rem, j)) = k - 1
    BY <1>1, <2>1, RankTaken
  <2> QED
    BY <1>1, <1>2, <2>2
<1>4. ASSUME NEW j \in Parts, NEW x \in Parts,
             Cardinality(Ahead(j)) = Cardinality(Ahead(x))
      PROVE  j = x
  BY <1>1, <1>2, <1>4, RankApart
<1>5. \A k \in Parts : Sorted[k] \in Parts /\ Cardinality(Ahead(Sorted[k])) = k - 1
  BY <1>3 DEF Sorted
<1>6. Sorted = [k \in Parts |-> Sorted[k]]
  BY DEF Sorted
<1> QED
  BY <1>4, <1>5, <1>6

LEMMA InitInv == Init => Inv
<1> SUFFICES ASSUME Init PROVE Inv
  OBVIOUS
<1>1. /\ total \in Totals /\ weights \in WeightSeqs /\ pc = "sum" /\ i = 1 /\ sum = 0
      /\ eff = weights /\ share = Zeros /\ rem = Zeros /\ allocated = 0
      /\ order = Zeros /\ result = Zeros
  BY DEF Init
<1>2. Len(weights) \in Nat /\ weights \in [Parts -> Int]
  BY <1>1, Arguments
<1>3. 0 \in Int64
  BY MaxIntAssumption DEF Int64, MinInt
<1>4. TypeOK
  BY <1>1, <1>2, <1>3 DEF TypeOK, Zeros
<1>5. SumOf([j \in 1 .. 0 |-> weights[j]]) = 0
  <2>1. [j \in 1 .. 0 |-> weights[j]] \in [1 .. 0 -> Int]
    OBVIOUS
  <2> QED
    BY <2>1, SumOfNone
<1>6. Summing
  BY <1>1, <1>2, <1>5 DEF Summing
<1> QED
  BY <1>1, <1>4, <1>6 DEF Inv, Weighed, Dividing, Divided, Handing, Signed

LEMMA RefuseInv == Inv /\ Refuse => Inv'
  BY DEF Inv, Refuse, TypeOK, args, Parts, Summing, Weighed, Dividing, Divided, Handing, Signed

LEMMA AddWeightInv == Inv /\ AddWeight => Inv'
<1> SUFFICES ASSUME Inv, AddWeight PROVE Inv'
  OBVIOUS
<1>1. /\ pc = "sum" /\ i \in Parts /\ weights[i] >= 0 /\ sum' = sum + weights[i] /\ i' = i + 1
      /\ UNCHANGED <<total, weights, pc, eff, share, rem, allocated, order, result>>
  BY DEF AddWeight, args
<1>2. TypeOK /\ Summing
  BY DEF Inv
<1>3. Len(weights) \in Nat /\ weights \in [1 .. Len(weights) -> Int] /\ i \in 1 .. Len(weights)
  BY <1>1, <1>2, Arguments DEF TypeOK, Parts
<1>4. weights[i] \in Nat
  BY <1>1, <1>3
<1>5. TypeOK'
  BY <1>1, <1>2, <1>4 DEF TypeOK, Parts
<1>6. sum' = SumOf([j \in 1 .. i' - 1 |-> weights[j]])
  <2>1. SumOf([j \in 1 .. i |-> weights[j]])
          = SumOf([j \in 1 .. i - 1 |-> weights[j]]) + weights[i]
    BY <1>3, SumOfNext
  <2>2. i' - 1 = i
    BY <1>1, <1>3
  <2> QED
    BY <1>1, <1>2, <2>1, <2>2 DEF Summing
<1>7. \A j \in 1 .. i' - 1 : weights[j] >= 0
  BY <1>1, <1>2, <1>3 DEF Summing
<1>8. i' <= Len(weights) + 1 /\ eff = weights /\ share = Zeros /\ rem = Zeros /\ allocated = 0
  BY <1>1, <1>2, <1>3 DEF Summing
<1>9. Summing'
  BY <1>1, <1>6, <1>7, <1>8 DEF Summing, Zeros, Parts
<1> QED
  BY <1>1, <1>5, <1>9 DEF Inv, Weighed, Dividing, Divided, Handing, Signed

LEMMA NormaliseInv == Inv /\ Normalise => Inv'
<1> SUFFICES ASSUME Inv, Normalise PROVE Inv'
  OBVIOUS
<1> DEFINE n == Len(weights)
<1>1. /\ pc = "sum" /\ n > 0 /\ i > n /\ pc' = "divide" /\ i' = 1
      /\ UNCHANGED <<total, weights, share, rem, allocated, order, result>>
  BY DEF Normalise, args
<1>2. TypeOK /\ Summing
  BY DEF Inv
<1>3. n \in Nat /\ weights \in [1 .. n -> Int] /\ Parts = 1 .. n
  BY <1>2, Arguments DEF TypeOK, Parts
<1>4. i = n + 1 /\ eff = weights /\ share = Zeros /\ rem = Zeros /\ allocated = 0
  BY <1>1, <1>2, <1>3 DEF Summing, TypeOK
<1>5. weights \in [1 .. n -> Nat]
  BY <1>1, <1>2, <1>3, <1>4 DEF Summing
<1>6. sum = SumOf(weights)
  <2>1. [j \in 1 .. i - 1 |-> weights[j]] = weights
    BY <1>3, <1>4
  <2> QED
    BY <1>1, <1>2, <2>1 DEF Summing
<1>7. sum \in Nat
  BY <1>2 DEF TypeOK
<1>8. eff' \in [1 .. n -> Nat] /\ eff' = Effective(weights) /\ sum' = SumOf(eff') /\ sum' > 0
      /\ sum' \in Nat
  <2>1. CASE sum > 0
    <3>1. eff' = eff /\ sum' = sum
      BY <2>1 DEF Normalise
    <3>2. Effective(weights) = weights
      BY <1>6, <2>1 DEF Effective
    <3> QED
      BY <1>4, <1>5, <1>6, <1>7, <2>1, <3>1, <3>2
  <2>2. CASE sum = 0
    <3>1. eff' = [j \in 1 .. n |-> 1] /\ sum' = n
      BY <1>3, <2>2 DEF Normalise
    <3>2. Effective(weights) = [j \in 1 .. n |-> 1]
      BY <1>3, <1>6, <2>2 DEF Effective
    <3>3. SumOf([j \in 1 .. n |-> 1]) = n
      BY <1>3, SumOfOnes
    <3> QED
      BY <1>1, <1>3, <3>1, <3>2, <3>3
  <2> QED
    BY <1>7, <2>1, <2>2
<1>9. TypeOK'
  BY <1>1, <1>2, <1>3, <1>8 DEF TypeOK, Parts
<1>10. Weighed'
  BY <1>1, <1>3, <1>8 DEF Weighed, Parts
<1>11. SumOf(Zeros) = 0
  <2>1. SumOf([j \in 1 .. n |-> 0]) = 0
    BY <1>3, SumOfZeros
  <2> QED
    BY <1>3, <2>1 DEF Zeros
<1>12. Dividing'
  <2>1. \A j \in Parts : ~(j < 1)
    BY <1>3
  <2>2. /\ share = [j \in Parts |-> IF j < 1 THEN FloorShares(Magnitude', eff')[j] ELSE 0]
        /\ rem = [j \in Parts |-> IF j < 1 THEN Remainders(Magnitude', eff')[j] ELSE 0]
    BY <1>4, <2>1 DEF Zeros
  <2>3. allocated = SumOf(share) /\ 1 <= n + 1
    BY <1>3, <1>4, <1>11
  <2> QED
    BY <1>1, <2>2, <2>3 DEF Dividing, Parts
<1> QED
  BY <1>1, <1>9, <1>10, <1>12 DEF Inv, Summing, Divided, Handing, Signed

\* What the loops work with: the weights in effect, their sum, and the floors
\* and remainders the second loop computes.
LEMMA Settled ==
    ASSUME TypeOK, Weighed, pc \in {"divide", "hand", "done"}
    PROVE  /\ Len(weights) \in Nat /\ Len(weights) > 0 /\ Parts = 1 .. Len(weights)
           /\ Magnitude \in Nat /\ eff \in [1 .. Len(weights) -> Nat] /\ SumOf(eff) > 0
           /\ FloorShares(Magnitude, eff) \in [1 .. Len(weights) -> Nat]
           /\ Remainders(Magnitude, eff) \in [1 .. Len(weights) -> Nat]
           /\ SumOf(FloorShares(Magnitude, eff)) \in Nat
           /\ Magnitude - SumOf(FloorShares(Magnitude, eff)) \in 0 .. Len(weights) - 1
           /\ Magnitude - SumOf(FloorShares(Magnitude, eff))
                <= Cardinality(Live(Len(weights), Remainders(Magnitude, eff)))
<1>1. Len(weights) \in Nat /\ Magnitude \in Nat
  BY Arguments DEF TypeOK
<1>2. /\ Len(weights) > 0 /\ Parts = 1 .. Len(weights)
      /\ eff \in [1 .. Len(weights) -> Nat] /\ SumOf(eff) > 0
  BY DEF Weighed, Parts
<1> QED
  BY <1>1, <1>2, LeftoverBound

LEMMA DivideInv == Inv /\ Divide => Inv'
<1> SUFFICES ASSUME Inv, Divide PROVE Inv'
  OBVIOUS
<1> DEFINE n == Len(weights)
           f == FloorShares(Magnitude, eff)
           r == Remainders(Magnitude, eff)
<1>1. /\ pc = "divide" /\ i \in Parts /\ i' = i + 1
      /\ share' = [share EXCEPT ![i] = (Magnitude * eff[i]) \div sum]
      /\ rem' = [rem EXCEPT ![i] = (Magnitude * eff[i]) % sum]
      /\ allocated' = allocated + share'[i]
      /\ UNCHANGED <<total, weights, pc, sum, eff, order, result>>
  BY DEF Divide, args
<1>2. TypeOK /\ Weighed /\ Dividing
  BY DEF Inv
<1>3. /\ n \in Nat /\ Parts = 1 .. n /\ f \in [1 .. n -> Nat] /\ r \in [1 .. n -> Nat]
      /\ eff \in [1 .. n -> Nat]
  BY <1>1, <1>2, Settled
<1>4. i \in 1 .. n
  BY <1>1, <1>3
<1>5. share'[i] = f[i] /\ rem'[i] = r[i]
  <2>1. sum = SumOf(eff) /\ DOMAIN eff = 1 .. n
    BY <1>1, <1>2, <1>3 DEF Weighed
  <2>2. f[i] = (Magnitude * eff[i]) \div sum /\ r[i] = (Magnitude * eff[i]) % sum
    BY <1>4, <2>1 DEF FloorShares, Remainders
  <2>3. share \in [1 .. n -> Nat] /\ rem \in [1 .. n -> Nat]
    BY <1>2, <1>3 DEF TypeOK
  <2> QED
    BY <1>1, <1>4, <2>2, <2>3
<1> HIDE DEF f, r
<1>6. /\ share' = [share EXCEPT ![i] = f[i]] /\ rem' = [rem EXCEPT ![i] = r[i]]
      /\ allocated' = allocated + f[i]
  <2>1. share \in [1 .. n -> Nat] /\ rem \in [1 .. n -> Nat]
    BY <1>2, <1>3 DEF TypeOK
  <2>2. \A g, x, y : (g = [share EXCEPT ![i] = x] /\ g[i] = y) => g = [share EXCEPT ![i] = y]
    BY <1>4, <2>1
  <2>3. \A g, x, y : (g = [rem EXCEPT ![i] = x] /\ g[i] = y) => g = [rem EXCEPT ![i] = y]
    BY <1>4, <2>1
  <2> QED
    BY <1>1, <1>5, <2>2, <2>3
<1>7. share \in [1 .. n -> Nat] /\ rem \in [1 .. n -> Nat]
  BY <1>2, <1>3 DEF TypeOK
<1>8. /\ share = [j \in 1 .. n |-> IF j < i THEN f[j] ELSE 0]
      /\ rem = [j \in 1 .. n |-> IF j < i THEN r[j] ELSE 0]
      /\ allocated = SumOf(share) /\ allocated \in Nat
  BY <1>1, <1>2, <1>3 DEF Dividing, TypeOK, f, r
<1>9. TypeOK'
  <2>1. share' \in [1 .. n -> Nat] /\ rem' \in [1 .. n -> Nat]
    BY <1>1, <1>3, <1>4, <1>6, <1>7
  <2>2. allocated' \in Nat /\ i' \in Nat /\ i' # 0
    <3>1. f[i] \in Nat /\ i \in Nat
      BY <1>3, <1>4
    <3>2. allocated + f[i] \in Nat /\ i + 1 \in Nat /\ i + 1 # 0
      BY <1>8, <3>1
    <3> QED
      BY <1>1, <1>6, <3>2
  <2>3. /\ total' = total /\ weights' = weights /\ pc' = pc /\ sum' = sum /\ eff' = eff
        /\ order' = order /\ result' = result /\ Parts' = Parts
    BY <1>1 DEF Parts
  <2> QED
    BY <1>2, <1>3, <2>1, <2>3, <2>2 DEF TypeOK
<1>10. SumOf(share') = allocated'
  <2>1. share \in [1 .. n -> Int] /\ f[i] \in Int /\ share[i] = 0
    BY <1>3, <1>4, <1>8
  <2>2. SumOf([share EXCEPT ![i] = f[i]]) = SumOf(share) + (f[i] - share[i])
    BY <1>3, <1>4, <2>1, SumOfUpdate
  <2> QED
    BY <1>6, <1>8, <2>1, <2>2
<1>11. /\ share' = [j \in 1 .. n |-> IF j < i' THEN f[j] ELSE 0]
       /\ rem' = [j \in 1 .. n |-> IF j < i' THEN r[j] ELSE 0]
  <2>1. i' = i + 1 /\ \A j \in 1 .. n : j < i' <=> (j < i \/ j = i)
    BY <1>1, <1>4
  <2>2. share' = [j \in 1 .. n |-> IF j = i THEN f[i] ELSE share[j]]
    BY <1>6, <1>7
  <2>3. rem' = [j \in 1 .. n |-> IF j = i THEN r[i] ELSE rem[j]]
    BY <1>6, <1>7
  <2>4. \A j \in 1 .. n : share'[j] = IF j < i' THEN f[j] ELSE 0
    BY <1>8, <2>1, <2>2
  <2>5. \A j \in 1 .. n : rem'[j] = IF j < i' THEN r[j] ELSE 0
    BY <1>8, <2>1, <2>3
  <2> QED
    BY <2>2, <2>3, <2>4, <2>5
<1>12. i' <= n + 1
  BY <1>1, <1>3, <1>4
<1>13. Dividing'
  <2>1. f' = f /\ r' = r /\ Parts' = Parts /\ n' = n
    BY <1>1 DEF Magnitude, Parts, f, r
  <2> QED
    BY <1>3, <1>10, <1>11, <1>12, <2>1 DEF Dividing, f, r
<1>14. Weighed'
  BY <1>1, <1>2 DEF Weighed, Parts
<1> QED
  BY <1>1, <1>9, <1>13, <1>14 DEF Inv, Summing, Divided, Handing, Signed

LEMMA SortInv == Inv /\ Sort => Inv'
<1> SUFFICES ASSUME Inv, Sort PROVE Inv'
  OBVIOUS
<1> DEFINE n == Len(weights)
           f == FloorShares(Magnitude, eff)
           r == Remainders(Magnitude, eff)
<1>1. /\ pc = "divide" /\ i > n /\ order' = Sorted /\ pc' = "hand" /\ i' = 1
      /\ UNCHANGED <<total, weights, sum, eff, share, rem, allocated, result>>
  BY DEF Sort, args
<1>2. TypeOK /\ Weighed /\ Dividing
  BY DEF Inv
<1>3. /\ n \in Nat /\ Parts = 1 .. n /\ f \in [1 .. n -> Nat] /\ r \in [1 .. n -> Nat]
      /\ Magnitude - SumOf(f) \in 0 .. n - 1 /\ Magnitude \in Nat /\ SumOf(f) \in Nat
  BY <1>1, <1>2, Settled
<1>4. /\ share = [j \in 1 .. n |-> IF j < i THEN f[j] ELSE 0]
      /\ rem = [j \in 1 .. n |-> IF j < i THEN r[j] ELSE 0]
      /\ allocated = SumOf(share) /\ i \in Nat
  BY <1>1, <1>2, <1>3 DEF Dividing, TypeOK
<1> HIDE DEF f, r
<1>5. share = f /\ rem = r
  BY <1>1, <1>3, <1>4
<1>6. allocated = SumOf(f)
  BY <1>4, <1>5, Zenon
<1>7. Sorted \in [Parts -> Parts]
  BY <1>3, <1>5, SortedIs
<1>8. TypeOK'
  <2>1. order' \in [Parts -> Int]
    BY <1>1, <1>3, <1>7
  <2>2. /\ total' = total /\ weights' = weights /\ sum' = sum /\ eff' = eff /\ share' = share
        /\ rem' = rem /\ allocated' = allocated /\ result' = result /\ Parts' = Parts
    BY <1>1 DEF Parts
  <2> QED
    BY <1>1, <1>2, <2>1, <2>2 DEF TypeOK
<1>9. Weighed'
  BY <1>1, <1>2 DEF Weighed, Parts
<1>10. Divided'
  BY <1>1, <1>4, <1>5 DEF Divided, Magnitude, f, r
<1>11. share = Given(0)
  <2>1. ASSUME NEW j \in Parts PROVE ~(Cardinality(Ahead(j)) < 0)
    <3>1. Ahead(j) = Precede(r, j)
      BY <1>3, <1>5 DEF Ahead, Precede
    <3>2. r \in [1 .. n -> Int]
      BY <1>3
    <3>3. Cardinality(Precede(r, j)) \in 0 .. n - 1
      BY <1>3, <3>2, RankBound
    <3> QED
      BY <1>3, <3>1, <3>3
  <2>2. Given(0) = [j \in Parts |-> f[j]]
    BY <2>1 DEF Given, f
  <2> QED
    BY <1>3, <1>5, <2>2
<1>12. Handing'
  <2>1. i' - 1 = 0
    BY <1>1
  <2>2. /\ Parts' = Parts /\ Sorted' = Sorted /\ Leftover' = Leftover
        /\ Given(0)' = Given(0) /\ share' = share /\ allocated' = allocated
    BY <1>1 DEF Parts, Sorted, Ahead, Leftover, Magnitude, Given
  <2>3. 1 <= Leftover + 1
    <3>1. Magnitude - allocated \in 0 .. n - 1
      BY <1>3, <1>6
    <3> QED
      BY <1>3, <3>1 DEF Leftover
  <2>4. SumOf(share) = allocated + 0
    <3>1. allocated \in Int
      BY <1>3, <1>6
    <3> QED
      BY <1>4, <3>1
  <2>5. (i - 1)' = 0
    BY <1>1
  <2> QED
    BY <1>1, <1>11, <2>2, <2>3, <2>4, <2>5 DEF Handing
<1> QED
  BY <1>1, <1>8, <1>9, <1>10, <1>12 DEF Inv, Summing, Dividing, Signed

\* One more unit goes to the part whose place it is.
LEMMA HandInv == Inv /\ Hand => Inv'
<1> SUFFICES ASSUME Inv, Hand PROVE Inv'
  OBVIOUS
<1> DEFINE n == Len(weights)
           f == FloorShares(Magnitude, eff)
           x == order[i]
           place == [j \in Parts |-> Cardinality(Ahead(j))]
<1>1. /\ pc = "hand" /\ i <= Leftover /\ i' = i + 1
      /\ share' = [share EXCEPT ![x] = @ + 1]
      /\ UNCHANGED <<total, weights, pc, sum, eff, rem, allocated, order, result>>
  BY DEF Hand, args
<1>2. TypeOK /\ Weighed /\ Divided /\ Handing
  BY DEF Inv
<1>3. /\ n \in Nat /\ Parts = 1 .. n /\ f \in [1 .. n -> Nat]
      /\ Magnitude - SumOf(f) \in 0 .. n - 1 /\ SumOf(f) \in Nat
  BY <1>1, <1>2, Settled
<1>4. Leftover \in 0 .. n - 1 /\ allocated \in Nat
  BY <1>1, <1>2, <1>3 DEF Divided, Leftover
<1>5. i \in 1 .. n
  BY <1>1, <1>2, <1>3, <1>4 DEF TypeOK
<1>6. /\ order = Sorted /\ share = Given(i - 1) /\ SumOf(share) = allocated + (i - 1)
      /\ share \in [1 .. n -> Nat] /\ rem \in [1 .. n -> Nat]
  BY <1>1, <1>2, <1>3 DEF Handing, TypeOK
<1>7. x \in 1 .. n /\ \A j \in 1 .. n : j = x <=> place[j] = i - 1
  <2>1. /\ Sorted \in [Parts -> Parts]
        /\ \A k, j \in Parts : Sorted[k] = j <=> Cardinality(Ahead(j)) = k - 1
    BY <1>3, <1>6, SortedIs
  <2> QED
    BY <1>3, <1>5, <1>6, <2>1
<1>8. place \in [1 .. n -> Int]
  <2> SUFFICES ASSUME NEW j \in 1 .. n PROVE Cardinality(Ahead(j)) \in Int
    BY <1>3
  <2>1. Ahead(j) = Precede(rem, j) /\ rem \in [1 .. n -> Int]
    BY <1>3, <1>6 DEF Ahead, Precede
  <2> QED
    BY <1>3, <2>1, RankBound
<1>9. \A k : Given(k) = [j \in 1 .. n |-> IF place[j] < k THEN f[j] + 1 ELSE f[j]]
  BY <1>3 DEF Given
<1>10. place' = place /\ f' = f /\ Parts' = Parts /\ Sorted' = Sorted /\ Leftover' = Leftover
       /\ n' = n
  BY <1>1 DEF Parts, Ahead, Sorted, Leftover, Magnitude
<1> HIDE DEF f, x, place
<1>11. share' = [j \in 1 .. n |-> IF place[j] < i THEN f[j] + 1 ELSE f[j]]
  <2>1. share = [j \in 1 .. n |-> IF place[j] < i - 1 THEN f[j] + 1 ELSE f[j]]
    BY <1>6, <1>9
  <2>2. share' = [j \in 1 .. n |-> IF j = x THEN share[x] + 1 ELSE share[j]]
    BY <1>1, <1>6, <1>7
  <2>3. ASSUME NEW j \in 1 .. n
        PROVE  share'[j] = IF place[j] < i THEN f[j] + 1 ELSE f[j]
    <3>1. place[j] \in Int /\ i \in Int /\ f[j] \in Int
      BY <1>3, <1>5, <1>8
    <3>2. j = x => share'[j] = f[j] + 1 /\ place[j] < i
      BY <1>7, <2>1, <2>2, <3>1
    <3>3. j # x => (place[j] < i <=> place[j] < i - 1) /\ share'[j] = share[j]
      BY <1>7, <2>2, <3>1
    <3> QED
      BY <2>1, <3>2, <3>3
  <2> QED
    BY <2>2, <2>3
<1>12. SumOf(share') = allocated + i
  <2>1. share \in [1 .. n -> Int] /\ share[x] + 1 \in Int
    BY <1>6, <1>7
  <2>2. SumOf([share EXCEPT ![x] = share[x] + 1]) = SumOf(share) + ((share[x] + 1) - share[x])
    BY <1>3, <1>7, <2>1, SumOfUpdate
  <2>3. share' = [share EXCEPT ![x] = share[x] + 1]
    BY <1>1
  <2>4. share[x] \in Int /\ i \in Int /\ SumOf(share) = allocated + (i - 1)
    BY <1>5, <1>6, <1>7
  <2> QED
    BY <1>4, <2>2, <2>3, <2>4
<1>13. TypeOK'
  <2>1. share' \in [1 .. n -> Nat]
    BY <1>3, <1>11
  <2>2. i' \in Nat \ {0}
    BY <1>1, <1>5
  <2>3. /\ total' = total /\ weights' = weights /\ pc' = pc /\ sum' = sum /\ eff' = eff
        /\ rem' = rem /\ allocated' = allocated /\ order' = order /\ result' = result
    BY <1>1
  <2> QED
    BY <1>2, <1>3, <1>10, <2>1, <2>2, <2>3 DEF TypeOK
<1>14. Weighed' /\ Divided'
  BY <1>1, <1>2 DEF Weighed, Divided, Parts, Magnitude
<1>15. Handing'
  <2>1. (i - 1)' = i
    BY <1>1, <1>5
  <2>2. Given(i - 1)' = [j \in 1 .. n |-> IF place[j] < i THEN f[j] + 1 ELSE f[j]]
    <3>1. Given(i - 1)' = [j \in Parts' |-> IF place'[j] < (i - 1)' THEN f'[j] + 1 ELSE f'[j]]
      BY DEF Given, place, f
    <3> QED
      BY <1>3, <1>10, <2>1, <3>1
  <2>3. i' <= Leftover + 1
    BY <1>1, <1>4, <1>5
  <2> QED
    BY <1>1, <1>6, <1>10, <1>11, <1>12, <2>1, <2>2, <2>3 DEF Handing
<1> QED
  BY <1>1, <1>13, <1>14, <1>15 DEF Inv, Summing, Dividing, Signed

\* A share of a magnitude of the integer type is of the type, with its sign.
LEMMA SignInv == Inv /\ Sign => Inv'
<1> SUFFICES ASSUME Inv, Sign PROVE Inv'
  OBVIOUS
<1> DEFINE n == Len(weights)
           f == FloorShares(Magnitude, eff)
<1>1. /\ pc = "hand" /\ i > Leftover /\ pc' = "done"
      /\ result' = [j \in Parts |-> IF total < 0 THEN -share[j] ELSE share[j]]
      /\ UNCHANGED <<total, weights, i, sum, eff, share, rem, allocated, order>>
  BY DEF Sign, args
<1>2. TypeOK /\ Weighed /\ Divided /\ Handing
  BY DEF Inv
<1>3. /\ n \in Nat /\ Parts = 1 .. n /\ Magnitude \in Nat
      /\ Magnitude - SumOf(f) \in 0 .. n - 1 /\ SumOf(f) \in Nat
  BY <1>1, <1>2, Settled
<1>4. Leftover \in Nat /\ allocated \in Nat /\ Leftover = Magnitude - allocated
  BY <1>1, <1>2, <1>3 DEF Divided, Leftover
<1>5. i - 1 = Leftover
  BY <1>1, <1>2, <1>4 DEF Handing, TypeOK
<1>6. /\ share = Given(Leftover) /\ SumOf(share) = Magnitude
      /\ share \in [1 .. n -> Nat]
  <2>1. /\ share = Given(i - 1) /\ SumOf(share) = allocated + (i - 1)
        /\ share \in [1 .. n -> Nat]
    BY <1>1, <1>2, <1>3 DEF Handing, TypeOK
  <2>2. SumOf(share) = allocated + Leftover
    BY <1>5, <2>1
  <2>3. allocated + Leftover = Magnitude
    BY <1>3, <1>4
  <2> QED
    BY <1>5, <2>1, <2>2, <2>3
<1>7. total \in Int64 /\ total \in Int
  BY <1>2, Arguments DEF TypeOK
<1>8. ASSUME NEW j \in 1 .. n
      PROVE  (IF total < 0 THEN -share[j] ELSE share[j]) \in Int64
  <2>1. share[j] \in Nat /\ share[j] <= Magnitude
    BY <1>3, <1>6, SumOfNat
  <2> QED
    BY <1>7, <2>1, MaxIntAssumption DEF Magnitude, Int64, MinInt
<1>9. result' \in [1 .. n -> Int64]
  BY <1>1, <1>3, <1>8
<1>10. TypeOK'
  BY <1>1, <1>2, <1>3, <1>9 DEF TypeOK, Parts
<1>11. Weighed' /\ Divided'
  BY <1>1, <1>2 DEF Weighed, Divided, Parts, Magnitude
<1>12. Signed'
  <2>1. Given(Leftover)' = Given(Leftover) /\ Magnitude' = Magnitude /\ Parts' = Parts
    BY <1>1 DEF Given, Leftover, Ahead, Parts, Magnitude
  <2>2. share' = share /\ total' = total
    BY <1>1
  <2> QED
    BY <1>1, <1>6, <2>1, <2>2 DEF Signed
<1> QED
  BY <1>1, <1>10, <1>11, <1>12 DEF Inv, Summing, Dividing, Handing

LEMMA Invariance == Spec => []Inv
<1>1. Init => Inv
  BY InitInv
<1>2. Inv /\ [Next]_vars => Inv'
  <2>1. Inv /\ UNCHANGED vars => Inv'
    <3> SUFFICES ASSUME Inv, UNCHANGED vars PROVE Inv'
      OBVIOUS
    <3>1. TypeOK' /\ Summing' /\ Weighed'
      BY DEF Inv, vars, TypeOK, Parts, Summing, Weighed, Zeros
    <3>2. Dividing' /\ Divided'
      BY DEF Inv, vars, Parts, Dividing, Divided, Magnitude
    <3>3. Handing'
      <4>1. /\ Given(i - 1)' = Given(i - 1) /\ Sorted' = Sorted /\ Leftover' = Leftover
            /\ order' = order /\ i' = i /\ share' = share /\ allocated' = allocated /\ pc' = pc
        BY DEF vars, Parts, Given, Ahead, Sorted, Leftover, Magnitude
      <4> QED
        BY <4>1 DEF Inv, Handing
    <3>4. Signed'
      BY DEF Inv, vars, Parts, Signed, Given, Ahead, Leftover, Magnitude
    <3> QED
      BY <3>1, <3>2, <3>3, <3>4 DEF Inv
  <2> QED
    BY <2>1, RefuseInv, AddWeightInv, NormaliseInv, DivideInv, SortInv, HandInv, SignInv
       DEF Next
<1> QED
  BY <1>1, <1>2, PTL DEF Spec

-----------------------------------------------------------------------------
(***************************************************************************)
(* Theorems.                                                               *)
(***************************************************************************)
\* What Allocate returns is of the integer type (the conversion of big.Int
\* back to int64 at the end of allocate never wraps), whatever it is given.
THEOREM TypeCorrect == Spec => []TypeOK
  BY Invariance, PTL DEF Inv

\* The leftover is smaller than the number of parts, and at least as many
\* parts have a remainder, so that no part with a whole share gets a unit.
THEOREM LeftoverAlwaysFits == Spec => []LeftoverFits
<1>1. Inv => LeftoverFits
  <2> SUFFICES ASSUME Inv, pc = "hand"
               PROVE  /\ 0 <= Leftover /\ Leftover < Len(weights)
                      /\ Leftover <= Cardinality({j \in Parts : rem[j] > 0})
    BY DEF LeftoverFits
  <2>1. TypeOK /\ Weighed /\ Divided
    BY DEF Inv
  <2>2. /\ Len(weights) \in Nat /\ Parts = 1 .. Len(weights) /\ Magnitude \in Nat
        /\ Magnitude - SumOf(FloorShares(Magnitude, eff)) \in 0 .. Len(weights) - 1
        /\ Magnitude - SumOf(FloorShares(Magnitude, eff))
             <= Cardinality(Live(Len(weights), Remainders(Magnitude, eff)))
    BY <2>1, Settled
  <2>3. Leftover = Magnitude - SumOf(FloorShares(Magnitude, eff)) /\ rem = Remainders(Magnitude, eff)
    BY <2>1 DEF Divided, Leftover
  <2>4. {j \in Parts : rem[j] > 0} = Live(Len(weights), Remainders(Magnitude, eff))
    BY <2>2, <2>3 DEF Live
  <2> DEFINE most == Cardinality(Live(Len(weights), Remainders(Magnitude, eff)))
             left == Magnitude - SumOf(FloorShares(Magnitude, eff))
  <2>5. left \in 0 .. Len(weights) - 1 /\ left <= most /\ Leftover = left
        /\ Cardinality({j \in Parts : rem[j] > 0}) = most
    BY <2>2, <2>3, <2>4
  <2> HIDE DEF most, left
  <2> QED
    BY <2>2, <2>5
<1> QED
  BY <1>1, Invariance, PTL

\* The parts sum exactly to the total: nothing is lost and nothing is made.
THEOREM NothingIsLost == Spec => []LosesNothing
<1>1. Inv => LosesNothing
  <2> SUFFICES ASSUME Inv, pc = "done" PROVE SumOf(result) = total
    BY DEF LosesNothing
  <2> DEFINE n == Len(weights)
  <2>1. TypeOK /\ Weighed /\ Signed
    BY DEF Inv
  <2>2. n \in Nat /\ Parts = 1 .. n /\ share \in [1 .. n -> Int] /\ total \in Int
    BY <2>1, Arguments DEF TypeOK, Parts
  <2>3. /\ SumOf(share) = Magnitude
        /\ result = [j \in 1 .. n |-> IF total < 0 THEN -share[j] ELSE share[j]]
    BY <2>1, <2>2 DEF Signed
  <2>4. CASE total < 0
    <3>1. \A j \in 1 .. n : Times(-1, share[j]) = -share[j]
      BY <2>2 DEF Times
    <3>2. result = Scaled(-1, share)
      BY <2>2, <2>3, <2>4, <3>1 DEF Scaled
    <3>3. SumOf(result) = Times(-1, SumOf(share))
      BY <2>2, <3>2, SumOfScaled
    <3> QED
      BY <2>2, <2>3, <2>4, <3>3 DEF Times, Magnitude
  <2>5. CASE total >= 0
    <3>1. result = share
      BY <2>2, <2>3, <2>5
    <3> QED
      BY <2>2, <2>3, <2>5, <3>1 DEF Magnitude
  <2> QED
    BY <2>2, <2>4, <2>5
<1> QED
  BY <1>1, Invariance, PTL

\* The loops of allocate compute the largest-remainder method.
THEOREM LargestRemainder == Spec => []IsLargestRemainder
<1>1. Inv => IsLargestRemainder
  <2> SUFFICES ASSUME Inv, pc = "done" PROVE result = Apportion(total, weights)
    BY DEF IsLargestRemainder
  <2> DEFINE n == Len(weights)
             f == FloorShares(Magnitude, eff)
             r == Remainders(Magnitude, eff)
             left == Magnitude - SumOf(f)
  <2>1. TypeOK /\ Weighed /\ Divided /\ Signed
    BY DEF Inv
  <2>2. /\ n \in Nat /\ Parts = 1 .. n /\ f \in [1 .. n -> Nat] /\ DOMAIN eff = 1 .. n
        /\ r \in [1 .. n -> Nat] /\ eff = Effective(weights) /\ Magnitude = Abs(total)
    BY <2>1, Settled, Arguments DEF TypeOK, Weighed
  <2>3. rem = r /\ Leftover = left
    BY <2>1 DEF Divided, Leftover
  <2>4. \A j \in 1 .. n : Ahead(j) = Precede(r, j)
    BY <2>2, <2>3 DEF Ahead, Precede
  <2> DEFINE share2 == [j \in 1 .. n |-> IF Cardinality(Precede(r, j)) < left
                                         THEN f[j] + 1 ELSE f[j]]
  <2>5. share = share2
    BY <2>1, <2>2, <2>3, <2>4 DEF Signed, Given
  <2>6. Apportion(total, weights)
          = [j \in 1 .. n |-> IF total < 0 THEN -share2[j] ELSE share2[j]]
    BY <2>2 DEF Apportion
  <2> QED
    BY <2>1, <2>2, <2>5, <2>6 DEF Signed
<1> QED
  BY <1>1, Invariance, PTL

=============================================================================
