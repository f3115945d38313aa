------------------------- MODULE FinalizeLoopProofs -------------------------
(***************************************************************************)
(* The loops of finalize() compute the closed forms of PrizeAllocation,    *)
(* for every result of the oracle: the insertion sort puts every entry at  *)
(* its rank, the payout is the one of the best score, and the award loop   *)
(* credits exactly what WinnerCredit says of each winner.  The proof goes  *)
(* turn by turn: what holds of the entries sorted so far, and of the       *)
(* winners credited so far.                                                *)
(***************************************************************************)
EXTENDS FinalizeLoop, PrizeAllocationProofs

(* The entries among the first n that come before entry k, and its place.  *)
Earlier(s, n, k) ==
  {m \in 1 .. n : s[m].score > s[k].score \/ (s[m].score = s[k].score /\ m < k)}
PlaceAmong(s, n, k) == 1 + Cardinality(Earlier(s, n, k))

(* The first n entries are sorted, and the others have not moved.          *)
SortedUpTo(n) ==
  /\ \A k \in 1 .. n : ranked[PlaceAmong(res, n, k)] = res[k]
  /\ \A m \in n + 1 .. Len(res) : ranked[m] = res[m]

(* Inside the inner loop the entries from place j on have moved up by one, *)
(* and are worse than the key.                                             *)
ShiftedFrom(n) ==
  /\ \A k \in 1 .. n :
       IF PlaceAmong(res, n, k) < j THEN ranked[PlaceAmong(res, n, k)] = res[k]
       ELSE ranked[PlaceAmong(res, n, k) + 1] = res[k] /\ res[k].score < key.score
  /\ \A m \in n + 2 .. Len(res) : ranked[m] = res[m]

SortInv ==
  /\ pc = "sort" => i \in 2 .. Len(res) + 1 /\ SortedUpTo(i - 1)
  /\ pc = "shift" =>
       i \in 2 .. Len(res) /\ j \in 1 .. i /\ key = res[i] /\ ShiftedFrom(i - 1)
  /\ SortedByRank

(* The winners credited so far, and what they are credited.                *)
Awarded == {k \in Winners(res) : Rank(res, k) < i}
CreditOf(x) == [k \in Winners(res) |-> WinnerCredit(deposit, res, stableOf, x, k)]

PaidUpTo(V) ==
  /\ totalDistributed = SumFunctionOnSet(Gross(deposit, res), V)
  /\ allocated = totalDistributed
  /\ \A x \in Addresses : credited[x] = SumFunctionOnSet(CreditOf(x), V)

MoneyInv ==
  /\ pc \in {"sort", "shift"} => PaidUpTo({}) /\ effectiveBounty = 0 /\ refundAmount = 0
  /\ pc \in {"prizes", "close", "done"} => effectiveBounty = EffectiveBounty(deposit, res)
  /\ pc = "prizes" =>
       /\ i \in 1 .. WinnersCount + 1 /\ PaidUpTo(Awarded)
       /\ refundAmount = deposit - effectiveBounty
  /\ pc = "close" => PaidUpTo(Winners(res)) /\ refundAmount = RefundAmount(deposit, res)
  /\ pc = "done" =>
       /\ totalDistributed = TotalDistributed(deposit, res)
       /\ refundAmount = RefundAmount(deposit, res)
       /\ allocated = deposit + fees
       /\ \A x \in Addresses : credited[x] = Credit(deposit, fees, res, stableOf, x)

LoopTypeOK ==
  /\ deposit \in Nat /\ fees \in Nat
  /\ res \in Seq(ScoreEntry) /\ Len(res) > 0
  /\ stableOf \in StableAnswers
  /\ pc \in {"sort", "shift", "prizes", "close", "done"}
  /\ i \in Nat
  /\ ranked \in Seq(ScoreEntry) /\ Len(ranked) = Len(res)
  /\ credited \in [Addresses -> Nat]

(* Neither property is inductive: they say nothing of a half sorted array  *)
(* and of the winners still to come.                                       *)
LoopInv ==
  /\ LoopTypeOK /\ SortInv /\ MoneyInv
  /\ SumFunctionOnSet(credited, Addresses) = allocated

----------------------------------------------------------------------------
(* The places of the first n entries                                       *)

(* What the types say of a result.                                         *)
LEMMA EntryFacts ==
  ASSUME NEW s, s \in Seq(ScoreEntry), NEW n \in Nat, n <= Len(s)
  PROVE  /\ Len(s) \in Nat /\ DOMAIN s = 1 .. Len(s)
         /\ \A k \in 1 .. Len(s) : k \in Nat /\ s[k].score \in Nat /\ s[k].agent \in Agents
                                  /\ s[k] \in ScoreEntry
         /\ IsFiniteSet(1 .. n) /\ Cardinality(1 .. n) = n
         /\ 1 .. n \subseteq 1 .. Len(s)
         /\ \A k : /\ IsFiniteSet(Earlier(s, n, k)) /\ Cardinality(Earlier(s, n, k)) \in Nat
                   /\ PlaceAmong(s, n, k) \in Nat /\ PlaceAmong(s, n, k) >= 1
                   /\ PlaceAmong(s, n, k) <= n + 1
<1>1. Len(s) \in Nat /\ DOMAIN s = 1 .. Len(s)
  OBVIOUS
<1>2. \A k \in 1 .. Len(s) : /\ k \in Nat /\ s[k].score \in Nat /\ s[k].agent \in Agents
                            /\ s[k] \in ScoreEntry
  <2>1. \A k \in 1 .. Len(s) : k \in Nat /\ s[k] \in ScoreEntry
    OBVIOUS
  <2> QED BY <2>1 DEF ScoreEntry
<1>3. IsFiniteSet(1 .. n) /\ Cardinality(1 .. n) = n
  BY FS_Interval
<1>4. 1 .. n \subseteq 1 .. Len(s)
  BY <1>1
<1>5. ASSUME NEW k
      PROVE  /\ IsFiniteSet(Earlier(s, n, k)) /\ Cardinality(Earlier(s, n, k)) \in Nat
             /\ Cardinality(Earlier(s, n, k)) <= n
  <2>1. Earlier(s, n, k) \subseteq 1 .. n
    BY DEF Earlier
  <2> QED BY <1>3, <2>1, FS_Subset, FS_CardinalityType
<1>6. \A k : /\ PlaceAmong(s, n, k) \in Nat /\ PlaceAmong(s, n, k) >= 1
            /\ PlaceAmong(s, n, k) <= n + 1
  BY <1>5 DEF PlaceAmong
<1> QED BY <1>1, <1>2, <1>3, <1>4, <1>5, <1>6

(* Among all entries it is the rank.                                       *)
LEMMA PlaceIsRank ==
  ASSUME NEW s, s \in Seq(ScoreEntry)
  PROVE  \A k \in DOMAIN s : PlaceAmong(s, Len(s), k) = Rank(s, k)
<1>1. DOMAIN s = 1 .. Len(s)
  OBVIOUS
<1> QED BY <1>1 DEF PlaceAmong, Earlier, Rank

(* An entry that comes before another has the smaller place, also when the *)
(* other is not among the first n.                                         *)
LEMMA EarlierIsBefore ==
  ASSUME NEW s, s \in Seq(ScoreEntry), NEW n \in Nat, n <= Len(s),
         NEW k \in 1 .. n, NEW m \in 1 .. Len(s)
  PROVE  /\ k \in Earlier(s, n, m) => PlaceAmong(s, n, k) < PlaceAmong(s, n, m)
         /\ k \notin Earlier(s, n, m) => PlaceAmong(s, n, m) <= PlaceAmong(s, n, k)
<1>1. /\ \A x \in 1 .. Len(s) : x \in Nat /\ s[x].score \in Nat
      /\ k \in 1 .. Len(s) /\ \A x \in 1 .. n : x \in 1 .. Len(s)
      /\ \A x : /\ IsFiniteSet(Earlier(s, n, x)) /\ Cardinality(Earlier(s, n, x)) \in Nat
                /\ PlaceAmong(s, n, x) = 1 + Cardinality(Earlier(s, n, x))
  BY EntryFacts DEF PlaceAmong
<1>2. CASE k \in Earlier(s, n, m)
  <2>1. Earlier(s, n, k) \subseteq Earlier(s, n, m)
    BY <1>1, <1>2 DEF Earlier
  <2>2. k \notin Earlier(s, n, k)
    BY <1>1 DEF Earlier
  <2>3. Cardinality(Earlier(s, n, k)) < Cardinality(Earlier(s, n, m))
    <3>1. Earlier(s, n, k) # Earlier(s, n, m)
      BY <1>2, <2>2
    <3>2. /\ Cardinality(Earlier(s, n, k)) <= Cardinality(Earlier(s, n, m))
          /\ Cardinality(Earlier(s, n, k)) # Cardinality(Earlier(s, n, m))
      BY <1>1, <2>1, <3>1, FS_Subset
    <3> QED BY <1>1, <3>2
  <2> QED BY <1>1, <1>2, <2>3
<1>3. CASE k \notin Earlier(s, n, m)
  <2>1. Earlier(s, n, m) \subseteq Earlier(s, n, k)
    BY <1>1, <1>3 DEF Earlier
  <2>2. Cardinality(Earlier(s, n, m)) <= Cardinality(Earlier(s, n, k))
    BY <1>1, <2>1, FS_Subset
  <2> QED BY <1>1, <1>3, <2>2
<1> QED BY <1>2, <1>3

(* The places are the numbers from 1 to n, each taken once, and a better   *)
(* place has no worse score.                                               *)
LEMMA PlacesAreTaken ==
  ASSUME NEW s, s \in Seq(ScoreEntry), NEW n \in Nat, n <= Len(s)
  PROVE  /\ \A k \in 1 .. n : PlaceAmong(s, n, k) \in 1 .. n
         /\ \A k, m \in 1 .. n : PlaceAmong(s, n, k) = PlaceAmong(s, n, m) => k = m
         /\ \A k, m \in 1 .. n : PlaceAmong(s, n, k) < PlaceAmong(s, n, m)
                                  => s[k].score >= s[m].score
         /\ \A p \in 1 .. n : \E k \in 1 .. n : PlaceAmong(s, n, k) = p
<1>1. /\ \A x \in 1 .. n : x \in 1 .. Len(s) /\ x \in Nat /\ s[x].score \in Nat
      /\ IsFiniteSet(1 .. n) /\ Cardinality(1 .. n) = n
      /\ \A x : /\ IsFiniteSet(Earlier(s, n, x)) /\ Cardinality(Earlier(s, n, x)) \in Nat
                /\ PlaceAmong(s, n, x) \in Nat /\ PlaceAmong(s, n, x) >= 1
  BY EntryFacts
<1>2. ASSUME NEW k \in 1 .. n
      PROVE  PlaceAmong(s, n, k) \in 1 .. n
  <2>1. Earlier(s, n, k) \subseteq 1 .. n /\ k \notin Earlier(s, n, k)
    BY <1>1 DEF Earlier
  <2>2. Cardinality(Earlier(s, n, k)) <= n /\ Cardinality(Earlier(s, n, k)) # n
    BY <1>1, <2>1, FS_Subset
  <2> QED BY <1>1, <2>2 DEF PlaceAmong
<1>3. \A k, m \in 1 .. n : k # m => k \in Earlier(s, n, m) \/ m \in Earlier(s, n, k)
  BY <1>1 DEF Earlier
<1>4. ASSUME NEW k \in 1 .. n, NEW m \in 1 .. n, PlaceAmong(s, n, k) = PlaceAmong(s, n, m)
      PROVE  k = m
  BY <1>1, <1>3, <1>4, EarlierIsBefore
<1>5. ASSUME NEW k \in 1 .. n, NEW m \in 1 .. n, PlaceAmong(s, n, k) < PlaceAmong(s, n, m)
      PROVE  s[k].score >= s[m].score
  <2>1. k \in Earlier(s, n, m)
    BY <1>1, <1>5, EarlierIsBefore
  <2> QED BY <1>1, <2>1 DEF Earlier
<1>6. ASSUME NEW p \in 1 .. n
      PROVE  \E k \in 1 .. n : PlaceAmong(s, n, k) = p
  <2> DEFINE f == [k \in 1 .. n |-> PlaceAmong(s, n, k)]
  <2>1. f \in [1 .. n -> 1 .. n] /\ \A k, m \in 1 .. n : f[k] = f[m] => k = m
    BY <1>2, <1>4
  <2>2. \A k \in 1 .. n : f[k] = PlaceAmong(s, n, k)
    OBVIOUS
  <2> HIDE DEF f
  <2>3. f \in Injection(1 .. n, 1 .. n)
    BY <2>1 DEF Injection, IsInjective
  <2>4. f \in Surjection(1 .. n, 1 .. n)
    BY <1>1, <2>3, FS_Injection
  <2>5. PICK k \in 1 .. n : f[k] = p
    BY <2>4 DEF Surjection
  <2> QED BY <2>2, <2>5
<1> QED BY <1>2, <1>4, <1>5, <1>6

(* One more entry: it keeps its place, and pushes the worse ones up.       *)
LEMMA OneMoreEntry ==
  ASSUME NEW s, s \in Seq(ScoreEntry), NEW n \in Nat, n + 1 <= Len(s)
  PROVE  /\ PlaceAmong(s, n + 1, n + 1) = PlaceAmong(s, n, n + 1)
         /\ \A k \in 1 .. n :
              PlaceAmong(s, n + 1, k) =
                PlaceAmong(s, n, k) + (IF s[k].score < s[n + 1].score THEN 1 ELSE 0)
<1>1. /\ \A x \in 1 .. Len(s) : x \in Nat /\ s[x].score \in Nat
      /\ \A x \in 1 .. n + 1 : x \in 1 .. Len(s) /\ (x \in 1 .. n \/ x = n + 1)
      /\ \A x \in 1 .. n : x \in 1 .. n + 1 /\ x < n + 1
      /\ n + 1 \in 1 .. n + 1 /\ n + 1 \in 1 .. Len(s) /\ n + 1 \notin 1 .. n
      /\ n <= Len(s)
  BY EntryFacts
<1>2. \A x : IsFiniteSet(Earlier(s, n, x)) /\ Cardinality(Earlier(s, n, x)) \in Nat
  BY <1>1, EntryFacts
<1>3. Earlier(s, n + 1, n + 1) = Earlier(s, n, n + 1)
  BY <1>1 DEF Earlier
<1>4. ASSUME NEW k \in 1 .. n
      PROVE  PlaceAmong(s, n + 1, k) =
               PlaceAmong(s, n, k) + (IF s[k].score < s[n + 1].score THEN 1 ELSE 0)
  <2>1. CASE s[k].score < s[n + 1].score
    <3>1. Earlier(s, n + 1, k) = Earlier(s, n, k) \cup {n + 1}
      BY <1>1, <2>1 DEF Earlier
    <3>2. n + 1 \notin Earlier(s, n, k)
      BY <1>1 DEF Earlier
    <3>3. Cardinality(Earlier(s, n + 1, k)) = Cardinality(Earlier(s, n, k)) + 1
      BY <1>2, <3>1, <3>2, FS_AddElement
    <3> QED BY <1>2, <2>1, <3>3 DEF PlaceAmong
  <2>2. CASE ~(s[k].score < s[n + 1].score)
    <3>1. Earlier(s, n + 1, k) = Earlier(s, n, k)
      BY <1>1, <2>2 DEF Earlier
    <3> QED BY <1>2, <2>2, <3>1 DEF PlaceAmong
  <2> QED BY <2>1, <2>2
<1> QED BY <1>3, <1>4 DEF PlaceAmong

(* The first place whose entries are all worse is the new entry's.         *)
LEMMA PlaceOfTheNext ==
  ASSUME NEW s, s \in Seq(ScoreEntry), NEW n \in Nat, n + 1 <= Len(s), NEW p \in 1 .. n + 1,
         \A k \in 1 .. n : PlaceAmong(s, n, k) >= p => s[k].score < s[n + 1].score,
         p > 1 => \E k \in 1 .. n : PlaceAmong(s, n, k) = p - 1 /\ s[k].score >= s[n + 1].score
  PROVE  p = PlaceAmong(s, n, n + 1)
<1> DEFINE q == PlaceAmong(s, n, n + 1)
<1>1. /\ n <= Len(s) /\ n + 1 \in 1 .. Len(s) /\ p \in Nat
      /\ q \in Nat /\ q >= 1 /\ q <= n + 1
      /\ \A x \in 1 .. n : x \in 1 .. Len(s) /\ x < n + 1 /\ x \in Nat /\ s[x].score \in Nat
                          /\ PlaceAmong(s, n, x) \in Nat
      /\ s[n + 1].score \in Nat
  BY EntryFacts
<1>2. \A k \in 1 .. n : k \in Earlier(s, n, n + 1) <=> s[k].score >= s[n + 1].score
  BY <1>1 DEF Earlier
<1>3. \A k \in 1 .. n : IF s[k].score >= s[n + 1].score THEN PlaceAmong(s, n, k) < q
                                                        ELSE q <= PlaceAmong(s, n, k)
  BY <1>1, <1>2, EarlierIsBefore
<1> HIDE DEF q
<1>4. q <= p
  <2>1. CASE p = n + 1
    BY <1>1, <2>1
  <2>2. CASE p \in 1 .. n
    <3>1. PICK k \in 1 .. n : PlaceAmong(s, n, k) = p
      BY <1>1, <2>2, PlacesAreTaken
    <3>2. s[k].score < s[n + 1].score
      BY <1>1, <3>1
    <3>3. ~(s[k].score >= s[n + 1].score)
      BY <1>1, <3>2
    <3> QED BY <1>3, <3>1, <3>3
  <2> QED BY <2>1, <2>2
<1>5. p <= q
  BY <1>1, <1>3
<1> QED BY <1>1, <1>4, <1>5 DEF q

----------------------------------------------------------------------------
(* Sums and balances                                                       *)

(* One more term.                                                          *)
LEMMA SumAdd ==
  ASSUME NEW f, NEW S, IsFiniteSet(S), NEW y, y \notin S,
         \A x \in S : f[x] \in Int, f[y] \in Int
  PROVE  SumFunctionOnSet(f, S \cup {y}) = SumFunctionOnSet(f, S) + f[y]
<1> DEFINE T == S \cup {y}
<1>1. IsFiniteSet(T) /\ y \in T /\ T \ {y} = S /\ \A x \in T : f[x] \in Int
  BY FS_AddElement
<1> HIDE DEF T
<1>2. SumFunctionOnSet(f, T) = f[y] + SumFunctionOnSet(f, T \ {y})
  BY <1>1, SumRemove
<1>3. SumFunctionOnSet(f, S) \in Int
  BY SumRemove
<1>4. SumFunctionOnSet(f, T \ {y}) = SumFunctionOnSet(f, S)
  BY Zenon, <1>1
<1>5. SumFunctionOnSet(f, T) = SumFunctionOnSet(f, S) + f[y]
  BY <1>2, <1>3, <1>4
<1> QED BY Zenon, <1>5 DEF T

(* claimable[a] += v: from balances b to balances c.                       *)
Adds(a, v, b, c) ==
  /\ c \in [Addresses -> Nat] /\ c[a] = b[a] + v
  /\ \A x \in Addresses \ {a} : c[x] = b[x]

(* What one credit does to every balance, and to their sum.                *)
LEMMA AddOne ==
  ASSUME NEW b \in [Addresses -> Nat], NEW a \in Addresses, NEW v \in Nat, NEW c,
         Adds(a, v, b, c)
  PROVE  /\ c \in [Addresses -> Nat]
         /\ \A x \in Addresses : c[x] = b[x] + (IF x = a THEN v ELSE 0)
         /\ SumFunctionOnSet(c, Addresses) = SumFunctionOnSet(b, Addresses) + v
         /\ SumFunctionOnSet(b, Addresses) \in Nat
<1>1. IsFiniteSet(Addresses)
  BY AllocationAssumption
<1>2. \A x \in Addresses : b[x] \in Nat
  OBVIOUS
<1>3. /\ c \in [Addresses -> Nat] /\ c[a] = b[a] + v
      /\ \A x \in Addresses \ {a} : c[x] = b[x]
  BY DEF Adds
<1>4. SumFunctionOnSet(b, Addresses) \in Nat
  BY <1>1, <1>2, SumNat
<1>5. (\A x \in Addresses : b[x] \in Int) /\ (\A x \in Addresses : c[x] \in Int)
  BY <1>2, <1>3
<1>6. SumFunctionOnSet(c, Addresses) = SumFunctionOnSet(b, Addresses) - b[a] + c[a]
  BY <1>1, <1>3, <1>5, SumUpdate
<1> QED BY <1>2, <1>3, <1>4, <1>6

(* The three credits of one prize, two of them possibly to one account.    *)
AllAdded(x1, v1, x2, v2, x3, v3, b, c) ==
  /\ c \in [Addresses -> Nat]
  /\ \A x \in Addresses :
       c[x] = b[x] + ((IF x = x1 THEN v1 ELSE 0) + (IF x = x2 THEN v2 ELSE 0)
                       + (IF x = x3 THEN v3 ELSE 0))
  /\ SumFunctionOnSet(c, Addresses) = SumFunctionOnSet(b, Addresses) + (v1 + v2 + v3)

(* AddAll does what the three statements claimable[x] += v do.             *)
LEMMA AddAllAt ==
  ASSUME NEW b \in [Addresses -> Nat],
         NEW x1 \in Addresses, NEW x2 \in Addresses, NEW x3 \in Addresses,
         NEW v1 \in Nat, NEW v2 \in Nat, NEW v3 \in Nat,
         NEW c, c = AddAll(b, x1, v1, x2, v2, x3, v3)
  PROVE  AllAdded(x1, v1, x2, v2, x3, v3, b, c)
<1> DEFINE once  == [b EXCEPT ![x1] = @ + v1]
           twice == [once EXCEPT ![x2] = @ + v2]
           all   == [twice EXCEPT ![x3] = @ + v3]
<1>1. all = AddAll(b, x1, v1, x2, v2, x3, v3)
  BY DEF AddAll
<1>2. Adds(x1, v1, b, once)
  BY DEF Adds
<1>3. once \in [Addresses -> Nat]
  BY <1>2 DEF Adds
<1> HIDE DEF once
<1>4. Adds(x2, v2, once, twice)
  BY <1>3 DEF Adds
<1>5. twice \in [Addresses -> Nat]
  BY <1>4 DEF Adds
<1> HIDE DEF twice
<1>6. Adds(x3, v3, twice, all)
  BY <1>5 DEF Adds
<1> HIDE DEF all
<1>7. /\ \A x \in Addresses : once[x] = b[x] + (IF x = x1 THEN v1 ELSE 0)
      /\ SumFunctionOnSet(once, Addresses) = SumFunctionOnSet(b, Addresses) + v1
      /\ SumFunctionOnSet(b, Addresses) \in Nat
  BY <1>2, AddOne
<1>8. /\ \A x \in Addresses : twice[x] = once[x] + (IF x = x2 THEN v2 ELSE 0)
      /\ SumFunctionOnSet(twice, Addresses) = SumFunctionOnSet(once, Addresses) + v2
  BY <1>3, <1>4, AddOne
<1>9. /\ all \in [Addresses -> Nat]
      /\ \A x \in Addresses : all[x] = twice[x] + (IF x = x3 THEN v3 ELSE 0)
      /\ SumFunctionOnSet(all, Addresses) = SumFunctionOnSet(twice, Addresses) + v3
  BY <1>5, <1>6, AddOne
<1>10. \A x \in Addresses : b[x] \in Nat
  OBVIOUS
<1>11. \A x \in Addresses :
         all[x] = b[x] + ((IF x = x1 THEN v1 ELSE 0) + (IF x = x2 THEN v2 ELSE 0)
                           + (IF x = x3 THEN v3 ELSE 0))
  BY <1>7, <1>8, <1>9, <1>10
<1>12. SumFunctionOnSet(all, Addresses) = SumFunctionOnSet(b, Addresses) + (v1 + v2 + v3)
  BY <1>7, <1>8, <1>9
<1>13. AllAdded(x1, v1, x2, v2, x3, v3, b, all)
  BY <1>9, <1>11, <1>12 DEF AllAdded
<1> QED BY Zenon, <1>1, <1>13

----------------------------------------------------------------------------
(* The closed forms of one winner, and of the payout                       *)

(* A slot that rounds to nothing credits nobody: the loop skips it.        *)
LEMMA NoPrizeNoCredit ==
  ASSUME NEW d \in Nat, NEW s, s \in Seq(ScoreEntry), NEW st \in StableAnswers,
         NEW k \in Winners(s), GrossPrize(d, s, k) = 0, NEW x
  PROVE  WinnerCredit(d, s, st, x, k) = 0
<1> DEFINE g == GrossPrize(d, s, k)
           stable == st[s[k].agent]
<1>1. g = 0 /\ g \in Nat /\ stable \in Stables \cup {NoStable}
  BY WinnerFacts
<1>2. WinnerCredit(d, s, st, x, k) =
        (IF x = Treasury THEN ProtocolFee(g) ELSE 0)
        + (IF stable # NoStable /\ x = StableOwner[stable] THEN StableCut(g, stable) ELSE 0)
        + (IF x = Wallet[s[k].agent] THEN AgentCut(g, stable) ELSE 0)
  BY DEF WinnerCredit
<1> HIDE DEF g, stable
<1>3. /\ ProtocolFee(g) \in Nat /\ StableCut(g, stable) \in Nat
      /\ AgentCut(g, stable) \in Nat
      /\ ProtocolFee(g) + StableCut(g, stable) + AgentCut(g, stable) = g
  <2>1. g \in Nat /\ stable \in Stables \cup {NoStable}
    BY <1>1
  <2> QED BY <2>1, PrizeSplits
<1>4. ProtocolFee(g) = 0 /\ StableCut(g, stable) = 0 /\ AgentCut(g, stable) = 0
  BY <1>1, <1>3
<1> QED BY <1>2, <1>4

(* The entry of rank 1 has the best score.                                 *)
LEMMA FirstIsBest ==
  ASSUME NEW s, s \in Seq(ScoreEntry), NEW k \in DOMAIN s, Rank(s, k) = 1, NEW t \in Nat
  PROVE  BestReaches(s, t) <=> s[k].score >= t
<1>1. /\ DOMAIN s = 1 .. Len(s) /\ Len(s) \in Nat
      /\ \A m \in DOMAIN s : s[m].score \in Nat
  BY EntryFacts
<1>2. IsFiniteSet(Before(s, k)) /\ Rank(s, k) = 1 + Cardinality(Before(s, k))
  <2>1. Before(s, k) \subseteq DOMAIN s
    BY DEF Before
  <2>2. IsFiniteSet(DOMAIN s)
    BY RankIsInjective
  <2> QED BY <2>1, <2>2, FS_Subset DEF Before, Rank
<1>3. Before(s, k) = {}
  BY <1>2, FS_EmptySet, FS_CardinalityType
<1>4. \A m \in DOMAIN s : s[m].score <= s[k].score
  BY <1>1, <1>3 DEF Before
<1> QED BY <1>1, <1>4 DEF BestReaches

----------------------------------------------------------------------------
(* The turns of the insertion sort                                         *)

(* Nothing is paid while the entries are sorted.                           *)
LEMMA UnpaidStays ==
  ASSUME LoopInv, pc \in {"sort", "shift"}, pc' \in {"sort", "shift"},
         UNCHANGED <<call, money>>
  PROVE  /\ MoneyInv'
         /\ (SumFunctionOnSet(credited, Addresses) = allocated)'
         /\ deposit' \in Nat /\ fees' \in Nat /\ res' \in Seq(ScoreEntry) /\ Len(res') > 0
         /\ stableOf' \in StableAnswers /\ credited' \in [Addresses -> Nat]
<1>1. /\ deposit' = deposit /\ fees' = fees /\ res' = res /\ stableOf' = stableOf
      /\ effectiveBounty' = effectiveBounty /\ credited' = credited
      /\ allocated' = allocated /\ totalDistributed' = totalDistributed
      /\ refundAmount' = refundAmount
  BY DEF call, money
<1>2. PaidUpTo({}) /\ effectiveBounty = 0 /\ refundAmount = 0
  BY DEF LoopInv, MoneyInv
<1>3. PaidUpTo({})'
  BY <1>1, <1>2 DEF PaidUpTo, CreditOf
<1>4. MoneyInv'
  BY <1>1, <1>2, <1>3 DEF MoneyInv
<1> QED BY <1>1, <1>4 DEF LoopInv, LoopTypeOK

(* What the types say of the loop.                                         *)
LEMMA LoopFacts ==
  ASSUME LoopInv
  PROVE  /\ deposit \in Nat /\ fees \in Nat /\ res \in Seq(ScoreEntry) /\ Len(res) \in Nat
         /\ Len(res) > 0 /\ DOMAIN res = 1 .. Len(res)
         /\ ranked \in Seq(ScoreEntry) /\ Len(ranked) = Len(res)
         /\ DOMAIN ranked = 1 .. Len(res)
         /\ i \in Nat /\ stableOf \in StableAnswers /\ credited \in [Addresses -> Nat]
         /\ WinnersCount \in Nat /\ WinnersCount <= Len(res)
         /\ WinnersCount <= Len(PrizeDistribution)
         /\ WinnersCount = Len(res) \/ WinnersCount = Len(PrizeDistribution)
<1>1. /\ Len(res) \in Nat /\ Len(ranked) = Len(res)
  BY DEF LoopInv, LoopTypeOK
<1>2. Len(PrizeDistribution) \in Nat
  BY AllocationAssumption
<1>3. /\ WinnersCount \in Nat /\ WinnersCount <= Len(res)
      /\ WinnersCount <= Len(PrizeDistribution)
      /\ WinnersCount = Len(res) \/ WinnersCount = Len(PrizeDistribution)
  BY <1>1, <1>2 DEF WinnersCount
<1> QED BY <1>3 DEF LoopInv, LoopTypeOK

(* The next entry is taken out: nothing has moved yet.                     *)
LEMMA PickKeyKeeps == ASSUME LoopInv, PickKey PROVE LoopInv'
<1>1. /\ pc = "sort" /\ i <= Len(ranked) /\ key' = ranked[i] /\ j' = i /\ pc' = "shift"
      /\ UNCHANGED <<call, money>> /\ i' = i /\ ranked' = ranked /\ res' = res
  BY DEF PickKey, call
<1>2. /\ Len(res) \in Nat /\ i \in 2 .. Len(res) /\ SortedUpTo(i - 1)
      /\ res \in Seq(ScoreEntry)
  BY <1>1, LoopFacts DEF LoopInv, SortInv
<1>3. PICK n \in Nat : n = i - 1 /\ n <= Len(res)
  BY <1>2
<1>4. key' = res[i]
  BY <1>1, <1>2, <1>3 DEF SortedUpTo
<1>5. \A k \in 1 .. n : PlaceAmong(res, n, k) < i
  <2>1. \A k \in 1 .. n : PlaceAmong(res, n, k) \in 1 .. n
    BY <1>2, <1>3, PlacesAreTaken
  <2> QED BY <1>2, <1>3, <2>1
<1>6. ShiftedFrom(i - 1)'
  BY <1>1, <1>2, <1>3, <1>5 DEF SortedUpTo, ShiftedFrom
<1>7. SortInv'
  BY <1>1, <1>2, <1>4, <1>6 DEF SortInv, SortedByRank
<1> QED BY <1>1, <1>7, UnpaidStays DEF LoopInv, LoopTypeOK

(* A worse entry moves up by one place.                                    *)
LEMMA ShiftKeeps == ASSUME LoopInv, Shift PROVE LoopInv'
<1>1. /\ pc = "shift" /\ j > 1 /\ ranked[j - 1].score < key.score
      /\ ranked' = [ranked EXCEPT ![j] = ranked[j - 1]] /\ j' = j - 1
      /\ UNCHANGED <<call, money>> /\ pc' = pc /\ i' = i /\ key' = key /\ res' = res
  BY DEF Shift, MustShift, call
<1>2. /\ Len(res) \in Nat /\ i \in 2 .. Len(res) /\ j \in 1 .. i /\ key = res[i]
      /\ ShiftedFrom(i - 1) /\ res \in Seq(ScoreEntry)
      /\ ranked \in Seq(ScoreEntry) /\ Len(ranked) = Len(res)
  BY <1>1, LoopFacts DEF LoopInv, SortInv
<1>3. PICK n \in Nat : n = i - 1 /\ n <= Len(res)
  BY <1>2
<1>4. /\ ranked' \in Seq(ScoreEntry) /\ Len(ranked') = Len(res)
      /\ ranked'[j] = ranked[j - 1]
      /\ \A m \in 1 .. Len(res) : m # j => ranked'[m] = ranked[m]
  BY <1>1, <1>2
<1>5. \A k \in 1 .. n : PlaceAmong(res, n, k) \in 1 .. n
  BY <1>3, <1>2, PlacesAreTaken
<1>6. ASSUME NEW k \in 1 .. n
      PROVE  IF PlaceAmong(res, n, k) < j - 1 THEN ranked'[PlaceAmong(res, n, k)] = res[k]
             ELSE ranked'[PlaceAmong(res, n, k) + 1] = res[k] /\ res[k].score < key.score
  <2>1. PICK q \in 1 .. n : q = PlaceAmong(res, n, k)
    BY <1>5
  <2>2. IF q < j THEN ranked[q] = res[k]
        ELSE ranked[q + 1] = res[k] /\ res[k].score < key.score
    BY <1>2, <1>3, <2>1 DEF ShiftedFrom
  <2>3. IF q < j - 1 THEN ranked'[q] = res[k]
        ELSE ranked'[q + 1] = res[k] /\ res[k].score < key.score
    BY <1>1, <1>2, <1>3, <1>4, <2>2
  <2> QED BY <2>1, <2>3
<1>7. \A m \in n + 2 .. Len(res) : ranked'[m] = res[m]
  <2>1. \A m \in n + 2 .. Len(res) : ranked[m] = res[m]
    BY <1>2, <1>3 DEF ShiftedFrom
  <2>2. \A m \in n + 2 .. Len(res) : m \in 1 .. Len(res) /\ m # j
    BY <1>2, <1>3
  <2> QED BY <1>4, <2>1, <2>2
<1>8. ShiftedFrom(i - 1)'
  BY <1>1, <1>3, <1>6, <1>7 DEF ShiftedFrom
<1>9. SortInv'
  BY <1>1, <1>2, <1>8 DEF SortInv, SortedByRank
<1> QED BY <1>1, <1>4, <1>9, UnpaidStays DEF LoopInv, LoopTypeOK

(* The key goes to its place: one more entry is sorted.                    *)
LEMMA PlaceKeeps == ASSUME LoopInv, Place PROVE LoopInv'
<1>1. /\ pc = "shift" /\ (j > 1 => ~(ranked[j - 1].score < key.score))
      /\ ranked' = [ranked EXCEPT ![j] = key] /\ i' = i + 1 /\ pc' = "sort"
      /\ UNCHANGED <<call, money>> /\ res' = res
  BY DEF Place, MustShift, call
<1>2. /\ Len(res) \in Nat /\ i \in 2 .. Len(res) /\ j \in 1 .. i /\ key = res[i]
      /\ ShiftedFrom(i - 1) /\ res \in Seq(ScoreEntry)
      /\ ranked \in Seq(ScoreEntry) /\ Len(ranked) = Len(res)
  BY <1>1, LoopFacts DEF LoopInv, SortInv
<1>3. PICK n \in Nat : n = i - 1 /\ n + 1 <= Len(res) /\ n <= Len(res) /\ n + 1 = i
  BY <1>2
<1>4. PICK p \in 1 .. n + 1 : p = j
  BY <1>2, <1>3
<1>5. \A k \in 1 .. Len(res) : res[k].score \in Nat /\ res[k] \in ScoreEntry
  BY <1>2, EntryFacts
<1>6. /\ \A k \in 1 .. n : PlaceAmong(res, n, k) \in 1 .. n
      /\ \A q \in 1 .. n : \E k \in 1 .. n : PlaceAmong(res, n, k) = q
  <2>1. res \in Seq(ScoreEntry)
    BY <1>2
  <2>2. \A k \in 1 .. n : PlaceAmong(res, n, k) \in 1 .. n
    BY <1>3, <2>1, PlacesAreTaken
  <2>3. \A q \in 1 .. n : \E k \in 1 .. n : PlaceAmong(res, n, k) = q
    BY <1>3, <2>1, PlacesAreTaken
  <2> QED BY <2>2, <2>3
<1>7. \A k \in 1 .. n : IF PlaceAmong(res, n, k) < p THEN ranked[PlaceAmong(res, n, k)] = res[k]
                        ELSE /\ ranked[PlaceAmong(res, n, k) + 1] = res[k]
                             /\ res[k].score < res[n + 1].score
  BY <1>2, <1>3, <1>4 DEF ShiftedFrom
<1>8. p = PlaceAmong(res, n, n + 1)
  <2>1. \A k \in 1 .. n : PlaceAmong(res, n, k) >= p => res[k].score < res[n + 1].score
    BY <1>4, <1>6, <1>7
  <2>2. ASSUME p > 1
        PROVE  \E k \in 1 .. n : PlaceAmong(res, n, k) = p - 1 /\ res[k].score >= res[n + 1].score
    <3>1. PICK k \in 1 .. n : PlaceAmong(res, n, k) = p - 1
      BY <1>4, <1>6, <2>2
    <3>2. ranked[p - 1] = res[k]
      BY <1>4, <1>7, <3>1
    <3>3. ~(ranked[p - 1].score < res[n + 1].score)
      BY <1>1, <1>2, <1>3, <1>4, <2>2
    <3>4. res[k].score >= res[n + 1].score
      BY <1>3, <1>5, <3>2, <3>3
    <3> QED BY <3>1, <3>4
  <2> QED BY <1>2, <1>3, <2>1, <2>2, PlaceOfTheNext
<1>9. /\ ranked' \in Seq(ScoreEntry) /\ Len(ranked') = Len(res)
      /\ ranked'[p] = res[n + 1]
      /\ \A m \in 1 .. Len(res) : m # p => ranked'[m] = ranked[m]
  BY <1>1, <1>2, <1>3, <1>4, <1>5
<1>10. ASSUME NEW k \in 1 .. n + 1
       PROVE  ranked'[PlaceAmong(res, n + 1, k)] = res[k]
  <2>1. CASE k = n + 1
    BY <1>2, <1>3, <1>8, <1>9, <2>1, OneMoreEntry
  <2>2. CASE k \in 1 .. n
    <3>1. PICK q \in 1 .. n : q = PlaceAmong(res, n, k)
      BY <1>6, <2>2
    <3>2. PlaceAmong(res, n + 1, k) = q + (IF res[k].score < res[n + 1].score THEN 1 ELSE 0)
      BY <1>2, <1>3, <2>2, <3>1, OneMoreEntry
    <3>3. CASE q < p
      <4>1. k \in Earlier(res, n, n + 1)
        BY <1>2, <1>3, <1>4, <1>8, <2>2, <3>1, <3>3, EarlierIsBefore
      <4>2. ~(res[k].score < res[n + 1].score)
        BY <1>3, <1>5, <2>2, <4>1 DEF Earlier
      <4>3. PlaceAmong(res, n + 1, k) = q /\ ranked[q] = res[k]
        BY <1>7, <2>2, <3>1, <3>2, <3>3, <4>2
      <4> QED BY <1>3, <1>4, <1>9, <3>3, <4>3
    <3>4. CASE ~(q < p)
      <4>1. PlaceAmong(res, n + 1, k) = q + 1 /\ ranked[q + 1] = res[k]
        BY <1>7, <2>2, <3>1, <3>2, <3>4
      <4>2. q + 1 \in 1 .. Len(res) /\ q + 1 # p
        BY <1>3, <1>4, <3>4
      <4> QED BY <1>9, <4>1, <4>2
    <3> QED BY <3>3, <3>4
  <2> QED BY <2>1, <2>2
<1>11. \A m \in n + 2 .. Len(res) : ranked'[m] = res[m]
  <2>1. \A m \in n + 2 .. Len(res) : ranked[m] = res[m]
    BY <1>2, <1>3 DEF ShiftedFrom
  <2>2. \A m \in n + 2 .. Len(res) : m \in 1 .. Len(res) /\ m # p
    BY <1>2, <1>3
  <2> QED BY <1>9, <2>1, <2>2
<1>12. SortedUpTo(i - 1)'
  <2>1. i' - 1 = n + 1 /\ i' = n + 2
    BY <1>1, <1>3
  <2> QED BY <1>1, <1>10, <1>11, <2>1 DEF SortedUpTo
<1>13. SortInv'
  BY <1>1, <1>2, <1>12 DEF SortInv, SortedByRank
<1> QED BY <1>1, <1>2, <1>9, <1>13, UnpaidStays DEF LoopInv, LoopTypeOK

----------------------------------------------------------------------------
(* The payout, the awards and the refund                                   *)

(* When no prize is paid no winner is credited anything.                   *)
LEMMA NothingToPay ==
  ASSUME NEW d \in Nat, NEW s, s \in Seq(ScoreEntry), NEW st \in StableAnswers,
         EffectiveBounty(d, s) = 0
  PROVE  /\ SumFunctionOnSet(Gross(d, s), Winners(s)) = 0
         /\ \A x : SumFunctionOnSet([k \in Winners(s) |-> WinnerCredit(d, s, st, x, k)],
                                    Winners(s)) = 0
         /\ TotalDistributed(d, s) = 0
<1>1. /\ TotalDistributed(d, s) \in Nat
      /\ TotalDistributed(d, s) <= EffectiveBounty(d, s)
  BY PrizesFitTheBounty
<1>2. TotalDistributed(d, s) = 0
  BY <1>1
<1>3. SumFunctionOnSet(Gross(d, s), Winners(s)) = TotalDistributed(d, s)
  BY DEF Gross, TotalDistributed
<1>4. IsFiniteSet(Winners(s))
  BY WinnersHaveSlots
<1>5. \A k \in Winners(s) : GrossPrize(d, s, k) = 0
  <2> SUFFICES ASSUME NEW k \in Winners(s) PROVE GrossPrize(d, s, k) = 0
    OBVIOUS
  <2>1. \A m \in Winners(s) : Gross(d, s)[m] \in Nat
    BY GrossIsPart DEF Gross
  <2>2. Gross(d, s)[k] <= SumFunctionOnSet(Gross(d, s), Winners(s))
    BY <1>4, <2>1, SumNat
  <2>3. Gross(d, s)[k] = GrossPrize(d, s, k)
    BY DEF Gross
  <2> QED BY <1>2, <1>3, <2>1, <2>2, <2>3
<1>6. ASSUME NEW x
      PROVE  SumFunctionOnSet([k \in Winners(s) |-> WinnerCredit(d, s, st, x, k)],
                              Winners(s)) = 0
  <2> DEFINE f == [k \in Winners(s) |-> WinnerCredit(d, s, st, x, k)]
  <2>1. \A k \in Winners(s) : f[k] = 0
    BY <1>5, NoPrizeNoCredit
  <2> HIDE DEF f
  <2>2. SumFunctionOnSet(f, Winners(s)) = 0
    BY <1>4, <2>1, SumZero
  <2> QED BY <2>2 DEF f
<1> QED BY <1>2, <1>3, <1>6

(* The sort is done, the payout is the one of the best score.              *)
LEMMA ChoosePayoutKeeps == ASSUME LoopInv, ChoosePayout PROVE LoopInv'
<1>1. /\ pc = "sort" /\ i > Len(ranked) /\ refundAmount' = deposit - effectiveBounty'
      /\ i' = 1 /\ pc' = (IF effectiveBounty' > 0 THEN "prizes" ELSE "close")
      /\ deposit' = deposit /\ fees' = fees /\ res' = res /\ stableOf' = stableOf
      /\ ranked' = ranked /\ credited' = credited /\ allocated' = allocated
      /\ totalDistributed' = totalDistributed
  BY DEF ChoosePayout, call
<1>2. /\ deposit \in Nat /\ fees \in Nat /\ res \in Seq(ScoreEntry) /\ Len(res) \in Nat
      /\ Len(res) > 0 /\ DOMAIN res = 1 .. Len(res)
      /\ ranked \in Seq(ScoreEntry) /\ Len(ranked) = Len(res)
      /\ stableOf \in StableAnswers /\ credited \in [Addresses -> Nat]
  BY LoopFacts
<1>3. i = Len(res) + 1 /\ SortedUpTo(Len(res))
  <2>1. i \in 2 .. Len(res) + 1 /\ SortedUpTo(i - 1)
    BY <1>1 DEF LoopInv, SortInv
  <2>2. i = Len(res) + 1 /\ i - 1 = Len(res)
    BY <1>1, <1>2, <2>1
  <2> QED BY <2>1, <2>2
<1>4. \A k \in DOMAIN res : ranked[Rank(res, k)] = res[k]
  BY <1>2, <1>3, PlaceIsRank DEF SortedUpTo
<1>5. PICK first \in DOMAIN res : Rank(res, first) = 1
  <2>1. \E k \in 1 .. Len(res) : PlaceAmong(res, Len(res), k) = 1
    BY <1>2, PlacesAreTaken
  <2> QED BY <1>2, <2>1, PlaceIsRank
<1>6. ranked[1] = res[first]
  BY <1>4, <1>5
<1>7. effectiveBounty' = EffectiveBounty(deposit, res)
  <2>1. \A t \in Nat : BestReaches(res, t) <=> ranked[1].score >= t
    BY <1>2, <1>5, <1>6, FirstIsBest
  <2>2. /\ AcceptanceThreshold \in Nat /\ Bps(AcceptanceThreshold, 8000) \in Nat
        /\ Bps(AcceptanceThreshold, 5000) \in Nat
    <3>1. AcceptanceThreshold \in Nat
      BY AllocationAssumption
    <3>2. \A b \in Nat : Bps(AcceptanceThreshold, b) \in Nat
      BY <3>1, ShareTruncates
    <3> QED BY <3>1, <3>2
  <2>3. /\ Bps(AcceptanceThreshold, 8000) = (AcceptanceThreshold * 8000) \div BPS
        /\ Bps(AcceptanceThreshold, 5000) = (AcceptanceThreshold * 5000) \div BPS
    BY DEF Bps
  <2>4. PayoutBps(res) =
          IF ranked[1].score >= AcceptanceThreshold THEN BPS
          ELSE IF ~GraduatedPayouts THEN 0
          ELSE IF ranked[1].score >= (AcceptanceThreshold * 8000) \div BPS THEN 5000
          ELSE IF ranked[1].score >= (AcceptanceThreshold * 5000) \div BPS THEN 2500
          ELSE 0
    BY <2>1, <2>2, <2>3 DEF PayoutBps
  <2>5. effectiveBounty' = Bps(deposit, PayoutBps(res))
    BY <2>4 DEF ChoosePayout
  <2> QED BY <2>5 DEF EffectiveBounty
<1>8. EffectiveBounty(deposit, res) \in Nat
  BY <1>2, EffectiveIsPart
<1>9. PaidUpTo({})
  BY <1>1 DEF LoopInv, MoneyInv
<1>10. LoopTypeOK'
  BY <1>1, <1>2 DEF LoopTypeOK
<1>11. SortInv'
  BY <1>1, <1>2, <1>4 DEF SortInv, SortedByRank
<1>12. MoneyInv'
  <2>1. CASE effectiveBounty' > 0
    <3>1. pc' = "prizes"
      BY <1>1, <2>1
    <3>2. Awarded' = {}
      <4>1. \A k \in Winners(res) : Rank(res, k) >= 1 /\ Rank(res, k) \in Nat
        BY <1>2, RankIsInjective DEF Winners
      <4>2. \A k \in Winners(res) : ~(Rank(res, k) < 1)
        BY <4>1
      <4> QED BY <1>1, <4>2 DEF Awarded
    <3>3. PaidUpTo({})'
      BY <1>1, <1>9 DEF PaidUpTo, CreditOf
    <3>4. PaidUpTo(Awarded)'
      BY <3>2, <3>3 DEF PaidUpTo
    <3>5. PICK c \in Nat : WinnersCount' = c
      <4>1. WinnersCount' = WinnersCount
        BY <1>1 DEF WinnersCount
      <4> QED BY <4>1, LoopFacts
    <3>6. i' \in 1 .. c + 1
      BY <1>1
    <3> QED BY <1>1, <1>7, <3>1, <3>4, <3>5, <3>6 DEF MoneyInv
  <2>2. CASE ~(effectiveBounty' > 0)
    <3>1. pc' = "close" /\ EffectiveBounty(deposit, res) = 0
      BY <1>1, <1>7, <1>8, <2>2
    <3>2. /\ SumFunctionOnSet(Gross(deposit, res), Winners(res)) = 0
          /\ \A x : SumFunctionOnSet(CreditOf(x), Winners(res)) = 0
          /\ TotalDistributed(deposit, res) = 0
      BY <1>2, <3>1, NothingToPay DEF CreditOf
    <3>3. /\ totalDistributed = 0 /\ allocated = 0
          /\ \A x \in Addresses : credited[x] = 0
      BY <1>9, SumEmpty DEF PaidUpTo
    <3>4. PaidUpTo(Winners(res))'
      BY <1>1, <3>2, <3>3 DEF PaidUpTo, CreditOf
    <3>5. refundAmount' = RefundAmount(deposit, res)
      BY <1>1, <1>2, <1>7, <3>1, <3>2 DEF RefundAmount
    <3> QED BY <1>1, <1>7, <3>1, <3>4, <3>5 DEF MoneyInv
  <2> QED BY <2>1, <2>2
<1> QED BY <1>1, <1>10, <1>11, <1>12 DEF LoopInv

(* One winner is credited: the one whose entry has rank i.                 *)
LEMMA AwardKeeps == ASSUME LoopInv, Award PROVE LoopInv'
<1> DEFINE agent == ranked[i].agent
           gross == SlotPrize
           fee   == (gross * ProtocolFeeBps) \div BPS
           stable == stableOf[agent]
           cut   == StableShare(gross, fee, stable)
           owner == IF stable = NoStable THEN Treasury ELSE StableOwner[stable]
           net   == (gross - fee) - cut
<1>1. /\ pc = "prizes" /\ i <= WinnersCount /\ i' = i + 1 /\ pc' = pc
      /\ deposit' = deposit /\ fees' = fees /\ res' = res /\ stableOf' = stableOf
      /\ ranked' = ranked /\ effectiveBounty' = effectiveBounty
      /\ refundAmount' = refundAmount
  BY DEF Award, call
<1>2. IF gross = 0
      THEN /\ credited' = credited /\ allocated' = allocated
           /\ totalDistributed' = totalDistributed
      ELSE /\ totalDistributed' = totalDistributed + gross
           /\ credited' = AddAll(credited, Treasury, fee, owner, cut, Wallet[agent], net)
           /\ allocated' = allocated + fee + cut + net
  BY DEF Award
<1>3. /\ deposit \in Nat /\ fees \in Nat /\ res \in Seq(ScoreEntry) /\ Len(res) \in Nat
      /\ Len(res) > 0 /\ DOMAIN res = 1 .. Len(res)
      /\ ranked \in Seq(ScoreEntry) /\ Len(ranked) = Len(res)
      /\ stableOf \in StableAnswers /\ credited \in [Addresses -> Nat]
  BY LoopFacts
<1>4. /\ effectiveBounty = EffectiveBounty(deposit, res)
      /\ i \in 1 .. WinnersCount + 1 /\ PaidUpTo(Awarded)
      /\ refundAmount = deposit - effectiveBounty
      /\ \A k \in DOMAIN res : ranked[Rank(res, k)] = res[k]
      /\ SumFunctionOnSet(credited, Addresses) = allocated
  BY <1>1 DEF LoopInv, MoneyInv, SortInv, SortedByRank
<1>5. PICK c \in Nat : c = WinnersCount /\ c <= Len(res) /\ c <= Len(PrizeDistribution)
  BY LoopFacts
<1>6. i \in 1 .. Len(res) /\ i <= Len(PrizeDistribution) /\ i \in 1 .. c
  BY <1>1, <1>3, <1>4, <1>5
<1>7. PICK w \in DOMAIN res : Rank(res, w) = i
  <2>1. \E k \in 1 .. Len(res) : PlaceAmong(res, Len(res), k) = i
    BY <1>3, <1>6, PlacesAreTaken
  <2> QED BY <1>3, <2>1, PlaceIsRank
<1>8. w \in Winners(res) /\ ranked[i] = res[w] /\ w \notin Awarded
  BY <1>4, <1>6, <1>7 DEF Winners, Awarded
<1>9. PICK done \in SUBSET Winners(res) : done = Awarded
  BY DEF Awarded
<1>10. /\ IsFiniteSet(done) /\ w \notin done
       /\ Awarded' = done \cup {w}
  <2>1. \A k \in Winners(res) : Rank(res, k) \in Nat /\ k \in DOMAIN res
    BY <1>3, RankIsInjective DEF Winners
  <2>2. \A k \in Winners(res) : Rank(res, k) < i + 1 <=> (Rank(res, k) < i \/ k = w)
    BY <1>3, <1>6, <1>7, <2>1, RankIsInjective
  <2>3. Awarded' = {k \in Winners(res) : Rank(res, k) < i + 1}
    BY <1>1 DEF Awarded
  <2>4. Awarded' = done \cup {w}
    BY <1>8, <1>9, <2>2, <2>3 DEF Awarded
  <2>5. IsFiniteSet(done)
    BY <1>3, WinnersHaveSlots, FS_Subset
  <2> QED BY <1>8, <1>9, <2>4, <2>5
<1>11. /\ gross = GrossPrize(deposit, res, w) /\ gross \in Nat
       /\ agent = res[w].agent /\ stable \in Stables \cup {NoStable}
       /\ Wallet[agent] \in Addresses /\ owner \in Addresses /\ Treasury \in Addresses
  <2>1. gross = GrossPrize(deposit, res, w)
    BY <1>4, <1>7 DEF SlotPrize, GrossPrize, Bps
  <2>2. agent = res[w].agent
    BY <1>8
  <2>3. /\ GrossPrize(deposit, res, w) \in Nat
        /\ stableOf[res[w].agent] \in Stables \cup {NoStable}
        /\ Wallet[res[w].agent] \in Addresses
    BY <1>3, <1>8, WinnerFacts
  <2>4. owner \in Addresses /\ Treasury \in Addresses
    BY <2>2, <2>3, AllocationAssumption
  <2> QED BY <2>1, <2>2, <2>3, <2>4
<1>12. fee = ProtocolFee(gross) /\ cut = StableCut(gross, stable)
       /\ net = AgentCut(gross, stable)
  BY DEF ProtocolFee, StableCut, AgentCut, StableShare, Bps
<1>13. \A x : WinnerCredit(deposit, res, stableOf, x, w) =
         (IF x = Treasury THEN fee ELSE 0)
         + (IF stable # NoStable /\ x = StableOwner[stable] THEN cut ELSE 0)
         + (IF x = Wallet[agent] THEN net ELSE 0)
  <2>1. gross = GrossPrize(deposit, res, w) /\ agent = res[w].agent
    BY <1>11
  <2> QED BY <1>12, <2>1 DEF WinnerCredit
<1>14. (stable = NoStable => cut = 0 /\ owner = Treasury)
       /\ (stable # NoStable => owner = StableOwner[stable])
  BY DEF StableShare
<1> HIDE DEF agent, gross, fee, stable, cut, owner, net
<1>15. fee \in Nat /\ cut \in Nat /\ net \in Nat /\ fee + cut + net = gross
  <2>1. gross \in Nat /\ stable \in Stables \cup {NoStable}
    BY <1>11
  <2> QED BY <1>12, <2>1, PrizeSplits
<1>16. \A x \in Addresses : WinnerCredit(deposit, res, stableOf, x, w) =
         (IF x = Treasury THEN fee ELSE 0) + (IF x = owner THEN cut ELSE 0)
         + (IF x = Wallet[agent] THEN net ELSE 0)
  BY <1>13, <1>14, <1>15
<1>17. credited \in [Addresses -> Nat] /\ SumFunctionOnSet(credited, Addresses) \in Nat
       /\ totalDistributed \in Nat /\ allocated = totalDistributed
  <2>1. IsFiniteSet(Addresses) /\ \A x \in Addresses : credited[x] \in Nat
    BY <1>3, AllocationAssumption
  <2>2. SumFunctionOnSet(credited, Addresses) \in Nat
    BY <2>1, SumNat
  <2> QED BY <1>3, <1>4, <2>2 DEF PaidUpTo
<1>18. /\ totalDistributed' = totalDistributed + gross /\ allocated' = allocated + gross
       /\ credited' \in [Addresses -> Nat]
       /\ \A x \in Addresses :
            credited'[x] = credited[x] + WinnerCredit(deposit, res, stableOf, x, w)
       /\ SumFunctionOnSet(credited', Addresses) = SumFunctionOnSet(credited, Addresses) + gross
  <2>1. CASE gross = 0
    <3>1. fee = 0 /\ cut = 0 /\ net = 0
      BY <1>15, <2>1
    <3>2. \A x \in Addresses : WinnerCredit(deposit, res, stableOf, x, w) = 0
      BY <1>16, <3>1
    <3>3. credited' = credited /\ allocated' = allocated /\ totalDistributed' = totalDistributed
      BY <1>2, <2>1
    <3>4. \A x \in Addresses : credited[x] \in Nat
      BY <1>17
    <3> QED BY <1>17, <2>1, <3>2, <3>3, <3>4
  <2>2. CASE gross # 0
    <3>1. /\ totalDistributed' = totalDistributed + gross
          /\ credited' = AddAll(credited, Treasury, fee, owner, cut, Wallet[agent], net)
          /\ allocated' = allocated + fee + cut + net
      BY <1>2, <2>2
    <3>2. PICK b : b = credited
      OBVIOUS
    <3>3. PICK all : all = AddAll(b, Treasury, fee, owner, cut, Wallet[agent], net)
      OBVIOUS
    <3>4. b \in [Addresses -> Nat]
      BY <1>17, <3>2
    <3>5. /\ all \in [Addresses -> Nat]
          /\ \A x \in Addresses : all[x] =
               b[x] + ((IF x = Treasury THEN fee ELSE 0) + (IF x = owner THEN cut ELSE 0)
                        + (IF x = Wallet[agent] THEN net ELSE 0))
          /\ SumFunctionOnSet(all, Addresses)
               = SumFunctionOnSet(b, Addresses) + (fee + cut + net)
      <4>1. AllAdded(Treasury, fee, owner, cut, Wallet[agent], net, b, all)
        BY Zenon, <1>11, <1>15, <3>3, <3>4, AddAllAt
      <4> QED BY <4>1 DEF AllAdded
    <3>6. credited' = all
      BY Zenon, <3>1, <3>2, <3>3
    <3>7. \A x \in Addresses : all[x] = b[x] + WinnerCredit(deposit, res, stableOf, x, w)
      BY <1>16, <3>5
    <3>8. allocated' = allocated + gross
      BY <1>15, <1>17, <3>1
    <3>9. SumFunctionOnSet(all, Addresses) = SumFunctionOnSet(b, Addresses) + gross
      BY <1>15, <3>5
    <3> QED BY Zenon, <3>1, <3>2, <3>5, <3>6, <3>7, <3>8, <3>9
  <2> QED BY <2>1, <2>2
<1>19. SumFunctionOnSet(Gross(deposit, res), done \cup {w})
         = SumFunctionOnSet(Gross(deposit, res), done) + gross
  <2>1. \A k \in Winners(res) : Gross(deposit, res)[k] = GrossPrize(deposit, res, k)
    BY DEF Gross
  <2>2. \A k \in Winners(res) : GrossPrize(deposit, res, k) \in Nat
    BY <1>3, GrossIsPart
  <2>3. \A k \in done : Gross(deposit, res)[k] \in Int
    BY <2>1, <2>2
  <2>4. Gross(deposit, res)[w] \in Int /\ Gross(deposit, res)[w] = gross
    BY <1>8, <1>11, <2>1
  <2> QED BY <1>10, <2>3, <2>4, SumAdd
<1>20. ASSUME NEW x \in Addresses
       PROVE  SumFunctionOnSet(CreditOf(x), done \cup {w})
                = SumFunctionOnSet(CreditOf(x), done)
                    + WinnerCredit(deposit, res, stableOf, x, w)
  <2>1. \A k \in Winners(res) :
          CreditOf(x)[k] = WinnerCredit(deposit, res, stableOf, x, k)
    BY DEF CreditOf
  <2>2. \A k \in Winners(res) : WinnerCredit(deposit, res, stableOf, x, k) \in Nat
    BY <1>3, WinnerCreditsAddUp
  <2>3. \A k \in done : CreditOf(x)[k] \in Int
    BY <2>1, <2>2
  <2>4. CreditOf(x)[w] \in Int
        /\ CreditOf(x)[w] = WinnerCredit(deposit, res, stableOf, x, w)
    BY <1>8, <2>1, <2>2
  <2>5. SumFunctionOnSet(CreditOf(x), done \cup {w})
          = SumFunctionOnSet(CreditOf(x), done) + CreditOf(x)[w]
    BY <1>10, <2>3, <2>4, SumAdd
  <2> QED BY <2>4, <2>5
<1>21. /\ totalDistributed = SumFunctionOnSet(Gross(deposit, res), done)
       /\ allocated = totalDistributed
       /\ \A x \in Addresses : credited[x] = SumFunctionOnSet(CreditOf(x), done)
  BY <1>4, <1>9 DEF PaidUpTo
<1>22. /\ totalDistributed' = SumFunctionOnSet(Gross(deposit, res), done \cup {w})
       /\ allocated' = totalDistributed'
       /\ \A x \in Addresses :
            credited'[x] = SumFunctionOnSet(CreditOf(x), done \cup {w})
  BY <1>18, <1>19, <1>20, <1>21
<1>23. \A x : CreditOf(x)' = CreditOf(x)
  BY <1>1 DEF CreditOf
<1>24. PaidUpTo(Awarded)'
  BY <1>1, <1>10, <1>22, <1>23 DEF PaidUpTo
<1>25. i' \in 1 .. WinnersCount' + 1
  <2>1. WinnersCount' = c
    BY <1>1, <1>5 DEF WinnersCount
  <2>2. i' \in 1 .. c + 1
    BY <1>1, <1>6
  <2> QED BY <2>1, <2>2
<1>26. MoneyInv'
  BY <1>1, <1>4, <1>24, <1>25 DEF MoneyInv
<1>27. SortInv'
  BY <1>1, <1>3, <1>4 DEF SortInv, SortedByRank
<1>28. LoopTypeOK'
  BY <1>1, <1>3, <1>6, <1>18 DEF LoopTypeOK
<1>29. (SumFunctionOnSet(credited, Addresses) = allocated)'
  BY <1>4, <1>18
<1> QED BY <1>26, <1>27, <1>28, <1>29 DEF LoopInv

(* The rest of the bounty goes back: all winners are credited by now.      *)
LEMMA ReturnKeeps == ASSUME LoopInv, ReturnUndistributed PROVE LoopInv'
<1>1. /\ pc = "prizes" /\ i > WinnersCount /\ pc' = "close" /\ i' = i
      /\ refundAmount' = refundAmount + (effectiveBounty - totalDistributed)
      /\ deposit' = deposit /\ fees' = fees /\ res' = res /\ stableOf' = stableOf
      /\ ranked' = ranked /\ effectiveBounty' = effectiveBounty
      /\ credited' = credited /\ allocated' = allocated
      /\ totalDistributed' = totalDistributed
  BY DEF ReturnUndistributed, call
<1>2. /\ deposit \in Nat /\ fees \in Nat /\ res \in Seq(ScoreEntry) /\ Len(res) \in Nat
      /\ Len(res) > 0 /\ DOMAIN res = 1 .. Len(res)
      /\ ranked \in Seq(ScoreEntry) /\ Len(ranked) = Len(res) /\ i \in Nat
      /\ stableOf \in StableAnswers /\ credited \in [Addresses -> Nat]
  BY LoopFacts
<1>3. /\ effectiveBounty = EffectiveBounty(deposit, res)
      /\ PaidUpTo(Awarded) /\ refundAmount = deposit - effectiveBounty
      /\ \A k \in DOMAIN res : ranked[Rank(res, k)] = res[k]
      /\ SumFunctionOnSet(credited, Addresses) = allocated
  BY <1>1 DEF LoopInv, MoneyInv, SortInv, SortedByRank
<1>4. Awarded = Winners(res)
  <2>1. PICK c \in Nat : c = WinnersCount /\ (c = Len(res) \/ c = Len(PrizeDistribution))
    BY LoopFacts
  <2>2. \A k \in DOMAIN res : Rank(res, k) \in 1 .. Len(res)
    <3>1. PICK l \in Nat : l = Len(res) /\ l <= Len(res)
      <4>1. Len(res) \in Nat
        BY LoopFacts
      <4> QED BY <4>1
    <3>2. res \in Seq(ScoreEntry)
      BY <1>2
    <3>3. \A k \in 1 .. l : PlaceAmong(res, l, k) \in 1 .. l
      BY <3>1, <3>2, PlacesAreTaken
    <3> QED BY <1>2, <3>1, <3>3, PlaceIsRank
  <2>3. \A k \in Winners(res) : Rank(res, k) < i
    <3> SUFFICES ASSUME NEW k \in Winners(res) PROVE Rank(res, k) < i
      OBVIOUS
    <3>1. PICK r : r = Rank(res, k)
      OBVIOUS
    <3>2. r \in 1 .. Len(res) /\ r <= Len(PrizeDistribution)
      BY <2>2, <3>1 DEF Winners
    <3>3. r <= c
      BY <2>1, <3>2
    <3>4. c < i /\ i \in Nat /\ r \in Nat
      <4>1. i > c
        BY <1>1, <2>1
      <4>2. i \in Nat /\ c \in Nat /\ r \in Nat
        <5>1. i \in Nat
          BY LoopFacts
        <5>2. Len(res) \in Nat
          BY LoopFacts
        <5> QED BY <2>1, <3>2, <5>1, <5>2
      <4> QED BY <4>1, <4>2
    <3>5. r < i
      BY <3>3, <3>4
    <3> QED BY <3>1, <3>5
  <2> QED BY <2>3 DEF Awarded
<1>5. totalDistributed = TotalDistributed(deposit, res)
  BY <1>3, <1>4 DEF PaidUpTo, Gross, TotalDistributed
<1>6. refundAmount' = RefundAmount(deposit, res)
  BY <1>1, <1>3, <1>5 DEF RefundAmount
<1>7. PaidUpTo(Winners(res))'
  <2>1. PaidUpTo(Winners(res))
    BY <1>3, <1>4
  <2> QED BY <1>1, <2>1 DEF PaidUpTo, CreditOf
<1>8. MoneyInv'
  BY <1>1, <1>3, <1>6, <1>7 DEF MoneyInv
<1>9. SortInv' /\ LoopTypeOK'
  BY <1>1, <1>2, <1>3 DEF SortInv, SortedByRank, LoopTypeOK
<1> QED BY <1>1, <1>3, <1>8, <1>9 DEF LoopInv

(* The fees and the refund close the books.                                *)
LEMMA CloseKeeps == ASSUME LoopInv, Close PROVE LoopInv'
<1>1. /\ pc = "close" /\ pc' = "done" /\ i' = i
      /\ credited' = AddAll(credited, Treasury, fees, Sponsor, refundAmount, Sponsor, 0)
      /\ allocated' = allocated + fees + refundAmount
      /\ deposit' = deposit /\ fees' = fees /\ res' = res /\ stableOf' = stableOf
      /\ ranked' = ranked /\ effectiveBounty' = effectiveBounty
      /\ totalDistributed' = totalDistributed /\ refundAmount' = refundAmount
  BY DEF Close, call
<1>2. /\ deposit \in Nat /\ fees \in Nat /\ res \in Seq(ScoreEntry) /\ Len(res) \in Nat
      /\ Len(res) > 0 /\ DOMAIN res = 1 .. Len(res)
      /\ ranked \in Seq(ScoreEntry) /\ Len(ranked) = Len(res) /\ i \in Nat
      /\ stableOf \in StableAnswers /\ credited \in [Addresses -> Nat]
  BY LoopFacts
<1>3. /\ effectiveBounty = EffectiveBounty(deposit, res)
      /\ PaidUpTo(Winners(res)) /\ refundAmount = RefundAmount(deposit, res)
      /\ \A k \in DOMAIN res : ranked[Rank(res, k)] = res[k]
      /\ SumFunctionOnSet(credited, Addresses) = allocated
  BY <1>1 DEF LoopInv, MoneyInv, SortInv, SortedByRank
<1>4. /\ totalDistributed = TotalDistributed(deposit, res) /\ allocated = totalDistributed
      /\ \A x \in Addresses : credited[x] =
           SumFunctionOnSet([k \in Winners(res) |-> WinnerCredit(deposit, res, stableOf, x, k)],
                            Winners(res))
  BY <1>3 DEF PaidUpTo, Gross, TotalDistributed, CreditOf
<1>5. PICK total \in Nat, refund \in Nat :
        /\ total = totalDistributed /\ refund = refundAmount /\ refund + total = deposit
  BY <1>2, <1>3, <1>4, RefundIsRest, PrizesFitTheBounty
<1>6. PICK b : b = credited
  OBVIOUS
<1>7. PICK all : all = AddAll(b, Treasury, fees, Sponsor, refund, Sponsor, 0)
  OBVIOUS
<1>8. /\ b \in [Addresses -> Nat] /\ Treasury \in Addresses /\ Sponsor \in Addresses
      /\ 0 \in Nat
  BY <1>2, <1>6, AllocationAssumption
<1>9. /\ all \in [Addresses -> Nat]
      /\ \A x \in Addresses : all[x] =
           b[x] + ((IF x = Treasury THEN fees ELSE 0) + (IF x = Sponsor THEN refund ELSE 0)
                    + (IF x = Sponsor THEN 0 ELSE 0))
      /\ SumFunctionOnSet(all, Addresses) = SumFunctionOnSet(b, Addresses) + (fees + refund + 0)
  <2>1. AllAdded(Treasury, fees, Sponsor, refund, Sponsor, 0, b, all)
    BY Zenon, <1>2, <1>7, <1>8, AddAllAt
  <2> QED BY <2>1 DEF AllAdded
<1>10. credited' = all
  BY Zenon, <1>1, <1>5, <1>6, <1>7
<1>11. \A x \in Addresses : b[x] \in Nat
  BY <1>8
<1>12. \A x \in Addresses : all[x] =
         b[x] + (IF x = Treasury THEN fees ELSE 0) + (IF x = Sponsor THEN refund ELSE 0)
  BY <1>2, <1>9, <1>11
<1>13. \A x \in Addresses : all[x] = Credit(deposit, fees, res, stableOf, x)
  BY <1>3, <1>4, <1>5, <1>6, <1>12 DEF Credit
<1>14. allocated' = deposit + fees /\ SumFunctionOnSet(all, Addresses) = allocated'
  <2>1. allocated' = total + fees + refund /\ SumFunctionOnSet(b, Addresses) = total
    BY <1>1, <1>3, <1>4, <1>5, <1>6
  <2>2. total \in Nat /\ refund \in Nat /\ fees \in Nat /\ refund + total = deposit
    BY <1>2, <1>5
  <2>3. SumFunctionOnSet(all, Addresses) = total + (fees + refund + 0)
    BY <1>9, <2>1
  <2> QED BY <2>1, <2>2, <2>3
<1>15. MoneyInv'
  BY <1>1, <1>3, <1>4, <1>10, <1>13, <1>14 DEF MoneyInv
<1>16. SortInv' /\ LoopTypeOK'
  BY <1>1, <1>2, <1>3, <1>9, <1>10 DEF SortInv, SortedByRank, LoopTypeOK
<1> QED BY <1>10, <1>14, <1>15, <1>16 DEF LoopInv

----------------------------------------------------------------------------
(* The theorems                                                            *)

(* One entry is sorted, nobody is credited.                                *)
LEMMA LoopStarts == LoopInit => LoopInv
<1> SUFFICES ASSUME LoopInit PROVE LoopInv
  OBVIOUS
<1>1. /\ deposit \in Nat /\ fees \in Nat /\ res \in Seq(ScoreEntry) /\ res # <<>>
      /\ stableOf \in StableAnswers
  BY LoopAssumption DEF LoopInit, StableAnswers
<1>2. Len(res) \in Nat /\ Len(res) > 0
  BY <1>1
<1>3. /\ pc = "sort" /\ i = 2 /\ ranked = res /\ effectiveBounty = 0
      /\ credited = [x \in Addresses |-> 0]
      /\ allocated = 0 /\ totalDistributed = 0 /\ refundAmount = 0
  BY DEF LoopInit
<1>4. SortedUpTo(i - 1)
  <2>1. \A k \in 1 .. 1 : PlaceAmong(res, 1, k) \in 1 .. 1
    BY <1>1, <1>2, PlacesAreTaken
  <2>2. PlaceAmong(res, 1, 1) = 1
    BY <2>1
  <2>3. \A k \in 1 .. 1 : ranked[PlaceAmong(res, 1, k)] = res[k]
    BY <1>3, <2>2
  <2> QED BY <1>3, <2>3 DEF SortedUpTo
<1>5. SortInv
  BY <1>2, <1>3, <1>4 DEF SortInv, SortedByRank
<1>6. \A x \in Addresses : credited[x] = 0
  BY <1>3
<1>7. PaidUpTo({})
  BY <1>3, <1>6, SumEmpty DEF PaidUpTo
<1>8. MoneyInv
  BY <1>3, <1>7 DEF MoneyInv
<1>9. SumFunctionOnSet(credited, Addresses) = allocated
  <2>1. IsFiniteSet(Addresses)
    BY AllocationAssumption
  <2>2. SumFunctionOnSet(credited, Addresses) = 0
    BY <1>6, <2>1, SumZero
  <2> QED BY <1>3, <2>2
<1>10. LoopTypeOK
  BY <1>1, <1>2, <1>3 DEF LoopTypeOK
<1> QED BY <1>5, <1>8, <1>9, <1>10 DEF LoopInv

(* Between two steps nothing changes.                                      *)
LEMMA LoopStutters == ASSUME LoopInv, UNCHANGED loop_vars PROVE LoopInv'
<1>1. /\ deposit' = deposit /\ fees' = fees /\ res' = res /\ stableOf' = stableOf
      /\ pc' = pc /\ i' = i /\ j' = j /\ key' = key /\ ranked' = ranked
      /\ effectiveBounty' = effectiveBounty /\ credited' = credited
      /\ allocated' = allocated /\ totalDistributed' = totalDistributed
      /\ refundAmount' = refundAmount
  BY DEF loop_vars, call, money
<1>2. LoopTypeOK'
  BY <1>1 DEF LoopInv, LoopTypeOK
<1>3. SortInv'
  BY <1>1 DEF LoopInv, SortInv, SortedByRank, SortedUpTo, ShiftedFrom
<1>4. MoneyInv'
  BY <1>1 DEF LoopInv, MoneyInv, PaidUpTo, CreditOf, Awarded, WinnersCount
<1> QED BY <1>1, <1>2, <1>3, <1>4 DEF LoopInv

(* The invariant holds at every turn of the loops.                         *)
LEMMA LoopInvHolds == LoopSpec => []LoopInv
<1>1. LoopInit => LoopInv
  BY LoopStarts
<1>2. LoopInv /\ [LoopNext]_loop_vars => LoopInv'
  BY PickKeyKeeps, ShiftKeeps, PlaceKeeps, ChoosePayoutKeeps, AwardKeeps, ReturnKeeps,
     CloseKeeps, LoopStutters DEF LoopNext
<1> QED BY <1>1, <1>2, PTL DEF LoopSpec

(* No more is distributed than the payout, no checked subtraction of       *)
(* finalize() underflows, and the wei credited are the wei allocated at    *)
(* every turn of the loop.                                                 *)
THEOREM LoopsLoseNothing == LoopSpec => []NothingLost
<1>1. LoopInv => NothingLost
  <2> SUFFICES ASSUME LoopInv PROVE NothingLost
    OBVIOUS
  <2>1. /\ deposit \in Nat /\ fees \in Nat /\ res \in Seq(ScoreEntry)
        /\ pc \in {"sort", "shift", "prizes", "close", "done"}
    BY DEF LoopInv, LoopTypeOK
  <2>2. SumFunctionOnSet(credited, Addresses) = allocated
    BY DEF LoopInv
  <2>3. /\ TotalDistributed(deposit, res) \in Nat
        /\ TotalDistributed(deposit, res) <= EffectiveBounty(deposit, res)
        /\ EffectiveBounty(deposit, res) \in Nat
        /\ EffectiveBounty(deposit, res) <= deposit
    BY <2>1, PrizesFitTheBounty, EffectiveIsPart
  <2>4. CASE pc \in {"sort", "shift"}
    <3>1. PaidUpTo({}) /\ effectiveBounty = 0
      BY <2>4 DEF LoopInv, MoneyInv
    <3>2. totalDistributed = 0 /\ allocated = totalDistributed
      BY <3>1, SumEmpty DEF PaidUpTo
    <3> QED BY <2>1, <2>2, <2>4, <3>1, <3>2 DEF NothingLost
  <2>5. CASE pc = "prizes"
    <3>1. PaidUpTo(Awarded) /\ effectiveBounty = EffectiveBounty(deposit, res)
      BY <2>5 DEF LoopInv, MoneyInv
    <3>2. PICK V \in SUBSET Winners(res) : V = Awarded
      BY DEF Awarded
    <3>3. totalDistributed = SumFunctionOnSet(Gross(deposit, res), V)
          /\ allocated = totalDistributed
      BY <3>1, <3>2 DEF PaidUpTo
    <3>4. \A k \in Winners(res) : Gross(deposit, res)[k] \in Nat
      BY <2>1, GrossIsPart DEF Gross
    <3>5. IsFiniteSet(Winners(res))
      BY <2>1, WinnersHaveSlots
    <3>6. SumFunctionOnSet(Gross(deposit, res), V)
            <= SumFunctionOnSet(Gross(deposit, res), Winners(res))
      BY <3>4, <3>5, SumSubset
    <3>7. SumFunctionOnSet(Gross(deposit, res), Winners(res)) = TotalDistributed(deposit, res)
      BY DEF Gross, TotalDistributed
    <3>8. IsFiniteSet(V) /\ \A k \in V : Gross(deposit, res)[k] \in Nat
      BY <3>4, <3>5, FS_Subset
    <3>9. SumFunctionOnSet(Gross(deposit, res), V) \in Nat
      BY <3>8, SumNat
    <3>10. totalDistributed <= effectiveBounty /\ effectiveBounty <= deposit
      BY <2>1, <2>3, <3>1, <3>3, <3>6, <3>7, <3>9
    <3> QED BY <2>2, <2>5, <3>3, <3>10 DEF NothingLost
  <2>6. CASE pc = "close"
    <3>1. /\ PaidUpTo(Winners(res)) /\ effectiveBounty = EffectiveBounty(deposit, res)
      BY <2>6 DEF LoopInv, MoneyInv
    <3>2. totalDistributed = TotalDistributed(deposit, res) /\ allocated = totalDistributed
      BY <3>1 DEF PaidUpTo, Gross, TotalDistributed
    <3> QED BY <2>2, <2>3, <2>6, <3>1, <3>2 DEF NothingLost
  <2>7. CASE pc = "done"
    <3>1. /\ totalDistributed = TotalDistributed(deposit, res)
          /\ effectiveBounty = EffectiveBounty(deposit, res) /\ allocated = deposit + fees
      BY <2>7 DEF LoopInv, MoneyInv
    <3> QED BY <2>2, <2>3, <2>7, <3>1 DEF NothingLost
  <2> QED BY <2>1, <2>4, <2>5, <2>6, <2>7
<1> QED BY <1>1, LoopInvHolds, PTL

(* The insertion sort ranks, and the loops of finalize() end with what     *)
(* PrizeAllocation states in closed form: the step that BountyRound takes  *)
(* for the whole call computes what the machine computes.                  *)
THEOREM LoopsComputeClosedForm == LoopSpec => []ClosedForm
<1>1. LoopInv => ClosedForm
  <2> SUFFICES ASSUME LoopInv PROVE ClosedForm
    OBVIOUS
  <2>1. /\ deposit \in Nat /\ fees \in Nat /\ res \in Seq(ScoreEntry)
        /\ stableOf \in StableAnswers
    BY LoopFacts
  <2>2. Allocated(deposit, fees, res, stableOf) = deposit + fees
    BY <2>1, AllocatedIsEverything
  <2>3. SortedByRank /\ MoneyInv
    BY DEF LoopInv, SortInv
  <2> QED BY <2>2, <2>3 DEF ClosedForm, MoneyInv
<1> QED BY <1>1, LoopInvHolds, PTL
=============================================================================
