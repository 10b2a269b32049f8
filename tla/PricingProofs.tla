--------------------------- MODULE PricingProofs ---------------------------
(***************************************************************************)
(* Proofs about module Pricing, for any prices, limits and widths.         *)
(***************************************************************************)
EXTENDS Pricing, TLAPS

-----------------------------------------------------------------------------
(* Arithmetic.                                                             *)

\* The largest of two and of three, and the least of a few, are what they are called.
LEMMA MaxOfTwo ==
  ASSUME NEW a \in Int, NEW b \in Int
  PROVE  Max({a, b}) \in {a, b} /\ Max({a, b}) >= a /\ Max({a, b}) >= b
<1>1. \E x \in {a, b} : \A y \in {a, b} : x >= y
  OBVIOUS
<1>2. QED
  BY <1>1 DEF Max

LEMMA MaxOfThree ==
  ASSUME NEW a \in Int, NEW b \in Int, NEW c \in Int
  PROVE  LET m == Max({a, b, c}) IN m \in {a, b, c} /\ m >= a /\ m >= b /\ m >= c
<1>1. \E x \in {a, b, c} : \A y \in {a, b, c} : x >= y
  OBVIOUS
<1>2. QED
  BY <1>1 DEF Max

LEMMA MaxOfFive ==
  ASSUME NEW a \in Int, NEW b \in Int, NEW c \in Int, NEW d \in Int, NEW e \in Int
  PROVE  LET m == Max({a, b, c, d, e}) IN
         m \in {a, b, c, d, e} /\ m >= a /\ m >= b /\ m >= c /\ m >= d /\ m >= e
<1>1. \E x \in {a, b, c, d, e} : \A y \in {a, b, c, d, e} : x >= y
  <2>1. PICK x \in {a, b, c} : x >= a /\ x >= b /\ x >= c
    OBVIOUS
  <2>2. PICK y \in {d, e} : y >= d /\ y >= e
    OBVIOUS
  <2>3. QED
    BY <2>1, <2>2
<1>2. Max({a, b, c, d, e}) \in {a, b, c, d, e}
      /\ \A y \in {a, b, c, d, e} : Max({a, b, c, d, e}) >= y
  BY <1>1 DEF Max
<1>3. QED
  BY <1>2

LEMMA MinOfFour ==
  ASSUME NEW a \in Int, NEW b \in Int, NEW c \in Int, NEW d \in Int
  PROVE  LET m == Min({a, b, c, d}) IN m \in {a, b, c, d} /\ m <= a /\ m <= b /\ m <= c /\ m <= d
<1>1. \E x \in {a, b, c, d} : \A y \in {a, b, c, d} : x <= y
  <2>1. PICK x \in {a, b} : x <= a /\ x <= b
    OBVIOUS
  <2>2. PICK y \in {c, d} : y <= c /\ y <= d
    OBVIOUS
  <2>3. QED
    BY <2>1, <2>2
<1>2. QED
  BY <1>1 DEF Min

LEMMA MinOfSix ==
  ASSUME NEW a \in Int, NEW b \in Int, NEW c \in Int, NEW d \in Int, NEW e \in Int, NEW f \in Int
  PROVE  LET m == Min({a, b, c, d, e, f}) IN
         m \in Int /\ m <= a /\ m <= b /\ m <= c /\ m <= d /\ m <= e /\ m <= f
<1>1. \E x \in {a, b, c, d, e, f} : \A y \in {a, b, c, d, e, f} : x <= y
  <2>1. PICK x \in {a, b, c} : x <= a /\ x <= b /\ x <= c
    OBVIOUS
  <2>2. PICK y \in {d, e, f} : y <= d /\ y <= e /\ y <= f
    OBVIOUS
  <2>3. QED
    BY <2>1, <2>2
<1>2. Min({a, b, c, d, e, f}) \in {a, b, c, d, e, f}
      /\ \A y \in {a, b, c, d, e, f} : Min({a, b, c, d, e, f}) <= y
  BY <1>1 DEF Min
<1>3. QED
  BY <1>2

LEMMA TimesMonotone ==
  ASSUME NEW a \in Nat, NEW b \in Nat, NEW c \in Nat, b <= c
  PROVE  a * b \in Nat /\ a * b <= a * c /\ b * a <= c * a
<1>1. c = b + (c - b) /\ c - b \in Nat
  OBVIOUS
<1>2. \A d \in Nat : a * (b + d) = a * b + a * d /\ a * d \in Nat
  OBVIOUS
<1>3. QED
  BY <1>1, <1>2

LEMMA DivMonotone ==
  ASSUME NEW u \in Nat \ {0}, NEW a \in Nat, NEW b \in Nat, a <= b
  PROVE  a \div u \in Nat /\ a \div u <= b \div u
<1>. DEFINE p == a \div u
            q == b \div u
<1>1. p \in Nat /\ q \in Nat /\ u * p <= a /\ b < u * q + u
  OBVIOUS
<1>. HIDE DEF p, q
<1>2. SUFFICES ASSUME q < p
               PROVE  FALSE
  BY <1>1 DEF p, q
<1>3. q + 1 <= p /\ q + 1 \in Nat
  BY <1>1, <1>2
<1>4. u * (q + 1) <= u * p
  BY <1>1, <1>3, TimesMonotone
<1>5. u * (q + 1) = u * q + u
  BY <1>1
<1>6. u * p \in Nat /\ u * q \in Nat
  BY <1>1
<1>7. QED
  BY <1>1, <1>4, <1>5, <1>6

\* Tokens at prices of at most m cost at most m each.
LEMMA WeightedSum ==
  ASSUME NEW a \in Nat, NEW b \in Nat, NEW c \in Nat,
         NEW x \in Nat, NEW y \in Nat, NEW z \in Nat, NEW m \in Nat, x <= m, y <= m, z <= m
  PROVE  a * x + b * y + c * z \in Nat /\ a * x + b * y + c * z <= (a + b + c) * m
<1>1. /\ a * x \in Nat /\ a * x <= a * m
      /\ b * y \in Nat /\ b * y <= b * m
      /\ c * z \in Nat /\ c * z <= c * m
  BY TimesMonotone
<1>2. (a + b + c) * m = a * m + b * m + c * m
  OBVIOUS
<1>3. a * m \in Nat /\ b * m \in Nat /\ c * m \in Nat
  OBVIOUS
<1>4. QED
  BY <1>1, <1>2, <1>3

-----------------------------------------------------------------------------
(* Costs.                                                                  *)

\* Rounding up keeps the order, and a sum below one that fits does fit.
LEMMA PricedMonotone ==
  ASSUME ConstantsOK, NEW a \in Nat, NEW b \in Nat, a <= b, Priced(b) # Overflow
  PROVE  Priced(a) \in Nat /\ Priced(a) <= Priced(b)
<1>1. /\ a + Unit - 1 \in Nat /\ b + Unit - 1 \in Nat /\ a + Unit - 1 <= b + Unit - 1
      /\ Unit \in Nat \ {0}
  BY DEF ConstantsOK
<1>2. (a + Unit - 1) \div Unit \in Nat /\ (a + Unit - 1) \div Unit <= (b + Unit - 1) \div Unit
  BY <1>1, DivMonotone
<1>3. b <= MaxInt - (Unit - 1) /\ a <= MaxInt - (Unit - 1)
  BY DEF Priced, ConstantsOK
<1>4. Priced(a) = (a + Unit - 1) \div Unit /\ Priced(b) = (b + Unit - 1) \div Unit
  BY <1>1, <1>3 DEF Priced, ConstantsOK
<1>5. QED
  BY <1>2, <1>4

\* A policy that may be sold has positive prices; the dearest are what they are called.
LEMMA UsablePrices ==
  ASSUME ConstantsOK, policy \in Policy, Usable(policy)
  PROVE  /\ policy.input \in Nat /\ policy.output \in Nat /\ policy.creation \in Nat
         /\ policy.read \in Nat /\ policy.maxInput \in Nat /\ policy.maxOutput \in Nat
         /\ DearestInput(policy) \in Nat
         /\ policy.input <= DearestInput(policy) /\ policy.creation <= DearestInput(policy)
         /\ policy.read <= DearestInput(policy)
         /\ LET m == Max({DearestInput(policy), policy.output}) IN
            m \in Nat /\ DearestInput(policy) <= m /\ policy.output <= m
<1>1. /\ policy.input \in Int /\ policy.output \in Int /\ policy.creation \in Int
      /\ policy.read \in Int /\ policy.maxInput \in Int /\ policy.maxOutput \in Int
  BY DEF ConstantsOK, Policy
<1>2. /\ policy.input > 0 /\ policy.output > 0 /\ policy.creation > 0
      /\ policy.read > 0 /\ policy.maxInput > 0 /\ policy.maxOutput > 0
  <2>1. LET m == Min({policy.input, policy.output, policy.creation, policy.read, policy.maxInput, policy.maxOutput})
        IN m \in Int /\ m > 0
           /\ m <= policy.input /\ m <= policy.output /\ m <= policy.creation
           /\ m <= policy.read /\ m <= policy.maxInput /\ m <= policy.maxOutput
    BY <1>1, MinOfSix DEF Usable
  <2>2. QED
    BY <1>1, <2>1
<1>3. LET m == Max({policy.input, policy.creation, policy.read}) IN
      m \in {policy.input, policy.creation, policy.read}
      /\ m >= policy.input /\ m >= policy.creation /\ m >= policy.read
  BY <1>1, MaxOfThree
<1>4. /\ DearestInput(policy) \in Nat
      /\ policy.input <= DearestInput(policy) /\ policy.creation <= DearestInput(policy)
      /\ policy.read <= DearestInput(policy)
  BY <1>1, <1>2, <1>3 DEF DearestInput
<1>5. LET m == Max({DearestInput(policy), policy.output}) IN
      m \in {DearestInput(policy), policy.output} /\ m >= DearestInput(policy) /\ m >= policy.output
  <2>. DEFINE d == DearestInput(policy)
  <2>1. d \in Int /\ policy.output \in Int
    BY <1>1, <1>4
  <2>. HIDE DEF d
  <2>2. LET m == Max({d, policy.output}) IN m \in {d, policy.output} /\ m >= d /\ m >= policy.output
    BY <2>1, MaxOfTwo
  <2>3. QED
    BY <2>2 DEF d
<1>6. QED
  BY <1>1, <1>2, <1>4, <1>5

\* The products of a usage, added up.
Products(p, t) == t.input * p.input + t.output * p.output + t.creation * p.creation + t.read * p.read

\* A true usage is priced by its products; they are bounded by those of the hold, and by the
\* total at the dearest price.
LEMMA TrueProducts ==
  ASSUME ConstantsOK, policy \in Policy, Usable(policy), NEW t \in Truth
  PROVE  /\ Products(policy, t) \in Nat
         /\ CostUsageChecked(policy, t.input, t.output, t.creation, t.read) = Priced(Products(policy, t))
         /\ Products(policy, t) <=
              (t.input + t.output + t.creation + t.read) * Max({DearestInput(policy), policy.output})
         /\ (t.input + t.output + t.creation + t.read) * Max({DearestInput(policy), policy.output}) \in Nat
         /\ \A n \in Nat : /\ t.input + t.creation + t.read <= policy.maxInput
                           /\ t.output <= n
                           => /\ policy.maxInput * DearestInput(policy) + n * policy.output \in Nat
                              /\ Products(policy, t) <= policy.maxInput * DearestInput(policy) + n * policy.output
<1>. DEFINE i == t.input
            o == t.output
            c == t.creation
            r == t.read
            d == DearestInput(policy)
            m == Max({DearestInput(policy), policy.output})
            pi == policy.input
            po == policy.output
            pc == policy.creation
            pr == policy.read
            most == policy.maxInput
<1>1. i \in Nat /\ o \in Nat /\ c \in Nat /\ r \in Nat
  BY DEF ConstantsOK, Truth
<1>2. /\ pi \in Nat /\ po \in Nat /\ pc \in Nat /\ pr \in Nat /\ most \in Nat
      /\ d \in Nat /\ pi <= d /\ pc <= d /\ pr <= d
      /\ m \in Nat /\ d <= m /\ po <= m
  BY UsablePrices
<1>3. Products(policy, t) = i * pi + o * po + c * pc + r * pr
  BY DEF Products
<1>4. CostUsageChecked(policy, t.input, t.output, t.creation, t.read) = Priced(Products(policy, t))
  <2>. HIDE DEF i, o, c, r
  <2>1. i \in Int /\ o \in Int /\ c \in Int /\ r \in Int
    BY <1>1
  <2>2. Min({i, o, c, r}) \in {i, o, c, r}
    BY <2>1, MinOfFour
  <2>3. ~(Min({i, o, c, r}) < 0)
    BY <1>1, <2>2
  <2>4. QED
    BY <2>3 DEF CostUsageChecked, Products, i, o, c, r
<1>. HIDE DEF i, o, c, r, d, m, pi, po, pc, pr, most
<1>5. /\ i * pi + c * pc + r * pr \in Nat /\ i * pi + c * pc + r * pr <= (i + c + r) * d
      /\ o * po \in Nat /\ i * pi \in Nat /\ c * pc \in Nat /\ r * pr \in Nat
  BY <1>1, <1>2, WeightedSum
<1>6. Products(policy, t) = (i * pi + c * pc + r * pr) + o * po
  BY <1>3, <1>5
<1>7. i + c + r \in Nat /\ (i + c + r) * d \in Nat /\ (i + c + r) * m \in Nat /\ o * m \in Nat
  BY <1>1, <1>2
<1>8. (i + o + c + r) * m \in Nat /\ Products(policy, t) <= (i + o + c + r) * m
  <2>1. (i + c + r) * d <= (i + c + r) * m /\ o * po <= o * m
    BY <1>1, <1>2, <1>7, TimesMonotone
  <2>2. (i + o + c + r) * m = (i + c + r) * m + o * m
    BY <1>1, <1>2
  <2>3. QED
    BY <1>5, <1>6, <1>7, <2>1, <2>2
<1>9. ASSUME NEW n \in Nat, i + c + r <= most, o <= n
      PROVE  most * d + n * po \in Nat /\ Products(policy, t) <= most * d + n * po
  <2>1. (i + c + r) * d <= most * d /\ o * po <= n * po /\ most * d \in Nat /\ n * po \in Nat
    BY <1>1, <1>2, <1>7, <1>9, TimesMonotone
  <2>2. QED
    BY <1>5, <1>6, <1>7, <2>1
<1>10. Products(policy, t) \in Nat
  BY <1>5, <1>6
<1>11. QED
  BY <1>4, <1>8, <1>9, <1>10 DEF i, o, c, r, d, m, pi, po, pc, pr, most

-----------------------------------------------------------------------------
(* What is reported, and what it costs.                                    *)

\* What an honest report is understood to say: nothing wrong, and no contradiction.
LEMMA HonestUnderstood ==
  ASSUME ConstantsOK, NEW t \in Truth, NEW u \in Honest(t)
  PROVE  LET c == Completed(u) IN
         /\ ~Contradictory(u)
         /\ c.creation = t.creation /\ c.read = t.read
         /\ c.inputKnown \in BOOLEAN /\ c.outputKnown \in BOOLEAN /\ c.totalKnown \in BOOLEAN
         /\ c.inputKnown => c.input = t.input
         /\ c.outputKnown => c.output = t.output
         /\ c.totalKnown => c.total = t.input + t.output + t.creation + t.read
         /\ c.input \in {0, t.input} /\ c.output \in {0, t.output}
         /\ c.total \in {0, t.input + t.output + t.creation + t.read}
<1>1. /\ t.input \in Nat /\ t.output \in Nat /\ t.creation \in Nat /\ t.read \in Nat
  BY DEF ConstantsOK, Truth
<1>2. PICK i \in BOOLEAN, o \in BOOLEAN, k \in BOOLEAN :
        u = [input |-> IF i THEN t.input ELSE 0, output |-> IF o THEN t.output ELSE 0,
             creation |-> t.creation, read |-> t.read,
             total |-> IF k THEN t.input + t.output + t.creation + t.read ELSE 0,
             inputKnown |-> i, outputKnown |-> o, totalKnown |-> k]
  BY DEF Honest
<1>. DEFINE c == Completed(u)
<1>3. CASE k /\ i /\ ~o
  <2>1. c = [u EXCEPT !.outputKnown = TRUE, !.output = u.total - (u.input + CacheTokens(u))]
    BY <1>2, <1>3 DEF Completed
  <2>2. /\ c.inputKnown /\ c.outputKnown /\ c.totalKnown
        /\ c.input = t.input /\ c.output = u.total - (u.input + CacheTokens(u))
        /\ c.creation = t.creation /\ c.read = t.read
        /\ c.total = t.input + t.output + t.creation + t.read
    BY <1>2, <1>3, <2>1
  <2>3. c.output = t.output
    BY <1>1, <1>2, <1>3, <2>2 DEF CacheTokens
  <2>4. ~Contradictory(u)
    BY <1>1, <1>2, <1>3, <2>2, <2>3 DEF Contradictory, CacheTokens
  <2>5. QED
    BY <2>2, <2>3, <2>4
<1>4. CASE k /\ ~i /\ o
  <2>1. c = [u EXCEPT !.inputKnown = TRUE, !.input = u.total - (u.output + CacheTokens(u))]
    BY <1>2, <1>4 DEF Completed
  <2>2. /\ c.inputKnown /\ c.outputKnown /\ c.totalKnown
        /\ c.output = t.output /\ c.input = u.total - (u.output + CacheTokens(u))
        /\ c.creation = t.creation /\ c.read = t.read
        /\ c.total = t.input + t.output + t.creation + t.read
    BY <1>2, <1>4, <2>1
  <2>3. c.input = t.input
    BY <1>1, <1>2, <1>4, <2>2 DEF CacheTokens
  <2>4. ~Contradictory(u)
    BY <1>1, <1>2, <1>4, <2>2, <2>3 DEF Contradictory, CacheTokens
  <2>5. QED
    BY <2>2, <2>3, <2>4
<1>5. CASE ~k \/ (i <=> o)
  <2>1. c = u
    BY <1>2, <1>5 DEF Completed
  <2>2. ~Contradictory(u)
    BY <1>1, <1>2, <1>5, <2>1 DEF Contradictory, CacheTokens
  <2>3. QED
    BY <1>2, <2>1, <2>2
<1>6. QED
  BY <1>3, <1>4, <1>5

\* A report in doubt contradicts itself.
LEMMA DoubtContradicts ==
  ASSUME ConstantsOK, NEW t \in Truth, NEW u \in Garbled(t),
         u.output < 0 \/ (u.inputKnown /\ u.outputKnown /\ u.totalKnown)
  PROVE  Contradictory(u)
<1>1. /\ t.input \in Nat /\ t.output \in Nat /\ t.creation \in Nat /\ t.read \in Nat
      /\ t.output # MaxCount + 1 /\ MaxCount \in Nat
  BY DEF ConstantsOK, Truth
<1>0. PICK r \in Honest(t) :
       \/ \E d \in {-1, 1} : u = [r EXCEPT !.total = @ + d] /\ r.totalKnown
       \/ \E n \in {-1, MaxCount + 1} : u = [r EXCEPT !.output = n, !.outputKnown = TRUE]
  <2>1. ASSUME NEW d \in {-1, 1}, u \in TotalOff(t, d)
        PROVE  \E r \in Honest(t) : u = [r EXCEPT !.total = @ + d] /\ r.totalKnown
    BY <2>1 DEF TotalOff
  <2>2. ASSUME NEW n \in {-1, MaxCount + 1}, u \in OutputSaid(t, n)
        PROVE  \E r \in Honest(t) : u = [r EXCEPT !.output = n, !.outputKnown = TRUE]
    BY <2>2 DEF OutputSaid
  <2>3. \/ \E d \in {-1, 1} : u \in TotalOff(t, d)
        \/ \E n \in {-1, MaxCount + 1} : u \in OutputSaid(t, n)
    BY DEF Garbled
  <2>4. QED
    BY <2>1, <2>2, <2>3
<1>2. PICK i \in BOOLEAN, o \in BOOLEAN, k \in BOOLEAN :
        r = [input |-> IF i THEN t.input ELSE 0, output |-> IF o THEN t.output ELSE 0,
             creation |-> t.creation, read |-> t.read,
             total |-> IF k THEN t.input + t.output + t.creation + t.read ELSE 0,
             inputKnown |-> i, outputKnown |-> o, totalKnown |-> k]
  BY DEF Honest
<1>3. ASSUME NEW d \in {-1, 1}, u = [r EXCEPT !.total = @ + d], r.totalKnown
      PROVE  Contradictory(u)
  <2>1. /\ k /\ u.input = r.input /\ u.output = r.output /\ u.creation = t.creation /\ u.read = t.read
        /\ u.inputKnown = i /\ u.outputKnown = o /\ u.totalKnown = k /\ u.total = r.total + d
    BY <1>2, <1>3
  <2>2. i /\ o
    BY <1>1, <1>2, <2>1
  <2>3. Completed(u) = u
    BY <2>1, <2>2 DEF Completed
  <2>4. u.input + CacheTokens(u) + u.output # u.total
    BY <1>1, <1>2, <2>1, <2>2 DEF CacheTokens
  <2>5. QED
    BY <2>1, <2>2, <2>3, <2>4 DEF Contradictory
<1>4. ASSUME NEW n \in {-1, MaxCount + 1}, u = [r EXCEPT !.output = n, !.outputKnown = TRUE]
      PROVE  Contradictory(u)
  <2>1. /\ u.input = r.input /\ u.output = n /\ u.creation = t.creation /\ u.read = t.read
        /\ u.inputKnown = i /\ u.outputKnown = TRUE /\ u.totalKnown = k /\ u.total = r.total
    BY <1>2, <1>4
  <2>2. CASE n = -1
    BY <2>1, <2>2 DEF Contradictory
  <2>3. CASE n = MaxCount + 1
    <3>1. i /\ k
      BY <1>1, <2>1, <2>3
    <3>2. Completed(u) = u
      BY <2>1, <3>1 DEF Completed
    <3>3. u.input + CacheTokens(u) + u.output # u.total
      BY <1>1, <1>2, <2>1, <2>3, <3>1 DEF CacheTokens
    <3>4. QED
      BY <2>1, <3>1, <3>2, <3>3 DEF Contradictory
  <2>4. QED
    BY <2>2, <2>3
<1>5. QED
  BY <1>0, <1>3, <1>4

-----------------------------------------------------------------------------
(* What is recorded.                                                       *)

\* A report and what it is understood to say have counts and flags.
Counted(u) == /\ u.input \in Int /\ u.output \in Int /\ u.creation \in Int /\ u.read \in Int
              /\ u.total \in Int
              /\ u.inputKnown \in BOOLEAN /\ u.outputKnown \in BOOLEAN /\ u.totalKnown \in BOOLEAN

Fields == {"input", "output", "creation", "read", "total", "inputKnown", "outputKnown", "totalKnown"}

LEMMA HonestCounted ==
  ASSUME ConstantsOK, NEW t \in Truth, NEW u \in Honest(t)
  PROVE  Counted(u) /\ DOMAIN u = Fields
<1>1. /\ t.input \in Nat /\ t.output \in Nat /\ t.creation \in Nat /\ t.read \in Nat
  BY DEF ConstantsOK, Truth
<1>2. QED
  BY <1>1 DEF Honest, Counted, Fields

LEMMA ReportCounted ==
  ASSUME ConstantsOK, NEW t \in Truth, NEW u \in Honest(t) \cup Garbled(t)
  PROVE  Counted(u) /\ DOMAIN u = Fields
<1>1. ASSUME NEW d \in {-1, 1}, u \in TotalOff(t, d)
      PROVE  Counted(u) /\ DOMAIN u = Fields
  <2>1. PICK r \in Honest(t) : u = [r EXCEPT !.total = r.total + d]
    BY <1>1 DEF TotalOff
  <2>2. Counted(r) /\ DOMAIN r = Fields
    BY HonestCounted
  <2>3. QED
    BY <2>1, <2>2 DEF Counted, Fields
<1>2. ASSUME NEW n \in {-1, MaxCount + 1}, u \in OutputSaid(t, n)
      PROVE  Counted(u) /\ DOMAIN u = Fields
  <2>1. PICK r \in Honest(t) : u = [r EXCEPT !.output = n, !.outputKnown = TRUE]
    BY <1>2 DEF OutputSaid
  <2>2. Counted(r) /\ DOMAIN r = Fields
    BY HonestCounted
  <2>3. n \in Int
    BY DEF ConstantsOK
  <2>4. QED
    BY <2>1, <2>2, <2>3 DEF Counted, Fields
<1>3. QED
  BY <1>1, <1>2, HonestCounted DEF Garbled

\* What follows from a total that is known keeps this, and completes both parts or none.
LEMMA CompletedCounted ==
  ASSUME ConstantsOK, NEW t \in Truth, NEW u \in Honest(t) \cup Garbled(t)
  PROVE  LET c == Completed(u) IN
         /\ Counted(c) /\ c.creation = u.creation /\ c.read = u.read
         /\ ~Contradictory(u) /\ c.inputKnown /\ c.outputKnown =>
              c.input >= 0 /\ c.output >= 0 /\ c.creation >= 0 /\ c.read >= 0
<1>1. Counted(u)
  BY ReportCounted
<1>2. DOMAIN u = Fields
  BY ReportCounted
<1>. DEFINE c == Completed(u)
<1>3. Counted(c) /\ c.creation = u.creation /\ c.read = u.read
  <2>1. CASE u.totalKnown /\ u.inputKnown /\ ~u.outputKnown
    <3>1. c = [u EXCEPT !.outputKnown = TRUE, !.output = u.total - (u.input + CacheTokens(u))]
      BY <2>1 DEF Completed
    <3>2. u.total - (u.input + CacheTokens(u)) \in Int
      BY <1>1 DEF Counted, CacheTokens
    <3>3. QED
      BY <1>1, <1>2, <3>1, <3>2 DEF Counted, Fields
  <2>2. CASE u.totalKnown /\ ~u.inputKnown /\ u.outputKnown
    <3>1. c = [u EXCEPT !.inputKnown = TRUE, !.input = u.total - (u.output + CacheTokens(u))]
      BY <2>2 DEF Completed
    <3>2. u.total - (u.output + CacheTokens(u)) \in Int
      BY <1>1 DEF Counted, CacheTokens
    <3>3. QED
      BY <1>1, <1>2, <3>1, <3>2 DEF Counted, Fields
  <2>3. CASE ~u.totalKnown \/ (u.inputKnown <=> u.outputKnown)
    BY <1>1, <2>3 DEF Completed, Counted
  <2>4. QED
    BY <1>1, <2>1, <2>2, <2>3 DEF Counted
<1>4. ASSUME ~Contradictory(u), c.inputKnown, c.outputKnown
      PROVE  c.input >= 0 /\ c.output >= 0 /\ c.creation >= 0 /\ c.read >= 0
  <2>1. u.creation >= 0 /\ u.read >= 0
    BY <1>1, <1>4 DEF Contradictory, Counted
  <2>2. CASE u.totalKnown
    <3>1. ~(c.input < 0) /\ ~(c.output < 0)
      BY <1>4, <2>2 DEF Contradictory
    <3>2. QED
      BY <1>3, <2>1, <3>1 DEF Counted
  <2>3. CASE ~u.totalKnown
    <3>1. c = u
      BY <2>3 DEF Completed
    <3>2. QED
      BY <1>1, <1>4, <2>1, <3>1 DEF Contradictory, Counted
  <2>4. QED
    BY <1>1, <2>2, <2>3 DEF Counted
<1>5. QED
  BY <1>3, <1>4

LEMMA SafeValues ==
  ASSUME NEW n \in Int
  PROVE  SafeTokenValue(n) \in Nat /\ (n >= 0 => SafeTokenValue(n) = n) /\ (n < 0 => SafeTokenValue(n) = 0)
BY MaxOfTwo DEF SafeTokenValue

\* The counts of a consumption are none below zero; the complete ones price to its cost.
LEMMA ConsumptionCounts ==
  ASSUME ConstantsOK, NEW t \in Truth, NEW u \in Honest(t) \cup Garbled(t)
  PROVE  LET k == ConsumptionOf(u) IN
         /\ k.input \in Nat /\ k.output \in Nat /\ k.creation \in Nat /\ k.read \in Nat /\ k.total \in Nat
         /\ k.cost = SettlementCost(u)
         /\ k.complete => CostUsageChecked(policy, k.input, k.output, k.creation, k.read) = k.cost
         /\ u \in Honest(t) =>
              /\ k.complete => /\ k.input = t.input /\ k.output = t.output
                               /\ k.creation = t.creation /\ k.read = t.read
              /\ k.input <= t.input /\ k.output <= t.output /\ k.creation <= t.creation /\ k.read <= t.read
              /\ k.total <= t.input + t.output + t.creation + t.read
<1>. DEFINE k == ConsumptionOf(u)
            c == Completed(u)
            b == IF Contradictory(u) THEN u ELSE c
<1>1. k = [input |-> SafeTokenValue(b.input), output |-> SafeTokenValue(b.output),
           creation |-> SafeTokenValue(b.creation), read |-> SafeTokenValue(b.read),
           total |-> SafeTokenValue(b.total),
           cost |-> SettlementCost(u), complete |-> Exact(u)]
  BY DEF ConsumptionOf
<1>2. Counted(u) /\ Counted(c) /\ Counted(b)
  BY ReportCounted, CompletedCounted
<1>3. /\ k.input = SafeTokenValue(b.input) /\ k.output = SafeTokenValue(b.output)
      /\ k.creation = SafeTokenValue(b.creation) /\ k.read = SafeTokenValue(b.read)
      /\ k.total = SafeTokenValue(b.total) /\ k.cost = SettlementCost(u) /\ k.complete = Exact(u)
  BY <1>1
<1>4. /\ k.input \in Nat /\ k.output \in Nat /\ k.creation \in Nat /\ k.read \in Nat /\ k.total \in Nat
  BY <1>2, <1>3, SafeValues DEF Counted
<1>5. ASSUME k.complete
      PROVE  /\ k.input = c.input /\ k.output = c.output /\ k.creation = c.creation /\ k.read = c.read
             /\ CostUsageChecked(policy, c.input, c.output, c.creation, c.read) = SettlementCost(u)
             /\ ~Contradictory(u) /\ c.inputKnown /\ c.outputKnown
  <2>1. /\ ~Contradictory(u) /\ c.inputKnown /\ c.outputKnown
        /\ CostUsageChecked(policy, c.input, c.output, c.creation, c.read) # Overflow
    BY <1>3, <1>5 DEF Exact
  <2>2. b = c /\ c.input >= 0 /\ c.output >= 0 /\ c.creation >= 0 /\ c.read >= 0
    BY <2>1, CompletedCounted
  <2>3. /\ k.input = c.input /\ k.output = c.output /\ k.creation = c.creation /\ k.read = c.read
    BY <1>2, <1>3, <2>2, SafeValues DEF Counted
  <2>4. CostUsageChecked(policy, c.input, c.output, c.creation, c.read) = SettlementCost(u)
    BY <2>1 DEF SettlementCost, OrWholeHold
  <2>5. QED
    BY <2>1, <2>3, <2>4
<1>6. ASSUME u \in Honest(t)
      PROVE  /\ k.complete => /\ k.input = t.input /\ k.output = t.output
                              /\ k.creation = t.creation /\ k.read = t.read
             /\ k.input <= t.input /\ k.output <= t.output /\ k.creation <= t.creation /\ k.read <= t.read
             /\ k.total <= t.input + t.output + t.creation + t.read
  <2>1. /\ t.input \in Nat /\ t.output \in Nat /\ t.creation \in Nat /\ t.read \in Nat
    BY DEF ConstantsOK, Truth
  <2>2. /\ ~Contradictory(u)
        /\ c.creation = t.creation /\ c.read = t.read
        /\ c.inputKnown => c.input = t.input
        /\ c.outputKnown => c.output = t.output
        /\ c.input \in {0, t.input} /\ c.output \in {0, t.output}
        /\ c.total \in {0, t.input + t.output + t.creation + t.read}
    BY <1>6, HonestUnderstood
  <2>3. b = c
    BY <2>2
  <2>4. /\ k.input = c.input /\ k.output = c.output /\ k.creation = c.creation /\ k.read = c.read
        /\ k.total = c.total
    BY <1>2, <1>3, <2>1, <2>2, <2>3, SafeValues DEF Counted
  <2>5. QED
    BY <1>5, <2>1, <2>2, <2>4
<1>7. QED
  BY <1>3, <1>4, <1>5, <1>6

-----------------------------------------------------------------------------
(* The invariant.                                                          *)

\* The hold was priced at the worst that its limits allow.
Held == LET worst == ReservationCost(policy, hold.maxOutput) IN
        /\ Usable(policy) /\ hold.maxOutput \in Nat
        /\ worst # Overflow /\ worst <= hold.amount /\ hold.amount \in Nat

\* The cost is that of the report, and was compared with the hold.
Settled == /\ truth \in Truth /\ report \in Honest(truth) \cup Garbled(truth)
           /\ cost = SettlementCost(report)
           /\ phase = "exceeded" => cost > hold.amount

\* A row is the consumption of the report, and fits; a conflict is about one that does not.
Recorded == /\ written # NoRow => /\ Charged
                                 /\ written = ConsumptionOf(report)
                              /\ ConsumptionParams(ConsumptionOf(report)) # NoRow
            /\ phase = "conflict" => written = NoRow /\ ConsumptionParams(ConsumptionOf(report)) = NoRow

PriceInv == /\ policy \in Policy
            /\ phase \in Phases
            /\ phase \notin {"quote", "rejected"} => Held
            /\ phase \in {"exceeded", "billed", "recorded", "conflict"} => Settled
            /\ Recorded

\* What is used within the limits costs no more than the hold.
LEMMA HoldCovers ==
  ASSUME ConstantsOK, policy \in Policy, Held, truth \in Truth, WithinLimits
  PROVE  TrueCost \in Nat /\ TrueCost <= hold.amount
<1>1. /\ Usable(policy) /\ hold.maxOutput \in Nat /\ hold.amount \in Nat
      /\ ReservationCost(policy, hold.maxOutput) # Overflow
      /\ ReservationCost(policy, hold.maxOutput) <= hold.amount
  BY DEF Held
<1>. DEFINE a == Products(policy, truth)
            b == policy.maxInput * DearestInput(policy) + hold.maxOutput * policy.output
<1>2. a \in Nat /\ b \in Nat /\ a <= b /\ TrueCost = Priced(a)
  BY <1>1, TrueProducts DEF WithinLimits, TrueCost
<1>3. ReservationCost(policy, hold.maxOutput) = Priced(b)
  BY DEF ReservationCost
<1>. HIDE DEF a, b
<1>4. Priced(a) \in Nat /\ Priced(a) <= Priced(b) /\ Priced(b) \in Nat
  BY <1>1, <1>2, <1>3, PricedMonotone
<1>5. QED
  BY <1>1, <1>2, <1>3, <1>4

\* What an honest report costs: the truth where it is known or follows, more than that where
\* only the total is, and else the hold.
LEMMA HonestCosts ==
  ASSUME ConstantsOK, policy \in Policy, Usable(policy), NEW t \in Truth, NEW u \in Honest(t)
  PROVE  LET c == Completed(u)
             true == CostUsageChecked(policy, t.input, t.output, t.creation, t.read)
         IN
         \/ SettlementCost(u) = hold.amount
         \/ c.inputKnown /\ c.outputKnown /\ true # Overflow /\ SettlementCost(u) = true
         \/ /\ ~(c.inputKnown /\ c.outputKnown)
            /\ true \in Nat /\ SettlementCost(u) \in Nat /\ true <= SettlementCost(u)
<1>. DEFINE c == Completed(u)
            total == t.input + t.output + t.creation + t.read
            most == total * Max({DearestInput(policy), policy.output})
<1>1. /\ ~Contradictory(u)
      /\ c.creation = t.creation /\ c.read = t.read
      /\ c.inputKnown \in BOOLEAN /\ c.outputKnown \in BOOLEAN /\ c.totalKnown \in BOOLEAN
      /\ c.inputKnown => c.input = t.input
      /\ c.outputKnown => c.output = t.output
      /\ c.totalKnown => c.total = total
  BY HonestUnderstood
<1>2. /\ Products(policy, t) \in Nat /\ most \in Nat /\ Products(policy, t) <= most
      /\ CostUsageChecked(policy, t.input, t.output, t.creation, t.read) = Priced(Products(policy, t))
  BY TrueProducts
<1>. HIDE DEF c
<1>3. CASE c.inputKnown /\ c.outputKnown
  <2>1. SettlementCost(u) = OrWholeHold(CostUsageChecked(policy, t.input, t.output, t.creation, t.read))
    BY <1>1, <1>3 DEF SettlementCost, c
  <2>2. QED
    BY <1>3, <2>1 DEF OrWholeHold, c
<1>4. CASE ~c.inputKnown /\ ~c.outputKnown /\ c.totalKnown
  <2>1. SettlementCost(u) = OrWholeHold(ConservativeTotalCost(policy, c.total))
    BY <1>1, <1>4 DEF SettlementCost, c
  <2>2. ConservativeTotalCost(policy, c.total) = Priced(most)
    BY <1>1, <1>4 DEF ConservativeTotalCost
  <2>3. CASE Priced(most) = Overflow
    BY <2>1, <2>2, <2>3 DEF OrWholeHold
  <2>4. CASE Priced(most) # Overflow
    <3>1. SettlementCost(u) = Priced(most)
      BY <2>1, <2>2, <2>4 DEF OrWholeHold
    <3>. HIDE DEF most
    <3>2. /\ Priced(Products(policy, t)) \in Nat /\ Priced(most) \in Nat
          /\ Priced(Products(policy, t)) <= Priced(most)
      BY <1>2, <2>4, PricedMonotone
    <3>3. QED
      BY <1>2, <1>4, <3>1, <3>2 DEF c
  <2>5. QED
    BY <2>3, <2>4
<1>5. CASE ~(c.inputKnown /\ c.outputKnown) /\ ~(~c.inputKnown /\ ~c.outputKnown /\ c.totalKnown)
  BY <1>1, <1>5 DEF SettlementCost, c
<1>6. QED
  BY <1>3, <1>4, <1>5

\* Settled stays true while nothing it speaks of changes.
LEMMA SameSettled ==
  ASSUME Settled, UNCHANGED <<policy, hold, truth, report, cost>>, phase' # "exceeded" \/ phase = "exceeded"
  PROVE  Settled'
<1>1. SettlementCost(report)' = SettlementCost(report)
  BY DEF SettlementCost, OrWholeHold
<1>2. QED
  BY <1>1 DEF Settled

LEMMA SameConsumptionOf ==
  ASSUME UNCHANGED <<policy, hold, report>>
  PROVE  ConsumptionOf(report)' = ConsumptionOf(report)
BY DEF ConsumptionOf, SettlementCost, OrWholeHold, Exact

LEMMA InitPrice == PricingInit => PriceInv
BY DEF PricingInit, PriceInv, Phases, Recorded

LEMMA NextPrice == ConstantsOK /\ PriceInv /\ [PricingNext]_pricingVars => PriceInv'
<1>. SUFFICES ASSUME ConstantsOK, PriceInv, [PricingNext]_pricingVars
              PROVE  PriceInv'
  OBVIOUS
<1>1. ASSUME NEW requested \in Limits \cup {0}, Quote(requested)
      PROVE  PriceInv'
  <2>. DEFINE maxOutput == MaxOutput(requested)
              worst     == ReservationCost(policy, maxOutput)
  <2>1. policy \in Policy /\ UNCHANGED <<policy, truth, report, cost, written>> /\ written = NoRow
    BY <1>1 DEF PriceInv, Recorded, Charged, Quote
  <2>2. CASE phase' = "rejected"
    BY <2>1, <2>2 DEF PriceInv, Phases, Recorded
  <2>3. CASE phase' # "rejected"
    <3>1. /\ phase' = "held" /\ Usable(policy) /\ maxOutput \in 1..policy.maxOutput /\ worst # Overflow
          /\ hold' = [amount |-> Max({worst, DefaultReserve}), maxOutput |-> maxOutput]
      BY <1>1, <2>3 DEF Quote
    <3>2. maxOutput \in Nat /\ hold'.maxOutput = maxOutput /\ hold'.amount = Max({worst, DefaultReserve})
      BY <3>1
    <3>3. worst \in Nat
      <4>. DEFINE b == policy.maxInput * DearestInput(policy) + maxOutput * policy.output
      <4>1. b \in Nat
        BY <2>1, <3>1, <3>2, UsablePrices
      <4>2. worst = Priced(b)
        BY DEF ReservationCost
      <4>. HIDE DEF b, worst
      <4>3. QED
        BY <3>1, <4>1, <4>2, PricedMonotone
    <3>4. hold'.amount \in Nat /\ worst <= hold'.amount
      <4>. HIDE DEF worst
      <4>1. worst \in Int /\ DefaultReserve \in Int /\ DefaultReserve \in Nat
        BY <3>3 DEF ConstantsOK
      <4>2. /\ Max({worst, DefaultReserve}) \in {worst, DefaultReserve}
            /\ Max({worst, DefaultReserve}) >= worst
        BY <4>1, MaxOfTwo
      <4>3. QED
        BY <3>2, <3>3, <4>1, <4>2
    <3>5. ReservationCost(policy, hold.maxOutput)' = worst
      BY <2>1, <3>2 DEF ReservationCost, DearestInput
    <3>6. Usable(policy)'
      BY <2>1, <3>1 DEF Usable
    <3>7. Held'
      BY <3>1, <3>2, <3>4, <3>5, <3>6 DEF Held
    <3>8. QED
      BY <2>1, <3>1, <3>7 DEF PriceInv, Phases, Recorded
  <2>4. QED
    BY <2>2, <2>3
<1>2. ASSUME NEW w \in Usages, Settle(w[1], w[2]), phase = "held"
      PROVE  PriceInv'
  <2>1. Held' /\ policy' \in Policy
    BY <1>2 DEF PriceInv, Held, Settle
  <2>2. truth' = w[1] /\ report' = w[2] /\ cost' = SettlementCost(w[2])
    BY <1>2 DEF Settle
  <2>3. w[1] \in Truth /\ w[2] \in Honest(w[1]) \cup Garbled(w[1])
    BY DEF Usages
  <2>4. SettlementCost(report)' = SettlementCost(w[2])
    BY <1>2, <2>2 DEF Settle, SettlementCost, OrWholeHold
  <2>5. phase' \in {"exceeded", "billed"} /\ (phase' = "exceeded" => cost' > hold'.amount)
    BY <1>2 DEF Settle
  <2>6. Settled'
    BY <2>2, <2>3, <2>4, <2>5 DEF Settled
  <2>7. written' = NoRow
    BY <1>2 DEF PriceInv, Recorded, Charged, Settle
  <2>8. QED
    BY <2>1, <2>5, <2>6, <2>7 DEF PriceInv, Phases, Recorded
<1>3. CASE RecordConsumption
  <2>1. /\ phase = "billed" /\ phase' \in {"conflict", "recorded", "billed"}
        /\ UNCHANGED <<policy, hold, truth, report, cost>>
    BY <1>3 DEF RecordConsumption
  <2>2. Held' /\ Settled'
    BY <2>1, SameSettled DEF PriceInv, Held
  <2>. DEFINE c == ConsumptionOf(report)
  <2>3. c' = c
    BY <2>1, SameConsumptionOf
  <2>4. written # NoRow => written = c /\ ConsumptionParams(c) # NoRow
    BY DEF PriceInv, Recorded
  <2>5. ConsumptionParams(c) # NoRow => ConsumptionParams(c) = c
    BY DEF ConsumptionParams
  <2>6. IF ConsumptionParams(c) = NoRow \/ (written # NoRow /\ ~SameConsumption(written, c))
        THEN phase' = "conflict" /\ written' = written
        ELSE written' = ConsumptionParams(c) /\ phase' \in {"recorded", "billed"}
    BY <1>3 DEF RecordConsumption
  <2>. HIDE DEF c
  <2>7. CASE ConsumptionParams(c) = NoRow
    <3>1. phase' = "conflict" /\ written' = NoRow
      BY <2>4, <2>6, <2>7
    <3>2. Recorded'
      BY <2>3, <2>7, <3>1 DEF Recorded, c
    <3>3. QED
      BY <2>1, <2>2, <3>2 DEF PriceInv, Phases
  <2>8. CASE ConsumptionParams(c) # NoRow
    <3>1. written' = c /\ phase' \in {"recorded", "billed"}
      BY <2>4, <2>5, <2>6, <2>8 DEF SameConsumption
    <3>2. Recorded'
      BY <2>3, <2>8, <3>1 DEF Recorded, Charged, c
    <3>3. QED
      BY <2>1, <2>2, <3>2 DEF PriceInv, Phases
  <2>9. QED
    BY <2>7, <2>8
<1>4. CASE UNCHANGED pricingVars
  <2>1. Recorded'
    BY <1>4, SameConsumptionOf DEF pricingVars, PriceInv, Recorded, Charged
  <2>2. QED
    BY <1>4, <2>1, SameSettled DEF pricingVars, PriceInv, Phases, Held
<1>5. QED
  BY <1>1, <1>2, <1>3, <1>4 DEF PricingNext

-----------------------------------------------------------------------------
(* The theorems.                                                           *)

\* What is charged, given the invariant.
LEMMA InvCharges ==
  ASSUME ConstantsOK, PriceInv
  PROVE  ChargeSound /\ ExactSettles
<1>1. ASSUME Charged \/ phase = "exceeded"
      PROVE  Held /\ Settled /\ policy \in Policy /\ Usable(policy) /\ hold.amount \in Nat
  BY <1>1 DEF PriceInv, Charged, Held
<1>2. NeverUndercharged
  <2>. SUFFICES ASSUME Charged, report \in Honest(truth), WithinLimits
                PROVE  cost >= TrueCost
    BY DEF NeverUndercharged
  <2>1. TrueCost \in Nat /\ TrueCost <= hold.amount /\ hold.amount \in Nat /\ cost = SettlementCost(report)
    BY <1>1, HoldCovers DEF Settled
  <2>2. \/ cost = hold.amount
        \/ cost = TrueCost
        \/ cost \in Nat /\ TrueCost <= cost
    BY <1>1, HonestCosts DEF Settled, TrueCost
  <2>3. QED
    BY <2>1, <2>2
<1>3. ExactSettles
  <2>. SUFFICES ASSUME phase = "exceeded", report \in Honest(truth), WithinLimits,
                       Completed(report).inputKnown, Completed(report).outputKnown
                PROVE  FALSE
    BY DEF ExactSettles
  <2>1. TrueCost \in Nat /\ TrueCost <= hold.amount /\ hold.amount \in Nat /\ cost > hold.amount
    BY <1>1, HoldCovers DEF Settled
  <2>2. cost = hold.amount \/ cost = TrueCost
    BY <1>1, HonestCosts DEF Settled, TrueCost
  <2>3. QED
    BY <2>1, <2>2
<1>4. DoubtCostsTheHold
  <2>. SUFFICES ASSUME Charged \/ phase = "exceeded", report \in Garbled(truth),
                       report.output < 0 \/ (report.inputKnown /\ report.outputKnown /\ report.totalKnown)
                PROVE  phase # "exceeded" /\ cost = hold.amount
    BY DEF DoubtCostsTheHold
  <2>1. Contradictory(report)
    BY <1>1, DoubtContradicts DEF Settled
  <2>2. cost = hold.amount
    BY <1>1, <2>1 DEF Settled, SettlementCost
  <2>3. QED
    BY <1>1, <2>2 DEF Settled
<1>5. QED
  BY <1>2, <1>3, <1>4 DEF ChargeSound

\* What is recorded, given the invariant.
LEMMA InvCounts ==
  ASSUME ConstantsOK, PriceInv
  PROVE  CountsExact
<1>. DEFINE k == ConsumptionOf(report)
<1>1. ASSUME Charged
      PROVE  /\ Held /\ Settled /\ cost = k.cost
             /\ k.input \in Nat /\ k.output \in Nat /\ k.creation \in Nat /\ k.read \in Nat /\ k.total \in Nat
             /\ k.complete => CostUsageChecked(policy, k.input, k.output, k.creation, k.read) = k.cost
             /\ report \in Honest(truth) =>
                  /\ k.complete => /\ k.input = truth.input /\ k.output = truth.output
                                   /\ k.creation = truth.creation /\ k.read = truth.read
                  /\ k.input <= truth.input /\ k.output <= truth.output
                  /\ k.creation <= truth.creation /\ k.read <= truth.read
                  /\ k.total <= truth.input + truth.output + truth.creation + truth.read
  <2>1. Held /\ Settled
    BY <1>1 DEF PriceInv, Charged
  <2>2. QED
    BY <2>1, ConsumptionCounts DEF Settled
<1>2. ASSUME Charged
      PROVE  LET m == Max(Counts(k)) IN
             /\ m \in {k.input, k.output, k.creation, k.read, k.total}
             /\ m >= k.input /\ m >= k.output /\ m >= k.creation /\ m >= k.read /\ m >= k.total
  <2>1. /\ k.input \in Int /\ k.output \in Int /\ k.creation \in Int /\ k.read \in Int /\ k.total \in Int
    BY <1>1, <1>2
  <2>. HIDE DEF k
  <2>2. QED
    BY <2>1, MaxOfFive DEF Counts
<1>. HIDE DEF k
<1>3. ASSUME written # NoRow
      PROVE  /\ written.cost = cost /\ Counts(written) \subseteq 0..MaxCount
             /\ written.complete => CostUsageChecked(policy, written.input, written.output, written.creation, written.read) = cost
             /\ written.complete /\ report \in Honest(truth) =>
                  [j \in {"input", "output", "creation", "read"} |-> written[j]] = truth
  <2>1. Charged /\ written = k /\ ConsumptionParams(k) # NoRow
    BY <1>3 DEF PriceInv, Recorded, k
  <2>2. ~(Max(Counts(k)) > MaxCount)
    BY <2>1 DEF ConsumptionParams
  <2>3. Counts(written) \subseteq 0..MaxCount
    BY <1>1, <1>2, <2>1, <2>2 DEF Counts, ConstantsOK
  <2>4. ASSUME written.complete, report \in Honest(truth)
        PROVE  [j \in {"input", "output", "creation", "read"} |-> written[j]] = truth
    <3>1. /\ written.input = truth.input /\ written.output = truth.output
          /\ written.creation = truth.creation /\ written.read = truth.read
      BY <1>1, <2>1, <2>4
    <3>2. truth \in Truth
      BY <1>1, <2>1 DEF Settled
    <3>3. QED
      BY <3>1, <3>2 DEF Truth
  <2>5. QED
    BY <1>1, <2>1, <2>3, <2>4
<1>4. ASSUME phase = "conflict"
      PROVE  /\ written = NoRow
             /\ report \in Honest(truth) /\ WithinLimits => policy.maxInput + hold.maxOutput > MaxCount
  <2>1. Charged /\ written = NoRow /\ ConsumptionParams(k) = NoRow
    BY <1>4 DEF PriceInv, Recorded, Charged, k
  <2>2. ASSUME report \in Honest(truth), WithinLimits
        PROVE  policy.maxInput + hold.maxOutput > MaxCount
    <3>1. k.cost # NoRow.cost
      <4>1. /\ policy \in Policy /\ Usable(policy) /\ truth \in Truth /\ hold.amount \in Nat
            /\ k.cost = SettlementCost(report) /\ TrueCost \in Nat
        BY <1>1, <2>1, <2>2, HoldCovers DEF PriceInv, Held, Settled
      <4>2. SettlementCost(report) \in Nat
        BY <2>2, <4>1, HonestCosts DEF TrueCost
      <4>3. QED
        BY <4>1, <4>2 DEF NoRow
    <3>2. Max(Counts(k)) > MaxCount
      BY <2>1, <3>1 DEF ConsumptionParams
    <3>3. /\ truth.input \in Nat /\ truth.output \in Nat /\ truth.creation \in Nat /\ truth.read \in Nat
      BY <1>1, <2>1 DEF ConstantsOK, Truth, Settled
    <3>4. /\ policy.maxInput \in Nat /\ hold.maxOutput \in Nat
          /\ truth.input + truth.creation + truth.read <= policy.maxInput /\ truth.output <= hold.maxOutput
      BY <1>1, <2>1, <2>2, UsablePrices DEF WithinLimits, PriceInv, Held
    <3>5. Max(Counts(k)) <= truth.input + truth.output + truth.creation + truth.read
      BY <1>1, <1>2, <2>1, <2>2, <3>3
    <3>6. MaxCount \in Nat /\ Max(Counts(k)) \in Nat
      BY <1>1, <1>2, <2>1 DEF ConstantsOK
    <3>7. QED
      BY <3>2, <3>3, <3>4, <3>5, <3>6
  <2>3. QED
    BY <2>1, <2>2
<1>5. QED
  BY <1>3, <1>4 DEF CountsExact

\* The invariant of a request's charge, in every state.
LEMMA AlwaysPrice ==
  ASSUME ConstantsOK
  PROVE  PricingSpec => []PriceInv
<1>1. PricingInit => PriceInv
  BY InitPrice
<1>2. PriceInv /\ [PricingNext]_pricingVars => PriceInv'
  BY NextPrice
<1>3. QED
  BY <1>1, <1>2, PTL DEF PricingSpec

\* Whichever parts of the usage a provider leaves out, a request within its limits is charged
\* at least what its tokens cost, and a report in doubt costs exactly the hold
\* (settlementCost and Reserve of billing.go).
THEOREM ChargesSound ==
  ASSUME ConstantsOK
  PROVE  PricingSpec => []ChargeSound
<1>1. PriceInv => ChargeSound
  BY InvCharges
<1>2. QED
  BY AlwaysPrice, <1>1, PTL

\* Usage within the limits whose parts are known settles within the hold, so that no honest
\* answer is beyond what was withheld for it (estimate and settlementCost of billing.go).
THEOREM ExactUsageSettles ==
  ASSUME ConstantsOK
  PROVE  PricingSpec => []ExactSettles
<1>1. PriceInv => ExactSettles
  BY InvCharges
<1>2. QED
  BY AlwaysPrice, <1>1, PTL

\* The counts that are recorded fit their columns and belong to the charge, those called
\* complete are the true ones, and honest usage within limits whose sum the columns hold is
\* never refused (consumptionParams and samePostgresConsumption).
THEOREM CountsTrue ==
  ASSUME ConstantsOK
  PROVE  PricingSpec => []CountsExact
<1>1. PriceInv => CountsExact
  BY InvCounts
<1>2. QED
  BY AlwaysPrice, <1>1, PTL
=============================================================================
