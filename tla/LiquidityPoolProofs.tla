------------------------- MODULE LiquidityPoolProofs -------------------------
(***************************************************************************)
(* Proofs about the liquidity pool, for all values of the constants.       *)
(*                                                                         *)
(* The code keeps totals beside the records they sum up: LIQUIDITY_STATS   *)
(* beside the records of the providers, ALL_FEES beside what each of them  *)
(* has earned, the contract's tokens beside both.  No operation recounts.  *)
(*                                                                         *)
(*   PoolInv    types, prefix sums that never fall, unstaking in bounds,   *)
(*              and totals that are the sums of the records, during a      *)
(*              reset of those the crank has not reached                   *)
(*   Solvent    is inductive with it                                       *)
(*   ValueKept  holds of every step from it                                *)
(*   BackedInv  fees cover the exact claims, before they are rounded: the  *)
(*              rounded ones are not inductive, as rounding each of two    *)
(*              accruals down is not rounding their sum down               *)
(***************************************************************************)
EXTENDS LiquidityPool, FiniteSums, SequenceTheorems

------------------------------------------------------------------------------
(* Proofs: arithmetic.                                                     *)

\* Products are monotone.
LEMMA TimesMono ==
  ASSUME NEW a \in Nat, NEW b \in Nat, NEW c \in Nat, a =< b
  PROVE  a * c \in Nat /\ b * c \in Nat /\ a * c =< b * c
OBVIOUS

\* A quotient rounds down.
LEMMA Quotient ==
  ASSUME NEW a \in Nat, NEW n \in Nat \ {0}
  PROVE  a \div n \in Nat /\ (a \div n) * n =< a
OBVIOUS

\* A factor cancels.
LEMMA TimesLess ==
  ASSUME NEW a \in Nat, NEW b \in Nat, NEW c \in Nat \ {0}, a * c =< b * c
  PROVE  a =< b
<1> SUFFICES ASSUME b + 1 =< a PROVE FALSE
  OBVIOUS
<1>1. (b + 1) * c =< a * c
  BY TimesMono
<1>2. (b + 1) * c = b * c + c /\ b * c \in Nat
  BY TimesMono
<1> QED BY <1>1, <1>2

\* Products of decimals round down.
LEMMA MulType ==
  ASSUME NEW a \in Nat, NEW b \in Nat
  PROVE  Mul(a, b) \in Nat /\ Mul(a, b) * One =< a * b
<1>1. a * b \in Nat
  BY TimesMono
<1> QED BY <1>1, Quotient, DecimalAssumption DEF Mul

\* Quotients of decimals round down.
LEMMA DivType ==
  ASSUME NEW a \in Nat, NEW b \in Nat \ {0}
  PROVE  Div(a, b) \in Nat /\ Div(a, b) * b =< a * One
<1>1. a * One \in Nat
  BY TimesMono, DecimalAssumption
<1> QED BY <1>1, Quotient DEF Div

\* A ratio of an amount is part of it.
LEMMA MulRatio ==
  ASSUME NEW a \in Nat, NEW r \in 0..One
  PROVE  Mul(a, r) \in Nat /\ Mul(a, r) =< a
<1>1. Mul(a, r) \in Nat /\ Mul(a, r) * One =< a * r
  BY MulType, DecimalAssumption
<1>2. r * a =< One * a
  BY TimesMono, DecimalAssumption
<1>3. Mul(a, r) * One =< a * One
  BY <1>1, <1>2, DecimalAssumption
<1> HIDE DEF Mul
<1> QED BY <1>1, <1>3, TimesLess, DecimalAssumption

------------------------------------------------------------------------------
(* Proofs: the record of a provider.                                       *)

\* At time t an unstaking has collected no more than time allows.
UnstakingOk(u, t) ==
  /\ u \in Unstaking
  /\ u # NoUnstaking =>
       /\ u.started =< u.last /\ u.last =< t
       /\ u.collected < u.xlp
       /\ u.collected * UnstakePeriod =< u.xlp * (u.last - u.started)

\* A record at time t, when there are n prefix sums.
RecordOk(r, t, n) ==
  /\ r \in Stats
  /\ r.key \in 1..n
  /\ UnstakingOk(r.unstaking, t)

\* What can be collected at once is what the time since the last collection
\* allows, and all that is left at the end.
LEMMA UnstakedBound ==
  ASSUME now \in Nat, NEW u, UnstakingOk(u, now), u # NoUnstaking
  PROVE  /\ Unstaked(u) \in Nat
         /\ u.collected + Unstaked(u) =< u.xlp
         /\ u.collected + Unstaked(u) # u.xlp =>
              (u.collected + Unstaked(u)) * UnstakePeriod =< u.xlp * (now - u.started)
<1> DEFINE d == now - u.last
           q == Div(d, UnstakePeriod)
           v == Mul(q, u.xlp)
           w == u.last - u.started
<1> USE ConfigAssumption, DecimalAssumption
<1>1. /\ u.xlp \in Nat /\ u.collected \in Nat /\ u.started \in Nat /\ u.last \in Nat
      /\ d \in Nat /\ w \in Nat
  BY DEF UnstakingOk, Unstaking
<1>2. CASE now - u.started >= UnstakePeriod
  BY <1>1, <1>2 DEF Unstaked, UnstakingOk
<1>3. CASE now - u.started < UnstakePeriod
  <2>1. q \in Nat /\ q * UnstakePeriod =< d * One
    BY <1>1, DivType
  <2>2. v \in Nat /\ v * One =< q * u.xlp
    BY <1>1, <2>1, MulType
  <2>3. Unstaked(u) = v
    BY <1>3, <1>1 DEF Unstaked
  <2> HIDE DEF d, q, v, w
  <2>4. v * UnstakePeriod =< u.xlp * d
    <3>1. (v * One) * UnstakePeriod =< (q * u.xlp) * UnstakePeriod
      BY <1>1, <2>1, <2>2, TimesMono
    <3>2. (q * UnstakePeriod) * u.xlp =< (d * One) * u.xlp
      BY <1>1, <2>1, TimesMono
    <3>3. (q * u.xlp) * UnstakePeriod = (q * UnstakePeriod) * u.xlp
      BY <1>1, <2>1
    <3>4. (v * UnstakePeriod) * One =< (u.xlp * d) * One
      BY <1>1, <2>1, <2>2, <3>1, <3>2, <3>3
    <3>5. v * UnstakePeriod \in Nat /\ u.xlp * d \in Nat
      BY <1>1, <2>2, TimesMono
    <3> QED BY <3>4, <3>5, TimesLess
  <2>5. u.collected * UnstakePeriod =< u.xlp * w
    BY DEF w, UnstakingOk
  <2>6. (u.collected + v) * UnstakePeriod =< u.xlp * (now - u.started)
    <3>1. now - u.started = w + d
      BY <1>1 DEF w, d
    <3>2. (u.collected + v) * UnstakePeriod = u.collected * UnstakePeriod + v * UnstakePeriod
      BY <1>1, <2>2
    <3>3. u.xlp * (w + d) = u.xlp * w + u.xlp * d
      BY <1>1
    <3>4. u.collected * UnstakePeriod + v * UnstakePeriod =< u.xlp * w + u.xlp * d
      BY <1>1, <2>2, <2>4, <2>5, TimesMono
    <3> QED BY <3>1, <3>2, <3>3, <3>4
  <2>7. u.collected + v =< u.xlp
    <3>1. now - u.started \in Nat /\ now - u.started =< UnstakePeriod
      BY <1>1, <1>3 DEF w, d
    <3>2. (now - u.started) * u.xlp =< UnstakePeriod * u.xlp
      BY <1>1, <3>1, TimesMono
    <3>3. (u.collected + v) * UnstakePeriod =< u.xlp * UnstakePeriod
      BY <1>1, <2>2, <2>6, <3>1, <3>2, TimesMono
    <3> QED BY <1>1, <2>2, <3>3, TimesLess
  <2> QED BY <2>2, <2>3, <2>6, <2>7
<1> QED BY <1>1, <1>2, <1>3

\* What is left of an unstaking, and what earns as LP, is never negative.
LEMMA EarningType ==
  ASSUME NEW t \in Nat, NEW n \in Nat, NEW r, RecordOk(r, t, n)
  PROVE  /\ r.unstaking.xlp - r.unstaking.collected \in Nat
         /\ EarningLp(r) \in Nat
         /\ r.lp =< EarningLp(r)
         /\ r.unstaking = NoUnstaking => EarningLp(r) = r.lp
<1>1. r.lp \in Nat /\ r.unstaking \in Unstaking
  BY DEF RecordOk, Stats
<1>2. r.unstaking.xlp \in Nat /\ r.unstaking.collected \in Nat
  BY <1>1 DEF Unstaking
<1>3. r.unstaking = NoUnstaking => r.unstaking.xlp = 0 /\ r.unstaking.collected = 0
  BY DEF NoUnstaking
<1>4. r.unstaking.collected =< r.unstaking.xlp
  BY <1>2, <1>3 DEF RecordOk, UnstakingOk
<1>5. r.unstaking.xlp - r.unstaking.collected \in Nat
  BY <1>2, <1>4
<1>6. EarningLp(r) = r.lp + (r.unstaking.xlp - r.unstaking.collected)
  BY DEF EarningLp
<1>7. r.unstaking = NoUnstaking => r.unstaking.xlp - r.unstaking.collected = 0
  BY <1>3
<1> QED BY <1>1, <1>5, <1>6, <1>7

\* The prefix sums only grow.
YieldsOk ==
  /\ yields \in Seq([lp : Nat, xlp : Nat]) /\ yields # <<>>
  /\ \A i \in 1..Len(yields) :
       yields[i].lp =< LastYield.lp /\ yields[i].xlp =< LastYield.xlp

\* No prefix sum is larger than the last one.
LEMMA YieldsType ==
  ASSUME YieldsOk
  PROVE  /\ Len(yields) \in Nat \ {0}
         /\ LastYield \in [lp : Nat, xlp : Nat]
         /\ \A i \in 1..Len(yields) :
              /\ yields[i] \in [lp : Nat, xlp : Nat]
              /\ LastYield.lp - yields[i].lp \in Nat
              /\ LastYield.xlp - yields[i].xlp \in Nat
<1>1. Len(yields) \in Nat \ {0}
  BY DEF YieldsOk
<1>2. \A i \in 1..Len(yields) : yields[i] \in [lp : Nat, xlp : Nat]
  BY ElementOfSeq DEF YieldsOk
<1>3. LastYield \in [lp : Nat, xlp : Nat]
  BY <1>1, <1>2 DEF LastYield
<1>4. ASSUME NEW i \in 1..Len(yields)
      PROVE  LastYield.lp - yields[i].lp \in Nat /\ LastYield.xlp - yields[i].xlp \in Nat
  <2>1. /\ yields[i].lp \in Nat /\ yields[i].xlp \in Nat
        /\ LastYield.lp \in Nat /\ LastYield.xlp \in Nat
    BY <1>2, <1>3
  <2>2. yields[i].lp =< LastYield.lp /\ yields[i].xlp =< LastYield.xlp
    BY DEF YieldsOk
  <2> HIDE DEF LastYield
  <2> QED BY <2>1, <2>2
<1> QED BY <1>1, <1>2, <1>3, <1>4

\* A record by its fields.
LEMMA RecordFields ==
  ASSUME NEW r, NEW t, NEW n, RecordOk(r, t, n)
  PROVE  /\ r \in Stats
         /\ r.lp \in Nat /\ r.xlp \in Nat /\ r.due \in Nat /\ r.cooldownEnds \in Nat
         /\ r.key \in 1..n
         /\ r.unstaking \in Unstaking /\ UnstakingOk(r.unstaking, t)
BY DEF RecordOk, Stats

\* Accruing yield touches only what is due and the key.
LEMMA AccrueOk ==
  ASSUME YieldsOk, now \in Nat, NEW r, RecordOk(r, now, Len(yields))
  PROVE  /\ RecordOk(Accrue(r), now, Len(yields))
         /\ Accrue(r).lp = r.lp /\ Accrue(r).xlp = r.xlp
         /\ Accrue(r).unstaking = r.unstaking
         /\ Accrue(r).cooldownEnds = r.cooldownEnds
         /\ EarningLp(Accrue(r)) = EarningLp(r)
<1> DEFINE l == LastYield.lp - yields[r.key].lp
           x == LastYield.xlp - yields[r.key].xlp
           d == r.due + Mul(l, EarningLp(r)) + Mul(x, r.xlp)
<1>0. r \in Stats
  BY RecordFields
<1>1. Len(yields) \in Nat \ {0} /\ l \in Nat /\ x \in Nat
  BY YieldsType, RecordFields
<1>2. EarningLp(r) \in Nat /\ r.xlp \in Nat /\ r.due \in Nat
  BY <1>1, EarningType, RecordFields
<1>3. Mul(l, EarningLp(r)) \in Nat /\ Mul(x, r.xlp) \in Nat
  <2> HIDE DEF l, x
  <2> QED BY <1>1, <1>2, MulType
<1>4. d \in Nat
  <2> HIDE DEF l, x
  <2> QED BY <1>2, <1>3
<1>5. Accrue(r) = [r EXCEPT !.due = d, !.key = Len(yields)]
  BY <1>0 DEF Accrue, Stats
<1> HIDE DEF d
<1>6. /\ Accrue(r) \in Stats
      /\ Accrue(r).lp = r.lp /\ Accrue(r).xlp = r.xlp
      /\ Accrue(r).unstaking = r.unstaking
      /\ Accrue(r).cooldownEnds = r.cooldownEnds
      /\ Accrue(r).key = Len(yields)
  BY <1>0, <1>1, <1>4, <1>5 DEF Stats
<1>7. RecordOk(Accrue(r), now, Len(yields))
  BY <1>1, <1>6, RecordFields DEF RecordOk
<1> QED BY <1>6, <1>7 DEF EarningLp

\* Collecting moves tokens from the unstaking to LP.
LEMMA CollectKeeps ==
  ASSUME YieldsOk, now \in Nat, NEW r, RecordOk(r, now, Len(yields))
  PROVE  /\ RecordOk(Collect(r), now, Len(yields))
         /\ Collect(r).xlp = r.xlp /\ Collect(r).due = r.due
         /\ Collect(r).key = r.key
         /\ EarningLp(Collect(r)) = EarningLp(r)
<1> DEFINE u == r.unstaking
           l == Unstaked(u)
<1>1. /\ r.lp \in Nat /\ u \in Unstaking /\ UnstakingOk(u, now) /\ r \in Stats
      /\ u.xlp \in Nat /\ u.collected \in Nat /\ u.started \in Nat /\ u.last \in Nat
  BY RecordFields DEF Unstaking
<1>0. r.unstaking = u /\ EarningLp(r) = r.lp + (u.xlp - u.collected)
  BY DEF EarningLp
<1>2. CASE Collectable(r) = 0
  BY <1>2 DEF Collect
<1>3. CASE Collectable(r) # 0
  <2>1. u # NoUnstaking /\ Collectable(r) = l
    BY <1>3 DEF Collectable
  <2>2. l \in Nat /\ u.collected + l =< u.xlp
    BY <1>1, <2>1, UnstakedBound
  <2>8. u.collected + l # u.xlp =>
          (u.collected + l) * UnstakePeriod =< u.xlp * (now - u.started)
    BY <1>1, <2>1, UnstakedBound
  <2> HIDE DEF l, u
  <2>9. r.lp + l \in Nat
    BY <1>1, <2>2
  <2>3. CASE u.collected + l = u.xlp
    <3>1. Collect(r) = [r EXCEPT !.lp = r.lp + l, !.unstaking = NoUnstaking]
      BY <1>0, <1>3, <2>1, <2>3, <1>1 DEF Collect, Stats
    <3>0. NoUnstaking \in Unstaking
      BY DEF Unstaking, NoUnstaking
    <3>2. /\ Collect(r) \in Stats /\ Collect(r).lp = r.lp + l
          /\ Collect(r).unstaking = NoUnstaking /\ Collect(r).xlp = r.xlp
          /\ Collect(r).due = r.due /\ Collect(r).key = r.key
      BY <1>1, <2>9, <3>0, <3>1 DEF Stats
    <3>3. UnstakingOk(NoUnstaking, now)
      BY DEF UnstakingOk, NoUnstaking, Unstaking
    <3>4. EarningLp(Collect(r)) = EarningLp(r)
      BY <1>0, <1>1, <2>2, <2>3, <3>2 DEF EarningLp, NoUnstaking
    <3> QED BY <3>2, <3>3, <3>4, RecordFields DEF RecordOk
  <2>4. CASE u.collected + l # u.xlp
    <3> DEFINE v == [u EXCEPT !.collected = u.collected + l, !.last = now]
    <3>1. Collect(r) = [r EXCEPT !.lp = r.lp + l, !.unstaking = v]
      BY <1>0, <1>3, <2>1, <2>4, <1>1 DEF Collect, Stats, Unstaking
    <3>0. u.collected + l \in Nat /\ u.collected + l < u.xlp
      BY <1>1, <2>2, <2>4
    <3>2. /\ v \in Unstaking /\ v.collected = u.collected + l /\ v.last = now
          /\ v.xlp = u.xlp /\ v.started = u.started
      BY <1>1, <3>0 DEF Unstaking
    <3> HIDE DEF v
    <3>3. /\ Collect(r) \in Stats /\ Collect(r).lp = r.lp + l
          /\ Collect(r).unstaking = v /\ Collect(r).xlp = r.xlp
          /\ Collect(r).due = r.due /\ Collect(r).key = r.key
      BY <1>1, <2>9, <3>1, <3>2 DEF Stats
    <3>4. u.started =< u.last /\ u.last =< now
      BY <1>1, <2>1 DEF UnstakingOk
    <3>5. UnstakingOk(v, now)
      <4>1. v.started =< v.last /\ v.last =< now
        BY <1>1, <3>2, <3>4
      <4>2. v.collected < v.xlp
        BY <3>0, <3>2
      <4>3. v.collected * UnstakePeriod =< v.xlp * (v.last - v.started)
        BY <2>4, <2>8, <3>2
      <4> QED BY <3>2, <4>1, <4>2, <4>3 DEF UnstakingOk
    <3>6. EarningLp(Collect(r)) = EarningLp(r)
      BY <1>0, <1>1, <2>2, <3>2, <3>3 DEF EarningLp
    <3> QED BY <3>3, <3>5, <3>6, RecordFields DEF RecordOk
  <2> QED BY <2>3, <2>4
<1> QED BY <1>2, <1>3

\* A missing record counts as one without tokens.
LEMMA NewStatsOk ==
  ASSUME YieldsOk
  PROVE  /\ RecordOk(NewStats, now, Len(yields))
         /\ EarningLp(NewStats) = 0 /\ NewStats.xlp = 0
<1>1. Len(yields) \in Nat \ {0}
  BY YieldsType
<1>2. NoUnstaking \in Unstaking /\ UnstakingOk(NoUnstaking, now)
  BY DEF UnstakingOk, NoUnstaking, Unstaking
<1>3. NewStats \in Stats /\ NewStats.unstaking = NoUnstaking /\ NewStats.key = Len(yields)
  BY <1>1, <1>2 DEF NewStats, Stats
<1>4. EarningLp(NewStats) = 0 /\ NewStats.xlp = 0
  BY DEF NewStats, EarningLp, NoUnstaking
<1> QED BY <1>1, <1>2, <1>3, <1>4 DEF RecordOk

\* An unstaking that is stopped goes back to xLP.
LEMMA StoppedOk ==
  ASSUME NEW t \in Nat, NEW n \in Nat, NEW r, RecordOk(r, t, n)
  PROVE  LET back == r.unstaking.xlp - r.unstaking.collected
         IN  /\ back \in Nat
             /\ RecordOk(Stopped(r), t, n)
             /\ Stopped(r).xlp = r.xlp + back
             /\ Stopped(r).lp = r.lp
             /\ Stopped(r).unstaking = NoUnstaking
             /\ EarningLp(Stopped(r)) = EarningLp(r) - back
<1> DEFINE back == r.unstaking.xlp - r.unstaking.collected
<1>1. back \in Nat /\ r.xlp \in Nat /\ r.lp \in Nat /\ r \in Stats
  BY EarningType, RecordFields
<1>2. EarningLp(r) = r.lp + back /\ Stopped(r) = [r EXCEPT !.xlp = r.xlp + back, !.unstaking = NoUnstaking]
  BY <1>1 DEF EarningLp, Stopped, Stats
<1> HIDE DEF back
<1>3. NoUnstaking \in Unstaking /\ UnstakingOk(NoUnstaking, t) /\ r.xlp + back \in Nat
  BY <1>1 DEF UnstakingOk, NoUnstaking, Unstaking
<1>4. /\ Stopped(r) \in Stats /\ Stopped(r).xlp = r.xlp + back
      /\ Stopped(r).lp = r.lp /\ Stopped(r).unstaking = NoUnstaking
      /\ Stopped(r).key = r.key
  BY <1>1, <1>2, <1>3 DEF Stats
<1>5. EarningLp(Stopped(r)) = r.lp
  BY <1>1, <1>4 DEF EarningLp, NoUnstaking
<1>6. EarningLp(Stopped(r)) = EarningLp(r) - back
  BY <1>1, <1>2, <1>5
<1>7. RecordOk(Stopped(r), t, n)
  BY <1>3, <1>4, RecordFields DEF RecordOk
<1>8. r.unstaking.xlp - r.unstaking.collected = back
  BY DEF back
<1> QED BY <1>1, <1>4, <1>6, <1>7, <1>8

------------------------------------------------------------------------------
(* Proofs: the tokens of all providers.                                    *)

\* Records of providers, none of them empty.
Books(f, t, n) ==
  /\ DOMAIN f \subseteq Providers
  /\ \A a \in DOMAIN f : RecordOk(f[a], t, n) /\ ~IsEmpty(f[a])

HeldLp(f, a) == IF a \in DOMAIN f THEN EarningLp(f[a]) ELSE 0
HeldXlp(f, a) == IF a \in DOMAIN f THEN f[a].xlp ELSE 0

LpOf(f) == [a \in DOMAIN f |-> EarningLp(f[a])]
XlpOf(f) == [a \in DOMAIN f |-> f[a].xlp]

LpSum(f) == Total(LpOf(f), DOMAIN f)
XlpSum(f) == Total(XlpOf(f), DOMAIN f)

\* They are the sums of SharesAddUp.
LEMMA SharesAreSums ==
  ASSUME NEW f, IsFiniteSet(DOMAIN f)
  PROVE  /\ MapThenSumSet(LAMBDA a : EarningLp(f[a]), DOMAIN f) = LpSum(f)
         /\ MapThenSumSet(LAMBDA a : f[a].xlp, DOMAIN f) = XlpSum(f)
<1> DEFINE D == DOMAIN f
<1>1. MapThenSumSet(LAMBDA a : EarningLp(f[a]), D) = LpSum(f)
  <2> DEFINE LpSums(h) ==
        h = [s \in SUBSET D |->
               IF s = {} THEN 0
               ELSE LET x == CHOOSE x \in s : TRUE IN EarningLp(f[x]) + h[s \ {x}]]
  <2>1. MapThenSumSet(LAMBDA a : EarningLp(f[a]), D) = (CHOOSE h : LpSums(h))[D]
    BY DEF MapThenSumSet, MapThenFoldSet
  <2>2. ASSUME NEW h PROVE LpSums(h) <=> Sums(h, LpOf(f), D)
    <3>1. \A s \in SUBSET D : s # {} => (CHOOSE x \in s : TRUE) \in D
      OBVIOUS
    <3>2. \A s \in SUBSET D : s # {} =>
            LpOf(f)[CHOOSE x \in s : TRUE] = EarningLp(f[CHOOSE x \in s : TRUE])
      BY <3>1 DEF LpOf
    <3> QED BY <3>2 DEF Sums
  <2> HIDE DEF LpSums
  <2>3. PICK g : Sums(g, LpOf(f), D) /\ Total(LpOf(f), D) = g[D]
    BY SumsExist, TotalDef
  <2>4. LpSums(CHOOSE h : LpSums(h))
    BY <2>2, <2>3
  <2>5. Sums(CHOOSE h : LpSums(h), LpOf(f), D)
    BY <2>2, <2>4
  <2>6. (CHOOSE h : LpSums(h))[D] = g[D]
    BY <2>3, <2>5, SumsAgree
  <2> QED BY <2>1, <2>3, <2>6 DEF LpSum
<1>2. MapThenSumSet(LAMBDA a : f[a].xlp, D) = XlpSum(f)
  <2> DEFINE XlpSums(h) ==
        h = [s \in SUBSET D |->
               IF s = {} THEN 0
               ELSE LET x == CHOOSE x \in s : TRUE IN f[x].xlp + h[s \ {x}]]
  <2>1. MapThenSumSet(LAMBDA a : f[a].xlp, D) = (CHOOSE h : XlpSums(h))[D]
    BY DEF MapThenSumSet, MapThenFoldSet
  <2>2. ASSUME NEW h PROVE XlpSums(h) <=> Sums(h, XlpOf(f), D)
    <3>1. \A s \in SUBSET D : s # {} => (CHOOSE x \in s : TRUE) \in D
      OBVIOUS
    <3>2. \A s \in SUBSET D : s # {} =>
            XlpOf(f)[CHOOSE x \in s : TRUE] = f[CHOOSE x \in s : TRUE].xlp
      BY <3>1 DEF XlpOf
    <3> QED BY <3>2 DEF Sums
  <2> HIDE DEF XlpSums
  <2>3. PICK g : Sums(g, XlpOf(f), D) /\ Total(XlpOf(f), D) = g[D]
    BY SumsExist, TotalDef
  <2>4. XlpSums(CHOOSE h : XlpSums(h))
    BY <2>2, <2>3
  <2>5. Sums(CHOOSE h : XlpSums(h), XlpOf(f), D)
    BY <2>2, <2>4
  <2>6. (CHOOSE h : XlpSums(h))[D] = g[D]
    BY <2>3, <2>5, SumsAgree
  <2> QED BY <2>1, <2>3, <2>6 DEF XlpSum
<1> QED BY <1>1, <1>2

\* Sums over sets that differ in one element at most.
LEMMA TotalMoved ==
  ASSUME NEW D, IsFiniteSet(D), NEW E, IsFiniteSet(E), NEW a, D \ {a} = E \ {a},
         NEW f, NEW g, \A b \in D : f[b] \in Nat, \A b \in E : g[b] \in Nat,
         \A b \in D \ {a} : f[b] = g[b]
  PROVE  LET lost == IF a \in D THEN f[a] ELSE 0
             won == IF a \in E THEN g[a] ELSE 0
         IN  /\ Total(f, D) \in Nat /\ lost =< Total(f, D)
             /\ Total(g, E) = Total(f, D) - lost + won
<1> DEFINE R == D \ {a}
<1>1. IsFiniteSet(R) /\ R = E \ {a}
  BY FS_RemoveElement
<1>2. Total(f, R) = Total(g, R) /\ Total(f, R) \in Nat
  BY <1>1, TotalSame, TotalType
<1>3. Total(f, D) = Total(f, R) + (IF a \in D THEN f[a] ELSE 0)
  <2>1. CASE a \in D
    BY <1>2, <2>1, TotalRemove
  <2>2. CASE a \notin D
    <3>1. R = D
      BY <2>2
    <3> HIDE DEF R
    <3> QED BY <1>2, <2>2, <3>1
  <2> QED BY <2>1, <2>2
<1>4. Total(g, E) = Total(g, R) + (IF a \in E THEN g[a] ELSE 0)
  <2>1. CASE a \in E
    BY <1>1, <1>2, <2>1, TotalRemove
  <2>2. CASE a \notin E
    <3>1. R = E
      BY <1>1, <2>2
    <3> HIDE DEF R
    <3> QED BY <1>2, <2>2, <3>1
  <2> QED BY <2>1, <2>2
<1>5. (a \in D => f[a] \in Nat) /\ (a \in E => g[a] \in Nat)
  OBVIOUS
<1> HIDE DEF R
<1> QED BY <1>2, <1>3, <1>4, <1>5

\* There are finitely many records.
LEMMA BooksFinite ==
  ASSUME NEW t \in Nat, NEW n \in Nat, NEW f, Books(f, t, n)
  PROVE  /\ IsFiniteSet(DOMAIN f)
         /\ \A a \in DOMAIN f : LpOf(f)[a] \in Nat /\ XlpOf(f)[a] \in Nat
<1>1. IsFiniteSet(Providers)
  BY FS_Interval, ProvidersAssumption DEF Providers
<1>2. IsFiniteSet(DOMAIN f)
  BY <1>1, FS_Subset DEF Books
<1>3. ASSUME NEW a \in DOMAIN f PROVE LpOf(f)[a] \in Nat /\ XlpOf(f)[a] \in Nat
  <2>1. RecordOk(f[a], t, n)
    BY DEF Books
  <2> QED BY <2>1, EarningType, RecordFields DEF LpOf, XlpOf
<1> QED BY <1>2, <1>3

\* What one provider has is part of the whole.
LEMMA HeldBound ==
  ASSUME NEW t \in Nat, NEW n \in Nat, NEW f, Books(f, t, n), NEW a
  PROVE  /\ LpSum(f) \in Nat /\ HeldLp(f, a) \in Nat /\ HeldLp(f, a) =< LpSum(f)
         /\ XlpSum(f) \in Nat /\ HeldXlp(f, a) \in Nat /\ HeldXlp(f, a) =< XlpSum(f)
<1>1. LpSum(f) \in Nat /\ XlpSum(f) \in Nat
  BY BooksFinite, TotalType DEF LpSum, XlpSum
<1>2. CASE a \in DOMAIN f
  <2>1. LpOf(f)[a] =< LpSum(f) /\ XlpOf(f)[a] =< XlpSum(f)
    BY <1>2, BooksFinite, TotalBound DEF LpSum, XlpSum
  <2>2. LpOf(f)[a] \in Nat /\ XlpOf(f)[a] \in Nat
    BY <1>2, BooksFinite
  <2>3. LpOf(f)[a] = HeldLp(f, a) /\ XlpOf(f)[a] = HeldXlp(f, a)
    BY <1>2 DEF LpOf, XlpOf, HeldLp, HeldXlp
  <2> QED BY <1>1, <2>1, <2>2, <2>3
<1>3. CASE a \notin DOMAIN f
  BY <1>1, <1>3 DEF HeldLp, HeldXlp
<1> QED BY <1>2, <1>3

\* Saving a record replaces what the provider had.
LEMMA SaveSums ==
  ASSUME NEW t \in Nat, NEW n \in Nat, NEW f, Books(f, t, n),
         NEW a \in Providers, NEW r, RecordOk(r, t, n)
  PROVE  /\ Books(Save(f, a, r), t, n)
         /\ \A b : b # a => /\ b \in DOMAIN Save(f, a, r) <=> b \in DOMAIN f
                            /\ b \in DOMAIN f => Save(f, a, r)[b] = f[b]
         /\ a \in DOMAIN Save(f, a, r) => Save(f, a, r)[a] = r
         /\ LpSum(Save(f, a, r)) = LpSum(f) - HeldLp(f, a) + EarningLp(r)
         /\ XlpSum(Save(f, a, r)) = XlpSum(f) - HeldXlp(f, a) + r.xlp
<1> DEFINE g == Save(f, a, r)
           D == DOMAIN f
           E == DOMAIN g
<1>1. /\ E = IF IsEmpty(r) THEN D \ {a} ELSE D \cup {a}
      /\ \A b \in E : g[b] = IF b = a THEN r ELSE f[b]
  BY DEF Save
<1> HIDE DEF g
<1>2. Books(g, t, n)
  BY <1>1 DEF Books
<1>3. D \ {a} = E \ {a}
  BY <1>1
<1>4. IsEmpty(r) => EarningLp(r) = 0 /\ r.xlp = 0
  BY DEF IsEmpty, EarningLp, NoUnstaking
<1>5. /\ IsFiniteSet(D) /\ IsFiniteSet(E)
      /\ \A b \in D : LpOf(f)[b] \in Nat /\ XlpOf(f)[b] \in Nat
      /\ \A b \in E : LpOf(g)[b] \in Nat /\ XlpOf(g)[b] \in Nat
  BY <1>2, BooksFinite
<1>6. \A b \in D \ {a} : LpOf(f)[b] = LpOf(g)[b] /\ XlpOf(f)[b] = XlpOf(g)[b]
  BY <1>1 DEF LpOf, XlpOf
<1>7. /\ (IF a \in D THEN LpOf(f)[a] ELSE 0) = HeldLp(f, a)
      /\ (IF a \in D THEN XlpOf(f)[a] ELSE 0) = HeldXlp(f, a)
  BY DEF LpOf, XlpOf, HeldLp, HeldXlp
<1>8. /\ (IF a \in E THEN LpOf(g)[a] ELSE 0) = EarningLp(r)
      /\ (IF a \in E THEN XlpOf(g)[a] ELSE 0) = r.xlp
  BY <1>1, <1>4 DEF LpOf, XlpOf
<1>9. LpSum(g) = LpSum(f) - HeldLp(f, a) + EarningLp(r)
  BY <1>3, <1>5, <1>6, <1>7, <1>8, TotalMoved, SMTT(30) DEF LpSum
<1>10. XlpSum(g) = XlpSum(f) - HeldXlp(f, a) + r.xlp
  BY <1>3, <1>5, <1>6, <1>7, <1>8, TotalMoved, SMTT(30) DEF XlpSum
<1> QED BY <1>1, <1>2, <1>9, <1>10 DEF g

------------------------------------------------------------------------------
(* Proofs: the inductive invariant.                                        *)

Pools == [locked : Nat, unlocked : Nat, lp : Nat, xlp : Nat]

\* The totals are the sums of the shares; while the pool is reset there are
\* none, and those who were passed have no tokens.
SharesInv ==
  /\ reset = NotResetting =>
       pool.lp = LpSum(providers) /\ pool.xlp = XlpSum(providers)
  /\ reset # NotResetting =>
       /\ pool = EmptyPool
       /\ \A a \in DOMAIN providers : a =< reset =>
            EarningLp(providers[a]) = 0 /\ providers[a].xlp = 0

BooksInv ==
  /\ now \in Nat
  /\ pool \in Pools
  /\ reset \in {NotResetting} \cup (0..NumProviders)
  /\ YieldsOk
  /\ Books(providers, now, Len(yields))
  /\ SharesInv

FeesInv ==
  /\ rate \subseteq Classes /\ rated \subseteq Classes
  /\ fees \in [wallets : Nat, protocol : Nat, crank : Nat, referral : Nat]
  /\ balance \in Int
  /\ stray \in Nat

PoolInv == BooksInv /\ FeesInv

\* The invariant is stronger than the type, the sums and the bound on unstaking.
LEMMA PoolInvImplies ==
  ASSUME PoolInv
  PROVE  TypeOK /\ SharesAddUp /\ UnstakesLinearly
<1>1. TypeOK
  <2>1. \A a \in DOMAIN providers : providers[a] \in Stats
    BY DEF PoolInv, BooksInv, Books, RecordOk
  <2> QED BY <2>1 DEF TypeOK, PoolInv, BooksInv, FeesInv, Books, YieldsOk, Pools
<1>2. SharesAddUp
  <2>1. IsFiniteSet(DOMAIN providers)
    BY YieldsType, BooksFinite DEF PoolInv, BooksInv
  <2> QED BY <2>1, SharesAreSums DEF SharesAddUp, PoolInv, BooksInv, SharesInv, Books
<1>3. UnstakesLinearly
  <2> SUFFICES ASSUME NEW a \in DOMAIN providers, providers[a].unstaking # NoUnstaking
               PROVE  LET u == providers[a].unstaking
                      IN  /\ u.collected < u.xlp
                          /\ u.collected * UnstakePeriod =< u.xlp * (u.last - u.started)
                          /\ u.collected + Unstaked(u) =< u.xlp
    BY DEF UnstakesLinearly
  <2>1. UnstakingOk(providers[a].unstaking, now) /\ now \in Nat
    BY DEF PoolInv, BooksInv, Books, RecordOk
  <2>2. providers[a].unstaking.collected + Unstaked(providers[a].unstaking)
          =< providers[a].unstaking.xlp
    BY <2>1, UnstakedBound
  <2> QED BY <2>1, <2>2 DEF UnstakingOk
<1> QED BY <1>1, <1>2, <1>3

\* The initial state satisfies the invariant.
LEMMA PoolInit ==
  Init => PoolInv
<1> SUFFICES ASSUME Init PROVE PoolInv
  OBVIOUS
<1>1. yields = <<[lp |-> 0, xlp |-> 0]>> /\ now = 1 /\ reset = NotResetting
  BY DEF Init
<1>2. YieldsOk
  BY <1>1 DEF YieldsOk, LastYield
<1>3. DOMAIN providers = {}
  BY DEF Init
<1>4. Books(providers, now, Len(yields))
  BY <1>3 DEF Books
<1>5. LpSum(providers) = 0 /\ XlpSum(providers) = 0
  BY <1>3, TotalChosen, FS_EmptySet DEF LpSum, XlpSum
<1>6. pool = EmptyPool /\ pool.lp = 0 /\ pool.xlp = 0 /\ pool \in Pools
  BY DEF Init, EmptyPool, Pools
<1>7. SharesInv
  BY <1>1, <1>5, <1>6 DEF SharesInv
<1>8. BooksInv
  BY <1>1, <1>2, <1>4, <1>6, <1>7 DEF BooksInv
<1>9. FeesInv
  BY DEF Init, FeesInv, Classes
<1> QED BY <1>8, <1>9 DEF PoolInv

\* The books a provider's call starts with.
LEMMA BooksKept ==
  ASSUME BooksInv, NEW a \in Providers
  PROVE  /\ RecordOk(Load(a), now, Len(yields))
         /\ EarningLp(Load(a)) = HeldLp(providers, a)
         /\ Load(a).xlp = HeldXlp(providers, a)
         /\ RecordOk(BookKept(a), now, Len(yields))
         /\ EarningLp(BookKept(a)) = HeldLp(providers, a)
         /\ BookKept(a).xlp = HeldXlp(providers, a)
<1>1. YieldsOk /\ now \in Nat /\ Books(providers, now, Len(yields))
  BY DEF BooksInv
<1>2. /\ RecordOk(Load(a), now, Len(yields))
      /\ EarningLp(Load(a)) = HeldLp(providers, a)
      /\ Load(a).xlp = HeldXlp(providers, a)
  BY <1>1, NewStatsOk DEF Load, HeldLp, HeldXlp, Books
<1>3. /\ RecordOk(Accrue(Load(a)), now, Len(yields))
      /\ EarningLp(Accrue(Load(a))) = HeldLp(providers, a)
      /\ Accrue(Load(a)).xlp = HeldXlp(providers, a)
  BY <1>1, <1>2, AccrueOk
<1> QED BY <1>1, <1>2, <1>3, CollectKeeps DEF BookKept

\* A record with other amounts in it.
LEMMA RecordWith ==
  ASSUME NEW t \in Nat, NEW n \in Nat, NEW r, RecordOk(r, t, n),
         NEW s \in Stats, s.key = r.key, s.unstaking = r.unstaking
  PROVE  RecordOk(s, t, n) /\ EarningLp(s) = EarningLp(r) - r.lp + s.lp
<1>1. RecordOk(s, t, n)
  BY DEF RecordOk
<1>2. /\ s.lp \in Nat /\ r.lp \in Nat
      /\ r.unstaking.xlp - r.unstaking.collected \in Nat
  BY <1>1, EarningType, RecordFields
<1> QED BY <1>1, <1>2 DEF EarningLp

\* What SaveStats leaves.
StatsSaved(p) ==
  \/ pool' = p /\ reset' = reset
  \/ pool' = EmptyPool /\ reset' = Begin

\* One record is saved, and the totals change by as much as it does.
LEMMA RecordSaved ==
  ASSUME BooksInv, reset = NotResetting, UNCHANGED <<now, yields>>,
         NEW a \in Providers, NEW r, RecordOk(r, now, Len(yields)),
         providers' = Save(providers, a, r),
         NEW p \in Pools, StatsSaved(p),
         p.lp = pool.lp - HeldLp(providers, a) + EarningLp(r),
         p.xlp = pool.xlp - HeldXlp(providers, a) + r.xlp
  PROVE  BooksInv'
<1>1. Books(providers', now', Len(yields'))
  BY SaveSums, YieldsType DEF BooksInv
<1>2. p.lp = LpSum(providers') /\ p.xlp = XlpSum(providers')
  BY SaveSums, YieldsType DEF BooksInv, SharesInv
<1>3. YieldsOk'
  BY DEF BooksInv, YieldsOk, LastYield
<1>4. CASE pool' = p /\ reset' = reset
  BY <1>1, <1>2, <1>3, <1>4 DEF BooksInv, SharesInv
<1>5. CASE pool' = EmptyPool /\ reset' = Begin
  <2>1. pool' \in Pools /\ reset' \in 0..NumProviders /\ reset' # NotResetting
    BY <1>5, ProvidersAssumption DEF EmptyPool, Pools, Begin, NotResetting
  <2>2. \A b \in DOMAIN providers' : ~(b =< reset')
    BY <1>1, <1>5, ProvidersAssumption DEF Books, Providers, Begin
  <2> QED BY <1>1, <1>3, <1>5, <2>1, <2>2 DEF BooksInv, SharesInv
<1> QED BY <1>4, <1>5 DEF StatsSaved

------------------------------------------------------------------------------
(* Proofs: the messages of providers keep the invariant.                   *)

\* save_liquidity_stats stores the totals, or voids them.
LEMMA StatsAreSaved ==
  ASSUME NEW p, SaveStats(p)
  PROVE  StatsSaved(p)
BY DEF SaveStats, Settled, StatsSaved

\* The tokens of a provider are among those of the pool.
LEMMA PartOfPool ==
  ASSUME BooksInv, reset = NotResetting, NEW a \in Providers,
         NEW r, RecordOk(r, now, Len(yields)),
         EarningLp(r) = HeldLp(providers, a), r.xlp = HeldXlp(providers, a)
  PROVE  /\ pool.lp \in Nat /\ pool.xlp \in Nat /\ EarningLp(r) \in Nat
         /\ r.lp \in Nat /\ r.lp =< EarningLp(r) /\ EarningLp(r) =< pool.lp
         /\ r.xlp \in Nat /\ r.xlp =< pool.xlp
<1>1. now \in Nat /\ Len(yields) \in Nat /\ Books(providers, now, Len(yields))
  BY YieldsType DEF BooksInv
<1>2. /\ HeldLp(providers, a) =< LpSum(providers) /\ LpSum(providers) \in Nat
      /\ HeldXlp(providers, a) =< XlpSum(providers) /\ XlpSum(providers) \in Nat
  BY <1>1, HeldBound
<1>3. pool.lp = LpSum(providers) /\ pool.xlp = XlpSum(providers)
  BY DEF BooksInv, SharesInv
<1>4. EarningLp(r) \in Nat /\ r.lp =< EarningLp(r) /\ r.lp \in Nat /\ r.xlp \in Nat
  BY <1>1, EarningType, RecordFields
<1> QED BY <1>2, <1>3, <1>4

\* The totals of a pool are natural numbers.
LEMMA PoolFields ==
  ASSUME NEW p \in Pools
  PROVE  /\ p.locked \in Nat /\ p.unlocked \in Nat /\ p.lp \in Nat /\ p.xlp \in Nat
         /\ TotalCollateral(p) \in Nat /\ TotalTokens(p) \in Nat
BY DEF Pools, TotalCollateral, TotalTokens

\* New shares are a natural number.
LEMMA CollateralToLpType ==
  ASSUME NEW p \in Pools, NEW x \in Nat
  PROVE  CollateralToLp(p, x) \in Nat
<1>1. TotalCollateral(p) \in Nat /\ TotalTokens(p) \in Nat
  BY PoolFields
<1>2. Mul(TotalTokens(p), x) \in Nat
  BY <1>1, MulType
<1> QED BY <1>1, <1>2, DivType DEF CollateralToLp

\* What shares are worth is a natural number, unless there are none.
LEMMA LpToCollateralType ==
  ASSUME NEW p \in Pools, NEW l \in Nat, TotalTokens(p) # 0
  PROVE  LpToCollateral(p, l) \in Nat
<1>1. TotalCollateral(p) \in Nat /\ TotalTokens(p) \in Nat \ {0}
  BY PoolFields
<1>2. Mul(TotalCollateral(p), l) \in Nat
  BY <1>1, MulType
<1> QED BY <1>1, <1>2, DivType DEF LpToCollateral

\* The record r that a call starts with is saved as s, with another amount of
\* tokens but the same unstaking.
LEMMA TokensSaved ==
  ASSUME BooksInv, reset = NotResetting, UNCHANGED <<now, yields>>,
         NEW a \in Providers, NEW r, RecordOk(r, now, Len(yields)),
         EarningLp(r) = HeldLp(providers, a), r.xlp = HeldXlp(providers, a),
         NEW s \in Stats, s.key = r.key, s.unstaking = r.unstaking,
         providers' = Save(providers, a, s),
         NEW p \in Pools, StatsSaved(p),
         p.lp = pool.lp - r.lp + s.lp, p.xlp = pool.xlp - r.xlp + s.xlp
  PROVE  BooksInv'
<1>1. now \in Nat /\ Len(yields) \in Nat
  BY YieldsType DEF BooksInv
<1>2. RecordOk(s, now, Len(yields)) /\ EarningLp(s) = EarningLp(r) - r.lp + s.lp
  BY <1>1, RecordWith
<1>3. p.lp = pool.lp - HeldLp(providers, a) + EarningLp(s)
  <2>1. pool.lp \in Nat /\ EarningLp(r) \in Nat /\ r.lp \in Nat
    BY PartOfPool
  <2>2. s.lp \in Nat
    BY <1>2, RecordFields
  <2>3. pool.lp - r.lp + s.lp = pool.lp - EarningLp(r) + (EarningLp(r) - r.lp + s.lp)
    BY <2>1, <2>2
  <2> QED BY <1>2, <2>3
<1> QED BY <1>2, <1>3, RecordSaved

\* liquidity_deposit_inner adds the new shares to the record and to the total.
LEMMA DepositInnerKeeps ==
  ASSUME BooksInv, reset = NotResetting, UNCHANGED <<now, yields>>,
         NEW a \in Providers, NEW r, RecordOk(r, now, Len(yields)),
         EarningLp(r) = HeldLp(providers, a), r.xlp = HeldXlp(providers, a),
         NEW x \in Nat, NEW stake \in BOOLEAN, NEW cooldown \in BOOLEAN,
         DepositInner(a, r, x, stake, cooldown)
  PROVE  BooksInv'
<1> DEFINE n == CollateralToLp(pool, x)
           p == [pool EXCEPT !.unlocked = @ + x,
                             !.lp = IF stake THEN @ ELSE @ + n,
                             !.xlp = IF stake THEN @ + n ELSE @]
           s == [r EXCEPT !.lp = IF stake THEN @ ELSE @ + n,
                          !.xlp = IF stake THEN @ + n ELSE @,
                          !.cooldownEnds = IF cooldown /\ Cooldown > 0
                                           THEN now + Cooldown ELSE @]
<1>1. SaveStats(p) /\ providers' = Save(providers, a, s)
  BY DEF DepositInner
<1>2. /\ pool \in Pools /\ now \in Nat /\ Len(yields) \in Nat
      /\ r \in Stats /\ r.lp \in Nat /\ r.xlp \in Nat /\ r.cooldownEnds \in Nat
  BY RecordFields, YieldsType DEF BooksInv
<1>3. n \in Nat
  BY <1>2, CollateralToLpType
<1> HIDE DEF n
<1> DEFINE u == pool.unlocked + x
           pl == IF stake THEN pool.lp ELSE pool.lp + n
           px == IF stake THEN pool.xlp + n ELSE pool.xlp
           sl == IF stake THEN r.lp ELSE r.lp + n
           sx == IF stake THEN r.xlp + n ELSE r.xlp
           c == IF cooldown /\ Cooldown > 0 THEN now + Cooldown ELSE r.cooldownEnds
<1>9. pool.lp \in Nat /\ pool.xlp \in Nat /\ pool.unlocked \in Nat
  BY <1>2, PoolFields
<1>10. u \in Nat /\ pl \in Nat /\ px \in Nat /\ sl \in Nat /\ sx \in Nat
  <2>1. u \in Nat
    BY <1>9
  <2>2. pl \in Nat
    BY <1>3, <1>9
  <2>3. px \in Nat
    BY <1>3, <1>9
  <2>4. sl \in Nat
    BY <1>2, <1>3
  <2>5. sx \in Nat
    BY <1>2, <1>3
  <2> HIDE DEF u, pl, px, sl, sx
  <2> QED BY <2>1, <2>2, <2>3, <2>4, <2>5
<1>13. pl = pool.lp - r.lp + sl /\ px = pool.xlp - r.xlp + sx
  BY <1>2, <1>3, <1>9, SMTT(30)
<1>14. c \in Nat
  BY <1>2, ConfigAssumption
<1>11. p = [pool EXCEPT !.unlocked = u, !.lp = pl, !.xlp = px]
  BY <1>2 DEF Pools
<1>12. s = [r EXCEPT !.lp = sl, !.xlp = sx, !.cooldownEnds = c]
  BY <1>2 DEF Stats
<1> HIDE DEF p, s, u, pl, px, sl, sx, c
<1>4. p \in Pools /\ p.lp = pl /\ p.xlp = px
  BY <1>2, <1>10, <1>11 DEF Pools
<1>5. /\ s \in Stats /\ s.key = r.key /\ s.unstaking = r.unstaking
      /\ s.lp = sl /\ s.xlp = sx
  BY <1>2, <1>10, <1>12, <1>14 DEF Stats
<1>6. p.lp = pool.lp - r.lp + s.lp
  BY <1>2, <1>4, <1>5, <1>9, <1>10, <1>13
<1>7. p.xlp = pool.xlp - r.xlp + s.xlp
  BY <1>2, <1>4, <1>5, <1>9, <1>10, <1>13
<1> QED BY <1>1, <1>4, <1>5, <1>6, <1>7, StatsAreSaved, TokensSaved

\* A deposit.
LEMMA DepositKeeps ==
  ASSUME PoolInv, NEW a \in Providers, NEW x \in Deposits, NEW stake \in BOOLEAN,
         DepositLiquidity(a, x, stake)
  PROVE  PoolInv'
<1>1. BooksInv'
  BY BooksKept, DepositInnerKeeps, AmountsAssumption
     DEF PoolInv, DepositLiquidity, Provider, feeVars
<1>2. FeesInv'
  BY AmountsAssumption DEF PoolInv, FeesInv, DepositLiquidity, feeVars
<1> QED BY <1>1, <1>2 DEF PoolInv

\* Claiming takes what is due and leaves the tokens.
LEMMA ClaimedOk ==
  ASSUME NEW t \in Nat, NEW n \in Nat, NEW r, RecordOk(r, t, n)
  PROVE  /\ RecordOk(Claimed(r), t, n)
         /\ EarningLp(Claimed(r)) = EarningLp(r)
         /\ Claimed(r).lp = r.lp /\ Claimed(r).xlp = r.xlp
<1>1. r \in Stats
  BY RecordFields
<1>2. /\ Claimed(r) \in Stats /\ Claimed(r).key = r.key
      /\ Claimed(r).unstaking = r.unstaking
      /\ Claimed(r).lp = r.lp /\ Claimed(r).xlp = r.xlp
  BY <1>1 DEF Claimed, Stats
<1>3. RecordOk(Claimed(r), t, n)
  BY <1>2, RecordWith
<1> QED BY <1>2, <1>3 DEF EarningLp

\* A claim.
LEMMA ClaimKeeps ==
  ASSUME PoolInv, NEW a \in Providers, ClaimYield(a)
  PROVE  PoolInv'
<1> DEFINE r == BookKept(a)
<1>0. BooksInv /\ reset = NotResetting /\ UNCHANGED <<now, yields>> /\ now \in Nat /\ Len(yields) \in Nat
  BY YieldsType DEF PoolInv, BooksInv, ClaimYield, Provider, feeVars
<1>1. /\ RecordOk(r, now, Len(yields)) /\ EarningLp(r) = HeldLp(providers, a)
      /\ r.xlp = HeldXlp(providers, a)
  BY <1>0, BooksKept
<1>2. /\ CanClaim(r) /\ providers' = Save(providers, a, Claimed(r))
      /\ fees' = [fees EXCEPT !.wallets = @ - r.due]
      /\ balance' = balance - r.due
      /\ UNCHANGED <<now, pool, reset, yields, rate, rated, stray>>
  BY DEF ClaimYield, feeVars
<1> HIDE DEF r
<1>3. r.due \in Nat /\ r.due =< fees.wallets
  BY <1>1, <1>2, RecordFields DEF CanClaim
<1>4. /\ RecordOk(Claimed(r), now, Len(yields))
      /\ EarningLp(Claimed(r)) = HeldLp(providers, a)
      /\ Claimed(r).xlp = HeldXlp(providers, a)
  BY <1>0, <1>1, ClaimedOk
<1>5. pool.lp \in Nat /\ pool.xlp \in Nat /\ HeldLp(providers, a) \in Nat /\ HeldXlp(providers, a) \in Nat
  BY <1>0, <1>1, PartOfPool
<1>6. BooksInv'
  <2>1. StatsSaved(pool) /\ pool \in Pools
    BY <1>0, <1>2 DEF StatsSaved, BooksInv
  <2>2. /\ pool.lp = pool.lp - HeldLp(providers, a) + EarningLp(Claimed(r))
        /\ pool.xlp = pool.xlp - HeldXlp(providers, a) + Claimed(r).xlp
    BY <1>4, <1>5
  <2> QED BY <1>0, <1>2, <1>4, <2>1, <2>2, RecordSaved
<1>7. FeesInv'
  BY <1>2, <1>3 DEF PoolInv, FeesInv
<1> QED BY <1>6, <1>7 DEF PoolInv

\* What every call of a provider finds.
LEMMA CallStarts ==
  ASSUME PoolInv, NEW a \in Providers, reset = NotResetting
  PROVE  /\ BooksInv /\ FeesInv /\ now \in Nat /\ Len(yields) \in Nat
         /\ RecordOk(BookKept(a), now, Len(yields))
         /\ EarningLp(BookKept(a)) = HeldLp(providers, a)
         /\ BookKept(a).xlp = HeldXlp(providers, a)
         /\ BookKept(a) \in Stats
BY BooksKept, YieldsType, RecordFields DEF PoolInv, BooksInv

\* A claim that is deposited again.
LEMMA ReinvestKeeps ==
  ASSUME PoolInv, NEW a \in Providers, NEW x \in Nat, NEW stake \in BOOLEAN,
         ReinvestYield(a, x, stake)
  PROVE  PoolInv'
<1> DEFINE r == BookKept(a)
<1>1. /\ reset = NotResetting /\ CanClaim(r)
      /\ DepositInner(a, Claimed(r), x, stake, FALSE)
      /\ fees' = [fees EXCEPT !.wallets = @ - r.due]
      /\ balance' = balance - (r.due - x)
      /\ UNCHANGED <<now, yields, rate, rated, stray>>
  BY DEF ReinvestYield, Provider, feeVars
<1>2. /\ BooksInv /\ FeesInv /\ now \in Nat /\ Len(yields) \in Nat
      /\ RecordOk(r, now, Len(yields))
      /\ EarningLp(r) = HeldLp(providers, a) /\ r.xlp = HeldXlp(providers, a)
  BY <1>1, CallStarts
<1> HIDE DEF r
<1>3. r.due \in Nat /\ r.due =< fees.wallets
  BY <1>1, <1>2, RecordFields DEF CanClaim
<1>4. /\ RecordOk(Claimed(r), now, Len(yields))
      /\ EarningLp(Claimed(r)) = HeldLp(providers, a)
      /\ Claimed(r).xlp = HeldXlp(providers, a)
  BY <1>2, ClaimedOk
<1>5. BooksInv'
  BY <1>1, <1>2, <1>4, DepositInnerKeeps
<1>6. FeesInv'
  <2> DEFINE w == fees.wallets - r.due
  <2>1. /\ fees \in [wallets : Nat, protocol : Nat, crank : Nat, referral : Nat]
        /\ fees.wallets \in Nat /\ fees' = [fees EXCEPT !.wallets = w] /\ balance \in Int
    BY <1>1, <1>2 DEF FeesInv
  <2>2. w \in Nat
    BY <1>3, <2>1
  <2>3. balance' \in Int
    BY <1>1, <1>3, <2>1
  <2> HIDE DEF w
  <2>4. fees' \in [wallets : Nat, protocol : Nat, crank : Nat, referral : Nat]
    BY <2>1, <2>2
  <2> QED BY <1>1, <1>2, <2>3, <2>4 DEF FeesInv
<1> QED BY <1>5, <1>6 DEF PoolInv

\* A withdrawal; the last tokens empty the pool.
LEMMA WithdrawKeeps ==
  ASSUME PoolInv, NEW a \in Providers, NEW l, NEW claim \in BOOLEAN,
         WithdrawLiquidity(a, l, claim)
  PROVE  PoolInv'
<1> DEFINE r == BookKept(a)
           x == LpToCollateral(pool, l)
           p == Burn(pool, l, x)
           d == IF claim THEN 0 ELSE r.due
           s == [r EXCEPT !.lp = @ - l, !.due = IF claim THEN 0 ELSE @]
<1>1. /\ reset = NotResetting /\ l \in 1..r.lp /\ x =< pool.unlocked
      /\ claim => CanClaim(r)
      /\ IF TotalTokens(p) = 0 THEN SaveStats(EmptyPool) ELSE SaveStats(p)
      /\ providers' = Save(providers, a, s)
      /\ fees' = IF claim THEN [fees EXCEPT !.wallets = @ - r.due] ELSE fees
      /\ balance' = balance - x - (IF claim THEN r.due ELSE 0)
      /\ UNCHANGED <<now, yields, rate, rated, stray>>
  BY DEF WithdrawLiquidity, Provider, feeVars
<1>2. /\ BooksInv /\ FeesInv /\ now \in Nat /\ Len(yields) \in Nat
      /\ RecordOk(r, now, Len(yields)) /\ r \in Stats
      /\ EarningLp(r) = HeldLp(providers, a) /\ r.xlp = HeldXlp(providers, a)
  BY <1>1, CallStarts
<1> HIDE DEF r
<1>3. r.due \in Nat /\ r.lp \in Nat /\ r.xlp \in Nat /\ (claim => r.due =< fees.wallets)
  BY <1>1, <1>2, RecordFields DEF CanClaim
<1>4. pool \in Pools /\ pool.lp \in Nat /\ pool.xlp \in Nat /\ pool.unlocked \in Nat
  BY <1>2, PoolFields DEF BooksInv
<1>5. r.lp =< pool.lp /\ r.xlp =< pool.xlp
  BY <1>1, <1>2, PartOfPool
<1>6. l \in Nat /\ l =< r.lp /\ r.lp - l \in Nat /\ pool.lp - l \in Nat
  BY <1>1, <1>3, <1>4, <1>5
<1>7. TotalTokens(pool) # 0
  BY <1>1, <1>3, <1>4, <1>5 DEF TotalTokens
<1>8. x \in Nat
  BY <1>4, <1>6, <1>7, LpToCollateralType
<1> HIDE DEF x
<1>9. pool.unlocked - x \in Nat
  BY <1>1, <1>4, <1>8
<1> DEFINE pl == pool.lp - l
           pu == pool.unlocked - x
           sl == r.lp - l
<1>10. p = [pool EXCEPT !.lp = pl, !.unlocked = pu]
  BY <1>4 DEF Burn, Pools
<1>11. s = [r EXCEPT !.lp = sl, !.due = d]
  BY <1>2 DEF Stats
<1>12. pl \in Nat /\ pu \in Nat /\ sl \in Nat /\ d \in Nat
  BY <1>3, <1>6, <1>9
<1>13. pl = pool.lp - r.lp + sl /\ pool.xlp = pool.xlp - r.xlp + r.xlp
  BY <1>3, <1>4, <1>6
<1> HIDE DEF p, s, d, pl, pu, sl
<1>14. p \in Pools /\ p.lp = pl /\ p.xlp = pool.xlp
  BY <1>4, <1>10, <1>12 DEF Pools
<1>15. /\ s \in Stats /\ s.key = r.key /\ s.unstaking = r.unstaking
       /\ s.lp = sl /\ s.xlp = r.xlp
  BY <1>2, <1>11, <1>12 DEF Stats
<1>16. BooksInv'
  <2>1. CASE TotalTokens(p) = 0
    <3>1. EmptyPool \in Pools /\ EmptyPool.lp = 0 /\ EmptyPool.xlp = 0
      BY DEF EmptyPool, Pools
    <3>2. p.lp = 0 /\ p.xlp = 0
      BY <1>4, <1>12, <1>14, <2>1 DEF TotalTokens
    <3>3. StatsSaved(EmptyPool)
      BY <1>1, <2>1, StatsAreSaved
    <3>4. EmptyPool.lp = pool.lp - r.lp + s.lp /\ EmptyPool.xlp = pool.xlp - r.xlp + s.xlp
      BY <1>13, <1>14, <1>15, <3>1, <3>2
    <3> QED BY <1>1, <1>2, <1>15, <3>1, <3>3, <3>4, TokensSaved
  <2>2. CASE TotalTokens(p) # 0
    <3>1. StatsSaved(p)
      BY <1>1, <2>2, StatsAreSaved
    <3>2. p.lp = pool.lp - r.lp + s.lp /\ p.xlp = pool.xlp - r.xlp + s.xlp
      BY <1>13, <1>14, <1>15
    <3> QED BY <1>1, <1>2, <1>14, <1>15, <3>1, <3>2, TokensSaved
  <2> QED BY <2>1, <2>2
<1>17. FeesInv'
  <2>1. CASE claim
    <3>1. fees' = [fees EXCEPT !.wallets = @ - r.due] /\ balance' = balance - x - r.due
      BY <1>1, <2>1
    <3>2. balance' \in Int
      BY <1>2, <1>3, <1>8, <3>1 DEF FeesInv
    <3>3. fees.wallets \in Nat /\ r.due \in Nat /\ r.due =< fees.wallets
      BY <1>2, <1>3, <2>1 DEF FeesInv
    <3>4. fees.wallets - r.due \in Nat
      BY <3>3
    <3>5. fees' \in [wallets : Nat, protocol : Nat, crank : Nat, referral : Nat]
      BY <1>2, <3>1, <3>4 DEF FeesInv
    <3> QED BY <1>1, <1>2, <3>2, <3>5 DEF FeesInv
  <2>2. CASE ~claim
    BY <1>1, <1>2, <1>8, <2>2 DEF FeesInv
  <2> QED BY <2>1, <2>2
<1> QED BY <1>16, <1>17 DEF PoolInv

\* Staked tokens change their class.
LEMMA StakeKeeps ==
  ASSUME PoolInv, NEW a \in Providers, NEW l, StakeLp(a, l)
  PROVE  PoolInv'
<1> DEFINE r == BookKept(a)
           p == [pool EXCEPT !.lp = @ - l, !.xlp = @ + l]
           s == [r EXCEPT !.lp = @ - l, !.xlp = @ + l]
<1>1. /\ reset = NotResetting /\ l \in 1..r.lp
      /\ SaveStats(p) /\ providers' = Save(providers, a, s)
      /\ UNCHANGED <<now, fees, balance, yields, rate, rated, stray>>
  BY DEF StakeLp, Provider, feeVars
<1>2. /\ BooksInv /\ FeesInv /\ now \in Nat /\ Len(yields) \in Nat
      /\ RecordOk(r, now, Len(yields)) /\ r \in Stats
      /\ EarningLp(r) = HeldLp(providers, a) /\ r.xlp = HeldXlp(providers, a)
  BY <1>1, CallStarts
<1> HIDE DEF r
<1>3. /\ pool \in Pools /\ pool.lp \in Nat /\ pool.xlp \in Nat
      /\ r.lp \in Nat /\ r.xlp \in Nat
  BY <1>2, PoolFields, RecordFields DEF BooksInv
<1>4. r.lp =< pool.lp
  BY <1>1, <1>2, PartOfPool
<1> DEFINE pl == pool.lp - l
           px == pool.xlp + l
           sl == r.lp - l
           sx == r.xlp + l
<1>5. p = [pool EXCEPT !.lp = pl, !.xlp = px] /\ s = [r EXCEPT !.lp = sl, !.xlp = sx]
  BY <1>2, <1>3 DEF Pools, Stats
<1>6. l \in Nat /\ l =< r.lp
  BY <1>1, <1>3
<1>7. pl \in Nat /\ sl \in Nat
  BY <1>3, <1>4, <1>6
<1>8. px \in Nat /\ sx \in Nat
  BY <1>3, <1>6
<1>9. pl = pool.lp - r.lp + sl
  BY <1>3, <1>6
<1>10. px = pool.xlp - r.xlp + sx
  BY <1>3, <1>6
<1> HIDE DEF p, s, pl, px, sl, sx
<1>11. p \in Pools /\ p.lp = pl /\ p.xlp = px
  BY <1>3, <1>5, <1>7, <1>8 DEF Pools
<1>12. /\ s \in Stats /\ s.key = r.key /\ s.unstaking = r.unstaking
       /\ s.lp = sl /\ s.xlp = sx
  BY <1>2, <1>5, <1>7, <1>8 DEF Stats
<1>13. p.lp = pool.lp - r.lp + s.lp /\ p.xlp = pool.xlp - r.xlp + s.xlp
  BY <1>9, <1>10, <1>11, <1>12
<1>14. BooksInv'
  BY <1>1, <1>2, <1>11, <1>12, <1>13, StatsAreSaved, TokensSaved
<1>15. FeesInv'
  BY <1>1, <1>2 DEF FeesInv
<1> QED BY <1>14, <1>15 DEF PoolInv

\* An unstaking that begins.
LEMMA UnstakingStarts ==
  ASSUME now \in Nat, NEW l \in Nat \ {0}
  PROVE  UnstakingOk([xlp |-> l, collected |-> 0, started |-> now, last |-> now], now)
<1> DEFINE u == [xlp |-> l, collected |-> 0, started |-> now, last |-> now]
<1>1. u \in Unstaking
  BY DEF Unstaking
<1>2. u.collected * UnstakePeriod =< u.xlp * (u.last - u.started)
  BY ConfigAssumption
<1> QED BY <1>1, <1>2 DEF UnstakingOk

\* Unstaking tokens count as LP; what was unstaking before is given back first.
LEMMA UnstakeKeeps ==
  ASSUME PoolInv, NEW a \in Providers, NEW l, UnstakeXlp(a, l)
  PROVE  PoolInv'
<1> DEFINE b == BookKept(a)
           back == b.unstaking.xlp - b.unstaking.collected
           r == Stopped(b)
           u == [xlp |-> l, collected |-> 0, started |-> now, last |-> now]
           p == [pool EXCEPT !.lp = @ - back + l, !.xlp = @ + back - l]
           s == [r EXCEPT !.xlp = @ - l, !.unstaking = u]
<1>1. /\ reset = NotResetting /\ l \in 1..r.xlp
      /\ SaveStats(p) /\ providers' = Save(providers, a, s)
      /\ UNCHANGED <<now, fees, balance, yields, rate, rated, stray>>
  BY DEF UnstakeXlp, Provider, feeVars
<1>2. /\ BooksInv /\ FeesInv /\ now \in Nat /\ Len(yields) \in Nat
      /\ RecordOk(b, now, Len(yields))
      /\ EarningLp(b) = HeldLp(providers, a) /\ b.xlp = HeldXlp(providers, a)
  BY <1>1, CallStarts
<1> HIDE DEF b
<1>3. /\ back \in Nat /\ RecordOk(r, now, Len(yields))
      /\ r.xlp = b.xlp + back /\ r.lp = b.lp /\ r.unstaking = NoUnstaking
      /\ EarningLp(r) = EarningLp(b) - back
  BY <1>2, StoppedOk
<1>4. EarningLp(b) = b.lp + back
  BY DEF EarningLp
<1> HIDE DEF back, r
<1>5. /\ pool \in Pools /\ pool.lp \in Nat /\ pool.xlp \in Nat
      /\ b.lp \in Nat /\ b.xlp \in Nat /\ r \in Stats
  BY <1>2, <1>3, PoolFields, RecordFields DEF BooksInv
<1>6. EarningLp(b) =< pool.lp /\ b.xlp =< pool.xlp
  BY <1>1, <1>2, PartOfPool
<1>7. l \in Nat \ {0} /\ l =< b.xlp + back
  BY <1>1, <1>3, <1>5
<1> DEFINE pl == pool.lp - back + l
           px == pool.xlp + back - l
           sx == b.xlp + back - l
<1>8. p = [pool EXCEPT !.lp = pl, !.xlp = px]
  BY <1>5 DEF Pools
<1>9. s = [r EXCEPT !.xlp = sx, !.unstaking = u]
  <2>1. r.xlp - l = sx
    BY <1>3, <1>5, <1>7
  <2> HIDE DEF sx, u
  <2> QED BY <1>5, <2>1 DEF Stats
<1>10. pl \in Nat
  BY <1>3, <1>4, <1>5, <1>6, <1>7
<1>11. px \in Nat
  BY <1>3, <1>5, <1>6, <1>7
<1>12. sx \in Nat
  BY <1>3, <1>5, <1>7
<1>13. pl = pool.lp - EarningLp(b) + (b.lp + l)
  BY <1>3, <1>4, <1>5, <1>7
<1>14. px = pool.xlp - b.xlp + sx
  BY <1>3, <1>5, <1>7
<1>15. UnstakingOk(u, now) /\ u.xlp = l /\ u.collected = 0
  BY <1>2, <1>7, UnstakingStarts
<1>16. u \in Unstaking
  BY <1>15 DEF UnstakingOk
<1> HIDE DEF p, s, u, pl, px, sx
<1>17. p \in Pools /\ p.lp = pl /\ p.xlp = px
  BY <1>5, <1>8, <1>10, <1>11 DEF Pools
<1>18. /\ s \in Stats /\ s.key = r.key /\ s.unstaking = u
       /\ s.lp = r.lp /\ s.xlp = sx
  BY <1>5, <1>9, <1>12, <1>16 DEF Stats
<1>19. RecordOk(s, now, Len(yields))
  BY <1>3, <1>15, <1>18 DEF RecordOk
<1>20. EarningLp(s) = b.lp + l
  BY <1>3, <1>5, <1>7, <1>15, <1>18 DEF EarningLp
<1>21. BooksInv'
  BY <1>1, <1>2, <1>13, <1>14, <1>17, <1>18, <1>19, <1>20, StatsAreSaved, RecordSaved
<1>22. FeesInv'
  BY <1>1, <1>2 DEF FeesInv
<1> QED BY <1>21, <1>22 DEF PoolInv

\* What was not collected is xLP again.
LEMMA StopKeeps ==
  ASSUME PoolInv, NEW a \in Providers, StopUnstakingXlp(a)
  PROVE  PoolInv'
<1> DEFINE b == BookKept(a)
           back == b.unstaking.xlp - b.unstaking.collected
           r == Stopped(b)
           p == [pool EXCEPT !.lp = @ - back, !.xlp = @ + back]
<1>1. /\ reset = NotResetting
      /\ SaveStats(p) /\ providers' = Save(providers, a, r)
      /\ UNCHANGED <<now, fees, balance, yields, rate, rated, stray>>
  BY DEF StopUnstakingXlp, Provider, feeVars
<1>2. /\ BooksInv /\ FeesInv /\ now \in Nat /\ Len(yields) \in Nat
      /\ RecordOk(b, now, Len(yields))
      /\ EarningLp(b) = HeldLp(providers, a) /\ b.xlp = HeldXlp(providers, a)
  BY <1>1, CallStarts
<1> HIDE DEF b
<1>3. /\ back \in Nat /\ RecordOk(r, now, Len(yields))
      /\ r.xlp = b.xlp + back /\ EarningLp(r) = EarningLp(b) - back
  BY <1>2, StoppedOk
<1>4. EarningLp(b) = b.lp + back
  BY DEF EarningLp
<1> HIDE DEF back, r
<1>5. /\ pool \in Pools /\ pool.lp \in Nat /\ pool.xlp \in Nat
      /\ b.lp \in Nat /\ b.xlp \in Nat
  BY <1>2, PoolFields, RecordFields DEF BooksInv
<1>6. EarningLp(b) =< pool.lp
  BY <1>1, <1>2, PartOfPool
<1> DEFINE pl == pool.lp - back
           px == pool.xlp + back
<1>7. p = [pool EXCEPT !.lp = pl, !.xlp = px]
  BY <1>5 DEF Pools
<1>8. pl \in Nat
  BY <1>3, <1>4, <1>5, <1>6
<1>9. px \in Nat
  BY <1>3, <1>5
<1>10. pl = pool.lp - EarningLp(b) + EarningLp(r)
  <2>1. EarningLp(b) \in Nat
    BY <1>3, <1>4, <1>5
  <2> QED BY <1>3, <1>5, <2>1
<1>11. px = pool.xlp - b.xlp + r.xlp
  BY <1>3, <1>5
<1> HIDE DEF p, pl, px
<1>12. p \in Pools /\ p.lp = pl /\ p.xlp = px
  BY <1>5, <1>7, <1>8, <1>9 DEF Pools
<1>13. BooksInv'
  BY <1>1, <1>2, <1>3, <1>10, <1>11, <1>12, StatsAreSaved, RecordSaved
<1>14. FeesInv'
  BY <1>1, <1>2 DEF FeesInv
<1> QED BY <1>13, <1>14 DEF PoolInv

\* Collected tokens counted as LP before.
LEMMA CollectUnstakedKeeps ==
  ASSUME PoolInv, NEW a \in Providers, CollectUnstakedLp(a)
  PROVE  PoolInv'
<1>1. /\ reset = NotResetting /\ providers' = Save(providers, a, BookKept(a))
      /\ UNCHANGED <<now, pool, reset, fees, balance, yields, rate, rated, stray>>
  BY DEF CollectUnstakedLp, Provider, feeVars
<1>2. /\ BooksInv /\ FeesInv /\ now \in Nat /\ Len(yields) \in Nat
      /\ RecordOk(BookKept(a), now, Len(yields))
      /\ EarningLp(BookKept(a)) = HeldLp(providers, a)
      /\ BookKept(a).xlp = HeldXlp(providers, a)
  BY <1>1, CallStarts
<1>3. /\ pool \in Pools /\ pool.lp \in Nat /\ pool.xlp \in Nat
      /\ EarningLp(BookKept(a)) \in Nat /\ BookKept(a).xlp \in Nat
  BY <1>1, <1>2, PartOfPool DEF BooksInv
<1>4. /\ pool.lp = pool.lp - HeldLp(providers, a) + EarningLp(BookKept(a))
      /\ pool.xlp = pool.xlp - HeldXlp(providers, a) + BookKept(a).xlp
  BY <1>2, <1>3
<1>5. BooksInv'
  BY <1>1, <1>2, <1>3, <1>4, RecordSaved DEF StatsSaved
<1>6. FeesInv'
  BY <1>1, <1>2 DEF FeesInv
<1> QED BY <1>5, <1>6 DEF PoolInv

\* A transfer moves l tokens of a class from one record to another.
LEMMA TransferKeeps ==
  ASSUME PoolInv, NEW a \in Providers, NEW b \in Providers, NEW class \in Classes, NEW l,
         TransferToken(a, b, class, l)
  PROVE  PoolInv'
<1> DEFINE r == BookKept(a)
           s == BookKept(b)
           ra == [r EXCEPT ![class] = @ - l]
           sb == [s EXCEPT ![class] = @ + l]
           moved == Save(providers, a, ra)
           n == Len(yields)
<1>1. /\ reset = NotResetting /\ a # b /\ l \in 1..r[class]
      /\ providers' = Save(moved, b, sb)
      /\ UNCHANGED <<now, pool, reset, fees, balance, yields, rate, rated, stray>>
  BY DEF TransferToken, Provider, feeVars
<1>2. /\ BooksInv /\ FeesInv /\ now \in Nat /\ n \in Nat
      /\ RecordOk(r, now, n) /\ r \in Stats
      /\ EarningLp(r) = HeldLp(providers, a) /\ r.xlp = HeldXlp(providers, a)
      /\ RecordOk(s, now, n) /\ s \in Stats
      /\ EarningLp(s) = HeldLp(providers, b) /\ s.xlp = HeldXlp(providers, b)
  BY <1>1, CallStarts
<1> HIDE DEF r, s
<1>3. r.lp \in Nat /\ r.xlp \in Nat /\ s.lp \in Nat /\ s.xlp \in Nat
  BY <1>2, RecordFields
<1>4. EarningLp(r) \in Nat /\ EarningLp(s) \in Nat
  BY <1>2, EarningType
<1> DEFINE ml == IF class = "lp" THEN l ELSE 0
           mx == IF class = "lp" THEN 0 ELSE l
<1>5. l \in Nat /\ ml \in Nat /\ mx \in Nat /\ ml =< r.lp /\ mx =< r.xlp
  <2>1. CASE class = "lp"
    BY <1>1, <1>3, <2>1
  <2>2. CASE class = "xlp"
    BY <1>1, <1>3, <2>2
  <2> QED BY <2>1, <2>2 DEF Classes
<1> DEFINE rl == r.lp - ml
           rx == r.xlp - mx
           tl == s.lp + ml
           tx == s.xlp + mx
<1>6. /\ ra = [r EXCEPT !.lp = rl, !.xlp = rx]
      /\ sb = [s EXCEPT !.lp = tl, !.xlp = tx]
  <2>1. CASE class = "lp"
    <3>1. rx = r.xlp /\ tx = s.xlp /\ rl = r.lp - l /\ tl = s.lp + l
      BY <1>3, <2>1
    <3> HIDE DEF rl, rx, tl, tx
    <3> QED BY <1>2, <2>1, <3>1 DEF Stats
  <2>2. CASE class = "xlp"
    <3>1. rx = r.xlp - l /\ tx = s.xlp + l /\ rl = r.lp /\ tl = s.lp
      BY <1>3, <2>2
    <3> HIDE DEF rl, rx, tl, tx
    <3> QED BY <1>2, <2>2, <3>1 DEF Stats
  <2> QED BY <2>1, <2>2 DEF Classes
<1> HIDE DEF ra, sb, ml, mx
<1>7. rl \in Nat /\ rx \in Nat /\ tl \in Nat /\ tx \in Nat
  BY <1>3, <1>5
<1>8. /\ ra \in Stats /\ ra.key = r.key /\ ra.unstaking = r.unstaking
      /\ ra.lp = rl /\ ra.xlp = rx
  <2> HIDE DEF rl, rx
  <2> QED BY <1>2, <1>6, <1>7 DEF Stats
<1>9. /\ sb \in Stats /\ sb.key = s.key /\ sb.unstaking = s.unstaking
      /\ sb.lp = tl /\ sb.xlp = tx
  <2> HIDE DEF tl, tx
  <2> QED BY <1>2, <1>6, <1>7 DEF Stats
<1>10. RecordOk(ra, now, n) /\ EarningLp(ra) = EarningLp(r) - ml
  <2>1. RecordOk(ra, now, n) /\ EarningLp(ra) = EarningLp(r) - r.lp + ra.lp
    BY <1>2, <1>8, RecordWith
  <2> QED BY <1>3, <1>4, <1>5, <1>8, <2>1
<1>11. RecordOk(sb, now, n) /\ EarningLp(sb) = EarningLp(s) + ml
  <2>1. RecordOk(sb, now, n) /\ EarningLp(sb) = EarningLp(s) - s.lp + sb.lp
    BY <1>2, <1>9, RecordWith
  <2> QED BY <1>3, <1>4, <1>5, <1>9, <2>1
<1>12. Books(providers, now, n)
  BY <1>2 DEF BooksInv
<1>13. /\ Books(moved, now, n)
       /\ LpSum(moved) = LpSum(providers) - EarningLp(r) + EarningLp(ra)
       /\ XlpSum(moved) = XlpSum(providers) - r.xlp + ra.xlp
       /\ HeldLp(moved, b) = EarningLp(s) /\ HeldXlp(moved, b) = s.xlp
  <2>1. /\ Books(moved, now, n)
        /\ b \in DOMAIN moved <=> b \in DOMAIN providers
        /\ b \in DOMAIN providers => moved[b] = providers[b]
        /\ LpSum(moved) = LpSum(providers) - HeldLp(providers, a) + EarningLp(ra)
        /\ XlpSum(moved) = XlpSum(providers) - HeldXlp(providers, a) + ra.xlp
    BY <1>1, <1>2, <1>10, <1>12, SaveSums
  <2> QED BY <1>2, <2>1 DEF HeldLp, HeldXlp
<1> HIDE DEF moved
<1>14. /\ Books(providers', now, n)
       /\ LpSum(providers') = LpSum(moved) - EarningLp(s) + EarningLp(sb)
       /\ XlpSum(providers') = XlpSum(moved) - s.xlp + sb.xlp
  BY <1>1, <1>2, <1>11, <1>13, SaveSums
<1>15. LpSum(providers) \in Nat /\ XlpSum(providers) \in Nat
  BY <1>2, <1>12, HeldBound
<1>16. LpSum(providers') = LpSum(providers)
  <2>1. LpSum(moved) = LpSum(providers) - ml
    BY <1>4, <1>5, <1>10, <1>13, <1>15
  <2> QED BY <1>4, <1>5, <1>11, <1>14, <1>15, <2>1
<1>17. XlpSum(providers') = XlpSum(providers)
  <2>1. XlpSum(moved) = XlpSum(providers) - mx
    BY <1>3, <1>5, <1>8, <1>13, <1>15
  <2> QED BY <1>3, <1>5, <1>9, <1>14, <1>15, <2>1
<1>18. BooksInv'
  BY <1>1, <1>2, <1>14, <1>16, <1>17 DEF BooksInv, SharesInv, YieldsOk, LastYield
<1>19. FeesInv'
  BY <1>1, <1>2 DEF FeesInv
<1> QED BY <1>18, <1>19 DEF PoolInv

------------------------------------------------------------------------------
(* Proofs: time, the market and the crank keep the invariant.              *)

\* Records stay in order as time goes by and prefix sums are added.
LEMMA RecordLater ==
  ASSUME NEW t \in Nat, NEW n \in Nat, NEW u \in Nat, NEW m \in Nat, t =< u, n =< m,
         NEW r, RecordOk(r, t, n)
  PROVE  RecordOk(r, u, m)
<1>1. r \in Stats /\ r.key \in 1..n /\ UnstakingOk(r.unstaking, t)
  BY RecordFields
<1>2. r.key \in 1..m
  BY <1>1
<1>3. UnstakingOk(r.unstaking, u)
  <2>1. r.unstaking \in Unstaking
    BY <1>1 DEF UnstakingOk
  <2>2. r.unstaking.last \in Nat
    BY <2>1 DEF Unstaking
  <2>3. r.unstaking # NoUnstaking => r.unstaking.last =< u
    BY <1>1, <2>2 DEF UnstakingOk
  <2> QED BY <1>1, <2>3 DEF UnstakingOk
<1> QED BY <1>1, <1>2, <1>3 DEF RecordOk

\* Records stay good as time goes on and prefix sums are added.
LEMMA BooksLater ==
  ASSUME NEW t \in Nat, NEW n \in Nat, NEW u \in Nat, NEW m \in Nat, t =< u, n =< m,
         NEW f, Books(f, t, n)
  PROVE  Books(f, u, m)
BY RecordLater DEF Books

\* Time passes, and cooldowns end.
LEMMA TickKeeps ==
  ASSUME PoolInv, Tick
  PROVE  PoolInv'
<1> DEFINE D == DOMAIN providers
           n == Len(yields)
<1>1. /\ now \in Nat /\ n \in Nat /\ Books(providers, now, n) /\ FeesInv /\ BooksInv
  BY YieldsType DEF PoolInv, BooksInv
<1>2. /\ now' = now + 1 /\ DOMAIN providers' = D
      /\ \A a \in D : providers'[a] =
           IF providers[a].cooldownEnds =< now' THEN [providers[a] EXCEPT !.cooldownEnds = 0]
           ELSE providers[a]
      /\ UNCHANGED <<pool, yields, rate, rated, reset, fees, balance, stray>>
  BY DEF Tick
<1>3. now' \in Nat /\ now =< now'
  BY <1>1, <1>2
<1>4. Books(providers, now', n)
  BY <1>1, <1>3, BooksLater
<1>5. ASSUME NEW a \in D
      PROVE  /\ RecordOk(providers'[a], now', n) /\ ~IsEmpty(providers'[a])
             /\ EarningLp(providers'[a]) = EarningLp(providers[a])
             /\ providers'[a].xlp = providers[a].xlp
  <2>1. RecordOk(providers[a], now', n) /\ ~IsEmpty(providers[a]) /\ providers[a] \in Stats
    BY <1>4, RecordFields DEF Books
  <2>2. CASE providers[a].cooldownEnds =< now'
    <3>1. providers'[a] = [providers[a] EXCEPT !.cooldownEnds = 0]
      BY <1>2, <2>2
    <3>2. /\ providers'[a] \in Stats
          /\ providers'[a].lp = providers[a].lp /\ providers'[a].xlp = providers[a].xlp
          /\ providers'[a].due = providers[a].due
          /\ providers'[a].key = providers[a].key
          /\ providers'[a].unstaking = providers[a].unstaking
      BY <2>1, <3>1 DEF Stats
    <3>3. RecordOk(providers'[a], now', n)
      BY <2>1, <3>2 DEF RecordOk
    <3> QED BY <2>1, <3>2, <3>3 DEF IsEmpty, EarningLp
  <2>3. CASE ~(providers[a].cooldownEnds =< now')
    BY <1>2, <2>1, <2>3
  <2> QED BY <2>2, <2>3
<1>6. Books(providers', now', n)
  BY <1>1, <1>2, <1>5 DEF Books
<1>7. LpSum(providers') = LpSum(providers) /\ XlpSum(providers') = XlpSum(providers)
  <2>1. IsFiniteSet(D)
    BY <1>1, BooksFinite
  <2>2. \A a \in D : /\ LpOf(providers)[a] = LpOf(providers')[a]
                     /\ XlpOf(providers)[a] = XlpOf(providers')[a]
    BY <1>2, <1>5 DEF LpOf, XlpOf
  <2> QED BY <1>2, <2>1, <2>2, TotalSame DEF LpSum, XlpSum
<1>8. SharesInv'
  BY <1>1, <1>2, <1>5, <1>7 DEF BooksInv, SharesInv
<1>9. BooksInv'
  BY <1>1, <1>2, <1>3, <1>6, <1>8 DEF BooksInv, YieldsOk, LastYield
<1>10. FeesInv'
  BY <1>1, <1>2 DEF FeesInv
<1> QED BY <1>9, <1>10 DEF PoolInv

\* The pool changes, but not its tokens and not the providers.
LEMMA PoolMoves ==
  ASSUME BooksInv, reset = NotResetting, now' = now,
         YieldsOk', Len(yields) =< Len(yields)', providers' = providers,
         NEW p \in Pools, StatsSaved(p), p.lp = pool.lp, p.xlp = pool.xlp
  PROVE  BooksInv'
<1>1. now \in Nat /\ Len(yields) \in Nat /\ Len(yields') \in Nat
  BY YieldsType DEF BooksInv, YieldsOk
<1>2. Books(providers', now', Len(yields'))
  BY <1>1, BooksLater DEF BooksInv
<1>3. CASE pool' = p /\ reset' = reset
  BY <1>2, <1>3 DEF BooksInv, SharesInv
<1>4. CASE pool' = EmptyPool /\ reset' = Begin
  <2>1. pool' \in Pools /\ reset' \in 0..NumProviders /\ reset' # NotResetting
    BY <1>4, ProvidersAssumption DEF EmptyPool, Pools, Begin, NotResetting
  <2>2. \A b \in DOMAIN providers' : ~(b =< reset')
    BY <1>2, <1>4, ProvidersAssumption DEF Books, Providers, Begin
  <2> QED BY <1>2, <1>4, <2>1, <2>2 DEF BooksInv, SharesInv
<1> QED BY <1>3, <1>4 DEF StatsSaved

\* A record is saved whose tokens are the same, whether or not the pool is
\* being reset.
LEMMA RewardSaved ==
  ASSUME BooksInv, UNCHANGED <<now, pool, reset, yields>>,
         NEW a \in Providers, NEW r, RecordOk(r, now, Len(yields)),
         EarningLp(r) = HeldLp(providers, a), r.xlp = HeldXlp(providers, a),
         providers' = Save(providers, a, r)
  PROVE  BooksInv'
<1>1. now \in Nat /\ Len(yields) \in Nat /\ Books(providers, now, Len(yields))
  BY YieldsType DEF BooksInv
<1>2. /\ Books(providers', now, Len(yields))
      /\ \A b : b # a => /\ b \in DOMAIN providers' <=> b \in DOMAIN providers
                         /\ b \in DOMAIN providers => providers'[b] = providers[b]
      /\ a \in DOMAIN providers' => providers'[a] = r
      /\ LpSum(providers') = LpSum(providers) - HeldLp(providers, a) + EarningLp(r)
      /\ XlpSum(providers') = XlpSum(providers) - HeldXlp(providers, a) + r.xlp
  BY <1>1, SaveSums
<1>3. LpSum(providers') = LpSum(providers) /\ XlpSum(providers') = XlpSum(providers)
  <2>1. /\ LpSum(providers) \in Nat /\ HeldLp(providers, a) \in Nat
        /\ XlpSum(providers) \in Nat /\ HeldXlp(providers, a) \in Nat
    BY <1>1, HeldBound
  <2> QED BY <1>2, <2>1
<1>4. ASSUME reset # NotResetting, NEW b \in DOMAIN providers', b =< reset
      PROVE  EarningLp(providers'[b]) = 0 /\ providers'[b].xlp = 0
  <2>1. \A c \in DOMAIN providers : c =< reset =>
          EarningLp(providers[c]) = 0 /\ providers[c].xlp = 0
    BY <1>4 DEF BooksInv, SharesInv
  <2>2. CASE b = a
    BY <1>2, <1>4, <2>1, <2>2 DEF HeldLp, HeldXlp
  <2>3. CASE b # a
    BY <1>2, <1>4, <2>1, <2>3
  <2> QED BY <2>2, <2>3
<1>5. SharesInv'
  BY <1>3, <1>4 DEF BooksInv, SharesInv
<1> QED BY <1>2, <1>5 DEF BooksInv, YieldsOk, LastYield

\* The same, when prefix sums are added and collateral moves in the pool.
LEMMA RewardAndMove ==
  ASSUME BooksInv, reset = NotResetting, now' = now,
         YieldsOk', Len(yields) =< Len(yields)',
         NEW a \in Providers, NEW r, RecordOk(r, now, Len(yields)),
         EarningLp(r) = HeldLp(providers, a), r.xlp = HeldXlp(providers, a),
         providers' = Save(providers, a, r),
         NEW p \in Pools, StatsSaved(p), p.lp = pool.lp, p.xlp = pool.xlp
  PROVE  BooksInv'
<1>1. /\ now \in Nat /\ Len(yields) \in Nat /\ Len(yields') \in Nat
      /\ Books(providers, now, Len(yields))
  BY YieldsType DEF BooksInv, YieldsOk
<1>2. /\ Books(providers', now, Len(yields))
      /\ LpSum(providers') = LpSum(providers) - HeldLp(providers, a) + EarningLp(r)
      /\ XlpSum(providers') = XlpSum(providers) - HeldXlp(providers, a) + r.xlp
  BY <1>1, SaveSums
<1>3. Books(providers', now', Len(yields'))
  BY <1>1, <1>2, BooksLater
<1>4. LpSum(providers') = LpSum(providers) /\ XlpSum(providers') = XlpSum(providers)
  <2>1. /\ LpSum(providers) \in Nat /\ HeldLp(providers, a) \in Nat
        /\ XlpSum(providers) \in Nat /\ HeldXlp(providers, a) \in Nat
    BY <1>1, HeldBound
  <2> QED BY <1>2, <2>1
<1>5. CASE pool' = p /\ reset' = reset
  BY <1>3, <1>4, <1>5 DEF BooksInv, SharesInv
<1>6. CASE pool' = EmptyPool /\ reset' = Begin
  <2>1. pool' \in Pools /\ reset' \in 0..NumProviders /\ reset' # NotResetting
    BY <1>6, ProvidersAssumption DEF EmptyPool, Pools, Begin, NotResetting
  <2>2. \A b \in DOMAIN providers' : ~(b =< reset')
    BY <1>3, <1>6, ProvidersAssumption DEF Books, Providers, Begin
  <2> QED BY <1>3, <1>6, <2>1, <2>2 DEF BooksInv, SharesInv
<1> QED BY <1>5, <1>6 DEF StatsSaved

\* liquidity_process_new_yield appends a prefix sum that is no smaller.
LEMMA AddYieldKeeps ==
  ASSUME YieldsOk, stray \in Nat, NEW p \in Pools, NEW l \in Nat, NEW x \in Nat,
         AddYield(p, l, x)
  PROVE  YieldsOk' /\ Len(yields) =< Len(yields)' /\ stray' \in Nat
<1> DEFINE dl == IF p.lp = 0 THEN 0 ELSE Div(l, p.lp)
           dx == IF p.xlp = 0 THEN 0 ELSE Div(x, p.xlp)
           y == [lp |-> LastYield.lp + dl, xlp |-> LastYield.xlp + dx]
           n == Len(yields)
<1>1. yields' = Append(yields, y) /\ stray' = stray + (IF p.lp = 0 THEN l ELSE 0) + (IF p.xlp = 0 THEN x ELSE 0)
  BY DEF AddYield
<1>2. p.lp \in Nat /\ p.xlp \in Nat
  BY PoolFields
<1>3. dl \in Nat
  BY <1>2, DivType
<1>4. dx \in Nat
  BY <1>2, DivType
<1>5. /\ n \in Nat \ {0} /\ LastYield.lp \in Nat /\ LastYield.xlp \in Nat
      /\ yields \in Seq([lp : Nat, xlp : Nat])
  BY YieldsType DEF YieldsOk
<1> HIDE DEF dl, dx
<1>6. y \in [lp : Nat, xlp : Nat] /\ y.lp >= LastYield.lp /\ y.xlp >= LastYield.xlp
  BY <1>3, <1>4, <1>5, SMTT(30)
<1> HIDE DEF y
<1>7. /\ yields' \in Seq([lp : Nat, xlp : Nat]) /\ Len(yields') = n + 1
      /\ \A i \in 1..n : yields'[i] = yields[i]
      /\ yields'[n + 1] = y
  BY <1>1, <1>5, <1>6, AppendProperties
<1>8. LastYield' = y
  BY <1>7 DEF LastYield
<1>9. ASSUME NEW i \in 1..Len(yields')
      PROVE  yields'[i].lp =< y.lp /\ yields'[i].xlp =< y.xlp
  <2>1. CASE i = n + 1
    BY <1>6, <1>7, <2>1
  <2>2. CASE i \in 1..n
    <3>1. /\ yields[i].lp =< LastYield.lp /\ yields[i].xlp =< LastYield.xlp
          /\ yields[i] \in [lp : Nat, xlp : Nat]
      BY <2>2, YieldsType DEF YieldsOk
    <3>2. /\ yields[i].lp \in Nat /\ yields[i].xlp \in Nat /\ y.lp \in Nat /\ y.xlp \in Nat
          /\ yields'[i] = yields[i]
      BY <1>6, <1>7, <2>2, <3>1
    <3> QED BY <1>5, <1>6, <3>1, <3>2, SMTT(30)
  <2> QED BY <1>5, <1>7, <2>1, <2>2
<1>10. YieldsOk'
  <2>1. yields' # <<>>
    BY <1>5, <1>7
  <2> QED BY <1>7, <1>8, <1>9, <2>1 DEF YieldsOk
<1>11. stray' \in Nat
  BY <1>1
<1> QED BY <1>5, <1>7, <1>10, <1>11

\* A trading fee is split among the wallets, the protocol and the referrer.
LEMMA TradingFeeKeeps ==
  ASSUME YieldsOk, FeesInv, NEW p \in Pools, NEW f \in Nat, NEW reward \in Nat,
         reward =< f, TradingFee(p, f, reward)
  PROVE  /\ YieldsOk' /\ Len(yields) =< Len(yields)' /\ stray' \in Nat
         /\ fees' \in [wallets : Nat, protocol : Nat, crank : Nat, referral : Nat]
         /\ fees'.crank = fees.crank
         /\ fees'.wallets + fees'.protocol + fees'.referral
              = fees.wallets + fees.protocol + fees.referral + f
<1> DEFINE x == f - reward
           tax == Mul(x, ProtocolTax)
<1>1. PICK s \in Split(x - tax) : AddYield(p, s[1], s[2])
  BY DEF TradingFee
<1>2. x \in Nat
  OBVIOUS
<1> HIDE DEF x
<1>3. tax \in Nat /\ tax =< x
  BY <1>2, MulRatio, ConfigAssumption
<1>4. fees' = [fees EXCEPT !.wallets = @ + (x - tax), !.protocol = @ + tax, !.referral = @ + reward]
  BY DEF TradingFee, x
<1> HIDE DEF tax
<1>5. x - tax \in Nat
  BY <1>2, <1>3
<1>6. s[1] \in Nat /\ s[2] \in Nat
  BY <1>5 DEF Split
<1>7. YieldsOk' /\ Len(yields) =< Len(yields)' /\ stray' \in Nat
  BY <1>1, <1>6, AddYieldKeeps DEF FeesInv
<1> DEFINE w == fees.wallets + (x - tax)
           q == fees.protocol + tax
           e == fees.referral + reward
<1>8. /\ fees \in [wallets : Nat, protocol : Nat, crank : Nat, referral : Nat]
      /\ fees.wallets \in Nat /\ fees.protocol \in Nat /\ fees.referral \in Nat
  BY DEF FeesInv
<1>9. fees' = [fees EXCEPT !.wallets = w, !.protocol = q, !.referral = e]
  BY <1>4, <1>8
<1>10. w \in Nat
  BY <1>5, <1>8
<1>11. q \in Nat /\ e \in Nat
  BY <1>3, <1>8
<1>12. w + q + e = fees.wallets + fees.protocol + fees.referral + f
  BY <1>2, <1>3, <1>8 DEF x
<1> HIDE DEF w, q, e
<1>13. /\ fees' \in [wallets : Nat, protocol : Nat, crank : Nat, referral : Nat]
       /\ fees'.wallets = w /\ fees'.protocol = q /\ fees'.referral = e
       /\ fees'.crank = fees.crank
  BY <1>8, <1>9, <1>10, <1>11
<1> QED BY <1>7, <1>12, <1>13

\* A fee is collected, and liquidity is locked; a referrer may get a record.
LEMMA OpenKeeps ==
  ASSUME PoolInv, NEW f \in FeeAmounts, NEW c, NEW w \in Providers \cup {0},
         OpenPosition(f, c, w)
  PROVE  PoolInv'
<1> DEFINE reward == IF w \in Providers THEN Mul(f, ReferralRatio) ELSE 0
           p == [pool EXCEPT !.locked = @ + c, !.unlocked = @ - c]
           s == [Load(w) EXCEPT !.due = @ + reward]
<1>1. /\ reset = NotResetting /\ c \in 1..pool.unlocked
      /\ TradingFee(pool, f, reward) /\ SaveStats(p)
      /\ providers' = IF w \in Providers THEN Save(providers, w, s) ELSE providers
      /\ balance' = balance + f
      /\ UNCHANGED <<now, rate, rated>>
  BY DEF OpenPosition
<1>2. /\ BooksInv /\ FeesInv /\ YieldsOk /\ pool \in Pools /\ f \in Nat
      /\ now \in Nat /\ Len(yields) \in Nat
      /\ pool.locked \in Nat /\ pool.unlocked \in Nat
  BY YieldsType, PoolFields, AmountsAssumption DEF PoolInv, BooksInv
<1>3. reward \in Nat /\ reward =< f
  <2>1. CASE w \in Providers
    BY <1>2, <2>1, MulRatio, ConfigAssumption
  <2>2. CASE w \notin Providers
    BY <1>2, <2>2
  <2> QED BY <2>1, <2>2
<1> HIDE DEF reward
<1>4. /\ YieldsOk' /\ Len(yields) =< Len(yields)' /\ stray' \in Nat
      /\ fees' \in [wallets : Nat, protocol : Nat, crank : Nat, referral : Nat]
  BY <1>1, <1>2, <1>3, TradingFeeKeeps
<1> DEFINE lo == pool.locked + c
           un == pool.unlocked - c
<1>5. p = [pool EXCEPT !.locked = lo, !.unlocked = un]
  BY <1>2 DEF Pools
<1>6. c \in Nat /\ c =< pool.unlocked
  BY <1>1, <1>2
<1>7. lo \in Nat /\ un \in Nat
  BY <1>2, <1>6
<1> HIDE DEF p, lo, un
<1>8. p \in Pools /\ p.lp = pool.lp /\ p.xlp = pool.xlp
  BY <1>2, <1>5, <1>7 DEF Pools
<1>9. BooksInv'
  <2>1. CASE w \notin Providers
    BY <1>1, <1>2, <1>4, <1>8, <2>1, StatsAreSaved, PoolMoves
  <2>2. CASE w \in Providers
    <3>1. /\ RecordOk(Load(w), now, Len(yields)) /\ Load(w) \in Stats /\ Load(w).due \in Nat
          /\ EarningLp(Load(w)) = HeldLp(providers, w)
          /\ Load(w).xlp = HeldXlp(providers, w)
      BY <1>2, <2>2, BooksKept, RecordFields
    <3> DEFINE d == Load(w).due + reward
    <3>2. d \in Nat /\ s = [Load(w) EXCEPT !.due = d]
      BY <1>3, <3>1 DEF Stats
    <3> HIDE DEF d, s
    <3>3. /\ s \in Stats /\ s.key = Load(w).key /\ s.unstaking = Load(w).unstaking
          /\ s.lp = Load(w).lp /\ s.xlp = Load(w).xlp
      BY <3>1, <3>2 DEF Stats
    <3>4. RecordOk(s, now, Len(yields)) /\ EarningLp(s) = EarningLp(Load(w))
      BY <3>1, <3>3 DEF RecordOk, EarningLp
    <3> QED BY <1>1, <1>2, <1>4, <1>8, <2>2, <3>1, <3>3, <3>4, StatsAreSaved, RewardAndMove
  <2> QED BY <2>1, <2>2
<1>10. FeesInv'
  BY <1>1, <1>2, <1>4, SMTT(30) DEF FeesInv
<1> QED BY <1>9, <1>10 DEF PoolInv

\* A fee amount and the signed exposure of a liquifunding.
LEMMA LiquifundKeeps ==
  ASSUME PoolInv, NEW l \in FeeAmounts, NEW x \in FeeAmounts, NEW d \in Int,
         Liquifund(l, x, d)
  PROVE  PoolInv'
<1> DEFINE tl == Mul(l, ProtocolTax)
           tx == Mul(x, ProtocolTax)
           p == [pool EXCEPT !.locked = @ + d]
<1>1. /\ reset = NotResetting /\ pool.locked + d >= 0
      /\ AddYield(pool, l - tl, x - tx)
      /\ fees' = [fees EXCEPT !.wallets = @ + (l - tl) + (x - tx), !.protocol = @ + tl + tx]
      /\ SaveStats(p) /\ balance' = balance + l + x + d
      /\ UNCHANGED <<now, providers, rate, rated>>
  BY DEF Liquifund, InUse
<1>2. /\ BooksInv /\ FeesInv /\ YieldsOk /\ pool \in Pools /\ l \in Nat /\ x \in Nat
      /\ pool.locked \in Nat /\ balance \in Int /\ stray \in Nat
  BY PoolFields, AmountsAssumption DEF PoolInv, BooksInv, FeesInv
<1>3. tl \in Nat /\ tl =< l /\ tx \in Nat /\ tx =< x
  BY <1>2, MulRatio, ConfigAssumption
<1> HIDE DEF tl, tx
<1> DEFINE nl == l - tl
           nx == x - tx
<1>4. nl \in Nat /\ nx \in Nat
  BY <1>2, <1>3
<1>5. YieldsOk' /\ Len(yields) =< Len(yields)' /\ stray' \in Nat
  <2> HIDE DEF nl, nx
  <2>1. AddYield(pool, nl, nx)
    BY <1>1 DEF nl, nx
  <2> QED BY <1>2, <1>4, <2>1, AddYieldKeeps
<1> DEFINE lo == pool.locked + d
           w == fees.wallets + nl + nx
           q == fees.protocol + tl + tx
<1>6. p = [pool EXCEPT !.locked = lo] /\ lo \in Nat
  BY <1>1, <1>2 DEF Pools
<1>7. /\ fees \in [wallets : Nat, protocol : Nat, crank : Nat, referral : Nat]
      /\ fees' = [fees EXCEPT !.wallets = w, !.protocol = q]
      /\ fees.wallets \in Nat /\ fees.protocol \in Nat
  BY <1>1, <1>2 DEF FeesInv
<1>8. w \in Nat /\ q \in Nat
  BY <1>3, <1>4, <1>7
<1> HIDE DEF p, lo, w, q, nl, nx
<1>9. p \in Pools /\ p.lp = pool.lp /\ p.xlp = pool.xlp
  BY <1>2, <1>6 DEF Pools
<1>10. BooksInv'
  BY <1>1, <1>2, <1>5, <1>9, StatsAreSaved, PoolMoves
<1>11. fees' \in [wallets : Nat, protocol : Nat, crank : Nat, referral : Nat]
  BY <1>7, <1>8
<1>12. balance' \in Int
  BY <1>1, <1>2
<1>13. FeesInv'
  BY <1>1, <1>2, <1>5, <1>11, <1>12 DEF FeesInv
<1> QED BY <1>10, <1>13 DEF PoolInv

\* A gain leaves the pool, the rest of what was locked may be unlocked.
LEMMA CloseKeeps ==
  ASSUME PoolInv, NEW g \in Nat, NEW f \in FeeAmounts, NEW c \in Int,
         ClosePosition(g, f, c)
  PROVE  PoolInv'
<1> DEFINE p == [pool EXCEPT !.locked = @ - g]
           s == [p EXCEPT !.locked = @ - c, !.unlocked = @ + c]
<1>1. /\ reset = NotResetting /\ c >= 0 /\ g + c \in 1..pool.locked
      /\ TradingFee(Settled(p), f, 0) /\ SaveStats(s)
      /\ balance' = balance - g + f
      /\ UNCHANGED <<now, providers, rate, rated>>
  BY DEF ClosePosition, InUse
<1>2. /\ BooksInv /\ FeesInv /\ YieldsOk /\ pool \in Pools /\ f \in Nat
      /\ pool.locked \in Nat /\ pool.unlocked \in Nat /\ balance \in Int
  BY PoolFields, AmountsAssumption DEF PoolInv, BooksInv, FeesInv
<1> DEFINE lo == pool.locked - g
           ls == pool.locked - g - c
           us == pool.unlocked + c
<1>3. lo \in Nat /\ ls \in Nat
  BY <1>1, <1>2
<1>4. us \in Nat
  BY <1>1, <1>2
<1>5. p = [pool EXCEPT !.locked = lo] /\ s = [pool EXCEPT !.locked = ls, !.unlocked = us]
  BY <1>2 DEF Pools
<1> HIDE DEF p, s, lo, ls, us
<1>6. p \in Pools
  BY <1>2, <1>3, <1>5 DEF Pools
<1>7. s \in Pools /\ s.lp = pool.lp /\ s.xlp = pool.xlp
  BY <1>2, <1>3, <1>4, <1>5 DEF Pools
<1>8. Settled(p) \in Pools
  BY <1>6 DEF Settled, EmptyPool, Pools
<1>9. /\ YieldsOk' /\ Len(yields) =< Len(yields)' /\ stray' \in Nat
      /\ fees' \in [wallets : Nat, protocol : Nat, crank : Nat, referral : Nat]
  BY <1>1, <1>2, <1>8, TradingFeeKeeps
<1>10. BooksInv'
  BY <1>1, <1>2, <1>7, <1>9, StatsAreSaved, PoolMoves
<1>11. balance' \in Int
  BY <1>1, <1>2
<1>12. FeesInv'
  BY <1>1, <1>2, <1>9, <1>11 DEF FeesInv
<1> QED BY <1>10, <1>12 DEF PoolInv

\* The steps that leave the pool, its providers and the prefix sums alone.
LEMMA BooksStay ==
  ASSUME BooksInv, UNCHANGED <<now, pool, providers, reset, yields>>
  PROVE  BooksInv'
BY DEF BooksInv, SharesInv, YieldsOk, LastYield

\* A new rate point.
LEMMA AccumulateKeeps ==
  ASSUME PoolInv, AccumulateBorrowFeeRate
  PROVE  PoolInv'
<1>1. BooksInv'
  BY BooksStay DEF PoolInv, AccumulateBorrowFeeRate
<1>2. FeesInv'
  BY DEF PoolInv, FeesInv, AccumulateBorrowFeeRate, Classes
<1> QED BY <1>1, <1>2 DEF PoolInv

\* Crank fees.
LEMMA ProvideCrankFundsKeeps ==
  ASSUME PoolInv, NEW x \in Nat, ProvideCrankFunds(x)
  PROVE  PoolInv'
<1>1. BooksInv'
  BY BooksStay DEF PoolInv, ProvideCrankFunds, feeVars
<1>2. FeesInv'
  BY DEF PoolInv, FeesInv, ProvideCrankFunds, feeVars
<1> QED BY <1>1, <1>2 DEF PoolInv

\* The protocol's fees leave.
LEMMA TransferDaoKeeps ==
  ASSUME PoolInv, TransferDaoFees
  PROVE  PoolInv'
<1>1. BooksInv'
  BY BooksStay DEF PoolInv, TransferDaoFees, feeVars
<1>2. FeesInv'
  BY DEF PoolInv, FeesInv, TransferDaoFees, feeVars
<1> QED BY <1>1, <1>2 DEF PoolInv

\* The reward of a cranker comes out of the crank fees, as far as they go.
LEMMA AllocateCrankFeesKeeps ==
  ASSUME PoolInv, NEW a \in Providers, NEW n \in Nat, AllocateCrankFees(a, n)
  PROVE  PoolInv'
<1> DEFINE c == CrankPayment(n)
           r == Load(a)
           s == [r EXCEPT !.due = @ + c]
<1>1. /\ providers' = Save(providers, a, s)
      /\ fees' = [fees EXCEPT !.crank = @ - c, !.wallets = @ + c]
      /\ UNCHANGED <<now, pool, reset, balance, yields, rate, rated, stray>>
  BY DEF AllocateCrankFees, feeVars
<1>2. /\ BooksInv /\ FeesInv
      /\ fees \in [wallets : Nat, protocol : Nat, crank : Nat, referral : Nat]
      /\ fees.crank \in Nat /\ fees.wallets \in Nat
  BY DEF PoolInv, FeesInv
<1>3. c \in Nat /\ c =< fees.crank
  <2>1. n * CrankReward \in Nat
    BY TimesMono, ConfigAssumption
  <2> QED BY <1>2, <2>1, MinOfTwo DEF CrankPayment
<1>4. /\ RecordOk(r, now, Len(yields)) /\ EarningLp(r) = HeldLp(providers, a)
      /\ r.xlp = HeldXlp(providers, a) /\ r \in Stats /\ r.due \in Nat
  BY <1>2, BooksKept, RecordFields
<1> HIDE DEF c, r
<1> DEFINE d == r.due + c
           w == fees.wallets + c
           k == fees.crank - c
<1>5. d \in Nat /\ s = [r EXCEPT !.due = d]
  BY <1>3, <1>4 DEF Stats
<1>6. w \in Nat /\ k \in Nat /\ fees' = [fees EXCEPT !.crank = k, !.wallets = w]
  BY <1>1, <1>2, <1>3
<1> HIDE DEF d, s, w, k
<1>7. /\ s \in Stats /\ s.key = r.key /\ s.unstaking = r.unstaking
      /\ s.lp = r.lp /\ s.xlp = r.xlp
  BY <1>4, <1>5 DEF Stats
<1>8. RecordOk(s, now, Len(yields)) /\ EarningLp(s) = EarningLp(r)
  BY <1>4, <1>7 DEF RecordOk, EarningLp
<1>9. BooksInv'
  BY <1>1, <1>2, <1>4, <1>7, <1>8, RewardSaved
<1>10. FeesInv'
  BY <1>1, <1>2, <1>6 DEF FeesInv
<1> QED BY <1>9, <1>10 DEF PoolInv

\* A record that is wiped earns nothing more.
LEMMA WipedOk ==
  ASSUME YieldsOk, now \in Nat, NEW r, RecordOk(r, now, Len(yields))
  PROVE  /\ RecordOk(Wiped(r), now, Len(yields))
         /\ EarningLp(Wiped(r)) = 0 /\ Wiped(r).xlp = 0
<1>1. RecordOk(Accrue(r), now, Len(yields)) /\ Accrue(r) \in Stats
  BY AccrueOk, RecordFields
<1>2. NoUnstaking \in Unstaking /\ UnstakingOk(NoUnstaking, now)
  BY DEF UnstakingOk, NoUnstaking, Unstaking
<1>3. /\ Wiped(r) \in Stats /\ Wiped(r).lp = 0 /\ Wiped(r).xlp = 0
      /\ Wiped(r).unstaking = NoUnstaking /\ Wiped(r).key = Accrue(r).key
  BY <1>1, <1>2 DEF Wiped, Stats
<1>4. RecordOk(Wiped(r), now, Len(yields))
  BY <1>1, <1>2, <1>3 DEF RecordOk
<1> QED BY <1>3, <1>4 DEF EarningLp, NoUnstaking

\* The walk of the crank: those who were passed have no tokens, and at its end
\* nobody has, as the empty pool says.
LEMMA CrankResetKeeps ==
  ASSUME PoolInv, CrankResetLpBalances
  PROVE  PoolInv'
<1> DEFINE D == DOMAIN providers
           n == Len(yields)
<1>1. /\ reset # NotResetting
      /\ UNCHANGED <<now, pool, fees, balance, yields, rate, rated, stray>>
  BY DEF CrankResetLpBalances, feeVars
<1>2. /\ BooksInv /\ FeesInv /\ YieldsOk /\ now \in Nat /\ n \in Nat
      /\ Books(providers, now, n) /\ D \subseteq Providers
      /\ reset \in 0..NumProviders /\ pool = EmptyPool
      /\ \A a \in D : a =< reset => EarningLp(providers[a]) = 0 /\ providers[a].xlp = 0
  BY <1>1, YieldsType DEF PoolInv, BooksInv, SharesInv, Books
<1>3. D \subseteq Nat /\ D \subseteq 0..NumProviders
  BY <1>2, ProvidersAssumption DEF Providers
<1>4. CASE ToReset = {}
  <2>1. reset' = NotResetting /\ providers' = providers
    BY <1>4 DEF CrankResetLpBalances
  <2>2. \A a \in D : a =< reset
    BY <1>2, <1>3, <1>4 DEF ToReset
  <2>3. \A a \in D : LpOf(providers)[a] = 0 /\ XlpOf(providers)[a] = 0
    BY <1>2, <2>2 DEF LpOf, XlpOf
  <2>4. IsFiniteSet(D)
    BY <1>2, BooksFinite
  <2>5. LpSum(providers) = 0 /\ XlpSum(providers) = 0
    BY <2>3, <2>4, TotalZero DEF LpSum, XlpSum
  <2>6. SharesInv'
    BY <1>1, <1>2, <2>1, <2>5 DEF SharesInv, EmptyPool
  <2> QED BY <1>1, <1>2, <2>1, <2>6 DEF PoolInv, BooksInv, FeesInv, YieldsOk, LastYield
<1>5. CASE ToReset # {}
  <2> DEFINE a == Min(ToReset)
             r == Wiped(providers[a])
  <2>1. reset' = a /\ providers' = Save(providers, a, r)
    BY <1>5 DEF CrankResetLpBalances
  <2>2. a \in ToReset /\ \A b \in ToReset : a =< b
    <3>1. ToReset \subseteq Nat
      BY <1>3 DEF ToReset
    <3> QED BY <1>5, <3>1, MinOfNats
  <2>3. a \in D /\ a > reset /\ a \in Providers /\ RecordOk(providers[a], now, n)
    BY <1>2, <2>2 DEF ToReset, Books
  <2>4. RecordOk(r, now, n) /\ EarningLp(r) = 0 /\ r.xlp = 0
    BY <1>2, <2>3, WipedOk
  <2> HIDE DEF a, r
  <2>5. /\ Books(providers', now, n)
        /\ \A b : b # a => /\ b \in DOMAIN providers' <=> b \in D
                           /\ b \in D => providers'[b] = providers[b]
        /\ a \in DOMAIN providers' => providers'[a] = r
    BY <1>2, <2>1, <2>3, <2>4, SaveSums
  <2>6. ASSUME NEW b \in DOMAIN providers', b =< a
        PROVE  EarningLp(providers'[b]) = 0 /\ providers'[b].xlp = 0
    <3>1. CASE b = a
      BY <2>4, <2>5, <3>1
    <3>2. CASE b # a
      <4>1. b \in D /\ providers'[b] = providers[b]
        BY <2>5, <3>2
      <4>2. b \notin ToReset
        BY <1>3, <2>2, <2>3, <2>6, <3>2, <4>1
      <4>3. b =< reset
        BY <1>2, <1>3, <4>1, <4>2 DEF ToReset
      <4> QED BY <1>2, <4>1, <4>3
    <3> QED BY <3>1, <3>2
  <2>7. reset' # NotResetting /\ reset' \in 0..NumProviders
    BY <1>3, <2>1, <2>3 DEF NotResetting
  <2>8. SharesInv'
    BY <1>1, <1>2, <2>1, <2>6, <2>7 DEF SharesInv
  <2> QED BY <1>1, <1>2, <2>5, <2>7, <2>8 DEF PoolInv, BooksInv, FeesInv, YieldsOk, LastYield
<1> QED BY <1>4, <1>5

\* All messages of providers.
LEMMA ProviderMsgKeeps ==
  ASSUME PoolInv, NEW a \in Providers, ProviderMsg(a)
  PROVE  PoolInv'
<1>1. ASSUME NEW x \in Deposits, NEW stake \in BOOLEAN, DepositLiquidity(a, x, stake)
      PROVE  PoolInv'
  BY <1>1, DepositKeeps
<1>2. CASE ClaimYield(a)
  BY <1>2, ClaimKeeps
<1>3. ASSUME NEW x \in Amount(BookKept(a).due), NEW stake \in BOOLEAN,
             ReinvestYield(a, x, stake)
      PROVE  PoolInv'
  <2>1. reset = NotResetting
    BY <1>3 DEF ReinvestYield, Provider
  <2>2. BookKept(a).due \in Nat
    BY <2>1, CallStarts, RecordFields
  <2>3. x \in Nat
    BY <2>2, AmountsAssumption DEF Amount
  <2> QED BY <1>3, <2>3, ReinvestKeeps
<1>4. ASSUME NEW l, NEW claim \in BOOLEAN, WithdrawLiquidity(a, l, claim)
      PROVE  PoolInv'
  BY <1>4, WithdrawKeeps
<1>5. ASSUME NEW l, StakeLp(a, l) PROVE PoolInv'
  BY <1>5, StakeKeeps
<1>6. ASSUME NEW l, UnstakeXlp(a, l) PROVE PoolInv'
  BY <1>6, UnstakeKeeps
<1>7. CASE StopUnstakingXlp(a)
  BY <1>7, StopKeeps
<1>8. CASE CollectUnstakedLp(a)
  BY <1>8, CollectUnstakedKeeps
<1>9. ASSUME NEW b \in Providers, NEW class \in Classes, NEW l,
             TransferToken(a, b, class, l)
      PROVE  PoolInv'
  BY <1>9, TransferKeeps
<1> QED BY <1>1, <1>2, <1>3, <1>4, <1>5, <1>6, <1>7, <1>8, <1>9 DEF ProviderMsg

\* Everything the market does.
LEMMA MarketKeeps ==
  ASSUME PoolInv, Market
  PROVE  PoolInv'
<1>0. pool.locked \in Nat
  BY PoolFields DEF PoolInv, BooksInv
<1>1. ASSUME NEW f \in FeeAmounts, NEW c, NEW w \in Providers \cup {0},
             OpenPosition(f, c, w)
      PROVE  PoolInv'
  BY <1>1, OpenKeeps
<1>2. ASSUME NEW l \in FeeAmounts, NEW x \in FeeAmounts, NEW g \in Gains,
             NEW sign \in {-1, 1}, Liquifund(l, x, sign * g)
      PROVE  PoolInv'
  <2>1. sign * g \in Int
    BY AmountsAssumption
  <2> QED BY <1>2, <2>1, LiquifundKeeps
<1>3. ASSUME NEW g \in Gains \cup {pool.locked}, NEW f \in FeeAmounts,
             NEW c \in {0, pool.locked - g}, ClosePosition(g, f, c)
      PROVE  PoolInv'
  <2>1. g \in Nat
    BY <1>0, AmountsAssumption
  <2>2. c \in Int
    BY <1>0, <2>1
  <2> QED BY <1>3, <2>1, <2>2, CloseKeeps
<1>4. CASE AccumulateBorrowFeeRate
  BY <1>4, AccumulateKeeps
<1>5. CASE TransferDaoFees
  BY <1>5, TransferDaoKeeps
<1>6. ASSUME NEW x \in Deposits, ProvideCrankFunds(x) PROVE PoolInv'
  BY <1>6, ProvideCrankFundsKeeps, AmountsAssumption
<1>7. ASSUME NEW a \in Providers, NEW n \in {1, 2}, AllocateCrankFees(a, n)
      PROVE  PoolInv'
  BY <1>7, AllocateCrankFeesKeeps
<1> QED BY <1>1, <1>2, <1>3, <1>4, <1>5, <1>6, <1>7 DEF Market

\* PoolInv is inductive.
LEMMA PoolStep ==
  PoolInv /\ [Next]_vars => PoolInv'
<1> SUFFICES ASSUME PoolInv, [Next]_vars PROVE PoolInv'
  OBVIOUS
<1>1. CASE Tick
  BY <1>1, TickKeeps
<1>2. ASSUME NEW a \in Providers, ProviderMsg(a) PROVE PoolInv'
  BY <1>2, ProviderMsgKeeps
<1>3. CASE Market
  BY <1>3, MarketKeeps
<1>4. CASE CrankResetLpBalances
  BY <1>4, CrankResetKeeps
<1>5. CASE UNCHANGED vars
  BY <1>5 DEF vars, PoolInv, BooksInv, FeesInv, SharesInv, YieldsOk, LastYield
<1> QED BY <1>1, <1>2, <1>3, <1>4, <1>5 DEF Next

------------------------------------------------------------------------------
(* Proofs: the tokens held cover the pool and the fees.                    *)

FeesOf(f) == f.wallets + f.protocol + f.crank + f.referral

\* A step that moves as many tokens as the pool and the fees gain.
LEMMA SolventBy ==
  ASSUME PoolInv, Solvent, NEW c \in Int, NEW f \in Int,
         TotalCollateral(pool') \in Int,
         TotalCollateral(pool') =< TotalCollateral(pool) + c,
         fees' \in [wallets : Nat, protocol : Nat, crank : Nat, referral : Nat],
         FeesOf(fees') = FeesOf(fees) + f,
         balance' = balance + c + f
  PROVE  Solvent'
<1>1. TotalCollateral(pool) \in Nat /\ balance \in Int
  BY PoolFields DEF PoolInv, BooksInv, FeesInv
<1>2. FeesOf(fees) \in Nat
  BY DEF PoolInv, FeesInv, FeesOf
<1>3. balance >= TotalCollateral(pool) + FeesOf(fees)
  <2>1. /\ fees.wallets \in Nat /\ fees.protocol \in Nat
        /\ fees.crank \in Nat /\ fees.referral \in Nat
    BY DEF PoolInv, FeesInv
  <2> QED BY <1>1, <2>1 DEF Solvent, FeesOf
<1>4. balance' >= TotalCollateral(pool') + FeesOf(fees')
  BY <1>1, <1>2, <1>3
<1>5. TotalCollateral(pool)' = TotalCollateral(pool')
  BY DEF TotalCollateral
<1>6. Solvent' <=> balance' >= TotalCollateral(pool') + fees'.wallets + fees'.protocol
                                + fees'.crank + fees'.referral
  BY <1>5 DEF Solvent
<1>7. /\ fees'.wallets \in Nat /\ fees'.protocol \in Nat
      /\ fees'.crank \in Nat /\ fees'.referral \in Nat
  OBVIOUS
<1> QED BY <1>4, <1>6, <1>7 DEF FeesOf


\* Saving the totals keeps their collateral.
LEMMA CollateralSaved ==
  ASSUME NEW p, SaveStats(p)
  PROVE  TotalCollateral(pool') = TotalCollateral(p)
BY DEF SaveStats, Settled, Drained, TotalCollateral, EmptyPool

\* A deposit adds its collateral.
LEMMA CollateralDeposited ==
  ASSUME pool \in Pools, NEW a, NEW r, NEW x \in Nat, NEW stake \in BOOLEAN, NEW cooldown,
         DepositInner(a, r, x, stake, cooldown)
  PROVE  TotalCollateral(pool') = TotalCollateral(pool) + x
<1> DEFINE n == CollateralToLp(pool, x)
           p == [pool EXCEPT !.unlocked = @ + x,
                             !.lp = IF stake THEN @ ELSE @ + n,
                             !.xlp = IF stake THEN @ + n ELSE @]
<1>1. SaveStats(p)
  BY DEF DepositInner
<1> HIDE DEF n
<1>2. pool.locked \in Nat /\ pool.unlocked \in Nat
  BY PoolFields
<1>3. p.locked = pool.locked /\ p.unlocked = pool.unlocked + x
  BY DEF Pools
<1>4. TotalCollateral(p) = TotalCollateral(pool) + x
  BY <1>2, <1>3 DEF TotalCollateral
<1> QED BY <1>1, <1>4, CollateralSaved

\* What a withdrawal moves are amounts.
LEMMA WithdrawnType ==
  ASSUME PoolInv, NEW a \in Providers, NEW l, NEW claim \in BOOLEAN,
         WithdrawLiquidity(a, l, claim)
  PROVE  LpToCollateral(pool, l) \in Nat /\ BookKept(a).due \in Nat
<1> DEFINE r == BookKept(a)
<1>1. reset = NotResetting /\ l \in 1..r.lp
  BY DEF WithdrawLiquidity, Provider
<1>2. /\ BooksInv /\ RecordOk(r, now, Len(yields))
      /\ EarningLp(r) = HeldLp(providers, a) /\ r.xlp = HeldXlp(providers, a)
  BY <1>1, CallStarts
<1> HIDE DEF r
<1>3. r.lp \in Nat /\ r.due \in Nat /\ pool \in Pools /\ pool.lp \in Nat /\ pool.xlp \in Nat
  BY <1>2, RecordFields, PoolFields DEF BooksInv
<1>4. r.lp =< pool.lp
  BY <1>1, <1>2, PartOfPool
<1>5. l \in Nat /\ TotalTokens(pool) # 0
  BY <1>1, <1>3, <1>4 DEF TotalTokens
<1> QED BY <1>3, <1>5, LpToCollateralType DEF r

\* A withdrawal takes at least what it pays out of the totals.
LEMMA CollateralWithdrawn ==
  ASSUME PoolInv, NEW a \in Providers, NEW l, NEW claim \in BOOLEAN,
         WithdrawLiquidity(a, l, claim)
  PROVE  /\ TotalCollateral(pool') \in Nat
         /\ TotalCollateral(pool') =< TotalCollateral(pool) - LpToCollateral(pool, l)
<1> DEFINE x == LpToCollateral(pool, l)
           p == Burn(pool, l, x)
<1>1. /\ x =< pool.unlocked
      /\ IF TotalTokens(p) = 0 THEN SaveStats(EmptyPool) ELSE SaveStats(p)
  BY DEF WithdrawLiquidity
<1>2. x \in Nat /\ pool \in Pools /\ pool.locked \in Nat /\ pool.unlocked \in Nat
  BY WithdrawnType, PoolFields DEF PoolInv, BooksInv
<1> HIDE DEF x
<1>3. p.locked = pool.locked /\ p.unlocked = pool.unlocked - x
  BY <1>2 DEF Burn, Pools
<1>4. TotalCollateral(p) = TotalCollateral(pool) - x /\ TotalCollateral(p) \in Nat
  BY <1>1, <1>2, <1>3 DEF TotalCollateral
<1>5. TotalCollateral(EmptyPool) = 0
  BY DEF TotalCollateral, EmptyPool
<1>6. TotalCollateral(pool') = TotalCollateral(p) \/ TotalCollateral(pool') = 0
  BY <1>1, <1>5, CollateralSaved
<1>7. TotalCollateral(pool') \in Nat /\ TotalCollateral(pool') =< TotalCollateral(p)
  <2> HIDE DEF p
  <2> QED BY <1>4, <1>6
<1> QED BY <1>4, <1>7 DEF x

\* The fees a step leaves.
LEMMA FeesType ==
  ASSUME PoolInv
  PROVE  /\ fees \in [wallets : Nat, protocol : Nat, crank : Nat, referral : Nat]
         /\ fees.wallets \in Nat /\ fees.protocol \in Nat
         /\ fees.crank \in Nat /\ fees.referral \in Nat
         /\ FeesOf(fees) \in Nat /\ balance \in Int /\ TotalCollateral(pool) \in Nat
BY PoolFields DEF PoolInv, BooksInv, FeesInv, FeesOf

\* Claiming pays what it takes from the fees.
LEMMA SolventByProvider ==
  ASSUME PoolInv, Solvent, PoolInv', NEW a \in Providers, ProviderMsg(a)
  PROVE  Solvent'
<1>0. /\ fees \in [wallets : Nat, protocol : Nat, crank : Nat, referral : Nat]
      /\ fees' \in [wallets : Nat, protocol : Nat, crank : Nat, referral : Nat]
      /\ fees.wallets \in Nat /\ fees.protocol \in Nat
      /\ fees.crank \in Nat /\ fees.referral \in Nat
      /\ FeesOf(fees) \in Nat /\ balance \in Int /\ TotalCollateral(pool) \in Nat
      /\ pool \in Pools /\ pool' \in Pools /\ TotalCollateral(pool') \in Nat
  BY FeesType, PoolFields DEF PoolInv, BooksInv, FeesInv
<1>a. ASSUME NEW d \in Nat, fees' = [fees EXCEPT !.wallets = @ - d]
      PROVE  FeesOf(fees') = FeesOf(fees) - d
  <2>1. /\ fees'.wallets = fees.wallets - d /\ fees'.protocol = fees.protocol
        /\ fees'.crank = fees.crank /\ fees'.referral = fees.referral
    BY <1>0, <1>a
  <2> QED BY <1>0, <2>1 DEF FeesOf
<1>b. ASSUME reset = NotResetting PROVE BookKept(a).due \in Nat
  BY <1>b, CallStarts, RecordFields
<1>1. ASSUME NEW x \in Deposits, NEW stake \in BOOLEAN, DepositLiquidity(a, x, stake)
      PROVE  Solvent'
  <2>1. x \in Nat /\ DepositInner(a, BookKept(a), x, stake, ~stake)
        /\ balance' = balance + x /\ fees' = fees
    BY <1>1, AmountsAssumption DEF DepositLiquidity
  <2>2. TotalCollateral(pool') = TotalCollateral(pool) + x
    BY <1>0, <2>1, CollateralDeposited
  <2> QED BY <1>0, <2>1, <2>2, SolventBy
<1>2. CASE ClaimYield(a)
  <2> DEFINE d == BookKept(a).due
  <2>1. /\ fees' = [fees EXCEPT !.wallets = @ - d] /\ balance' = balance - d
        /\ pool' = pool /\ d \in Nat
    BY <1>2, <1>b DEF ClaimYield, Provider
  <2> HIDE DEF d
  <2>2. FeesOf(fees') = FeesOf(fees) + (-d)
    BY <1>0, <1>a, <2>1
  <2>3. balance' = balance + 0 + (-d)
    BY <1>0, <2>1
  <2>4. TotalCollateral(pool') =< TotalCollateral(pool) + 0 /\ -d \in Int
    BY <1>0, <2>1
  <2> QED BY <1>0, <2>2, <2>3, <2>4, SolventBy
<1>3. ASSUME NEW x \in Amount(BookKept(a).due), NEW stake \in BOOLEAN,
             ReinvestYield(a, x, stake)
      PROVE  Solvent'
  <2> DEFINE d == BookKept(a).due
  <2>1. /\ fees' = [fees EXCEPT !.wallets = @ - d] /\ balance' = balance - (d - x)
        /\ d \in Nat /\ DepositInner(a, Claimed(BookKept(a)), x, stake, FALSE)
    BY <1>3, <1>b DEF ReinvestYield, Provider
  <2>2. x \in Nat
    BY <2>1, AmountsAssumption DEF Amount
  <2>3. TotalCollateral(pool') = TotalCollateral(pool) + x
    BY <1>0, <2>1, <2>2, CollateralDeposited
  <2> HIDE DEF d
  <2>4. FeesOf(fees') = FeesOf(fees) + (-d)
    BY <1>0, <1>a, <2>1
  <2>5. balance' = balance + x + (-d) /\ -d \in Int
    BY <1>0, <2>1, <2>2
  <2> QED BY <1>0, <2>2, <2>3, <2>4, <2>5, SolventBy
<1>4. ASSUME NEW l, NEW claim \in BOOLEAN, WithdrawLiquidity(a, l, claim)
      PROVE  Solvent'
  <2> DEFINE d == BookKept(a).due
             x == LpToCollateral(pool, l)
             e == IF claim THEN d ELSE 0
  <2>1. d \in Nat /\ x \in Nat
    BY <1>4, WithdrawnType
  <2>2. TotalCollateral(pool') =< TotalCollateral(pool) - x
    BY <1>4, CollateralWithdrawn
  <2>3. /\ fees' = IF claim THEN [fees EXCEPT !.wallets = @ - d] ELSE fees
        /\ balance' = balance - x - e
    BY <1>4 DEF WithdrawLiquidity
  <2> HIDE DEF d, x
  <2>4. e \in Nat
    BY <2>1
  <2>5. FeesOf(fees') = FeesOf(fees) - e
    BY <1>0, <1>a, <2>1, <2>3
  <2> HIDE DEF e
  <2>6. FeesOf(fees') = FeesOf(fees) + (-e) /\ balance' = balance + (-x) + (-e)
    BY <1>0, <2>1, <2>3, <2>4, <2>5
  <2>7. TotalCollateral(pool') =< TotalCollateral(pool) + (-x) /\ -x \in Int /\ -e \in Int
    BY <1>0, <2>1, <2>2, <2>4
  <2> QED BY <1>0, <2>6, <2>7, SolventBy
<1>5. ASSUME UNCHANGED <<fees, balance>>, NEW p, SaveStats(p),
             TotalCollateral(p) = TotalCollateral(pool)
      PROVE  Solvent'
  <2>1. TotalCollateral(pool') = TotalCollateral(pool) + 0
    BY <1>0, <1>5, CollateralSaved
  <2>2. FeesOf(fees') = FeesOf(fees) + 0 /\ balance' = balance + 0 + 0
    BY <1>0, <1>5
  <2> QED BY <1>0, <2>1, <2>2, SolventBy
<1>c. ASSUME NEW i, NEW j
      PROVE  TotalCollateral([pool EXCEPT !.lp = i, !.xlp = j]) = TotalCollateral(pool)
  BY <1>0 DEF TotalCollateral, Pools
<1>6. ASSUME NEW l, StakeLp(a, l) PROVE Solvent'
  <2>1. /\ SaveStats([pool EXCEPT !.lp = pool.lp - l, !.xlp = pool.xlp + l])
        /\ UNCHANGED <<fees, balance>>
    BY <1>0, <1>6 DEF StakeLp, Pools
  <2> QED BY <1>5, <1>c, <2>1
<1>7. ASSUME NEW l, UnstakeXlp(a, l) PROVE Solvent'
  <2> DEFINE u == BookKept(a).unstaking
             back == u.xlp - u.collected
  <2>1. /\ SaveStats([pool EXCEPT !.lp = @ - back + l, !.xlp = @ + back - l])
        /\ UNCHANGED <<fees, balance>>
    BY <1>7 DEF UnstakeXlp
  <2> HIDE DEF back
  <2>2. [pool EXCEPT !.lp = @ - back + l, !.xlp = @ + back - l]
          = [pool EXCEPT !.lp = pool.lp - back + l, !.xlp = pool.xlp + back - l]
    BY <1>0 DEF Pools
  <2> QED BY <1>5, <1>c, <2>1, <2>2
<1>8. CASE StopUnstakingXlp(a)
  <2> DEFINE u == BookKept(a).unstaking
             back == u.xlp - u.collected
  <2>1. /\ SaveStats([pool EXCEPT !.lp = @ - back, !.xlp = @ + back])
        /\ UNCHANGED <<fees, balance>>
    BY <1>8 DEF StopUnstakingXlp
  <2> HIDE DEF back
  <2>2. [pool EXCEPT !.lp = @ - back, !.xlp = @ + back]
          = [pool EXCEPT !.lp = pool.lp - back, !.xlp = pool.xlp + back]
    BY <1>0 DEF Pools
  <2> QED BY <1>5, <1>c, <2>1, <2>2
<1>9. ASSUME UNCHANGED <<pool, fees, balance>> PROVE Solvent'
  BY <1>9 DEF Solvent, TotalCollateral
<1>10. CASE CollectUnstakedLp(a)
  BY <1>9, <1>10 DEF CollectUnstakedLp
<1>11. ASSUME NEW b \in Providers, NEW class \in Classes, NEW l,
              TransferToken(a, b, class, l)
       PROVE  Solvent'
  BY <1>9, <1>11 DEF TransferToken
<1> QED BY <1>1, <1>2, <1>3, <1>4, <1>6, <1>7, <1>8, <1>10, <1>11 DEF ProviderMsg

\* What the market collects or pays moves as many tokens.
LEMMA SolventByMarket ==
  ASSUME PoolInv, Solvent, PoolInv', Market
  PROVE  Solvent'
<1>0. /\ fees \in [wallets : Nat, protocol : Nat, crank : Nat, referral : Nat]
      /\ fees' \in [wallets : Nat, protocol : Nat, crank : Nat, referral : Nat]
      /\ fees.wallets \in Nat /\ fees.protocol \in Nat
      /\ fees.crank \in Nat /\ fees.referral \in Nat
      /\ FeesOf(fees) \in Nat /\ balance \in Int /\ TotalCollateral(pool) \in Nat
      /\ pool \in Pools /\ pool' \in Pools /\ TotalCollateral(pool') \in Nat
      /\ pool.locked \in Nat /\ pool.unlocked \in Nat
      /\ YieldsOk /\ FeesInv
  BY FeesType, PoolFields DEF PoolInv, BooksInv, FeesInv
<1>a. ASSUME NEW p \in Pools, NEW f \in Nat, NEW reward \in Nat, reward =< f,
             TradingFee(p, f, reward)
      PROVE  FeesOf(fees') = FeesOf(fees) + f
  <2>1. /\ fees'.crank = fees.crank
        /\ fees'.wallets + fees'.protocol + fees'.referral
             = fees.wallets + fees.protocol + fees.referral + f
    BY <1>0, <1>a, TradingFeeKeeps
  <2>2. fees'.wallets \in Nat /\ fees'.protocol \in Nat /\ fees'.referral \in Nat
    BY <1>0
  <2> QED BY <1>0, <2>1, <2>2 DEF FeesOf
<1>1. ASSUME NEW f \in FeeAmounts, NEW c, NEW w \in Providers \cup {0},
             OpenPosition(f, c, w)
      PROVE  Solvent'
  <2> DEFINE reward == IF w \in Providers THEN Mul(f, ReferralRatio) ELSE 0
             p == [pool EXCEPT !.locked = @ + c, !.unlocked = @ - c]
  <2>1. /\ c \in 1..pool.unlocked /\ TradingFee(pool, f, reward)
        /\ SaveStats(p) /\ balance' = balance + f
    BY <1>1 DEF OpenPosition
  <2>2. f \in Nat /\ reward \in Nat /\ reward =< f
    <3>1. f \in Nat
      BY AmountsAssumption
    <3> QED BY <3>1, MulRatio, ConfigAssumption
  <2>3. FeesOf(fees') = FeesOf(fees) + f
    BY <1>0, <1>a, <2>1, <2>2
  <2>4. c \in Nat
    BY <1>0, <2>1
  <2>5. p.locked = pool.locked + c /\ p.unlocked = pool.unlocked - c
    BY <1>0, <2>4 DEF Pools
  <2>6. TotalCollateral(p) = TotalCollateral(pool)
    BY <1>0, <2>4, <2>5 DEF TotalCollateral
  <2> HIDE DEF p, reward
  <2>7. TotalCollateral(pool') = TotalCollateral(pool) + 0
    BY <1>0, <2>1, <2>6, CollateralSaved
  <2>8. balance' = balance + 0 + f
    BY <1>0, <2>1, <2>2
  <2> QED BY <1>0, <2>2, <2>3, <2>7, <2>8, SolventBy
<1>2. ASSUME NEW l \in FeeAmounts, NEW x \in FeeAmounts, NEW g \in Gains,
             NEW sign \in {-1, 1}, Liquifund(l, x, sign * g)
      PROVE  Solvent'
  <2> DEFINE d == sign * g
             tl == Mul(l, ProtocolTax)
             tx == Mul(x, ProtocolTax)
             p == [pool EXCEPT !.locked = @ + d]
             w == fees.wallets + (l - tl) + (x - tx)
             q == fees.protocol + tl + tx
  <2>1. /\ fees' = [fees EXCEPT !.wallets = @ + (l - tl) + (x - tx), !.protocol = @ + tl + tx]
        /\ SaveStats(p) /\ balance' = balance + l + x + d
    BY <1>2 DEF Liquifund
  <2>2. l \in Nat /\ x \in Nat /\ d \in Int
    BY AmountsAssumption
  <2>3. tl \in Nat /\ tl =< l /\ tx \in Nat /\ tx =< x
    BY <2>2, MulRatio, ConfigAssumption
  <2> HIDE DEF d, tl, tx
  <2>4. fees' = [fees EXCEPT !.wallets = w, !.protocol = q]
    BY <1>0, <2>1
  <2>5. w + q = fees.wallets + fees.protocol + (l + x) /\ w \in Int /\ q \in Int
    BY <1>0, <2>2, <2>3
  <2> HIDE DEF w, q
  <2>6. /\ fees'.wallets = w /\ fees'.protocol = q
        /\ fees'.crank = fees.crank /\ fees'.referral = fees.referral
    BY <1>0, <2>4
  <2>7. FeesOf(fees') = FeesOf(fees) + (l + x)
    BY <1>0, <2>2, <2>5, <2>6 DEF FeesOf
  <2>8. TotalCollateral(p) = TotalCollateral(pool) + d
    <3>1. p.locked = pool.locked + d /\ p.unlocked = pool.unlocked
      BY <1>0 DEF Pools
    <3> QED BY <1>0, <2>2, <3>1 DEF TotalCollateral
  <2> HIDE DEF p
  <2>9. TotalCollateral(pool') = TotalCollateral(pool) + d
    BY <2>1, <2>8, CollateralSaved
  <2>10. balance' = balance + d + (l + x) /\ l + x \in Int
    BY <1>0, <2>1, <2>2
  <2> QED BY <1>0, <2>2, <2>7, <2>9, <2>10, SolventBy
<1>3. ASSUME NEW g \in Gains \cup {pool.locked}, NEW f \in FeeAmounts,
             NEW c \in {0, pool.locked - g}, ClosePosition(g, f, c)
      PROVE  Solvent'
  <2> DEFINE p == [pool EXCEPT !.locked = @ - g]
             s == [p EXCEPT !.locked = @ - c, !.unlocked = @ + c]
  <2>1. /\ c >= 0 /\ g + c \in 1..pool.locked
        /\ TradingFee(Settled(p), f, 0) /\ SaveStats(s) /\ balance' = balance - g + f
    BY <1>3 DEF ClosePosition
  <2>2. g \in Nat /\ f \in Nat
    BY <1>0, AmountsAssumption
  <2>3. c \in Nat /\ pool.locked - g \in Nat
    BY <1>0, <2>1, <2>2
  <2>4. p \in Pools
    <3> DEFINE lo == pool.locked - g
    <3>1. p = [pool EXCEPT !.locked = lo] /\ lo \in Nat
      BY <1>0, <2>3 DEF Pools
    <3> HIDE DEF lo, p
    <3> QED BY <1>0, <3>1 DEF Pools
  <2>5. Settled(p) \in Pools
    BY <2>4 DEF Settled, EmptyPool, Pools
  <2>6. FeesOf(fees') = FeesOf(fees) + f
    BY <1>a, <2>1, <2>2, <2>5
  <2>7. TotalCollateral(s) = TotalCollateral(pool) - g
    <3>1. s.locked = pool.locked - g - c /\ s.unlocked = pool.unlocked + c
      BY <1>0 DEF Pools
    <3> QED BY <1>0, <2>2, <2>3, <3>1 DEF TotalCollateral
  <2> HIDE DEF p, s
  <2>8. TotalCollateral(pool') = TotalCollateral(pool) + (-g) /\ -g \in Int
    BY <1>0, <2>1, <2>2, <2>7, CollateralSaved
  <2>9. balance' = balance + (-g) + f
    BY <1>0, <2>1, <2>2
  <2> QED BY <1>0, <2>2, <2>6, <2>8, <2>9, SolventBy
<1>4. CASE AccumulateBorrowFeeRate
  BY <1>4 DEF AccumulateBorrowFeeRate, Solvent, TotalCollateral
<1>5. CASE TransferDaoFees
  <2>1. /\ fees' = [fees EXCEPT !.protocol = 0] /\ balance' = balance - fees.protocol
        /\ pool' = pool
    BY <1>5 DEF TransferDaoFees
  <2>2. FeesOf(fees') = FeesOf(fees) + (-fees.protocol) /\ -fees.protocol \in Int
    BY <1>0, <2>1 DEF FeesOf
  <2>3. balance' = balance + 0 + (-fees.protocol) /\ TotalCollateral(pool') = TotalCollateral(pool) + 0
    BY <1>0, <2>1
  <2> QED BY <1>0, <2>2, <2>3, SolventBy
<1>6. ASSUME NEW x \in Deposits, ProvideCrankFunds(x) PROVE Solvent'
  <2>1. /\ fees' = [fees EXCEPT !.crank = @ + x] /\ balance' = balance + x
        /\ pool' = pool /\ x \in Nat
    BY <1>6, AmountsAssumption DEF ProvideCrankFunds
  <2>2. FeesOf(fees') = FeesOf(fees) + x
    BY <1>0, <2>1 DEF FeesOf
  <2>3. balance' = balance + 0 + x /\ TotalCollateral(pool') = TotalCollateral(pool) + 0
    BY <1>0, <2>1
  <2> QED BY <1>0, <2>1, <2>2, <2>3, SolventBy
<1>7. ASSUME NEW a \in Providers, NEW n \in {1, 2}, AllocateCrankFees(a, n)
      PROVE  Solvent'
  <2> DEFINE c == CrankPayment(n)
  <2>1. /\ fees' = [fees EXCEPT !.crank = @ - c, !.wallets = @ + c]
        /\ UNCHANGED <<pool, balance>>
    BY <1>7 DEF AllocateCrankFees
  <2>2. c \in Nat
    <3>1. n * CrankReward \in Nat
      BY TimesMono, ConfigAssumption
    <3> QED BY <1>0, <3>1, MinOfTwo DEF CrankPayment
  <2> HIDE DEF c
  <2>3. FeesOf(fees') = FeesOf(fees) + 0
    BY <1>0, <2>1, <2>2 DEF FeesOf
  <2>4. balance' = balance + 0 + 0 /\ TotalCollateral(pool') = TotalCollateral(pool) + 0
    BY <1>0, <2>1
  <2> QED BY <1>0, <2>3, <2>4, SolventBy
<1> QED BY <1>1, <1>2, <1>3, <1>4, <1>5, <1>6, <1>7 DEF Market

\* Solvent is inductive relative to PoolInv.
LEMMA SolventStep ==
  PoolInv /\ Solvent /\ [Next]_vars => Solvent'
<1> SUFFICES ASSUME PoolInv, Solvent, [Next]_vars PROVE Solvent'
  OBVIOUS
<1>1. PoolInv'
  BY PoolStep
<1>2. CASE UNCHANGED <<pool, fees, balance>>
  BY <1>2 DEF Solvent, TotalCollateral
<1>3. CASE Tick \/ CrankResetLpBalances
  BY <1>2, <1>3 DEF Tick, CrankResetLpBalances
<1>4. ASSUME NEW a \in Providers, ProviderMsg(a) PROVE Solvent'
  BY <1>1, <1>4, SolventByProvider
<1>5. CASE Market
  BY <1>1, <1>5, SolventByMarket
<1> QED BY <1>2, <1>3, <1>4, <1>5 DEF Next, vars

------------------------------------------------------------------------------
(* Proofs: the fees back what all providers can claim.                     *)

\* A sequence of prefix sums.
PrefixSums(ys) ==
  /\ ys \in Seq([lp : Nat, xlp : Nat]) /\ ys # <<>>
  /\ \A i \in 1..Len(ys) : ys[i].lp =< ys[Len(ys)].lp /\ ys[i].xlp =< ys[Len(ys)].xlp

\* What a provider is owed when nothing is rounded, multiplied by One.
ExactClaim(r, ys) ==
  r.due * One + (ys[Len(ys)].lp - ys[r.key].lp) * EarningLp(r)
              + (ys[Len(ys)].xlp - ys[r.key].xlp) * r.xlp

ClaimsOf(f, ys) == [a \in DOMAIN f |-> ExactClaim(f[a], ys)]
ClaimSum(f, ys) == Total(ClaimsOf(f, ys), DOMAIN f)
HeldClaim(f, ys, a) == IF a \in DOMAIN f THEN ExactClaim(f[a], ys) ELSE 0

\* Collected fees cover the fees nobody earned and all exact claims.  Referral
\* rewards are credited to the referrer, but collected apart.
BackedInv ==
  stray * One + ClaimSum(providers, yields) =< (fees.wallets + fees.referral) * One

\* The stored prefix sums, and those after a step.
LEMMA YieldsArePrefixSums ==
  YieldsOk <=> PrefixSums(yields)
BY DEF YieldsOk, PrefixSums, LastYield

LEMMA YieldsArePrefixSumsNext ==
  YieldsOk' <=> PrefixSums(yields')
BY DEF YieldsOk, PrefixSums, LastYield

\* What was added since any of the sums is a natural number.
LEMMA PrefixGrowth ==
  ASSUME NEW ys, PrefixSums(ys), NEW i \in 1..Len(ys)
  PROVE  /\ ys[Len(ys)].lp - ys[i].lp \in Nat /\ ys[Len(ys)].xlp - ys[i].xlp \in Nat
         /\ Len(ys) \in Nat \ {0}
<1>1. Len(ys) \in Nat \ {0}
  BY DEF PrefixSums
<1>2. ys[i] \in [lp : Nat, xlp : Nat] /\ ys[Len(ys)] \in [lp : Nat, xlp : Nat]
  <2>1. \A j \in 1..Len(ys) : ys[j] \in [lp : Nat, xlp : Nat]
    BY ElementOfSeq DEF PrefixSums
  <2> QED BY <1>1, <2>1
<1>3. ys[i].lp =< ys[Len(ys)].lp /\ ys[i].xlp =< ys[Len(ys)].xlp
  BY DEF PrefixSums
<1>4. ys[i].lp \in Nat /\ ys[i].xlp \in Nat /\ ys[Len(ys)].lp \in Nat /\ ys[Len(ys)].xlp \in Nat
  BY <1>2
<1> QED BY <1>1, <1>3, <1>4

\* A claim is a natural number, and all accrued if the record is up to date.
LEMMA ClaimType ==
  ASSUME NEW ys, PrefixSums(ys), NEW t \in Nat, NEW r, RecordOk(r, t, Len(ys))
  PROVE  /\ ExactClaim(r, ys) \in Nat
         /\ r.key = Len(ys) => ExactClaim(r, ys) = r.due * One
<1> DEFINE l == ys[Len(ys)].lp - ys[r.key].lp
           x == ys[Len(ys)].xlp - ys[r.key].xlp
<1>1. /\ r.key \in 1..Len(ys) /\ r.due \in Nat /\ r.xlp \in Nat
  BY RecordFields
<1>2. l \in Nat /\ x \in Nat /\ Len(ys) \in Nat
  BY <1>1, PrefixGrowth
<1>3. EarningLp(r) \in Nat
  BY <1>2, EarningType
<1>4. ExactClaim(r, ys) = r.due * One + l * EarningLp(r) + x * r.xlp
  BY DEF ExactClaim
<1>5. r.key = Len(ys) => l = 0 /\ x = 0
  <2> SUFFICES ASSUME r.key = Len(ys) PROVE l = 0 /\ x = 0
    OBVIOUS
  <2>1. /\ ys[Len(ys)] \in [lp : Nat, xlp : Nat]
    BY <1>1, ElementOfSeq DEF PrefixSums
  <2> QED BY <2>1
<1> HIDE DEF l, x
<1>6. r.due * One \in Nat /\ l * EarningLp(r) \in Nat /\ x * r.xlp \in Nat
  BY <1>1, <1>2, <1>3, TimesMono, DecimalAssumption, SMTT(30)
<1>7. ExactClaim(r, ys) \in Nat
  BY <1>4, <1>6
<1>8. ASSUME r.key = Len(ys) PROVE ExactClaim(r, ys) = r.due * One
  BY <1>1, <1>3, <1>4, <1>5, <1>6, <1>8
<1> QED BY <1>7, <1>8

\* One claim is part of the sum.
LEMMA ClaimsType ==
  ASSUME NEW ys, PrefixSums(ys), NEW t \in Nat, NEW f, Books(f, t, Len(ys)), NEW a
  PROVE  /\ IsFiniteSet(DOMAIN f)
         /\ \A b \in DOMAIN f : ClaimsOf(f, ys)[b] \in Nat
         /\ ClaimSum(f, ys) \in Nat
         /\ HeldClaim(f, ys, a) \in Nat /\ HeldClaim(f, ys, a) =< ClaimSum(f, ys)
<1>1. Len(ys) \in Nat
  BY DEF PrefixSums
<1>2. IsFiniteSet(DOMAIN f)
  BY <1>1, BooksFinite
<1>3. ASSUME NEW b \in DOMAIN f
      PROVE  ClaimsOf(f, ys)[b] \in Nat /\ ClaimsOf(f, ys)[b] = ExactClaim(f[b], ys)
  <2>1. RecordOk(f[b], t, Len(ys))
    BY DEF Books
  <2> QED BY <2>1, ClaimType DEF ClaimsOf
<1>4. ClaimSum(f, ys) \in Nat
  BY <1>2, <1>3, TotalType DEF ClaimSum
<1>5. CASE a \in DOMAIN f
  <2>1. ClaimsOf(f, ys)[a] =< ClaimSum(f, ys)
    BY <1>2, <1>3, <1>5, TotalBound DEF ClaimSum
  <2> QED BY <1>2, <1>3, <1>4, <1>5, <2>1 DEF HeldClaim
<1>6. CASE a \notin DOMAIN f
  BY <1>2, <1>3, <1>4, <1>6 DEF HeldClaim
<1> QED BY <1>5, <1>6

\* Saving a record changes the claim of one provider only.
LEMMA SaveClaims ==
  ASSUME NEW ys, PrefixSums(ys), NEW t \in Nat,
         NEW f, Books(f, t, Len(ys)), NEW g, Books(g, t, Len(ys)),
         NEW a, NEW r, g = Save(f, a, r)
  PROVE  /\ ClaimSum(g, ys) = ClaimSum(f, ys) - HeldClaim(f, ys, a) + HeldClaim(g, ys, a)
         /\ HeldClaim(g, ys, a) = IF IsEmpty(r) THEN 0 ELSE ExactClaim(r, ys)
<1> DEFINE D == DOMAIN f
           E == DOMAIN g
<1>1. /\ E = IF IsEmpty(r) THEN D \ {a} ELSE D \cup {a}
      /\ \A b \in E : g[b] = IF b = a THEN r ELSE f[b]
  BY DEF Save
<1>2. HeldClaim(g, ys, a) = IF IsEmpty(r) THEN 0 ELSE ExactClaim(r, ys)
  BY <1>1 DEF HeldClaim
<1>3. D \ {a} = E \ {a}
  BY <1>1
<1>4. /\ IsFiniteSet(D) /\ IsFiniteSet(E)
      /\ \A b \in D : ClaimsOf(f, ys)[b] \in Nat
      /\ \A b \in E : ClaimsOf(g, ys)[b] \in Nat
  BY ClaimsType
<1>5. \A b \in D \ {a} : ClaimsOf(f, ys)[b] = ClaimsOf(g, ys)[b]
  BY <1>1 DEF ClaimsOf
<1>6. /\ (IF a \in D THEN ClaimsOf(f, ys)[a] ELSE 0) = HeldClaim(f, ys, a)
      /\ (IF a \in E THEN ClaimsOf(g, ys)[a] ELSE 0) = HeldClaim(g, ys, a)
  BY DEF ClaimsOf, HeldClaim
<1>7. ClaimSum(g, ys) = ClaimSum(f, ys) - HeldClaim(f, ys, a) + HeldClaim(g, ys, a)
  <2> DEFINE cf == ClaimsOf(f, ys)
             cg == ClaimsOf(g, ys)
  <2>1. ClaimSum(f, ys) = Total(cf, D) /\ ClaimSum(g, ys) = Total(cg, E)
    BY DEF ClaimSum
  <2> HIDE DEF cf, cg, D, E
  <2>2. Total(cg, E) = Total(cf, D) - (IF a \in D THEN cf[a] ELSE 0)
                                    + (IF a \in E THEN cg[a] ELSE 0)
    BY <1>3, <1>4, <1>5, TotalMoved, SMTT(30) DEF cf, cg
  <2> QED BY <1>6, <2>1, <2>2 DEF cf, cg
<1> QED BY <1>2, <1>7

\* Accruing rounds down.
LEMMA AccrueRoundsDown ==
  ASSUME YieldsOk, now \in Nat, NEW r, RecordOk(r, now, Len(yields))
  PROVE  /\ Accrue(r).due \in Nat /\ Accrue(r).key = Len(yields)
         /\ Accrue(r).due * One =< ExactClaim(r, yields)
<1> DEFINE l == LastYield.lp - yields[r.key].lp
           x == LastYield.xlp - yields[r.key].xlp
           i == Mul(l, EarningLp(r))
           j == Mul(x, r.xlp)
<1>0. r \in Stats /\ r.due \in Nat /\ r.xlp \in Nat
  BY RecordFields
<1>1. Len(yields) \in Nat \ {0} /\ l \in Nat /\ x \in Nat
  BY YieldsType, RecordFields
<1>2. EarningLp(r) \in Nat
  BY <1>1, EarningType
<1>3. ExactClaim(r, yields) = r.due * One + l * EarningLp(r) + x * r.xlp
  BY DEF ExactClaim, LastYield
<1>4. Accrue(r).due = r.due + i + j /\ Accrue(r).key = Len(yields)
  BY <1>0 DEF Accrue, Stats
<1> HIDE DEF l, x
<1>5. i \in Nat /\ i * One =< l * EarningLp(r) /\ j \in Nat /\ j * One =< x * r.xlp
  BY <1>0, <1>1, <1>2, MulType
<1> HIDE DEF i, j
<1>6. (r.due + i + j) * One = r.due * One + i * One + j * One
  BY <1>0, <1>5, DecimalAssumption
<1>7. /\ r.due * One \in Nat /\ i * One \in Nat /\ j * One \in Nat
      /\ l * EarningLp(r) \in Nat /\ x * r.xlp \in Nat
  BY <1>0, <1>1, <1>2, <1>5, TimesMono, DecimalAssumption, SMTT(30)
<1>8. Accrue(r).due \in Nat
  BY <1>0, <1>4, <1>5
<1>9. r.due * One + i * One + j * One =< r.due * One + l * EarningLp(r) + x * r.xlp
  BY <1>5, <1>7
<1> QED BY <1>3, <1>4, <1>6, <1>8, <1>9

\* The claim a provider's call starts with.
LEMMA BookKeptClaim ==
  ASSUME BooksInv, NEW a \in Providers
  PROVE  /\ BookKept(a).due \in Nat /\ BookKept(a).key = Len(yields)
         /\ BookKept(a).due * One =< HeldClaim(providers, yields, a)
<1> DEFINE r == Load(a)
<1>1. YieldsOk /\ now \in Nat /\ RecordOk(r, now, Len(yields))
  BY BooksKept DEF BooksInv
<1>2. ExactClaim(r, yields) = HeldClaim(providers, yields, a)
  <2>1. CASE a \in DOMAIN providers
    BY <2>1 DEF Load, HeldClaim
  <2>2. CASE a \notin DOMAIN providers
    <3>1. r = NewStats /\ r.key = Len(yields) /\ r.due = 0
      BY <2>2 DEF Load, NewStats
    <3>2. ExactClaim(r, yields) = r.due * One
      BY <1>1, <3>1, ClaimType, YieldsArePrefixSums
    <3> QED BY <2>2, <3>1, <3>2, DecimalAssumption DEF HeldClaim
  <2> QED BY <2>1, <2>2
<1> HIDE DEF r
<1>3. /\ Accrue(r).due \in Nat /\ Accrue(r).key = Len(yields)
      /\ Accrue(r).due * One =< ExactClaim(r, yields)
      /\ RecordOk(Accrue(r), now, Len(yields))
  BY <1>1, AccrueRoundsDown, AccrueOk
<1>4. BookKept(a).due = Accrue(r).due /\ BookKept(a).key = Accrue(r).key
  BY <1>1, <1>3, CollectKeeps DEF BookKept, r
<1> QED BY <1>2, <1>3, <1>4

\* One record is saved, and the fees change by as much as the claim may.
LEMMA BackedBy ==
  ASSUME PoolInv, PoolInv', BackedInv, UNCHANGED <<now, yields, stray>>,
         NEW a, NEW r, providers' = Save(providers, a, r), NEW paid \in Int,
         HeldClaim(providers', yields, a) + paid * One =< HeldClaim(providers, yields, a),
         fees'.wallets + fees'.referral = fees.wallets + fees.referral - paid
  PROVE  BackedInv'
<1> DEFINE c == ClaimSum(providers, yields)
           d == ClaimSum(providers', yields)
           h == HeldClaim(providers, yields, a)
           k == HeldClaim(providers', yields, a)
           w == fees.wallets + fees.referral
<1>1. /\ now \in Nat /\ PrefixSums(yields) /\ stray \in Nat
      /\ Books(providers, now, Len(yields)) /\ Books(providers', now, Len(yields))
  BY YieldsArePrefixSums DEF PoolInv, BooksInv, FeesInv
<1>2. d = c - h + k /\ c \in Nat /\ d \in Nat /\ h \in Nat /\ k \in Nat
  BY <1>1, SaveClaims, ClaimsType
<1>3. w \in Nat
  BY FeesType
<1>4. stray * One + c =< w * One /\ k + paid * One =< h
  BY DEF BackedInv
<1> HIDE DEF c, d, h, k, w
<1>5. stray * One + d =< w * One - paid * One
  <2>1. stray * One \in Int /\ w * One \in Int /\ paid * One \in Int
    BY <1>1, <1>3, DecimalAssumption
  <2> QED BY <1>2, <1>4, <2>1
<1>6. w * One - paid * One = (w - paid) * One
  BY <1>3, DecimalAssumption
<1>7. fees'.wallets + fees'.referral = w - paid
  <2>1. fees.wallets \in Nat /\ fees.referral \in Nat
    BY FeesType
  <2> QED BY <2>1 DEF w
<1>8. BackedInv' <=> stray * One + d =< (fees'.wallets + fees'.referral) * One
  BY DEF BackedInv, d
<1> QED BY <1>5, <1>6, <1>7, <1>8

\* A call of a provider saves a record that was brought up to date.
LEMMA BackedByCall ==
  ASSUME PoolInv, PoolInv', BackedInv, UNCHANGED <<now, yields, stray>>,
         NEW a \in Providers, NEW r, providers' = Save(providers, a, r), NEW paid \in Nat,
         r.key = Len(yields), r.due \in Nat, r.due + paid = BookKept(a).due,
         fees'.wallets + fees'.referral = fees.wallets + fees.referral - paid
  PROVE  BackedInv'
<1>1. /\ now \in Nat /\ PrefixSums(yields) /\ BooksInv
      /\ Books(providers, now, Len(yields)) /\ Books(providers', now, Len(yields))
  BY YieldsArePrefixSums DEF PoolInv, BooksInv
<1>2. HeldClaim(providers', yields, a) = IF IsEmpty(r) THEN 0 ELSE ExactClaim(r, yields)
  BY <1>1, SaveClaims
<1>3. HeldClaim(providers', yields, a) = r.due * One
  <2>1. CASE IsEmpty(r)
    BY <1>2, <2>1, DecimalAssumption DEF IsEmpty
  <2>2. CASE ~IsEmpty(r)
    <3>1. a \in DOMAIN providers' /\ providers'[a] = r
      BY <2>2 DEF Save
    <3>2. RecordOk(r, now, Len(yields))
      BY <1>1, <3>1 DEF Books
    <3> QED BY <1>1, <1>2, <2>2, <3>2, ClaimType
  <2> QED BY <2>1, <2>2
<1>4. BookKept(a).due * One =< HeldClaim(providers, yields, a)
  BY <1>1, BookKeptClaim
<1>5. r.due * One + paid * One = (r.due + paid) * One
  BY DecimalAssumption
<1>6. HeldClaim(providers', yields, a) + paid * One =< HeldClaim(providers, yields, a)
  BY <1>3, <1>4, <1>5
<1> QED BY <1>6, BackedBy

\* A transfer brings both records up to date.
LEMMA BackedByTransfer ==
  ASSUME PoolInv, PoolInv', BackedInv, NEW a \in Providers, NEW b \in Providers,
         NEW class \in Classes, NEW l, TransferToken(a, b, class, l)
  PROVE  BackedInv'
<1> DEFINE r == BookKept(a)
           s == BookKept(b)
           ra == [r EXCEPT ![class] = @ - l]
           sb == [s EXCEPT ![class] = @ + l]
           moved == Save(providers, a, ra)
           n == Len(yields)
<1>1. /\ reset = NotResetting /\ a # b /\ providers' = Save(moved, b, sb)
      /\ UNCHANGED <<now, fees, yields, stray>>
  BY DEF TransferToken, Provider, feeVars
<1>2. /\ now \in Nat /\ PrefixSums(yields) /\ stray \in Nat /\ BooksInv
      /\ Books(providers, now, n) /\ Books(providers', now, n)
  BY <1>1, YieldsArePrefixSums DEF PoolInv, BooksInv, FeesInv
<1>3. /\ r \in Stats /\ r.due \in Nat /\ r.key = n
      /\ s \in Stats /\ s.due \in Nat /\ s.key = n
      /\ r.due * One =< HeldClaim(providers, yields, a)
      /\ s.due * One =< HeldClaim(providers, yields, b)
  BY <1>1, <1>2, CallStarts, BookKeptClaim
<1> HIDE DEF r, s
<1>4. ra.key = n /\ ra.due = r.due /\ sb.key = n /\ sb.due = s.due
  BY <1>3 DEF Stats, Classes
<1> HIDE DEF ra, sb
<1>5. /\ DOMAIN moved = IF IsEmpty(ra) THEN DOMAIN providers \ {a}
                        ELSE DOMAIN providers \cup {a}
      /\ \A c \in DOMAIN moved : moved[c] = IF c = a THEN ra ELSE providers[c]
  BY DEF Save
<1> HIDE DEF moved
<1>6. \A c : c # b => /\ c \in DOMAIN providers' <=> c \in DOMAIN moved
                      /\ c \in DOMAIN moved => providers'[c] = moved[c]
  BY <1>1 DEF Save
<1>7. b \in DOMAIN providers' <=> ~IsEmpty(sb)
  BY <1>1 DEF Save
<1>8. b \in DOMAIN providers' => providers'[b] = sb
  BY <1>1 DEF Save
<1>9. Books(moved, now, n)
  <2>1. DOMAIN moved \subseteq Providers
    BY <1>2, <1>5 DEF Books
  <2>2. ASSUME NEW c \in DOMAIN moved
        PROVE  RecordOk(moved[c], now, n) /\ ~IsEmpty(moved[c])
    <3>1. CASE c = a
      BY <1>1, <1>2, <1>6, <2>2, <3>1 DEF Books
    <3>2. CASE c # a
      BY <1>2, <1>5, <2>2, <3>2 DEF Books
    <3> QED BY <3>1, <3>2
  <2> QED BY <2>1, <2>2 DEF Books
<1>10. /\ ClaimSum(moved, yields) = ClaimSum(providers, yields)
            - HeldClaim(providers, yields, a) + HeldClaim(moved, yields, a)
       /\ HeldClaim(moved, yields, a) = IF IsEmpty(ra) THEN 0 ELSE ExactClaim(ra, yields)
  BY <1>2, <1>9, SaveClaims DEF moved
<1>11. /\ ClaimSum(providers', yields) = ClaimSum(moved, yields)
            - HeldClaim(moved, yields, b) + HeldClaim(providers', yields, b)
       /\ HeldClaim(providers', yields, b) = IF IsEmpty(sb) THEN 0 ELSE ExactClaim(sb, yields)
  BY <1>1, <1>2, <1>9, SaveClaims
<1>12. HeldClaim(moved, yields, b) = HeldClaim(providers, yields, b)
  BY <1>1, <1>5 DEF HeldClaim
<1>13. HeldClaim(moved, yields, a) = r.due * One
  <2>1. CASE IsEmpty(ra)
    BY <1>4, <1>10, <2>1, DecimalAssumption DEF IsEmpty
  <2>2. CASE ~IsEmpty(ra)
    <3>1. a \in DOMAIN moved /\ moved[a] = ra
      BY <1>5, <2>2
    <3>2. RecordOk(ra, now, n)
      BY <1>9, <3>1 DEF Books
    <3> QED BY <1>2, <1>4, <1>10, <2>2, <3>2, ClaimType
  <2> QED BY <2>1, <2>2
<1>14. HeldClaim(providers', yields, b) = s.due * One
  <2>1. CASE IsEmpty(sb)
    BY <1>4, <1>11, <2>1, DecimalAssumption DEF IsEmpty
  <2>2. CASE ~IsEmpty(sb)
    <3>1. RecordOk(sb, now, n)
      BY <1>2, <1>7, <1>8, <2>2 DEF Books
    <3> QED BY <1>2, <1>4, <1>11, <2>2, <3>1, ClaimType
  <2> QED BY <2>1, <2>2
<1>15. /\ ClaimSum(providers, yields) \in Nat /\ ClaimSum(moved, yields) \in Nat
       /\ ClaimSum(providers', yields) \in Nat
       /\ HeldClaim(providers, yields, a) \in Nat /\ HeldClaim(providers, yields, b) \in Nat
       /\ r.due * One \in Nat /\ s.due * One \in Nat
  <2>1. /\ ClaimSum(providers, yields) \in Nat
        /\ HeldClaim(providers, yields, a) \in Nat /\ HeldClaim(providers, yields, b) \in Nat
    BY <1>2, ClaimsType
  <2>2. ClaimSum(moved, yields) \in Nat
    BY <1>2, <1>9, ClaimsType
  <2>3. ClaimSum(providers', yields) \in Nat
    BY <1>2, ClaimsType
  <2>4. r.due * One \in Nat /\ s.due * One \in Nat
    BY <1>3, TimesMono, DecimalAssumption
  <2> QED BY <2>1, <2>2, <2>3, <2>4
<1>16. ClaimSum(providers', yields) =< ClaimSum(providers, yields)
  BY <1>3, <1>10, <1>11, <1>12, <1>13, <1>14, <1>15, SMTT(30)
<1>17. stray * One \in Int /\ (fees.wallets + fees.referral) * One \in Int
  BY <1>2, FeesType, DecimalAssumption
<1>18. stray * One + ClaimSum(providers', yields) =< (fees.wallets + fees.referral) * One
  BY <1>15, <1>16, <1>17 DEF BackedInv
<1> QED BY <1>1, <1>18 DEF BackedInv

\* Nothing about the claims changes.
LEMMA BackedStays ==
  ASSUME BackedInv, UNCHANGED <<providers, yields, stray>>,
         fees'.wallets = fees.wallets, fees'.referral = fees.referral
  PROVE  BackedInv'
BY DEF BackedInv

\* Providers are paid what they claim; all their calls bring the record up to
\* date, so that tokens of another class or owner earn nothing they did not.
LEMMA BackedByProvider ==
  ASSUME PoolInv, PoolInv', BackedInv, NEW a \in Providers, ProviderMsg(a)
  PROVE  BackedInv'
<1> DEFINE r == BookKept(a)
<1>0. /\ fees \in [wallets : Nat, protocol : Nat, crank : Nat, referral : Nat]
      /\ fees.wallets \in Nat /\ fees.referral \in Nat /\ BooksInv /\ now \in Nat
  BY FeesType DEF PoolInv, BooksInv
<1>a. ASSUME reset = NotResetting
      PROVE  /\ RecordOk(r, now, Len(yields)) /\ r \in Stats
             /\ r.due \in Nat /\ r.key = Len(yields) /\ Len(yields) \in Nat
  BY <1>0, <1>a, CallStarts, BookKeptClaim
<1>b. ASSUME NEW d \in Nat, fees' = [fees EXCEPT !.wallets = @ - d]
      PROVE  fees'.wallets + fees'.referral = fees.wallets + fees.referral - d
  <2>1. fees'.wallets = fees.wallets - d /\ fees'.referral = fees.referral
    BY <1>0, <1>b
  <2> QED BY <1>0, <2>1
<1>c. ASSUME fees' = fees
      PROVE  fees'.wallets + fees'.referral = fees.wallets + fees.referral - 0
  BY <1>0, <1>c
<1>d. ASSUME NEW q, NEW x, NEW stake, NEW cooldown, q \in Stats,
             DepositInner(a, q, x, stake, cooldown)
      PROVE  \E s : providers' = Save(providers, a, s) /\ s.key = q.key /\ s.due = q.due
  <2> DEFINE n == CollateralToLp(pool, x)
             s == [q EXCEPT !.lp = IF stake THEN @ ELSE @ + n,
                            !.xlp = IF stake THEN @ + n ELSE @,
                            !.cooldownEnds = IF cooldown /\ Cooldown > 0
                                             THEN now + Cooldown ELSE @]
  <2>1. providers' = Save(providers, a, s)
    BY <1>d DEF DepositInner
  <2> HIDE DEF n
  <2>2. s.key = q.key /\ s.due = q.due
    BY <1>d DEF Stats
  <2> HIDE DEF s
  <2> QED BY <2>1, <2>2
<1>1. ASSUME NEW x \in Deposits, NEW stake \in BOOLEAN, DepositLiquidity(a, x, stake)
      PROVE  BackedInv'
  <2>1. /\ reset = NotResetting /\ DepositInner(a, r, x, stake, ~stake)
        /\ UNCHANGED <<now, fees, yields, stray>>
    BY <1>1 DEF DepositLiquidity, Provider, feeVars
  <2>2. /\ RecordOk(r, now, Len(yields)) /\ r \in Stats
        /\ r.due \in Nat /\ r.key = Len(yields)
    BY <1>a, <2>1
  <2>3. PICK s : providers' = Save(providers, a, s) /\ s.key = r.key /\ s.due = r.due
    BY <1>d, <2>1, <2>2
  <2> HIDE DEF r
  <2>4. s.due + 0 = r.due
    BY <2>2, <2>3
  <2> QED BY <1>c, <2>1, <2>2, <2>3, <2>4, BackedByCall DEF r
<1>2. CASE ClaimYield(a)
  <2>1. /\ reset = NotResetting /\ providers' = Save(providers, a, Claimed(r))
        /\ fees' = [fees EXCEPT !.wallets = @ - r.due]
        /\ UNCHANGED <<now, yields, stray>>
    BY <1>2 DEF ClaimYield, Provider, feeVars
  <2>2. r \in Stats /\ r.due \in Nat /\ r.key = Len(yields)
    BY <1>a, <2>1
  <2>3. fees'.wallets + fees'.referral = fees.wallets + fees.referral - r.due
    BY <1>b, <2>1, <2>2
  <2> HIDE DEF r
  <2>4. Claimed(r).key = Len(yields) /\ Claimed(r).due = 0
    BY <2>2 DEF Claimed, Stats
  <2>5. Claimed(r).due + r.due = r.due
    BY <2>2, <2>4
  <2> QED BY <2>1, <2>2, <2>3, <2>4, <2>5, BackedByCall DEF r
<1>3. ASSUME NEW x, NEW stake \in BOOLEAN, ReinvestYield(a, x, stake)
      PROVE  BackedInv'
  <2>1. /\ reset = NotResetting /\ DepositInner(a, Claimed(r), x, stake, FALSE)
        /\ fees' = [fees EXCEPT !.wallets = @ - r.due]
        /\ UNCHANGED <<now, yields, stray>>
    BY <1>3 DEF ReinvestYield, Provider, feeVars
  <2>2. RecordOk(r, now, Len(yields)) /\ r \in Stats /\ r.due \in Nat /\ r.key = Len(yields)
    BY <1>a, <2>1
  <2>3. fees'.wallets + fees'.referral = fees.wallets + fees.referral - r.due
    BY <1>b, <2>1, <2>2
  <2>4. Claimed(r).key = Len(yields) /\ Claimed(r).due = 0 /\ Claimed(r) \in Stats
    <3> HIDE DEF r
    <3> QED BY <2>2 DEF Claimed, Stats
  <2>5. PICK s : providers' = Save(providers, a, s) /\ s.key = Len(yields) /\ s.due = 0
    BY <1>d, <2>1, <2>4
  <2> HIDE DEF r
  <2>6. s.due + r.due = r.due
    BY <2>2, <2>5
  <2> QED BY <2>1, <2>2, <2>3, <2>5, <2>6, BackedByCall DEF r
<1>4. ASSUME NEW l, NEW claim \in BOOLEAN, WithdrawLiquidity(a, l, claim)
      PROVE  BackedInv'
  <2> DEFINE s == [r EXCEPT !.lp = @ - l, !.due = IF claim THEN 0 ELSE @]
             d == IF claim THEN r.due ELSE 0
  <2>1. /\ reset = NotResetting /\ providers' = Save(providers, a, s)
        /\ fees' = IF claim THEN [fees EXCEPT !.wallets = @ - r.due] ELSE fees
        /\ UNCHANGED <<now, yields, stray>>
    BY <1>4 DEF WithdrawLiquidity, Provider, feeVars
  <2>2. r \in Stats /\ r.due \in Nat /\ r.key = Len(yields)
    BY <1>a, <2>1
  <2>3. fees'.wallets + fees'.referral = fees.wallets + fees.referral - d
    BY <1>b, <1>c, <2>1, <2>2
  <2> HIDE DEF r
  <2>4. s.key = Len(yields) /\ s.due = IF claim THEN 0 ELSE r.due
    BY <2>2 DEF Stats
  <2>5. d \in Nat /\ s.due \in Nat /\ s.due + d = r.due
    BY <2>2, <2>4
  <2> HIDE DEF s, d
  <2> QED BY <2>1, <2>3, <2>4, <2>5, BackedByCall DEF r
<1>e. ASSUME reset = NotResetting, UNCHANGED <<now, fees, yields, stray>>,
             NEW s, providers' = Save(providers, a, s), s.key = r.key, s.due = r.due
      PROVE  BackedInv'
  <2>1. r.due \in Nat /\ r.key = Len(yields)
    BY <1>a, <1>e
  <2>2. s.due + 0 = r.due
    BY <1>e, <2>1
  <2> HIDE DEF r
  <2> QED BY <1>c, <1>e, <2>1, <2>2, BackedByCall DEF r
<1>5. ASSUME NEW l, StakeLp(a, l) PROVE BackedInv'
  <2> DEFINE s == [r EXCEPT !.lp = @ - l, !.xlp = @ + l]
  <2>1. /\ reset = NotResetting /\ providers' = Save(providers, a, s)
        /\ UNCHANGED <<now, fees, yields, stray>>
    BY <1>5 DEF StakeLp, Provider, feeVars
  <2>2. r \in Stats
    BY <1>a, <2>1
  <2>3. s.key = r.key /\ s.due = r.due
    <3> HIDE DEF r
    <3> QED BY <2>2 DEF Stats
  <2> HIDE DEF s
  <2> QED BY <1>e, <2>1, <2>3
<1>6. ASSUME NEW l, UnstakeXlp(a, l) PROVE BackedInv'
  <2> DEFINE u == [xlp |-> l, collected |-> 0, started |-> now, last |-> now]
             s == [Stopped(r) EXCEPT !.xlp = @ - l, !.unstaking = u]
  <2>1. /\ reset = NotResetting /\ providers' = Save(providers, a, s)
        /\ UNCHANGED <<now, fees, yields, stray>>
    BY <1>6 DEF UnstakeXlp, Provider, feeVars
  <2>2. r \in Stats
    BY <1>a, <2>1
  <2>3. s.key = r.key /\ s.due = r.due
    <3> HIDE DEF r, u
    <3> QED BY <2>2 DEF Stats, Stopped
  <2> HIDE DEF s
  <2> QED BY <1>e, <2>1, <2>3
<1>7. CASE StopUnstakingXlp(a)
  <2>1. /\ reset = NotResetting /\ providers' = Save(providers, a, Stopped(r))
        /\ UNCHANGED <<now, fees, yields, stray>>
    BY <1>7 DEF StopUnstakingXlp, Provider, feeVars
  <2>2. r \in Stats
    BY <1>a, <2>1
  <2>3. Stopped(r).key = r.key /\ Stopped(r).due = r.due
    <3> HIDE DEF r
    <3> QED BY <2>2 DEF Stats, Stopped
  <2> QED BY <1>e, <2>1, <2>3
<1>8. CASE CollectUnstakedLp(a)
  <2>1. /\ reset = NotResetting /\ providers' = Save(providers, a, r)
        /\ UNCHANGED <<now, fees, yields, stray>>
    BY <1>8 DEF CollectUnstakedLp, Provider, feeVars
  <2> QED BY <1>e, <2>1
<1>9. ASSUME NEW b \in Providers, NEW class \in Classes, NEW l,
             TransferToken(a, b, class, l)
      PROVE  BackedInv'
  BY <1>9, BackedByTransfer
<1> QED BY <1>1, <1>2, <1>3, <1>4, <1>5, <1>6, <1>7, <1>8, <1>9 DEF ProviderMsg

\* New prefix sums: the claims grow by no more than what is distributed, and
\* what goes to a class of tokens that nobody holds is set aside.
LEMMA YieldClaims ==
  ASSUME BooksInv, reset = NotResetting, stray \in Nat,
         NEW p \in Pools, p.lp \in {0, pool.lp}, p.xlp \in {0, pool.xlp},
         NEW l \in Nat, NEW x \in Nat, AddYield(p, l, x)
  PROVE  stray' * One + ClaimSum(providers, yields')
           =< stray * One + ClaimSum(providers, yields) + (l + x) * One
<1> DEFINE dl == IF p.lp = 0 THEN 0 ELSE Div(l, p.lp)
           dx == IF p.xlp = 0 THEN 0 ELSE Div(x, p.xlp)
           sl == IF p.lp = 0 THEN l ELSE 0
           sx == IF p.xlp = 0 THEN x ELSE 0
           y == [lp |-> LastYield.lp + dl, xlp |-> LastYield.xlp + dx]
           n == Len(yields)
           D == DOMAIN providers
<1>1. yields' = Append(yields, y) /\ stray' = stray + sl + sx
  BY DEF AddYield
<1>2. /\ YieldsOk /\ n \in Nat \ {0} /\ now \in Nat /\ Books(providers, now, n)
      /\ yields \in Seq([lp : Nat, xlp : Nat])
      /\ LastYield.lp \in Nat /\ LastYield.xlp \in Nat /\ PrefixSums(yields)
      /\ pool.lp = LpSum(providers) /\ pool.xlp = XlpSum(providers)
  BY YieldsType, YieldsArePrefixSums DEF BooksInv, SharesInv, YieldsOk
<1>3. /\ p.lp \in Nat /\ p.xlp \in Nat /\ pool.lp \in Nat /\ pool.xlp \in Nat
      /\ l * One \in Nat /\ x * One \in Nat
  <2>1. p.lp \in Nat /\ p.xlp \in Nat
    BY PoolFields
  <2>2. LpSum(providers) \in Nat /\ XlpSum(providers) \in Nat
    BY <1>2, HeldBound
  <2>3. l * One \in Nat /\ x * One \in Nat
    BY TimesMono, DecimalAssumption
  <2> QED BY <1>2, <2>1, <2>2, <2>3
<1>4. dl \in Nat /\ dl * pool.lp + sl * One =< l * One
  <2>0. l * One \in Nat /\ pool.lp \in Nat
    BY <1>3
  <2>1. CASE p.lp = 0
    <3>1. dl = 0 /\ sl = l
      BY <2>1
    <3> HIDE DEF dl, sl
    <3> QED BY <2>0, <3>1
  <2>2. CASE p.lp # 0
    <3>1. p.lp = pool.lp /\ p.lp \in Nat \ {0} /\ dl = Div(l, p.lp) /\ sl = 0
      BY <1>3, <2>2
    <3> HIDE DEF dl, sl
    <3>2. dl \in Nat /\ dl * pool.lp =< l * One
      BY <3>1, DivType
    <3>3. dl * pool.lp \in Nat
      BY <2>0, <3>2, TimesMono
    <3> QED BY <2>0, <3>1, <3>2, <3>3, DecimalAssumption
  <2> QED BY <2>1, <2>2
<1>5. dx \in Nat /\ dx * pool.xlp + sx * One =< x * One
  <2>0. x * One \in Nat /\ pool.xlp \in Nat
    BY <1>3
  <2>1. CASE p.xlp = 0
    <3>1. dx = 0 /\ sx = x
      BY <2>1
    <3> HIDE DEF dx, sx
    <3> QED BY <2>0, <3>1
  <2>2. CASE p.xlp # 0
    <3>1. p.xlp = pool.xlp /\ p.xlp \in Nat \ {0} /\ dx = Div(x, p.xlp) /\ sx = 0
      BY <1>3, <2>2
    <3> HIDE DEF dx, sx
    <3>2. dx \in Nat /\ dx * pool.xlp =< x * One
      BY <3>1, DivType
    <3>3. dx * pool.xlp \in Nat
      BY <2>0, <3>2, TimesMono
    <3> QED BY <2>0, <3>1, <3>2, <3>3, DecimalAssumption
  <2> QED BY <2>1, <2>2
<1>6. sl \in Nat /\ sx \in Nat
  OBVIOUS
<1> HIDE DEF dl, dx, sl, sx
<1>7. y \in [lp : Nat, xlp : Nat] /\ y.lp = LastYield.lp + dl /\ y.xlp = LastYield.xlp + dx
  BY <1>2, <1>4, <1>5, SMTT(30)
<1> HIDE DEF y
<1>8. /\ Len(yields') = n + 1 /\ yields'[n + 1] = y
      /\ \A i \in 1..n : yields'[i] = yields[i]
  BY <1>1, <1>2, <1>7, AppendProperties
<1>9. ASSUME NEW a \in D
      PROVE  /\ LpOf(providers)[a] \in Nat /\ XlpOf(providers)[a] \in Nat
             /\ ClaimsOf(providers, yields)[a] \in Nat
             /\ ClaimsOf(providers, yields')[a] = ClaimsOf(providers, yields)[a]
                  + dl * LpOf(providers)[a] + dx * XlpOf(providers)[a]
  <2> DEFINE r == providers[a]
             e == EarningLp(r)
             z == r.xlp
             kl == yields[r.key].lp
             kx == yields[r.key].xlp
  <2>1. RecordOk(r, now, n)
    BY <1>2 DEF Books
  <2>2. r.key \in 1..n /\ z \in Nat /\ r.due \in Nat /\ e \in Nat
    BY <1>2, <2>1, RecordFields, EarningType
  <2>3. /\ ClaimsOf(providers, yields)[a] = ExactClaim(r, yields)
        /\ ClaimsOf(providers, yields')[a] = ExactClaim(r, yields')
        /\ LpOf(providers)[a] = e /\ XlpOf(providers)[a] = z
    BY DEF ClaimsOf, LpOf, XlpOf
  <2>4. kl \in Nat /\ kx \in Nat
    <3>1. yields[r.key] \in [lp : Nat, xlp : Nat]
      BY <1>2, <2>2, YieldsType
    <3> QED BY <3>1
  <2>5. ExactClaim(r, yields)
          = r.due * One + (LastYield.lp - kl) * e + (LastYield.xlp - kx) * z
    BY DEF ExactClaim, LastYield
  <2>6. ExactClaim(r, yields')
          = r.due * One + ((LastYield.lp + dl) - kl) * e + ((LastYield.xlp + dx) - kx) * z
    <3>1. yields'[Len(yields')] = y /\ yields'[r.key] = yields[r.key]
      BY <1>8, <2>2
    <3>2. ExactClaim(r, yields')
            = r.due * One + (yields'[Len(yields')].lp - yields'[r.key].lp) * e
                          + (yields'[Len(yields')].xlp - yields'[r.key].xlp) * z
      BY DEF ExactClaim
    <3>3. /\ yields'[Len(yields')].lp = LastYield.lp + dl /\ yields'[r.key].lp = kl
          /\ yields'[Len(yields')].xlp = LastYield.xlp + dx /\ yields'[r.key].xlp = kx
      BY <1>7, <3>1
    <3> HIDE DEF r, e, z, kl, kx
    <3> QED BY <3>2, <3>3
  <2>7. ClaimsOf(providers, yields)[a] \in Nat
    BY <1>2, ClaimsType
  <2> HIDE DEF r, e, z, kl, kx
  <2>8. /\ ((LastYield.lp + dl) - kl) * e = (LastYield.lp - kl) * e + dl * e
        /\ ((LastYield.xlp + dx) - kx) * z = (LastYield.xlp - kx) * z + dx * z
    <3>1. LastYield.lp \in Int /\ dl \in Int /\ kl \in Int /\ e \in Int
      BY <1>2, <1>4, <2>2, <2>4
    <3>2. LastYield.xlp \in Int /\ dx \in Int /\ kx \in Int /\ z \in Int
      BY <1>2, <1>5, <2>2, <2>4
    <3>3. ASSUME NEW i \in Int, NEW j \in Int, NEW k \in Int, NEW m \in Int
          PROVE  ((i + j) - k) * m = (i - k) * m + j * m
      OBVIOUS
    <3> QED BY <3>1, <3>2, <3>3
  <2>9. /\ r.due * One \in Int /\ (LastYield.lp - kl) * e \in Int
        /\ (LastYield.xlp - kx) * z \in Int /\ dl * e \in Int /\ dx * z \in Int
    <3>1. \A i, j \in Int : i * j \in Int /\ i - j \in Int
      OBVIOUS
    <3>2. LastYield.lp \in Int /\ dl \in Int /\ kl \in Int /\ e \in Int
      BY <1>2, <1>4, <2>2, <2>4
    <3>3. LastYield.xlp \in Int /\ dx \in Int /\ kx \in Int /\ z \in Int
      BY <1>2, <1>5, <2>2, <2>4
    <3>4. LastYield.lp - kl \in Int /\ LastYield.xlp - kx \in Int
      BY <3>1, <3>2, <3>3
    <3>5. r.due * One \in Int
      BY <2>2, DecimalAssumption
    <3> QED BY <3>1, <3>2, <3>3, <3>4, <3>5
  <2>10. ExactClaim(r, yields') = ExactClaim(r, yields) + dl * e + dx * z
    BY <2>5, <2>6, <2>8, <2>9
  <2> QED BY <2>2, <2>3, <2>7, <2>10
<1>10. ClaimSum(providers, yields')
         = ClaimSum(providers, yields) + dl * pool.lp + dx * pool.xlp
  <2> DEFINE f == ClaimsOf(providers, yields)
             g == ClaimsOf(providers, yields')
             u == LpOf(providers)
             v == XlpOf(providers)
  <2>1. IsFiniteSet(D)
    BY <1>2, BooksFinite
  <2>2. \A a \in D : /\ f[a] \in Nat /\ u[a] \in Nat /\ v[a] \in Nat
                     /\ g[a] = f[a] + dl * u[a] + dx * v[a]
    BY <1>9
  <2>3. /\ ClaimSum(providers, yields) = Total(f, D) /\ ClaimSum(providers, yields') = Total(g, D)
        /\ pool.lp = Total(u, D) /\ pool.xlp = Total(v, D)
    BY <1>2 DEF ClaimSum, LpSum, XlpSum
  <2> HIDE DEF f, g, u, v, D
  <2>4. Total(g, D) = Total(f, D) + dl * Total(u, D) + dx * Total(v, D)
    BY <1>4, <1>5, <2>1, <2>2, TotalCombined
  <2> QED BY <2>3, <2>4
<1>11. /\ pool.lp \in Nat /\ pool.xlp \in Nat /\ ClaimSum(providers, yields) \in Nat
  BY <1>2, HeldBound, ClaimsType
<1>12. stray' * One = stray * One + sl * One + sx * One /\ (l + x) * One = l * One + x * One
  BY <1>1, <1>6, DecimalAssumption
<1>13. /\ stray * One \in Int /\ sl * One \in Int /\ sx * One \in Int
       /\ l * One \in Int /\ x * One \in Int
       /\ dl * pool.lp \in Int /\ dx * pool.xlp \in Int
  BY <1>4, <1>5, <1>6, <1>11, DecimalAssumption
<1> QED BY <1>4, <1>5, <1>10, <1>11, <1>12, <1>13

\* A reward is owed at once, whatever the record has accrued.
LEMMA RewardClaim ==
  ASSUME BooksInv, NEW ys, PrefixSums(ys), Len(yields) =< Len(ys),
         NEW a \in Providers, NEW c \in Nat,
         NEW g, g = Save(providers, a, [Load(a) EXCEPT !.due = @ + c]),
         Books(g, now, Len(ys))
  PROVE  HeldClaim(g, ys, a) =< HeldClaim(providers, ys, a) + c * One
<1> DEFINE r == Load(a)
           s == [r EXCEPT !.due = @ + c]
<1>1. /\ now \in Nat /\ Len(yields) \in Nat /\ Len(ys) \in Nat
      /\ Books(providers, now, Len(yields))
      /\ RecordOk(r, now, Len(yields))
  BY BooksKept, YieldsType DEF BooksInv, PrefixSums
<1>2. RecordOk(r, now, Len(ys)) /\ Books(providers, now, Len(ys))
  BY <1>1, RecordLater, BooksLater
<1>3. ExactClaim(r, ys) = HeldClaim(providers, ys, a)
  <2>1. CASE a \in DOMAIN providers
    BY <2>1 DEF Load, HeldClaim
  <2>2. CASE a \notin DOMAIN providers
    <3> DEFINE i == ys[Len(ys)].lp - ys[r.key].lp
               j == ys[Len(ys)].xlp - ys[r.key].xlp
    <3>1. r = NewStats /\ r.due = 0 /\ EarningLp(r) = 0 /\ r.xlp = 0
      BY <2>2 DEF Load, NewStats, EarningLp, NoUnstaking
    <3>2. ExactClaim(r, ys) = r.due * One + i * EarningLp(r) + j * r.xlp
      BY DEF ExactClaim
    <3>3. i \in Nat /\ j \in Nat
      BY <1>2, RecordFields, PrefixGrowth
    <3> HIDE DEF r, i, j
    <3>4. ExactClaim(r, ys) = 0
      BY <3>1, <3>2, <3>3, DecimalAssumption
    <3> QED BY <2>2, <3>4 DEF HeldClaim
  <2> QED BY <2>1, <2>2
<1>4. ExactClaim(r, ys) \in Nat /\ r.due \in Nat /\ r \in Stats
  BY <1>1, <1>2, ClaimType, RecordFields
<1>5. ExactClaim(s, ys) = ExactClaim(r, ys) + c * One
  <2> DEFINE i == (ys[Len(ys)].lp - ys[r.key].lp) * EarningLp(r)
             j == (ys[Len(ys)].xlp - ys[r.key].xlp) * r.xlp
  <2>1. ExactClaim(r, ys) = r.due * One + i + j
    BY DEF ExactClaim
  <2>2. /\ s.due = r.due + c /\ s.key = r.key /\ s.xlp = r.xlp
        /\ EarningLp(s) = EarningLp(r)
    <3> HIDE DEF r
    <3> QED BY <1>4 DEF Stats, EarningLp
  <2>3. ExactClaim(s, ys) = (r.due + c) * One + i + j
    BY <2>2 DEF ExactClaim
  <2>4. i \in Nat /\ j \in Nat
    <3>1. /\ ys[Len(ys)].lp - ys[r.key].lp \in Nat /\ ys[Len(ys)].xlp - ys[r.key].xlp \in Nat
          /\ EarningLp(r) \in Nat /\ r.xlp \in Nat
      BY <1>1, <1>2, RecordFields, EarningType, PrefixGrowth
    <3> QED BY <3>1, TimesMono
  <2>5. (r.due + c) * One = r.due * One + c * One
    BY <1>4, DecimalAssumption
  <2>6. r.due * One \in Int /\ c * One \in Int
    BY <1>4, DecimalAssumption
  <2> HIDE DEF r, s, i, j
  <2> QED BY <2>1, <2>3, <2>4, <2>5, <2>6
<1>6. HeldClaim(g, ys, a) = IF IsEmpty(s) THEN 0 ELSE ExactClaim(s, ys)
  BY <1>1, <1>2, SaveClaims
<1>7. c * One \in Nat
  BY TimesMono, DecimalAssumption
<1> HIDE DEF r, s
<1> QED BY <1>3, <1>4, <1>5, <1>6, <1>7

\* A reward raises the sum of the claims by no more than itself.
LEMMA RewardSum ==
  ASSUME PoolInv, PoolInv', now' = now, Len(yields) =< Len(yields'),
         NEW a \in Providers, NEW c \in Nat,
         providers' = Save(providers, a, [Load(a) EXCEPT !.due = @ + c])
  PROVE  ClaimSum(providers', yields') =< ClaimSum(providers, yields') + c * One
<1> DEFINE n == Len(yields')
           h == HeldClaim(providers, yields', a)
           k == HeldClaim(providers', yields', a)
<1>1. /\ BooksInv /\ PrefixSums(yields') /\ now \in Nat /\ n \in Nat /\ Len(yields) \in Nat
      /\ Books(providers, now, Len(yields)) /\ Books(providers', now, n)
  BY YieldsArePrefixSumsNext, YieldsType DEF PoolInv, BooksInv, PrefixSums
<1>2. Books(providers, now, n)
  BY <1>1, BooksLater
<1>3. k =< h + c * One
  BY <1>1, RewardClaim
<1>4. ClaimSum(providers', yields') = ClaimSum(providers, yields') - h + k
  BY <1>1, <1>2, SaveClaims
<1>5. /\ ClaimSum(providers, yields') \in Nat /\ h \in Nat
      /\ k \in Nat /\ c * One \in Nat
  BY <1>1, <1>2, ClaimsType, TimesMono, DecimalAssumption
<1> HIDE DEF h, k
<1> QED BY <1>3, <1>4, <1>5

\* Fees that are distributed, and a reward c that may be credited besides.
LEMMA BackedByYield ==
  ASSUME PoolInv, PoolInv', BackedInv, now' = now, reset = NotResetting,
         NEW p \in Pools, p.lp \in {0, pool.lp}, p.xlp \in {0, pool.xlp},
         NEW l \in Nat, NEW x \in Nat, AddYield(p, l, x), NEW c \in Nat,
         ClaimSum(providers', yields') =< ClaimSum(providers, yields') + c * One,
         fees'.wallets + fees'.referral = (fees.wallets + fees.referral) + (l + x) + c
  PROVE  BackedInv'
<1> DEFINE old == ClaimSum(providers, yields)
           mid == ClaimSum(providers, yields')
           new == ClaimSum(providers', yields')
           w == fees.wallets + fees.referral
<1>1. BooksInv /\ stray \in Nat /\ YieldsOk /\ stray' \in Nat
  BY DEF PoolInv, BooksInv, FeesInv
<1>2. stray' * One + mid =< stray * One + old + (l + x) * One
  BY <1>1, YieldClaims
<1>3. stray * One + old =< w * One /\ new =< mid + c * One
  BY DEF BackedInv
<1>4. /\ PrefixSums(yields) /\ PrefixSums(yields') /\ now \in Nat
      /\ Len(yields) =< Len(yields') /\ Len(yields) \in Nat /\ Len(yields') \in Nat
      /\ Books(providers, now, Len(yields)) /\ Books(providers', now, Len(yields'))
  BY <1>1, YieldsArePrefixSums, YieldsArePrefixSumsNext, AddYieldKeeps, YieldsType
     DEF PoolInv, BooksInv, PrefixSums
<1>5. Books(providers, now, Len(yields'))
  BY <1>4, BooksLater
<1>6. old \in Nat /\ mid \in Nat /\ new \in Nat
  BY <1>4, <1>5, ClaimsType
<1>7. w \in Nat
  BY FeesType
<1>8. BackedInv' <=> stray' * One + new =< (fees'.wallets + fees'.referral) * One
  BY DEF BackedInv
<1>9. fees'.wallets + fees'.referral = w + (l + x) + c
  OBVIOUS
<1> HIDE DEF old, mid, new, w
<1>10. (w + (l + x) + c) * One = w * One + (l + x) * One + c * One
  BY <1>7, DecimalAssumption
<1>11. /\ stray * One \in Nat /\ stray' * One \in Nat /\ w * One \in Nat
       /\ (l + x) * One \in Nat /\ c * One \in Nat
  <2>1. \A i \in Nat : i * One \in Nat
    BY DecimalAssumption
  <2>2. l + x \in Nat
    OBVIOUS
  <2> QED BY <1>1, <1>7, <2>1, <2>2
<1> QED BY <1>2, <1>3, <1>6, <1>8, <1>9, <1>10, <1>11

\* A trading fee is distributed, and the referrer's part of it kept apart.
LEMMA TradingFeeSplits ==
  ASSUME PoolInv, NEW p, NEW f \in Nat, NEW reward \in Nat, reward =< f,
         TradingFee(p, f, reward)
  PROVE  \E l, x \in Nat :
           /\ AddYield(p, l, x)
           /\ fees'.wallets + fees'.referral = (fees.wallets + fees.referral) + (l + x) + reward
<1> DEFINE y == f - reward
           tax == Mul(y, ProtocolTax)
           m == y - tax
<1>1. PICK s \in Split(m) : AddYield(p, s[1], s[2])
  BY DEF TradingFee
<1>2. fees' = [fees EXCEPT !.wallets = @ + m, !.protocol = @ + tax, !.referral = @ + reward]
  BY DEF TradingFee
<1>3. y \in Nat
  OBVIOUS
<1> HIDE DEF y
<1>4. tax \in Nat /\ tax =< y
  BY <1>3, MulRatio, ConfigAssumption
<1> HIDE DEF tax
<1>5. m \in Nat
  BY <1>3, <1>4
<1> HIDE DEF m
<1>6. s[1] \in Nat /\ s[2] \in Nat /\ s[1] + s[2] = m
  BY <1>5 DEF Split
<1>7. /\ fees \in [wallets : Nat, protocol : Nat, crank : Nat, referral : Nat]
      /\ fees.wallets \in Nat /\ fees.referral \in Nat
  BY FeesType
<1>8. fees'.wallets = fees.wallets + m /\ fees'.referral = fees.referral + reward
  BY <1>2, <1>7
<1>9. fees'.wallets + fees'.referral
        = (fees.wallets + fees.referral) + (s[1] + s[2]) + reward
  BY <1>5, <1>6, <1>7, <1>8
<1> QED BY <1>1, <1>6, <1>9

\* A trading fee, with the referrer's part on top.
LEMMA BackedByOpen ==
  ASSUME PoolInv, PoolInv', BackedInv,
         NEW f \in FeeAmounts, NEW c, NEW a \in Providers \cup {0}, OpenPosition(f, c, a)
  PROVE  BackedInv'
<1> DEFINE reward == IF a \in Providers THEN Mul(f, ReferralRatio) ELSE 0
<1>1. /\ reset = NotResetting /\ TradingFee(pool, f, reward)
      /\ a \in Providers =>
           providers' = Save(providers, a, [Load(a) EXCEPT !.due = @ + reward])
      /\ a \notin Providers => providers' = providers /\ reward = 0
      /\ now' = now
  BY DEF OpenPosition
<1>2. f \in Nat /\ pool \in Pools /\ YieldsOk /\ stray \in Nat
  BY AmountsAssumption DEF PoolInv, BooksInv, FeesInv
<1>3. reward \in Nat /\ reward =< f
  <2>1. CASE a \in Providers
    BY <1>2, <2>1, MulRatio, ConfigAssumption
  <2>2. CASE a \notin Providers
    BY <1>2, <2>2
  <2> QED BY <2>1, <2>2
<1> HIDE DEF reward
<1>4. PICK l \in Nat, x \in Nat :
        /\ AddYield(pool, l, x)
        /\ fees'.wallets + fees'.referral = (fees.wallets + fees.referral) + (l + x) + reward
  BY <1>1, <1>2, <1>3, TradingFeeSplits
<1>5. Len(yields) =< Len(yields')
  BY <1>2, <1>4, AddYieldKeeps
<1>6. ClaimSum(providers', yields') =< ClaimSum(providers, yields') + reward * One
  <2>1. CASE a \in Providers
    BY <1>1, <1>3, <1>5, <2>1, RewardSum
  <2>2. CASE a \notin Providers
    <3>1. providers' = providers /\ reward = 0
      BY <1>1, <2>2
    <3>2. ClaimSum(providers', yields') \in Nat
      <4>1. /\ PrefixSums(yields') /\ now' \in Nat
            /\ Books(providers', now', Len(yields'))
        BY YieldsArePrefixSumsNext DEF PoolInv, BooksInv
      <4> QED BY <4>1, ClaimsType
    <3>3. ClaimSum(providers', yields') = ClaimSum(providers, yields')
      BY <3>1
    <3> QED BY <3>1, <3>2, <3>3, DecimalAssumption
  <2> QED BY <2>1, <2>2
<1> QED BY <1>1, <1>2, <1>3, <1>4, <1>6, BackedByYield

\* Without a reward, the claims change only by what is distributed.
LEMMA BackedByFees ==
  ASSUME PoolInv, PoolInv', BackedInv, UNCHANGED <<now, providers>>, reset = NotResetting,
         NEW p \in Pools, p.lp \in {0, pool.lp}, p.xlp \in {0, pool.xlp},
         NEW l \in Nat, NEW x \in Nat, AddYield(p, l, x),
         fees'.wallets + fees'.referral = (fees.wallets + fees.referral) + (l + x)
  PROVE  BackedInv'
<1>1. ClaimSum(providers', yields') \in Nat
  <2>1. /\ PrefixSums(yields') /\ now' \in Nat
        /\ Books(providers', now', Len(yields'))
    BY YieldsArePrefixSumsNext DEF PoolInv, BooksInv
  <2> QED BY <2>1, ClaimsType
<1>2. ClaimSum(providers', yields') = ClaimSum(providers, yields')
  OBVIOUS
<1>3. ClaimSum(providers', yields') =< ClaimSum(providers, yields') + 0 * One
  BY <1>1, <1>2, DecimalAssumption
<1>4. fees'.wallets + fees'.referral = (fees.wallets + fees.referral) + (l + x) + 0
  <2>1. fees.wallets \in Nat /\ fees.referral \in Nat
    BY FeesType
  <2> QED BY <2>1
<1> QED BY <1>3, <1>4, BackedByYield

\* Borrow fees, less the tax.
LEMMA BackedByLiquifund ==
  ASSUME PoolInv, PoolInv', BackedInv, NEW l \in FeeAmounts, NEW x \in FeeAmounts,
         NEW d, Liquifund(l, x, d)
  PROVE  BackedInv'
<1> DEFINE tl == Mul(l, ProtocolTax)
           tx == Mul(x, ProtocolTax)
           nl == l - tl
           nx == x - tx
<1>1. /\ reset = NotResetting /\ AddYield(pool, nl, nx)
      /\ fees' = [fees EXCEPT !.wallets = @ + nl + nx, !.protocol = @ + tl + tx]
      /\ UNCHANGED <<now, providers>>
  BY DEF Liquifund, InUse
<1>2. l \in Nat /\ x \in Nat /\ pool \in Pools
  BY AmountsAssumption DEF PoolInv, BooksInv
<1>3. tl \in Nat /\ tl =< l /\ tx \in Nat /\ tx =< x
  BY <1>2, MulRatio, ConfigAssumption
<1> HIDE DEF tl, tx
<1>4. nl \in Nat /\ nx \in Nat
  BY <1>2, <1>3
<1> HIDE DEF nl, nx
<1>5. /\ fees \in [wallets : Nat, protocol : Nat, crank : Nat, referral : Nat]
      /\ fees.wallets \in Nat /\ fees.referral \in Nat
  BY FeesType
<1>6. fees'.wallets = fees.wallets + nl + nx /\ fees'.referral = fees.referral
  BY <1>1, <1>5
<1>7. fees'.wallets + fees'.referral = (fees.wallets + fees.referral) + (nl + nx)
  BY <1>4, <1>5, <1>6
<1> QED BY <1>1, <1>2, <1>4, <1>7, BackedByFees

\* The gain of a trader may empty the pool before the fee is collected.
LEMMA BackedByClose ==
  ASSUME PoolInv, PoolInv', BackedInv, NEW g \in Nat, NEW f \in FeeAmounts,
         NEW c \in Int, ClosePosition(g, f, c)
  PROVE  BackedInv'
<1> DEFINE p == [pool EXCEPT !.locked = @ - g]
           q == Settled(p)
<1>1. /\ reset = NotResetting /\ c >= 0 /\ g + c \in 1..pool.locked
      /\ TradingFee(q, f, 0) /\ UNCHANGED <<now, providers>>
  BY DEF ClosePosition, InUse
<1>2. f \in Nat /\ pool \in Pools /\ pool.locked \in Nat /\ pool.lp \in Nat /\ pool.xlp \in Nat
  BY PoolFields, AmountsAssumption DEF PoolInv, BooksInv
<1>3. q \in Pools /\ q.lp \in {0, pool.lp} /\ q.xlp \in {0, pool.xlp}
  <2>1. CASE Drained(p)
    BY <2>1 DEF Settled, EmptyPool, Pools
  <2>2. CASE ~Drained(p)
    <3>1. q = p
      BY <2>2 DEF Settled
    <3> DEFINE lo == pool.locked - g
    <3>2. p = [pool EXCEPT !.locked = lo] /\ lo \in Nat
      BY <1>1, <1>2 DEF Pools
    <3> HIDE DEF p, lo
    <3>3. p \in Pools /\ p.lp = pool.lp /\ p.xlp = pool.xlp
      BY <1>2, <3>2 DEF Pools
    <3> QED BY <3>1, <3>3
  <2> QED BY <2>1, <2>2
<1> HIDE DEF q
<1>4. 0 =< f
  BY <1>2
<1>5. PICK l \in Nat, x \in Nat :
        /\ AddYield(q, l, x)
        /\ fees'.wallets + fees'.referral = (fees.wallets + fees.referral) + (l + x) + 0
  BY <1>1, <1>2, <1>4, TradingFeeSplits
<1>6. fees'.wallets + fees'.referral = (fees.wallets + fees.referral) + (l + x)
  <2>1. fees.wallets \in Nat /\ fees.referral \in Nat
    BY FeesType
  <2> QED BY <1>5, <2>1
<1> QED BY <1>1, <1>3, <1>5, <1>6, BackedByFees

\* What a cranker earns comes out of the crank fees.
LEMMA BackedByAllocate ==
  ASSUME PoolInv, PoolInv', BackedInv, NEW a \in Providers, NEW n \in Nat,
         AllocateCrankFees(a, n)
  PROVE  BackedInv'
<1> DEFINE c == CrankPayment(n)
           s == [Load(a) EXCEPT !.due = @ + c]
           h == HeldClaim(providers, yields, a)
           k == HeldClaim(providers', yields, a)
<1>1. /\ providers' = Save(providers, a, s)
      /\ fees' = [fees EXCEPT !.crank = @ - c, !.wallets = @ + c]
      /\ UNCHANGED <<now, yields, stray>>
  BY DEF AllocateCrankFees, feeVars
<1>2. /\ fees \in [wallets : Nat, protocol : Nat, crank : Nat, referral : Nat]
      /\ fees.wallets \in Nat /\ fees.referral \in Nat /\ fees.crank \in Nat
  BY FeesType
<1>3. c \in Nat
  <2>1. n * CrankReward \in Nat
    BY TimesMono, ConfigAssumption
  <2> QED BY <1>2, <2>1, MinOfTwo DEF CrankPayment
<1> HIDE DEF c
<1>4. /\ BooksInv /\ PrefixSums(yields) /\ now \in Nat /\ Len(yields) \in Nat
      /\ Books(providers, now, Len(yields)) /\ Books(providers', now, Len(yields))
  BY <1>1, YieldsArePrefixSums, YieldsType DEF PoolInv, BooksInv
<1>5. k =< h + c * One
  <2>1. Len(yields) =< Len(yields)
    BY <1>4
  <2>2. providers' = Save(providers, a, [Load(a) EXCEPT !.due = @ + c])
    BY <1>1
  <2> QED BY ONLY <1>3, <1>4, <2>1, <2>2, a \in Providers, RewardClaim
<1>6. h \in Nat /\ k \in Nat
  BY <1>4, ClaimsType
<1>7. -c \in Int /\ k + (-c) * One =< h
  <2>1. (-c) * One = -(c * One) /\ c * One \in Int
    BY <1>3, DecimalAssumption
  <2> HIDE DEF h, k
  <2> QED BY <1>3, <1>5, <1>6, <2>1
<1>8. fees'.wallets = fees.wallets + c /\ fees'.referral = fees.referral
  BY <1>1, <1>2
<1>9. fees'.wallets + fees'.referral = fees.wallets + fees.referral - (-c)
  BY <1>2, <1>3, <1>8
<1> HIDE DEF s
<1> QED BY <1>1, <1>7, <1>9, BackedBy

\* Everything the market does.
LEMMA BackedByMarket ==
  ASSUME PoolInv, PoolInv', BackedInv, Market
  PROVE  BackedInv'
<1>0. pool.locked \in Nat
  BY PoolFields DEF PoolInv, BooksInv
<1>1. ASSUME NEW f \in FeeAmounts, NEW c, NEW w \in Providers \cup {0},
             OpenPosition(f, c, w)
      PROVE  BackedInv'
  BY <1>1, BackedByOpen
<1>2. ASSUME NEW l \in FeeAmounts, NEW x \in FeeAmounts, NEW g \in Gains,
             NEW sign \in {-1, 1}, Liquifund(l, x, sign * g)
      PROVE  BackedInv'
  BY <1>2, BackedByLiquifund
<1>3. ASSUME NEW g \in Gains \cup {pool.locked}, NEW f \in FeeAmounts,
             NEW c \in {0, pool.locked - g}, ClosePosition(g, f, c)
      PROVE  BackedInv'
  <2>1. g \in Nat
    BY <1>0, AmountsAssumption
  <2>2. c \in Int
    BY <1>0, <2>1
  <2> QED BY <1>3, <2>1, <2>2, BackedByClose
<1>4. CASE AccumulateBorrowFeeRate
  BY <1>4, BackedStays DEF AccumulateBorrowFeeRate
<1>5. CASE TransferDaoFees
  <2>1. /\ fees' = [fees EXCEPT !.protocol = 0]
        /\ UNCHANGED <<providers, yields, stray>>
    BY <1>5 DEF TransferDaoFees, feeVars
  <2>2. fees'.wallets = fees.wallets /\ fees'.referral = fees.referral
    BY <2>1, FeesType
  <2> QED BY <2>1, <2>2, BackedStays
<1>6. ASSUME NEW x \in Deposits, ProvideCrankFunds(x) PROVE BackedInv'
  <2>1. /\ fees' = [fees EXCEPT !.crank = @ + x]
        /\ UNCHANGED <<providers, yields, stray>>
    BY <1>6 DEF ProvideCrankFunds, feeVars
  <2>2. fees'.wallets = fees.wallets /\ fees'.referral = fees.referral
    BY <2>1, FeesType
  <2> QED BY <2>1, <2>2, BackedStays
<1>7. ASSUME NEW a \in Providers, NEW n \in {1, 2}, AllocateCrankFees(a, n)
      PROVE  BackedInv'
  BY <1>7, BackedByAllocate
<1> QED BY <1>1, <1>2, <1>3, <1>4, <1>5, <1>6, <1>7 DEF Market

\* The end of a cooldown changes no claim.
LEMMA BackedByTick ==
  ASSUME PoolInv, BackedInv, Tick
  PROVE  BackedInv'
<1> DEFINE D == DOMAIN providers
<1>1. /\ DOMAIN providers' = D
      /\ \A a \in D : providers'[a] =
           IF providers[a].cooldownEnds =< now' THEN [providers[a] EXCEPT !.cooldownEnds = 0]
           ELSE providers[a]
      /\ UNCHANGED <<yields, fees, stray>>
  BY DEF Tick
<1>2. now \in Nat /\ Len(yields) \in Nat /\ Books(providers, now, Len(yields))
  BY YieldsType DEF PoolInv, BooksInv
<1>3. ASSUME NEW a \in D
      PROVE  ExactClaim(providers'[a], yields) = ExactClaim(providers[a], yields)
  <2>1. providers[a] \in Stats
    BY <1>2, RecordFields DEF Books
  <2>2. /\ providers'[a].lp = providers[a].lp /\ providers'[a].xlp = providers[a].xlp
        /\ providers'[a].due = providers[a].due
        /\ providers'[a].key = providers[a].key
        /\ providers'[a].unstaking = providers[a].unstaking
    BY <1>1, <2>1 DEF Stats
  <2> QED BY <2>2 DEF ExactClaim, EarningLp
<1>4. IsFiniteSet(D)
  BY <1>2, BooksFinite
<1>5. \A a \in D : ClaimsOf(providers', yields)[a] = ClaimsOf(providers, yields)[a]
  BY <1>1, <1>3 DEF ClaimsOf
<1>6. ClaimSum(providers', yields) = ClaimSum(providers, yields)
  BY <1>1, <1>4, <1>5, TotalSame DEF ClaimSum
<1>7. BackedInv' <=> stray * One + ClaimSum(providers', yields)
                       =< (fees.wallets + fees.referral) * One
  BY <1>1 DEF BackedInv
<1> QED BY <1>6, <1>7 DEF BackedInv

\* The reset leaves every provider what was accrued, rounded down.
LEMMA BackedByReset ==
  ASSUME PoolInv, PoolInv', BackedInv, CrankResetLpBalances
  PROVE  BackedInv'
<1>1. /\ reset # NotResetting /\ UNCHANGED <<now, fees, yields, stray>>
  BY DEF CrankResetLpBalances, feeVars
<1>2. CASE ToReset = {}
  <2>1. providers' = providers
    BY <1>2 DEF CrankResetLpBalances
  <2> QED BY <1>1, <2>1, BackedStays
<1>3. CASE ToReset # {}
  <2> DEFINE a == Min(ToReset)
             r == providers[a]
             s == Wiped(r)
  <2>1. providers' = Save(providers, a, s)
    BY <1>3 DEF CrankResetLpBalances
  <2>2. /\ BooksInv /\ YieldsOk /\ now \in Nat /\ Len(yields) \in Nat
        /\ Books(providers, now, Len(yields)) /\ Books(providers', now, Len(yields))
        /\ PrefixSums(yields)
    BY <1>1, YieldsType, YieldsArePrefixSums DEF PoolInv, BooksInv
  <2>3. a \in DOMAIN providers
    <3>1. ToReset \subseteq Nat
      BY <2>2, ProvidersAssumption DEF ToReset, Books, Providers
    <3>2. a \in ToReset
      BY <1>3, <3>1, MinOfNats
    <3> QED BY <3>2 DEF ToReset
  <2>4. RecordOk(r, now, Len(yields))
    BY <2>2, <2>3 DEF Books
  <2> HIDE DEF a
  <2>5. /\ RecordOk(s, now, Len(yields))
        /\ s.due = Accrue(r).due /\ s.key = Len(yields)
    <3> HIDE DEF r
    <3>1. /\ RecordOk(Accrue(r), now, Len(yields)) /\ Accrue(r) \in Stats
          /\ Accrue(r).key = Len(yields)
      BY <2>2, <2>4, AccrueOk, AccrueRoundsDown, RecordFields
    <3>2. Wiped(r).due = Accrue(r).due /\ Wiped(r).key = Accrue(r).key
      BY <3>1 DEF Wiped, Stats
    <3> QED BY <2>2, <2>4, <3>1, <3>2, WipedOk
  <2>6. Accrue(r).due * One =< ExactClaim(r, yields) /\ Accrue(r).due \in Nat
    BY <2>2, <2>4, AccrueRoundsDown
  <2>7. ExactClaim(s, yields) = s.due * One
    BY <2>2, <2>5, ClaimType
  <2>8. HeldClaim(providers, yields, a) = ExactClaim(r, yields)
    BY <2>3 DEF HeldClaim
  <2>9. ExactClaim(r, yields) \in Nat
    BY <2>2, <2>4, ClaimType
  <2> HIDE DEF r, s
  <2>10. HeldClaim(providers', yields, a) = IF IsEmpty(s) THEN 0 ELSE ExactClaim(s, yields)
    BY <2>1, <2>2, SaveClaims
  <2>11. s.due * One \in Nat
    BY <2>5, <2>6, TimesMono, DecimalAssumption
  <2>12. HeldClaim(providers', yields, a) + 0 * One =< HeldClaim(providers, yields, a)
    BY <2>5, <2>6, <2>7, <2>8, <2>9, <2>10, <2>11, DecimalAssumption
  <2>13. fees'.wallets + fees'.referral = fees.wallets + fees.referral - 0
    BY <1>1, FeesType
  <2> QED BY <1>1, <2>1, <2>12, <2>13, BackedBy
<1> QED BY <1>2, <1>3

\* BackedInv is inductive relative to PoolInv.
LEMMA BackedStep ==
  PoolInv /\ BackedInv /\ [Next]_vars => BackedInv'
<1> SUFFICES ASSUME PoolInv, BackedInv, [Next]_vars PROVE BackedInv'
  OBVIOUS
<1>1. PoolInv'
  BY PoolStep
<1>2. CASE Tick
  BY <1>2, BackedByTick
<1>3. ASSUME NEW a \in Providers, ProviderMsg(a) PROVE BackedInv'
  BY <1>1, <1>3, BackedByProvider
<1>4. CASE Market
  BY <1>1, <1>4, BackedByMarket
<1>5. CASE CrankResetLpBalances
  BY <1>1, <1>5, BackedByReset
<1>6. CASE UNCHANGED vars
  BY <1>6, BackedStays DEF vars
<1> QED BY <1>2, <1>3, <1>4, <1>5, <1>6 DEF Next

\* Nobody has claims at first.
LEMMA BackedInit ==
  Init => BackedInv
<1> SUFFICES ASSUME Init PROVE BackedInv
  OBVIOUS
<1>1. DOMAIN providers = {} /\ stray = 0 /\ fees.wallets = 0 /\ fees.referral = 0
  BY DEF Init
<1>2. ClaimSum(providers, yields) = 0
  BY <1>1, TotalZero, FS_EmptySet DEF ClaimSum
<1> QED BY <1>1, <1>2, DecimalAssumption DEF BackedInv

\* What all wallets could claim now, as a sum.
DuesOf == [a \in DOMAIN providers |-> Claimable(a)]

\* The sum of YieldBacked and ClaimsCovered.
LEMMA ClaimsAreASum ==
  ASSUME IsFiniteSet(DOMAIN providers)
  PROVE  MapThenSumSet(Claimable, DOMAIN providers) = Total(DuesOf, DOMAIN providers)
<1> DEFINE D == DOMAIN providers
           DueSums(h) ==
             h = [s \in SUBSET D |->
                    IF s = {} THEN 0
                    ELSE LET x == CHOOSE x \in s : TRUE IN Claimable(x) + h[s \ {x}]]
<1>1. MapThenSumSet(Claimable, D) = (CHOOSE h : DueSums(h))[D]
  BY DEF MapThenSumSet, MapThenFoldSet
<1>2. ASSUME NEW h PROVE DueSums(h) <=> Sums(h, DuesOf, D)
  <2>1. \A s \in SUBSET D : s # {} => (CHOOSE x \in s : TRUE) \in D
    OBVIOUS
  <2>2. \A s \in SUBSET D : s # {} =>
          DuesOf[CHOOSE x \in s : TRUE] = Claimable(CHOOSE x \in s : TRUE)
    BY <2>1 DEF DuesOf
  <2> QED BY <2>2 DEF Sums
<1> HIDE DEF DueSums
<1>3. PICK g : Sums(g, DuesOf, D) /\ Total(DuesOf, D) = g[D]
  BY SumsExist, TotalDef
<1>4. DueSums(CHOOSE h : DueSums(h))
  BY <1>2, <1>3
<1>5. Sums(CHOOSE h : DueSums(h), DuesOf, D)
  BY <1>2, <1>4
<1>6. (CHOOSE h : DueSums(h))[D] = g[D]
  BY <1>3, <1>5, SumsAgree
<1> QED BY <1>1, <1>3, <1>6

\* The exact claims are covered, so the rounded ones are.
LEMMA BackedInvImplies ==
  ASSUME PoolInv, BackedInv
  PROVE  fees.wallets + fees.referral
           >= stray + MapThenSumSet(Claimable, DOMAIN providers)
<1> DEFINE D == DOMAIN providers
           w == fees.wallets + fees.referral
           t == Total(DuesOf, D)
           c == ClaimSum(providers, yields)
<1>1. /\ YieldsOk /\ PrefixSums(yields) /\ now \in Nat /\ Len(yields) \in Nat
      /\ Books(providers, now, Len(yields)) /\ stray \in Nat
  BY YieldsArePrefixSums, YieldsType DEF PoolInv, BooksInv, FeesInv
<1>2. IsFiniteSet(D) /\ c \in Nat
  BY <1>1, BooksFinite, ClaimsType
<1>3. ASSUME NEW a \in D
      PROVE  /\ DuesOf[a] \in Nat /\ ClaimsOf(providers, yields)[a] \in Nat
             /\ DuesOf[a] * One =< ClaimsOf(providers, yields)[a]
  <2>1. RecordOk(providers[a], now, Len(yields))
    BY <1>1 DEF Books
  <2>2. /\ Accrue(providers[a]).due \in Nat
        /\ Accrue(providers[a]).due * One =< ExactClaim(providers[a], yields)
    BY <1>1, <2>1, AccrueRoundsDown
  <2>3. ExactClaim(providers[a], yields) \in Nat
    BY <1>1, <2>1, ClaimType
  <2>4. /\ DuesOf[a] = Accrue(providers[a]).due
        /\ ClaimsOf(providers, yields)[a] = ExactClaim(providers[a], yields)
    BY DEF DuesOf, Claimable, ClaimsOf
  <2> QED BY <2>2, <2>3, <2>4
<1>4. t * One =< c /\ t \in Nat
  <2>1. One \in Nat
    BY DecimalAssumption
  <2>2. Total(DuesOf, D) * One =< Total(ClaimsOf(providers, yields), D)
    BY <1>2, <1>3, <2>1, TotalLess
  <2>3. Total(DuesOf, D) \in Nat
    BY <1>2, <1>3, TotalType
  <2> QED BY <2>2, <2>3 DEF ClaimSum
<1>5. stray * One + c =< w * One /\ w \in Nat
  BY FeesType DEF BackedInv
<1>6. MapThenSumSet(Claimable, D) = t
  BY <1>2, ClaimsAreASum
<1> HIDE DEF w, t, c
<1>7. (stray + t) * One =< w * One
  <2>1. (stray + t) * One = stray * One + t * One
    BY <1>1, <1>4, DecimalAssumption
  <2>2. stray * One \in Int /\ t * One \in Int /\ w * One \in Int
    BY <1>1, <1>4, <1>5, DecimalAssumption
  <2> QED BY <1>2, <1>4, <1>5, <2>1, <2>2
<1>8. stray + t \in Nat
  BY <1>1, <1>4
<1>9. stray + t =< w
  BY <1>5, <1>7, <1>8, TimesLess, DecimalAssumption
<1> QED BY <1>1, <1>4, <1>5, <1>6, <1>9 DEF w

\* Nothing is kept for referrers when their part of the fees is nothing.
LEMMA NoReferralStep ==
  ASSUME ReferralRatio = 0, PoolInv, fees.referral = 0, [Next]_vars
  PROVE  fees'.referral = 0
<1>1. fees \in [wallets : Nat, protocol : Nat, crank : Nat, referral : Nat]
  BY FeesType
<1>2. ASSUME NEW p, NEW f, TradingFee(p, f, 0) PROVE fees'.referral = 0
  BY <1>1, <1>2 DEF TradingFee
<1>3. ASSUME NEW f \in FeeAmounts, NEW c, NEW w \in Providers \cup {0},
             OpenPosition(f, c, w)
      PROVE  fees'.referral = 0
  <2>1. f \in Nat
    BY AmountsAssumption
  <2>2. Mul(f, ReferralRatio) = 0
    <3>1. Mul(f, ReferralRatio) = (f * ReferralRatio) \div One
      BY DEF Mul
    <3>2. f * ReferralRatio = 0
      BY <2>1
    <3>3. 0 \div One = 0
      BY DecimalAssumption
    <3> QED BY <3>1, <3>2, <3>3
  <2>3. TradingFee(pool, f, 0)
    BY <1>3, <2>2 DEF OpenPosition
  <2> QED BY <1>2, <2>3
<1>4. ASSUME NEW g, NEW f, NEW c, ClosePosition(g, f, c) PROVE fees'.referral = 0
  BY <1>2, <1>4 DEF ClosePosition
<1>5. ASSUME NEW a \in Providers, ProviderMsg(a) PROVE fees'.referral = 0
  <2>1. ASSUME NEW x, fees' = [fees EXCEPT !.wallets = x] PROVE fees'.referral = 0
    BY <1>1, <2>1
  <2>2. ASSUME NEW x, NEW stake, DepositLiquidity(a, x, stake) PROVE fees'.referral = 0
    BY <2>2 DEF DepositLiquidity
  <2>3. CASE ClaimYield(a)
    BY <1>1, <2>3 DEF ClaimYield
  <2>4. ASSUME NEW x, NEW stake, ReinvestYield(a, x, stake) PROVE fees'.referral = 0
    BY <1>1, <2>4 DEF ReinvestYield
  <2>5. ASSUME NEW l, NEW claim, WithdrawLiquidity(a, l, claim) PROVE fees'.referral = 0
    BY <1>1, <2>5 DEF WithdrawLiquidity
  <2>6. ASSUME NEW l, StakeLp(a, l) \/ UnstakeXlp(a, l) PROVE fees'.referral = 0
    BY <2>6 DEF StakeLp, UnstakeXlp
  <2>7. CASE StopUnstakingXlp(a) \/ CollectUnstakedLp(a)
    BY <2>7 DEF StopUnstakingXlp, CollectUnstakedLp
  <2>8. ASSUME NEW b, NEW class, NEW l, TransferToken(a, b, class, l)
        PROVE  fees'.referral = 0
    BY <2>8 DEF TransferToken
  <2> QED BY <1>5, <2>2, <2>3, <2>4, <2>5, <2>6, <2>7, <2>8 DEF ProviderMsg
<1>6. ASSUME NEW l, NEW x, NEW d, Liquifund(l, x, d) PROVE fees'.referral = 0
  BY <1>1, <1>6 DEF Liquifund
<1>7. ASSUME AccumulateBorrowFeeRate \/ TransferDaoFees
             \/ (\E x \in Deposits : ProvideCrankFunds(x))
             \/ (\E a \in Providers, n \in {1, 2} : AllocateCrankFees(a, n))
      PROVE  fees'.referral = 0
  BY <1>1, <1>7 DEF AccumulateBorrowFeeRate, TransferDaoFees, ProvideCrankFunds,
                    AllocateCrankFees
<1>8. CASE Market
  BY <1>3, <1>4, <1>6, <1>7, <1>8 DEF Market
<1>9. CASE Tick \/ CrankResetLpBalances \/ UNCHANGED vars
  BY <1>9 DEF Tick, CrankResetLpBalances, vars
<1> QED BY <1>5, <1>8, <1>9 DEF Next

------------------------------------------------------------------------------
(* Proofs: no step lowers the value of a token.                            *)

\* Collateral per token, without a division.
ValueKept ==
  pool'.locked = pool.locked =>
    TotalCollateral(pool') * TotalTokens(pool) >= TotalCollateral(pool) * TotalTokens(pool')

\* Neither collateral nor tokens change.
LEMMA KeptBySame ==
  ASSUME PoolInv, TotalCollateral(pool') = TotalCollateral(pool),
         TotalTokens(pool') = TotalTokens(pool)
  PROVE  ValueKept
<1>1. TotalCollateral(pool) \in Nat /\ TotalTokens(pool) \in Nat
  BY PoolFields DEF PoolInv, BooksInv
<1>2. TotalCollateral(pool) * TotalTokens(pool) \in Nat
  BY <1>1, TimesMono
<1> QED BY <1>2 DEF ValueKept

\* The totals are stored, or voided when no collateral is left.
LEMMA KeptBySave ==
  ASSUME PoolInv, NEW p, SaveStats(p),
         TotalCollateral(p) * TotalTokens(pool) >= TotalCollateral(pool) * TotalTokens(p)
  PROVE  ValueKept
<1>1. TotalCollateral(pool) \in Nat /\ TotalTokens(pool) \in Nat
  BY PoolFields DEF PoolInv, BooksInv
<1>2. CASE pool' = p
  BY <1>2 DEF ValueKept
<1>3. CASE pool' = EmptyPool
  <2>1. TotalCollateral(pool') = 0 /\ TotalTokens(pool') = 0
    BY <1>3 DEF EmptyPool, TotalCollateral, TotalTokens
  <2>2. 0 * TotalTokens(pool) = 0 /\ TotalCollateral(pool) * 0 = 0
    BY <1>1
  <2> QED BY <2>1, <2>2 DEF ValueKept
<1> QED BY <1>2, <1>3, StatsAreSaved DEF StatsSaved

\* Tokens change their class.
LEMMA KeptByMove ==
  ASSUME PoolInv, NEW x \in Int, NEW p, p = [pool EXCEPT !.lp = @ - x, !.xlp = @ + x],
         SaveStats(p)
  PROVE  ValueKept
<1>1. /\ pool \in Pools /\ pool.lp \in Nat /\ pool.xlp \in Nat
      /\ pool.locked \in Nat /\ pool.unlocked \in Nat
      /\ TotalCollateral(pool) \in Nat /\ TotalTokens(pool) \in Nat
  BY PoolFields DEF PoolInv, BooksInv
<1>2. /\ p.locked = pool.locked /\ p.unlocked = pool.unlocked
      /\ p.lp = pool.lp - x /\ p.xlp = pool.xlp + x
  BY <1>1 DEF Pools
<1>3. TotalCollateral(p) = TotalCollateral(pool)
  BY <1>2 DEF TotalCollateral
<1>4. TotalTokens(p) = TotalTokens(pool)
  BY <1>1, <1>2 DEF TotalTokens
<1>5. TotalCollateral(pool) * TotalTokens(pool) \in Nat
  BY <1>1, TimesMono
<1> QED BY <1>3, <1>4, <1>5, KeptBySave

\* New tokens are worth no more than the collateral deposited for them.
LEMMA KeptByDeposit ==
  ASSUME PoolInv, NEW a, NEW r, NEW x \in Nat, NEW stake \in BOOLEAN, NEW cooldown,
         DepositInner(a, r, x, stake, cooldown)
  PROVE  ValueKept
<1> DEFINE n == CollateralToLp(pool, x)
           c == TotalCollateral(pool)
           t == TotalTokens(pool)
           p == [pool EXCEPT !.unlocked = @ + x,
                             !.lp = IF stake THEN @ ELSE @ + n,
                             !.xlp = IF stake THEN @ + n ELSE @]
<1>1. SaveStats(p)
  BY DEF DepositInner
<1>2. /\ pool \in Pools /\ pool.lp \in Nat /\ pool.xlp \in Nat
      /\ pool.locked \in Nat /\ pool.unlocked \in Nat
      /\ c \in Nat /\ t \in Nat
  BY PoolFields DEF PoolInv, BooksInv
<1>3. n \in Nat
  BY <1>2, CollateralToLpType
<1>4. c * n =< t * x
  <2>1. CASE c = 0
    <3>1. c * n = 0 /\ t * x \in Nat
      BY <1>2, <1>3, <2>1, TimesMono
    <3> QED BY <3>1
  <2>2. CASE c # 0
    <3> DEFINE m == Mul(t, x)
    <3>1. n = Div(m, c)
      BY <2>2 DEF CollateralToLp
    <3>2. m \in Nat /\ m * One =< t * x
      BY <1>2, MulType
    <3> HIDE DEF m, n, c, t
    <3>3. Div(m, c) * c =< m * One
      BY <1>2, <2>2, <3>2, DivType
    <3>4. c * n = n * c
      BY <1>2, <1>3
    <3>5. n * c \in Nat /\ m * One \in Nat /\ t * x \in Nat
      BY <1>2, <1>3, <3>2, TimesMono, DecimalAssumption
    <3> QED BY <3>1, <3>2, <3>3, <3>4, <3>5
  <2> QED BY <2>1, <2>2
<1> HIDE DEF n
<1>5. /\ p.locked = pool.locked /\ p.unlocked = pool.unlocked + x
      /\ p.lp = (IF stake THEN pool.lp ELSE pool.lp + n)
      /\ p.xlp = (IF stake THEN pool.xlp + n ELSE pool.xlp)
  BY <1>2 DEF Pools
<1>6. TotalCollateral(p) = c + x
  BY <1>2, <1>5 DEF TotalCollateral
<1>7. TotalTokens(p) = t + n
  <2> HIDE DEF p
  <2> QED BY <1>2, <1>3, <1>5 DEF TotalTokens
<1> HIDE DEF c, t, p
<1>8. (c + x) * t = c * t + t * x /\ c * (t + n) = c * t + c * n
  BY <1>2, <1>3
<1>9. c * t \in Nat /\ t * x \in Nat /\ c * n \in Nat
  BY <1>2, <1>3, TimesMono
<1>10. TotalCollateral(p) * t >= c * TotalTokens(p)
  BY <1>4, <1>6, <1>7, <1>8, <1>9
<1> QED BY <1>1, <1>10, KeptBySave DEF c, t

\* Burnt tokens were worth no less than the collateral paid out for them.
LEMMA KeptByWithdrawal ==
  ASSUME PoolInv, NEW a \in Providers, NEW l, NEW claim \in BOOLEAN,
         WithdrawLiquidity(a, l, claim)
  PROVE  ValueKept
<1> DEFINE x == LpToCollateral(pool, l)
           c == TotalCollateral(pool)
           t == TotalTokens(pool)
           p == Burn(pool, l, x)
           r == BookKept(a)
<1>1. /\ reset = NotResetting /\ l \in 1..r.lp /\ x =< pool.unlocked
      /\ IF TotalTokens(p) = 0 THEN SaveStats(EmptyPool) ELSE SaveStats(p)
  BY DEF WithdrawLiquidity, Provider
<1>2. /\ pool \in Pools /\ pool.lp \in Nat /\ pool.xlp \in Nat
      /\ pool.locked \in Nat /\ pool.unlocked \in Nat
      /\ c \in Nat /\ t \in Nat
  BY PoolFields DEF PoolInv, BooksInv
<1>3. /\ BooksInv /\ RecordOk(r, now, Len(yields))
      /\ EarningLp(r) = HeldLp(providers, a) /\ r.xlp = HeldXlp(providers, a)
  BY <1>1, CallStarts
<1> HIDE DEF r
<1>4. r.lp \in Nat /\ r.lp =< pool.lp
  <2>1. r.lp =< EarningLp(r) /\ EarningLp(r) =< pool.lp /\ r.lp \in Nat /\ EarningLp(r) \in Nat
    BY <1>1, <1>3, PartOfPool
  <2> QED BY <1>2, <2>1
<1>5. l \in Nat \ {0} /\ l =< pool.lp /\ t # 0
  BY <1>1, <1>2, <1>4 DEF TotalTokens
<1>6. x \in Nat /\ x * t =< c * l
  <2> DEFINE m == Mul(c, l)
  <2>1. x = Div(m, t)
    BY DEF LpToCollateral
  <2> HIDE DEF x, c, t
  <2>2. m \in Nat /\ m * One =< c * l
    BY <1>2, <1>5, MulType
  <2> HIDE DEF m
  <2>3. Div(m, t) \in Nat /\ Div(m, t) * t =< m * One
    BY <1>2, <1>5, <2>2, DivType
  <2>4. Div(m, t) * t \in Nat /\ m * One \in Nat /\ c * l \in Nat
    BY <1>2, <1>5, <2>2, <2>3, TimesMono, DecimalAssumption
  <2> QED BY <2>1, <2>2, <2>3, <2>4
<1> HIDE DEF x
<1>7. /\ p.locked = pool.locked /\ p.unlocked = pool.unlocked - x
      /\ p.lp = pool.lp - l /\ p.xlp = pool.xlp
  BY <1>2 DEF Burn, Pools
<1>8. TotalCollateral(p) = c - x /\ TotalTokens(p) = t - l
  <2> HIDE DEF p
  <2>1. TotalCollateral(p) = c - x
    BY <1>2, <1>6, <1>7 DEF TotalCollateral
  <2>2. TotalTokens(p) = t - l
    BY <1>2, <1>5, <1>7 DEF TotalTokens
  <2> QED BY <2>1, <2>2
<1> HIDE DEF c, t, p
<1>9. (c - x) * t = c * t - x * t /\ c * (t - l) = c * t - c * l
  BY <1>2, <1>5, <1>6
<1>10. c * t \in Int /\ x * t \in Int /\ c * l \in Int
  BY <1>2, <1>5, <1>6
<1>11. TotalCollateral(p) * t >= c * TotalTokens(p)
  BY <1>6, <1>8, <1>9, <1>10
<1>12. CASE TotalTokens(p) = 0
  <2>1. SaveStats(EmptyPool)
    BY <1>1, <1>12
  <2>2. TotalCollateral(EmptyPool) = 0 /\ TotalTokens(EmptyPool) = 0
    BY DEF EmptyPool, TotalCollateral, TotalTokens
  <2>3. 0 * t >= c * 0
    BY <1>2
  <2> QED BY <2>1, <2>2, <2>3, KeptBySave DEF c, t
<1>13. CASE TotalTokens(p) # 0
  <2>1. SaveStats(p)
    BY <1>1, <1>13
  <2> QED BY <1>11, <2>1, KeptBySave DEF c, t
<1> QED BY <1>12, <1>13

\* A position moves locked collateral, or nothing.
LEMMA KeptByLock ==
  ASSUME PoolInv, NEW p, SaveStats(p), p.locked # pool.locked \/ p = pool
  PROVE  ValueKept
<1>1. TotalCollateral(pool) \in Nat /\ TotalTokens(pool) \in Nat
  BY PoolFields DEF PoolInv, BooksInv
<1>2. CASE p = pool
  <2>1. TotalCollateral(pool) * TotalTokens(pool) \in Nat
    BY <1>1, TimesMono
  <2> QED BY <1>2, <2>1, KeptBySave
<1>3. CASE p.locked # pool.locked
  <2>1. CASE pool' = p
    BY <1>3, <2>1 DEF ValueKept
  <2>2. CASE pool' = EmptyPool
    <3>1. TotalCollateral(pool') = 0 /\ TotalTokens(pool') = 0
      BY <2>2 DEF EmptyPool, TotalCollateral, TotalTokens
    <3>2. 0 * TotalTokens(pool) = 0 /\ TotalCollateral(pool) * 0 = 0
      BY <1>1
    <3> QED BY <3>1, <3>2 DEF ValueKept
  <2> QED BY <2>1, <2>2, StatsAreSaved DEF StatsSaved
<1> QED BY <1>2, <1>3

\* All messages of providers.
LEMMA KeptByProvider ==
  ASSUME PoolInv, NEW a \in Providers, ProviderMsg(a)
  PROVE  ValueKept
<1>0. /\ pool \in Pools /\ pool.lp \in Nat /\ pool.xlp \in Nat
  BY PoolFields DEF PoolInv, BooksInv
<1>1. ASSUME NEW x \in Deposits, NEW stake \in BOOLEAN, DepositLiquidity(a, x, stake)
      PROVE  ValueKept
  <2>1. x \in Nat /\ DepositInner(a, BookKept(a), x, stake, ~stake)
    BY <1>1, AmountsAssumption DEF DepositLiquidity
  <2> QED BY <2>1, KeptByDeposit
<1>2. CASE UNCHANGED pool
  BY <1>2, KeptBySame
<1>3. ASSUME NEW x \in Amount(BookKept(a).due), NEW stake \in BOOLEAN,
             ReinvestYield(a, x, stake)
      PROVE  ValueKept
  <2>1. /\ reset = NotResetting
        /\ DepositInner(a, Claimed(BookKept(a)), x, stake, FALSE)
    BY <1>3 DEF ReinvestYield, Provider
  <2>2. BookKept(a).due \in Nat
    BY <2>1, CallStarts, RecordFields
  <2>3. x \in Nat
    BY <2>2, AmountsAssumption DEF Amount
  <2> QED BY <2>1, <2>3, KeptByDeposit
<1>4. ASSUME NEW l, NEW claim \in BOOLEAN, WithdrawLiquidity(a, l, claim)
      PROVE  ValueKept
  BY <1>4, KeptByWithdrawal
<1>5. ASSUME NEW l, StakeLp(a, l) PROVE ValueKept
  <2>1. /\ l \in 1..BookKept(a).lp
        /\ SaveStats([pool EXCEPT !.lp = @ - l, !.xlp = @ + l])
    BY <1>5 DEF StakeLp
  <2>2. l \in Int
    BY <2>1
  <2> QED BY <2>1, <2>2, KeptByMove
<1>6. ASSUME reset = NotResetting
      PROVE  BookKept(a).unstaking.xlp - BookKept(a).unstaking.collected \in Nat
  BY <1>6, CallStarts, EarningType
<1>7. ASSUME NEW l, UnstakeXlp(a, l) PROVE ValueKept
  <2> DEFINE back == BookKept(a).unstaking.xlp - BookKept(a).unstaking.collected
             x == back - l
  <2>1. /\ reset = NotResetting /\ l \in 1..Stopped(BookKept(a)).xlp
        /\ SaveStats([pool EXCEPT !.lp = @ - back + l, !.xlp = @ + back - l])
    BY <1>7 DEF UnstakeXlp, Provider
  <2>2. back \in Nat /\ l \in Int
    BY <1>6, <2>1
  <2> HIDE DEF back
  <2>3. pool.lp - back + l = pool.lp - x /\ pool.xlp + back - l = pool.xlp + x
    BY <1>0, <2>2
  <2>4. [pool EXCEPT !.lp = @ - back + l, !.xlp = @ + back - l]
          = [pool EXCEPT !.lp = @ - x, !.xlp = @ + x]
    <3> HIDE DEF x
    <3> QED BY <1>0, <2>3 DEF Pools
  <2>5. x \in Int
    BY <2>2
  <2> HIDE DEF x
  <2> QED BY <2>1, <2>4, <2>5, KeptByMove
<1>8. CASE StopUnstakingXlp(a)
  <2> DEFINE back == BookKept(a).unstaking.xlp - BookKept(a).unstaking.collected
  <2>1. /\ reset = NotResetting
        /\ SaveStats([pool EXCEPT !.lp = @ - back, !.xlp = @ + back])
    BY <1>8 DEF StopUnstakingXlp, Provider
  <2>2. back \in Int
    BY <1>6, <2>1
  <2> HIDE DEF back
  <2> QED BY <2>1, <2>2, KeptByMove
<1>9. CASE ClaimYield(a) \/ CollectUnstakedLp(a)
  BY <1>2, <1>9 DEF ClaimYield, CollectUnstakedLp
<1>10. ASSUME NEW b, NEW class, NEW l, TransferToken(a, b, class, l) PROVE ValueKept
  BY <1>2, <1>10 DEF TransferToken
<1> QED BY <1>1, <1>3, <1>4, <1>5, <1>7, <1>8, <1>9, <1>10 DEF ProviderMsg

\* Everything the market does.
LEMMA KeptByMarket ==
  ASSUME PoolInv, Market
  PROVE  ValueKept
<1>0. pool \in Pools /\ pool.locked \in Nat /\ pool.unlocked \in Nat
  BY PoolFields DEF PoolInv, BooksInv
<1>1. ASSUME NEW f, NEW c, NEW w, OpenPosition(f, c, w) PROVE ValueKept
  <2> DEFINE p == [pool EXCEPT !.locked = @ + c, !.unlocked = @ - c]
  <2>1. c \in 1..pool.unlocked /\ SaveStats(p)
    BY <1>1 DEF OpenPosition
  <2>2. p.locked = pool.locked + c
    BY <1>0 DEF Pools
  <2> HIDE DEF p
  <2>3. p.locked # pool.locked
    BY <1>0, <2>1, <2>2
  <2> QED BY <2>1, <2>3, KeptByLock
<1>2. ASSUME NEW l, NEW x, NEW d \in Int, Liquifund(l, x, d) PROVE ValueKept
  <2> DEFINE p == [pool EXCEPT !.locked = @ + d]
  <2>1. SaveStats(p)
    BY <1>2 DEF Liquifund
  <2>2. p = [pool EXCEPT !.locked = pool.locked + d] /\ p.locked = pool.locked + d
    BY <1>0 DEF Pools
  <2>3. d = 0 => p = pool
    <3> SUFFICES ASSUME d = 0 PROVE p = pool
      OBVIOUS
    <3>1. pool.locked + d = pool.locked
      BY <1>0
    <3> HIDE DEF p
    <3> QED BY <1>0, <2>2, <3>1 DEF Pools
  <2> HIDE DEF p
  <2>4. d # 0 => p.locked # pool.locked
    BY <1>0, <2>2
  <2> QED BY <2>1, <2>3, <2>4, KeptByLock
<1>3. ASSUME NEW g \in Nat, NEW f, NEW c \in Int, ClosePosition(g, f, c) PROVE ValueKept
  <2> DEFINE p == [pool EXCEPT !.locked = @ - g]
             s == [p EXCEPT !.locked = @ - c, !.unlocked = @ + c]
  <2>1. g + c \in 1..pool.locked /\ SaveStats(s)
    BY <1>3 DEF ClosePosition
  <2>2. s.locked = (pool.locked - g) - c
    BY <1>0 DEF Pools
  <2> HIDE DEF s
  <2>3. s.locked # pool.locked
    BY <1>0, <2>1, <2>2
  <2> QED BY <2>1, <2>3, KeptByLock
<1>4. ASSUME NEW g \in Gains \cup {pool.locked}, NEW f, NEW c \in {0, pool.locked - g},
             ClosePosition(g, f, c)
      PROVE  ValueKept
  <2>1. g \in Nat
    BY <1>0, AmountsAssumption
  <2>2. c \in Int
    BY <1>0, <2>1
  <2> QED BY <1>3, <1>4, <2>1, <2>2
<1>5. ASSUME NEW l, NEW x, NEW g \in Gains, NEW sign \in {-1, 1}, Liquifund(l, x, sign * g)
      PROVE  ValueKept
  <2>1. sign * g \in Int
    BY AmountsAssumption
  <2> QED BY <1>2, <1>5, <2>1
<1>6. CASE UNCHANGED pool
  BY <1>6, KeptBySame
<1>7. CASE \/ AccumulateBorrowFeeRate \/ TransferDaoFees
           \/ \E x \in Deposits : ProvideCrankFunds(x)
           \/ \E a \in Providers, n \in {1, 2} : AllocateCrankFees(a, n)
  BY <1>6, <1>7 DEF AccumulateBorrowFeeRate, TransferDaoFees, ProvideCrankFunds,
                    AllocateCrankFees
<1> QED BY <1>1, <1>4, <1>5, <1>7 DEF Market

\* No step lowers the value of a token.
LEMMA ValueKeptStep ==
  PoolInv /\ [Next]_vars => ValueKept
<1> SUFFICES ASSUME PoolInv, [Next]_vars PROVE ValueKept
  OBVIOUS
<1>1. CASE UNCHANGED pool
  BY <1>1, KeptBySame
<1>2. CASE Tick \/ CrankResetLpBalances
  BY <1>1, <1>2 DEF Tick, CrankResetLpBalances
<1> QED BY <1>1, <1>2, KeptByProvider, KeptByMarket DEF Next, vars

------------------------------------------------------------------------------
(* Theorems.                                                               *)

\* The records, totals, prefix sums and fees have their types in every
\* reachable state; so no subtraction of the pool's code underflows.
THEOREM PoolTypeCorrect == Spec => []TypeOK
<1>1. PoolInv => TypeOK
  BY PoolInvImplies
<1> QED BY <1>1, PoolInit, PoolStep, PTL DEF Spec

\* The totals of LIQUIDITY_STATS are the sums of the tokens in all records of
\* LIQUIDITY_STATS_BY_ADDR, whatever is deposited, staked, unstaked, collected,
\* transferred and withdrawn in whatever order; a reset leaves nobody with
\* tokens of the drained pool.
THEOREM TokensAddUp == Spec => []SharesAddUp
<1>1. PoolInv => SharesAddUp
  BY PoolInvImplies
<1> QED BY <1>1, PoolInit, PoolStep, PTL DEF Spec

\* However often a provider collects, calculate_unstaked_lp hands out no more
\* than the time that has passed allows, and never more than was unstaked.
THEOREM UnstakingIsLinear == Spec => []UnstakesLinearly
<1>1. PoolInv => UnstakesLinearly
  BY PoolInvImplies
<1> QED BY <1>1, PoolInit, PoolStep, PTL DEF Spec

\* The tokens the market holds (token_balance of sanity.rs) cover the collateral
\* of LIQUIDITY_STATS and all of ALL_FEES, after every deposit, withdrawal,
\* claim, fee, gain or loss of a trader, reset, and transfer to the DAO.
THEOREM Solvency == Spec => []Solvent
<1>1. Init => Solvent
  BY DEF Init, Solvent, TotalCollateral, EmptyPool
<1> QED BY <1>1, PoolInit, PoolStep, SolventStep, PTL DEF Spec

\* The wallets' fees of ALL_FEES fall short of the claims by no more than the
\* referral rewards, which collect_trading_fee_inner credits to the referrer but
\* counts apart from them: the prefix sums, however often and in whatever order
\* they are evaluated and rounded, never promise more than was collected.
THEOREM ClaimsAreCovered == Spec => []ClaimsCovered
<1>1. PoolInv /\ BackedInv => ClaimsCovered
  BY BackedInvImplies DEF ClaimsCovered
<1> QED BY <1>1, PoolInit, PoolStep, BackedInit, BackedStep, PTL DEF Spec

NoReferralFees == fees.referral = 0

\* Without referral rewards no claim fails for lack of wallets' fees
\* (register_lp_claimed_yield), and nobody is paid from the fees of a class of
\* tokens that nobody held.
THEOREM YieldIsBacked == ReferralRatio = 0 => (Spec => []YieldBacked)
<1> SUFFICES ASSUME ReferralRatio = 0 PROVE Spec => []YieldBacked
  OBVIOUS
<1>1. PoolInv /\ BackedInv /\ NoReferralFees => YieldBacked
  <2> SUFFICES ASSUME PoolInv, BackedInv, NoReferralFees PROVE YieldBacked
    OBVIOUS
  <2>1. fees.wallets + fees.referral
          >= stray + MapThenSumSet(Claimable, DOMAIN providers)
    BY BackedInvImplies
  <2>2. fees.wallets + fees.referral = fees.wallets
    BY FeesType DEF NoReferralFees
  <2> QED BY <2>1, <2>2 DEF YieldBacked
<1>2. Init => NoReferralFees
  BY DEF Init, NoReferralFees
<1>3. PoolInv /\ NoReferralFees /\ [Next]_vars => NoReferralFees'
  BY NoReferralStep DEF NoReferralFees
<1> QED
  BY <1>1, <1>2, <1>3, PoolInit, PoolStep, BackedInit, BackedStep, PTL DEF Spec

\* Without referral rewards the pool is backed whatever is deposited, earned,
\* claimed, lost and reset: its totals are those of its providers, and the tokens
\* held cover the collateral and all fees, the claims among them.
THEOREM PoolIsBacked == ReferralRatio = 0 => (Spec => []PoolBacked)
<1> SUFFICES ASSUME ReferralRatio = 0 PROVE Spec => []PoolBacked
  OBVIOUS
<1>1. Spec => []YieldBacked
  BY YieldIsBacked
<1>2. SharesAddUp /\ Solvent /\ YieldBacked => PoolBacked
  BY DEF PoolBacked
<1> QED BY <1>1, <1>2, TokensAddUp, Solvency, PTL

\* Deposits, withdrawals, claims and fees round against who makes them: unless a
\* position's settlement changes the locked collateral, no step lowers the
\* collateral behind a token, so nobody takes from the providers who stay.
THEOREM ValueOfTokens == Spec => NoDilution
<1>1. PoolInv /\ [Next]_vars =>
        [pool.locked' = pool.locked =>
           TotalCollateral(pool)' * TotalTokens(pool)
             >= TotalCollateral(pool) * TotalTokens(pool)']_vars
  BY ValueKeptStep DEF ValueKept
<1> QED BY <1>1, PoolInit, PoolStep, PTL DEF Spec, NoDilution

=============================================================================
