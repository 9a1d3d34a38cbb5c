----------------------------- MODULE JamTapProofs -----------------------------
(***************************************************************************)
(* The player knows the state of a chain it cannot see, and its scans do   *)
(* what the program asked, for registers, paddings and data of any length  *)
(* and programs of any number of statements.                               *)
(***************************************************************************)
EXTENDS JamTap, SequenceTheorems, WellFoundedInduction, TLAPS

TapStates == 0..15
Bits == {0, 1}
Chains == [tap : TapStates,
           dr : [1..Len(DRCapture) -> Bits], ir : [1..Len(IRCapture) -> Bits],
           drLatch : [1..Len(DRCapture) -> Bits], irLatch : [1..Len(IRCapture) -> Bits]]

-------------------------------------------------------------------------------
(***************************************************************************)
(* The recursive functions: they are what they look like.                  *)
(***************************************************************************)
\* Induction with a set in the place of a predicate.
LEMMA SetInduction ==
  ASSUME NEW S \in SUBSET Nat, 0 \in S, \A n \in S : n + 1 \in S
  PROVE  S = Nat
<1> SUFFICES ASSUME Nat \ S # {} PROVE FALSE
  OBVIOUS
<1>1. PICK m \in Nat \ S : \A k \in Nat \ S : ~(<<k, m>> \in OpToRel(<, Nat))
  BY WFMin, NatLessThanWellFounded
<1>2. m \in Nat /\ m \notin S /\ m # 0 /\ m - 1 \in Nat
  <2>1. m \in Nat /\ m \notin S /\ m # 0
    OBVIOUS
  <2> QED
    BY <2>1
<1>3. m - 1 \notin S
  <2>1. m - 1 \in S => (m - 1) + 1 \in S
    OBVIOUS
  <2>2. (m - 1) + 1 = m
    BY <1>2
  <2> QED
    BY <1>2, <2>1, <2>2
<1>4. <<m - 1, m>> \in OpToRel(<, Nat)
  BY <1>2 DEF OpToRel
<1> QED
  BY <1>1, <1>2, <1>3, <1>4

\* The definition in Clocks.
IsWalk(f, c, tms, n) ==
    f = [i \in 0..n |-> IF i = 0 THEN c ELSE ClockChain(f[i - 1], tms[i], 0)]

\* What it means: f follows the clocks tms from c on, n of them.
Follows(f, c, tms, n) ==
    /\ f[0] = c
    /\ \A i \in 1..n : f[i] = ClockChain(f[i - 1], tms[i], 0)

LEMMA WalkExists ==
  ASSUME NEW c, NEW tms, NEW n \in Nat
  PROVE  \E f : IsWalk(f, c, tms, n)
<1> DEFINE S == {k \in Nat : \E f : IsWalk(f, c, tms, k)}
<1>1. 0 \in S
  <2> DEFINE f == [i \in 0..0 |-> c]
  <2>1. f = [i \in 0..0 |-> IF i = 0 THEN c ELSE ClockChain(f[i - 1], tms[i], 0)]
    BY DEF f
  <2> QED
    BY <2>1 DEF IsWalk
<1>2. ASSUME NEW k \in S PROVE k + 1 \in S
  <2>1. PICK f : IsWalk(f, c, tms, k)
    OBVIOUS
  <2> DEFINE g == [i \in 0..(k + 1) |->
                     IF i <= k THEN f[i] ELSE ClockChain(f[k], tms[k + 1], 0)]
  <2>2. ASSUME NEW i \in 0..(k + 1)
        PROVE  g[i] = IF i = 0 THEN c ELSE ClockChain(g[i - 1], tms[i], 0)
    <3>1. CASE i <= k
      <4>1. g[i] = f[i] /\ (i # 0 => g[i - 1] = f[i - 1])
        BY <3>1
      <4>2. f[i] = IF i = 0 THEN c ELSE ClockChain(f[i - 1], tms[i], 0)
        BY <2>1, <3>1 DEF IsWalk
      <4> QED
        BY <4>1, <4>2
    <3>2. CASE ~(i <= k)
      <4>1. i = k + 1 /\ i # 0 /\ g[i - 1] = f[k] /\ i - 1 = k
        BY <3>2
      <4> QED
        BY <4>1
    <3> QED
      BY <3>1, <3>2
  <2>3. g = [i \in 0..(k + 1) |-> IF i = 0 THEN c ELSE ClockChain(g[i - 1], tms[i], 0)]
    <3> HIDE DEF g
    <3>1. g = [i \in 0..(k + 1) |-> g[i]]
      BY DEF g
    <3> QED
      BY <2>2, <3>1
  <2>4. IsWalk(g, c, tms, k + 1)
    <3> HIDE DEF g
    <3> QED
      BY <2>3 DEF IsWalk
  <2> HIDE DEF g
  <2> QED
    BY <2>4
<1> HIDE DEF S
<1>3. S = Nat
  BY <1>1, <1>2, SetInduction DEF S
<1> QED
  BY <1>3 DEF S

LEMMA FollowsUnique ==
  ASSUME NEW c, NEW tms, NEW n \in Nat,
         NEW f, Follows(f, c, tms, n), NEW g, Follows(g, c, tms, n)
  PROVE  \A i \in 0..n : f[i] = g[i]
<1> DEFINE S == {k \in Nat : k <= n => f[k] = g[k]}
<1>1. 0 \in S
  BY DEF Follows
<1>2. ASSUME NEW k \in S PROVE k + 1 \in S
  <2> SUFFICES ASSUME k + 1 <= n PROVE f[k + 1] = g[k + 1]
    OBVIOUS
  <2>1. k + 1 \in 1..n /\ (k + 1) - 1 = k /\ k <= n
    OBVIOUS
  <2> QED
    BY <2>1 DEF Follows
<1> HIDE DEF S
<1>3. S = Nat
  BY <1>1, <1>2, SetInduction DEF S
<1> QED
  BY <1>3 DEF S

\* Clocks, step by step.
LEMMA ClocksFollow ==
  ASSUME NEW c, NEW tms, NEW n \in Nat, n = Len(tms)
  PROVE  \E f : Follows(f, c, tms, n) /\ Clocks(c, tms) = f[n]
<1> DEFINE f == CHOOSE g : IsWalk(g, c, tms, n)
<1>1. IsWalk(f, c, tms, n)
  BY WalkExists
<1>2. Clocks(c, tms) = f[n]
  BY DEF Clocks, IsWalk
<1> HIDE DEF f
<1>3. f[0] = c
  BY <1>1 DEF IsWalk
<1>4. ASSUME NEW i \in 1..n PROVE f[i] = ClockChain(f[i - 1], tms[i], 0)
  <2>1. i \in 0..n /\ i # 0
    OBVIOUS
  <2> QED
    BY <1>1, <2>1 DEF IsWalk
<1> QED
  BY <1>2, <1>3, <1>4 DEF Follows

LEMMA ClocksNone == ASSUME NEW c PROVE Clocks(c, <<>>) = c
<1>1. PICK f : Follows(f, c, <<>>, 0) /\ Clocks(c, <<>>) = f[0]
  BY ClocksFollow
<1> QED
  BY <1>1 DEF Follows

LEMMA ClocksAppend ==
  ASSUME NEW c, NEW tms \in Seq(Bits), NEW b \in Bits
  PROVE  Clocks(c, Append(tms, b)) = ClockChain(Clocks(c, tms), b, 0)
<1>1. PICK n \in Nat : n = Len(tms)
  BY LenProperties
<1>2. PICK m \in Nat : m = n + 1
  OBVIOUS
<1>3. PICK more : more = Append(tms, b)
  OBVIOUS
<1>4. m = Len(more) /\ more[m] = b /\ \A i \in 1..n : more[i] = tms[i]
  BY <1>1, <1>2, <1>3, AppendProperties
<1>5. PICK f : Follows(f, c, tms, n) /\ Clocks(c, tms) = f[n]
  BY <1>1, ClocksFollow
<1>6. PICK g : Follows(g, c, more, m) /\ Clocks(c, more) = g[m]
  BY <1>4, ClocksFollow
<1>7. Follows(g, c, tms, n)
  BY <1>2, <1>4, <1>6 DEF Follows
<1>8. \A i \in 0..n : f[i] = g[i]
  BY <1>5, <1>7, FollowsUnique
<1>9. f[n] = g[n] /\ g[m] = ClockChain(g[n], b, 0)
  <2>1. n \in 0..n /\ m \in 1..m /\ m - 1 = n
    BY <1>2
  <2> QED
    BY <1>4, <1>6, <1>8, <2>1 DEF Follows
<1> QED
  BY <1>3, <1>5, <1>6, <1>9

\* The definition in WayWithin, and what it means.
IsWay(f, s, t, n) ==
    f = [i \in 0..n |-> IF i = 0 THEN [tms |-> <<>>, end |-> s] ELSE Step(f[i - 1], t)]
Leads(f, s, t, n) ==
    /\ f[0] = [tms |-> <<>>, end |-> s]
    /\ \A i \in 1..n : f[i] = Step(f[i - 1], t)

LEMMA WayExists ==
  ASSUME NEW s, NEW t, NEW n \in Nat
  PROVE  \E f : IsWay(f, s, t, n)
<1> DEFINE S == {k \in Nat : \E f : IsWay(f, s, t, k)}
           start == [tms |-> <<>>, end |-> s]
<1>1. 0 \in S
  <2> DEFINE f == [i \in 0..0 |-> start]
  <2>1. f = [i \in 0..0 |-> IF i = 0 THEN start ELSE Step(f[i - 1], t)]
    <3> HIDE DEF start
    <3> QED
      BY DEF f
  <2> QED
    BY <2>1 DEF IsWay
<1>2. ASSUME NEW k \in S PROVE k + 1 \in S
  <2>1. PICK f : IsWay(f, s, t, k)
    OBVIOUS
  <2> DEFINE g == [i \in 0..(k + 1) |-> IF i <= k THEN f[i] ELSE Step(f[k], t)]
  <2>2. ASSUME NEW i \in 0..(k + 1)
        PROVE  g[i] = IF i = 0 THEN start ELSE Step(g[i - 1], t)
    <3>1. CASE i <= k
      <4>1. g[i] = f[i] /\ (i # 0 => g[i - 1] = f[i - 1])
        BY <3>1
      <4>2. f[i] = IF i = 0 THEN start ELSE Step(f[i - 1], t)
        BY <2>1, <3>1 DEF IsWay
      <4> QED
        BY <4>1, <4>2
    <3>2. CASE ~(i <= k)
      <4>1. i = k + 1 /\ i # 0 /\ g[i - 1] = f[k] /\ i - 1 = k
        BY <3>2
      <4> QED
        BY <4>1
    <3> QED
      BY <3>1, <3>2
  <2>3. g = [i \in 0..(k + 1) |-> IF i = 0 THEN start ELSE Step(g[i - 1], t)]
    <3> HIDE DEF g, start
    <3>1. g = [i \in 0..(k + 1) |-> g[i]]
      BY DEF g
    <3> QED
      BY <2>2, <3>1
  <2>4. IsWay(g, s, t, k + 1)
    <3> HIDE DEF g
    <3> QED
      BY <2>3 DEF IsWay
  <2> HIDE DEF g
  <2> QED
    BY <2>4
<1> HIDE DEF S
<1>3. S = Nat
  BY <1>1, <1>2, SetInduction DEF S
<1> QED
  BY <1>3 DEF S

LEMMA WayLeads ==
  ASSUME NEW s, NEW t, NEW n \in Nat
  PROVE  \E f : Leads(f, s, t, n) /\ WayWithin(s, t, n) = f[n]
<1> DEFINE f == CHOOSE g : IsWay(g, s, t, n)
<1>1. IsWay(f, s, t, n)
  BY WayExists
<1>2. WayWithin(s, t, n) = f[n]
  BY DEF WayWithin, IsWay
<1> HIDE DEF f
<1>3. f[0] = [tms |-> <<>>, end |-> s]
  BY <1>1 DEF IsWay
<1>4. ASSUME NEW i \in 1..n PROVE f[i] = Step(f[i - 1], t)
  <2>1. i \in 0..n /\ i # 0
    OBVIOUS
  <2> QED
    BY <1>1, <2>1 DEF IsWay
<1> QED
  BY <1>2, <1>3, <1>4 DEF Leads

-------------------------------------------------------------------------------
(***************************************************************************)
(* The tables.                                                             *)
(***************************************************************************)
\* How far it is from a state to another, with the steps of jam_jtag_path_map.
Distance == <<
    <<0, 1, 2, 3, 4, 4, 5, 6, 5, 3, 4, 5, 5, 6, 7, 6>>,
    <<3, 0, 1, 2, 3, 3, 4, 5, 4, 2, 3, 4, 4, 5, 6, 5>>,
    <<2, 4, 0, 1, 2, 2, 3, 4, 3, 1, 2, 3, 3, 4, 5, 4>>,
    <<5, 3, 3, 0, 1, 1, 2, 3, 2, 4, 5, 6, 6, 7, 8, 7>>,
    <<5, 3, 3, 4, 0, 1, 2, 3, 2, 4, 5, 6, 6, 7, 8, 7>>,
    <<4, 2, 2, 3, 6, 0, 1, 2, 1, 3, 4, 5, 5, 6, 7, 6>>,
    <<5, 3, 3, 4, 5, 5, 0, 1, 2, 4, 5, 6, 6, 7, 8, 7>>,
    <<4, 2, 2, 3, 4, 4, 5, 0, 1, 3, 4, 5, 5, 6, 7, 6>>,
    <<3, 1, 1, 2, 3, 3, 4, 5, 0, 2, 3, 4, 4, 5, 6, 5>>,
    <<1, 4, 4, 5, 6, 6, 7, 8, 7, 0, 1, 2, 2, 3, 4, 3>>,
    <<5, 3, 3, 4, 5, 5, 6, 7, 6, 4, 0, 1, 1, 2, 3, 2>>,
    <<5, 3, 3, 4, 5, 5, 6, 7, 6, 4, 5, 0, 1, 2, 3, 2>>,
    <<4, 2, 2, 3, 4, 4, 5, 6, 5, 3, 4, 7, 0, 1, 2, 1>>,
    <<5, 3, 3, 4, 5, 5, 6, 7, 6, 4, 5, 6, 6, 0, 1, 2>>,
    <<4, 2, 2, 3, 4, 4, 5, 6, 5, 3, 4, 5, 5, 6, 0, 1>>,
    <<3, 1, 1, 2, 3, 3, 4, 5, 4, 2, 3, 4, 4, 5, 6, 0>> >>

Towards(s, t) == jam_jtag_state_transitions[s + 1][2 - PathTms(s, t)]

LEMMA PathTmsIsBit ==
  ASSUME NEW s \in TapStates, NEW t \in TapStates
  PROVE  PathTms(s, t) \in Bits
<1>1. jam_jtag_path_map[s + 1] \in Nat
  BY DEF jam_jtag_path_map, TapStates
<1>2. Bit[t + 1] \in Nat \ {0}
  BY DEF Bit, TapStates
<1>3. \A m \in Nat, n \in Nat \ {0} : (m \div n) % 2 \in {0, 1}
  OBVIOUS
<1> QED
  BY <1>1, <1>2, <1>3 DEF PathTms, Bits

\* A step on the way comes closer.
LEMMA Closer ==
  ASSUME NEW s \in TapStates, NEW t \in TapStates, s # t
  PROVE  Distance[Towards(s, t) + 1][t + 1] = Distance[s + 1][t + 1] - 1
<1>0. t \in {0, 1, 2, 3, 4, 5, 6, 7, 8, 9, 10, 11, 12, 13, 14, 15}
  BY DEF TapStates
<1>1. CASE s = 0
  <2>1. jam_jtag_path_map[1] = 1 /\ jam_jtag_state_transitions[1] = <<0, 1>>
    BY DEF jam_jtag_path_map, jam_jtag_state_transitions, RESET, IDLE
  <2>2. PathTms(0, t) = 0
    BY <1>0, <1>1, <2>1 DEF PathTms, Bit
  <2> QED
    BY <1>0, <1>1, <2>1, <2>2 DEF Towards, Distance
<1>2. CASE s = 1
  <2>1. jam_jtag_path_map[2] = 65533 /\ jam_jtag_state_transitions[2] = <<2, 1>>
    BY DEF jam_jtag_path_map, jam_jtag_state_transitions, IDLE, DRSELECT
  <2>2. PathTms(1, t) = 1
    BY <1>0, <1>2, <2>1 DEF PathTms, Bit
  <2> QED
    BY <1>0, <1>2, <2>1, <2>2 DEF Towards, Distance
<1>3. CASE s = 2
  <2>1. jam_jtag_path_map[3] = 65025 /\ jam_jtag_state_transitions[3] = <<9, 3>>
    BY DEF jam_jtag_path_map, jam_jtag_state_transitions, DRCAPTURE, IRSELECT
  <2>2. PathTms(2, t) = IF t \in {1, 3, 4, 5, 6, 7, 8} THEN 0 ELSE 1
    BY <1>0, <1>3, <2>1 DEF PathTms, Bit
  <2> QED
    BY <1>0, <1>3, <2>1, <2>2 DEF Towards, Distance
<1>4. CASE s = 3
  <2>1. jam_jtag_path_map[4] = 65511 /\ jam_jtag_state_transitions[4] = <<5, 4>>
    BY DEF jam_jtag_path_map, jam_jtag_state_transitions, DRSHIFT, DREXIT1
  <2>2. PathTms(3, t) = IF t \in {4} THEN 0 ELSE 1
    BY <1>0, <1>4, <2>1 DEF PathTms, Bit
  <2> QED
    BY <1>0, <1>4, <2>1, <2>2 DEF Towards, Distance
<1>5. CASE s = 4
  <2>1. jam_jtag_path_map[5] = 65519 /\ jam_jtag_state_transitions[5] = <<5, 4>>
    BY DEF jam_jtag_path_map, jam_jtag_state_transitions, DRSHIFT, DREXIT1
  <2>2. PathTms(4, t) = 1
    BY <1>0, <1>5, <2>1 DEF PathTms, Bit
  <2> QED
    BY <1>0, <1>5, <2>1, <2>2 DEF Towards, Distance
<1>6. CASE s = 5
  <2>1. jam_jtag_path_map[6] = 65295 /\ jam_jtag_state_transitions[6] = <<8, 6>>
    BY DEF jam_jtag_path_map, jam_jtag_state_transitions, DRPAUSE, DRUPDATE
  <2>2. PathTms(5, t) = IF t \in {4, 6, 7} THEN 0 ELSE 1
    BY <1>0, <1>6, <2>1 DEF PathTms, Bit
  <2> QED
    BY <1>0, <1>6, <2>1, <2>2 DEF Towards, Distance
<1>7. CASE s = 6
  <2>1. jam_jtag_path_map[7] = 65471 /\ jam_jtag_state_transitions[7] = <<7, 6>>
    BY DEF jam_jtag_path_map, jam_jtag_state_transitions, DRPAUSE, DREXIT2
  <2>2. PathTms(6, t) = 1
    BY <1>0, <1>7, <2>1 DEF PathTms, Bit
  <2> QED
    BY <1>0, <1>7, <2>1, <2>2 DEF Towards, Distance
<1>8. CASE s = 7
  <2>1. jam_jtag_path_map[8] = 65535 /\ jam_jtag_state_transitions[8] = <<8, 4>>
    BY DEF jam_jtag_path_map, jam_jtag_state_transitions, DRSHIFT, DRUPDATE
  <2>2. PathTms(7, t) = 1
    BY <1>0, <1>8, <2>1 DEF PathTms, Bit
  <2> QED
    BY <1>0, <1>8, <2>1, <2>2 DEF Towards, Distance
<1>9. CASE s = 8
  <2>1. jam_jtag_path_map[9] = 65277 /\ jam_jtag_state_transitions[9] = <<2, 1>>
    BY DEF jam_jtag_path_map, jam_jtag_state_transitions, IDLE, DRSELECT
  <2>2. PathTms(8, t) = IF t \in {1} THEN 0 ELSE 1
    BY <1>0, <1>9, <2>1 DEF PathTms, Bit
  <2> QED
    BY <1>0, <1>9, <2>1, <2>2 DEF Towards, Distance
<1>10. CASE s = 9
  <2>1. jam_jtag_path_map[10] = 1 /\ jam_jtag_state_transitions[10] = <<0, 10>>
    BY DEF jam_jtag_path_map, jam_jtag_state_transitions, RESET, IRCAPTURE
  <2>2. PathTms(9, t) = IF t \in {0} THEN 1 ELSE 0
    BY <1>0, <1>10, <2>1 DEF PathTms, Bit
  <2> QED
    BY <1>0, <1>10, <2>1, <2>2 DEF Towards, Distance
<1>11. CASE s = 10
  <2>1. jam_jtag_path_map[11] = 62463 /\ jam_jtag_state_transitions[11] = <<12, 11>>
    BY DEF jam_jtag_path_map, jam_jtag_state_transitions, IRSHIFT, IREXIT1
  <2>2. PathTms(10, t) = IF t \in {11} THEN 0 ELSE 1
    BY <1>0, <1>11, <2>1 DEF PathTms, Bit
  <2> QED
    BY <1>0, <1>11, <2>1, <2>2 DEF Towards, Distance
<1>12. CASE s = 11
  <2>1. jam_jtag_path_map[12] = 63487 /\ jam_jtag_state_transitions[12] = <<12, 11>>
    BY DEF jam_jtag_path_map, jam_jtag_state_transitions, IRSHIFT, IREXIT1
  <2>2. PathTms(11, t) = 1
    BY <1>0, <1>12, <2>1 DEF PathTms, Bit
  <2> QED
    BY <1>0, <1>12, <2>1, <2>2 DEF Towards, Distance
<1>13. CASE s = 12
  <2>1. jam_jtag_path_map[13] = 34815 /\ jam_jtag_state_transitions[13] = <<15, 13>>
    BY DEF jam_jtag_path_map, jam_jtag_state_transitions, IRPAUSE, IRUPDATE
  <2>2. PathTms(12, t) = IF t \in {11, 13, 14} THEN 0 ELSE 1
    BY <1>0, <1>13, <2>1 DEF PathTms, Bit
  <2> QED
    BY <1>0, <1>13, <2>1, <2>2 DEF Towards, Distance
<1>14. CASE s = 13
  <2>1. jam_jtag_path_map[14] = 57343 /\ jam_jtag_state_transitions[14] = <<14, 13>>
    BY DEF jam_jtag_path_map, jam_jtag_state_transitions, IRPAUSE, IREXIT2
  <2>2. PathTms(13, t) = 1
    BY <1>0, <1>14, <2>1 DEF PathTms, Bit
  <2> QED
    BY <1>0, <1>14, <2>1, <2>2 DEF Towards, Distance
<1>15. CASE s = 14
  <2>1. jam_jtag_path_map[15] = 65535 /\ jam_jtag_state_transitions[15] = <<15, 11>>
    BY DEF jam_jtag_path_map, jam_jtag_state_transitions, IRSHIFT, IRUPDATE
  <2>2. PathTms(14, t) = 1
    BY <1>0, <1>15, <2>1 DEF PathTms, Bit
  <2> QED
    BY <1>0, <1>15, <2>1, <2>2 DEF Towards, Distance
<1>16. CASE s = 15
  <2>1. jam_jtag_path_map[16] = 32765 /\ jam_jtag_state_transitions[16] = <<2, 1>>
    BY DEF jam_jtag_path_map, jam_jtag_state_transitions, IDLE, DRSELECT
  <2>2. PathTms(15, t) = IF t \in {1} THEN 0 ELSE 1
    BY <1>0, <1>16, <2>1 DEF PathTms, Bit
  <2> QED
    BY <1>0, <1>16, <2>1, <2>2 DEF Towards, Distance
<1> QED
  BY <1>1, <1>2, <1>3, <1>4, <1>5, <1>6, <1>7, <1>8, <1>9, <1>10, <1>11, <1>12, <1>13, <1>14, <1>15, <1>16 DEF TapStates

\* The player's table is that of the chain.
LEMMA TablesAgree ==
  ASSUME NEW s \in TapStates, NEW b \in Bits
  PROVE  /\ TapNext[s + 1][b + 1] \in TapStates
         /\ jam_jtag_state_transitions[s + 1][2 - b] = TapNext[s + 1][b + 1]
<1>1. s \in {0, 1, 2, 3, 4, 5, 6, 7, 8, 9, 10, 11, 12, 13, 14, 15}
  BY DEF TapStates
<1>2. b = 0 \/ b = 1
  BY DEF Bits
<1> QED
  BY <1>1, <1>2 DEF TapNext, jam_jtag_state_transitions, RESET, IDLE, DRSELECT, DRCAPTURE, DRSHIFT, DREXIT1, DRPAUSE,
       DREXIT2, DRUPDATE, IRSELECT, IRCAPTURE, IRSHIFT, IREXIT1, IRPAUSE, IREXIT2, IRUPDATE, TapStates

LEMMA DistanceIsSmall ==
  ASSUME NEW s \in TapStates, NEW t \in TapStates
  PROVE  /\ Distance[s + 1][t + 1] \in 0..8
         /\ Distance[s + 1][t + 1] = 0 <=> s = t
<1>0. t \in {0, 1, 2, 3, 4, 5, 6, 7, 8, 9, 10, 11, 12, 13, 14, 15}
  BY DEF TapStates
<1>1. s \in {0, 1, 2, 3, 4, 5, 6, 7, 8, 9, 10, 11, 12, 13, 14, 15}
  BY DEF TapStates
<1> QED
  BY <1>0, <1>1 DEF Distance

\* What holds of chain and belief at the start of a way and is kept by its steps
\* (R) holds at its end, and that is the state asked for.
LEMMA WayKeeps ==
  ASSUME NEW s \in TapStates, NEW t \in TapStates, NEW R, NEW c, <<c, s>> \in R,
         \A d, e : <<d, e>> \in R /\ e \in TapStates \ {t} =>
           <<ClockChain(d, PathTms(e, t), 0), Towards(e, t)>> \in R
  PROVE  /\ Ways[s + 1][t + 1].end = t
         /\ <<Clocks(c, Ways[s + 1][t + 1].tms), t>> \in R
<1>1. PICK f : Leads(f, s, t, 9) /\ WayWithin(s, t, 9) = f[9]
  BY WayLeads
<1>2. Ways[s + 1][t + 1] = f[9]
  <2>1. s + 1 \in 1..16 /\ t + 1 \in 1..16 /\ (s + 1) - 1 = s /\ (t + 1) - 1 = t
    BY DEF TapStates
  <2> QED
    BY <1>1, <2>1 DEF Ways
<1> DEFINE Right(way, k) ==
              /\ way.tms \in Seq(Bits) /\ way.end \in TapStates
              /\ way = [tms |-> way.tms, end |-> way.end]
              /\ Distance[way.end + 1][t + 1] <= 9 - k
              /\ <<Clocks(c, way.tms), way.end>> \in R
<1> DEFINE S == {k \in Nat : k <= 9 => Right(f[k], k)}
<1>3. 0 \in S
  <2>1. f[0] = [tms |-> <<>>, end |-> s]
    BY <1>1 DEF Leads
  <2>2. f[0].tms = <<>> /\ f[0].end = s /\ <<>> \in Seq(Bits)
    BY <2>1, EmptySeq
  <2>3. Distance[s + 1][t + 1] <= 9 - 0
    BY DistanceIsSmall
  <2> QED
    BY <2>1, <2>2, <2>3, ClocksNone, Zenon
<1>4. ASSUME NEW k \in S PROVE k + 1 \in S
  <2> SUFFICES ASSUME k + 1 <= 9 PROVE Right(f[k + 1], k + 1)
    OBVIOUS
  <2>1. k \in Nat /\ k <= 9 /\ k + 1 \in 1..9 /\ (k + 1) - 1 = k
    OBVIOUS
  <2>2. PICK w, e : w = f[k] /\ e = w.end /\ Right(w, k)
    BY <2>1
  <2>3. f[k + 1] = Step(w, t)
    BY <1>1, <2>1, <2>2 DEF Leads
  <2>4. CASE e = t
    <3>1. f[k + 1] = w
      BY <2>2, <2>3, <2>4 DEF Step
    <3>2. Distance[e + 1][t + 1] = 0
      BY <2>4, DistanceIsSmall
    <3> QED
      BY <2>1, <2>2, <3>1, <3>2
  <2>5. CASE e # t
    <3> DEFINE b == PathTms(e, t)
    <3>1. e \in TapStates /\ b \in Bits
      BY <2>2, PathTmsIsBit
    <3>2. f[k + 1] = [tms |-> Append(w.tms, b), end |-> Towards(e, t)]
      BY <2>2, <2>3, <2>5 DEF Step, Towards
    <3> HIDE DEF b
    <3>3. PICK g : g = f[k + 1]
      OBVIOUS
    <3>4. g.tms = Append(w.tms, b) /\ g.end = Towards(e, t)
          /\ g = [tms |-> g.tms, end |-> g.end]
      BY <3>2, <3>3
    <3>5. Append(w.tms, b) \in Seq(Bits)
      BY <2>2, <3>1, AppendProperties
    <3>6. Clocks(c, Append(w.tms, b)) = ClockChain(Clocks(c, w.tms), b, 0)
      BY <2>2, <3>1, ClocksAppend
    <3>7. <<ClockChain(Clocks(c, w.tms), b, 0), Towards(e, t)>> \in R
      BY <2>2, <2>5, <3>1 DEF b
    <3>8. Towards(e, t) \in TapStates
      BY <3>1, TablesAgree DEF Towards, b
    <3>9. Distance[Towards(e, t) + 1][t + 1] <= 9 - (k + 1)
      <4>1. Distance[Towards(e, t) + 1][t + 1] = Distance[e + 1][t + 1] - 1
        BY <2>5, <3>1, Closer
      <4>2. Distance[e + 1][t + 1] \in 0..8 /\ Distance[e + 1][t + 1] <= 9 - k
        BY <2>2, <3>1, DistanceIsSmall
      <4> QED
        BY <2>1, <4>1, <4>2
    <3> QED
      BY <3>3, <3>4, <3>5, <3>6, <3>7, <3>8, <3>9
  <2> QED
    BY <2>4, <2>5
<1> HIDE DEF S
<1>5. S = Nat
  BY <1>3, <1>4, SetInduction DEF S
<1>6. Right(f[9], 9)
  BY <1>5 DEF S
<1>7. f[9].end = t
  <2>1. Distance[f[9].end + 1][t + 1] \in 0..8 /\ Distance[f[9].end + 1][t + 1] <= 0
    BY <1>6, DistanceIsSmall
  <2> QED
    BY <1>6, <2>1, DistanceIsSmall
<1> QED
  BY <1>2, <1>6, <1>7

-------------------------------------------------------------------------------
(***************************************************************************)
(* The chain.                                                              *)
(***************************************************************************)
Registers(n) == [1..n -> Bits]

LEMMA CapturesAreRegisters ==
  /\ Len(DRCapture) \in Nat \ {0} /\ DRCapture \in Registers(Len(DRCapture))
  /\ Len(IRCapture) \in Nat \ {0} /\ IRCapture \in Registers(Len(IRCapture))
  /\ IRReset \in Registers(Len(IRCapture))
<1>1. ASSUME NEW s \in Seq({0, 1}), s # <<>>
      PROVE  Len(s) \in Nat \ {0} /\ s \in Registers(Len(s))
  BY <1>1, LenProperties, EmptySeq DEF Registers, Bits
<1>2. IRReset \in Registers(Len(IRCapture))
  BY DEF IRReset, Registers, Bits
<1> QED
  BY <1>1, <1>2, CaptureAssumption

LEMMA RegisterIsSeq ==
  ASSUME NEW n \in Nat, NEW r \in Registers(n)
  PROVE  r \in Seq(Bits) /\ Len(r) = n
<1>1. r \in Seq(Bits)
  BY IsASeq DEF Registers
<1> QED
  BY <1>1, LenProperties DEF Registers

LEMMA SeqIsRegister ==
  ASSUME NEW r \in Seq(Bits)
  PROVE  r \in Registers(Len(r)) /\ Len(r) \in Nat
BY LenProperties DEF Registers

Shifted(r, b) == Append(Tail(r), b)

LEMMA ShiftedIs ==
  ASSUME NEW n \in Nat \ {0}, NEW r \in Registers(n), NEW b \in Bits
  PROVE  /\ Shifted(r, b) \in Registers(n)
         /\ \A i \in 1..n : Shifted(r, b)[i] = IF i < n THEN r[i + 1] ELSE b
<1>1. r \in Seq(Bits) /\ Len(r) = n /\ r # <<>>
  BY RegisterIsSeq, EmptySeq
<1>2. /\ Tail(r) \in Seq(Bits) /\ Len(Tail(r)) = n - 1
      /\ \A i \in 1..(n - 1) : Tail(r)[i] = r[i + 1]
  BY <1>1, HeadTailProperties
<1>3. PICK t : t = Tail(r)
  OBVIOUS
<1>4. /\ Append(t, b) \in Seq(Bits) /\ Len(Append(t, b)) = n
      /\ \A i \in 1..(n - 1) : Append(t, b)[i] = t[i]
      /\ Append(t, b)[n] = b
  BY <1>2, <1>3, AppendProperties
<1>5. PICK q : q = Append(t, b)
  OBVIOUS
<1>6. Shifted(r, b) = q
  BY <1>3, <1>5 DEF Shifted
<1>7. q \in Registers(n)
  BY <1>4, <1>5, SeqIsRegister
<1>8. ASSUME NEW i \in 1..n PROVE q[i] = IF i < n THEN r[i + 1] ELSE b
  <2>1. CASE i < n
    <3>1. i \in 1..(n - 1)
      BY <2>1
    <3>2. q[i] = t[i] /\ t[i] = r[i + 1]
      BY <1>2, <1>3, <1>4, <1>5, <3>1
    <3> QED
      BY <2>1, <3>2
  <2>2. CASE ~(i < n)
    <3>1. i = n
      BY <2>2
    <3> QED
      BY <1>4, <1>5, <2>2, <3>1
  <2> QED
    BY <2>1, <2>2
<1> QED
  BY <1>6, <1>7, <1>8

LEMMA RegisterShifts ==
  ASSUME NEW n \in Nat \ {0}, NEW r \in Registers(n), NEW b \in Bits
  PROVE  Append(Tail(r), b) \in Registers(n)
BY ShiftedIs DEF Shifted

\* What one clock does to a chain.
LEMMA ClockChainType ==
  ASSUME NEW c \in Chains, NEW b \in Bits, NEW tdi \in Bits, NEW d, d = ClockChain(c, b, tdi)
  PROVE  /\ d \in Chains /\ d.tap = TapNext[c.tap + 1][b + 1]
         /\ d.dr = IF c.tap = DRCAPTURE THEN DRCapture
                   ELSE IF c.tap = DRSHIFT THEN Append(Tail(c.dr), tdi) ELSE c.dr
         /\ d.ir = IF c.tap = IRCAPTURE THEN IRCapture
                   ELSE IF c.tap = IRSHIFT THEN Append(Tail(c.ir), tdi) ELSE c.ir
         /\ d.drLatch = IF d.tap = DRUPDATE THEN d.dr ELSE c.drLatch
         /\ d.irLatch = IF d.tap = RESET THEN IRReset
                        ELSE IF d.tap = IRUPDATE THEN d.ir ELSE c.irLatch
<1> DEFINE m == Len(DRCapture)
           n == Len(IRCapture)
           next == TapNext[c.tap + 1][b + 1]
           dr == IF c.tap = DRCAPTURE THEN DRCapture
                 ELSE IF c.tap = DRSHIFT THEN Append(Tail(c.dr), tdi) ELSE c.dr
           ir == IF c.tap = IRCAPTURE THEN IRCapture
                 ELSE IF c.tap = IRSHIFT THEN Append(Tail(c.ir), tdi) ELSE c.ir
           drLatch == IF next = DRUPDATE THEN dr ELSE c.drLatch
           irLatch == IF next = RESET THEN IRReset
                      ELSE IF next = IRUPDATE THEN ir ELSE c.irLatch
<1>1. d = [tap |-> next, dr |-> dr, ir |-> ir, drLatch |-> drLatch, irLatch |-> irLatch]
  BY DEF ClockChain
<1>2. /\ c.tap \in TapStates
      /\ c.dr \in Registers(m) /\ c.drLatch \in Registers(m)
      /\ c.ir \in Registers(n) /\ c.irLatch \in Registers(n)
  BY DEF Chains, Registers
<1>3. next \in TapStates
  BY <1>2, TablesAgree
<1>4. dr \in Registers(m)
  <2>1. Append(Tail(c.dr), tdi) \in Registers(m)
    BY <1>2, CapturesAreRegisters, RegisterShifts
  <2> QED
    BY <1>2, <2>1, CapturesAreRegisters
<1>5. ir \in Registers(n)
  <2>1. Append(Tail(c.ir), tdi) \in Registers(n)
    BY <1>2, CapturesAreRegisters, RegisterShifts
  <2> QED
    BY <1>2, <2>1, CapturesAreRegisters
<1>6. drLatch \in Registers(m) /\ irLatch \in Registers(n)
  BY <1>2, <1>4, <1>5, CapturesAreRegisters
<1> HIDE DEF next, dr, ir, drLatch, irLatch
<1>7. d \in Chains
  BY <1>1, <1>3, <1>4, <1>5, <1>6 DEF Chains, Registers
<1>8. d.tap = next /\ d.dr = dr /\ d.ir = ir /\ d.drLatch = drLatch /\ d.irLatch = irLatch
  BY <1>1
<1> QED
  BY <1>7, <1>8 DEF next, dr, ir, drLatch, irLatch

\* A clock keeps the belief right if it was.
LEMMA ClockIsStep ==
  ASSUME NEW c \in Chains, NEW e \in TapStates, NEW t \in TapStates
  PROVE  /\ ClockChain(c, PathTms(e, t), 0) \in Chains
         /\ Towards(e, t) \in TapStates
         /\ Towards(e, t) = TapNext[e + 1][PathTms(e, t) + 1]
         /\ c.tap = e => ClockChain(c, PathTms(e, t), 0).tap = Towards(e, t)
<1>1. PICK b \in Bits : b = PathTms(e, t)
  BY PathTmsIsBit
<1>2. 0 \in Bits
  BY DEF Bits
<1>3. /\ ClockChain(c, b, 0) \in Chains /\ ClockChain(c, b, 0).tap = TapNext[c.tap + 1][b + 1]
  BY <1>2, ClockChainType
<1>4. /\ TapNext[e + 1][b + 1] \in TapStates
      /\ jam_jtag_state_transitions[e + 1][2 - b] = TapNext[e + 1][b + 1]
  BY TablesAgree
<1> QED
  BY <1>1, <1>3, <1>4 DEF Towards

-------------------------------------------------------------------------------
(***************************************************************************)
(* Moves.                                                                  *)
(***************************************************************************)
IsPort(p) ==
    /\ p = [chain |-> p.chain, belief |-> p.belief]
    /\ p.chain \in Chains
    /\ p.belief \in TapStates \cup {ILLEGAL}

\* The player is right about the state, or says that it does not know.
Knows(p) == p.belief # ILLEGAL => p.chain.tap = p.belief

LEMMA StatesDiffer ==
  /\ ILLEGAL \notin TapStates
  /\ {RESET, IDLE, DRSELECT, DRCAPTURE, DRSHIFT, DREXIT1, DRPAUSE, DREXIT2, DRUPDATE,
      IRSELECT, IRCAPTURE, IRSHIFT, IREXIT1, IRPAUSE, IREXIT2, IRUPDATE} = TapStates
BY DEF TapStates, ILLEGAL, RESET, IDLE, DRSELECT, DRCAPTURE, DRSHIFT, DREXIT1, DRPAUSE, DREXIT2,
   DRUPDATE, IRSELECT, IRCAPTURE, IRSHIFT, IREXIT1, IRPAUSE, IREXIT2, IRUPDATE

\* Five clocks with TMS high reset every TAP, one with TMS low makes it idle.
LEMMA ResetIdle ==
  ASSUME NEW c \in Chains
  PROVE  /\ Clocks(c, <<1, 1, 1, 1, 1, 0>>) \in Chains
         /\ Clocks(c, <<1, 1, 1, 1, 1, 0>>).tap = IDLE
<1>1. PICK tms : tms = <<1, 1, 1, 1, 1, 0>>
  OBVIOUS
<1>2. /\ 6 = Len(tms)
      /\ tms[1] = 1 /\ tms[2] = 1 /\ tms[3] = 1 /\ tms[4] = 1 /\ tms[5] = 1 /\ tms[6] = 0
  BY <1>1
<1>3. PICK f : Follows(f, c, tms, 6) /\ Clocks(c, tms) = f[6]
  <2>1. PICK n \in Nat : n = 6
    OBVIOUS
  <2>2. n = Len(tms)
    BY <1>2, <2>1
  <2>3. \E f : Follows(f, c, tms, n) /\ Clocks(c, tms) = f[n]
    BY <2>2, ClocksFollow
  <2> QED
    BY <2>1, <2>3
<1>4. /\ f[0] = c
      /\ f[1] = ClockChain(f[0], 1, 0) /\ f[2] = ClockChain(f[1], 1, 0)
      /\ f[3] = ClockChain(f[2], 1, 0) /\ f[4] = ClockChain(f[3], 1, 0)
      /\ f[5] = ClockChain(f[4], 1, 0) /\ f[6] = ClockChain(f[5], 0, 0)
  <2>1. \A i \in 1..6 : f[i] = ClockChain(f[i - 1], tms[i], 0)
    BY <1>3 DEF Follows
  <2>2. f[0] = c
    BY <1>3 DEF Follows
  <2> QED
    BY <1>2, <2>1, <2>2
<1>5. \A d \in Chains, b \in Bits :
        ClockChain(d, b, 0) \in Chains /\ ClockChain(d, b, 0).tap = TapNext[d.tap + 1][b + 1]
  <2>1. 0 \in Bits
    BY DEF Bits
  <2> QED
    BY <2>1, ClockChainType
<1>6. f[1] \in Chains /\ f[2] \in Chains /\ f[3] \in Chains /\ f[4] \in Chains /\ f[5] \in Chains
      /\ f[6] \in Chains
  BY <1>4, <1>5 DEF Bits
<1>7. /\ f[1].tap = TapNext[f[0].tap + 1][2] /\ f[2].tap = TapNext[f[1].tap + 1][2]
      /\ f[3].tap = TapNext[f[2].tap + 1][2] /\ f[4].tap = TapNext[f[3].tap + 1][2]
      /\ f[5].tap = TapNext[f[4].tap + 1][2] /\ f[6].tap = TapNext[f[5].tap + 1][1]
  BY <1>4, <1>5, <1>6 DEF Bits
<1>8. c.tap \in {0, 1, 2, 3, 4, 5, 6, 7, 8, 9, 10, 11, 12, 13, 14, 15}
  BY DEF Chains, TapStates
<1>9. /\ f[1].tap \in {0, 2, 5, 7, 8, 9, 12, 14, 15} /\ f[2].tap \in {0, 2, 8, 9, 15}
      /\ f[3].tap \in {0, 2, 9} /\ f[4].tap \in {0, 9} /\ f[5].tap = 0 /\ f[6].tap = 1
  <2>0. /\ TapNext[1][2] = 0 /\ TapNext[2][2] = 2 /\ TapNext[3][2] = 9 /\ TapNext[4][2] = 5
        /\ TapNext[5][2] = 5 /\ TapNext[6][2] = 8 /\ TapNext[7][2] = 7 /\ TapNext[8][2] = 8
        /\ TapNext[9][2] = 2 /\ TapNext[10][2] = 0 /\ TapNext[11][2] = 12 /\ TapNext[12][2] = 12
        /\ TapNext[13][2] = 15 /\ TapNext[14][2] = 14 /\ TapNext[15][2] = 15 /\ TapNext[16][2] = 2
        /\ TapNext[1][1] = 1
    BY DEF TapNext, RESET, IDLE, DRSELECT, DRCAPTURE, DRSHIFT, DREXIT1, DRPAUSE, DREXIT2,
       DRUPDATE, IRSELECT, IRCAPTURE, IRSHIFT, IREXIT1, IRPAUSE, IREXIT2, IRUPDATE
  <2>1. f[1].tap \in {0, 2, 5, 7, 8, 9, 12, 14, 15}
    <3>1. \A x \in {0, 1, 2, 3, 4, 5, 6, 7, 8, 9, 10, 11, 12, 13, 14, 15} :
            TapNext[x + 1][2] \in {0, 2, 5, 7, 8, 9, 12, 14, 15}
      BY <2>0
    <3>2. f[1].tap = TapNext[c.tap + 1][2]
      BY <1>4, <1>7
    <3> QED
      BY <1>8, <3>1, <3>2
  <2>2. f[2].tap \in {0, 2, 8, 9, 15}
    <3>1. \A x \in {0, 2, 5, 7, 8, 9, 12, 14, 15} : TapNext[x + 1][2] \in {0, 2, 8, 9, 15}
      BY <2>0
    <3>2. f[2].tap = TapNext[f[1].tap + 1][2]
      BY <1>7, Zenon
    <3> QED
      BY <2>1, <3>1, <3>2
  <2>3. f[3].tap \in {0, 2, 9}
    <3>1. \A x \in {0, 2, 8, 9, 15} : TapNext[x + 1][2] \in {0, 2, 9}
      BY <2>0
    <3>2. f[3].tap = TapNext[f[2].tap + 1][2]
      BY <1>7, Zenon
    <3> QED
      BY <2>2, <3>1, <3>2
  <2>4. f[4].tap \in {0, 9}
    <3>1. \A x \in {0, 2, 9} : TapNext[x + 1][2] \in {0, 9}
      BY <2>0
    <3>2. f[4].tap = TapNext[f[3].tap + 1][2]
      BY <1>7, Zenon
    <3> QED
      BY <2>3, <3>1, <3>2
  <2>5. f[5].tap = 0
    <3>1. \A x \in {0, 9} : TapNext[x + 1][2] = 0
      BY <2>0
    <3>2. f[5].tap = TapNext[f[4].tap + 1][2]
      BY <1>7, Zenon
    <3> QED
      BY <2>4, <3>1, <3>2
  <2>6. f[6].tap = 1
    <3>1. \A x \in {0} : TapNext[x + 1][1] = 1
      BY <2>0
    <3>2. f[6].tap = TapNext[f[5].tap + 1][1]
      BY <1>7, Zenon
    <3> QED
      BY <2>5, <3>1, <3>2
  <2> QED
    BY <2>1, <2>2, <2>3, <2>4, <2>5, <2>6
<1> QED
  BY <1>1, <1>3, <1>6, <1>9 DEF IDLE

LEMMA ResetIdlePort ==
  ASSUME NEW p, IsPort(p)
  PROVE  /\ IsPort(jam_jtag_reset_idle(p))
         /\ jam_jtag_reset_idle(p).belief = IDLE
         /\ jam_jtag_reset_idle(p).chain.tap = IDLE
<1>1. PICK d : d = Clocks(p.chain, <<1, 1, 1, 1, 1, 0>>)
  OBVIOUS
<1>2. d \in Chains /\ d.tap = IDLE
  BY <1>1, ResetIdle DEF IsPort
<1>3. jam_jtag_reset_idle(p) = [chain |-> d, belief |-> IDLE]
  BY <1>1 DEF jam_jtag_reset_idle
<1>4. IDLE \in TapStates
  BY StatesDiffer
<1> QED
  BY <1>2, <1>3, <1>4 DEF IsPort

\* A clock that keeps a stable state.
LEMMA StableStays ==
  ASSUME NEW c \in Chains, NEW s \in TapStates, NEW b, b = IF s = RESET THEN 1 ELSE 0
  PROVE  /\ b \in Bits /\ ClockChain(c, b, 0) \in Chains
         /\ c.tap = s /\ s \in Stable => ClockChain(c, b, 0).tap = s
<1>1. b \in Bits /\ 0 \in Bits
  BY DEF Bits
<1>2. ClockChain(c, b, 0) \in Chains /\ ClockChain(c, b, 0).tap = TapNext[c.tap + 1][b + 1]
  BY <1>1, ClockChainType
<1>3. s \in Stable => TapNext[s + 1][b + 1] = s
  BY DEF Stable, TapNext, RESET, IDLE, DRSELECT, DRCAPTURE, DRSHIFT, DREXIT1, DRPAUSE, DREXIT2,
     DRUPDATE, IRSELECT, IRCAPTURE, IRSHIFT, IREXIT1, IRPAUSE, IREXIT2, IRUPDATE
<1> QED
  BY <1>1, <1>2, <1>3

\* A move ends where it should, and keeps the player right about it.
LEMMA Goto ==
  ASSUME NEW p, IsPort(p), NEW s \in TapStates, NEW q, q = jam_goto_jtag_state(p, s)
  PROVE  /\ IsPort(q) /\ q.belief = s
         /\ Knows(p) => Knows(q)
<1>1. PICK m : m = IF p.belief = ILLEGAL THEN jam_jtag_reset_idle(p) ELSE p
  OBVIOUS
<1>2. /\ m = [chain |-> m.chain, belief |-> m.belief]
      /\ m.chain \in Chains /\ m.belief \in TapStates
      /\ Knows(p) => m.chain.tap = m.belief
  BY <1>1, ResetIdlePort, StatesDiffer DEF IsPort, Knows
<1>3. s # ILLEGAL
  BY StatesDiffer
<1>4. CASE m.belief # s
  <2> DEFINE All == Chains \X TapStates
             Right == {x \in All : x[1].tap = x[2]}
             way == Ways[m.belief + 1][s + 1]
  <2>1. way.end = s /\ <<Clocks(m.chain, way.tms), s>> \in All
    <3>1. <<m.chain, m.belief>> \in All
      BY <1>2
    <3>2. ASSUME NEW d, NEW e, <<d, e>> \in All, e \in TapStates \ {s}
          PROVE  <<ClockChain(d, PathTms(e, s), 0), Towards(e, s)>> \in All
      BY <3>2, ClockIsStep
    <3> HIDE DEF All
    <3> QED
      BY <1>2, <3>1, <3>2, WayKeeps
  <2>2. Knows(p) => <<Clocks(m.chain, way.tms), s>> \in Right
    <3> SUFFICES ASSUME Knows(p) PROVE <<Clocks(m.chain, way.tms), s>> \in Right
      OBVIOUS
    <3>1. <<m.chain, m.belief>> \in Right
      BY <1>2
    <3>2. ASSUME NEW d, NEW e, <<d, e>> \in Right, e \in TapStates \ {s}
          PROVE  <<ClockChain(d, PathTms(e, s), 0), Towards(e, s)>> \in Right
      <4>1. d \in Chains /\ e \in TapStates /\ d.tap = e
        BY <3>2
      <4> QED
        BY <4>1, ClockIsStep
    <3> HIDE DEF Right
    <3> QED
      BY <1>2, <3>1, <3>2, WayKeeps, Zenon
  <2>3. q = [chain |-> Clocks(m.chain, way.tms), belief |-> way.end]
    BY <1>1, <1>4 DEF jam_goto_jtag_state
  <2>4. Clocks(m.chain, way.tms) \in Chains
        /\ (Knows(p) => Clocks(m.chain, way.tms).tap = s)
    BY <2>1, <2>2
  <2> HIDE DEF way
  <2> QED
    BY <1>3, <2>1, <2>3, <2>4 DEF IsPort, Knows
<1>5. CASE m.belief = s
  <2>1. PICK b : b = IF s = RESET THEN 1 ELSE 0
    OBVIOUS
  <2>2. CASE s \in Stable
    <3>1. q = [m EXCEPT !.chain = ClockChain(@, b, 0)]
      BY <1>1, <1>5, <2>1, <2>2 DEF jam_goto_jtag_state, Stable
    <3>2. q = [chain |-> ClockChain(m.chain, b, 0), belief |-> s]
      BY <1>2, <1>5, <3>1
    <3>3. /\ ClockChain(m.chain, b, 0) \in Chains
          /\ m.chain.tap = s => ClockChain(m.chain, b, 0).tap = s
      BY <1>2, <2>1, <2>2, StableStays
    <3> QED
      BY <1>2, <1>5, <3>2, <3>3 DEF IsPort, Knows
  <2>3. CASE s \notin Stable
    <3>1. q = m
      BY <1>1, <1>5, <2>3 DEF jam_goto_jtag_state, Stable
    <3> QED
      BY <1>2, <1>5, <3>1 DEF IsPort, Knows
  <2> QED
    BY <2>2, <2>3
<1> QED
  BY <1>4, <1>5

LEMMA GotoThere ==
  ASSUME NEW p, IsPort(p), NEW s \in TapStates, NEW q, q = GotoUnlessThere(p, s)
  PROVE  /\ IsPort(q) /\ q.belief = s
         /\ Knows(p) => Knows(q)
BY Goto DEF GotoUnlessThere

\* Clocks that keep a stable state, as many as a WAIT asks for.
LEMMA Loop ==
  ASSUME NEW c \in Chains, NEW s \in TapStates, NEW b, b = IF s = RESET THEN 1 ELSE 0,
         NEW n \in Nat, NEW tms, tms = [i \in 1..n |-> b]
  PROVE  /\ Clocks(c, tms) \in Chains
         /\ c.tap = s /\ (s \in Stable \/ n = 0) => Clocks(c, tms).tap = s
<1>1. n = Len(tms)
  <2>1. b \in Bits
    BY DEF Bits
  <2>2. tms \in Registers(n)
    BY <2>1 DEF Registers
  <2> QED
    BY <2>2, RegisterIsSeq
<1>2. PICK f : Follows(f, c, tms, n) /\ Clocks(c, tms) = f[n]
  <2>1. PICK m \in Nat : m = n
    OBVIOUS
  <2>2. PICK word : word = tms
    OBVIOUS
  <2>3. m = Len(word)
    BY <1>1, <2>1, <2>2
  <2>4. \E f : Follows(f, c, word, m) /\ Clocks(c, word) = f[m]
    BY <2>3, ClocksFollow
  <2> QED
    BY <2>1, <2>2, <2>4
<1> DEFINE Right(d) == d \in Chains /\ (c.tap = s /\ (s \in Stable \/ n = 0) => d.tap = s)
           S == {k \in Nat : k <= n => Right(f[k])}
<1>3. 0 \in S
  BY <1>2 DEF Follows
<1>4. ASSUME NEW k \in S PROVE k + 1 \in S
  <2> SUFFICES ASSUME k + 1 <= n PROVE Right(f[k + 1])
    OBVIOUS
  <2>1. k + 1 \in 1..n /\ (k + 1) - 1 = k /\ k <= n /\ n # 0
    OBVIOUS
  <2>2. f[k + 1] = ClockChain(f[k], b, 0)
    BY <1>2, <2>1 DEF Follows
  <2>3. Right(f[k])
    BY <2>1
  <2>4. /\ ClockChain(f[k], b, 0) \in Chains
        /\ f[k].tap = s /\ s \in Stable => ClockChain(f[k], b, 0).tap = s
    BY <2>3, StableStays
  <2> QED
    BY <2>1, <2>2, <2>3, <2>4
<1> HIDE DEF S
<1>5. S = Nat
  BY <1>3, <1>4, SetInduction DEF S
<1> QED
  BY <1>2, <1>5 DEF S

-------------------------------------------------------------------------------
(***************************************************************************)
(* Shifting.                                                               *)
(***************************************************************************)
\* The definition in Shift, and what it means.
ShiftStart(c) == [chain |-> c, tdo |-> <<>>]
ShiftStep(a, bits, i) ==
    LET tms == IF i = Len(bits) THEN 1 ELSE 0
    IN  [chain |-> ClockChain(a.chain, tms, bits[i]), tdo |-> Append(a.tdo, TdoOf(a.chain))]
IsShift(f, c, bits, n) ==
    f = [i \in 0..n |-> IF i = 0 THEN ShiftStart(c) ELSE ShiftStep(f[i - 1], bits, i)]
Shifts(f, c, bits, n) ==
    /\ f[0] = ShiftStart(c)
    /\ \A i \in 1..n : f[i] = ShiftStep(f[i - 1], bits, i)

LEMMA ShiftExists ==
  ASSUME NEW c, NEW bits, NEW n \in Nat
  PROVE  \E f : IsShift(f, c, bits, n)
<1> DEFINE S == {k \in Nat : \E f : IsShift(f, c, bits, k)}
<1>1. 0 \in S
  <2> DEFINE f == [i \in 0..0 |-> ShiftStart(c)]
  <2>1. f = [i \in 0..0 |-> IF i = 0 THEN ShiftStart(c) ELSE ShiftStep(f[i - 1], bits, i)]
    BY DEF f
  <2> QED
    BY <2>1 DEF IsShift
<1>2. ASSUME NEW k \in S PROVE k + 1 \in S
  <2>1. PICK f : IsShift(f, c, bits, k)
    OBVIOUS
  <2> DEFINE g == [i \in 0..(k + 1) |-> IF i <= k THEN f[i] ELSE ShiftStep(f[k], bits, k + 1)]
  <2>2. ASSUME NEW i \in 0..(k + 1)
        PROVE  g[i] = IF i = 0 THEN ShiftStart(c) ELSE ShiftStep(g[i - 1], bits, i)
    <3>1. CASE i <= k
      <4>1. g[i] = f[i] /\ (i # 0 => g[i - 1] = f[i - 1])
        BY <3>1
      <4>2. f[i] = IF i = 0 THEN ShiftStart(c) ELSE ShiftStep(f[i - 1], bits, i)
        BY <2>1, <3>1 DEF IsShift
      <4> QED
        BY <4>1, <4>2
    <3>2. CASE ~(i <= k)
      <4>1. i = k + 1 /\ i # 0 /\ g[i - 1] = f[k] /\ i - 1 = k
        BY <3>2
      <4> QED
        BY <4>1
    <3> QED
      BY <3>1, <3>2
  <2>3. g = [i \in 0..(k + 1) |-> IF i = 0 THEN ShiftStart(c) ELSE ShiftStep(g[i - 1], bits, i)]
    <3> HIDE DEF g
    <3>1. g = [i \in 0..(k + 1) |-> g[i]]
      BY DEF g
    <3> QED
      BY <2>2, <3>1
  <2>4. IsShift(g, c, bits, k + 1)
    <3> HIDE DEF g
    <3> QED
      BY <2>3 DEF IsShift
  <2> HIDE DEF g
  <2> QED
    BY <2>4
<1> HIDE DEF S
<1>3. S = Nat
  BY <1>1, <1>2, SetInduction DEF S
<1> QED
  BY <1>3 DEF S

LEMMA ShiftShifts ==
  ASSUME NEW c, NEW bits, NEW n \in Nat, n = Len(bits)
  PROVE  \E f : Shifts(f, c, bits, n) /\ Shift(c, bits) = f[n]
<1> DEFINE f == CHOOSE g : IsShift(g, c, bits, n)
<1>1. IsShift(f, c, bits, n)
  BY ShiftExists
<1>2. Shift(c, bits) = f[n]
  BY DEF Shift, IsShift, ShiftStart, ShiftStep
<1> HIDE DEF f
<1>3. f[0] = ShiftStart(c)
  BY <1>1 DEF IsShift
<1>4. ASSUME NEW i \in 1..n PROVE f[i] = ShiftStep(f[i - 1], bits, i)
  <2>1. i \in 0..n /\ i # 0
    OBVIOUS
  <2> QED
    BY <1>1, <2>1 DEF IsShift
<1> QED
  BY <1>2, <1>3, <1>4 DEF Shifts

ShiftState(register) == IF register = DR THEN DRSHIFT ELSE IRSHIFT
ExitState(register) == IF register = DR THEN DREXIT1 ELSE IREXIT1
Size(register) == IF register = DR THEN Len(DRCapture) ELSE Len(IRCapture)

LEMMA RegistersDiffer == DR # IR
<1>1. DR.name = "DR" /\ IR.name = "IR"
  BY DEF DR, IR
<1> QED
  BY <1>1

LEMMA HeldIsRegister ==
  ASSUME NEW c \in Chains, NEW register \in {DR, IR}
  PROVE  /\ Size(register) \in Nat \ {0}
         /\ Held(c, register) \in Registers(Size(register))
         /\ Latched(c, register) \in Registers(Size(register))
BY CapturesAreRegisters DEF Size, Held, Latched, Chains, Registers

\* What a clock in the shift state makes of chain c.
ShiftedOnce(register, c, d, b, tdi) ==
    /\ d \in Chains
    /\ d.tap = IF b = 1 THEN ExitState(register) ELSE ShiftState(register)
    /\ \A i \in 1..Size(register) :
          Held(d, register)[i] = IF i < Size(register) THEN Held(c, register)[i + 1] ELSE tdi
    /\ d.drLatch = c.drLatch /\ d.irLatch = c.irLatch
    /\ TdoOf(c) = Held(c, register)[1]

LEMMA ShiftClock ==
  ASSUME NEW register \in {DR, IR}, NEW c \in Chains, c.tap = ShiftState(register),
         NEW b \in Bits, NEW tdi \in Bits, NEW d, d = ClockChain(c, b, tdi)
  PROVE  ShiftedOnce(register, c, d, b, tdi)
<1> DEFINE h == Held(c, register)
           L == Size(register)
<1>1. L \in Nat \ {0} /\ h \in Registers(L)
  BY HeldIsRegister
<1>2. /\ TapNext[DRSHIFT + 1][1] = DRSHIFT /\ TapNext[DRSHIFT + 1][2] = DREXIT1
      /\ TapNext[IRSHIFT + 1][1] = IRSHIFT /\ TapNext[IRSHIFT + 1][2] = IREXIT1
  BY DEF TapNext, DRSHIFT, DREXIT1, IRSHIFT, IREXIT1
<1>3. d.tap = IF b = 1 THEN ExitState(register) ELSE ShiftState(register)
  <2>1. d.tap = TapNext[c.tap + 1][b + 1]
    BY ClockChainType
  <2> QED
    BY <1>2, <2>1 DEF ShiftState, ExitState, Bits
<1>4. /\ d.tap \notin {RESET, DRUPDATE, IRUPDATE}
      /\ DRSHIFT \notin {DRCAPTURE, IRCAPTURE, IRSHIFT} /\ IRSHIFT \notin {DRCAPTURE, IRCAPTURE}
  BY <1>3 DEF ShiftState, ExitState, RESET, DRUPDATE, IRUPDATE, DRSHIFT, DREXIT1, IRSHIFT, IREXIT1,
     DRCAPTURE, IRCAPTURE
<1>5. d \in Chains /\ d.drLatch = c.drLatch /\ d.irLatch = c.irLatch
  BY <1>4, ClockChainType
<1>6. Held(d, register) = Append(Tail(h), tdi) /\ TdoOf(c) = Head(h)
  <2>0. /\ d.dr = IF c.tap = DRCAPTURE THEN DRCapture
                  ELSE IF c.tap = DRSHIFT THEN Append(Tail(c.dr), tdi) ELSE c.dr
        /\ d.ir = IF c.tap = IRCAPTURE THEN IRCapture
                  ELSE IF c.tap = IRSHIFT THEN Append(Tail(c.ir), tdi) ELSE c.ir
    BY ClockChainType
  <2>1. CASE register = DR
    <3>1. c.tap = DRSHIFT /\ h = c.dr /\ Held(d, register) = d.dr
      BY <2>1 DEF ShiftState, Held
    <3> QED
      BY <1>4, <2>0, <3>1 DEF TdoOf
  <2>2. CASE register = IR
    <3>1. c.tap = IRSHIFT /\ h = c.ir /\ Held(d, register) = d.ir
      BY <2>2, RegistersDiffer DEF ShiftState, Held
    <3> QED
      BY <1>4, <2>0, <3>1 DEF TdoOf
  <2> QED
    BY <2>1, <2>2
<1>7. Head(h) = h[1]
  BY <1>1, RegisterIsSeq, HeadTailProperties, EmptySeq
<1>8. \A i \in 1..L : Append(Tail(h), tdi)[i] = IF i < L THEN h[i + 1] ELSE tdi
  <2> HIDE DEF h, L
  <2>1. \A i \in 1..L : Shifted(h, tdi)[i] = IF i < L THEN h[i + 1] ELSE tdi
    BY <1>1, ShiftedIs
  <2> QED
    BY <2>1 DEF Shifted
<1> QED
  BY <1>3, <1>5, <1>6, <1>7, <1>8 DEF ShiftedOnce

\* The line that passes through a register: what it holds, then what is shifted in.
LEMMA LineIs ==
  ASSUME NEW h, NEW L \in Nat, h \in Registers(L), NEW bits \in Seq(Bits)
  PROVE  /\ h \o bits \in Seq(Bits) /\ Len(h \o bits) = L + Len(bits) /\ Len(bits) \in Nat
         /\ \A i \in 1..L : (h \o bits)[i] = h[i]
         /\ \A i \in 1..Len(bits) : (h \o bits)[L + i] = bits[i]
<1>1. h \in Seq(Bits) /\ Len(h) = L /\ Len(bits) \in Nat
  BY RegisterIsSeq, LenProperties
<1>2. /\ h \o bits \in Seq(Bits) /\ Len(h \o bits) = L + Len(bits)
      /\ \A i \in 1..(L + Len(bits)) :
           (h \o bits)[i] = IF i <= L THEN h[i] ELSE bits[i - L]
  BY <1>1, ConcatProperties, Zenon
<1>3. ASSUME NEW i \in 1..Len(bits) PROVE (h \o bits)[L + i] = bits[i]
  <2>1. L + i \in 1..(L + Len(bits)) /\ ~(L + i <= L) /\ (L + i) - L = i
    BY <1>1
  <2> QED
    BY <1>2, <2>1
<1> QED
  BY <1>1, <1>2, <1>3

\* A register that is shifted: the bits move through it, and what it held comes out
\* first.
ShiftedThrough(register, c, bits, a) ==
    LET n == Len(bits)
        line == Held(c, register) \o bits
    IN  /\ a.chain \in Chains
        /\ a.chain.tap = IF n = 0 THEN ShiftState(register) ELSE ExitState(register)
        /\ \A i \in 1..Size(register) : Held(a.chain, register)[i] = line[i + n]
        /\ a.chain.drLatch = c.drLatch /\ a.chain.irLatch = c.irLatch
        /\ a.tdo \in Registers(n) /\ \A i \in 1..n : a.tdo[i] = line[i]

LEMMA ShiftRegister ==
  ASSUME NEW register \in {DR, IR}, NEW c \in Chains, c.tap = ShiftState(register),
         NEW bits \in Seq(Bits), NEW a, a = Shift(c, bits)
  PROVE  ShiftedThrough(register, c, bits, a)
<1>0. PICK n, L, line : n = Len(bits) /\ L = Size(register) /\ line = Held(c, register) \o bits
  OBVIOUS
<1>1. /\ n \in Nat /\ L \in Nat \ {0} /\ line \in Seq(Bits) /\ Len(line) = L + n
      /\ \A i \in 1..L : line[i] = Held(c, register)[i]
      /\ \A i \in 1..n : line[L + i] = bits[i]
      /\ \A i \in 1..(L + n) : line[i] \in Bits
  <2>1. Held(c, register) \in Registers(L) /\ L \in Nat \ {0}
    BY <1>0, HeldIsRegister
  <2>2. line \in Seq(Bits) /\ Len(line) = L + n
    BY <1>0, <2>1, LineIs
  <2>3. /\ n \in Nat
        /\ \A i \in 1..L : line[i] = Held(c, register)[i]
        /\ \A i \in 1..n : line[L + i] = bits[i]
    <3>1. PICK h : h = Held(c, register)
      OBVIOUS
    <3>2. h \in Registers(L) /\ L \in Nat /\ line = h \o bits
      BY <1>0, <2>1, <3>1
    <3> QED
      <4>1. /\ Len(bits) \in Nat
            /\ \A i \in 1..L : (h \o bits)[i] = h[i]
            /\ \A i \in 1..Len(bits) : (h \o bits)[L + i] = bits[i]
        BY <3>2, LineIs
      <4> QED
        BY <1>0, <3>1, <3>2, <4>1, Zenon
  <2>4. \A i \in 1..(L + n) : line[i] \in Bits
    BY <2>2, ElementOfSeq
  <2> QED
    BY <2>1, <2>2, <2>3, <2>4
<1>2. PICK f : Shifts(f, c, bits, n) /\ a = f[n]
  BY <1>0, <1>1, ShiftShifts
<1> DEFINE Right(x, k) ==
             /\ x.chain \in Chains
             /\ x.chain.tap = IF k = n /\ n # 0 THEN ExitState(register) ELSE ShiftState(register)
             /\ \A i \in 1..L : Held(x.chain, register)[i] = line[i + k]
             /\ x.chain.drLatch = c.drLatch /\ x.chain.irLatch = c.irLatch
             /\ x.tdo \in Registers(k) /\ \A i \in 1..k : x.tdo[i] = line[i]
           S == {k \in Nat : k <= n => Right(f[k], k)}
<1>3. 0 \in S
  <2>1. f[0].chain = c /\ f[0].tdo = <<>>
    BY <1>2 DEF Shifts, ShiftStart
  <2>2. <<>> \in Registers(0)
    BY SeqIsRegister, EmptySeq
  <2> QED
    BY <1>1, <2>1, <2>2
<1>4. ASSUME NEW k \in Nat, k <= n => Right(f[k], k), k + 1 <= n
      PROVE  Right(f[k + 1], k + 1)
  <2>1. k + 1 \in 1..n /\ (k + 1) - 1 = k /\ k <= n /\ k # n
    BY <1>1, <1>4
  <2>2. PICK x, y : x = f[k] /\ y = f[k + 1]
    OBVIOUS
  <2>3. Right(x, k)
    BY <1>4, <2>1, <2>2
  <2>4. y = ShiftStep(x, bits, k + 1)
    BY <1>2, <2>1, <2>2 DEF Shifts
  <2>5. PICK tms : tms = IF k + 1 = n THEN 1 ELSE 0
    OBVIOUS
  <2>6. PICK bit : bit = bits[k + 1]
    OBVIOUS
  <2>7. tms \in Bits /\ bit \in Bits /\ bit = line[L + (k + 1)]
    BY <1>0, <1>1, <2>1, <2>5, <2>6, ElementOfSeq, Zenon DEF Bits
  <2>8. y.chain = ClockChain(x.chain, tms, bit) /\ y.tdo = Append(x.tdo, TdoOf(x.chain))
    BY <1>0, <2>4, <2>5, <2>6 DEF ShiftStep
  <2>9. x.chain \in Chains /\ x.chain.tap = ShiftState(register)
    BY <2>1, <2>3
  <2>10. /\ y.chain \in Chains
         /\ y.chain.tap = IF tms = 1 THEN ExitState(register) ELSE ShiftState(register)
         /\ \A i \in 1..L : Held(y.chain, register)[i] =
               IF i < L THEN Held(x.chain, register)[i + 1] ELSE bit
         /\ y.chain.drLatch = x.chain.drLatch /\ y.chain.irLatch = x.chain.irLatch
         /\ TdoOf(x.chain) = Held(x.chain, register)[1]
    <3>1. PICK d, e : d = x.chain /\ e = y.chain
      OBVIOUS
    <3>2. d \in Chains /\ d.tap = ShiftState(register) /\ e = ClockChain(d, tms, bit)
      BY <2>8, <2>9, <3>1
    <3>3. ShiftedOnce(register, d, e, tms, bit)
      BY <2>7, <3>2, ShiftClock
    <3> QED
      BY <1>0, <3>1, <3>3 DEF ShiftedOnce
  <2>11. ASSUME NEW i \in 1..L PROVE Held(y.chain, register)[i] = line[i + (k + 1)]
    <3>1. CASE i < L
      <4>1. i + 1 \in 1..L /\ (i + 1) + k = i + (k + 1)
        BY <1>1, <2>1, <3>1
      <4> QED
        BY <2>3, <2>10, <3>1, <4>1
    <3>2. CASE ~(i < L)
      <4>1. i = L
        BY <1>1, <3>2
      <4> QED
        BY <2>7, <2>10, <3>2, <4>1
    <3> QED
      BY <3>1, <3>2
  <2>12. TdoOf(x.chain) = line[k + 1] /\ line[k + 1] \in Bits
    <3>1. 1 \in 1..L /\ 1 + k = k + 1 /\ k + 1 \in 1..(L + n)
      BY <1>1, <2>1
    <3> QED
      BY <1>1, <2>3, <2>10, <3>1
  <2>13. y.tdo \in Registers(k + 1) /\ \A i \in 1..(k + 1) : y.tdo[i] = line[i]
    <3>1. x.tdo \in Seq(Bits) /\ Len(x.tdo) = k
      BY <2>1, <2>3, RegisterIsSeq
    <3>2. /\ y.tdo \in Seq(Bits) /\ Len(y.tdo) = k + 1
          /\ \A i \in 1..k : y.tdo[i] = x.tdo[i]
          /\ y.tdo[k + 1] = line[k + 1]
      <4>1. PICK t, b : t = x.tdo /\ b = TdoOf(x.chain)
        OBVIOUS
      <4>2. t \in Seq(Bits) /\ Len(t) = k /\ b \in Bits /\ b = line[k + 1] /\ y.tdo = Append(t, b)
        BY <2>8, <2>12, <3>1, <4>1, SMT
      <4>3. /\ Append(t, b) \in Seq(Bits) /\ Len(Append(t, b)) = Len(t) + 1
            /\ \A i \in 1..Len(t) : Append(t, b)[i] = t[i]
            /\ Append(t, b)[Len(t) + 1] = b
        <5>1. t \in Seq(Bits) /\ b \in Bits
          BY <4>2
        <5> QED
          BY <5>1, AppendProperties
      <4> QED
        BY <4>1, <4>2, <4>3
    <3>3. ASSUME NEW i \in 1..(k + 1) PROVE y.tdo[i] = line[i]
      <4>1. i = k + 1 \/ i \in 1..k
        BY <2>1
      <4> QED
        BY <2>3, <3>2, <4>1
    <3> QED
      BY <3>2, <3>3, SeqIsRegister
  <2>14. y.chain.tap = IF k + 1 = n /\ n # 0 THEN ExitState(register) ELSE ShiftState(register)
    BY <2>1, <2>5, <2>10
  <2> QED
    BY <2>2, <2>3, <2>10, <2>11, <2>13, <2>14
<1> HIDE DEF Right
<1>5. S = Nat
  <2>1. ASSUME NEW k \in S PROVE k + 1 \in S
    BY <1>4
  <2> HIDE DEF S
  <2> QED
    BY <1>3, <2>1, SetInduction DEF S
<1>6. Right(a, n)
  BY <1>1, <1>2, <1>5
<1> QED
  BY <1>0, <1>6 DEF Right, ShiftedThrough

\* Whatever state the chain is in, it remains a chain.
LEMMA ShiftType ==
  ASSUME NEW c \in Chains, NEW bits \in Seq(Bits)
  PROVE  Shift(c, bits).chain \in Chains
<1>1. PICK n \in Nat : n = Len(bits)
  BY LenProperties
<1>2. PICK f : Shifts(f, c, bits, n) /\ Shift(c, bits) = f[n]
  BY <1>1, ShiftShifts
<1> DEFINE S == {k \in Nat : k <= n => f[k].chain \in Chains}
<1>3. 0 \in S
  BY <1>2 DEF Shifts, ShiftStart
<1>4. ASSUME NEW k \in S PROVE k + 1 \in S
  <2> SUFFICES ASSUME k + 1 <= n PROVE f[k + 1].chain \in Chains
    OBVIOUS
  <2>1. k + 1 \in 1..n /\ (k + 1) - 1 = k /\ k <= n
    OBVIOUS
  <2>2. PICK tms, bit : tms = (IF k + 1 = n THEN 1 ELSE 0) /\ bit = bits[k + 1]
    OBVIOUS
  <2>3. tms \in Bits /\ bit \in Bits
    BY <1>1, <2>1, <2>2, ElementOfSeq DEF Bits
  <2>4. f[k + 1].chain = ClockChain(f[k].chain, tms, bit)
    <3>1. PICK x, y : x = f[k] /\ y = f[k + 1]
      OBVIOUS
    <3>2. y = ShiftStep(x, bits, k + 1)
      BY <1>2, <2>1, <3>1 DEF Shifts
    <3>3. y.chain = ClockChain(x.chain, tms, bit)
      BY <1>1, <2>2, <3>2 DEF ShiftStep
    <3> QED
      BY <3>1, <3>3
  <2>5. f[k].chain \in Chains
    BY <2>1
  <2> QED
    BY <2>3, <2>4, <2>5, ClockChainType, SMT
<1> HIDE DEF S
<1>5. S = Nat
  BY <1>3, <1>4, SetInduction DEF S
<1> QED
  BY <1>2, <1>5 DEF S

-------------------------------------------------------------------------------
(***************************************************************************)
(* Facts of the tables that scans rest on.                                 *)
(***************************************************************************)
\* A way ends a pause by the exit from it and the update.
LEMMA OutOfPause ==
  ASSUME NEW t \in TapStates
  PROVE  /\ t # DRPAUSE => PathTms(DRPAUSE, t) = 1 /\ Towards(DRPAUSE, t) = DREXIT2
         /\ t # DREXIT2 => PathTms(DREXIT2, t) = 1 /\ Towards(DREXIT2, t) = DRUPDATE
         /\ t # IRPAUSE => PathTms(IRPAUSE, t) = 1 /\ Towards(IRPAUSE, t) = IREXIT2
         /\ t # IREXIT2 => PathTms(IREXIT2, t) = 1 /\ Towards(IREXIT2, t) = IRUPDATE
<1>0. t \in {0, 1, 2, 3, 4, 5, 6, 7, 8, 9, 10, 11, 12, 13, 14, 15}
  BY DEF TapStates
<1>1. /\ jam_jtag_path_map[7] = 65471 /\ jam_jtag_path_map[8] = 65535
      /\ jam_jtag_path_map[14] = 57343 /\ jam_jtag_path_map[15] = 65535
  BY DEF jam_jtag_path_map
<1>2. t # 6 => PathTms(6, t) = 1
  BY <1>0, <1>1 DEF PathTms, Bit
<1>3. t # 7 => PathTms(7, t) = 1
  BY <1>0, <1>1 DEF PathTms, Bit
<1>4. t # 13 => PathTms(13, t) = 1
  BY <1>0, <1>1 DEF PathTms, Bit
<1>5. t # 14 => PathTms(14, t) = 1
  BY <1>0, <1>1 DEF PathTms, Bit
<1>6. /\ jam_jtag_state_transitions[7][1] = DREXIT2 /\ jam_jtag_state_transitions[8][1] = DRUPDATE
      /\ jam_jtag_state_transitions[14][1] = IREXIT2 /\ jam_jtag_state_transitions[15][1] = IRUPDATE
  BY DEF jam_jtag_state_transitions
<1> QED
  BY <1>2, <1>3, <1>4, <1>5, <1>6 DEF Towards, DRPAUSE, DREXIT2, IRPAUSE, IREXIT2

\* A way leads through the reset only to end there.
LEMMA ResetIfAsked ==
  ASSUME NEW s \in TapStates, NEW t \in TapStates, s # t, Towards(s, t) = RESET
  PROVE  t = RESET
<1>0. /\ t \in {0, 1, 2, 3, 4, 5, 6, 7, 8, 9, 10, 11, 12, 13, 14, 15}
      /\ s \in {0, 1, 2, 3, 4, 5, 6, 7, 8, 9, 10, 11, 12, 13, 14, 15}
  BY DEF TapStates
<1>1. CASE s = 0
  <2>1. jam_jtag_path_map[1] = 1 /\ jam_jtag_state_transitions[1] = <<0, 1>>
    BY DEF jam_jtag_path_map, jam_jtag_state_transitions, RESET, IDLE
  <2>2. PathTms(0, t) = 0
    BY <1>0, <1>1, <2>1 DEF PathTms, Bit
  <2> QED
    BY <1>1, <2>1, <2>2 DEF Towards, RESET
<1>2. CASE s = 9
  <2>1. jam_jtag_path_map[10] = 1 /\ jam_jtag_state_transitions[10] = <<0, 10>>
    BY DEF jam_jtag_path_map, jam_jtag_state_transitions, RESET, IRCAPTURE
  <2>2. t # 0 => PathTms(9, t) = 0
    BY <1>0, <1>2, <2>1 DEF PathTms, Bit
  <2> QED
    BY <1>2, <2>1, <2>2 DEF Towards, RESET
<1>3. CASE s \notin {0, 9}
  <2>1. jam_jtag_state_transitions[s + 1][1] # 0 /\ jam_jtag_state_transitions[s + 1][2] # 0
    BY <1>0, <1>3 DEF jam_jtag_state_transitions, RESET, IDLE, DRSELECT, DRCAPTURE, DRSHIFT, DREXIT1,
       DRPAUSE, DREXIT2, DRUPDATE, IRSELECT, IRCAPTURE, IRSHIFT, IREXIT1, IRPAUSE, IREXIT2, IRUPDATE
  <2>2. PathTms(s, t) \in {0, 1}
    BY PathTmsIsBit DEF Bits
  <2> QED
    BY <2>1, <2>2 DEF Towards, RESET
<1> QED
  BY <1>1, <1>2, <1>3

\* The way to the pause of the data column stays in the column.
LEMMA ToDataPause ==
  ASSUME NEW s \in DRSELECT..DRUPDATE, s # DRPAUSE
  PROVE  Towards(s, DRPAUSE) \in DRSELECT..DRUPDATE
<1>0. s \in {2, 3, 4, 5, 7, 8}
  BY DEF DRSELECT, DRUPDATE, DRPAUSE
<1>1. /\ jam_jtag_path_map[3] = 65025 /\ jam_jtag_path_map[4] = 65511 /\ jam_jtag_path_map[5] = 65519
      /\ jam_jtag_path_map[6] = 65295 /\ jam_jtag_path_map[8] = 65535 /\ jam_jtag_path_map[9] = 65277
  BY DEF jam_jtag_path_map
<1>2. Bit[7] = 64
  BY DEF Bit
<1>3. PathTms(2, 6) = 0 /\ PathTms(3, 6) = 1 /\ PathTms(4, 6) = 1 /\ PathTms(5, 6) = 0
      /\ PathTms(7, 6) = 1 /\ PathTms(8, 6) = 1
  BY <1>1, <1>2 DEF PathTms
<1>4. /\ jam_jtag_state_transitions[3][2] = 3 /\ jam_jtag_state_transitions[4][1] = 5
      /\ jam_jtag_state_transitions[5][1] = 5 /\ jam_jtag_state_transitions[6][2] = 6
      /\ jam_jtag_state_transitions[8][1] = 8 /\ jam_jtag_state_transitions[9][1] = 2
  BY DEF jam_jtag_state_transitions, DRSELECT, DRCAPTURE, DREXIT1, DRPAUSE, DRUPDATE
<1> QED
  BY <1>0, <1>3, <1>4 DEF Towards, DRSELECT, DRUPDATE, DRPAUSE

\* From the two updates every other state is as far.
LEMMA UpdatesAreAsFar ==
  ASSUME NEW t \in TapStates, t # IRUPDATE
  PROVE  Distance[DRUPDATE + 1][t + 1] <= Distance[IRUPDATE + 1][t + 1]
<1>0. t \in {0, 1, 2, 3, 4, 5, 6, 7, 8, 9, 10, 11, 12, 13, 14, 15}
  BY DEF TapStates
<1>1. /\ Distance[9] = <<3, 1, 1, 2, 3, 3, 4, 5, 0, 2, 3, 4, 4, 5, 6, 5>>
      /\ Distance[16] = <<3, 1, 1, 2, 3, 3, 4, 5, 4, 2, 3, 4, 4, 5, 6, 0>>
  BY DEF Distance
<1> QED
  BY <1>0, <1>1 DEF DRUPDATE, IRUPDATE

-------------------------------------------------------------------------------
(***************************************************************************)
(* The way into a scan.                                                    *)
(***************************************************************************)
\* What a clock that shifts no bit in makes of chain c.
ClockTells(c, d, b) ==
    /\ d \in Chains /\ d.tap = TapNext[c.tap + 1][b + 1]
    /\ c.tap # DRSHIFT => d.dr = IF c.tap = DRCAPTURE THEN DRCapture ELSE c.dr
    /\ c.tap # IRSHIFT => d.ir = IF c.tap = IRCAPTURE THEN IRCapture ELSE c.ir
    /\ d.tap = DRUPDATE => d.drLatch = d.dr
    /\ d.tap # DRUPDATE => d.drLatch = c.drLatch
    /\ d.tap = IRUPDATE => d.irLatch = d.ir
    /\ d.tap \notin {RESET, IRUPDATE} => d.irLatch = c.irLatch

LEMMA Clock ==
  ASSUME NEW c \in Chains, NEW b \in Bits, NEW d, d = ClockChain(c, b, 0)
  PROVE  ClockTells(c, d, b)
<1>1. 0 \in Bits
  BY DEF Bits
<1>2. /\ d \in Chains /\ d.tap = TapNext[c.tap + 1][b + 1]
      /\ c.tap # DRSHIFT => d.dr = IF c.tap = DRCAPTURE THEN DRCapture ELSE c.dr
      /\ c.tap # IRSHIFT => d.ir = IF c.tap = IRCAPTURE THEN IRCapture ELSE c.ir
  BY <1>1, ClockChainType
<1>3. /\ d.drLatch = IF d.tap = DRUPDATE THEN d.dr ELSE c.drLatch
      /\ d.irLatch = IF d.tap = RESET THEN IRReset ELSE IF d.tap = IRUPDATE THEN d.ir ELSE c.irLatch
  BY <1>1, ClockChainType
<1>4. IRUPDATE # RESET
  BY DEF IRUPDATE, RESET
<1> QED
  BY <1>2, <1>3, <1>4 DEF ClockTells

\* f goes from c to d by the clocks tms.
Walks(f, c, tms, n, d) ==
    /\ f[0] = c /\ f[n] = d
    /\ \A i \in 0..n : f[i] \in Chains
    /\ \A i \in 1..n : ClockTells(f[i - 1], f[i], tms[i])

LEMMA FewClocks ==
  ASSUME NEW c \in Chains, NEW tms \in Seq(Bits), NEW n, n = Len(tms),
         NEW d, d = Clocks(c, tms)
  PROVE  \E f : Walks(f, c, tms, n, d)
<1>1. n \in Nat /\ \A i \in 1..n : tms[i] \in Bits
  BY LenProperties, ElementOfSeq
<1>2. PICK f : Follows(f, c, tms, n) /\ Clocks(c, tms) = f[n]
  BY <1>1, ClocksFollow
<1> DEFINE S == {k \in Nat : k <= n => f[k] \in Chains}
<1>3. 0 \in S
  BY <1>2 DEF Follows
<1>4. ASSUME NEW k \in S PROVE k + 1 \in S
  <2> SUFFICES ASSUME k + 1 <= n PROVE f[k + 1] \in Chains
    OBVIOUS
  <2>1. k + 1 \in 1..n /\ (k + 1) - 1 = k /\ k <= n
    BY <1>1
  <2>2. f[k + 1] = ClockChain(f[k], tms[k + 1], 0)
    BY <1>2, <2>1 DEF Follows
  <2>3. f[k] \in Chains /\ tms[k + 1] \in Bits
    BY <1>1, <2>1
  <2> QED
    BY <2>2, <2>3, Clock DEF ClockTells
<1> HIDE DEF S
<1>5. S = Nat
  BY <1>3, <1>4, SetInduction, Zenon DEF S
<1>6. \A i \in 0..n : f[i] \in Chains
  BY <1>1, <1>5 DEF S
<1>7. ASSUME NEW i \in 1..n PROVE ClockTells(f[i - 1], f[i], tms[i])
  <2>1. f[i] = ClockChain(f[i - 1], tms[i], 0)
    BY <1>2 DEF Follows
  <2>2. f[i - 1] \in Chains /\ tms[i] \in Bits
    <3>1. i - 1 \in 0..n
      BY <1>1
    <3> QED
      BY <1>1, <1>6, <3>1
  <2> QED
    BY <2>1, <2>2, Clock
<1> QED
  BY <1>2, <1>6, <1>7 DEF Follows, Walks

\* A scan enters the shift state with what the register captures, an instruction scan
\* from IRPAUSE with what it holds.
LEMMA Entry ==
  ASSUME NEW register \in {DR, IR}, NEW s \in {IDLE, DRPAUSE, IRPAUSE},
         NEW c \in Chains, NEW d, d = Clocks(c, EntryOf(register)[s])
  PROVE  /\ d \in Chains
         /\ c.tap = s =>
              /\ d.tap = ShiftState(register)
              /\ Held(d, register) = IF register = DR THEN DRCapture
                                     ELSE IF s = IRPAUSE THEN c.ir ELSE IRCapture
              /\ register = DR /\ s # IRPAUSE => d.irLatch = c.irLatch
<1>0. /\ IDLE = 1 /\ DRSELECT = 2 /\ DRCAPTURE = 3 /\ DRSHIFT = 4 /\ DRPAUSE = 6 /\ DREXIT2 = 7
      /\ DRUPDATE = 8 /\ IRSELECT = 9 /\ IRCAPTURE = 10 /\ IRSHIFT = 11 /\ IRPAUSE = 13
      /\ IREXIT2 = 14 /\ IRUPDATE = 15 /\ RESET = 0
  BY DEF RESET, IDLE, DRSELECT, DRCAPTURE, DRSHIFT, DRPAUSE, DREXIT2, DRUPDATE, IRSELECT, IRCAPTURE,
     IRSHIFT, IRPAUSE, IREXIT2, IRUPDATE
<1>a. /\ TapNext[2][2] = 2 /\ TapNext[3][1] = 3 /\ TapNext[3][2] = 9 /\ TapNext[4][1] = 4
      /\ TapNext[7][2] = 7 /\ TapNext[8][2] = 8 /\ TapNext[9][2] = 2 /\ TapNext[10][1] = 10
      /\ TapNext[11][1] = 11 /\ TapNext[14][2] = 14 /\ TapNext[15][1] = 11 /\ TapNext[15][2] = 15
      /\ TapNext[16][2] = 2
  BY DEF TapNext, RESET, IDLE, DRSELECT, DRCAPTURE, DRSHIFT, DREXIT1, DRPAUSE, DREXIT2,
     DRUPDATE, IRSELECT, IRCAPTURE, IRSHIFT, IREXIT1, IRPAUSE, IREXIT2, IRUPDATE
<1>b. PICK tms : tms = EntryOf(register)[s]
  OBVIOUS
<1>1. CASE register = DR /\ s = IDLE
  <2>1. tms = <<1, 0, 0>>
    BY <1>0, <1>1, <1>b DEF EntryOf, DrEntry
  <2>2. tms \in Seq(Bits) /\ 3 = Len(tms) /\ tms[1] = 1 /\ tms[2] = 0 /\ tms[3] = 0
    BY <2>1 DEF Bits
  <2>3. PICK f : /\ f[0] = c /\ f[3] = d
                 /\ \A i \in 0..3 : f[i] \in Chains
                 /\ \A i \in 1..3 : ClockTells(f[i - 1], f[i], tms[i])
    <3>1. PICK n : n = 3
      OBVIOUS
    <3>2. tms \in Seq(Bits) /\ n = Len(tms) /\ d = Clocks(c, tms)
      BY <1>b, <2>2, <3>1
    <3>3. PICK f : Walks(f, c, tms, n, d)
      BY <3>2, FewClocks
    <3> QED
      BY <3>1, <3>3 DEF Walks
  <2>4. PICK c1, c2 : c1 = f[1] /\ c2 = f[2]
    OBVIOUS
  <2>5. ClockTells(c, c1, 1) /\ ClockTells(c1, c2, 0) /\ ClockTells(c2, d, 0)
    <3>1. ClockTells(f[0], f[1], tms[1]) /\ ClockTells(f[1], f[2], tms[2]) /\ ClockTells(f[2], f[3], tms[3])
      BY <2>3
    <3> QED
      BY <2>2, <2>3, <2>4, <3>1
  <2>6. d \in Chains
    BY <2>5, Zenon DEF ClockTells
  <2> SUFFICES ASSUME c.tap = s
               PROVE  /\ d.tap = ShiftState(register)
                      /\ Held(d, register) = IF register = DR THEN DRCapture
                                             ELSE IF s = IRPAUSE THEN c.ir ELSE IRCapture
                      /\ register = DR /\ s # IRPAUSE => d.irLatch = c.irLatch
    BY <2>6
  <2>7. c1.tap = 2 /\ c1.irLatch = c.irLatch /\ c1.ir = c.ir
    <3>1. ClockTells(c, c1, 1)
      BY <2>5
    <3> QED
      BY <1>0, <1>a, <1>1, <3>1 DEF ClockTells
  <2>8. c2.tap = 3 /\ c2.irLatch = c1.irLatch /\ c2.ir = c1.ir
    <3>1. ClockTells(c1, c2, 0)
      BY <2>5
    <3> QED
      BY <1>0, <1>a, <2>7, <3>1 DEF ClockTells
  <2>9. d.tap = 4 /\ d.irLatch = c2.irLatch /\ d.dr = DRCapture /\ d.ir = c2.ir
    <3>1. ClockTells(c2, d, 0)
      BY <2>5
    <3> QED
      BY <1>0, <1>a, <2>8, <3>1 DEF ClockTells
  <2> QED
    BY <1>0, <1>1, <2>7, <2>8, <2>9, RegistersDiffer DEF ShiftState, Held
<1>2. CASE register = DR /\ s = DRPAUSE
  <2>1. tms = <<1, 1, 1, 0, 0>>
    BY <1>0, <1>2, <1>b DEF EntryOf, DrEntry
  <2>2. tms \in Seq(Bits) /\ 5 = Len(tms) /\ tms[1] = 1 /\ tms[2] = 1 /\ tms[3] = 1 /\ tms[4] = 0 /\ tms[5] = 0
    BY <2>1 DEF Bits
  <2>3. PICK f : /\ f[0] = c /\ f[5] = d
                 /\ \A i \in 0..5 : f[i] \in Chains
                 /\ \A i \in 1..5 : ClockTells(f[i - 1], f[i], tms[i])
    <3>1. PICK n : n = 5
      OBVIOUS
    <3>2. tms \in Seq(Bits) /\ n = Len(tms) /\ d = Clocks(c, tms)
      BY <1>b, <2>2, <3>1
    <3>3. PICK f : Walks(f, c, tms, n, d)
      BY <3>2, FewClocks
    <3> QED
      BY <3>1, <3>3 DEF Walks
  <2>4. PICK c1, c2, c3, c4 : c1 = f[1] /\ c2 = f[2] /\ c3 = f[3] /\ c4 = f[4]
    OBVIOUS
  <2>5. ClockTells(c, c1, 1) /\ ClockTells(c1, c2, 1) /\ ClockTells(c2, c3, 1) /\ ClockTells(c3, c4, 0) /\ ClockTells(c4, d, 0)
    <3>1. ClockTells(f[0], f[1], tms[1]) /\ ClockTells(f[1], f[2], tms[2]) /\ ClockTells(f[2], f[3], tms[3]) /\ ClockTells(f[3], f[4], tms[4]) /\ ClockTells(f[4], f[5], tms[5])
      BY <2>3
    <3> QED
      BY <2>2, <2>3, <2>4, <3>1
  <2>6. d \in Chains
    BY <2>5, Zenon DEF ClockTells
  <2> SUFFICES ASSUME c.tap = s
               PROVE  /\ d.tap = ShiftState(register)
                      /\ Held(d, register) = IF register = DR THEN DRCapture
                                             ELSE IF s = IRPAUSE THEN c.ir ELSE IRCapture
                      /\ register = DR /\ s # IRPAUSE => d.irLatch = c.irLatch
    BY <2>6
  <2>7. c1.tap = 7 /\ c1.irLatch = c.irLatch /\ c1.ir = c.ir
    <3>1. ClockTells(c, c1, 1)
      BY <2>5
    <3> QED
      BY <1>0, <1>a, <1>2, <3>1 DEF ClockTells
  <2>8. c2.tap = 8 /\ c2.irLatch = c1.irLatch /\ c2.ir = c1.ir
    <3>1. ClockTells(c1, c2, 1)
      BY <2>5
    <3> QED
      BY <1>0, <1>a, <2>7, <3>1 DEF ClockTells
  <2>9. c3.tap = 2 /\ c3.irLatch = c2.irLatch /\ c3.ir = c2.ir
    <3>1. ClockTells(c2, c3, 1)
      BY <2>5
    <3> QED
      BY <1>0, <1>a, <2>8, <3>1 DEF ClockTells
  <2>10. c4.tap = 3 /\ c4.irLatch = c3.irLatch /\ c4.ir = c3.ir
    <3>1. ClockTells(c3, c4, 0)
      BY <2>5
    <3> QED
      BY <1>0, <1>a, <2>9, <3>1 DEF ClockTells
  <2>11. d.tap = 4 /\ d.irLatch = c4.irLatch /\ d.dr = DRCapture /\ d.ir = c4.ir
    <3>1. ClockTells(c4, d, 0)
      BY <2>5
    <3> QED
      BY <1>0, <1>a, <2>10, <3>1 DEF ClockTells
  <2> QED
    BY <1>0, <1>2, <2>7, <2>8, <2>9, <2>10, <2>11, RegistersDiffer, Zenon DEF ShiftState, Held
<1>3. CASE register = DR /\ s = IRPAUSE
  <2>1. tms = <<1, 1, 1, 0, 0>>
    BY <1>0, <1>3, <1>b DEF EntryOf, DrEntry
  <2>2. tms \in Seq(Bits) /\ 5 = Len(tms) /\ tms[1] = 1 /\ tms[2] = 1 /\ tms[3] = 1 /\ tms[4] = 0 /\ tms[5] = 0
    BY <2>1 DEF Bits
  <2>3. PICK f : /\ f[0] = c /\ f[5] = d
                 /\ \A i \in 0..5 : f[i] \in Chains
                 /\ \A i \in 1..5 : ClockTells(f[i - 1], f[i], tms[i])
    <3>1. PICK n : n = 5
      OBVIOUS
    <3>2. tms \in Seq(Bits) /\ n = Len(tms) /\ d = Clocks(c, tms)
      BY <1>b, <2>2, <3>1
    <3>3. PICK f : Walks(f, c, tms, n, d)
      BY <3>2, FewClocks
    <3> QED
      BY <3>1, <3>3 DEF Walks
  <2>4. PICK c1, c2, c3, c4 : c1 = f[1] /\ c2 = f[2] /\ c3 = f[3] /\ c4 = f[4]
    OBVIOUS
  <2>5. ClockTells(c, c1, 1) /\ ClockTells(c1, c2, 1) /\ ClockTells(c2, c3, 1) /\ ClockTells(c3, c4, 0) /\ ClockTells(c4, d, 0)
    <3>1. ClockTells(f[0], f[1], tms[1]) /\ ClockTells(f[1], f[2], tms[2]) /\ ClockTells(f[2], f[3], tms[3]) /\ ClockTells(f[3], f[4], tms[4]) /\ ClockTells(f[4], f[5], tms[5])
      BY <2>3
    <3> QED
      BY <2>2, <2>3, <2>4, <3>1
  <2>6. d \in Chains
    BY <2>5, Zenon DEF ClockTells
  <2> SUFFICES ASSUME c.tap = s
               PROVE  /\ d.tap = ShiftState(register)
                      /\ Held(d, register) = IF register = DR THEN DRCapture
                                             ELSE IF s = IRPAUSE THEN c.ir ELSE IRCapture
                      /\ register = DR /\ s # IRPAUSE => d.irLatch = c.irLatch
    BY <2>6
  <2>7. c1.tap = 14 /\ c1.irLatch = c.irLatch /\ c1.ir = c.ir
    <3>1. ClockTells(c, c1, 1)
      BY <2>5
    <3> QED
      BY <1>0, <1>a, <1>3, <3>1 DEF ClockTells
  <2>8. c2.tap = 15 /\ c2.ir = c1.ir
    <3>1. ClockTells(c1, c2, 1)
      BY <2>5
    <3> QED
      BY <1>0, <1>a, <2>7, <3>1 DEF ClockTells
  <2>9. c3.tap = 2 /\ c3.irLatch = c2.irLatch /\ c3.ir = c2.ir
    <3>1. ClockTells(c2, c3, 1)
      BY <2>5
    <3> QED
      BY <1>0, <1>a, <2>8, <3>1 DEF ClockTells
  <2>10. c4.tap = 3 /\ c4.irLatch = c3.irLatch /\ c4.ir = c3.ir
    <3>1. ClockTells(c3, c4, 0)
      BY <2>5
    <3> QED
      BY <1>0, <1>a, <2>9, <3>1 DEF ClockTells
  <2>11. d.tap = 4 /\ d.irLatch = c4.irLatch /\ d.dr = DRCapture /\ d.ir = c4.ir
    <3>1. ClockTells(c4, d, 0)
      BY <2>5
    <3> QED
      BY <1>0, <1>a, <2>10, <3>1 DEF ClockTells
  <2> QED
    BY <1>0, <1>3, <2>7, <2>8, <2>9, <2>10, <2>11, RegistersDiffer DEF ShiftState, Held
<1>4. CASE register = IR /\ s = IDLE
  <2>1. tms = <<1, 1, 0, 0>>
    BY <1>0, <1>4, <1>b, RegistersDiffer DEF EntryOf, IrEntry
  <2>2. tms \in Seq(Bits) /\ 4 = Len(tms) /\ tms[1] = 1 /\ tms[2] = 1 /\ tms[3] = 0 /\ tms[4] = 0
    BY <2>1 DEF Bits
  <2>3. PICK f : /\ f[0] = c /\ f[4] = d
                 /\ \A i \in 0..4 : f[i] \in Chains
                 /\ \A i \in 1..4 : ClockTells(f[i - 1], f[i], tms[i])
    <3>1. PICK n : n = 4
      OBVIOUS
    <3>2. tms \in Seq(Bits) /\ n = Len(tms) /\ d = Clocks(c, tms)
      BY <1>b, <2>2, <3>1
    <3>3. PICK f : Walks(f, c, tms, n, d)
      BY <3>2, FewClocks
    <3> QED
      BY <3>1, <3>3 DEF Walks
  <2>4. PICK c1, c2, c3 : c1 = f[1] /\ c2 = f[2] /\ c3 = f[3]
    OBVIOUS
  <2>5. ClockTells(c, c1, 1) /\ ClockTells(c1, c2, 1) /\ ClockTells(c2, c3, 0) /\ ClockTells(c3, d, 0)
    <3>1. ClockTells(f[0], f[1], tms[1]) /\ ClockTells(f[1], f[2], tms[2]) /\ ClockTells(f[2], f[3], tms[3]) /\ ClockTells(f[3], f[4], tms[4])
      BY <2>3
    <3> QED
      BY <2>2, <2>3, <2>4, <3>1
  <2>6. d \in Chains
    BY <2>5, Zenon DEF ClockTells
  <2> SUFFICES ASSUME c.tap = s
               PROVE  /\ d.tap = ShiftState(register)
                      /\ Held(d, register) = IF register = DR THEN DRCapture
                                             ELSE IF s = IRPAUSE THEN c.ir ELSE IRCapture
                      /\ register = DR /\ s # IRPAUSE => d.irLatch = c.irLatch
    BY <2>6
  <2>7. c1.tap = 2 /\ c1.irLatch = c.irLatch /\ c1.ir = c.ir
    <3>1. ClockTells(c, c1, 1)
      BY <2>5
    <3> QED
      BY <1>0, <1>a, <1>4, <3>1 DEF ClockTells
  <2>8. c2.tap = 9 /\ c2.irLatch = c1.irLatch /\ c2.ir = c1.ir
    <3>1. ClockTells(c1, c2, 1)
      BY <2>5
    <3> QED
      BY <1>0, <1>a, <2>7, <3>1 DEF ClockTells
  <2>9. c3.tap = 10 /\ c3.irLatch = c2.irLatch /\ c3.ir = c2.ir
    <3>1. ClockTells(c2, c3, 0)
      BY <2>5
    <3> QED
      BY <1>0, <1>a, <2>8, <3>1 DEF ClockTells
  <2>10. d.tap = 11 /\ d.irLatch = c3.irLatch /\ d.ir = IRCapture
    <3>1. ClockTells(c3, d, 0)
      BY <2>5
    <3> QED
      BY <1>0, <1>a, <2>9, <3>1 DEF ClockTells
  <2> QED
    BY <1>0, <1>4, <2>7, <2>8, <2>9, <2>10, RegistersDiffer DEF ShiftState, Held
<1>5. CASE register = IR /\ s = DRPAUSE
  <2>1. tms = <<1, 1, 1, 1, 0, 0>>
    BY <1>0, <1>5, <1>b, RegistersDiffer DEF EntryOf, IrEntry
  <2>2. tms \in Seq(Bits) /\ 6 = Len(tms) /\ tms[1] = 1 /\ tms[2] = 1 /\ tms[3] = 1 /\ tms[4] = 1 /\ tms[5] = 0 /\ tms[6] = 0
    BY <2>1 DEF Bits
  <2>3. PICK f : /\ f[0] = c /\ f[6] = d
                 /\ \A i \in 0..6 : f[i] \in Chains
                 /\ \A i \in 1..6 : ClockTells(f[i - 1], f[i], tms[i])
    <3>1. PICK n : n = 6
      OBVIOUS
    <3>2. tms \in Seq(Bits) /\ n = Len(tms) /\ d = Clocks(c, tms)
      BY <1>b, <2>2, <3>1
    <3>3. PICK f : Walks(f, c, tms, n, d)
      BY <3>2, FewClocks
    <3> QED
      BY <3>1, <3>3 DEF Walks
  <2>4. PICK c1, c2, c3, c4, c5 : c1 = f[1] /\ c2 = f[2] /\ c3 = f[3] /\ c4 = f[4] /\ c5 = f[5]
    OBVIOUS
  <2>5. ClockTells(c, c1, 1) /\ ClockTells(c1, c2, 1) /\ ClockTells(c2, c3, 1) /\ ClockTells(c3, c4, 1) /\ ClockTells(c4, c5, 0) /\ ClockTells(c5, d, 0)
    <3>1. ClockTells(f[0], f[1], tms[1]) /\ ClockTells(f[1], f[2], tms[2]) /\ ClockTells(f[2], f[3], tms[3]) /\ ClockTells(f[3], f[4], tms[4]) /\ ClockTells(f[4], f[5], tms[5]) /\ ClockTells(f[5], f[6], tms[6])
      BY <2>3
    <3> QED
      BY <2>2, <2>3, <2>4, <3>1
  <2>6. d \in Chains
    BY <2>5, Zenon DEF ClockTells
  <2> SUFFICES ASSUME c.tap = s
               PROVE  /\ d.tap = ShiftState(register)
                      /\ Held(d, register) = IF register = DR THEN DRCapture
                                             ELSE IF s = IRPAUSE THEN c.ir ELSE IRCapture
                      /\ register = DR /\ s # IRPAUSE => d.irLatch = c.irLatch
    BY <2>6
  <2>7. c1.tap = 7 /\ c1.irLatch = c.irLatch /\ c1.ir = c.ir
    <3>1. ClockTells(c, c1, 1)
      BY <2>5
    <3> QED
      BY <1>0, <1>a, <1>5, <3>1 DEF ClockTells
  <2>8. c2.tap = 8 /\ c2.irLatch = c1.irLatch /\ c2.ir = c1.ir
    <3>1. ClockTells(c1, c2, 1)
      BY <2>5
    <3> QED
      BY <1>0, <1>a, <2>7, <3>1 DEF ClockTells
  <2>9. c3.tap = 2 /\ c3.irLatch = c2.irLatch /\ c3.ir = c2.ir
    <3>1. ClockTells(c2, c3, 1)
      BY <2>5
    <3> QED
      BY <1>0, <1>a, <2>8, <3>1 DEF ClockTells
  <2>10. c4.tap = 9 /\ c4.irLatch = c3.irLatch /\ c4.ir = c3.ir
    <3>1. ClockTells(c3, c4, 1)
      BY <2>5
    <3> QED
      BY <1>0, <1>a, <2>9, <3>1 DEF ClockTells
  <2>11. c5.tap = 10 /\ c5.irLatch = c4.irLatch /\ c5.ir = c4.ir
    <3>1. ClockTells(c4, c5, 0)
      BY <2>5
    <3> QED
      BY <1>0, <1>a, <2>10, <3>1 DEF ClockTells
  <2>12. d.tap = 11 /\ d.irLatch = c5.irLatch /\ d.ir = IRCapture
    <3>1. ClockTells(c5, d, 0)
      BY <2>5
    <3> QED
      BY <1>0, <1>a, <2>11, <3>1 DEF ClockTells
  <2> QED
    BY <1>0, <1>5, <2>7, <2>8, <2>9, <2>10, <2>11, <2>12, RegistersDiffer DEF ShiftState, Held
<1>6. CASE register = IR /\ s = IRPAUSE
  <2>1. tms = <<1, 0>>
    BY <1>0, <1>6, <1>b, RegistersDiffer DEF EntryOf, IrEntry
  <2>2. tms \in Seq(Bits) /\ 2 = Len(tms) /\ tms[1] = 1 /\ tms[2] = 0
    BY <2>1 DEF Bits
  <2>3. PICK f : /\ f[0] = c /\ f[2] = d
                 /\ \A i \in 0..2 : f[i] \in Chains
                 /\ \A i \in 1..2 : ClockTells(f[i - 1], f[i], tms[i])
    <3>1. PICK n : n = 2
      OBVIOUS
    <3>2. tms \in Seq(Bits) /\ n = Len(tms) /\ d = Clocks(c, tms)
      BY <1>b, <2>2, <3>1
    <3>3. PICK f : Walks(f, c, tms, n, d)
      BY <3>2, FewClocks
    <3> QED
      BY <3>1, <3>3 DEF Walks
  <2>4. PICK c1 : c1 = f[1]
    OBVIOUS
  <2>5. ClockTells(c, c1, 1) /\ ClockTells(c1, d, 0)
    <3>1. ClockTells(f[0], f[1], tms[1]) /\ ClockTells(f[1], f[2], tms[2])
      BY <2>3
    <3> QED
      BY <2>2, <2>3, <2>4, <3>1
  <2>6. d \in Chains
    BY <2>5 DEF ClockTells
  <2> SUFFICES ASSUME c.tap = s
               PROVE  /\ d.tap = ShiftState(register)
                      /\ Held(d, register) = IF register = DR THEN DRCapture
                                             ELSE IF s = IRPAUSE THEN c.ir ELSE IRCapture
                      /\ register = DR /\ s # IRPAUSE => d.irLatch = c.irLatch
    BY <2>6
  <2>7. c1.tap = 14 /\ c1.irLatch = c.irLatch /\ c1.ir = c.ir
    <3>1. ClockTells(c, c1, 1)
      BY <2>5
    <3> QED
      BY <1>0, <1>a, <1>6, <3>1 DEF ClockTells
  <2>8. d.tap = 11 /\ d.irLatch = c1.irLatch /\ d.ir = c1.ir
    <3>1. ClockTells(c1, d, 0)
      BY <2>5
    <3> QED
      BY <1>0, <1>a, <2>7, <3>1 DEF ClockTells
  <2> QED
    BY <1>0, <1>6, <2>7, <2>8, RegistersDiffer DEF ShiftState, Held
<1> QED
  BY <1>1, <1>2, <1>3, <1>4, <1>5, <1>6

-------------------------------------------------------------------------------
(***************************************************************************)
(* The ways to the start of a scan and on from its end.                    *)
(***************************************************************************)
\* A move from another state is the way of the tables.
LEMMA GotoIsWay ==
  ASSUME NEW p, IsPort(p), NEW s \in TapStates, p.belief # ILLEGAL, p.belief # s,
         NEW R, <<p.chain, p.belief>> \in R,
         \A d, e : <<d, e>> \in R /\ e \in TapStates \ {s} =>
           <<ClockChain(d, PathTms(e, s), 0), Towards(e, s)>> \in R
  PROVE  <<jam_goto_jtag_state(p, s).chain, s>> \in R
<1>1. PICK w : w = Ways[p.belief + 1][s + 1]
  OBVIOUS
<1>2. jam_goto_jtag_state(p, s).chain = Clocks(p.chain, w.tms)
  BY <1>1 DEF jam_goto_jtag_state
<1>3. p.belief \in TapStates
  BY DEF IsPort
<1>4. <<Clocks(p.chain, w.tms), s>> \in R
  BY <1>1, <1>3, WayKeeps
<1> QED
  BY <1>2, <1>4

\* The clock of a step.
LEMMA StepIs ==
  ASSUME NEW e \in TapStates, NEW t \in TapStates
  PROVE  /\ PathTms(e, t) \in Bits /\ Towards(e, t) \in TapStates
         /\ Towards(e, t) = TapNext[e + 1][PathTms(e, t) + 1]
<1>1. PICK b \in Bits : b = PathTms(e, t)
  BY PathTmsIsBit
<1>2. /\ TapNext[e + 1][b + 1] \in TapStates
      /\ jam_jtag_state_transitions[e + 1][2 - b] = TapNext[e + 1][b + 1]
  BY TablesAgree
<1> QED
  BY <1>1, <1>2 DEF Towards

LEMMA ToStart ==
  ASSUME NEW p, IsPort(p), p.belief \in IDLE..DRUPDATE, p.chain.tap = p.belief,
         NEW q, q = GotoUnlessThere(p, StartState(p.belief))
  PROVE  q.chain.irLatch = p.chain.irLatch
<1>1. p.belief = IDLE \/ p.belief \in DRSELECT..DRUPDATE
  BY DEF IDLE, DRSELECT, DRUPDATE
<1>2. CASE p.belief = IDLE
  <2>1. StartState(p.belief) = IDLE
    BY <1>2 DEF StartState, DRSELECT, DRUPDATE, IDLE, RESET, ILLEGAL, IRSELECT, IRUPDATE
  <2> QED
    BY <1>2, <2>1 DEF GotoUnlessThere
<1>3. CASE p.belief \in DRSELECT..DRUPDATE
  <2>1. StartState(p.belief) = DRPAUSE
    BY <1>3 DEF StartState, DRSELECT, DRUPDATE, IDLE, RESET, ILLEGAL, IRSELECT, IRUPDATE
  <2>2. CASE p.belief = DRPAUSE
    BY <2>1, <2>2 DEF GotoUnlessThere
  <2>3. CASE p.belief # DRPAUSE
    <3> DEFINE R == {x \in Chains \X (DRSELECT..DRUPDATE) :
                       x[1].tap = x[2] /\ x[1].irLatch = p.chain.irLatch}
    <3>1. <<p.chain, p.belief>> \in R
      BY <1>3 DEF IsPort
    <3>2. ASSUME NEW d, NEW e, <<d, e>> \in R, e \in TapStates \ {DRPAUSE}
          PROVE  <<ClockChain(d, PathTms(e, DRPAUSE), 0), Towards(e, DRPAUSE)>> \in R
      <4>1. /\ d \in Chains /\ e \in DRSELECT..DRUPDATE /\ e # DRPAUSE
            /\ d.tap = e /\ d.irLatch = p.chain.irLatch
        BY <3>2
      <4>2. PICK b, g : b = PathTms(e, DRPAUSE) /\ g = ClockChain(d, b, 0)
        OBVIOUS
      <4>3. DRPAUSE \in TapStates /\ e \in TapStates
        BY <3>2, StatesDiffer
      <4>4. b \in Bits /\ Towards(e, DRPAUSE) = TapNext[e + 1][b + 1]
        BY <4>2, <4>3, StepIs
      <4>5. ClockTells(d, g, b)
        BY <4>1, <4>2, <4>4, Clock
      <4>6. g.tap = Towards(e, DRPAUSE) /\ g \in Chains
        BY <4>1, <4>4, <4>5 DEF ClockTells
      <4>7. Towards(e, DRPAUSE) \in DRSELECT..DRUPDATE
        BY <4>1, ToDataPause
      <4>8. g.irLatch = d.irLatch
        <5>1. g.tap \notin {RESET, IRUPDATE}
          BY <4>6, <4>7 DEF RESET, IRUPDATE, DRSELECT, DRUPDATE
        <5> QED
          BY <4>5, <5>1 DEF ClockTells
      <4> QED
        BY <4>1, <4>2, <4>6, <4>7, <4>8
    <3>3. DRPAUSE \in TapStates /\ p.belief # ILLEGAL
      BY <1>3, StatesDiffer DEF DRSELECT, DRUPDATE, ILLEGAL
    <3>4. <<jam_goto_jtag_state(p, DRPAUSE).chain, DRPAUSE>> \in R
      <4> HIDE DEF R
      <4> QED
        BY <2>3, <3>1, <3>2, <3>3, GotoIsWay
    <3> QED
      BY <2>1, <2>3, <3>4 DEF GotoUnlessThere
  <2> QED
    BY <2>2, <2>3
<1> QED
  BY <1>1, <1>2, <1>3

\* From the pause of a data scan on: the devices take the register over, and the
\* instruction stays.  (A scan of no bits leaves the TAP in DRSHIFT.)
LEMMA OutOfDataScan ==
  ASSUME NEW p, IsPort(p), p.belief = DRPAUSE, p.chain.tap \in {DRPAUSE, DRSHIFT},
         NEW s \in TapStates, s # DRPAUSE, NEW q, q = jam_goto_jtag_state(p, s)
  PROVE  /\ p.chain.tap = DRPAUSE /\ s # DREXIT2 => q.chain.drLatch = p.chain.dr
         /\ s \notin {RESET, IRUPDATE} => q.chain.irLatch = p.chain.irLatch
<1> DEFINE Far(e) == Distance[e + 1][s + 1]
           Before(d, e) == \/ d.tap = DRPAUSE /\ e = DRPAUSE
                           \/ d.tap = DRSHIFT /\ e = DRPAUSE
                           \/ d.tap = DREXIT2 /\ e = DREXIT2
                           \/ d.tap = DREXIT1 /\ e = DREXIT2
           After(d, e) == d.tap = e /\ Far(e) <= Far(DRUPDATE)
           Kept(d, e) == /\ Before(d, e) \/ After(d, e)
                         /\ s \notin {RESET, IRUPDATE} => d.irLatch = p.chain.irLatch
                         /\ p.chain.tap = DRPAUSE =>
                              \/ e \in {DRPAUSE, DREXIT2} /\ d.tap = e /\ d.dr = p.chain.dr
                              \/ After(d, e) /\ d.drLatch = p.chain.dr
           R == {x \in Chains \X TapStates : Kept(x[1], x[2])}
<1>1. <<p.chain, p.belief>> \in R
  BY StatesDiffer DEF IsPort
<1>2. ASSUME NEW d, NEW e, <<d, e>> \in R, e \in TapStates \ {s}
      PROVE  <<ClockChain(d, PathTms(e, s), 0), Towards(e, s)>> \in R
  <2>1. d \in Chains /\ e \in TapStates /\ e # s /\ Kept(d, e)
    BY <1>2
  <2>2. PICK b, g, to : b = PathTms(e, s) /\ g = ClockChain(d, b, 0) /\ to = Towards(e, s)
    OBVIOUS
  <2>3. b \in Bits /\ to \in TapStates /\ to = TapNext[e + 1][b + 1]
    BY <2>1, <2>2, StepIs
  <2>4. ClockTells(d, g, b)
    BY <2>1, <2>2, <2>3, Clock
  <2>5. g \in Chains /\ g.tap = TapNext[d.tap + 1][b + 1]
    BY <2>4 DEF ClockTells
  <2>6. Far(to) = Far(e) - 1 /\ Far(e) \in 0..8 /\ Far(DRUPDATE) \in 0..8
    <3>1. DRUPDATE \in TapStates
      BY StatesDiffer
    <3> QED
      BY <2>1, <2>2, <3>1, Closer, DistanceIsSmall
  <2>7. \/ e = DRPAUSE /\ to = DREXIT2 /\ b = 1
        \/ e = DREXIT2 /\ to = DRUPDATE /\ b = 1
        \/ e \notin {DRPAUSE, DREXIT2}
    BY <2>1, <2>2, OutOfPause
  <2>8. /\ TapNext[DRPAUSE + 1][2] = DREXIT2 /\ TapNext[DREXIT2 + 1][2] = DRUPDATE
        /\ TapNext[DRSHIFT + 1][2] = DREXIT1 /\ TapNext[DREXIT1 + 1][2] = DRUPDATE
    BY DEF TapNext, DRPAUSE, DREXIT2, DRUPDATE, DRSHIFT, DREXIT1
  <2>9. /\ DRPAUSE \notin {DREXIT2, DRSHIFT, DRCAPTURE, DRUPDATE, RESET, IRUPDATE}
        /\ DREXIT2 \notin {DRSHIFT, DRCAPTURE, DRUPDATE, RESET, IRUPDATE}
        /\ DREXIT1 \notin {RESET, IRUPDATE} /\ DRUPDATE \notin {RESET, IRUPDATE}
    BY DEF RESET, DRCAPTURE, DRSHIFT, DREXIT1, DRPAUSE, DREXIT2, DRUPDATE, IRUPDATE
  <2>10. Before(g, to) \/ After(g, to)
    <3>1. CASE After(d, e)
      BY <2>3, <2>5, <2>6, <3>1
    <3>2. CASE Before(d, e)
      BY <2>5, <2>7, <2>8, <2>9, <2>6, <3>2
    <3> QED
      BY <2>1, <3>1, <3>2
  <2>11. ASSUME s \notin {RESET, IRUPDATE} PROVE g.irLatch = p.chain.irLatch
    <3>1. g.tap \notin {RESET, IRUPDATE}
      <4>1. CASE After(d, e)
        <5>1. g.tap = to
          BY <2>3, <2>5, <4>1
        <5>2. to # RESET
          BY <2>1, <2>2, <2>11, ResetIfAsked
        <5>3. Far(to) < Far(DRUPDATE)
          BY <2>6, <4>1
        <5>4. Far(DRUPDATE) <= Far(IRUPDATE) /\ Far(IRUPDATE) \in 0..8
          <6>1. IRUPDATE \in TapStates
            BY StatesDiffer
          <6> QED
            BY <2>11, <6>1, UpdatesAreAsFar, DistanceIsSmall
        <5>5. to # IRUPDATE
          BY <2>6, <5>3, <5>4
        <5> QED
          BY <5>1, <5>2, <5>5
      <4>2. CASE Before(d, e)
        BY <2>5, <2>7, <2>8, <2>9, <4>2
      <4> QED
        BY <2>1, <4>1, <4>2
    <3>2. g.irLatch = d.irLatch
      BY <2>4, <3>1 DEF ClockTells
    <3> QED
      BY <2>1, <2>11, <3>2
  <2>12. ASSUME p.chain.tap = DRPAUSE
         PROVE  \/ to \in {DRPAUSE, DREXIT2} /\ g.tap = to /\ g.dr = p.chain.dr
                \/ After(g, to) /\ g.drLatch = p.chain.dr
    <3>1. CASE e \in {DRPAUSE, DREXIT2} /\ d.tap = e /\ d.dr = p.chain.dr
      <4>1. g.dr = d.dr
        BY <2>4, <2>9, <3>1 DEF ClockTells
      <4>2. CASE e = DRPAUSE
        BY <2>5, <2>7, <2>8, <2>9, <3>1, <4>1, <4>2
      <4>3. CASE e = DREXIT2
        <5>1. to = DRUPDATE /\ g.tap = DRUPDATE
          BY <2>5, <2>7, <2>8, <2>9, <3>1, <4>3
        <5>2. g.drLatch = g.dr
          BY <2>4, <5>1 DEF ClockTells
        <5> QED
          BY <2>6, <3>1, <4>1, <5>1, <5>2
      <4> QED
        BY <3>1, <4>2, <4>3
    <3>2. CASE After(d, e) /\ d.drLatch = p.chain.dr
      <4>1. g.tap = to /\ Far(to) < Far(DRUPDATE)
        BY <2>3, <2>5, <2>6, <3>2
      <4>2. to # DRUPDATE
        BY <2>6, <4>1
      <4>3. g.drLatch = d.drLatch
        BY <2>4, <4>1, <4>2 DEF ClockTells
      <4> QED
        BY <2>6, <3>2, <4>1, <4>3
    <3> QED
      BY <2>1, <2>12, <3>1, <3>2
  <2> QED
    BY <2>2, <2>3, <2>5, <2>10, <2>11, <2>12
<1>3. <<q.chain, s>> \in R
  <2> HIDE DEF R
  <2> QED
    BY <1>1, <1>2, StatesDiffer, GotoIsWay
<1> QED
  BY <1>3

\* From the pause of an instruction scan on: the devices take the instruction over.
LEMMA OutOfInstructionScan ==
  ASSUME NEW p, IsPort(p), p.belief = IRPAUSE, p.chain.tap = IRPAUSE,
         NEW s \in TapStates, s \notin {IRPAUSE, IREXIT2, RESET}, NEW q, q = jam_goto_jtag_state(p, s)
  PROVE  q.chain.irLatch = p.chain.ir
<1> DEFINE Far(e) == Distance[e + 1][s + 1]
           After(d, e) == Far(e) <= Far(IRUPDATE) /\ d.irLatch = p.chain.ir
           Kept(d, e) == /\ d.tap = e
                         /\ (e \in {IRPAUSE, IREXIT2} /\ d.ir = p.chain.ir) \/ After(d, e)
           R == {x \in Chains \X TapStates : Kept(x[1], x[2])}
<1>1. <<p.chain, p.belief>> \in R
  BY StatesDiffer DEF IsPort
<1>2. ASSUME NEW d, NEW e, <<d, e>> \in R, e \in TapStates \ {s}
      PROVE  <<ClockChain(d, PathTms(e, s), 0), Towards(e, s)>> \in R
  <2>1. d \in Chains /\ e \in TapStates /\ e # s /\ Kept(d, e)
    BY <1>2
  <2>2. PICK b, g, to : b = PathTms(e, s) /\ g = ClockChain(d, b, 0) /\ to = Towards(e, s)
    OBVIOUS
  <2>3. b \in Bits /\ to \in TapStates /\ to = TapNext[e + 1][b + 1]
    BY <2>1, <2>2, StepIs
  <2>4. ClockTells(d, g, b)
    BY <2>1, <2>2, <2>3, Clock
  <2>5. g \in Chains /\ g.tap = to
    BY <2>1, <2>3, <2>4 DEF ClockTells
  <2>6. Far(to) = Far(e) - 1 /\ Far(e) \in 0..8 /\ Far(IRUPDATE) \in 0..8
    <3>1. IRUPDATE \in TapStates
      BY StatesDiffer
    <3> QED
      BY <2>1, <2>2, <3>1, Closer, DistanceIsSmall
  <2>7. \/ e = IRPAUSE /\ to = IREXIT2
        \/ e = IREXIT2 /\ to = IRUPDATE
        \/ e \notin {IRPAUSE, IREXIT2}
    BY <2>1, <2>2, OutOfPause
  <2>8. /\ IRPAUSE \notin {IREXIT2, IRSHIFT, IRCAPTURE, IRUPDATE}
        /\ IREXIT2 \notin {IRSHIFT, IRCAPTURE, IRUPDATE}
    BY DEF IRCAPTURE, IRSHIFT, IRPAUSE, IREXIT2, IRUPDATE
  <2>9. to # RESET
    BY <2>1, <2>2, ResetIfAsked
  <2>10. (to \in {IRPAUSE, IREXIT2} /\ g.ir = p.chain.ir) \/ After(g, to)
    <3>1. CASE e \in {IRPAUSE, IREXIT2} /\ d.ir = p.chain.ir
      <4>1. g.ir = d.ir
        BY <2>1, <2>4, <2>8, <3>1 DEF ClockTells
      <4>2. CASE e = IRPAUSE
        BY <2>7, <2>8, <3>1, <4>1, <4>2
      <4>3. CASE e = IREXIT2
        <5>1. to = IRUPDATE
          BY <2>7, <2>8, <4>3
        <5>2. g.irLatch = g.ir
          BY <2>4, <2>5, <5>1 DEF ClockTells
        <5> QED
          BY <2>6, <3>1, <4>1, <5>1, <5>2
      <4> QED
        BY <3>1, <4>2, <4>3
    <3>2. CASE After(d, e)
      <4>1. Far(to) < Far(IRUPDATE)
        BY <2>6, <3>2
      <4>2. to # IRUPDATE
        BY <2>6, <4>1
      <4>3. g.irLatch = d.irLatch
        BY <2>4, <2>5, <2>9, <4>2 DEF ClockTells
      <4> QED
        BY <2>6, <3>2, <4>1, <4>3
    <3> QED
      BY <2>1, <3>1, <3>2
  <2> QED
    BY <2>2, <2>3, <2>5, <2>10
<1>3. <<q.chain, s>> \in R
  <2> HIDE DEF R
  <2> QED
    BY <1>1, <1>2, StatesDiffer, GotoIsWay
<1> QED
  BY <1>3

-------------------------------------------------------------------------------
(***************************************************************************)
(* The padding.                                                            *)
(***************************************************************************)
LEMMA DivisionIs ==
  ASSUME NEW n \in Nat, NEW w \in Nat \ {0}
  PROVE  /\ n \div w \in Nat /\ n % w \in 0..(w - 1)
         /\ n = w * (n \div w) + (n % w)
OBVIOUS

\* A buffer is long enough for its bits.
LEMMA WordsEnough ==
  ASSUME NEW n \in Nat
  PROVE  Words(n) \in Nat /\ n <= Words(n)
<1>1. PICK m \in Nat : m = n + WordBits - 1
  BY WordAssumption
<1>2. PICK q \in Nat, r \in 0..(WordBits - 1) : q = m \div WordBits /\ r = m % WordBits
  BY WordAssumption, DivisionIs
<1>3. m = WordBits * q + r
  BY <1>2, WordAssumption, DivisionIs
<1>4. Words(n) = q * WordBits
  BY <1>1, <1>2 DEF Words
<1>5. q * WordBits = WordBits * q /\ WordBits * q \in Nat
  BY WordAssumption
<1>6. PICK x \in Nat : x = WordBits * q
  BY <1>5
<1> QED
  BY <1>1, <1>3, <1>4, <1>5, <1>6, WordAssumption

LEMMA SameRest ==
  ASSUME NEW w \in Nat \ {0}, NEW a \in Nat, NEW i \in Nat, a % w = 0
  PROVE  (a + i) % w = i % w
<1>1. PICK k \in Nat : k = a \div w /\ a = w * k
  <2>1. a \div w \in Nat /\ a = w * (a \div w) + (a % w)
    BY DivisionIs
  <2>2. PICK k \in Nat : k = a \div w
    BY <2>1
  <2>3. w * k \in Nat
    OBVIOUS
  <2> QED
    BY <2>1, <2>2, <2>3
<1>2. PICK q \in Nat, r \in 0..(w - 1) : q = i \div w /\ r = i % w /\ i = w * q + r
  BY DivisionIs
<1>3. a + i = w * (k + q) + r
  BY <1>1, <1>2
<1>4. PICK m \in Nat : m = k + q
  OBVIOUS
<1>5. (w * m + r) % w = r
  OBVIOUS
<1> QED
  BY <1>2, <1>3, <1>4, <1>5

\* The bits of an array that starts at a word are stored where they belong.
LEMMA PlaceIs ==
  ASSUME NEW p, p.start \in Nat, p.start % WordBits = 0, NEW i \in Nat
  PROVE  Place(p, i) = i
<1>1. (p.start + i) % WordBits = i % WordBits
  BY SameRest, WordAssumption
<1>2. PICK q \in Nat, r \in 0..(WordBits - 1) :
         q = i \div WordBits /\ r = i % WordBits /\ i = WordBits * q + r
  <2>1. PICK w \in Nat \ {0} : w = WordBits
    BY WordAssumption
  <2>2. /\ i \div w \in Nat /\ i % w \in 0..(w - 1)
        /\ i = w * (i \div w) + (i % w)
    BY DivisionIs
  <2> QED
    BY <2>1, <2>2
<1>3. Place(p, i) = q * WordBits + r
  BY <1>1, <1>2 DEF Place
<1> QED
  BY <1>2, <1>3, WordAssumption

\* What an array may hold, and what a statement may ask for.
Asks(p) ==
    /\ p.count \in Nat /\ p.start \in Nat /\ p.data \in Seq(Bits)
    /\ p.data # <<>> => p.start + p.count <= Len(p.data)
BitsAsked(p) == [i \in 1..p.count |-> BitAsked(p, i - 1)]

LEMMA BitIs ==
  ASSUME NEW p, Asks(p), NEW i \in 0..(p.count - 1)
  PROVE  BitAsked(p, i) \in Bits
<1>1. CASE p.data = <<>>
  BY <1>1 DEF BitAsked, Bits
<1>2. CASE p.data # <<>>
  <2>1. PICK d, k : d = p.data /\ k = p.start + i + 1
    OBVIOUS
  <2>2. d \in Seq(Bits) /\ Len(d) \in Nat
    BY <2>1, LenProperties DEF Asks
  <2>3. k \in 1..Len(d)
    <3>1. PICK first, count : first = p.start /\ count = p.count
      OBVIOUS
    <3>2. first \in Nat /\ count \in Nat /\ first + count <= Len(d)
      BY <1>2, <2>1, <3>1 DEF Asks
    <3>3. i \in 0..(count - 1) /\ k = first + i + 1
      BY <2>1, <3>1
    <3> QED
      BY <2>2, <3>2, <3>3
  <2> QED
    BY <1>2, <2>1, <2>2, <2>3, ElementOfSeq DEF BitAsked
<1> QED
  BY <1>1, <1>2

LEMMA StoredIs ==
  ASSUME NEW p, Asks(p), NEW words \in Seq(Bits), p.count <= Len(words)
  PROVE  /\ Stored(p, words) \in Seq(Bits) /\ Len(Stored(p, words)) = Len(words)
         /\ BitsAsked(p) \in Seq(Bits) /\ Len(BitsAsked(p)) = p.count
         /\ p.start % WordBits = 0 => SubSeq(Stored(p, words), 1, p.count) = BitsAsked(p)
<1>1. PICK n, m : n = p.count /\ m = Len(words)
  OBVIOUS
<1>2. n \in Nat /\ m \in Nat /\ n <= m /\ p.start \in Nat
  BY <1>1, LenProperties DEF Asks
<1>3. PICK s : s = Stored(p, words)
  OBVIOUS
<1>4. s = [k \in 1..m |->
            IF \E i \in 0..(n - 1) : Place(p, i) = k - 1
            THEN BitAsked(p, CHOOSE i \in 0..(n - 1) : Place(p, i) = k - 1)
            ELSE words[k]]
  BY <1>1, <1>3 DEF Stored
<1>5. ASSUME NEW k \in 1..m PROVE s[k] \in Bits
  <2>1. CASE \E i \in 0..(n - 1) : Place(p, i) = k - 1
    <3>1. PICK j : j = CHOOSE i \in 0..(n - 1) : Place(p, i) = k - 1
      OBVIOUS
    <3>2. j \in 0..(n - 1)
      BY <2>1, <3>1
    <3>3. s[k] = BitAsked(p, j)
      BY <1>4, <2>1, <3>1
    <3> QED
      BY <1>1, <3>2, <3>3, BitIs
  <2>2. CASE ~\E i \in 0..(n - 1) : Place(p, i) = k - 1
    <3>1. words[k] \in Bits
      BY <1>1, ElementOfSeq
    <3> QED
      BY <1>4, <2>2, <3>1
  <2> QED
    BY <2>1, <2>2
<1>6. s \in Registers(m)
  BY <1>4, <1>5 DEF Registers
<1>7. s \in Seq(Bits) /\ Len(s) = m
  BY <1>2, <1>6, RegisterIsSeq
<1>8. PICK a : a = BitsAsked(p)
  OBVIOUS
<1>9. a = [i \in 1..n |-> BitAsked(p, i - 1)]
  BY <1>1, <1>8 DEF BitsAsked
<1>10. a \in Registers(n)
  <2>1. ASSUME NEW i \in 1..n PROVE BitAsked(p, i - 1) \in Bits
    <3>1. i - 1 \in 0..(p.count - 1)
      BY <1>1, <1>2
    <3> QED
      BY <3>1, BitIs
  <2> QED
    BY <1>9, <2>1 DEF Registers
<1>11. a \in Seq(Bits) /\ Len(a) = n
  BY <1>2, <1>10, RegisterIsSeq
<1>12. ASSUME p.start % WordBits = 0 PROVE SubSeq(s, 1, n) = a
  <2>1. ASSUME NEW k \in 1..n PROVE s[k] = a[k]
    <3>1. PICK i : i = k - 1
      OBVIOUS
    <3>2. i \in 0..(n - 1) /\ i \in Nat /\ k \in 1..m
      BY <1>2, <3>1
    <3>3. Place(p, i) = i
      BY <1>2, <1>12, <3>2, PlaceIs
    <3>4. \A j \in 0..(n - 1) : Place(p, j) = j
      BY <1>2, <1>12, PlaceIs
    <3>5. PICK j : j = CHOOSE x \in 0..(n - 1) : Place(p, x) = k - 1
      OBVIOUS
    <3>6. j \in 0..(n - 1) /\ Place(p, j) = k - 1
      BY <3>1, <3>2, <3>3, <3>5
    <3>7. j = i
      BY <3>1, <3>4, <3>6
    <3>8. s[k] = BitAsked(p, j)
      BY <1>4, <3>1, <3>2, <3>3, <3>5
    <3> QED
      BY <1>9, <3>1, <3>7, <3>8
  <2>2. SubSeq(s, 1, n) = [k \in 1..n |-> s[k]]
    BY <1>2, <1>7, SubSeqProperties
  <2> QED
    BY <1>9, <2>1, <2>2
<1> QED
  BY <1>1, <1>3, <1>7, <1>8, <1>11, <1>12

-------------------------------------------------------------------------------
(***************************************************************************)
(* The invariant.                                                          *)
(***************************************************************************)
Buffer == [count : Nat, words : Seq(Bits)]
Ask == [bits : Seq(Bits), start : Nat]

\* The buffer holds what was asked for, if that began at a word of its array.
Fits(buffer, ask) ==
    /\ buffer.count <= Len(buffer.words)
    /\ ask.start % WordBits = 0 => SubSeq(buffer.words, 1, buffer.count) = ask.bits

PortOK ==
    /\ chain \in Chains
    /\ jam_jtag_state \in TapStates \cup {ILLEGAL}
    /\ stray \in BOOLEAN
    /\ BeliefIsTap
StopsOK == jam_drstop_state \in TapStates /\ jam_irstop_state \in TapStates
PaddingOK ==
    /\ padding \in [Sides -> Buffer]
    /\ asked \in [Sides -> Ask]
    /\ status = "SUCCESS" => \A side \in Sides : Fits(padding[side], asked[side])
Inv == PortOK /\ StopsOK /\ PaddingOK /\ NeverLost

LEMMA StoredFits ==
  ASSUME NEW p, Asks(p), NEW words \in Seq(Bits), p.count <= Len(words),
         NEW buffer, buffer = [count |-> p.count, words |-> Stored(p, words)],
         NEW ask, ask = [bits |-> BitsAsked(p), start |-> p.start]
  PROVE  buffer \in Buffer /\ ask \in Ask /\ Fits(buffer, ask)
<1>1. PICK s, a : s = Stored(p, words) /\ a = BitsAsked(p)
  OBVIOUS
<1>2. /\ s \in Seq(Bits) /\ Len(s) = Len(words) /\ a \in Seq(Bits)
      /\ p.start % WordBits = 0 => SubSeq(s, 1, p.count) = a
  BY <1>1, StoredIs
<1>3. p.count \in Nat /\ p.start \in Nat
  BY DEF Asks
<1>4. buffer = [count |-> p.count, words |-> s] /\ ask = [bits |-> a, start |-> p.start]
  BY <1>1
<1> QED
  BY <1>2, <1>3, <1>4 DEF Buffer, Ask, Fits

LEMMA BuffersFit ==
  ASSUME PaddingOK, status = "SUCCESS", NEW side \in Sides, NEW count \in Nat,
         NEW words \in Buffers(side, count)
  PROVE  words \in Seq(Bits) /\ count <= Len(words)
<1>1. PICK buffer : buffer = padding[side]
  OBVIOUS
<1>2. buffer \in Buffer /\ buffer.count <= Len(buffer.words)
  BY <1>1 DEF PaddingOK, Fits
<1>3. buffer.count \in Nat /\ buffer.words \in Seq(Bits)
  BY <1>2 DEF Buffer
<1>4. CASE count > buffer.count
  <2>1. PICK b \in {0, 1} : words = [k \in 1..Words(count) |-> b]
    BY <1>1, <1>4 DEF Buffers
  <2>2. words \in Registers(Words(count))
    BY <2>1 DEF Registers, Bits
  <2> QED
    BY <2>2, WordsEnough, RegisterIsSeq
<1>5. CASE ~(count > buffer.count)
  <2>1. words = buffer.words
    BY <1>1, <1>5 DEF Buffers
  <2>2. Len(buffer.words) \in Nat
    BY <1>3, LenProperties
  <2> QED
    BY <1>2, <1>3, <1>5, <2>1, <2>2
<1> QED
  BY <1>4, <1>5

LEMMA PrePostInv ==
  ASSUME Inv, NEW side \in Sides, NEW p \in Paddings, PrePost(side, p)
  PROVE  Inv'
<1>1. status = "SUCCESS" /\ UNCHANGED <<chain, jam_jtag_state, stray, jam_drstop_state, jam_irstop_state>>
  BY DEF PrePost, Sets
<1>2. PortOK' /\ StopsOK'
  BY <1>1 DEF Inv, PortOK, StopsOK, BeliefIsTap
<1>3. /\ padding \in [Sides -> Buffer] /\ asked \in [Sides -> Ask]
      /\ \A s \in Sides : Fits(padding[s], asked[s])
  BY <1>1 DEF Inv, PaddingOK
<1>4. p.count \in Nat /\ p.start \in Nat /\ p.data \in Seq(Bits)
  BY PaddingsAssumption DEF Bits
<1>5. CASE status' = "BOUNDS_ERROR" /\ UNCHANGED <<padding, asked>>
  BY <1>2, <1>3, <1>5 DEF Inv, PaddingOK, NeverLost
<1>6. CASE /\ p.data # <<>> => p.start + p.count <= Len(p.data)
           /\ \E words \in Buffers(side, p.count) :
                padding' = [padding EXCEPT ![side] =
                                [count |-> p.count, words |-> Stored(p, words)]]
           /\ asked' = [asked EXCEPT ![side] =
                [bits |-> [i \in 1..p.count |-> BitAsked(p, i - 1)], start |-> p.start]]
           /\ UNCHANGED status
  <2>1. PICK words \in Buffers(side, p.count) :
           padding' = [padding EXCEPT ![side] = [count |-> p.count, words |-> Stored(p, words)]]
    BY <1>6
  <2>2. words \in Seq(Bits) /\ p.count <= Len(words)
    BY <1>1, <1>4, BuffersFit DEF Inv
  <2>3. Asks(p)
    BY <1>4, <1>6 DEF Asks
  <2>4. PICK buffer, ask : /\ buffer = [count |-> p.count, words |-> Stored(p, words)]
                           /\ ask = [bits |-> BitsAsked(p), start |-> p.start]
    OBVIOUS
  <2>5. buffer \in Buffer /\ ask \in Ask /\ Fits(buffer, ask)
    BY <2>2, <2>3, <2>4, StoredFits
  <2>6. padding' = [padding EXCEPT ![side] = buffer] /\ asked' = [asked EXCEPT ![side] = ask]
    BY <1>6, <2>1, <2>4 DEF BitsAsked
  <2>7. padding' \in [Sides -> Buffer] /\ asked' \in [Sides -> Ask]
    BY <1>3, <2>5, <2>6
  <2>8. ASSUME NEW s \in Sides PROVE Fits(padding'[s], asked'[s])
    <3>1. CASE s = side
      <4>1. padding'[s] = buffer /\ asked'[s] = ask
        BY <1>3, <2>6, <3>1
      <4> QED
        BY <2>5, <4>1
    <3>2. CASE s # side
      <4>1. padding'[s] = padding[s] /\ asked'[s] = asked[s]
        BY <1>3, <2>6, <3>2
      <4> QED
        BY <1>3, <4>1
    <3> QED
      BY <3>1, <3>2
  <2>9. NeverLost'
    BY <1>1, <1>6 DEF NeverLost
  <2> QED
    BY <1>2, <2>7, <2>8, <2>9 DEF Inv, PaddingOK, Fits
<1>7. CASE /\ status' = "OUT_OF_MEMORY"
           /\ padding' = [padding EXCEPT ![side].words = <<>>]
           /\ UNCHANGED asked
  <2>1. PICK buffer : buffer = [padding[side] EXCEPT !.words = <<>>]
    OBVIOUS
  <2>2. buffer \in Buffer
    <3>1. <<>> \in Seq(Bits) /\ padding[side] \in Buffer
      BY <1>3, EmptySeq
    <3> QED
      BY <2>1, <3>1 DEF Buffer
  <2>3. padding' = [padding EXCEPT ![side] = buffer]
    BY <1>7, <2>1
  <2>4. padding' \in [Sides -> Buffer] /\ asked' \in [Sides -> Ask]
    BY <1>3, <1>7, <2>2, <2>3
  <2> QED
    BY <1>2, <1>7, <2>4 DEF Inv, PaddingOK, NeverLost
<1> QED
  BY <1>5, <1>6, <1>7 DEF PrePost

LEMMA PaddingInv ==
  ASSUME Inv, NEW counts \in Counts, Padding(counts)
  PROVE  Inv'
<1>1. status = "SUCCESS" /\ UNCHANGED <<chain, jam_jtag_state, stray, jam_drstop_state, jam_irstop_state>>
  BY DEF Padding, Sets
<1>2. PortOK' /\ StopsOK'
  BY <1>1 DEF Inv, PortOK, StopsOK, BeliefIsTap
<1>3. /\ padding \in [Sides -> Buffer] /\ asked \in [Sides -> Ask]
      /\ \A s \in Sides : Fits(padding[s], asked[s])
  BY <1>1 DEF Inv, PaddingOK
<1>4. counts \in [1..4 -> Nat]
  BY CountsAssumption
<1> DEFINE Nth(side) == CHOOSE j \in 1..4 : SidesInOrder[j] = side
           Want(side) == [count |-> counts[Nth(side)], start |-> 0, data |-> <<>>]
           Room(side, fill) ==
             IF Want(side).count > padding[side].count
             THEN [i \in 1..Words(Want(side).count) |-> fill] ELSE padding[side].words
           NewBuffer(side, failing, fill) ==
             IF Nth(side) < failing
             THEN [count |-> Want(side).count, words |-> Stored(Want(side), Room(side, fill))]
             ELSE IF Nth(side) = failing THEN [padding[side] EXCEPT !.words = <<>>]
             ELSE padding[side]
           NewAsk(side, failing) ==
             IF Nth(side) < failing THEN [bits |-> [i \in 1..counts[Nth(side)] |-> 1], start |-> 0]
             ELSE asked[side]
<1>5. PICK failing \in 1..5, fill \in {0, 1} :
        /\ status' = IF failing <= 4 THEN "OUT_OF_MEMORY" ELSE "SUCCESS"
        /\ padding' = [side \in Sides |-> NewBuffer(side, failing, fill)]
        /\ asked' = [side \in Sides |-> NewAsk(side, failing)]
  BY Zenon DEF Padding
<1>6. ASSUME NEW side \in Sides
      PROVE  /\ NewBuffer(side, failing, fill) \in Buffer /\ NewAsk(side, failing) \in Ask
             /\ failing = 5 => Fits(NewBuffer(side, failing, fill), NewAsk(side, failing))
  <2>1. Nth(side) \in 1..4
    <3>1. \E j \in 1..4 : SidesInOrder[j] = side
      <4>1. SidesInOrder[1] = "dr preamble" /\ SidesInOrder[2] = "dr postamble"
            /\ SidesInOrder[3] = "ir preamble" /\ SidesInOrder[4] = "ir postamble"
        BY DEF SidesInOrder
      <4>2. CASE side = "dr preamble" \/ side = "dr postamble"
        <5>1. 1 \in 1..4 /\ 2 \in 1..4
          OBVIOUS
        <5> QED
          BY <4>1, <4>2, <5>1, Zenon
      <4>3. CASE side = "ir preamble" \/ side = "ir postamble"
        <5>1. 3 \in 1..4 /\ 4 \in 1..4
          OBVIOUS
        <5> QED
          BY <4>1, <4>3, <5>1, Zenon
      <4> QED
        BY <4>2, <4>3 DEF Sides
    <3> QED
      BY <3>1
  <2>2. PICK k \in 1..4 : k = Nth(side)
    BY <2>1
  <2>3. PICK p : p = [count |-> counts[k], start |-> 0, data |-> <<>>]
    OBVIOUS
  <2>4. p.count = counts[k] /\ p.count \in Nat /\ p.start = 0 /\ p.data = <<>> /\ Want(side) = p
    BY <1>4, <2>2, <2>3
  <2>5. Asks(p)
    BY <2>4, EmptySeq DEF Asks
  <2>6. PICK words : words = Room(side, fill)
    OBVIOUS
  <2>7. words \in Buffers(side, p.count)
    <3>1. words = IF p.count > padding[side].count
                  THEN [i \in 1..Words(p.count) |-> fill] ELSE padding[side].words
      BY <2>4, <2>6
    <3> HIDE DEF Nth, Want, Room, NewBuffer, NewAsk
    <3>2. [i \in 1..Words(p.count) |-> fill] \in {[j \in 1..Words(p.count) |-> b] : b \in {0, 1}}
      OBVIOUS
    <3> QED
      BY <3>1, <3>2 DEF Buffers
  <2>8. words \in Seq(Bits) /\ p.count <= Len(words)
    BY <1>1, <2>4, <2>7, BuffersFit DEF Inv
  <2>9. PICK buffer, ask : buffer = NewBuffer(side, failing, fill) /\ ask = NewAsk(side, failing)
    BY Zenon
  <2>10. CASE k < failing
    <3>1. buffer = [count |-> p.count, words |-> Stored(p, words)]
      BY <2>2, <2>4, <2>6, <2>9, <2>10
    <3>2. ask = [bits |-> [i \in 1..counts[k] |-> 1], start |-> 0]
      BY <2>2, <2>9, <2>10
    <3>3. [i \in 1..counts[k] |-> 1] = BitsAsked(p)
      BY <2>4 DEF BitsAsked, BitAsked
    <3>4. ask = [bits |-> BitsAsked(p), start |-> p.start]
      BY <2>4, <3>2, <3>3
    <3>5. buffer \in Buffer /\ ask \in Ask /\ Fits(buffer, ask)
      BY <2>5, <2>8, <3>1, <3>4, StoredFits
    <3> QED
      BY <2>9, <3>5
  <2>11. CASE ~(k < failing)
    <3>1. failing # 5
      BY <2>11
    <3>2. ask = asked[side]
      BY <2>2, <2>9, <2>11
    <3>3. buffer = [padding[side] EXCEPT !.words = <<>>] \/ buffer = padding[side]
      BY <2>2, <2>9, <2>11
    <3>4. padding[side] \in Buffer /\ <<>> \in Seq(Bits) /\ asked[side] \in Ask
      BY <1>3, EmptySeq
    <3>5. buffer \in Buffer
      BY <3>3, <3>4 DEF Buffer
    <3> QED
      BY <2>9, <3>1, <3>2, <3>4, <3>5
  <2> QED
    BY <2>10, <2>11
<1> HIDE DEF NewBuffer, NewAsk
<1>7. padding' \in [Sides -> Buffer] /\ asked' \in [Sides -> Ask]
  BY <1>5, <1>6
<1>8. ASSUME status' = "SUCCESS", NEW s \in Sides PROVE Fits(padding'[s], asked'[s])
  <2>1. failing = 5
    BY <1>5, <1>8
  <2>2. padding'[s] = NewBuffer(s, failing, fill) /\ asked'[s] = NewAsk(s, failing)
    BY <1>5
  <2> QED
    BY <1>6, <2>1, <2>2
<1>9. NeverLost'
  BY <1>5 DEF NeverLost
<1> QED
  BY <1>2, <1>7, <1>8, <1>9 DEF Inv, PaddingOK, Fits

-------------------------------------------------------------------------------
(***************************************************************************)
(* The statements that clock the chain keep the invariant.                 *)
(***************************************************************************)
LEMMA PortIsPort ==
  ASSUME PortOK
  PROVE  IsPort(port) /\ (~stray => Knows(port)) /\ port.chain = chain /\ port.belief = jam_jtag_state
<1>1. port = [chain |-> chain, belief |-> jam_jtag_state]
  BY DEF port
<1>2. port.chain = chain /\ port.belief = jam_jtag_state
  BY <1>1
<1>3. port = [chain |-> port.chain, belief |-> port.belief]
  BY <1>1, <1>2
<1> QED
  BY <1>2, <1>3 DEF PortOK, IsPort, Knows, BeliefIsTap

LEMMA PortAfter ==
  ASSUME NEW q, IsPort(q), PortIs(q), stray' \in BOOLEAN, ~stray' => Knows(q)
  PROVE  PortOK'
BY DEF PortOK, IsPort, PortIs, Knows, BeliefIsTap

LEMMA SetupKept ==
  ASSUME Inv, UNCHANGED setup, status' = "SUCCESS" => status = "SUCCESS"
  PROVE  StopsOK' /\ PaddingOK'
BY DEF Inv, StopsOK, PaddingOK, setup

LEMMA StateInv ==
  ASSUME Inv, NEW s \in Targets, State(s)
  PROVE  Inv'
<1>1. PICK q : q = jam_goto_jtag_state(port, s)
  OBVIOUS
<1>2. /\ PortIs(q) /\ status' = IF q.belief = s THEN "SUCCESS" ELSE "INTERNAL_ERROR"
      /\ UNCHANGED <<setup, stray>> /\ status = "SUCCESS"
  BY <1>1 DEF State, Moves
<1>3. s \in TapStates
  BY StatesAssumption DEF TapStates
<1>4. IsPort(port) /\ (~stray => Knows(port)) /\ stray \in BOOLEAN
  BY PortIsPort DEF Inv, PortOK
<1>5. IsPort(q) /\ q.belief = s /\ (Knows(port) => Knows(q))
  <2>1. PICK p : p = port
    OBVIOUS
  <2> QED
    BY <1>1, <1>3, <1>4, <2>1, Goto
<1>6. PortOK'
  BY <1>2, <1>4, <1>5, PortAfter
<1>7. StopsOK' /\ PaddingOK'
  BY <1>2, SetupKept
<1> QED
  BY <1>2, <1>5, <1>6, <1>7 DEF Inv, NeverLost

LEMMA WaitCycles ==
  ASSUME NEW p, IsPort(p), NEW s \in TapStates, NEW n \in Nat, NEW q, q = jam_do_wait_cycles(p, s, n)
  PROVE  /\ IsPort(q) /\ q.belief = s
         /\ Knows(p) /\ (s \in Stable \/ n = 0) => Knows(q)
<1>1. PICK g : g = GotoUnlessThere(p, s)
  OBVIOUS
<1>2. IsPort(g) /\ g.belief = s /\ (Knows(p) => Knows(g))
  BY <1>1, GotoThere
<1>3. PICK b, tms : b = (IF s = RESET THEN 1 ELSE 0) /\ tms = [i \in 1..n |-> b]
  BY Zenon
<1>4. q = [g EXCEPT !.chain = Clocks(@, tms)]
  BY <1>1, <1>2, <1>3 DEF jam_do_wait_cycles
<1>5. PICK c, d : c = g.chain /\ d = Clocks(c, tms)
  OBVIOUS
<1>6. c \in Chains /\ g = [chain |-> c, belief |-> s]
  BY <1>2, <1>5 DEF IsPort
<1>7. q = [chain |-> d, belief |-> s]
  BY <1>4, <1>5, <1>6
<1>8. d \in Chains /\ (c.tap = s /\ (s \in Stable \/ n = 0) => d.tap = s)
  BY <1>3, <1>5, <1>6, Loop
<1>9. s # ILLEGAL
  BY StatesDiffer
<1> QED
  BY <1>2, <1>5, <1>7, <1>8, <1>9 DEF IsPort, Knows

LEMMA WaitMicroseconds ==
  ASSUME NEW p, IsPort(p), NEW s \in TapStates, NEW q, q = jam_do_wait_microseconds(p, s)
  PROVE  /\ IsPort(q) /\ q.belief \in {s, ILLEGAL}
         /\ Knows(p) => Knows(q)
BY GotoThere DEF jam_do_wait_microseconds

LEMMA WaitInv ==
  ASSUME Inv, NEW s \in WaitStates, NEW cycles \in BOOLEAN, NEW usec \in BOOLEAN, NEW n \in Cycles,
         NEW end \in EndStates, Wait(s, cycles, n, usec, end)
  PROVE  Inv'
<1>1. PICK p : p = IF cycles THEN jam_do_wait_cycles(port, s, n) ELSE port
  OBVIOUS
<1>2. PICK cyclesFail : cyclesFail = (cycles /\ p.belief # s)
  OBVIOUS
<1>3. PICK q : q = IF usec /\ ~cyclesFail THEN jam_do_wait_microseconds(p, s) ELSE p
  OBVIOUS
<1>4. PICK fails : fails = (cyclesFail \/ (usec /\ q.belief \notin {s, ILLEGAL}))
  OBVIOUS
<1>5. PICK r : r = IF fails \/ end = IDLE THEN q ELSE jam_goto_jtag_state(q, end)
  OBVIOUS
<1>6. /\ PortIs(r) /\ status = "SUCCESS"
      /\ status' = IF fails \/ (end # IDLE /\ r.belief # end) THEN "INTERNAL_ERROR" ELSE "SUCCESS"
      /\ stray' = (stray \/ (cycles /\ n > 0 /\ s \notin Stable)) /\ UNCHANGED setup
  BY <1>1, <1>2, <1>3, <1>4, <1>5, Zenon DEF Wait, Moves
<1>7. s \in TapStates /\ end \in TapStates /\ n \in Nat
  BY StatesAssumption, BoundsAssumption DEF TapStates
<1>8. PICK start : start = port
  OBVIOUS
<1>9. IsPort(start) /\ (~stray => Knows(start)) /\ stray \in BOOLEAN
  BY <1>8, PortIsPort DEF Inv, PortOK
<1>10. IsPort(p) /\ (cycles => p.belief = s) /\ (~stray' => Knows(p))
  <2>1. CASE cycles
    <3>1. p = jam_do_wait_cycles(start, s, n)
      BY <1>1, <1>8, <2>1
    <3>2. IsPort(p) /\ p.belief = s /\ (Knows(start) /\ (s \in Stable \/ n = 0) => Knows(p))
      BY <1>7, <1>9, <3>1, WaitCycles
    <3> QED
      <4>1. n > 0 \/ n = 0
        BY <1>7
      <4>2. ~stray' => ~stray /\ (s \in Stable \/ n = 0)
        BY <1>6, <2>1, <4>1, Zenon
      <4> QED
        BY <1>9, <3>2, <4>2
  <2>2. CASE ~cycles
    BY <1>1, <1>6, <1>8, <1>9, <2>2
  <2> QED
    BY <2>1, <2>2
<1>11. /\ IsPort(q) /\ ~fails /\ (~stray' => Knows(q))
  <2>1. ~cyclesFail
    BY <1>2, <1>10
  <2>2. CASE usec
    <3>1. q = jam_do_wait_microseconds(p, s)
      BY <1>3, <2>1, <2>2
    <3>2. IsPort(q) /\ q.belief \in {s, ILLEGAL} /\ (Knows(p) => Knows(q))
      BY <1>7, <1>10, <3>1, WaitMicroseconds
    <3> QED
      BY <1>4, <1>10, <2>1, <3>2
  <2>3. CASE ~usec
    BY <1>3, <1>4, <1>10, <2>1, <2>3
  <2> QED
    BY <2>2, <2>3
<1>12. IsPort(r) /\ (end # IDLE => r.belief = end) /\ (~stray' => Knows(r))
  <2>1. CASE end = IDLE
    BY <1>5, <1>11, <2>1
  <2>2. CASE end # IDLE
    <3>1. r = jam_goto_jtag_state(q, end)
      BY <1>5, <1>11, <2>2
    <3>2. IsPort(r) /\ r.belief = end /\ (Knows(q) => Knows(r))
      BY <1>7, <1>11, <3>1, Goto
    <3> QED
      BY <1>11, <3>2
  <2> QED
    BY <2>1, <2>2
<1>13. stray' \in BOOLEAN
  BY <1>6
<1>14. PortOK'
  BY <1>6, <1>12, <1>13, PortAfter
<1>15. StopsOK' /\ PaddingOK'
  BY <1>6, SetupKept
<1>16. status' = "SUCCESS"
  BY <1>6, <1>11, <1>12
<1> QED
  BY <1>14, <1>15, <1>16 DEF Inv, NeverLost

LEMMA FinishInv ==
  ASSUME Inv, NEW reset \in BOOLEAN, Finish(reset)
  PROVE  Inv'
<1>1. /\ status' = "ENDED" /\ UNCHANGED <<setup, stray>>
      /\ IF reset /\ jam_jtag_state # ILLEGAL
         THEN PortIs(jam_jtag_reset_idle(port)) ELSE PortIs(port)
  BY DEF Finish
<1>2. PICK p : p = port
  OBVIOUS
<1>3. IsPort(p) /\ (~stray => Knows(p)) /\ stray \in BOOLEAN
  BY <1>2, PortIsPort DEF Inv, PortOK
<1>4. PICK q : q = IF reset /\ jam_jtag_state # ILLEGAL THEN jam_jtag_reset_idle(p) ELSE p
  OBVIOUS
<1>5. PortIs(q)
  BY <1>1, <1>2, <1>4
<1>6. IsPort(q) /\ (~stray => Knows(q))
  BY <1>3, <1>4, ResetIdlePort DEF Knows
<1>7. PortOK'
  BY <1>1, <1>3, <1>5, <1>6, PortAfter
<1>8. StopsOK' /\ PaddingOK'
  BY <1>1, SetupKept
<1> QED
  BY <1>1, <1>7, <1>8 DEF Inv, NeverLost

-------------------------------------------------------------------------------
(***************************************************************************)
(* A scan.                                                                 *)
(***************************************************************************)
LEMMA PauseIs ==
  ASSUME NEW register \in {DR, IR}
  PROVE  /\ register.pause \in TapStates /\ register.pause # ILLEGAL
         /\ register.pause = IF register = DR THEN DRPAUSE ELSE IRPAUSE
         /\ register.pause # ShiftState(register)
         /\ TapNext[ExitState(register) + 1][1] = register.pause
         /\ TapNext[ShiftState(register) + 1][1] = ShiftState(register)
         /\ ExitState(register) \notin {DRSHIFT, DRCAPTURE, IRSHIFT, IRCAPTURE}
         /\ ShiftState(register) \notin {RESET, IRUPDATE, DRUPDATE}
         /\ register.pause \notin {RESET, IRUPDATE, DRUPDATE}
<1>1. register.pause = IF register = DR THEN DRPAUSE ELSE IRPAUSE
  <2>1. DR.pause = DRPAUSE /\ IR.pause = IRPAUSE
    BY DEF DR, IR
  <2> QED
    BY <2>1, RegistersDiffer
<1>2. /\ TapNext[DRSHIFT + 1][1] = DRSHIFT /\ TapNext[DREXIT1 + 1][1] = DRPAUSE
      /\ TapNext[IRSHIFT + 1][1] = IRSHIFT /\ TapNext[IREXIT1 + 1][1] = IRPAUSE
  BY DEF TapNext, DRSHIFT, DREXIT1, IRSHIFT, IREXIT1
<1>3. /\ DRPAUSE \in TapStates \ {ILLEGAL, RESET, DRUPDATE, IRUPDATE, DRSHIFT}
      /\ IRPAUSE \in TapStates \ {ILLEGAL, RESET, DRUPDATE, IRUPDATE, IRSHIFT}
      /\ {DREXIT1, IREXIT1} \cap {DRSHIFT, DRCAPTURE, IRSHIFT, IRCAPTURE} = {}
      /\ {DRSHIFT, IRSHIFT} \cap {RESET, IRUPDATE, DRUPDATE} = {}
  BY DEF TapStates, ILLEGAL, RESET, DRCAPTURE, DRSHIFT, DREXIT1, DRPAUSE, DRUPDATE,
     IRCAPTURE, IRSHIFT, IREXIT1, IRPAUSE, IRUPDATE
<1> QED
  BY <1>1, <1>2, <1>3, Zenon DEF ShiftState, ExitState

LEMMA ScanType ==
  ASSUME NEW register \in {DR, IR}, NEW p, IsPort(p), p.belief \in {IDLE, DRPAUSE, IRPAUSE},
         NEW bits \in Seq(Bits), NEW scan, scan = Scan(p, EntryOf(register), bits, register.pause)
  PROVE  IsPort(scan.port) /\ scan.port.belief = register.pause
<1>1. PICK s, c : s = p.belief /\ c = Clocks(p.chain, EntryOf(register)[s])
  OBVIOUS
<1>2. p.chain \in Chains
  BY DEF IsPort
<1>3. c \in Chains
  BY <1>1, <1>2, Entry
<1>4. PICK a : a = Shift(c, bits)
  OBVIOUS
<1>5. a.chain \in Chains
  BY <1>3, <1>4, ShiftType
<1>6. PICK e, d : e = a.chain /\ d = ClockChain(e, 0, 0)
  OBVIOUS
<1>7. 0 \in Bits
  BY DEF Bits
<1>8. d \in Chains
  BY <1>5, <1>6, <1>7, Clock DEF ClockTells
<1>9. scan.port = [chain |-> d, belief |-> register.pause]
  BY <1>1, <1>4, <1>6 DEF Scan
<1> QED
  BY <1>8, <1>9, PauseIs DEF IsPort

\* What the register holds when the shift begins.
Entered(register, p) ==
    IF register = DR THEN DRCapture ELSE IF p.belief = IRPAUSE THEN p.chain.ir ELSE IRCapture

\* What a scan that began in the state the player believes in has done.
ScanRight(register, p, bits, scan) ==
    LET n == Len(bits)
        line == Entered(register, p) \o bits
    IN  /\ scan.port.chain.tap = IF n = 0 THEN ShiftState(register) ELSE register.pause
        /\ n # 0 => Held(scan.port.chain, register) = LastBits(Size(register), line)
        /\ scan.tdo \in Seq(Bits) /\ Len(scan.tdo) = n
        /\ \A i \in 1..n : scan.tdo[i] = line[i]
        /\ register = DR /\ p.belief # IRPAUSE => scan.port.chain.irLatch = p.chain.irLatch

LEMMA ScanIs ==
  ASSUME NEW register \in {DR, IR}, NEW p, IsPort(p), p.belief \in {IDLE, DRPAUSE, IRPAUSE},
         p.chain.tap = p.belief,
         NEW bits \in Seq(Bits), NEW scan, scan = Scan(p, EntryOf(register), bits, register.pause)
  PROVE  ScanRight(register, p, bits, scan)
<1>1. PICK s, c : s = p.belief /\ c = Clocks(p.chain, EntryOf(register)[s])
  OBVIOUS
<1>2. p.chain \in Chains
  BY DEF IsPort
<1>3. /\ c \in Chains /\ c.tap = ShiftState(register) /\ Held(c, register) = Entered(register, p)
      /\ register = DR /\ s # IRPAUSE => c.irLatch = p.chain.irLatch
  BY <1>1, <1>2, Entry DEF Entered
<1>4. PICK n, L, line : n = Len(bits) /\ L = Size(register) /\ line = Held(c, register) \o bits
  OBVIOUS
<1>5. PICK a : a = Shift(c, bits)
  OBVIOUS
<1>6. /\ a.chain \in Chains
      /\ a.chain.tap = IF n = 0 THEN ShiftState(register) ELSE ExitState(register)
      /\ \A i \in 1..L : Held(a.chain, register)[i] = line[i + n]
      /\ a.chain.drLatch = c.drLatch /\ a.chain.irLatch = c.irLatch
      /\ a.tdo \in Registers(n) /\ \A i \in 1..n : a.tdo[i] = line[i]
  <2>1. ShiftedThrough(register, c, bits, a)
    BY <1>3, <1>5, ShiftRegister
  <2> QED
    BY <1>4, <2>1 DEF ShiftedThrough
<1>7. PICK e, d : e = a.chain /\ d = ClockChain(e, 0, 0)
  OBVIOUS
<1>8. ClockTells(e, d, 0)
  <2>1. 0 \in Bits
    BY DEF Bits
  <2> QED
    BY <1>6, <1>7, <2>1, Clock
<1>9. scan.port.chain = d /\ scan.tdo = a.tdo
  <2>1. scan = [port |-> [chain |-> d, belief |-> register.pause], tdo |-> a.tdo]
    BY <1>1, <1>5, <1>7 DEF Scan
  <2> QED
    BY <2>1
<1>10. d.tap = IF n = 0 THEN ShiftState(register) ELSE register.pause
  BY <1>6, <1>7, <1>8, PauseIs DEF ClockTells
<1>11. d.irLatch = e.irLatch
  BY <1>8, <1>10, PauseIs DEF ClockTells
<1>12. n \in Nat /\ L \in Nat \ {0} /\ line \in Seq(Bits) /\ Len(line) = L + n
  <2>1. PICK h : h = Held(c, register)
    OBVIOUS
  <2>2. h \in Registers(L) /\ L \in Nat \ {0}
    BY <1>3, <1>4, <2>1, HeldIsRegister
  <2> QED
    BY <1>4, <2>1, <2>2, LineIs, Zenon
<1>13. ASSUME n # 0 PROVE Held(d, register) = LastBits(L, line)
  <2>1. Held(d, register) = Held(e, register)
    <3>1. e.tap \notin {DRSHIFT, DRCAPTURE, IRSHIFT, IRCAPTURE}
      BY <1>6, <1>7, <1>13, PauseIs
    <3> QED
      BY <1>8, <3>1 DEF ClockTells, Held
  <2>2. PICK h : h = Held(e, register)
    OBVIOUS
  <2>3. h \in Registers(L) /\ \A i \in 1..L : h[i] = line[i + n]
    BY <1>4, <1>6, <1>7, <2>2, HeldIsRegister, Zenon
  <2>4. h = [i \in 1..L |-> h[i]]
    BY <2>3 DEF Registers
  <2>5. LastBits(L, line) = SubSeq(line, n + 1, L + n)
    <3>1. (L + n) - L + 1 = n + 1
      BY <1>12
    <3> QED
      BY <1>12, <3>1 DEF LastBits
  <2>6. PICK f, m : f = n + 1 /\ m = L + n
    OBVIOUS
  <2>7. SubSeq(line, f, m) = [i \in 1..L |-> line[i + n]]
    <3>1. f \in Int /\ m \in Int /\ (m - f) + 1 = L /\ \A i \in 1..L : (f + i) - 1 = i + n
      BY <1>12, <2>6
    <3>2. SubSeq(line, f, m) = [i \in 1..((m - f) + 1) |-> line[(f + i) - 1]]
      BY <1>12, <3>1
    <3> QED
      BY <3>1, <3>2
  <2> QED
    BY <2>1, <2>2, <2>3, <2>4, <2>5, <2>6, <2>7
<1>14. scan.tdo \in Seq(Bits) /\ Len(scan.tdo) = n
  BY <1>6, <1>9, <1>12, RegisterIsSeq
<1> QED
  BY <1>1, <1>3, <1>4, <1>6, <1>7, <1>9, <1>10, <1>11, <1>13, <1>14 DEF ScanRight

LEMMA StartIs ==
  ASSUME PortOK, NEW q, q = GotoUnlessThere(port, StartState(jam_jtag_state))
  PROVE  /\ IsPort(q) /\ q.belief = StartState(jam_jtag_state)
         /\ StartState(jam_jtag_state) \in {IDLE, DRPAUSE, IRPAUSE}
         /\ ~stray => Knows(q) /\ q.chain.tap = q.belief
<1>1. StartState(jam_jtag_state) \in {IDLE, DRPAUSE, IRPAUSE}
  <2>1. jam_jtag_state \in -1..15
    BY DEF PortOK, TapStates, ILLEGAL
  <2> QED
    BY <2>1 DEF StartState, DRSELECT, DRUPDATE, IDLE, RESET, ILLEGAL, IRSELECT, IRUPDATE
<1>2. PICK p, s : p = port /\ s = StartState(jam_jtag_state)
  OBVIOUS
<1>3. s \in TapStates /\ s # ILLEGAL
  BY <1>1, <1>2, StatesDiffer
<1>4. IsPort(p) /\ (~stray => Knows(p))
  BY <1>2, PortIsPort
<1>5. IsPort(q) /\ q.belief = s /\ (Knows(p) => Knows(q))
  BY <1>2, <1>3, <1>4, GotoThere
<1> QED
  BY <1>1, <1>2, <1>3, <1>4, <1>5 DEF Knows

\* What a scan sends.
LEMMA SentIs ==
  ASSUME Inv, status = "SUCCESS", NEW register \in {DR, IR}, NEW data \in Seq(Bits)
  PROVE  /\ Sent(register, data) \in Seq(Bits)
         /\ Aligned(register) =>
              /\ Sent(register, data) = asked[register.pre].bits \o data \o asked[register.post].bits
              /\ asked[register.pre].bits \in Seq(Bits) /\ asked[register.post].bits \in Seq(Bits)
              /\ padding[register.pre].count = Len(asked[register.pre].bits)
<1>1. register.pre \in Sides /\ register.post \in Sides
  <2>1. /\ DR.pre = "dr preamble" /\ DR.post = "dr postamble"
        /\ IR.pre = "ir preamble" /\ IR.post = "ir postamble"
    BY DEF DR, IR
  <2> QED
    BY <2>1 DEF Sides
<1>2. ASSUME NEW side \in Sides
      PROVE  /\ PaddingOf(side) \in Seq(Bits) /\ Len(PaddingOf(side)) = padding[side].count
             /\ asked[side].bits \in Seq(Bits)
             /\ asked[side].start % WordBits = 0 => PaddingOf(side) = asked[side].bits
  <2>1. PICK buffer, ask : buffer = padding[side] /\ ask = asked[side]
    OBVIOUS
  <2>2. buffer \in Buffer /\ ask \in Ask /\ Fits(buffer, ask)
    BY <2>1 DEF Inv, PaddingOK
  <2>3. PICK k, w : k = buffer.count /\ w = buffer.words
    OBVIOUS
  <2>4. k \in Nat /\ w \in Seq(Bits) /\ k <= Len(w) /\ ask.bits \in Seq(Bits) /\ Len(w) \in Nat
    <3>1. k \in Nat /\ w \in Seq(Bits) /\ ask.bits \in Seq(Bits)
      BY <2>2, <2>3 DEF Buffer, Ask
    <3> QED
      BY <2>2, <2>3, <3>1, LenProperties DEF Fits
  <2>5. SubSeq(w, 1, k) \in Seq(Bits) /\ Len(SubSeq(w, 1, k)) = k
    <3>1. \A i \in 1..k : w[i] \in Bits
      BY <2>4, ElementOfSeq
    <3> QED
      BY <2>4, <3>1, SubSeqProperties
  <2>6. PaddingOf(side) = SubSeq(w, 1, k)
    BY <2>1, <2>3 DEF PaddingOf
  <2> QED
    BY <2>1, <2>2, <2>3, <2>4, <2>5, <2>6 DEF Fits
<1>3. PICK a, b : a = PaddingOf(register.pre) /\ b = PaddingOf(register.post)
  OBVIOUS
<1>4. a \in Seq(Bits) /\ b \in Seq(Bits)
  BY <1>1, <1>2, <1>3
<1>5. Sent(register, data) = (a \o data) \o b
  BY <1>3 DEF Sent
<1>6. (a \o data) \o b \in Seq(Bits)
  <2>1. a \o data \in Seq(Bits)
    BY <1>4, ConcatProperties
  <2> QED
    BY <1>4, <2>1, ConcatProperties
<1> QED
  BY <1>1, <1>2, <1>3, <1>5, <1>6, Zenon DEF Aligned

LEMMA ScanInv ==
  ASSUME Inv, NEW register \in {DR, IR}, NEW data \in Patterns, NEW use \in Uses(data),
         ScanStatement(register, data, use)
  PROVE  Inv'
<1>1. PICK start : start = GotoUnlessThere(port, StartState(jam_jtag_state))
  OBVIOUS
<1>2. PICK sent : sent = Sent(register, data)
  OBVIOUS
<1>3. PICK scan : scan = Scan(start, EntryOf(register), sent, register.pause)
  OBVIOUS
<1>4. PICK end : end = GotoUnlessThere(scan.port, StopOf(register))
  OBVIOUS
<1>5. /\ status = "SUCCESS" /\ UNCHANGED setup
      /\ \/ /\ status' \in {"BOUNDS_ERROR", "OUT_OF_MEMORY"}
            /\ UNCHANGED <<chain, jam_jtag_state, stray>>
         \/ /\ status' = IF start.belief # StartState(jam_jtag_state)
                         THEN "INTERNAL_ERROR" ELSE "OUT_OF_MEMORY"
            /\ PortIs(start) /\ UNCHANGED stray
         \/ /\ PortIs(end)
            /\ status' = IF end.belief = StopOf(register) THEN "SUCCESS" ELSE "INTERNAL_ERROR"
            /\ stray' = (stray \/ Len(sent) = 0)
  BY <1>1, <1>2, <1>3, <1>4, Zenon DEF ScanStatement, Moves
<1>6. PortOK /\ stray \in BOOLEAN
  BY DEF Inv, PortOK
<1>7. /\ IsPort(start) /\ start.belief = StartState(jam_jtag_state)
      /\ start.belief \in {IDLE, DRPAUSE, IRPAUSE}
      /\ ~stray => Knows(start) /\ start.chain.tap = start.belief
  BY <1>1, <1>6, StartIs
<1>8. StopsOK' /\ PaddingOK'
  BY <1>5, SetupKept
<1>9. CASE status' \in {"BOUNDS_ERROR", "OUT_OF_MEMORY"} /\ UNCHANGED <<chain, jam_jtag_state, stray>>
  <2>1. PortOK'
    BY <1>6, <1>9 DEF PortOK, BeliefIsTap
  <2> QED
    BY <1>8, <1>9, <2>1 DEF Inv, NeverLost
<1>10. CASE /\ status' = IF start.belief # StartState(jam_jtag_state)
                         THEN "INTERNAL_ERROR" ELSE "OUT_OF_MEMORY"
            /\ PortIs(start) /\ UNCHANGED stray
  <2>1. PortOK'
    BY <1>6, <1>7, <1>10, PortAfter
  <2> QED
    BY <1>7, <1>8, <1>10, <2>1 DEF Inv, NeverLost
<1>11. CASE /\ PortIs(end)
            /\ status' = IF end.belief = StopOf(register) THEN "SUCCESS" ELSE "INTERNAL_ERROR"
            /\ stray' = (stray \/ Len(sent) = 0)
  <2>1. sent \in Seq(Bits)
    <3>1. data \in Seq(Bits)
      BY PatternsAssumption DEF Bits
    <3> QED
      BY <1>2, <1>5, <3>1, SentIs, Zenon
  <2>2. PICK p : p = scan.port
    OBVIOUS
  <2>3. IsPort(p) /\ p.belief = register.pause
    BY <1>3, <1>7, <2>1, <2>2, ScanType
  <2>4. ASSUME ~stray' PROVE Knows(p)
    <3>1. ~stray /\ Len(sent) # 0
      BY <1>11, <2>4
    <3>2. ScanRight(register, start, sent, scan)
      BY <1>3, <1>7, <2>1, <3>1, ScanIs
    <3>3. p.chain.tap = register.pause
      BY <2>2, <3>1, <3>2 DEF ScanRight
    <3> QED
      BY <2>3, <3>3 DEF Knows
  <2>5. PICK s : s = StopOf(register)
    OBVIOUS
  <2>6. s \in TapStates
    BY <2>5 DEF Inv, StopsOK, StopOf
  <2>7. IsPort(end) /\ end.belief = s /\ (Knows(p) => Knows(end))
    BY <1>4, <2>2, <2>3, <2>5, <2>6, GotoThere
  <2>8. stray' \in BOOLEAN
    BY <1>11
  <2>9. PortOK'
    BY <1>11, <2>4, <2>7, <2>8, PortAfter
  <2> QED
    BY <1>8, <1>11, <2>5, <2>7, <2>9 DEF Inv, NeverLost
<1> QED
  BY <1>5, <1>9, <1>10, <1>11

-------------------------------------------------------------------------------
(***************************************************************************)
(* The theorems.                                                           *)
(***************************************************************************)
LEMMA InitInv == Init => Inv
<1> SUFFICES ASSUME Init PROVE Inv
  OBVIOUS
<1>1. PortOK
  <2>1. PICK t \in PowerUp, l \in {DRCapture}, r \in {IRCapture}, u \in {DRCapture}, v \in {IRReset} :
          chain = [tap |-> t, dr |-> l, ir |-> r, drLatch |-> u, irLatch |-> v]
    BY DEF Init
  <2>2. t \in TapStates
    BY StatesAssumption DEF TapStates
  <2>3. chain \in Chains
    BY <2>1, <2>2, CapturesAreRegisters DEF Chains, Registers
  <2> QED
    BY <2>3 DEF Init, PortOK, BeliefIsTap
<1>2. StopsOK
  BY StatesDiffer DEF Init, StopsOK
<1>3. PaddingOK
  <2>1. <<>> \in Seq(Bits) /\ Len(<<>>) = 0 /\ SubSeq(<<>>, 1, 0) = <<>>
    BY EmptySeq
  <2>2. PICK buffer, ask : buffer = [count |-> 0, words |-> <<>>] /\ ask = [bits |-> <<>>, start |-> 0]
    OBVIOUS
  <2>3. buffer \in Buffer /\ ask \in Ask /\ Fits(buffer, ask)
    BY <2>1, <2>2 DEF Buffer, Ask, Fits
  <2>4. padding = [s \in Sides |-> buffer] /\ asked = [s \in Sides |-> ask]
    BY <2>2 DEF Init, NoPadding
  <2> QED
    BY <2>3, <2>4 DEF PaddingOK
<1>4. NeverLost
  BY DEF Init, NeverLost
<1> QED
  BY <1>1, <1>2, <1>3, <1>4 DEF Inv

LEMMA StopInv ==
  ASSUME Inv, NEW s \in StopStates, DrStop(s) \/ IrStop(s)
  PROVE  Inv'
<1>1. s \in TapStates
  BY StatesAssumption DEF TapStates
<1>2. /\ UNCHANGED <<chain, jam_jtag_state, stray, padding, asked, status>>
      /\ jam_drstop_state' \in {s, jam_drstop_state} /\ jam_irstop_state' \in {s, jam_irstop_state}
  BY DEF DrStop, IrStop, Sets
<1>3. PortOK' /\ PaddingOK' /\ NeverLost'
  BY <1>2 DEF Inv, PortOK, BeliefIsTap, PaddingOK, NeverLost
<1>4. StopsOK'
  BY <1>1, <1>2 DEF Inv, StopsOK
<1> QED
  BY <1>3, <1>4 DEF Inv

LEMMA StepInv ==
  ASSUME Inv, [Next]_vars
  PROVE  Inv'
<1>1. ASSUME NEW s \in StopStates, DrStop(s) \/ IrStop(s) PROVE Inv'
  BY <1>1, StopInv
<1>2. ASSUME NEW side \in Sides, NEW p \in Paddings, PrePost(side, p) PROVE Inv'
  BY <1>2, PrePostInv
<1>3. ASSUME NEW counts \in Counts, Padding(counts) PROVE Inv'
  BY <1>3, PaddingInv
<1>4. ASSUME NEW s \in Targets, State(s) PROVE Inv'
  BY <1>4, StateInv
<1>5. ASSUME NEW s \in WaitStates, NEW cycles \in BOOLEAN, NEW usec \in BOOLEAN, NEW n \in Cycles,
             NEW end \in EndStates, Wait(s, cycles, n, usec, end)
      PROVE  Inv'
  BY <1>5, WaitInv
<1>6. ASSUME NEW register \in {DR, IR}, NEW data \in Patterns, NEW use \in Uses(data),
             ScanStatement(register, data, use)
      PROVE  Inv'
  BY <1>6, ScanInv
<1>7. ASSUME NEW reset \in BOOLEAN, Finish(reset) PROVE Inv'
  BY <1>7, FinishInv
<1>8. CASE UNCHANGED vars
  BY <1>8 DEF vars, Inv, PortOK, BeliefIsTap, StopsOK, PaddingOK, NeverLost
<1> QED
  BY <1>1, <1>2, <1>3, <1>4, <1>5, <1>6, <1>7, <1>8 DEF Next

\* The invariant: the chain stays a chain, the player's belief of it is right, and
\* every padding buffer holds what the program asked for.
THEOREM Invariance == Spec => []Inv
<1>1. Init => Inv
  BY InitInv
<1>2. Inv /\ [Next]_vars => Inv'
  BY StepInv
<1> QED
  BY <1>1, <1>2, PTL DEF Spec

\* The player, which cannot see the state of the chain, knows it, wherever it found
\* the chain and whatever statements a program makes (jam_goto_jtag_state and the
\* tables of jamjtag.c).
THEOREM BeliefIsAlwaysTap == Spec => []BeliefIsTap
<1>1. Inv => BeliefIsTap
  BY DEF Inv, PortOK
<1> QED
  BY <1>1, Invariance, PTL

\* The tables of jamjtag.c lead from every state to every other in at most nine clocks:
\* no statement fails for having come to the wrong state.
THEOREM NeverLostAlways == Spec => []NeverLost
<1>1. Inv => NeverLost
  BY DEF Inv
<1> QED
  BY <1>1, Invariance, PTL

-------------------------------------------------------------------------------
(***************************************************************************)
(* Scans deliver.                                                          *)
(***************************************************************************)
LEMMA LineIsEntered ==
  ASSUME PortOK, NEW register \in {DR, IR}, NEW bits,
         NEW start, start = GotoUnlessThere(port, StartState(jam_jtag_state))
  PROVE  Line(register, bits) = Entered(register, start) \o bits
<1>1. start.belief = StartState(jam_jtag_state)
  BY StartIs
<1>2. CASE register = DR
  BY <1>2, RegistersDiffer DEF Line, Entered
<1>3. CASE register = IR
  <2>0. register # DR
    BY <1>3, RegistersDiffer
  <2>1. CASE jam_jtag_state \notin IRSELECT..IRUPDATE
    <3>1. jam_jtag_state \in -1..15
      BY DEF PortOK, TapStates, ILLEGAL
    <3>2. StartState(jam_jtag_state) # IRPAUSE
      BY <2>1, <3>1 DEF StartState, DRSELECT, DRUPDATE, IDLE, RESET, ILLEGAL, IRSELECT, IRUPDATE,
         IRPAUSE, DRPAUSE
    <3>3. jam_jtag_state # IRPAUSE
      BY <2>1 DEF IRSELECT, IRUPDATE, IRPAUSE
    <3> QED
      BY <1>1, <1>3, <2>0, <2>1, <3>2, <3>3 DEF Line, Entered
  <2>2. CASE jam_jtag_state \in IRSELECT..IRUPDATE
    <3>1. StartState(jam_jtag_state) = IRPAUSE
      BY <2>2 DEF StartState, DRSELECT, DRUPDATE, IDLE, RESET, ILLEGAL, IRSELECT, IRUPDATE
    <3>2. Entered(register, start) = start.chain.ir
      BY <1>1, <2>0, <3>1 DEF Entered
    <3>3. CASE jam_jtag_state = IRPAUSE
      <4>1. start = port
        BY <3>1, <3>3, PortIsPort DEF GotoUnlessThere
      <4>2. start.chain = chain
        BY <4>1, PortIsPort
      <4> QED
        BY <1>3, <2>0, <2>2, <3>2, <3>3, <4>2 DEF Line
    <3>4. CASE jam_jtag_state # IRPAUSE
      <4>1. start = jam_goto_jtag_state(port, IRPAUSE)
        BY <3>1, <3>4, PortIsPort DEF GotoUnlessThere
      <4> QED
        BY <1>3, <2>0, <2>2, <3>2, <3>4, <4>1 DEF Line
    <3> QED
      BY <3>3, <3>4
  <2> QED
    BY <2>1, <2>2
<1> QED
  BY <1>2, <1>3

LEMMA EnteredIsRegister ==
  ASSUME NEW register \in {DR, IR}, NEW p, IsPort(p)
  PROVE  Entered(register, p) \in Registers(Size(register)) /\ Size(register) \in Nat \ {0}
BY CapturesAreRegisters, RegistersDiffer DEF Entered, Size, IsPort, Chains, Registers

\* The part of the bits shifted out that belongs to the target.
LEMMA ExtractIs ==
  ASSUME NEW out \in Seq(Bits), NEW line \in Seq(Bits), Len(out) <= Len(line),
         \A i \in 1..Len(out) : out[i] = line[i],
         NEW k \in Nat, NEW m \in Nat, k + m <= Len(out)
  PROVE  /\ SubSeq(out, k + 1, k + m) = SubSeq(line, k + 1, k + m)
         /\ SubSeq(out, k + 1, k + m) = [i \in 1..m |-> line[k + i]]
<1>1. PICK f, t : f = k + 1 /\ t = k + m
  OBVIOUS
<1>2. PICK n \in Nat, l \in Nat : n = Len(out) /\ l = Len(line)
  BY LenProperties
<1>3. /\ f \in Int /\ t \in Int /\ (t - f) + 1 = m
      /\ \A i \in 1..m : (f + i) - 1 = k + i /\ k + i \in 1..n
  BY <1>1, <1>2
<1>4. SubSeq(out, f, t) = [i \in 1..((t - f) + 1) |-> out[(f + i) - 1]]
  BY <1>3
<1>5. SubSeq(line, f, t) = [i \in 1..((t - f) + 1) |-> line[(f + i) - 1]]
  BY <1>3
<1>6. SubSeq(out, f, t) = [i \in 1..m |-> line[k + i]]
  <2>1. [i \in 1..((t - f) + 1) |-> out[(f + i) - 1]] = [i \in 1..m |-> line[k + i]]
    BY <1>2, <1>3
  <2> QED
    BY <1>4, <2>1
<1>7. SubSeq(line, f, t) = [i \in 1..m |-> line[k + i]]
  BY <1>3, <1>5
<1> QED
  BY <1>1, <1>6, <1>7

\* What is left in the register and latched when the scan has gone on to its stop state.
LEMMA StopDelivers ==
  ASSUME NEW register \in {DR, IR}, NEW p, IsPort(p), p.belief = register.pause,
         p.chain.tap = register.pause, NEW s \in TapStates,
         NEW q, q = GotoUnlessThere(p, s), NEW last, last = Held(p.chain, register)
  PROVE  /\ s = register.pause => Held(q.chain, register) = last
         /\ \/ s \in register.pause..(register.pause + 1)
            \/ s = RESET /\ register = IR
            \/ Latched(q.chain, register) = last
<1>1. CASE s = register.pause
  <2>1. q = p
    BY <1>1 DEF GotoUnlessThere
  <2>2. register.pause \in Int
    BY PauseIs DEF TapStates
  <2> QED
    BY <1>1, <2>1, <2>2
<1>2. CASE s # register.pause
  <2>1. q = jam_goto_jtag_state(p, s)
    BY <1>2 DEF GotoUnlessThere
  <2>2. CASE register = DR
    <3>1. register.pause = DRPAUSE /\ last = p.chain.dr
      BY <2>2, PauseIs DEF Held
    <3>2. CASE s = DREXIT2
      <4>1. s \in register.pause..(register.pause + 1)
        BY <3>1, <3>2 DEF DRPAUSE, DREXIT2
      <4> QED
        BY <1>2, <4>1
    <3>3. CASE s # DREXIT2
      <4>1. q.chain.drLatch = p.chain.dr
        BY <1>2, <2>1, <3>1, <3>3, OutOfDataScan
      <4> QED
        BY <1>2, <2>2, <3>1, <4>1 DEF Latched
    <3> QED
      BY <3>2, <3>3
  <2>3. CASE register = IR
    <3>1. register.pause = IRPAUSE /\ last = p.chain.ir
      BY <2>3, PauseIs, RegistersDiffer DEF Held
    <3>2. CASE s = IREXIT2
      <4>1. s \in register.pause..(register.pause + 1)
        BY <3>1, <3>2 DEF IRPAUSE, IREXIT2
      <4> QED
        BY <1>2, <4>1
    <3>3. CASE s \notin {IREXIT2, RESET}
      <4>1. q.chain.irLatch = p.chain.ir
        BY <1>2, <2>1, <3>1, <3>3, OutOfInstructionScan
      <4> QED
        BY <1>2, <2>3, <3>1, <4>1, RegistersDiffer DEF Latched
    <3>4. CASE s = RESET
      BY <1>2, <2>3, <3>4
    <3> QED
      BY <3>2, <3>3, <3>4
  <2> QED
    BY <2>2, <2>3
<1> QED
  BY <1>1, <1>2

LEMMA MatchIs ==
  ASSUME NEW m \in Nat, NEW mask \in Seq(Bits), Len(mask) = m, NEW expected, NEW actual,
         NEW e, actual = [i \in 1..m |-> e[i]]
  PROVE  Matches(actual, expected, mask) <=> \A i \in 1..m : mask[i] = 0 \/ e[i] = expected[i]
<1>1. DOMAIN actual = 1..m /\ \A i \in 1..m : actual[i] = e[i]
  OBVIOUS
<1>2. ASSUME NEW i \in 1..m PROVE mask[i] = 0 \/ mask[i] = 1
  BY ElementOfSeq DEF Bits
<1>3. 0 # 1
  OBVIOUS
<1>4. Matches(actual, expected, mask) <=> \A i \in 1..m : mask[i] = 1 => actual[i] = expected[i]
  BY <1>1 DEF Matches
<1> QED
  BY <1>1, <1>2, <1>3, <1>4, Zenon

LEMMA ScanDelivers ==
  ASSUME Inv, NEW register \in {DR, IR}, NEW data \in Patterns, NEW use \in Uses(data),
         ScanStatement(register, data, use), status' = "SUCCESS", ~stray', Aligned(register)
  PROVE  Delivers(register)
<1>1. PICK start : start = GotoUnlessThere(port, StartState(jam_jtag_state))
  OBVIOUS
<1>2. PICK sent, n : sent = Sent(register, data) /\ n = Len(sent)
  OBVIOUS
<1>3. PICK scan : scan = Scan(start, EntryOf(register), sent, register.pause)
  OBVIOUS
<1>4. PICK end : end = GotoUnlessThere(scan.port, StopOf(register))
  OBVIOUS
<1>5. PICK out : out = Extract(register, scan.tdo, Len(data))
  OBVIOUS
<1>6. /\ status = "SUCCESS" /\ did' = [op |-> register.name, data |-> data, use |-> use]
      /\ use.mode = "COMPARE" => Len(use.mask) = Len(data)
      /\ PortIs(end) /\ start.belief = StartState(jam_jtag_state)
      /\ stray' = (stray \/ n = 0)
      /\ captured' = IF use.mode = "CAPTURE" /\ status' = "SUCCESS" THEN out ELSE captured
      /\ result' = IF use.mode = "COMPARE" /\ status' = "SUCCESS"
                   THEN Matches(out, use.expected, use.mask) ELSE result
  <2>1. status = "SUCCESS" /\ did' = [op |-> register.name, data |-> data, use |-> use]
    BY DEF ScanStatement, Moves
  <2>2. start.belief = StartState(jam_jtag_state)
    BY <1>1, StartIs DEF Inv
  <2> QED
    BY <1>1, <1>2, <1>3, <1>4, <1>5, <2>1, <2>2 DEF ScanStatement
<1>7. ~stray /\ n # 0
  BY <1>6
<1>8. PortOK
  BY DEF Inv
<1>9. /\ IsPort(start) /\ start.belief \in {IDLE, DRPAUSE, IRPAUSE}
      /\ start.chain.tap = start.belief
  BY <1>1, <1>6, <1>7, <1>8, StartIs
<1>10. data \in Seq(Bits)
  BY PatternsAssumption DEF Bits
<1>11. PICK pre, post : pre = asked[register.pre].bits /\ post = asked[register.post].bits
  OBVIOUS
<1>12. /\ sent \in Seq(Bits) /\ sent = (pre \o data) \o post
       /\ pre \in Seq(Bits) /\ post \in Seq(Bits) /\ padding[register.pre].count = Len(pre)
  BY <1>2, <1>6, <1>10, <1>11, SentIs, Zenon
<1>13. PICK h, line : h = Entered(register, start) /\ line = h \o sent
  OBVIOUS
<1>14. Line(register, sent) = line
  BY <1>1, <1>8, <1>13, LineIsEntered
<1>15. PICK L : L = Size(register)
  OBVIOUS
<1>16. h \in Registers(L) /\ L \in Nat \ {0}
  BY <1>9, <1>13, <1>15, EnteredIsRegister
<1>17. line \in Seq(Bits) /\ Len(line) = L + n /\ n \in Nat
  <2>1. h \o sent \in Seq(Bits) /\ Len(h \o sent) = L + Len(sent) /\ Len(sent) \in Nat
    <3>1. sent \in Seq(Bits) /\ L \in Nat /\ h \in Registers(L)
      BY <1>12, <1>16
    <3> QED
      BY <3>1, LineIs
  <2> QED
    BY <1>2, <1>13, <2>1
<1>18. ScanRight(register, start, sent, scan)
  BY <1>3, <1>9, <1>12, ScanIs, Zenon
<1>19. /\ scan.port.chain.tap = register.pause
       /\ Held(scan.port.chain, register) = LastBits(L, line)
       /\ scan.tdo \in Seq(Bits) /\ Len(scan.tdo) = n
       /\ \A i \in 1..n : scan.tdo[i] = line[i]
  BY <1>2, <1>7, <1>13, <1>15, <1>18 DEF ScanRight
<1>20. PICK last, s, p : last = LastBits(L, line) /\ s = StopOf(register) /\ p = scan.port
  OBVIOUS
<1>21. IsPort(p) /\ p.belief = register.pause
  <2>1. sent \in Seq(Bits)
    BY <1>12
  <2>2. IsPort(start) /\ start.belief \in {IDLE, DRPAUSE, IRPAUSE}
    BY <1>9
  <2>3. IsPort(scan.port) /\ scan.port.belief = register.pause
    BY <1>3, <2>1, <2>2, ScanType
  <2> QED
    BY <1>20, <2>3
<1>22. s \in TapStates
  BY <1>20 DEF Inv, StopsOK, StopOf
<1>23. /\ s = register.pause => Held(end.chain, register) = last
       /\ \/ s \in register.pause..(register.pause + 1)
          \/ s = RESET /\ register = IR
          \/ Latched(end.chain, register) = last
  BY <1>4, <1>19, <1>20, <1>21, <1>22, StopDelivers
<1>24. chain' = end.chain
  BY <1>6 DEF PortIs
<1>25. PICK k, m : k = Len(pre) /\ m = Len(data)
  OBVIOUS
<1>26. k \in Nat /\ m \in Nat /\ k + m <= n
  <2>1. PICK l : l = Len(post)
    OBVIOUS
  <2>2. k \in Nat /\ m \in Nat /\ l \in Nat
    BY <1>10, <1>12, <1>25, <2>1, LenProperties
  <2>3. pre \o data \in Seq(Bits) /\ Len(pre \o data) = k + m
    BY <1>10, <1>12, <1>25, ConcatProperties
  <2>4. Len((pre \o data) \o post) = (k + m) + l
    BY <1>12, <2>1, <2>3, ConcatProperties
  <2> QED
    BY <1>2, <1>12, <2>2, <2>4
<1>27. out = SubSeq(scan.tdo, k + 1, k + m)
  BY <1>5, <1>12, <1>25 DEF Extract
<1>28. out = SubSeq(line, k + 1, k + m) /\ out = [i \in 1..m |-> line[k + i]]
  <2>1. PICK tdo : tdo = scan.tdo
    OBVIOUS
  <2>2. /\ tdo \in Seq(Bits) /\ Len(tdo) = n /\ n <= Len(line)
        /\ \A i \in 1..Len(tdo) : tdo[i] = line[i] /\ out = SubSeq(tdo, k + 1, k + m)
    BY <1>16, <1>17, <1>19, <1>27, <2>1
  <2>3. out = SubSeq(tdo, k + 1, k + m)
    BY <1>27, <2>1
  <2> QED
    BY <1>17, <1>26, <2>2, <2>3, ExtractIs
<1>29. use.mode = "CAPTURE" => captured' = SubSeq(line, k + 1, k + m)
  BY <1>6, <1>28
<1>30. ASSUME use.mode = "COMPARE"
       PROVE  result' <=> \A i \in 1..m : use.mask[i] = 0 \/ line[k + i] = use.expected[i]
  <2>1. PICK c \in Compared : use = [mode |-> "COMPARE", expected |-> c.expected, mask |-> c.mask]
    BY <1>30 DEF Uses
  <2>2. PICK mask, expected : mask = use.mask /\ expected = use.expected
    OBVIOUS
  <2>3. mask \in Seq(Bits) /\ Len(mask) = m
    <3>1. mask = c.mask
      BY <2>1, <2>2
    <3> QED
      BY <1>6, <1>25, <1>30, <2>2, <3>1, ComparedAssumption DEF Bits
  <2>4. result' = Matches(out, expected, mask)
    BY <1>6, <1>30, <2>2
  <2>5. PICK e : e = [i \in 1..m |-> line[k + i]]
    OBVIOUS
  <2>6. out = [i \in 1..m |-> e[i]] /\ \A i \in 1..m : e[i] = line[k + i]
    BY <1>28, <2>5
  <2>7. Matches(out, expected, mask) <=> \A i \in 1..m : mask[i] = 0 \/ e[i] = expected[i]
    <3>1. m \in Nat
      BY <1>26
    <3>2. out = [i \in 1..m |-> e[i]]
      BY <2>6
    <3> QED
      BY <2>3, <3>1, <3>2, MatchIs, SMT
  <2> QED
    BY <2>2, <2>4, <2>6, <2>7
<1>31. /\ did'.data = data /\ did'.use = use /\ DOMAIN data = 1..m
  <2>1. did'.data = data /\ did'.use = use
    BY <1>6
  <2> QED
    BY <1>10, <1>25, <2>1, LenProperties
<1>32. Len(Held(chain, register)) = L
  <2>1. PICK r : r = Held(chain, register)
    OBVIOUS
  <2>2. r \in Registers(L)
    BY <1>8, <1>15, <2>1, HeldIsRegister DEF PortOK
  <2> QED
    BY <1>16, <2>1, <2>2, RegisterIsSeq
<1>33. Line(register, (pre \o data) \o post) = line
  BY <1>12, <1>14
<1> QED
  BY <1>11, <1>20, <1>23, <1>24, <1>25, <1>29, <1>30, <1>31, <1>32, <1>33, Zenon DEF Delivers

LEMMA DataScanKeeps ==
  ASSUME Inv, NEW data \in Patterns, NEW use \in Uses(data), ScanStatement(DR, data, use),
         ~stray, jam_drstop_state \notin {RESET, IRUPDATE}, jam_jtag_state \in IDLE..DRUPDATE
  PROVE  chain'.irLatch = chain.irLatch
<1>1. PICK start : start = GotoUnlessThere(port, StartState(jam_jtag_state))
  OBVIOUS
<1>2. PICK sent : sent = Sent(DR, data)
  OBVIOUS
<1>3. PICK scan : scan = Scan(start, EntryOf(DR), sent, DR.pause)
  OBVIOUS
<1>4. PICK end : end = GotoUnlessThere(scan.port, StopOf(DR))
  OBVIOUS
<1>5. status = "SUCCESS" /\ (chain' = chain \/ chain' = start.chain \/ chain' = end.chain)
  BY <1>1, <1>2, <1>3, <1>4 DEF ScanStatement, Moves, PortIs
<1>6. PortOK
  BY DEF Inv
<1>7. start.chain.irLatch = chain.irLatch
  <2>1. PICK p : p = port
    OBVIOUS
  <2>2. IsPort(p) /\ Knows(p) /\ p.chain = chain /\ p.belief = jam_jtag_state
    BY <1>6, <2>1, PortIsPort
  <2>3. p.belief # ILLEGAL
    BY <2>2 DEF IDLE, DRUPDATE, ILLEGAL
  <2>4. start = GotoUnlessThere(p, StartState(p.belief)) /\ p.chain.tap = p.belief
    BY <1>1, <2>1, <2>2, <2>3 DEF Knows
  <2> QED
    BY <2>2, <2>4, ToStart
<1>8. IsPort(start) /\ start.belief \in {IDLE, DRPAUSE, IRPAUSE} /\ start.chain.tap = start.belief
  BY <1>1, <1>6, StartIs
<1>9. start.belief # IRPAUSE
  <2>1. StartState(jam_jtag_state) \in {IDLE, DRPAUSE}
    BY DEF StartState, DRSELECT, DRUPDATE, IDLE, RESET, ILLEGAL, IRSELECT, IRUPDATE
  <2>2. start.belief = StartState(jam_jtag_state)
    BY <1>1, <1>6, StartIs
  <2> QED
    BY <2>1, <2>2 DEF IDLE, DRPAUSE, IRPAUSE
<1>10. sent \in Seq(Bits)
  <2>1. data \in Seq(Bits)
    BY PatternsAssumption DEF Bits
  <2> QED
    BY <1>2, <1>5, <2>1, SentIs, Zenon
<1>11. ScanRight(DR, start, sent, scan)
  BY <1>3, <1>8, <1>10, ScanIs
<1>12. PICK p : p = scan.port
  OBVIOUS
<1>13. IsPort(p) /\ p.belief = DRPAUSE /\ p.chain.tap \in {DRPAUSE, DRSHIFT}
  <2>1. DR.pause = DRPAUSE
    BY PauseIs
  <2>2. IsPort(scan.port) /\ scan.port.belief = DR.pause
    BY <1>3, <1>8, <1>10, ScanType
  <2> QED
    BY <1>11, <1>12, <2>1, <2>2 DEF ScanRight, ShiftState
<1>14. p.chain.irLatch = chain.irLatch
  BY <1>7, <1>9, <1>11, <1>12 DEF ScanRight
<1>15. end.chain.irLatch = p.chain.irLatch
  <2>1. PICK s : s = jam_drstop_state
    OBVIOUS
  <2>2. s \in TapStates /\ s \notin {RESET, IRUPDATE}
    BY <2>1 DEF Inv, StopsOK
  <2>3. end = GotoUnlessThere(p, s)
    BY <1>4, <1>12, <2>1 DEF StopOf
  <2>4. CASE s = DRPAUSE
    BY <1>13, <2>3, <2>4 DEF GotoUnlessThere
  <2>5. CASE s # DRPAUSE
    <3>1. end = jam_goto_jtag_state(p, s)
      BY <1>13, <2>3, <2>5 DEF GotoUnlessThere
    <3> QED
      BY <1>13, <2>2, <2>5, <3>1, OutOfDataScan
  <2> QED
    BY <2>4, <2>5
<1> QED
  BY <1>5, <1>7, <1>14, <1>15

\* Only a scan calls itself one.
LEMMA OnlyScans ==
  ASSUME Next, NEW register \in {DR, IR}, did'.op = register.name
  PROVE  \E data \in Patterns : \E use \in Uses(data) : ScanStatement(register, data, use)
<1>1. DR.name = "DR" /\ IR.name = "IR"
  BY DEF DR, IR
<1>2. register.name \in {"DR", "IR"}
  BY <1>1
<1>3. ASSUME NEW s \in StopStates, DrStop(s) \/ IrStop(s) PROVE FALSE
  <2>1. did'.op \in {"DRSTOP", "IRSTOP"}
    BY <1>3 DEF DrStop, IrStop
  <2> QED
    BY <1>2, <2>1
<1>4. ASSUME NEW side \in Sides, NEW p \in Paddings, PrePost(side, p) PROVE FALSE
  <2>1. did'.op = "PADDING"
    BY <1>4 DEF PrePost
  <2> QED
    BY <1>2, <2>1
<1>5. ASSUME NEW counts \in Counts, Padding(counts) PROVE FALSE
  <2>1. did'.op = "PADDING"
    BY <1>5 DEF Padding
  <2> QED
    BY <1>2, <2>1
<1>6. ASSUME NEW s \in Targets, State(s) PROVE FALSE
  <2>1. did'.op = "STATE"
    BY <1>6 DEF State
  <2> QED
    BY <1>2, <2>1
<1>7. ASSUME NEW s \in WaitStates, NEW cycles \in BOOLEAN, NEW usec \in BOOLEAN, NEW n \in Cycles,
             NEW end \in EndStates, Wait(s, cycles, n, usec, end)
      PROVE  FALSE
  <2>1. did'.op = "WAIT"
    BY <1>7 DEF Wait
  <2> QED
    BY <1>2, <2>1
<1>8. ASSUME NEW reset \in BOOLEAN, Finish(reset) PROVE FALSE
  <2>1. did'.op = "END"
    BY <1>8 DEF Finish
  <2> QED
    BY <1>2, <2>1
<1>9. ASSUME NEW r \in {DR, IR}, NEW data \in Patterns, NEW use \in Uses(data),
             ScanStatement(r, data, use)
      PROVE  r = register
  <2>1. did'.op = r.name
    <3>1. did' = [op |-> r.name, data |-> data, use |-> use]
      BY <1>9 DEF ScanStatement
    <3> QED
      BY <3>1
  <2>2. r.name = register.name
    BY <2>1
  <2>3. CASE r = DR
    BY <1>1, <2>2, <2>3
  <2>4. CASE r = IR
    BY <1>1, <2>2, <2>4
  <2> QED
    BY <2>3, <2>4
<1> QED
  BY <1>3, <1>4, <1>5, <1>6, <1>7, <1>8, <1>9 DEF Next

\* A successful scan does what the program asked, for registers, preambles, data and
\* postambles of any length and every stop state (jam_do_drscan and jam_do_irscan with
\* jam_goto_jtag_state, jam_jtag_concatenate_data and jam_jtag_extract_target_data), and
\* a data scan leaves the instruction alone.
THEOREM ScansAlwaysDeliver == Spec => ScansDeliver
<1>1. ASSUME Inv, Next, NEW register \in {DR, IR}, did'.op = register.name,
             status' = "SUCCESS", ~stray', Aligned(register)
      PROVE  Delivers(register)
  <2>1. PICK data \in Patterns : \E use \in Uses(data) : ScanStatement(register, data, use)
    BY <1>1, OnlyScans
  <2>2. PICK use \in Uses(data) : ScanStatement(register, data, use)
    BY <2>1
  <2> QED
    BY <1>1, <2>2, ScanDelivers
<1>2. ASSUME Inv, Next, did'.op = "DR", ~stray, jam_drstop_state \notin {RESET, IRUPDATE},
             jam_jtag_state \in IDLE..DRUPDATE
      PROVE  chain'.irLatch = chain.irLatch
  <2>1. DR.name = "DR"
    BY DEF DR
  <2>2. PICK data \in Patterns : \E use \in Uses(data) : ScanStatement(DR, data, use)
    BY <1>2, <2>1, OnlyScans
  <2>3. PICK use \in Uses(data) : ScanStatement(DR, data, use)
    BY <2>2
  <2> QED
    BY <1>2, <2>3, DataScanKeeps
<1>3. Inv /\ [Next]_vars =>
        [/\ \A register \in {DR, IR} :
              did'.op = register.name /\ status' = "SUCCESS" /\ ~stray' /\ Aligned(register) =>
                  Delivers(register)
         /\ did'.op = "DR" /\ ~stray /\ jam_drstop_state \notin {RESET, IRUPDATE}
               /\ jam_jtag_state \in IDLE..DRUPDATE
               => chain'.irLatch = chain.irLatch]_vars
  BY <1>1, <1>2
<1> QED
  BY <1>3, Invariance, PTL DEF Spec, ScansDeliver

===============================================================================
