-------------------------- MODULE Behaviors_proofs --------------------------
(***************************************************************************)
(* For any library, any number of runs, Robot objects and processes, and   *)
(* any order of claims, failures, crashes, cancels and obstacles: the lock *)
(* file on the bus is never an orphan of a live process; no command leaves *)
(* the velocity cap, since no plan does and a stop only slows it down; and *)
(* an arm that is held is not left behind.                                 *)
(***************************************************************************)
EXTENDS Behaviors, FiniteSetTheorems, SequenceTheorems, WellFoundedInduction, TLAPS

Holding == {"connecting", "open", "closing"}

(* A lock file of a live process is owned by the BusLock of one of its      *)
(* Robots, which is past its claim and not yet closed: the pid alone would  *)
(* not do, since the file of a process is removed by whichever of its       *)
(* Robots owns a lock.                                                      *)
LockIsOwned ==
    /\ robot = [r \in Robots |-> robot[r]]
    /\ owns = [r \in Robots |-> owns[r]]
    /\ lockFile \notin {Nobody} \cup crashed =>
          \E r \in Robots : Pid[r] = lockFile /\ owns[r] /\ robot[r] \in Holding

(* The steps of a Robot's life: who takes the file over owns it, and only   *)
(* the owner of a file that is still its process's removes it.              *)
LEMMA RobotKeepsLock ==
    ASSUME LockIsOwned, NEW r \in Robots,
           \/ \E force \in BOOLEAN : ReadsLock(r, force)
           \/ WritesLock(r) \/ Connects(r) \/ Disconnects(r) \/ Releases(r)
    PROVE  LockIsOwned'
<1>1. /\ robot' = [s \in Robots |-> robot'[s]]
      /\ owns' = [s \in Robots |-> owns'[s]]
      /\ crashed' = crashed
  BY DEF LockIsOwned, ReadsLock, WritesLock, Connects, Disconnects, Releases
<1> SUFFICES ASSUME lockFile' \notin {Nobody} \cup crashed
             PROVE  \E s \in Robots : Pid[s] = lockFile' /\ owns'[s] /\ robot'[s] \in Holding
  BY <1>1 DEF LockIsOwned
<1>2. CASE WritesLock(r) /\ lockFile' # lockFile
  BY <1>2 DEF WritesLock, LockIsOwned, Holding
<1>3. CASE lockFile' = lockFile
  <2>1. PICK s \in Robots : Pid[s] = lockFile /\ owns[s] /\ robot[s] \in Holding
    BY <1>3 DEF LockIsOwned
  <2>2. CASE s # r
    BY <1>3, <2>1, <2>2
       DEF LockIsOwned, ReadsLock, WritesLock, Connects, Disconnects, Releases
  <2>3. CASE s = r
    BY <1>3, <2>1, <2>3
       DEF LockIsOwned, Holding, ReadsLock, WritesLock, Connects, Disconnects, Releases,
           Released, Open
  <2> QED BY <2>2, <2>3
<1> QED
  BY <1>2, <1>3 DEF ReadsLock, Connects, Disconnects, Releases, Released

LEMMA LockStep == LockIsOwned /\ [Next]_vars => LockIsOwned'
<1> SUFFICES ASSUME LockIsOwned, [Next]_vars PROVE LockIsOwned'
  OBVIOUS
<1>1. CASE UNCHANGED lockVars
  BY <1>1 DEF lockVars, LockIsOwned
<1>2. ASSUME NEW r \in Robots,
             \/ \E force \in BOOLEAN : ReadsLock(r, force)
             \/ WritesLock(r) \/ Connects(r) \/ Disconnects(r) \/ Releases(r)
      PROVE  LockIsOwned'
  BY <1>2, RobotKeepsLock
<1>3. ASSUME NEW p \in Range(Pid), Crashes(p)
      PROVE  LockIsOwned'
  BY <1>3 DEF Crashes, LockIsOwned
<1>4. ASSUME NEW x \in RunIds,
             \/ Cancels(x) \/ PlayTick(x) \/ NoticesCancel(x) \/ StopTick(x) \/ TickFails(x)
             \/ \E r \in Robots, b \in Library, speed \in Speeds : Acts(x, r, b, speed)
      PROVE  UNCHANGED lockVars
  BY <1>4 DEF Cancels, PlayTick, NoticesCancel, StopTick, TickFails, Acts
<1>5. Obstacle => UNCHANGED lockVars
  BY DEF Obstacle
<1> QED BY <1>1, <1>2, <1>3, <1>4, <1>5 DEF Next, vars

(* Refused and failed constructors, crashes, forced claims and claims that  *)
(* race leave no bus that nobody drives and nobody may claim.               *)
THEOREM LocksHaveAHolder == Spec => []NoOrphanLock
<1>1. Init => LockIsOwned
  BY DEF Init, LockIsOwned
<1>2. LockIsOwned => NoOrphanLock
  BY DEF LockIsOwned, NoOrphanLock, Holding
<1> QED BY <1>1, <1>2, LockStep, PTL DEF Spec

-----------------------------------------------------------------------------
(* Poses, and how near two of them are.                                     *)
Vectors == [Joints -> Int]

Poses == {v \in Vectors : \A j \in Joints : Low[j] =< v[j] /\ v[j] =< High[j]}

Near(p, q) == \A j \in Joints : Distance(p[j], q[j]) =< Cap[j] + 1

LEMMA DistanceIs ==
    ASSUME NEW a \in Int, NEW b \in Int
    PROVE  /\ Distance(a, b) \in Nat /\ Distance(a, b) = Distance(b, a) /\ Distance(a, a) = 0
           /\ a - b =< Distance(a, b) /\ b - a =< Distance(a, b)
           /\ \A c \in Int : a - b =< c /\ b - a =< c => Distance(a, b) =< c
           /\ \A c \in Int : Distance(a, c) =< Distance(a, b) + Distance(b, c)
BY DEF Distance

LEMMA GreatestOfTwo ==
    ASSUME NEW a \in Int, NEW b \in Int
    PROVE  Max({a, b}) = IF a >= b THEN a ELSE b
BY DEF Max

LEMMA LeastOfTwo ==
    ASSUME NEW a \in Int, NEW b \in Int
    PROVE  Min({a, b}) = IF a =< b THEN a ELSE b
BY DEF Min

LEMMA Ranges ==
    ASSUME NEW j \in Joints
    PROVE  /\ Low[j] \in Int /\ High[j] \in Int /\ Low[j] < High[j] /\ Cap[j] \in Nat \ {0}
           /\ Margin(j) \in Nat
BY PlanAssumption, BehaviorsAssumption DEF Margin

(* Clipping brings a vector into the limits and draws no two apart.         *)
LEMMA ClippedIs ==
    ASSUME NEW v \in Vectors
    PROVE  /\ Clipped(v) \in Poses
           /\ \A j \in Joints :
                 Clipped(v)[j] = IF v[j] < Low[j] THEN Low[j]
                                 ELSE IF v[j] > High[j] THEN High[j] ELSE v[j]
<1>1. ASSUME NEW j \in Joints
      PROVE  /\ Clipped(v)[j] = IF v[j] < Low[j] THEN Low[j]
                                ELSE IF v[j] > High[j] THEN High[j] ELSE v[j]
             /\ Clipped(v)[j] \in Int /\ Low[j] =< Clipped(v)[j] /\ Clipped(v)[j] =< High[j]
  <2> DEFINE l == Low[j]
             h == High[j]
             x == v[j]
  <2>1. l \in Int /\ h \in Int /\ l < h /\ x \in Int
    BY Ranges DEF Vectors
  <2>2. Clipped(v)[j] = Max({l, Min({x, h})})
    BY DEF Clipped
  <2> HIDE DEF l, h, x
  <2>3. Min({x, h}) = IF x =< h THEN x ELSE h
    BY <2>1, LeastOfTwo
  <2> DEFINE m == Min({x, h})
  <2>4. m \in Int
    BY <2>1, <2>3
  <2>5. Max({l, m}) = IF l >= m THEN l ELSE m
    BY <2>1, <2>4, GreatestOfTwo
  <2>6. Clipped(v)[j] = IF x < l THEN l ELSE IF x > h THEN h ELSE x
    BY <2>1, <2>2, <2>3, <2>5
  <2>7. Clipped(v)[j] \in Int /\ l =< Clipped(v)[j] /\ Clipped(v)[j] =< h
    BY <2>1, <2>6
  <2> QED BY <2>6, <2>7 DEF l, h, x
<1>2. Clipped(v) = [j \in Joints |-> Clipped(v)[j]]
  BY DEF Clipped
<1> QED BY <1>1, <1>2 DEF Poses, Vectors

LEMMA ClippingNears ==
    ASSUME NEW v \in Vectors, NEW w \in Vectors, NEW j \in Joints
    PROVE  Distance(Clipped(v)[j], Clipped(w)[j]) =< Distance(v[j], w[j])
<1>1. /\ Low[j] \in Int /\ High[j] \in Int /\ Low[j] < High[j] /\ v[j] \in Int /\ w[j] \in Int
  BY Ranges DEF Vectors
<1>2. /\ Clipped(v)[j] = IF v[j] < Low[j] THEN Low[j]
                         ELSE IF v[j] > High[j] THEN High[j] ELSE v[j]
      /\ Clipped(w)[j] = IF w[j] < Low[j] THEN Low[j]
                         ELSE IF w[j] > High[j] THEN High[j] ELSE w[j]
  BY ClippedIs
<1> QED BY <1>1, <1>2 DEF Distance

LEMMA InLimits == ASSUME NEW p \in Poses PROVE p \in Vectors /\ Clipped(p) = p
<1>1. p \in Vectors
  BY DEF Poses
<1>2. \A j \in Joints : Clipped(p)[j] = p[j]
  <2> SUFFICES ASSUME NEW j \in Joints PROVE Clipped(p)[j] = p[j]
    OBVIOUS
  <2>1. Clipped(p)[j] = IF p[j] < Low[j] THEN Low[j]
                        ELSE IF p[j] > High[j] THEN High[j] ELSE p[j]
    BY <1>1, ClippedIs
  <2>2. Low[j] =< p[j] /\ p[j] =< High[j] /\ p[j] \in Int /\ Low[j] \in Int /\ High[j] \in Int
    BY <1>1, Ranges DEF Poses, Vectors
  <2> QED BY <2>1, <2>2
<1>3. p = [j \in Joints |-> p[j]] /\ Clipped(p) = [j \in Joints |-> Clipped(p)[j]]
  BY <1>1 DEF Vectors, Clipped
<1> QED BY <1>1, <1>2, <1>3

LEMMA ClippedNear ==
    ASSUME NEW v \in Vectors, NEW w \in Vectors, Near(v, w)
    PROVE  Near(Clipped(v), Clipped(w))
<1> SUFFICES ASSUME NEW j \in Joints
             PROVE  Distance(Clipped(v)[j], Clipped(w)[j]) =< Cap[j] + 1
  BY DEF Near
<1>1. Clipped(v)[j] \in Int /\ Clipped(w)[j] \in Int /\ v[j] \in Int /\ w[j] \in Int
  BY ClippedIs DEF Poses, Vectors
<1>2. Distance(Clipped(v)[j], Clipped(w)[j]) =< Distance(v[j], w[j])
  BY ClippingNears
<1>3. Distance(v[j], w[j]) =< Cap[j] + 1
  BY DEF Near
<1> QED BY <1>1, <1>2, <1>3, Ranges DEF Distance

-----------------------------------------------------------------------------
(* Numbers.                                                                 *)
LEMMA WellOrdered ==
    ASSUME NEW S \in SUBSET Nat, S # {}
    PROVE  \E n \in S : \A m \in S : n =< m
<1> DEFINE R == {ss \in Nat \X Nat : ss[1] < ss[2]}
<1>1. IsWellFoundedOn(R, Nat)
  BY NatLessThanWellFounded DEF OpToRel
<1> HIDE DEF R
<1>2. PICK n \in S : \A m \in S : ~(<<m, n>> \in R)
  BY <1>1, WFMin
<1>3. \A m \in S : ~(m < n)
  BY <1>2 DEF R
<1> QED BY <1>3

(* What is computed step by step exists.                                    *)
Advances(step, N, D) == step \in [1 .. N -> [D -> D]]

Computes(h, step, base, N, D) ==
    h \in [0 .. N -> D] /\ h[0] = base /\ \A i \in 1 .. N : h[i] = step[i][h[i - 1]]

LEMMA Recursion ==
    ASSUME NEW D, NEW base \in D, NEW N \in Nat, NEW step, Advances(step, N, D)
    PROVE  \E h : Computes(h, step, base, N, D)
<1> DEFINE Upto(n) == \E h \in [0 .. n -> D] :
                          h[0] = base /\ \A i \in 1 .. n : h[i] = step[i][h[i - 1]]
           Bad == {n \in 0 .. N : ~Upto(n)}
<1>1. Upto(0)
  <2> DEFINE h == [i \in 0 .. 0 |-> base]
  <2>1. h \in [0 .. 0 -> D] /\ h[0] = base /\ \A i \in 1 .. 0 : h[i] = step[i][h[i - 1]]
    OBVIOUS
  <2> QED BY <2>1
<1>2. ASSUME NEW n \in 0 .. N, n # 0, Upto(n - 1)
      PROVE  Upto(n)
  <2>1. PICK g \in [0 .. n - 1 -> D] :
            g[0] = base /\ \A i \in 1 .. n - 1 : g[i] = step[i][g[i - 1]]
    BY <1>2
  <2> DEFINE h == [i \in 0 .. n |-> IF i = n THEN step[n][g[n - 1]] ELSE g[i]]
  <2>2. n \in 1 .. N /\ n - 1 \in 0 .. n - 1 /\ step[n] \in [D -> D]
    BY <1>2 DEF Advances
  <2>3. h \in [0 .. n -> D]
    BY <2>2
  <2>4. h[0] = base
    BY <1>2, <2>1
  <2>5. ASSUME NEW i \in 1 .. n PROVE h[i] = step[i][h[i - 1]]
    <3>1. i - 1 \in 0 .. n /\ i - 1 # n /\ h[i - 1] = g[i - 1]
      BY <1>2
    <3>2. CASE i = n
      BY <3>1, <3>2
    <3>3. CASE i # n
      <4>1. i \in 1 .. n - 1 /\ h[i] = g[i]
        BY <1>2, <3>3
      <4> QED BY <2>1, <3>1, <4>1
    <3> QED BY <3>2, <3>3
  <2> HIDE DEF h
  <2> QED BY <2>3, <2>4, <2>5
<1> HIDE DEF Upto
<1>3. Bad = {}
  <2> SUFFICES ASSUME Bad # {} PROVE FALSE
    OBVIOUS
  <2>0. Bad \in SUBSET Nat
    OBVIOUS
  <2>1. PICK n \in Bad : \A m \in Bad : n =< m
    <3> HIDE DEF Bad
    <3> QED BY <2>0, WellOrdered
  <2>2. n # 0 /\ n - 1 \in 0 .. N /\ n - 1 < n
    BY <1>1, <2>1
  <2>3. Upto(n - 1)
    BY <2>1, <2>2
  <2> QED BY <1>2, <2>1, <2>2, <2>3
<1>4. Upto(N)
  BY <1>3
<1> QED BY <1>4, Zenon DEF Upto, Computes

(* The largest of finitely many fractions.                                  *)
LEMMA LargestFraction ==
    ASSUME NEW S, IsFiniteSet(S), S # {}, S \subseteq Nat \X (Nat \ {0})
    PROVE  \E d \in S : \A e \in S : e[1] * d[2] =< d[1] * e[2]
<1> DEFINE Largest(T) == \E d \in T : \A e \in T : e[1] * d[2] =< d[1] * e[2]
           Bad == {n \in Nat : \E T \in SUBSET S : T # {} /\ Cardinality(T) = n /\ ~Largest(T)}
<1>1. ASSUME NEW T \in SUBSET S, NEW x \in T, NEW d \in T, \A e \in T \ {x} : e[1] * d[2] =< d[1] * e[2]
      PROVE  Largest(T)
  <2>1. /\ x[1] \in Nat /\ x[2] \in Nat \ {0} /\ d[1] \in Nat /\ d[2] \in Nat \ {0}
    OBVIOUS
  <2>2. CASE x[1] * d[2] =< d[1] * x[2]
    BY <1>1, <2>2
  <2>3. CASE ~(x[1] * d[2] =< d[1] * x[2])
    <3>1. ASSUME NEW e \in T PROVE e[1] * x[2] =< x[1] * e[2]
      <4>1. CASE e = x
        BY <2>1, <4>1
      <4>2. CASE e # x
        <5>1. e[1] * d[2] =< d[1] * e[2] /\ e[1] \in Nat /\ e[2] \in Nat \ {0}
          BY <1>1, <4>2
        <5> DEFINE a == e[1]
                   b == e[2]
                   p == d[1]
                   q == d[2]
                   y == x[1]
                   z == x[2]
        <5>2. /\ a \in Nat /\ b \in Nat \ {0} /\ p \in Nat /\ q \in Nat \ {0}
              /\ y \in Nat /\ z \in Nat \ {0}
              /\ a * q =< p * b /\ p * z < y * q
          BY <2>1, <2>3, <5>1
        <5> HIDE DEF a, b, p, q, y, z
        <5>3. a * q * z =< p * b * z
          BY <5>2
        <5>4. p * z * b =< y * q * b
          BY <5>2
        <5>5. (a * z) * q =< (y * b) * q
          BY <5>2, <5>3, <5>4
        <5>6. a * z \in Nat /\ y * b \in Nat
          BY <5>2
        <5> DEFINE u == a * z
                   v == y * b
        <5> HIDE DEF u, v
        <5>7. u * q =< v * q /\ u \in Nat /\ v \in Nat
          BY <5>5, <5>6 DEF u, v
        <5>8. u =< v
          <6> SUFFICES ASSUME u >= v + 1 PROVE FALSE
            BY <5>7
          <6>1. u * q >= (v + 1) * q
            BY <5>2, <5>7
          <6> QED BY <5>2, <5>7, <6>1
        <5> QED BY <5>8 DEF u, v, a, b, y, z
      <4> QED BY <4>1, <4>2
    <3> QED BY <3>1
  <2> QED BY <2>2, <2>3
<1>2. ASSUME NEW T \in SUBSET S, T # {}, ~Largest(T)
      PROVE  \E U \in SUBSET S : U # {} /\ Cardinality(U) < Cardinality(T) /\ ~Largest(U)
  <2>1. PICK x : x \in T
    BY <1>2
  <2>2. IsFiniteSet(T) /\ Cardinality(T) \in Nat
    BY FS_Subset, FS_CardinalityType
  <2>3. T \ {x} # {}
    <3> SUFFICES ASSUME T = {x} PROVE FALSE
      BY <2>1
    <3>1. \A e \in T \ {x} : e[1] * x[2] =< x[1] * e[2]
      OBVIOUS
    <3> QED BY <1>1, <1>2, <2>1, <3>1
  <2>4. Cardinality(T \ {x}) = Cardinality(T) - 1
    BY <2>1, <2>2, FS_RemoveElement
  <2>5. ~Largest(T \ {x})
    <3> SUFFICES ASSUME NEW d \in T \ {x}, \A e \in T \ {x} : e[1] * d[2] =< d[1] * e[2]
                 PROVE  FALSE
      OBVIOUS
    <3> QED BY <1>1, <1>2, <2>1
  <2> QED BY <2>2, <2>3, <2>4, <2>5
<1> HIDE DEF Largest
<1>3. ASSUME ~Largest(S) PROVE FALSE
  <2>1. Cardinality(S) \in Nat
    BY FS_CardinalityType
  <2>2. Bad # {}
    BY <1>3, <2>1
  <2>3. PICK n \in Bad : \A m \in Bad : n =< m
    BY <2>2, WellOrdered
  <2>4. PICK T \in SUBSET S : T # {} /\ Cardinality(T) = n /\ ~Largest(T)
    BY <2>3
  <2>5. PICK U \in SUBSET S : U # {} /\ Cardinality(U) < n /\ ~Largest(U)
    BY <1>2, <2>4
  <2>6. Cardinality(U) \in Nat
    BY FS_Subset, FS_CardinalityType
  <2> QED BY <2>3, <2>5, <2>6
<1> QED BY <1>3 DEF Largest

LEMMA Quotient ==
    ASSUME NEW a \in Int, NEW b \in Nat \ {0}
    PROVE  a \div b \in Int /\ (a \div b) * b =< a /\ a < (a \div b) * b + b
OBVIOUS

(* Two fractions of one length, rounded down, are no further apart than the *)
(* fractions, rounded up.                                                   *)
LEMMA FloorStep ==
    ASSUME NEW x \in Int, NEW C \in Nat,
           NEW a \in Int, NEW b \in Nat \ {0}, NEW c \in Int, NEW d \in Nat \ {0},
           c * b - a * d >= 0,
           Distance(0, x) * (c * b - a * d) =< C * (b * d)
    PROVE  Distance((x * a) \div b, (x * c) \div d) =< C + 1
<1> DEFINE q == (x * a) \div b
           r == (x * c) \div d
           D == c * b - a * d
           P == b * d
<1>1. /\ q \in Int /\ q * b =< x * a /\ x * a < q * b + b
      /\ r \in Int /\ r * d =< x * c /\ x * c < r * d + d
  <2>1. x * a \in Int /\ x * c \in Int
    OBVIOUS
  <2> QED BY <2>1, Quotient
<1>2. D \in Nat /\ P \in Nat \ {0}
  OBVIOUS
<1>3. x * D =< C * P /\ (-x) * D =< C * P
  <2> DEFINE e == Distance(0, x)
  <2>1. e \in Nat /\ x =< e /\ -x =< e
    BY DEF Distance
  <2>2. e * D =< C * P
    OBVIOUS
  <2> HIDE DEF e, D, P
  <2>3. x * D =< e * D /\ (-x) * D =< e * D
    BY <1>2, <2>1
  <2>4. x * D \in Int /\ (-x) * D \in Int /\ e * D \in Int /\ C * P \in Int
    BY <1>2, <2>1
  <2> QED BY <2>2, <2>3, <2>4
<1> HIDE DEF q, r
<1>4. (r - q) * P < x * D + P
  <2>1. r * d * b =< x * c * b
    BY <1>1
  <2>2. x * a * d < (q * b + b) * d
    BY <1>1
  <2>3. (r - q) * P = r * d * b - q * b * d
    BY <1>1
  <2>4. x * D = x * c * b - x * a * d
    OBVIOUS
  <2>5. (q * b + b) * d = q * b * d + P
    BY <1>1
  <2> DEFINE t1 == r * d * b
             t2 == x * c * b
             t3 == x * a * d
             t4 == q * b * d
  <2>6. t1 \in Int /\ t2 \in Int /\ t3 \in Int /\ t4 \in Int
    BY <1>1
  <2>7. t1 =< t2 /\ t3 < t4 + P /\ (r - q) * P = t1 - t4 /\ x * D = t2 - t3
    BY <2>1, <2>2, <2>3, <2>4, <2>5
  <2> HIDE DEF t1, t2, t3, t4, P, D
  <2> QED BY <1>2, <2>6, <2>7
<1>5. (q - r) * P < (-x) * D + P
  <2>1. q * b * d =< x * a * d
    BY <1>1
  <2>2. x * c * b < (r * d + d) * b
    BY <1>1
  <2>3. (q - r) * P = q * b * d - r * d * b
    BY <1>1
  <2>4. (-x) * D = x * a * d - x * c * b
    OBVIOUS
  <2>5. (r * d + d) * b = r * d * b + P
    BY <1>1
  <2> DEFINE t1 == r * d * b
             t2 == x * c * b
             t3 == x * a * d
             t4 == q * b * d
  <2>6. t1 \in Int /\ t2 \in Int /\ t3 \in Int /\ t4 \in Int
    BY <1>1
  <2>7. t4 =< t3 /\ t2 < t1 + P /\ (q - r) * P = t4 - t1 /\ (-x) * D = t3 - t2
    BY <2>1, <2>2, <2>3, <2>4, <2>5
  <2> HIDE DEF t1, t2, t3, t4, P, D
  <2> QED BY <1>2, <2>6, <2>7
<1> HIDE DEF P, D
<1>6. ASSUME NEW w \in Int, w * P < C * P + P PROVE w =< C + 1
  <2> SUFFICES ASSUME w >= C + 1 + 1 PROVE FALSE
    OBVIOUS
  <2>1. w * P >= (C + 2) * P
    BY <1>2
  <2>2. (C + 2) * P = C * P + P + P
    BY <1>2
  <2>3. w * P \in Int /\ C * P \in Int
    BY <1>2
  <2> QED BY <1>2, <1>6, <2>1, <2>2, <2>3
<1>7. r - q =< C + 1 /\ q - r =< C + 1
  <2>1. /\ (r - q) * P \in Int /\ (q - r) * P \in Int /\ x * D \in Int /\ (-x) * D \in Int
        /\ C * P \in Int /\ r - q \in Int /\ q - r \in Int
    BY <1>1, <1>2
  <2>2. (r - q) * P < C * P + P /\ (q - r) * P < C * P + P
    BY <1>2, <1>3, <1>4, <1>5, <2>1
  <2> QED BY <1>6, <2>1, <2>2
<1>8. Distance(q, r) =< C + 1
  BY <1>1, <1>7 DEF Distance
<1> QED BY <1>8 DEF q, r

-----------------------------------------------------------------------------
(* The profiles: from 0 to 1, and never faster than their peak factor.      *)
Rises(a, b, f, n) ==
    /\ b[1] * a[2] - a[1] * b[2] >= 0
    /\ (b[1] * a[2] - a[1] * b[2]) * f[2] * n =< f[1] * (a[2] * b[2])

LEMMA RampRises ==
    ASSUME NEW n \in Nat \ {0}, NEW e \in Nat, NEW d \in Nat, e =< 8 * n,
           d = 3 * n * e
    PROVE  d >= 0 /\ d * 3 * n =< 4 * (3 * n * n * (6 * n))
<1>1. n * n * (9 * e) =< n * n * (72 * n)
  <2> DEFINE m == n * n
  <2>1. m \in Nat
    OBVIOUS
  <2> HIDE DEF m
  <2>2. m * (9 * e) =< m * (72 * n)
    BY <2>1
  <2> QED BY <2>2 DEF m
<1>2. d * 3 * n = n * n * (9 * e)
  OBVIOUS
<1>3. 4 * (3 * n * n * (6 * n)) = n * n * (72 * n)
  OBVIOUS
<1> QED BY <1>1, <1>2, <1>3

(* Where a ramp meets the middle.                                           *)
LEMMA Kink ==
    ASSUME NEW n \in Nat \ {0}, NEW k \in Nat, 4 * k < n, n =< 4 * k + 4
    PROVE  8 * n - (n - 4 * k) * (n - 4 * k) \in 0 .. 8 * n
<1> DEFINE r == n - 4 * k
<1>1. r \in 1 .. 4 /\ r =< n
  OBVIOUS
<1> HIDE DEF r
<1>2. r * r \in Nat /\ r * r =< 4 * r
  BY <1>1
<1>3. 8 * n - r * r \in 0 .. 8 * n
  BY <1>1, <1>2
<1> QED BY <1>3 DEF r

LEMMA TrapezoidRises ==
    ASSUME NEW n \in Nat \ {0}, NEW k \in 0 .. n - 1
    PROVE  Rises(Trapezoid(k, n), Trapezoid(k + 1, n), <<4, 3>>, n)
<1> DEFINE first(i) == 4 * i < n
           third(i) == 4 * i > 3 * n
           j == n - (k + 1)
           ramp == <<8 * k * k, 3 * n * n>>
           ramp2 == <<8 * (k + 1) * (k + 1), 3 * n * n>>
           mid == <<8 * k - n, 6 * n>>
           mid2 == <<8 * (k + 1) - n, 6 * n>>
           out == <<3 * n * n - 8 * (n - k) * (n - k), 3 * n * n>>
           out2 == <<3 * n * n - 8 * j * j, 3 * n * n>>
           A == Trapezoid(k, n)
           B == Trapezoid(k + 1, n)
<1>1. j \in Nat /\ n - k = j + 1 /\ k = n - j - 1 /\ k \in Nat
  OBVIOUS
<1>2. /\ A = IF first(k) THEN ramp ELSE IF third(k) THEN out ELSE mid
      /\ B = IF first(k + 1) THEN ramp2 ELSE IF third(k + 1) THEN out2 ELSE mid2
  BY DEF Trapezoid
<1>3. CASE first(k + 1)
  <2>1. A = ramp /\ B = ramp2 /\ 16 * k + 8 =< 4 * n
    BY <1>1, <1>2, <1>3
  <2> DEFINE e == 16 * k + 8
             m == n * n
  <2>2. e \in Nat /\ m \in Nat /\ e =< 4 * n
    BY <1>1, <2>1
  <2>3. B[1] * A[2] - A[1] * B[2] = 3 * m * e
    <3>1. B[1] * A[2] - A[1] * B[2] = 8 * (k + 1) * (k + 1) * (3 * n * n) - 8 * k * k * (3 * n * n)
      BY <2>1
    <3> QED BY <3>1
  <2>4. A[2] * B[2] = (3 * m) * (3 * m)
    BY <2>1
  <2>5. 3 * m * e >= 0
    <3> HIDE DEF m, e
    <3> QED BY <2>2
  <2>6. 3 * m * e * 3 * n =< 4 * ((3 * m) * (3 * m))
    <3>1. m * n * (9 * e) =< m * n * (36 * n)
      <4> DEFINE w == m * n
      <4>1. w \in Nat
        BY <2>2
      <4> HIDE DEF w, e
      <4>2. w * (9 * e) =< w * (36 * n)
        BY <2>2, <4>1
      <4> QED BY <4>2 DEF w
    <3>2. 3 * m * e * 3 * n = m * n * (9 * e) /\ 4 * ((3 * m) * (3 * m)) = m * n * (36 * n)
      OBVIOUS
    <3> QED BY <3>1, <3>2
  <2> HIDE DEF A, B, e, m
  <2>7. Rises(A, B, <<4, 3>>, n)
    BY <2>3, <2>4, <2>5, <2>6 DEF Rises
  <2> QED BY <2>7 DEF A, B
<1>4. CASE third(k)
  <2>1. A = out /\ B = out2 /\ 16 * j + 8 =< 4 * n
    BY <1>1, <1>2, <1>4
  <2> DEFINE e == 16 * j + 8
             m == n * n
  <2>2. e \in Nat /\ m \in Nat /\ e =< 4 * n
    BY <1>1, <2>1
  <2>3. B[1] * A[2] - A[1] * B[2] = 3 * m * e
    <3>1. B[1] * A[2] - A[1] * B[2]
            = (3 * n * n - 8 * j * j) * (3 * n * n) - (3 * n * n - 8 * (j + 1) * (j + 1)) * (3 * n * n)
      BY <1>1, <2>1
    <3> HIDE DEF j
    <3> QED BY <1>1, <3>1
  <2>4. A[2] * B[2] = (3 * m) * (3 * m)
    BY <2>1
  <2>5. 3 * m * e >= 0
    <3> HIDE DEF m, e
    <3> QED BY <2>2
  <2>6. 3 * m * e * 3 * n =< 4 * ((3 * m) * (3 * m))
    <3>1. m * n * (9 * e) =< m * n * (36 * n)
      <4> DEFINE w == m * n
      <4>1. w \in Nat
        BY <2>2
      <4> HIDE DEF w, e
      <4>2. w * (9 * e) =< w * (36 * n)
        BY <2>2, <4>1
      <4> QED BY <4>2 DEF w
    <3> HIDE DEF j
    <3>2. 3 * m * e * 3 * n = m * n * (9 * e) /\ 4 * ((3 * m) * (3 * m)) = m * n * (36 * n)
      BY <1>1
    <3> QED BY <3>1, <3>2
  <2> HIDE DEF A, B, e, m
  <2>7. Rises(A, B, <<4, 3>>, n)
    BY <2>3, <2>4, <2>5, <2>6 DEF Rises
  <2> QED BY <2>7 DEF A, B
<1>5. CASE first(k) /\ ~first(k + 1) /\ ~third(k + 1)
  <2> DEFINE e == 8 * n - (n - 4 * k) * (n - 4 * k)
  <2>1. A = ramp /\ B = mid2 /\ e \in 0 .. 8 * n
    BY <1>1, <1>2, <1>5, Kink
  <2>2. B[1] * A[2] - A[1] * B[2] = 3 * n * e
    <3>1. B[1] * A[2] - A[1] * B[2] = (8 * (k + 1) - n) * (3 * n * n) - 8 * k * k * (6 * n)
      BY <2>1
    <3> QED BY <3>1
  <2>3. A[2] * B[2] = 3 * n * n * (6 * n)
    BY <2>1
  <2> HIDE DEF A, B, e
  <2>4. 3 * n * e \in Nat
    BY <2>1
  <2>5. 3 * n * e * 3 * n =< 4 * (3 * n * n * (6 * n))
    BY <2>1, <2>4, RampRises
  <2>6. Rises(A, B, <<4, 3>>, n)
    BY <2>2, <2>3, <2>4, <2>5 DEF Rises
  <2> QED BY <2>6 DEF A, B
<1>6. CASE ~first(k) /\ ~third(k) /\ third(k + 1)
  <2> DEFINE e == 8 * n - (n - 4 * j) * (n - 4 * j)
  <2>1. A = mid /\ B = out2 /\ e \in 0 .. 8 * n
    BY <1>1, <1>2, <1>6, Kink
  <2>2. B[1] * A[2] - A[1] * B[2] = 3 * n * e
    <3>1. B[1] * A[2] - A[1] * B[2] = (3 * n * n - 8 * j * j) * (6 * n) - (8 * (n - j - 1) - n) * (3 * n * n)
      BY <1>1, <2>1
    <3> HIDE DEF j
    <3> QED BY <1>1, <3>1
  <2>3. A[2] * B[2] = 3 * n * n * (6 * n)
    BY <2>1
  <2> HIDE DEF A, B, e
  <2>4. 3 * n * e \in Nat
    BY <2>1
  <2>5. 3 * n * e * 3 * n =< 4 * (3 * n * n * (6 * n))
    BY <2>1, <2>4, RampRises
  <2>6. Rises(A, B, <<4, 3>>, n)
    BY <2>2, <2>3, <2>4, <2>5 DEF Rises
  <2> QED BY <2>6 DEF A, B
<1>7. CASE ~first(k) /\ ~third(k + 1)
  <2>1. A = mid /\ B = mid2
    BY <1>1, <1>2, <1>7
  <2>2. B[1] * A[2] - A[1] * B[2] = 48 * n
    <3>1. B[1] * A[2] - A[1] * B[2] = (8 * (k + 1) - n) * (6 * n) - (8 * k - n) * (6 * n)
      BY <2>1
    <3> QED BY <3>1
  <2>3. A[2] * B[2] = (6 * n) * (6 * n)
    BY <2>1
  <2> HIDE DEF A, B
  <2>4. 48 * n * 3 * n =< 4 * ((6 * n) * (6 * n)) /\ 48 * n >= 0
    OBVIOUS
  <2>5. Rises(A, B, <<4, 3>>, n)
    BY <2>2, <2>3, <2>4 DEF Rises
  <2> QED BY <2>5 DEF A, B
<1>8. CASE first(k) /\ third(k + 1)
  <2>1. n = 1 /\ k = 0
    BY <1>1, <1>8
  <2> QED BY <2>1, <1>2 DEF Rises
<1> QED BY <1>1, <1>3, <1>4, <1>5, <1>6, <1>7, <1>8

LEMMA MinJerkRises ==
    ASSUME NEW n \in Nat \ {0}, NEW k \in 0 .. n - 1
    PROVE  Rises(Shape("min_jerk", k, n), Shape("min_jerk", k + 1, n), <<15, 8>>, n)
<1> DEFINE q == n - 1 - k
           M == n * n * n * n * n
           P(i) == i * i * i * (10 * n * n - 15 * i * n + 6 * i * i)
           D == P(k + 1) - P(k)
<1>1. q \in Nat /\ k \in Nat /\ n = k + q + 1
  OBVIOUS
<1>2. Shape("min_jerk", k, n) = <<P(k), M>> /\ Shape("min_jerk", k + 1, n) = <<P(k + 1), M>>
  BY DEF Shape
<1>3. /\ P(k) \in Int /\ P(k + 1) \in Int /\ D \in Int
  <2> DEFINE a == 10 * n * n - 15 * k * n + 6 * k * k
             b == 10 * n * n - 15 * (k + 1) * n + 6 * (k + 1) * (k + 1)
  <2>1. a \in Int /\ b \in Int
    OBVIOUS
  <2> HIDE DEF a, b
  <2>2. k * k * k * a \in Int /\ (k + 1) * (k + 1) * (k + 1) * b \in Int
    BY <2>1
  <2> QED BY <2>2 DEF a, b
<1>4. D = 30 * (k * k * q * q) + 30 * (k * k * q) + 10 * (k * k) + 30 * (k * q * q) + 20 * (k * q)
          + 5 * k + 10 * (q * q) + 5 * q + 1
  <2>1. \A m \in Nat : n = k + m + 1 =>
          (k + 1) * (k + 1) * (k + 1) * (10 * n * n - 15 * (k + 1) * n + 6 * (k + 1) * (k + 1))
            - k * k * k * (10 * n * n - 15 * k * n + 6 * k * k)
          = 30 * (k * k * m * m) + 30 * (k * k * m) + 10 * (k * k) + 30 * (k * m * m) + 20 * (k * m)
              + 5 * k + 10 * (m * m) + 5 * m + 1
    OBVIOUS
  <2> QED BY <1>1, <2>1
<1>5. 15 * (n * n * n * n) - 8 * D
        = 15 * ((k - q) * (k - q)) * (n * n - 2 + (2 * q + 1) * (2 * k + 1)) + 10 * (n * n) - 3
  <2>1. \A m \in Nat : n = k + m + 1 =>
          15 * (n * n * n * n)
            - 8 * (30 * (k * k * m * m) + 30 * (k * k * m) + 10 * (k * k) + 30 * (k * m * m)
                     + 20 * (k * m) + 5 * k + 10 * (m * m) + 5 * m + 1)
          = 15 * ((k - m) * (k - m)) * (n * n - 2 + (2 * m + 1) * (2 * k + 1)) + 10 * (n * n) - 3
    OBVIOUS
  <2> QED BY <1>1, <1>4, <2>1
<1>6. 8 * D =< 15 * (n * n * n * n)
  <2> DEFINE s == (k - q) * (k - q)
             t == n * n
             u == (2 * q + 1) * (2 * k + 1)
  <2>1. s \in Nat /\ t \in Nat \ {0} /\ u \in Nat \ {0}
    <3> DEFINE z == k - q
    <3>1. z \in Int
      OBVIOUS
    <3> HIDE DEF z
    <3>2. z * z \in Nat
      BY <3>1
    <3>3. n * n \in Nat \ {0}
      OBVIOUS
    <3> DEFINE q1 == 2 * q + 1
               k1 == 2 * k + 1
    <3>4. q1 \in Nat \ {0} /\ k1 \in Nat \ {0}
      BY <1>1
    <3> HIDE DEF q1, k1
    <3>5. q1 * k1 \in Nat \ {0}
      BY <3>4
    <3> QED BY <3>2, <3>3, <3>5 DEF z, q1, k1
  <2> HIDE DEF s, u
  <2>2. t - 2 + u \in Nat
    BY <2>1
  <2> DEFINE y == t - 2 + u
             d8 == 8 * D
             n4 == n * n * n * n
  <2>3. n4 \in Int /\ d8 \in Int
    BY <1>3
  <2>4. 15 * n4 - d8 = 15 * s * y + 10 * t - 3
    BY <1>5 DEF s, u
  <2> HIDE DEF t, y, d8, n4
  <2>5. y \in Nat
    BY <2>2 DEF y
  <2>6. s * y \in Nat /\ 15 * s * y = 15 * (s * y)
    BY <2>1, <2>5
  <2>7. d8 =< 15 * n4
    BY <2>1, <2>3, <2>4, <2>6
  <2> QED BY <2>7 DEF d8, n4
<1>7. D >= 0
  <2>1. /\ k * k * q * q \in Nat /\ k * k * q \in Nat /\ k * k \in Nat /\ k * q * q \in Nat
        /\ k * q \in Nat /\ q * q \in Nat
    <3> HIDE DEF q
    <3> QED BY <1>1
  <2> QED BY <1>1, <1>4, <2>1
<1>8. M = n * n * n * n * n /\ n * n * n * n \in Nat \ {0} /\ M \in Nat \ {0}
  <2> DEFINE t == n * n
  <2>1. t \in Nat \ {0}
    OBVIOUS
  <2> HIDE DEF t
  <2>2. t * t \in Nat \ {0} /\ t * t * n \in Nat \ {0}
    BY <2>1
  <2> QED BY <2>2 DEF t
<1>9. Shape("min_jerk", k + 1, n)[1] * Shape("min_jerk", k, n)[2]
        - Shape("min_jerk", k, n)[1] * Shape("min_jerk", k + 1, n)[2] = D * M
  <2> DEFINE a == P(k)
             b == P(k + 1)
  <2>1. a \in Int /\ b \in Int
    BY <1>3
  <2>2. Shape("min_jerk", k, n) = <<a, M>> /\ Shape("min_jerk", k + 1, n) = <<b, M>>
    BY <1>2
  <2> HIDE DEF a, b, M
  <2>3. b * M - a * M = (b - a) * M
    BY <1>8, <2>1
  <2> QED BY <2>2, <2>3 DEF a, b
<1>10. D * M >= 0 /\ (D * M) * 8 * n =< 15 * (M * M)
  <2> DEFINE d == D
             n4 == n * n * n * n
             w == M * n
  <2>1. d \in Nat /\ n4 \in Nat /\ M \in Nat /\ 8 * d =< 15 * n4 /\ M = n4 * n
    BY <1>3, <1>6, <1>7, <1>8
  <2> HIDE DEF d, n4, M
  <2>2. w \in Nat
    BY <2>1
  <2>3. (8 * d) * w =< (15 * n4) * w
    <3> HIDE DEF w
    <3> QED BY <2>1, <2>2
  <2>4. (8 * d) * w = (d * M) * 8 * n
    BY <2>1
  <2>5. (15 * n4) * w = 15 * ((n4 * n) * M)
    BY <2>1
  <2>6. d * M >= 0
    BY <2>1
  <2> QED BY <2>1, <2>3, <2>4, <2>5, <2>6 DEF d
<1>11. Shape("min_jerk", k, n)[2] = M /\ Shape("min_jerk", k + 1, n)[2] = M
  BY <1>2
<1> HIDE DEF D, M
<1> QED BY <1>9, <1>10, <1>11 DEF Rises

LEMMA LinearRises ==
    ASSUME NEW n \in Nat \ {0}, NEW k \in 0 .. n - 1
    PROVE  Rises(Shape("linear", k, n), Shape("linear", k + 1, n), <<1, 1>>, n)
<1>1. Shape("linear", k, n) = <<k, n>> /\ Shape("linear", k + 1, n) = <<k + 1, n>>
  BY DEF Shape
<1>2. (k + 1) * n - k * n = n
  OBVIOUS
<1> QED BY <1>1, <1>2 DEF Rises

LEMMA ShapeRises ==
    ASSUME NEW profile \in Interpolations, NEW n \in Nat \ {0}, NEW k \in 0 .. n - 1
    PROVE  Rises(Shape(profile, k, n), Shape(profile, k + 1, n), PeakFactor(profile), n)
<1>1. CASE profile = "linear"
  BY <1>1, LinearRises DEF PeakFactor
<1>2. CASE profile = "min_jerk"
  BY <1>2, MinJerkRises DEF PeakFactor
<1>3. CASE profile = "trapezoidal"
  <2>1. \A i : Shape(profile, i, n) = Trapezoid(i, n)
    BY <1>3 DEF Shape
  <2>2. PeakFactor(profile) = <<4, 3>>
    BY <1>3 DEF PeakFactor
  <2> QED BY <2>1, <2>2, TrapezoidRises
<1> QED BY <1>1, <1>2, <1>3 DEF Interpolations

LEMMA ShapeIs ==
    ASSUME NEW profile \in Interpolations, NEW n \in Nat \ {0}, NEW k \in 0 .. n
    PROVE  LET s == Shape(profile, k, n)
           IN  /\ s[1] \in Int /\ s[2] \in Nat \ {0}
               /\ k = 0 => s[1] = 0
               /\ k = n => s[1] = s[2]
<1> DEFINE s == Shape(profile, k, n)
<1>1. CASE profile = "linear"
  <2>1. s = <<k, n>>
    BY <1>1 DEF Shape
  <2> QED BY <2>1
<1>2. CASE profile = "min_jerk"
  <2> DEFINE t == n * n
             M == n * n * n * n * n
             p == 10 * n * n - 15 * k * n + 6 * k * k
  <2>1. s = <<k * k * k * p, M>>
    BY <1>2 DEF Shape
  <2>2. t \in Nat \ {0} /\ p \in Int
    OBVIOUS
  <2>3. M \in Nat \ {0}
    <3> HIDE DEF t
    <3>1. t * t \in Nat \ {0} /\ t * t * n \in Nat \ {0}
      BY <2>2
    <3> QED BY <3>1 DEF t
  <2>4. k * k * k * p \in Int
    <3> HIDE DEF p
    <3> QED BY <2>2
  <2>5. k = n => k * k * k * p = M
    OBVIOUS
  <2>6. k = 0 => k * k * k * p = 0
    <3> HIDE DEF p
    <3> QED BY <2>2
  <2> HIDE DEF M, p
  <2> QED BY <2>1, <2>3, <2>4, <2>5, <2>6
<1>3. CASE profile = "trapezoidal"
  <2>1. s = Trapezoid(k, n)
    BY <1>3 DEF Shape
  <2>2. 3 * n * n \in Nat \ {0} /\ 6 * n \in Nat \ {0}
    OBVIOUS
  <2>3. 8 * k * k \in Int /\ 3 * n * n - 8 * (n - k) * (n - k) \in Int /\ 8 * k - n \in Int
    OBVIOUS
  <2>4. s \in {<<8 * k * k, 3 * n * n>>, <<3 * n * n - 8 * (n - k) * (n - k), 3 * n * n>>,
               <<8 * k - n, 6 * n>>}
    BY <2>1 DEF Trapezoid
  <2>5. k = 0 => s = <<8 * k * k, 3 * n * n>>
    BY <2>1 DEF Trapezoid
  <2>6. k = n => s = <<3 * n * n - 8 * (n - k) * (n - k), 3 * n * n>>
    BY <2>1 DEF Trapezoid
  <2>7. k = 0 => 8 * k * k = 0
    OBVIOUS
  <2>8. k = n => 3 * n * n - 8 * (n - k) * (n - k) = 3 * n * n
    OBVIOUS
  <2> HIDE DEF s
  <2>9. /\ s[1] \in Int /\ s[2] \in Nat \ {0}
        /\ k = 0 => s[1] = 0
        /\ k = n => s[1] = s[2]
    BY <2>2, <2>3, <2>4, <2>5, <2>6, <2>7, <2>8
  <2> QED BY <2>9 DEF s
<1> QED BY <1>1, <1>2, <1>3 DEF Interpolations

-----------------------------------------------------------------------------
(* A segment goes from p0, which it leaves out, to p1, within the caps.     *)
LEMMA Cancel ==
    ASSUME NEW u \in Int, NEW v \in Int, NEW w \in Nat \ {0}, u * w =< v * w
    PROVE  u =< v
<1> SUFFICES ASSUME u >= v + 1 PROVE FALSE
  OBVIOUS
<1>1. u * w >= (v + 1) * w
  OBVIOUS
<1>2. u * w \in Int /\ v * w \in Int /\ (v + 1) * w = v * w + w
  OBVIOUS
<1> QED BY <1>1, <1>2

Fractions == (Nat \ {0}) \X (Nat \ {0})

LEMMA StepsIs ==
    ASSUME NEW d \in Fractions
    PROVE  Steps(d) \in Nat \ {0} /\ d[1] =< Steps(d) * (d[2] * Dt)
<1> DEFINE a == d[1]
           b == d[2] * Dt
           q == (a + b - 1) \div b
<1>1. a \in Nat \ {0} /\ d[2] \in Nat \ {0} /\ Dt \in Nat \ {0}
  BY PlanAssumption DEF Fractions
<1>2. b \in Nat \ {0}
  BY <1>1
<1> HIDE DEF a, b
<1>3. q \in Int /\ a + b - 1 < q * b + b
  BY <1>1, <1>2, Quotient
<1>4. a =< q * b
  <2>1. q * b \in Int
    BY <1>2, <1>3
  <2> QED BY <1>1, <1>2, <1>3, <2>1
<1>5. Steps(d) = Max({1, q})
  BY DEF Steps, CeilDiv, a, b
<1> HIDE DEF q
<1>6. Steps(d) = IF 1 >= q THEN 1 ELSE q
  BY <1>3, <1>5, GreatestOfTwo
<1>7. Steps(d) \in Nat \ {0} /\ q =< Steps(d)
  BY <1>3, <1>6
<1>8. q * b =< Steps(d) * b
  BY <1>2, <1>3, <1>7
<1>9. a =< Steps(d) * b
  <2>1. Steps(d) * b \in Int /\ q * b \in Int
    BY <1>2, <1>3, <1>7
  <2> QED BY <1>1, <1>4, <1>8, <2>1
<1> QED BY <1>7, <1>9 DEF a, b

LEMMA PeakIs ==
    ASSUME NEW profile \in Interpolations
    PROVE  PeakFactor(profile)[1] \in Nat \ {0} /\ PeakFactor(profile)[2] \in Nat \ {0}
BY DEF Interpolations, PeakFactor

(* What a joint does in one step of a segment that is slow enough.          *)
LEMMA SlowStep ==
    ASSUME NEW x \in Int, NEW j \in Joints, NEW d \in Fractions, NEW profile \in Interpolations,
           Slow(Distance(0, x), j, d, profile), NEW k \in 0 .. Steps(d) - 1
    PROVE  LET a == Shape(profile, k, Steps(d))
               b == Shape(profile, k + 1, Steps(d))
           IN Distance((x * a[1]) \div a[2], (x * b[1]) \div b[2]) =< Cap[j] + 1
<1> DEFINE n == Steps(d)
           a == Shape(profile, k, n)
           b == Shape(profile, k + 1, n)
           f == PeakFactor(profile)[1]
           g == PeakFactor(profile)[2]
           y == Distance(0, x)
           C == Cap[j]
           t == d[2] * Dt
           E == b[1] * a[2] - a[1] * b[2]
           P == a[2] * b[2]
<1>1. n \in Nat \ {0} /\ d[1] =< n * t /\ d[1] \in Nat /\ d[2] \in Nat \ {0} /\ t \in Nat \ {0}
  BY StepsIs, PlanAssumption DEF Fractions
<1>2. f \in Nat \ {0} /\ g \in Nat \ {0} /\ C \in Nat /\ y \in Nat
  BY PeakIs, Ranges, DistanceIs
<1>3. a[1] \in Int /\ a[2] \in Nat \ {0} /\ b[1] \in Int /\ b[2] \in Nat \ {0}
  <2> HIDE DEF n
  <2>1. k \in 0 .. n /\ k + 1 \in 0 .. n
    BY <1>1 DEF n
  <2> QED BY <1>1, <2>1, ShapeIs
<1>4. E \in Nat /\ E * g * n =< f * P /\ P \in Nat \ {0}
  <2>1. Rises(a, b, PeakFactor(profile), n)
    BY <1>1, ShapeRises
  <2> HIDE DEF a, b, n
  <2> QED BY <1>3, <2>1 DEF Rises
<1>5. f * y * d[2] * Dt =< g * C * d[1]
  BY DEF Slow
<1>6. f * y =< g * C * n
  <2> DEFINE m == d[2]
             d1 == d[1]
  <2>0. Dt \in Nat \ {0} /\ m \in Nat \ {0} /\ t = m * Dt /\ d1 \in Nat
    BY <1>1, PlanAssumption
  <2>1. f * y * m * Dt =< g * C * d1 /\ d1 =< n * t
    BY <1>1, <1>5
  <2> HIDE DEF f, y, g, C, n, m, t, d1
  <2>2. f * y \in Nat /\ g * C \in Nat /\ g * C * n \in Nat
    BY <1>1, <1>2
  <2>3. f * y * m * Dt = (f * y) * t
    BY <1>1, <1>2, <2>0
  <2>4. (g * C) * d1 =< (g * C) * (n * t)
    <3> DEFINE u == g * C
               v == n * t
    <3>1. u \in Nat /\ v \in Nat /\ d1 =< v
      BY <1>1, <2>1, <2>2
    <3> HIDE DEF u, v
    <3>2. u * d1 =< u * v
      BY <2>0, <3>1
    <3> QED BY <3>2 DEF u, v
  <2>5. (g * C) * (n * t) = (g * C * n) * t
    BY <1>1, <1>2
  <2> DEFINE u == f * y
             v == g * C * n
             w == (g * C) * d1
  <2>6. u * t =< w /\ w =< v * t /\ u \in Nat /\ v \in Nat /\ w \in Int
    BY <2>0, <2>1, <2>2, <2>3, <2>4, <2>5
  <2> HIDE DEF u, v, w
  <2>7. u * t =< v * t
    <3>1. u * t \in Int /\ v * t \in Int
      BY <1>1, <2>6
    <3> QED BY <2>6, <3>1
  <2>8. u =< v
    BY <1>1, <2>6, <2>7, Cancel
  <2> QED BY <2>8 DEF u, v
<1>7. y * E =< C * P
  <2> HIDE DEF f, y, g, C, n, E, P
  <2> DEFINE u == y * E
             v == C * P
             w == g * n
             p == f * y
             q == g * C * n
  <2>1. u \in Nat /\ v \in Nat /\ w \in Nat \ {0} /\ p \in Nat /\ q \in Nat
    BY <1>1, <1>2, <1>4
  <2>2. (E * g * n) * y =< (f * P) * y
    <3> DEFINE r == E * g * n
               s == f * P
    <3>1. r \in Nat /\ s \in Nat /\ r =< s
      BY <1>1, <1>2, <1>4
    <3> HIDE DEF r, s
    <3>2. r * y =< s * y
      BY <1>2, <3>1
    <3> QED BY <3>2 DEF r, s
  <2>3. (E * g * n) * y = u * w /\ (f * P) * y = p * P /\ q * P = v * w
    BY <1>1, <1>2, <1>4
  <2>4. p * P =< q * P
    <3>1. p =< q
      BY <1>6
    <3> HIDE DEF p, q
    <3> QED BY <1>4, <2>1, <3>1
  <2> HIDE DEF u, v, w, p, q
  <2>5. u * w =< v * w
    <3>1. u * w \in Int /\ v * w \in Int /\ p * P \in Int
      BY <1>4, <2>1
    <3> QED BY <2>2, <2>3, <2>4, <3>1
  <2>6. u =< v
    BY <2>1, <2>5, Cancel
  <2> QED BY <2>6 DEF u, v
<1> HIDE DEF a, b
<1>8. Distance((x * a[1]) \div a[2], (x * b[1]) \div b[2]) =< C + 1
  <2> DEFINE p == a[1]
             q == a[2]
             r == b[1]
             s == b[2]
  <2>1. /\ p \in Int /\ q \in Nat \ {0} /\ r \in Int /\ s \in Nat \ {0} /\ C \in Nat
        /\ r * q - p * s >= 0
        /\ Distance(0, x) * (r * q - p * s) =< C * (q * s)
    BY <1>2, <1>3, <1>4, <1>7
  <2> HIDE DEF C, p, q, r, s
  <2>2. Distance((x * p) \div q, (x * r) \div s) =< C + 1
    BY <2>1, FloorStep
  <2> QED BY <2>2 DEF p, q, r, s
<1> QED BY <1>8 DEF a, b

(* Where a segment is after k of its n ticks.                               *)
At(p0, p1, profile, n, k) ==
    [j \in Joints |-> p0[j] + ((p1[j] - p0[j]) * Shape(profile, k, n)[1]) \div Shape(profile, k, n)[2]]

LEMMA AtIs ==
    ASSUME NEW p0 \in Vectors, NEW p1 \in Vectors, NEW profile \in Interpolations,
           NEW n \in Nat \ {0}, NEW k \in 0 .. n
    PROVE  /\ At(p0, p1, profile, n, k) \in Vectors
           /\ k = 0 => At(p0, p1, profile, n, k) = p0
           /\ k = n => At(p0, p1, profile, n, k) = p1
<1> DEFINE a == Shape(profile, k, n)
<1>1. a[1] \in Int /\ a[2] \in Nat \ {0} /\ (k = 0 => a[1] = 0) /\ (k = n => a[1] = a[2])
  BY ShapeIs
<1> HIDE DEF a
<1>2. ASSUME NEW j \in Joints
      PROVE  LET y == (p1[j] - p0[j]) * a[1]
             IN  /\ p0[j] + y \div a[2] \in Int
                 /\ k = 0 => p0[j] + y \div a[2] = p0[j]
                 /\ k = n => p0[j] + y \div a[2] = p1[j]
  <2> DEFINE x == p1[j] - p0[j]
             y == x * a[1]
  <2>1. x \in Int /\ p0[j] \in Int /\ p1[j] \in Int
    BY DEF Vectors
  <2>2. y \in Int
    <3> HIDE DEF x
    <3> QED BY <1>1, <2>1
  <2>3. y \div a[2] \in Int /\ (y \div a[2]) * a[2] =< y /\ y < (y \div a[2]) * a[2] + a[2]
    <3> HIDE DEF y
    <3> QED BY <1>1, <2>2, Quotient
  <2>4. ASSUME NEW z \in Int, y = z * a[2] PROVE y \div a[2] = z
    <3> DEFINE q == y \div a[2]
               b == a[2]
    <3>1. q \in Int /\ b \in Nat \ {0} /\ q * b =< z * b /\ z * b < (q + 1) * b
      <4>1. q * b =< y /\ y < q * b + b
        BY <2>3
      <4> HIDE DEF q, y
      <4> QED BY <1>1, <2>3, <2>4, <4>1 DEF q, y
    <3> HIDE DEF q, b
    <3>2. q =< z
      BY <3>1, Cancel
    <3>3. z =< q
      <4> SUFFICES ASSUME q + 1 =< z PROVE FALSE
        BY <3>1
      <4>1. (q + 1) * b =< z * b
        BY <3>1
      <4>2. (q + 1) * b \in Int /\ z * b \in Int
        BY <3>1
      <4> QED BY <3>1, <4>1, <4>2
    <3>4. q = z
      BY <3>1, <3>2, <3>3
    <3> QED BY <3>4 DEF q
  <2>5. k = 0 => y \div a[2] = 0
    <3>1. k = 0 => y = 0 * a[2]
      <4> HIDE DEF x
      <4> QED BY <1>1, <2>1
    <3> HIDE DEF y
    <3> QED BY <2>4, <3>1
  <2>6. k = n => y \div a[2] = x
    <3>1. k = n => y = x * a[2]
      BY <1>1
    <3> HIDE DEF y, x
    <3> QED BY <2>1, <2>4, <3>1
  <2> HIDE DEF y
  <2>7. /\ p0[j] + y \div a[2] \in Int
        /\ k = 0 => p0[j] + y \div a[2] = p0[j]
        /\ k = n => p0[j] + y \div a[2] = p1[j]
    BY <2>1, <2>3, <2>5, <2>6
  <2> QED BY <2>7 DEF y
<1>3. p0 = [j \in Joints |-> p0[j]] /\ p1 = [j \in Joints |-> p1[j]]
  BY DEF Vectors
<1>4. At(p0, p1, profile, n, k) = [j \in Joints |-> p0[j] + ((p1[j] - p0[j]) * a[1]) \div a[2]]
  BY DEF At, a
<1> QED BY <1>2, <1>3, <1>4 DEF Vectors

(* Consecutive vectors that are near, from p (left out) to the last, e.     *)
Leads(s, p, e) ==
    /\ s \in Seq(Vectors) /\ s # <<>>
    /\ Near(p, s[1]) /\ s[Len(s)] = e
    /\ \A i \in 1 .. Len(s) - 1 : Near(s[i], s[i + 1])

LEMMA SegmentLeads ==
    ASSUME NEW p0 \in Vectors, NEW p1 \in Vectors, NEW d \in Fractions,
           NEW profile \in Interpolations, SlowMove(p0, p1, d, profile)
    PROVE  Leads(Segment(p0, p1, d, profile), p0, p1)
<1> DEFINE n == Steps(d)
           s == Segment(p0, p1, d, profile)
           at(k) == At(p0, p1, profile, n, k)
<1>1. n \in Nat \ {0}
  BY StepsIs
<1>2. s = [k \in 1 .. n |-> at(k)]
  BY DEF Segment, At
<1>3. ASSUME NEW k \in 0 .. n - 1 PROVE Near(at(k), at(k + 1))
  <2> SUFFICES ASSUME NEW j \in Joints PROVE Distance(at(k)[j], at(k + 1)[j]) =< Cap[j] + 1
    BY DEF Near
  <2> DEFINE x == p1[j] - p0[j]
             u == (x * Shape(profile, k, n)[1]) \div Shape(profile, k, n)[2]
             v == (x * Shape(profile, k + 1, n)[1]) \div Shape(profile, k + 1, n)[2]
  <2>1. x \in Int /\ p0[j] \in Int /\ p1[j] \in Int
    BY DEF Vectors
  <2>2. Distance(p0[j], p1[j]) = Distance(0, x)
    BY <2>1 DEF Distance
  <2>3. Slow(Distance(0, x), j, d, profile)
    BY <2>2 DEF SlowMove
  <2>4. Distance(u, v) =< Cap[j] + 1
    <3> HIDE DEF x
    <3> QED BY <2>1, <2>3, SlowStep
  <2>5. at(k)[j] = p0[j] + u /\ at(k + 1)[j] = p0[j] + v
    BY DEF At
  <2>6. at(k) \in Vectors /\ at(k + 1) \in Vectors
    <3> HIDE DEF n
    <3> QED BY <1>1, AtIs
  <2>7. at(k)[j] \in Int /\ at(k + 1)[j] \in Int
    <3> HIDE DEF at
    <3> QED BY <2>6 DEF Vectors
  <2>8. u \in Int /\ v \in Int
    <3> HIDE DEF n
    <3>1. k \in 0 .. n /\ k + 1 \in 0 .. n
      BY <1>1
    <3> DEFINE a == Shape(profile, k, n)
               b == Shape(profile, k + 1, n)
    <3>2. a[1] \in Int /\ a[2] \in Nat \ {0} /\ b[1] \in Int /\ b[2] \in Nat \ {0}
      BY <1>1, <3>1, ShapeIs
    <3> HIDE DEF a, b, x
    <3>3. x * a[1] \in Int /\ x * b[1] \in Int
      BY <2>1, <3>2
    <3>4. (x * a[1]) \div a[2] \in Int /\ (x * b[1]) \div b[2] \in Int
      BY <3>2, <3>3, Quotient
    <3> QED BY <3>4 DEF a, b
  <2> HIDE DEF u, v, at
  <2> QED BY <2>1, <2>4, <2>5, <2>8 DEF Distance
<1>4. at(0) = p0 /\ at(n) = p1 /\ \A k \in 1 .. n : at(k) \in Vectors
  <2> HIDE DEF n
  <2> QED BY <1>1, AtIs
<1> HIDE DEF at, s, n
<1>5. s \in Seq(Vectors) /\ Len(s) = n
  <2>1. s \in [1 .. n -> Vectors]
    BY <1>2, <1>4
  <2> QED BY <1>1, <2>1, SeqDef, LenProperties
<1>6. \A i \in 1 .. n - 1 : Near(s[i], s[i + 1])
  BY <1>1, <1>2, <1>3
<1>7. Near(p0, s[1]) /\ s[n] = p1 /\ s # <<>>
  <2>1. 0 \in 0 .. n - 1 /\ 0 + 1 = 1 /\ 1 \in 1 .. n /\ n \in 1 .. n
    BY <1>1
  <2>2. Near(at(0), at(0 + 1))
    BY <1>3, <2>1
  <2> QED BY <1>1, <1>2, <1>4, <1>5, <2>1, <2>2, EmptySeq
<1> QED BY <1>5, <1>6, <1>7 DEF Leads, s

-----------------------------------------------------------------------------
(* Segments, one after another.                                             *)
LEMMA NearItself == ASSUME NEW p \in Vectors PROVE Near(p, p)
<1> SUFFICES ASSUME NEW j \in Joints PROVE Distance(p[j], p[j]) =< Cap[j] + 1
  BY DEF Near
<1>1. p[j] \in Int /\ Cap[j] \in Nat
  BY Ranges DEF Vectors
<1> QED BY <1>1 DEF Distance

LEMMA Joined ==
    ASSUME NEW s, NEW t, NEW p, NEW e, NEW q, NEW z, Leads(s, p, e), Leads(t, q, z), Near(e, t[1])
    PROVE  Leads(s \o t, p, z) /\ (s \o t)[1] = s[1] /\ Len(s \o t) = Len(s) + Len(t)
<1> DEFINE m == Len(s)
           n == Len(t)
           w == s \o t
<1>1. /\ s \in Seq(Vectors) /\ t \in Seq(Vectors) /\ m \in Nat \ {0} /\ n \in Nat \ {0}
      /\ Near(p, s[1]) /\ s[m] = e /\ t[n] = z
      /\ \A i \in 1 .. m - 1 : Near(s[i], s[i + 1])
      /\ \A i \in 1 .. n - 1 : Near(t[i], t[i + 1])
  BY LenProperties, EmptySeq DEF Leads
<1>2. /\ w \in Seq(Vectors) /\ Len(w) = m + n
      /\ \A i \in 1 .. m + n : w[i] = IF i =< m THEN s[i] ELSE t[i - m]
  BY <1>1, ConcatProperties
<1> HIDE DEF m, n, w
<1>3. w[1] = s[1] /\ w[m + n] = z /\ w # <<>>
  <2>1. 1 \in 1 .. m + n /\ 1 =< m /\ m + n \in 1 .. m + n /\ ~(m + n =< m) /\ m + n - m = n
    BY <1>1
  <2>2. Len(w) # 0
    BY <1>1, <1>2
  <2> QED BY <1>1, <1>2, <2>1, <2>2, EmptySeq
<1>4. ASSUME NEW i \in 1 .. m + n - 1 PROVE Near(w[i], w[i + 1])
  <2>1. i \in 1 .. m + n /\ i + 1 \in 1 .. m + n
    BY <1>1
  <2>2. CASE i < m
    <3>1. i \in 1 .. m - 1 /\ w[i] = s[i] /\ w[i + 1] = s[i + 1]
      BY <1>1, <1>2, <2>1, <2>2
    <3> QED BY <1>1, <3>1
  <2>3. CASE i = m
    <3>1. w[i] = e /\ w[i + 1] = t[1]
      BY <1>1, <1>2, <2>1, <2>3
    <3> QED BY <3>1
  <2>4. CASE i > m
    <3> DEFINE k == i - m
    <3>1. k \in 1 .. n - 1 /\ w[i] = t[k] /\ w[i + 1] = t[k + 1]
      BY <1>1, <1>2, <2>1, <2>4
    <3> HIDE DEF k
    <3> QED BY <1>1, <3>1
  <2> QED BY <1>1, <2>2, <2>3, <2>4
<1> QED BY <1>1, <1>2, <1>3, <1>4 DEF Leads, w, m, n

LEMMA Flattened ==
    ASSUME NEW N \in Nat, NEW segs \in [1 .. N -> Seq(Vectors)]
    PROVE  /\ N = 0 => FlattenSeq(segs) = <<>>
           /\ \E f : /\ \A i \in 1 .. N : f[i] = IF i = 1 THEN segs[1] ELSE f[i - 1] \o segs[i]
                     /\ N # 0 => FlattenSeq(segs) = f[N]
<1>1. segs \in Seq(Seq(Vectors)) /\ Len(segs) = N
  BY SeqDef, LenProperties
<1> DEFINE Walks(f) == f = [i \in 1 .. N |-> IF i = 1 THEN segs[i] ELSE f[i - 1] \o segs[i]]
<1>2. \E f : Walks(f)
  <2> DEFINE D == Seq(Vectors)
             base == <<>>
             step == [i \in 1 .. N |-> [s \in D |-> s \o segs[i]]]
  <2>1. Advances(step, N, D) /\ base \in D
    BY ConcatProperties DEF Advances
  <2> HIDE DEF step, D, base
  <2>2. PICK h : Computes(h, step, base, N, D)
    BY <2>1, Recursion
  <2> DEFINE f == [i \in 1 .. N |-> h[i]]
  <2>3. ASSUME NEW i \in 1 .. N
        PROVE  f[i] = IF i = 1 THEN segs[i] ELSE f[i - 1] \o segs[i]
    <3>1. h[i - 1] \in D /\ h[i] = h[i - 1] \o segs[i]
      <4>1. i - 1 \in 0 .. N /\ i \in 1 .. N
        OBVIOUS
      <4>2. h[i - 1] \in D /\ h[i] = step[i][h[i - 1]]
        BY <2>2, <4>1 DEF Computes
      <4>3. step[i] = [s \in D |-> s \o segs[i]]
        BY DEF step
      <4> HIDE DEF f
      <4> QED BY <4>2, <4>3
    <3>2. CASE i = 1
      <4>1. h[i] = <<>> \o segs[i]
        BY <2>2, <3>1, <3>2 DEF base, Computes
      <4>2. segs[i] \in Seq(Vectors)
        OBVIOUS
      <4> QED BY <3>2, <4>1, <4>2, ConcatEmptySeq
    <3>3. CASE i # 1
      BY <3>1, <3>3
    <3> QED BY <3>2, <3>3
  <2> HIDE DEF f
  <2>4. f = [i \in 1 .. N |-> f[i]]
    BY DEF f
  <2>5. Walks(f)
    BY <2>3, <2>4
  <2> QED BY <2>5
<1> DEFINE f == CHOOSE g : Walks(g)
<1>3. Walks(f)
  BY <1>2
<1>4. N # 0 => FlattenSeq(segs) = f[N]
  BY <1>1 DEF FlattenSeq
<1>5. N = 0 => FlattenSeq(segs) = <<>>
  BY <1>1, EmptySeq DEF FlattenSeq
<1> HIDE DEF f
<1>6. \A i \in 1 .. N : f[i] = IF i = 1 THEN segs[1] ELSE f[i - 1] \o segs[i]
  BY <1>3
<1> QED BY <1>4, <1>5, <1>6

LEMMA SamplesLead ==
    ASSUME NEW N \in Nat, NEW way \in Seq(Vectors), Len(way) = N + 1,
           NEW durations \in [1 .. N -> Fractions], NEW profile \in Interpolations,
           \A i \in 1 .. N : SlowMove(way[i], way[i + 1], durations[i], profile)
    PROVE  LET s == Samples(way, durations, profile)
           IN  /\ Leads(s, way[1], way[N + 1]) /\ s[1] = way[1]
               /\ N # 0 => Len(s) > 1
<1> DEFINE segs == [i \in 1 .. N |-> Segment(way[i], way[i + 1], durations[i], profile)]
           s == Samples(way, durations, profile)
           first == <<way[1]>>
<1>1. s = first \o FlattenSeq(segs)
  BY DEF Samples
<1>2. \A i \in 1 .. N + 1 : way[i] \in Vectors
  BY ElementOfSeq
<1>3. ASSUME NEW i \in 1 .. N PROVE Leads(segs[i], way[i], way[i + 1])
  <2>1. i \in 1 .. N + 1 /\ i + 1 \in 1 .. N + 1 /\ durations[i] \in Fractions
    OBVIOUS
  <2> QED BY <1>2, <2>1, SegmentLeads
<1>4. segs \in [1 .. N -> Seq(Vectors)]
  <2>1. \A i \in 1 .. N : segs[i] \in Seq(Vectors)
    <3> HIDE DEF segs
    <3> QED BY <1>3 DEF Leads
  <2> QED BY <2>1
<1> HIDE DEF segs, s
<1>5. way[1] \in Vectors /\ Near(way[1], way[1])
  BY <1>2, NearItself
<1>6. first \in Seq(Vectors) /\ Len(first) = 1 /\ first[1] = way[1] /\ first # <<>>
  BY <1>5
<1>7. Leads(first, way[1], way[1])
  <2> HIDE DEF first
  <2> QED BY <1>5, <1>6 DEF Leads
<1>8. CASE N = 0
  <2>1. s = first
    BY <1>1, <1>4, <1>6, <1>8, Flattened, ConcatEmptySeq
  <2> QED BY <1>6, <1>7, <1>8, <2>1 DEF s
<1>9. CASE N # 0
  <2>1. PICK f : /\ \A i \in 1 .. N : f[i] = IF i = 1 THEN segs[1] ELSE f[i - 1] \o segs[i]
                 /\ FlattenSeq(segs) = f[N]
    BY <1>4, <1>9, Flattened
  <2> DEFINE Done(i) == Leads(f[i], way[1], way[i + 1])
             Bad == {i \in 1 .. N : ~Done(i)}
  <2>2. Bad = {}
    <3> SUFFICES ASSUME Bad # {} PROVE FALSE
      OBVIOUS
    <3>1. Bad \in SUBSET Nat
      OBVIOUS
    <3>2. PICK i \in Bad : \A m \in Bad : i =< m
      <4> HIDE DEF Bad
      <4> QED BY <3>1, WellOrdered
    <3>3. i \in 1 .. N /\ ~Done(i)
      OBVIOUS
    <3>4. i # 1
      <4>1. f[1] = segs[1] /\ Leads(segs[1], way[1], way[1 + 1])
        BY <1>3, <1>9, <2>1
      <4> QED BY <3>3, <4>1
    <3>5. i - 1 \in 1 .. N /\ i - 1 < i /\ i - 1 + 1 = i
      BY <3>3, <3>4
    <3>6. Done(i - 1)
      <4> HIDE DEF Done
      <4> QED BY <3>2, <3>5
    <3>7. Leads(f[i - 1], way[1], way[i]) /\ Leads(segs[i], way[i], way[i + 1])
      BY <1>3, <3>3, <3>5, <3>6
    <3>8. Near(way[i], segs[i][1])
      BY <3>7 DEF Leads
    <3>9. f[i] = f[i - 1] \o segs[i]
      BY <2>1, <3>3, <3>4
    <3>10. Leads(f[i], way[1], way[i + 1])
      BY <3>7, <3>8, <3>9, Joined
    <3> QED BY <3>3, <3>10
  <2>3. Leads(f[N], way[1], way[N + 1])
    BY <1>9, <2>2
  <2>4. Near(way[1], f[N][1]) /\ f[N] # <<>> /\ f[N] \in Seq(Vectors)
    BY <2>3 DEF Leads
  <2>5. Leads(s, way[1], way[N + 1]) /\ s[1] = way[1] /\ Len(s) = 1 + Len(f[N])
    <3> DEFINE t == f[N]
    <3>1. /\ s = first \o t /\ Leads(first, way[1], way[1]) /\ Leads(t, way[1], way[N + 1])
          /\ Near(way[1], t[1]) /\ first[1] = way[1] /\ Len(first) = 1
      BY <1>1, <1>6, <1>7, <2>1, <2>3, <2>4
    <3> HIDE DEF first, t
    <3> QED BY <3>1, Joined DEF t
  <2>6. Len(f[N]) \in Nat \ {0}
    BY <2>4, LenProperties, EmptySeq
  <2> QED BY <2>5, <2>6 DEF s
<1> QED BY <1>8, <1>9

-----------------------------------------------------------------------------
(* A plan goes from the live pose to the target within the caps.            *)
LEMMA AutoIsSlow ==
    ASSUME NEW p0 \in Vectors, NEW p1 \in Vectors, NEW profile \in Interpolations
    PROVE  /\ AutoDuration(p0, p1, profile) \in Fractions
           /\ SlowMove(p0, p1, AutoDuration(p0, p1, profile), profile)
<1> DEFINE f == PeakFactor(profile)[1]
           g == PeakFactor(profile)[2]
           num(j) == f * Distance(p0[j], p1[j]) * Dt * Comfort[2]
           den(j) == g * Cap[j] * Comfort[1]
           each == {<<num(j), den(j)>> : j \in Joints}
           needs == each \cup {<<MinAuto, 1>>}
           d == CHOOSE d \in needs : \A e \in needs : e[1] * d[2] =< d[1] * e[2]
<1>1. /\ f \in Nat \ {0} /\ g \in Nat \ {0} /\ Dt \in Nat \ {0} /\ MinAuto \in Nat \ {0}
      /\ Comfort[1] \in Nat \ {0} /\ Comfort[2] \in Nat \ {0} /\ Comfort[1] =< Comfort[2]
      /\ IsFiniteSet(Joints)
  BY PeakIs, PlanAssumption
<1>2. ASSUME NEW j \in Joints
      PROVE  num(j) \in Nat /\ den(j) \in Nat \ {0} /\ Distance(p0[j], p1[j]) \in Nat
             /\ Cap[j] \in Nat \ {0}
  <2>1. Distance(p0[j], p1[j]) \in Nat /\ Cap[j] \in Nat \ {0}
    BY Ranges, DistanceIs DEF Vectors
  <2> DEFINE y == Distance(p0[j], p1[j])
             c1 == Comfort[1]
             c2 == Comfort[2]
             C == Cap[j]
  <2>2. y \in Nat /\ c1 \in Nat \ {0} /\ c2 \in Nat \ {0} /\ C \in Nat \ {0}
    BY <1>1, <2>1
  <2> HIDE DEF f, g, y, c1, c2, C
  <2>3. f * y \in Nat /\ f * y * Dt \in Nat /\ g * C \in Nat \ {0}
    BY <1>1, <2>2
  <2>4. f * y * Dt * c2 \in Nat /\ g * C * c1 \in Nat \ {0}
    <3> DEFINE u == f * y * Dt
               v == g * C
    <3>1. u \in Nat /\ v \in Nat \ {0}
      BY <2>3
    <3> HIDE DEF u, v
    <3>2. u * c2 \in Nat /\ v * c1 \in Nat \ {0}
      BY <2>2, <3>1
    <3> QED BY <3>2 DEF u, v
  <2> QED BY <2>1, <2>4 DEF y, c1, c2, C
<1>3. IsFiniteSet(each)
  <2> HIDE DEF num, den
  <2> DEFINE pair == [j \in Joints |-> <<num(j), den(j)>>]
  <2>1. pair \in Surjection(Joints, each)
    BY DEF Surjection
  <2> HIDE DEF pair, each
  <2> QED BY <1>1, <2>1, FS_Surjection
<1>4. IsFiniteSet(needs) /\ needs # {} /\ needs \subseteq Nat \X (Nat \ {0})
  <2>1. IsFiniteSet({<<MinAuto, 1>>})
    BY FS_Singleton
  <2>2. each \subseteq Nat \X (Nat \ {0})
    <3> HIDE DEF num, den
    <3> QED BY <1>2
  <2>3. {<<MinAuto, 1>>} \subseteq Nat \X (Nat \ {0})
    BY <1>1
  <2> HIDE DEF each
  <2> QED BY <1>3, <2>1, <2>2, <2>3, FS_Union
<1>5. d \in needs /\ \A e \in needs : e[1] * d[2] =< d[1] * e[2]
  <2> HIDE DEF needs
  <2>1. \E x \in needs : \A e \in needs : e[1] * x[2] =< x[1] * e[2]
    BY <1>4, LargestFraction
  <2> QED BY <2>1
<1>6. AutoDuration(p0, p1, profile) = d
  BY DEF AutoDuration
<1>7. <<MinAuto, 1>> \in needs /\ \A j \in Joints : <<num(j), den(j)>> \in needs
  OBVIOUS
<1> HIDE DEF d
<1>8. d[1] \in Nat \ {0} /\ d[2] \in Nat \ {0} /\ d \in Fractions
  <2>1. d \in Nat \X (Nat \ {0}) /\ MinAuto * d[2] =< d[1] * 1
    <3> HIDE DEF needs
    <3> QED BY <1>4, <1>5, <1>7
  <2>2. d[1] \in Nat /\ d[2] \in Nat \ {0} /\ d = <<d[1], d[2]>>
    BY <2>1
  <2>3. MinAuto * d[2] >= 1
    BY <1>1, <2>2
  <2>4. d[1] \in Nat \ {0}
    <3> DEFINE a == d[1]
               b == MinAuto * d[2]
    <3>1. a \in Nat /\ b \in Int /\ b >= 1 /\ b =< a * 1
      BY <1>1, <2>1, <2>2, <2>3
    <3> HIDE DEF a, b
    <3>2. a # 0
      BY <3>1
    <3> QED BY <3>1, <3>2 DEF a
  <2> QED BY <2>2, <2>4 DEF Fractions
<1>9. ASSUME NEW j \in Joints PROVE Slow(Distance(p0[j], p1[j]), j, d, profile)
  <2> DEFINE y == Distance(p0[j], p1[j])
             c1 == Comfort[1]
             c2 == Comfort[2]
             C == Cap[j]
             p == d[1]
             q == d[2]
  <2>1. num(j) * q =< p * den(j)
    <3> HIDE DEF needs, num, den
    <3> QED BY <1>5, <1>7
  <2>2. (f * y * Dt * c2) * q =< p * (g * C * c1)
    BY <2>1
  <2>3. /\ y \in Nat /\ c1 \in Nat \ {0} /\ c2 \in Nat \ {0} /\ C \in Nat \ {0}
        /\ c1 =< c2 /\ p \in Nat /\ q \in Nat
    BY <1>1, <1>2, <1>8
  <2> HIDE DEF f, g, y, c1, c2, C, p, q
  <2> DEFINE u == f * y * q * Dt
             v == g * C * p
  <2>4. u \in Nat /\ v \in Nat
    <3>1. f * y \in Nat /\ f * y * q \in Nat /\ g * C \in Nat
      BY <1>1, <2>3
    <3> DEFINE a == f * y * q
               b == g * C
    <3> HIDE DEF a, b
    <3>2. a * Dt \in Nat /\ b * p \in Nat
      BY <1>1, <2>3, <3>1 DEF a, b
    <3> QED BY <3>2 DEF a, b
  <2>5. (f * y * Dt * c2) * q = u * c2 /\ p * (g * C * c1) = v * c1
    BY <1>1, <2>3
  <2> HIDE DEF u, v
  <2>6. v * c1 =< v * c2
    BY <2>3, <2>4
  <2>7. u * c2 =< v * c2
    <3>1. u * c2 \in Nat /\ v * c1 \in Nat /\ v * c2 \in Nat
      BY <2>3, <2>4
    <3> QED BY <2>2, <2>5, <2>6, <3>1
  <2>8. u =< v
    BY <2>3, <2>4, <2>7, Cancel
  <2> QED BY <2>8 DEF Slow, u, v, f, g, y, C, p, q
<1> QED BY <1>6, <1>8, <1>9 DEF SlowMove

LEMMA AtSpeedIs ==
    ASSUME NEW d \in Fractions, NEW speed \in Fractions
    PROVE  AtSpeed(d, speed) \in Fractions
<1>1. /\ d[1] \in Nat \ {0} /\ d[2] \in Nat \ {0} /\ speed[1] \in Nat \ {0} /\ speed[2] \in Nat \ {0}
  BY DEF Fractions
<1>2. d[1] * speed[2] \in Nat \ {0} /\ d[2] * speed[1] \in Nat \ {0}
  <2> DEFINE a == d[1]
             b == d[2]
             u == speed[1]
             v == speed[2]
  <2> HIDE DEF a, b, u, v
  <2>1. a * v \in Nat \ {0} /\ b * u \in Nat \ {0}
    BY <1>1 DEF a, b, u, v
  <2> QED BY <2>1 DEF a, b, u, v
<1> QED BY <1>2 DEF AtSpeed, Fractions

LEMMA RetargetedIs ==
    ASSUME NEW p \in Poses, NEW targets, \A j \in DOMAIN targets : targets[j] \in Int
    PROVE  Retargeted(p, targets) \in Poses
<1> DEFINE v == [j \in Joints |-> IF j \in DOMAIN targets THEN targets[j] ELSE p[j]]
<1>1. v \in Vectors
  BY DEF Vectors, Poses
<1> HIDE DEF v
<1>2. Clipped(v) \in Poses
  BY <1>1, ClippedIs
<1> QED BY <1>2 DEF Retargeted, v

LEMMA WaypointsAre ==
    ASSUME NEW b, IsBehavior(b), b.kind # "pose", NEW live \in Poses
    PROVE  /\ Waypoints(b, live) \in Seq(Poses)
           /\ Len(Waypoints(b, live)) = Len(b.keyframes) /\ Len(b.keyframes) \in Nat \ {0}
           /\ DOMAIN b.keyframes = 1 .. Len(b.keyframes)
           /\ \A i \in 1 .. Len(b.keyframes) : b.keyframes[i].t \in Int
<1> DEFINE kf == b.keyframes
           N == Len(kf)
           D == Poses
           step == [i \in 1 .. N |-> [p \in D |-> Retargeted(p, kf[i].targets)]]
           Walks(f) == f = [i \in 0 .. N |-> IF i = 0 THEN live ELSE Retargeted(f[i - 1], kf[i].targets)]
           way == CHOOSE f : Walks(f)
<1>1. kf \in Seq(Range(kf)) /\ kf # <<>>
  BY DEF IsBehavior
<1>2. N \in Nat \ {0} /\ DOMAIN kf = 1 .. N
  <2> HIDE DEF kf
  <2> QED BY <1>1, LenProperties, EmptySeq
<1>3. ASSUME NEW i \in 1 .. N
      PROVE  kf[i].t \in Int /\ \A j \in DOMAIN kf[i].targets : kf[i].targets[j] \in Int
  BY <1>2 DEF IsBehavior
<1>4. Waypoints(b, live) = [i \in 1 .. N |-> way[i]]
  BY <1>2 DEF Waypoints
<1>5. Advances(step, N, D)
  <2>1. ASSUME NEW i \in 1 .. N, NEW p \in D PROVE Retargeted(p, kf[i].targets) \in D
    BY <1>3, RetargetedIs
  <2> HIDE DEF D, kf, N
  <2> QED BY <2>1 DEF Advances
<1>6. \E f : Walks(f) /\ f \in [0 .. N -> D]
  <2> HIDE DEF step
  <2>1. PICK h : Computes(h, step, live, N, D)
    BY <1>2, <1>5, Recursion
  <2>2. h \in [0 .. N -> D] /\ h[0] = live
    BY <2>1 DEF Computes
  <2>3. ASSUME NEW i \in 1 .. N PROVE h[i] = Retargeted(h[i - 1], kf[i].targets)
    <3>1. i - 1 \in 0 .. N
      BY <1>2
    <3>2. h[i - 1] \in D /\ h[i] = step[i][h[i - 1]]
      BY <2>1, <2>2, <3>1 DEF Computes
    <3>3. step[i] = [p \in D |-> Retargeted(p, kf[i].targets)]
      BY DEF step
    <3> HIDE DEF D, kf
    <3> QED BY <3>2, <3>3
  <2>4. ASSUME NEW i \in 0 .. N PROVE h[i] = IF i = 0 THEN live ELSE Retargeted(h[i - 1], kf[i].targets)
    <3>1. i # 0 => i \in 1 .. N
      BY <1>2
    <3> QED BY <2>2, <2>3, <3>1
  <2>5. h = [i \in 0 .. N |-> h[i]]
    BY <2>2
  <2>6. Walks(h)
    <3> HIDE DEF D, kf, N
    <3> QED BY <2>4, <2>5
  <2> QED BY <2>2, <2>6
<1>7. Walks(way)
  BY <1>6
<1>8. way \in [0 .. N -> D]
  <2>1. PICK f : Walks(f) /\ f \in [0 .. N -> D]
    BY <1>6
  <2> DEFINE Bad == {i \in 0 .. N : way[i] # f[i]}
  <2>2. Bad = {}
    <3> HIDE DEF way
    <3> SUFFICES ASSUME Bad # {} PROVE FALSE
      OBVIOUS
    <3>1. Bad \in SUBSET Nat
      OBVIOUS
    <3>2. PICK i \in Bad : \A m \in Bad : i =< m
      <4> HIDE DEF Bad
      <4> QED BY <3>1, WellOrdered
    <3>3. i \in 0 .. N /\ way[i] # f[i]
      OBVIOUS
    <3>4. /\ way[i] = IF i = 0 THEN live ELSE Retargeted(way[i - 1], kf[i].targets)
          /\ f[i] = IF i = 0 THEN live ELSE Retargeted(f[i - 1], kf[i].targets)
      BY <1>7, <2>1, <3>3
    <3>5. i # 0 => i - 1 \in 0 .. N /\ i - 1 < i
      BY <1>2, <3>3
    <3>6. i # 0 => way[i - 1] = f[i - 1]
      BY <3>2, <3>5
    <3> QED BY <3>3, <3>4, <3>6
  <2>3. way = [i \in 0 .. N |-> way[i]]
    BY <1>7
  <2>4. \A i \in 0 .. N : way[i] \in D
    <3> HIDE DEF way, D
    <3> QED BY <2>1, <2>2
  <2> HIDE DEF way
  <2> QED BY <2>3, <2>4
<1> HIDE DEF way
<1>9. Waypoints(b, live) \in [1 .. N -> Poses]
  BY <1>2, <1>4, <1>8
<1>10. Waypoints(b, live) \in Seq(Poses) /\ Len(Waypoints(b, live)) = N
  BY <1>2, <1>9, SeqDef, LenProperties
<1> QED BY <1>2, <1>3, <1>10

(* The commands of a plan are near one another, and the first is the pose   *)
(* the plan was made from.                                                  *)
Gentle(s) ==
    /\ s \in Seq(Vectors) /\ s # <<>>
    /\ \A i \in 1 .. Len(s) - 1 : Near(s[i], s[i + 1])

LEMMA LeadsIsGentle ==
    ASSUME NEW s, NEW p, NEW e, NEW live \in Vectors, Leads(s, p, e), s[1] = live
    PROVE  Gentle(s) /\ Near(live, s[1])
BY NearItself DEF Leads, Gentle

LEMMA PosePlanGentle ==
    ASSUME NEW b, IsBehavior(b), b.kind = "pose", NEW live \in Poses, NEW speed \in Fractions,
           PosePlan(b, live, speed).safe
    PROVE  LET s == PosePlan(b, live, speed).samples IN Gentle(s) /\ Near(live, s[1])
<1> DEFINE target == Retargeted(live, b.targets)
           long == IF b.duration = 0 THEN AutoDuration(live, target, b.interpolation) ELSE <<b.duration, 1>>
           d == AtSpeed(long, speed)
           way == <<live, target>>
           durations == <<d>>
           s == Samples(way, durations, b.interpolation)
<1>1. /\ b.duration \in Nat /\ b.interpolation \in Interpolations
      /\ \A j \in DOMAIN b.targets : b.targets[j] \in Int
  BY DEF IsBehavior
<1>2. target \in Poses
  BY <1>1, RetargetedIs
<1>3. SlowMove(live, target, d, b.interpolation) /\ PosePlan(b, live, speed).samples = s
  BY DEF PosePlan
<1> HIDE DEF target
<1>4. live \in Vectors /\ target \in Vectors
  BY <1>2 DEF Poses
<1>5. long \in Fractions
  <2>1. b.duration # 0 => <<b.duration, 1>> \in Fractions
    BY <1>1 DEF Fractions
  <2> QED BY <1>1, <1>4, <2>1, AutoIsSlow
<1> HIDE DEF long
<1>6. d \in Fractions
  BY <1>5, AtSpeedIs
<1> HIDE DEF d
<1>7. way \in Seq(Vectors) /\ Len(way) = 1 + 1 /\ way[1] = live /\ way[2] = target
  BY <1>4
<1>8. durations \in [1 .. 1 -> Fractions] /\ durations[1] = d
  BY <1>6
<1>9. \A i \in 1 .. 1 : SlowMove(way[i], way[i + 1], durations[i], b.interpolation)
  BY <1>3, <1>7, <1>8
<1> HIDE DEF way, durations
<1>10. Leads(s, way[1], way[1 + 1]) /\ s[1] = way[1]
  BY <1>1, <1>7, <1>8, <1>9, SamplesLead
<1> HIDE DEF s
<1>11. Gentle(s) /\ Near(live, s[1])
  BY <1>4, <1>7, <1>10, LeadsIsGentle
<1> QED BY <1>3, <1>11

LEMMA ApproachLeads ==
    ASSUME NEW live \in Vectors, NEW first \in Vectors, live # first
    PROVE  LET s == Approach(live, first)
           IN  \E e : Leads(s, live, e) /\ Near(e, first) /\ s[1] = live
<1> DEFINE d == AutoDuration(live, first, "min_jerk")
           way == <<live, first>>
           durations == <<d>>
           w == Samples(way, durations, "min_jerk")
           m == Len(w) - 1
           s == SubSeq(w, 1, m)
<1>1. "min_jerk" \in Interpolations
  BY DEF Interpolations
<1>2. d \in Fractions /\ SlowMove(live, first, d, "min_jerk")
  BY <1>1, AutoIsSlow
<1>3. Approach(live, first) = s
  BY DEF Approach, Front
<1> HIDE DEF d
<1>4. way \in Seq(Vectors) /\ Len(way) = 1 + 1 /\ way[1] = live /\ way[2] = first
  OBVIOUS
<1>5. durations \in [1 .. 1 -> Fractions] /\ durations[1] = d
  BY <1>2
<1>6. \A i \in 1 .. 1 : SlowMove(way[i], way[i + 1], durations[i], "min_jerk")
  BY <1>2, <1>4, <1>5
<1> HIDE DEF way, durations
<1>7. Leads(w, live, first) /\ w[1] = live /\ Len(w) > 1
  <2>1. Leads(w, way[1], way[1 + 1]) /\ w[1] = way[1] /\ (1 # 0 => Len(w) > 1)
    BY <1>1, <1>4, <1>5, <1>6, SamplesLead
  <2> HIDE DEF w
  <2> QED BY <1>4, <2>1
<1> HIDE DEF w
<1>8. /\ w \in Seq(Vectors) /\ Len(w) \in Nat /\ m \in Nat \ {0}
      /\ \A i \in 1 .. m : w[i] \in Vectors /\ Near(w[i], w[i + 1])
      /\ w[m + 1] = first
  BY <1>7, LenProperties DEF Leads
<1> HIDE DEF m
<1>9. s \in Seq(Vectors) /\ Len(s) = m /\ \A i \in 1 .. m : s[i] = w[i]
  <2>1. \A i \in 1 .. m : w[i] \in Vectors
    BY <1>8
  <2>2. /\ s \in Seq(Vectors) /\ Len(s) = m - 1 + 1
        /\ \A i \in 1 .. m - 1 + 1 : s[i] = w[1 + i - 1]
    BY <1>8, <2>1, SubSeqProperties
  <2> HIDE DEF s
  <2> QED BY <1>8, <2>2
<1> HIDE DEF s
<1>10. Leads(s, live, w[m])
  <2>1. s # <<>> /\ s[1] = live /\ s[m] = w[m] /\ Near(live, live)
    BY <1>7, <1>8, <1>9, NearItself, EmptySeq
  <2>2. \A i \in 1 .. m - 1 : Near(s[i], s[i + 1])
    BY <1>8, <1>9
  <2> QED BY <1>9, <2>1, <2>2 DEF Leads
<1>11. Near(w[m], first) /\ s[1] = live
  BY <1>7, <1>8, <1>9
<1> QED BY <1>3, <1>10, <1>11

LEMMA TrajectoryPlanGentle ==
    ASSUME NEW b, IsBehavior(b), b.kind # "pose", ValidShape(b),
           NEW live \in Poses, NEW speed \in Fractions, TrajectoryPlan(b, live, speed).safe
    PROVE  LET s == TrajectoryPlan(b, live, speed).samples IN Gentle(s) /\ Near(live, s[1])
<1> DEFINE way == Waypoints(b, live)
           N == Len(b.keyframes) - 1
           durations == [i \in 1 .. N |-> Lasts(b, i, speed)]
           t == Samples(way, durations, b.interpolation)
           a == Approach(live, way[1])
<1>1. b.interpolation \in Interpolations /\ live \in Vectors
  BY DEF IsBehavior, Poses
<1>2. /\ way \in Seq(Vectors) /\ Len(way) = N + 1 /\ N \in Nat
      /\ \A i \in 1 .. N + 1 : b.keyframes[i].t \in Int
  <2>1. way \in Seq(Poses) /\ Poses \subseteq Vectors
    BY WaypointsAre DEF Poses
  <2> QED BY <2>1, WaypointsAre
<1>3. Gaps(b) = 1 .. N
  BY DEF Gaps
<1>4. /\ \A i \in 1 .. N : SlowMove(way[i], way[i + 1], durations[i], b.interpolation)
      /\ TrajectoryPlan(b, live, speed).samples = a \o t
  BY <1>3 DEF TrajectoryPlan
<1> HIDE DEF way
<1>5. durations \in [1 .. N -> Fractions]
  <2> SUFFICES ASSUME NEW i \in 1 .. N PROVE Lasts(b, i, speed) \in Fractions
    OBVIOUS
  <2> DEFINE gap == b.keyframes[i + 1].t - b.keyframes[i].t
             u == speed[1]
             v == speed[2]
  <2>1. gap \in Nat \ {0}
    <3>1. b.keyframes[i].t < b.keyframes[i + 1].t
      BY <1>3 DEF ValidShape
    <3>2. b.keyframes[i].t \in Int /\ b.keyframes[i + 1].t \in Int
      BY <1>2
    <3> QED BY <3>1, <3>2
  <2>2. u \in Nat \ {0} /\ v \in Nat \ {0} /\ Lasts(b, i, speed) = <<gap * v, u>>
    BY DEF Fractions, Lasts
  <2> HIDE DEF gap, u, v
  <2>3. gap * v \in Nat \ {0}
    BY <2>1, <2>2
  <2> QED BY <2>2, <2>3 DEF Fractions
<1> HIDE DEF durations
<1>6. Leads(t, way[1], way[N + 1]) /\ t[1] = way[1]
  <2> HIDE DEF N
  <2> QED BY <1>1, <1>2, <1>4, <1>5, SamplesLead
<1>7. way[1] \in Vectors
  BY <1>2, ElementOfSeq
<1> HIDE DEF t, a
<1>8. CASE live = way[1]
  <2>1. a = <<>>
    BY <1>8 DEF a, Approach
  <2>2. a \o t = t
    BY <1>6, <2>1, ConcatEmptySeq DEF Leads
  <2>3. Gentle(t) /\ Near(live, t[1])
    BY <1>1, <1>6, <1>8, LeadsIsGentle
  <2> QED BY <1>4, <2>2, <2>3
<1>9. CASE live # way[1]
  <2>1. PICK e : Leads(a, live, e) /\ Near(e, way[1]) /\ a[1] = live
    BY <1>1, <1>7, <1>9, ApproachLeads DEF a
  <2>2. Leads(a \o t, live, way[N + 1]) /\ (a \o t)[1] = live
    BY <1>6, <2>1, Joined
  <2> DEFINE s == a \o t
  <2> HIDE DEF s
  <2>3. Gentle(s) /\ Near(live, s[1])
    BY <1>1, <2>2, LeadsIsGentle DEF s
  <2> QED BY <1>4, <2>3 DEF s
<1> QED BY <1>8, <1>9

LEMMA PlanIsGentle ==
    ASSUME NEW b \in Library, NEW live \in Poses, NEW speed \in Speeds,
           Valid(b), Plan(b, live, speed).safe
    PROVE  LET s == Plan(b, live, speed).samples IN Gentle(s) /\ Near(live, s[1])
<1>1. IsBehavior(b) /\ speed \in Fractions
  BY BehaviorsAssumption DEF Fractions
<1>2. CASE b.kind = "pose"
  BY <1>1, <1>2, PosePlanGentle DEF Plan
<1>3. CASE b.kind # "pose"
  BY <1>1, <1>3, TrajectoryPlanGentle DEF Plan, Valid
<1> QED BY <1>2, <1>3

-----------------------------------------------------------------------------
(* The stop ramp.  What it lets a joint run on in k ticks is at most        *)
(* Run(k) / (2 StopTicks^3) of its velocity, half of (StopTicks - 1) of it  *)
(* over the whole ramp.                                                     *)
Cube == StopTicks * StopTicks * StopTicks

Run(k) == 2 * k * Cube - k * (k + 1) * (2 * k + 1) * StopTicks + k * k * (k + 1) * (k + 1)

LEMMA NatQuotient ==
    ASSUME NEW a \in Nat, NEW b \in Nat \ {0}
    PROVE  a \div b \in Nat /\ (a \div b) * b =< a
OBVIOUS

LEMMA RampIs ==
    ASSUME NEW k \in Nat, k =< StopTicks
    PROVE  /\ Cube \in Nat \ {0} /\ Ramp(k)[2] = Cube
           /\ Ramp(k)[1] = (StopTicks - k) * (StopTicks - k) * (StopTicks + 2 * k)
           /\ Ramp(k)[1] \in Nat
<1> DEFINE N == StopTicks
<1>1. N \in Nat \ {0}
  BY BehaviorsAssumption
<1>2. /\ Ramp(k)[1] = N * N * N - 3 * k * k * N + 2 * k * k * k
      /\ Ramp(k)[2] = N * N * N /\ Cube = N * N * N
  BY DEF Ramp, Cube
<1> HIDE DEF N
<1>3. N * N * N - 3 * k * k * N + 2 * k * k * k = (N - k) * (N - k) * (N + 2 * k)
  BY <1>1
<1>4. (N - k) \in Nat /\ (N + 2 * k) \in Nat
  BY <1>1 DEF N
<1>5. (N - k) * (N - k) * (N + 2 * k) \in Nat
  <2> DEFINE a == N - k
             b == N + 2 * k
  <2>1. a \in Nat /\ b \in Nat
    BY <1>4
  <2> HIDE DEF a, b
  <2>2. a * a * b \in Nat
    BY <2>1
  <2> QED BY <2>2 DEF a, b
<1>6. N * N * N \in Nat \ {0}
  BY <1>1
<1> QED BY <1>2, <1>3, <1>5, <1>6 DEF N

LEMMA RunGrows ==
    ASSUME NEW k \in Nat, k < StopTicks
    PROVE  /\ Run(0) = 0 /\ Run(k) \in Int
           /\ Run(k + 1) = Run(k) + 2 * Ramp(k + 1)[1]
           /\ Run(k) =< (StopTicks - 1) * Cube
<1> DEFINE N == StopTicks
<1>1. N \in Nat \ {0} /\ Cube = N * N * N
  BY BehaviorsAssumption DEF Cube
<1>2. /\ Ramp(k + 1)[1] = N * N * N - 3 * (k + 1) * (k + 1) * N + 2 * (k + 1) * (k + 1) * (k + 1)
      /\ Run(k) = 2 * k * (N * N * N) - k * (k + 1) * (2 * k + 1) * N + k * k * (k + 1) * (k + 1)
      /\ Run(k + 1) = 2 * (k + 1) * (N * N * N) - (k + 1) * (k + 1 + 1) * (2 * (k + 1) + 1) * N
                        + (k + 1) * (k + 1) * (k + 1 + 1) * (k + 1 + 1)
      /\ Run(0) = 2 * 0 * (N * N * N) - 0 * (0 + 1) * (2 * 0 + 1) * N + 0 * 0 * (0 + 1) * (0 + 1)
  BY <1>1 DEF Ramp, Run
<1> HIDE DEF N
<1>3. Run(0) = 0 /\ Run(k) \in Int
  BY <1>1, <1>2
<1>4. Run(k + 1) = Run(k) + 2 * Ramp(k + 1)[1]
  BY <1>1, <1>2
<1> DEFINE q == N - 1 - k
<1>5. q \in Nat /\ N = q + 1 + k
  BY <1>1 DEF N
<1>6. (N - 1) * (N * N * N) - Run(k) = q * (q + 1) * (N * (2 * q + 1) - q * (q + 1))
  <2>1. \A m \in Nat : N = m + 1 + k =>
            (N - 1) * (N * N * N)
              - (2 * k * (N * N * N) - k * (k + 1) * (2 * k + 1) * N + k * k * (k + 1) * (k + 1))
            = m * (m + 1) * (N * (2 * m + 1) - m * (m + 1))
    BY <1>1
  <2> QED BY <1>2, <1>5, <2>1
<1>7. q * (q + 1) * (N * (2 * q + 1) - q * (q + 1)) \in Nat
  <2>1. N * (2 * q + 1) - q * (q + 1) = (q + 1) * (q + 1) + k * (2 * q + 1)
    BY <1>5
  <2> DEFINE a == (q + 1) * (q + 1) + k * (2 * q + 1)
  <2>2. a \in Nat
    BY <1>5
  <2> HIDE DEF a, q
  <2>3. q * (q + 1) * a \in Nat
    BY <1>5, <2>2
  <2> QED BY <2>1, <2>3 DEF a
<1>8. Run(k) =< (N - 1) * (N * N * N)
  BY <1>1, <1>3, <1>6, <1>7
<1> QED BY <1>1, <1>3, <1>4, <1>8 DEF N

LEMMA SlowedIs ==
    ASSUME NEW v \in Int, NEW k \in Nat, k =< StopTicks, NEW c \in Nat, Distance(0, v) =< c
    PROVE  /\ Slowed(v, k) \in Int
           /\ Distance(0, Slowed(v, k)) * Cube =< c * Ramp(k)[1]
           /\ Distance(0, Slowed(v, k)) =< c
<1> DEFINE R == Ramp(k)[1]
           B == Cube
           d == Distance(0, v)
           e == (d * R) \div B
<1>1. R \in Nat /\ B \in Nat \ {0} /\ d \in Nat
  BY RampIs, DistanceIs
<1>2. R =< B
  <2> DEFINE N == StopTicks
  <2>1. N \in Nat \ {0} /\ R = (N - k) * (N - k) * (N + 2 * k) /\ B = N * N * N
    BY RampIs, BehaviorsAssumption DEF Cube
  <2> HIDE DEF R, B, N
  <2>2. (N - k) * (N - k) * (N + 2 * k) = N * N * N - k * k * (N + 2 * (N - k))
    BY <2>1
  <2>3. N - k \in Nat
    BY <2>1 DEF N
  <2>4. k * k * (N + 2 * (N - k)) \in Nat
    <3> DEFINE w == N + 2 * (N - k)
    <3>1. w \in Nat
      BY <2>1, <2>3
    <3> HIDE DEF w
    <3>2. k * k * w \in Nat
      BY <3>1
    <3> QED BY <3>2 DEF w
  <2> QED BY <2>1, <2>2, <2>4
<1>3. e \in Nat /\ e * B =< d * R
  <2> HIDE DEF d, R, B
  <2>1. d * R \in Nat
    BY <1>1
  <2> QED BY <1>1, <2>1, NatQuotient
<1>4. Slowed(v, k) = IF v < 0 THEN -e ELSE e
  <2>1. Ramp(k)[2] = B
    BY RampIs
  <2>2. d = IF v < 0 THEN -v ELSE v
    BY DEF Distance
  <2>3. CASE v < 0
    <3>1. -v * R = d * R
      <4> HIDE DEF R, d
      <4> QED BY <1>1, <2>2, <2>3
    <3>2. Slowed(v, k) = -((-v * R) \div B)
      BY <2>1, <2>3 DEF Slowed
    <3> QED BY <2>3, <3>1, <3>2
  <2>4. CASE ~(v < 0)
    BY <2>1, <2>2, <2>4 DEF Slowed
  <2> QED BY <2>3, <2>4
<1>5. Slowed(v, k) \in Int /\ Distance(0, Slowed(v, k)) = e
  <2> HIDE DEF e
  <2> QED BY <1>3, <1>4 DEF Distance
<1> HIDE DEF e, R, B, d
<1>6. d * R =< c * R
  BY <1>1 DEF d
<1>7. e * B =< c * R
  BY <1>1, <1>3, <1>6
<1>8. c * R =< c * B
  BY <1>1, <1>2
<1>9. e =< c
  <2> SUFFICES ASSUME e >= c + 1 PROVE FALSE
    BY <1>3
  <2>1. e * B >= (c + 1) * B
    BY <1>1, <1>3
  <2> QED BY <1>1, <1>3, <1>7, <1>8, <2>1
<1> QED BY <1>5, <1>7, <1>9 DEF R, B

-----------------------------------------------------------------------------
(* The record of a run, and what an update of it leaves alone.              *)
RunOf(by, at, samples, sent, last, vel, over, cancelled, stopping, alone) ==
    [robot |-> by, at |-> at, samples |-> samples, sent |-> sent, last |-> last, vel |-> vel,
     over |-> over, cancelled |-> cancelled, stopping |-> stopping, alone |-> alone]

IsRun(u) ==
    u = RunOf(u.robot, u.at, u.samples, u.sent, u.last, u.vel, u.over, u.cancelled,
               u.stopping, u.alone)

LEMMA RunFields ==
    ASSUME NEW r, NEW a, NEW s, NEW n, NEW l, NEW v, NEW o, NEW c, NEW k, NEW z
    PROVE  LET u == RunOf(r, a, s, n, l, v, o, c, k, z)
           IN  /\ u.robot = r /\ u.at = a /\ u.samples = s /\ u.sent = n /\ u.last = l
               /\ u.vel = v /\ u.over = o /\ u.cancelled = c /\ u.stopping = k /\ u.alone = z
               /\ IsRun(u)
BY DEF RunOf, IsRun

LEMMA AloneSet ==
    ASSUME NEW u, IsRun(u), NEW y
    PROVE  LET w == [u EXCEPT !.alone = y]
           IN  /\ w.robot = u.robot /\ w.at = u.at /\ w.samples = u.samples /\ w.sent = u.sent
               /\ w.last = u.last /\ w.vel = u.vel /\ w.over = u.over
               /\ w.cancelled = u.cancelled /\ w.stopping = u.stopping /\ w.alone = y
               /\ IsRun(w)
<1>1. PICK r, a, s, n, l, v, o, c, k, z : u = RunOf(r, a, s, n, l, v, o, c, k, z)
  BY Zenon DEF IsRun
<1> DEFINE w == [u EXCEPT !.alone = y]
<1>2. w = RunOf(r, a, s, n, l, v, o, c, k, y)
  BY <1>1 DEF RunOf
<1> HIDE DEF w
<1>3. /\ w.robot = r /\ w.at = a /\ w.samples = s /\ w.sent = n /\ w.last = l
      /\ w.vel = v /\ w.over = o /\ w.cancelled = c /\ w.stopping = k /\ w.alone = y
      /\ IsRun(w)
  BY <1>2, RunFields
<1>4. /\ u.robot = r /\ u.at = a /\ u.samples = s /\ u.sent = n /\ u.last = l
      /\ u.vel = v /\ u.over = o /\ u.cancelled = c /\ u.stopping = k
  BY <1>1, RunFields
<1> QED BY <1>3, <1>4 DEF w

(* A run has a command left that is near the last one, or a tick of its     *)
(* stop ramp.                                                               *)
RunGoes(u) ==
    /\ IsRun(u)
    /\ Gentle(u.samples) /\ u.sent \in Nat /\ u.last \in Poses
    /\ u.vel \in Vectors /\ \A j \in Joints : Distance(0, u.vel[j]) =< Cap[j] + 1
    /\ u.over \in [Joints -> Nat] /\ u.stopping \in Nat
    /\ u.at = "play" => /\ u.sent < Len(u.samples)
                        /\ Near(u.last, Clipped(u.samples[u.sent + 1]))
                        /\ u.stopping = 0
    /\ u.at = "stop" => u.stopping < StopTicks

(* How far it may have left the arm behind, by its counts.                  *)
Behind(u, j, d) ==
    /\ u.at = "play" => /\ u.over[j] < SaturationTicks
                        /\ d =< Margin(j) + u.over[j] * (Cap[j] + 1)
    /\ u.at = "stop" =>
          2 * Cube * d =< Cube * (2 * Margin(j) + 2 * SaturationTicks * (Cap[j] + 1))
                            + Run(u.stopping) * (Cap[j] + 1)

Keeps(u, pose) ==
    u # NoRun /\ u.at \in {"play", "stop"} =>
        /\ RunGoes(u)
        /\ u.alone => \A j \in Position : Behind(u, j, Distance(u.last[j], pose[j]))

PlayInv ==
    /\ arm \in Poses
    /\ run = [x \in RunIds |-> run[x]]
    /\ \A x \in RunIds : Keeps(run[x], arm)

LEMMA EndedKeeps == \A reached, pose : Keeps(Ended(reached), pose)
BY DEF Keeps, Ended

(* One run changes, and the arm does not move.                              *)
LEMMA OneChanges ==
    ASSUME PlayInv, NEW x \in RunIds, NEW u, Keeps(u, arm), arm' = arm,
           run' = [run EXCEPT ![x] = u]
    PROVE  PlayInv'
<1>1. \A y \in RunIds : run'[y] = IF y = x THEN u ELSE run[y]
  BY DEF PlayInv
<1>2. run' = [y \in RunIds |-> run'[y]]
  BY DEF PlayInv
<1>3. \A y \in RunIds : Keeps(run'[y], arm')
  BY <1>1 DEF PlayInv
<1> QED BY <1>2, <1>3 DEF PlayInv

(* One run sends: any other is no longer alone with the arm.                *)
LEMMA OneGoes ==
    ASSUME PlayInv, NEW x \in RunIds, NEW u, arm' \in Poses, Keeps(u, arm'), Goes(x, u)
    PROVE  PlayInv'
<1>1. run' = [y \in RunIds |-> IF y = x THEN u
                               ELSE IF Playing(y) THEN [run[y] EXCEPT !.alone = FALSE] ELSE run[y]]
  BY DEF Goes
<1>2. ASSUME NEW y \in RunIds PROVE Keeps(run'[y], arm')
  <2>1. CASE y = x
    BY <1>1, <2>1
  <2>2. CASE y # x /\ Playing(y)
    <3> DEFINE o == run[y]
               w == [o EXCEPT !.alone = FALSE]
    <3>1. run'[y] = w
      BY <1>1, <2>2
    <3>2. RunGoes(o)
      BY <2>2 DEF PlayInv, Keeps, Playing
    <3> HIDE DEF o
    <3>3. IsRun(o)
      BY <3>2 DEF RunGoes
    <3>4. /\ w.robot = o.robot /\ w.at = o.at /\ w.samples = o.samples /\ w.sent = o.sent
          /\ w.last = o.last /\ w.vel = o.vel /\ w.over = o.over
          /\ w.cancelled = o.cancelled /\ w.stopping = o.stopping /\ w.alone = FALSE
          /\ IsRun(w)
      BY <3>3, AloneSet, Zenon
    <3> HIDE DEF w
    <3>5. RunGoes(w)
      BY <3>2, <3>4, Zenon DEF RunGoes
    <3> QED BY <3>1, <3>4, <3>5 DEF Keeps
  <2>3. CASE y # x /\ ~Playing(y)
    <3>1. run'[y] = run[y]
      BY <1>1, <2>3
    <3> QED BY <2>3, <3>1 DEF Keeps, Playing
  <2> QED BY <2>1, <2>2, <2>3
<1>3. run' = [y \in RunIds |-> run'[y]]
  BY <1>1
<1> QED BY <1>2, <1>3 DEF PlayInv

(* A run that begins to stop.                                               *)
LEMMA StoppedBehind ==
    ASSUME NEW u, u.at = "stop", u.stopping = 0, NEW j \in Joints, NEW d \in Nat,
           NEW k \in Nat, k =< SaturationTicks, d =< Margin(j) + k * (Cap[j] + 1)
    PROVE  Behind(u, j, d)
<1> DEFINE M == Margin(j)
           C == Cap[j] + 1
           S == SaturationTicks
<1>1. M \in Nat /\ C \in Nat /\ S \in Nat /\ Cube \in Nat /\ Run(0) = 0
  BY Ranges, BehaviorsAssumption, RampIs, RunGrows
<1>2. d =< M + k * C /\ k =< S
  OBVIOUS
<1> HIDE DEF M, C, S
<1>3. k * C =< S * C
  BY <1>1, <1>2
<1>4. 2 * d =< 2 * M + 2 * S * C
  BY <1>1, <1>2, <1>3
<1>5. Cube * (2 * d) =< Cube * (2 * M + 2 * S * C)
  BY <1>1, <1>4
<1>6. 2 * Cube * d =< Cube * (2 * M + 2 * S * C) + 0 * C
  BY <1>1, <1>5
<1> QED BY <1>1, <1>6 DEF Behind, M, C, S

(* The updates of a run, one by one.                                        *)
Marked(u, y) == [u EXCEPT !.cancelled = y]
Stopping(u) == [u EXCEPT !.at = "stop"]
Moved(u, n, l, o, v) == [u EXCEPT !.sent = n, !.last = l, !.over = o, !.vel = v]
SlowedTo(u, l, k) == [u EXCEPT !.last = l, !.stopping = k]

LEMMA MarkSet ==
    ASSUME NEW u, IsRun(u), NEW y
    PROVE  /\ LET w == Marked(u, y)
              IN  /\ w.robot = u.robot /\ w.at = u.at /\ w.samples = u.samples /\ w.sent = u.sent
                  /\ w.last = u.last /\ w.vel = u.vel /\ w.over = u.over
                  /\ w.stopping = u.stopping /\ w.alone = u.alone
                  /\ IsRun(w)
           /\ LET w == Stopping(u)
              IN  /\ w.robot = u.robot /\ w.at = "stop" /\ w.samples = u.samples /\ w.sent = u.sent
                  /\ w.last = u.last /\ w.vel = u.vel /\ w.over = u.over
                  /\ w.stopping = u.stopping /\ w.alone = u.alone
                  /\ IsRun(w)
<1>1. PICK r, a, s, n, l, v, o, c, k, z : u = RunOf(r, a, s, n, l, v, o, c, k, z)
  BY Zenon DEF IsRun
<1>2. /\ u.robot = r /\ u.at = a /\ u.samples = s /\ u.sent = n /\ u.last = l
      /\ u.vel = v /\ u.over = o /\ u.stopping = k /\ u.alone = z
  BY <1>1, RunFields
<1> DEFINE w == Marked(u, y)
           m == Stopping(u)
<1>3. w = RunOf(r, a, s, n, l, v, o, y, k, z) /\ m = RunOf(r, "stop", s, n, l, v, o, c, k, z)
  <2>1. ASSUME NEW t
        PROVE  /\ [u EXCEPT !.cancelled = t] = RunOf(r, a, s, n, l, v, o, t, k, z)
               /\ [u EXCEPT !.at = t] = RunOf(r, t, s, n, l, v, o, c, k, z)
    BY <1>1 DEF RunOf
  <2> QED BY <2>1, Zenon DEF Marked, Stopping
<1> HIDE DEF w, m
<1>4. /\ w.robot = r /\ w.at = a /\ w.samples = s /\ w.sent = n /\ w.last = l
      /\ w.vel = v /\ w.over = o /\ w.stopping = k /\ w.alone = z /\ IsRun(w)
  BY <1>3, RunFields
<1>5. /\ m.robot = r /\ m.at = "stop" /\ m.samples = s /\ m.sent = n /\ m.last = l
      /\ m.vel = v /\ m.over = o /\ m.stopping = k /\ m.alone = z /\ IsRun(m)
  BY <1>3, RunFields
<1> QED BY <1>2, <1>4, <1>5 DEF w, m

LEMMA MovedSet ==
    ASSUME NEW u, IsRun(u), NEW n, NEW l, NEW o, NEW v
    PROVE  LET w == Moved(u, n, l, o, v)
           IN  /\ w.robot = u.robot /\ w.at = u.at /\ w.samples = u.samples /\ w.sent = n
               /\ w.last = l /\ w.vel = v /\ w.over = o
               /\ w.stopping = u.stopping /\ w.alone = u.alone
               /\ IsRun(w)
<1>1. PICK r, a, s, m, q, e, d, c, k, z : u = RunOf(r, a, s, m, q, e, d, c, k, z)
  BY Zenon DEF IsRun
<1>2. u.robot = r /\ u.at = a /\ u.samples = s /\ u.stopping = k /\ u.alone = z
  BY <1>1, RunFields
<1> DEFINE u1 == [u EXCEPT !.sent = n]
           u2 == [u1 EXCEPT !.last = l]
           u3 == [u2 EXCEPT !.over = o]
           w == Moved(u, n, l, o, v)
<1>3. w = RunOf(r, a, s, n, l, v, o, c, k, z)
  <2>1. u1 = RunOf(r, a, s, n, q, e, d, c, k, z)
    BY <1>1 DEF RunOf
  <2> HIDE DEF u1
  <2>2. u2 = RunOf(r, a, s, n, l, e, d, c, k, z)
    BY <2>1 DEF RunOf
  <2> HIDE DEF u2
  <2>3. u3 = RunOf(r, a, s, n, l, e, o, c, k, z)
    BY <2>2 DEF RunOf
  <2> HIDE DEF u3
  <2>4. [u3 EXCEPT !.vel = v] = RunOf(r, a, s, n, l, v, o, c, k, z)
    BY <2>3 DEF RunOf
  <2> QED BY <2>4 DEF u1, u2, u3, Moved
<1> HIDE DEF w
<1>4. /\ w.robot = r /\ w.at = a /\ w.samples = s /\ w.sent = n /\ w.last = l
      /\ w.vel = v /\ w.over = o /\ w.stopping = k /\ w.alone = z /\ IsRun(w)
  BY <1>3, RunFields
<1> QED BY <1>2, <1>4 DEF w

LEMMA SlowedSet ==
    ASSUME NEW u, IsRun(u), NEW l, NEW y
    PROVE  LET w == SlowedTo(u, l, y)
           IN  /\ w.robot = u.robot /\ w.at = u.at /\ w.samples = u.samples /\ w.sent = u.sent
               /\ w.last = l /\ w.vel = u.vel /\ w.over = u.over
               /\ w.stopping = y /\ w.alone = u.alone
               /\ IsRun(w)
<1>1. PICK r, a, s, m, q, e, d, c, k, z : u = RunOf(r, a, s, m, q, e, d, c, k, z)
  BY Zenon DEF IsRun
<1>2. /\ u.robot = r /\ u.at = a /\ u.samples = s /\ u.sent = m
      /\ u.vel = e /\ u.over = d /\ u.alone = z
  BY <1>1, RunFields
<1> DEFINE u1 == [u EXCEPT !.last = l]
           w == SlowedTo(u, l, y)
<1>3. w = RunOf(r, a, s, m, l, e, d, c, y, z)
  <2>1. u1 = RunOf(r, a, s, m, l, e, d, c, k, z)
    BY <1>1 DEF RunOf
  <2> HIDE DEF u1
  <2>2. [u1 EXCEPT !.stopping = y] = RunOf(r, a, s, m, l, e, d, c, y, z)
    BY <2>1 DEF RunOf
  <2> QED BY <2>2 DEF u1, SlowedTo
<1> HIDE DEF w
<1>4. /\ w.robot = r /\ w.at = a /\ w.samples = s /\ w.sent = m /\ w.last = l
      /\ w.vel = e /\ w.over = d /\ w.stopping = y /\ w.alone = z /\ IsRun(w)
  BY <1>3, RunFields
<1> QED BY <1>2, <1>4 DEF w

(* One tick of a run: near its last command, and by the guard's count not   *)
(* far from an arm that does not follow.                                    *)
LEMMA PlayTickKeeps ==
    ASSUME PlayInv, NEW x \in RunIds, PlayTick(x)
    PROVE  PlayInv' /\ command'.by = x /\ Near(run[x].last, command'.to)
<1> DEFINE me == run[x]
           s == me.samples[me.sent + 1]
           cmd == Clipped(s)
           over == Lagging(x, cmd, arm')
           vel == [j \in Joints |-> IF me.sent = 0 THEN 0 ELSE cmd[j] - me.last[j]]
           moved == Moved(me, me.sent + 1, cmd, over, vel)
           u == IF Saturated(over) THEN Stopping(moved)
                ELSE IF me.sent + 1 = Len(me.samples) THEN Ended(TRUE)
                ELSE moved
<1>1. Goes(x, u) /\ Sends(x, cmd) /\ Playing(x) /\ me.at = "play"
  BY DEF PlayTick, Moved, Stopping
<1>2. RunGoes(me) /\ (me.alone => \A j \in Position : Behind(me, j, Distance(me.last[j], arm[j])))
  BY <1>1 DEF PlayInv, Keeps, Playing
<1>3. /\ IsRun(me) /\ Gentle(me.samples) /\ me.sent \in Nat /\ me.last \in Poses
      /\ me.over \in [Joints -> Nat] /\ me.sent < Len(me.samples) /\ me.stopping = 0
      /\ Near(me.last, cmd)
  BY <1>1, <1>2 DEF RunGoes
<1>4. /\ Len(me.samples) \in Nat /\ s \in Vectors
      /\ me.sent + 1 < Len(me.samples) => /\ me.samples[me.sent + 2] \in Vectors
                                          /\ Near(s, me.samples[me.sent + 2])
  <2> DEFINE q == me.samples
             n == me.sent
  <2>1. q \in Seq(Vectors) /\ n \in Nat /\ n < Len(q) /\ Len(q) \in Nat
        /\ \A i \in 1 .. Len(q) - 1 : Near(q[i], q[i + 1])
    BY <1>3 DEF Gentle
  <2> HIDE DEF q, n
  <2>2. q[n + 1] \in Vectors
    BY <2>1
  <2>3. n + 1 < Len(q) => q[n + 2] \in Vectors /\ n + 1 \in 1 .. Len(q) - 1 /\ n + 1 + 1 = n + 2
    BY <2>1
  <2> QED BY <2>1, <2>2, <2>3 DEF q, n
<1>5. cmd \in Poses /\ arm \in Poses /\ arm' \in {arm, cmd} /\ command' = [by |-> x, to |-> cmd]
  BY <1>1, <1>4, ClippedIs DEF Sends, PlayInv
<1>6. command'.by = x /\ command'.to = cmd
  BY <1>5
<1>7. over \in [Joints -> Nat]
  BY <1>3 DEF Lagging
<1>8. vel \in Vectors /\ \A j \in Joints : Distance(0, vel[j]) =< Cap[j] + 1
  <2> HIDE DEF me, cmd
  <2> SUFFICES ASSUME NEW j \in Joints
               PROVE  vel[j] \in Int /\ Distance(0, vel[j]) =< Cap[j] + 1
    BY DEF Vectors
  <2>1. cmd[j] \in Int /\ me.last[j] \in Int /\ Distance(me.last[j], cmd[j]) =< Cap[j] + 1
    BY <1>3, <1>5 DEF Poses, Vectors, Near
  <2>2. vel[j] = IF me.sent = 0 THEN 0 ELSE cmd[j] - me.last[j]
    OBVIOUS
  <2> HIDE DEF vel
  <2> QED BY <2>1, <2>2, Ranges DEF Distance
<1> HIDE DEF over, vel
<1>9. /\ moved.at = "play" /\ moved.samples = me.samples /\ moved.sent = me.sent + 1
      /\ moved.last = cmd /\ moved.vel = vel /\ moved.over = over
      /\ moved.stopping = 0 /\ moved.alone = me.alone /\ IsRun(moved)
  <2> DEFINE n == me.sent + 1
  <2>1. IsRun(me) /\ me.at = "play" /\ me.stopping = 0 /\ moved = Moved(me, n, cmd, over, vel)
    BY <1>1, <1>3
  <2> HIDE DEF me, cmd, moved, n
  <2>2. /\ moved.at = "play" /\ moved.samples = me.samples /\ moved.sent = n
        /\ moved.last = cmd /\ moved.vel = vel /\ moved.over = over
        /\ moved.stopping = 0 /\ moved.alone = me.alone /\ IsRun(moved)
    BY <2>1, MovedSet
  <2> QED BY <2>2 DEF n
<1>10. ASSUME NEW j \in Position, me.alone
       PROVE  LET d == Distance(cmd[j], arm'[j])
              IN  /\ over[j] =< SaturationTicks
                  /\ d =< Margin(j) + over[j] * (Cap[j] + 1)
  <2> DEFINE d == Distance(cmd[j], arm'[j])
             e == Distance(me.last[j], arm[j])
             f == Distance(me.last[j], cmd[j])
             M == Margin(j)
             C == Cap[j] + 1
             k == me.over[j]
  <2>1. /\ j \in Joints /\ M \in Nat /\ C \in Nat /\ k \in Nat /\ SaturationTicks \in Nat \ {0}
    BY <1>3, Ranges, BehaviorsAssumption
  <2>2. cmd[j] \in Int /\ arm[j] \in Int /\ arm'[j] \in Int /\ me.last[j] \in Int
    BY <1>3, <1>5, <2>1 DEF Poses, Vectors
  <2>3. d \in Nat /\ e \in Nat /\ f \in Nat
    BY <2>2, DistanceIs
  <2>4. k < SaturationTicks /\ e =< M + k * C /\ f =< C
    BY <1>1, <1>2, <1>3, <1>10, <2>1 DEF Behind, Near
  <2>5. over[j] = IF d > M THEN k + 1 ELSE 0
    BY <2>1 DEF over, Lagging
  <2>6. d = 0 \/ d =< f + e
    <3> HIDE DEF me, cmd
    <3>1. arm'[j] = cmd[j] \/ arm'[j] = arm[j]
      BY <1>5
    <3> QED BY <2>2, <3>1 DEF Distance
  <2> HIDE DEF d, e, f, M, C, k
  <2>7. CASE d > M
    <3>1. d =< C + M + k * C
      BY <2>1, <2>3, <2>4, <2>6, <2>7
    <3>2. (k + 1) * C = k * C + C
      BY <2>1
    <3>3. k * C \in Nat
      BY <2>1
    <3>4. d =< M + (k + 1) * C
      BY <2>1, <2>3, <3>1, <3>2, <3>3
    <3>5. k + 1 =< SaturationTicks
      BY <2>1, <2>4
    <3> QED BY <2>5, <2>7, <3>4, <3>5 DEF d, M, C
  <2>8. CASE ~(d > M)
    <3>1. over[j] = 0 /\ d =< M + 0 * C /\ 0 =< SaturationTicks
      BY <2>1, <2>3, <2>5, <2>8
    <3> QED BY <3>1 DEF d, M, C
  <2> QED BY <2>7, <2>8
<1> HIDE DEF moved, me, cmd, s
<1>11. CASE Saturated(over)
  <2> DEFINE w == Stopping(moved)
  <2>1. /\ w.at = "stop" /\ w.samples = me.samples /\ w.sent = me.sent + 1
        /\ w.last = cmd /\ w.vel = vel /\ w.over = over
        /\ w.stopping = 0 /\ w.alone = me.alone /\ IsRun(w)
    BY <1>9, MarkSet
  <2>2. u = w
    BY <1>11
  <2> HIDE DEF w, u
  <2>3. RunGoes(w)
    BY <1>3, <1>5, <1>7, <1>8, <2>1, BehaviorsAssumption DEF RunGoes
  <2>4. ASSUME w.alone, NEW j \in Position PROVE Behind(w, j, Distance(cmd[j], arm'[j]))
    <3>1. j \in Joints /\ Distance(cmd[j], arm'[j]) \in Nat
      <4>1. j \in Joints
        BY BehaviorsAssumption
      <4> QED BY <1>5, <4>1, DistanceIs DEF Poses, Vectors
    <3>2. /\ over[j] \in Nat /\ over[j] =< SaturationTicks
          /\ Distance(cmd[j], arm'[j]) =< Margin(j) + over[j] * (Cap[j] + 1)
      BY <1>7, <1>10, <2>1, <2>4, <3>1
    <3> QED BY <2>1, <3>1, <3>2, StoppedBehind
  <2>5. Keeps(w, arm')
    BY <2>1, <2>3, <2>4 DEF Keeps
  <2> QED BY <1>1, <1>3, <1>5, <1>6, <2>2, <2>5, OneGoes DEF me
<1>12. CASE ~Saturated(over) /\ me.sent + 1 = Len(me.samples)
  <2>1. u = Ended(TRUE)
    BY <1>12
  <2> HIDE DEF u
  <2> QED BY <1>1, <1>3, <1>5, <1>6, <2>1, EndedKeeps, OneGoes DEF me
<1>13. CASE ~Saturated(over) /\ me.sent + 1 # Len(me.samples)
  <2>1. u = moved
    BY <1>13
  <2> HIDE DEF u
  <2>2. me.sent + 1 < Len(me.samples) /\ me.sent + 1 + 1 = me.sent + 2
    BY <1>3, <1>4, <1>13
  <2>3. Near(cmd, Clipped(me.samples[me.sent + 2]))
    BY <1>4, <2>2, ClippedNear DEF cmd, s
  <2>4. RunGoes(moved)
    BY <1>3, <1>5, <1>7, <1>8, <1>9, <2>2, <2>3 DEF RunGoes
  <2>5. \A j \in Joints : over[j] < SaturationTicks
    <3> SUFFICES ASSUME NEW j \in Joints PROVE over[j] < SaturationTicks
      OBVIOUS
    <3>1. ~(over[j] >= SaturationTicks) /\ over[j] \in Nat /\ SaturationTicks \in Nat
      BY <1>7, <1>13, BehaviorsAssumption DEF Saturated
    <3> QED BY <3>1
  <2>6. ASSUME moved.alone, NEW j \in Position
        PROVE  Behind(moved, j, Distance(cmd[j], arm'[j]))
    BY <1>9, <1>10, <2>5, <2>6, BehaviorsAssumption DEF Behind
  <2>7. Keeps(moved, arm')
    BY <1>9, <2>4, <2>6 DEF Keeps
  <2> QED BY <1>1, <1>3, <1>5, <1>6, <2>1, <2>7, OneGoes DEF me
<1> QED BY <1>11, <1>12, <1>13

(* One tick of a smooth stop: the ramp lets a joint run on by what Run adds. *)
LEMMA StopTickKeeps ==
    ASSUME PlayInv, NEW x \in RunIds, StopTick(x)
    PROVE  PlayInv' /\ command'.by = x /\ Near(run[x].last, command'.to)
<1> DEFINE me == run[x]
           k == me.stopping + 1
           run2 == [j \in Joints |-> me.last[j] + Slowed(me.vel[j], k)]
           pos == Clipped(run2)
           w == SlowedTo(me, pos, k)
           u == IF k = StopTicks THEN Ended(FALSE) ELSE w
<1>1. Goes(x, u) /\ Sends(x, pos) /\ Playing(x) /\ me.at = "stop"
  BY DEF StopTick, SlowedTo
<1>2. RunGoes(me) /\ (me.alone => \A j \in Position : Behind(me, j, Distance(me.last[j], arm[j])))
  BY <1>1 DEF PlayInv, Keeps, Playing
<1>3. /\ IsRun(me) /\ me.last \in Poses /\ me.vel \in Vectors
      /\ me.stopping \in Nat /\ k \in Nat /\ k =< StopTicks /\ me.stopping < StopTicks
      /\ StopTicks \in Nat
  BY <1>1, <1>2, BehaviorsAssumption DEF RunGoes
<1>4. ASSUME NEW j \in Joints
      PROVE  LET v == Slowed(me.vel[j], k)
             IN  /\ me.last[j] \in Int /\ v \in Int /\ Distance(0, v) =< Cap[j] + 1
                 /\ Distance(0, v) * Cube =< (Cap[j] + 1) * Ramp(k)[1]
  <2>1. me.last[j] \in Int /\ me.vel[j] \in Int
    BY <1>3 DEF Poses, Vectors
  <2>2. Cap[j] + 1 \in Nat /\ Distance(0, me.vel[j]) =< Cap[j] + 1
    BY <1>2, Ranges DEF RunGoes
  <2> QED BY <1>3, <2>1, <2>2, SlowedIs
<1>5. run2 \in Vectors /\ \A j \in Joints : run2[j] = me.last[j] + Slowed(me.vel[j], k)
  BY <1>4 DEF Vectors
<1> HIDE DEF run2
<1>6. pos \in Poses /\ Clipped(me.last) = me.last
  BY <1>3, <1>5, ClippedIs, InLimits
<1>7. ASSUME NEW j \in Joints
      PROVE  Distance(me.last[j], pos[j]) =< Distance(0, Slowed(me.vel[j], k))
  <2> DEFINE v == Slowed(me.vel[j], k)
  <2>1. Distance(me.last[j], pos[j]) =< Distance(me.last[j], run2[j])
    BY <1>3, <1>5, <1>6, ClippingNears DEF Poses
  <2>2. v \in Int /\ me.last[j] \in Int /\ run2[j] = me.last[j] + v /\ pos[j] \in Int
    BY <1>4, <1>5, <1>6 DEF Poses, Vectors
  <2> HIDE DEF v, me, pos
  <2>3. Distance(me.last[j], run2[j]) = Distance(0, v)
    BY <2>2 DEF Distance
  <2>4. Distance(me.last[j], pos[j]) \in Nat /\ Distance(0, v) \in Nat
    BY <2>2 DEF Distance
  <2> QED BY <2>1, <2>3, <2>4 DEF v
<1>8. Near(me.last, pos)
  <2> SUFFICES ASSUME NEW j \in Joints PROVE Distance(me.last[j], pos[j]) =< Cap[j] + 1
    BY DEF Near
  <2> DEFINE v == Slowed(me.vel[j], k)
  <2>1. v \in Int /\ me.last[j] \in Int /\ pos[j] \in Int /\ Cap[j] \in Nat
    BY <1>4, <1>6, Ranges DEF Poses, Vectors
  <2>2. Distance(me.last[j], pos[j]) =< Distance(0, v) /\ Distance(0, v) =< Cap[j] + 1
    BY <1>4, <1>7
  <2> HIDE DEF v, me, pos
  <2>3. Distance(me.last[j], pos[j]) \in Nat /\ Distance(0, v) \in Nat
    BY <2>1 DEF Distance
  <2> QED BY <2>1, <2>2, <2>3
<1>9. arm \in Poses /\ arm' \in {arm, pos} /\ command'.by = x /\ command'.to = pos
  BY <1>1 DEF Sends, PlayInv
<1>10. /\ w.at = "stop" /\ w.samples = me.samples /\ w.sent = me.sent
       /\ w.last = pos /\ w.vel = me.vel /\ w.over = me.over
       /\ w.stopping = k /\ w.alone = me.alone /\ IsRun(w)
  <2>1. IsRun(me) /\ me.at = "stop"
    BY <1>1, <1>3
  <2> HIDE DEF me, pos, k
  <2> QED BY <2>1, SlowedSet
<1> HIDE DEF pos, w
<1>11. CASE k = StopTicks
  <2>1. u = Ended(FALSE)
    BY <1>11
  <2> HIDE DEF u
  <2> QED BY <1>1, <1>6, <1>8, <1>9, <2>1, EndedKeeps, OneGoes DEF me
<1>12. CASE k # StopTicks
  <2>1. RunGoes(w)
    BY <1>2, <1>3, <1>6, <1>10, <1>12 DEF RunGoes
  <2>2. ASSUME me.alone, NEW j \in Position
        PROVE  Behind(w, j, Distance(pos[j], arm'[j]))
    <3> DEFINE d == Distance(pos[j], arm'[j])
               e == Distance(me.last[j], arm[j])
               f == Distance(0, Slowed(me.vel[j], k))
               C == Cap[j] + 1
               M == Margin(j)
               S == SaturationTicks
               B == Cube
               R == Ramp(k)[1]
               r1 == Run(me.stopping)
               r2 == Run(k)
    <3>1. /\ j \in Joints /\ M \in Nat /\ C \in Nat /\ S \in Nat /\ B \in Nat /\ R \in Nat
      BY <1>3, Ranges, BehaviorsAssumption, RampIs
    <3>2. /\ me.last[j] \in Int /\ arm[j] \in Int /\ pos[j] \in Int /\ arm'[j] \in Int
          /\ (arm'[j] = arm[j] \/ arm'[j] = pos[j])
          /\ Slowed(me.vel[j], k) \in Int
      BY <1>3, <1>4, <1>6, <1>9, <3>1 DEF Poses, Vectors
    <3>3. d \in Nat /\ e \in Nat /\ f \in Nat /\ Distance(me.last[j], pos[j]) \in Nat
          /\ Distance(me.last[j], pos[j]) =< f
      <4>1. Distance(me.last[j], pos[j]) =< f
        BY <1>7, <3>1
      <4> DEFINE v == Slowed(me.vel[j], k)
      <4>2. v \in Int /\ d = Distance(pos[j], arm'[j]) /\ f = Distance(0, v)
        BY <3>2
      <4> HIDE DEF v, d, f, me
      <4>3. d \in Nat /\ e \in Nat /\ f \in Nat /\ Distance(me.last[j], pos[j]) \in Nat
        BY <3>2, <4>2 DEF Distance
      <4> QED BY <4>1, <4>3
    <3>4. d = 0 \/ d =< Distance(me.last[j], pos[j]) + e
      <4> HIDE DEF me
      <4> QED BY <3>2 DEF Distance
    <3>5. d =< f + e
      BY <3>3, <3>4
    <3>6. f * B =< C * R
      BY <1>4, <3>1
    <3>7. r1 \in Int /\ r2 \in Int /\ r2 = r1 + 2 * R
      <4>1. k = me.stopping + 1 /\ k < StopTicks
        BY <1>3, <1>12
      <4> HIDE DEF k, me
      <4> QED BY <1>3, <4>1, RunGrows
    <3>8. 2 * B * e =< B * (2 * M + 2 * S * C) + r1 * C
      BY <1>1, <1>2, <2>2, <3>1 DEF Behind
    <3> HIDE DEF d, e, f, C, M, S, B, R, r1, r2
    <3>9. d * B =< f * B + e * B
      <4>1. d * B =< (f + e) * B
        BY <3>1, <3>3, <3>5
      <4> QED BY <3>1, <3>3, <4>1
    <3>10. r2 * C = r1 * C + 2 * (C * R)
      BY <3>1, <3>7
    <3>11. /\ d * B \in Nat /\ f * B \in Nat /\ e * B \in Nat /\ C * R \in Nat
           /\ r1 * C \in Int /\ B * (2 * M + 2 * S * C) \in Int
      BY <3>1, <3>3, <3>7
    <3>12. 2 * B * e = 2 * (e * B) /\ 2 * B * d = 2 * (d * B)
      BY <3>1, <3>3
    <3>13. 2 * B * d =< B * (2 * M + 2 * S * C) + r2 * C
      BY <3>6, <3>8, <3>9, <3>10, <3>11, <3>12
    <3> HIDE DEF k, me
    <3> QED BY <1>10, <3>13 DEF Behind, d, C, M, S, B, r2
  <2>3. Keeps(w, arm')
    BY <1>10, <2>1, <2>2 DEF Keeps
  <2>4. u = w
    BY <1>12
  <2> HIDE DEF u
  <2> QED BY <1>1, <1>6, <1>8, <1>9, <2>3, <2>4, OneGoes DEF me
<1> QED BY <1>11, <1>12


-----------------------------------------------------------------------------
(* The other steps of a run.                                                *)
LEMMA ActsKeeps ==
    ASSUME PlayInv, NEW x \in RunIds, NEW r, NEW b \in Library, NEW speed \in Speeds,
           Acts(x, r, b, speed)
    PROVE  PlayInv' /\ command' = command
<1> DEFINE plan == Plan(b, arm, speed)
           s == plan.samples
           still == [j \in Joints |-> 0]
           no == FALSE
           alone == \A y \in RunIds : ~Playing(y)
           u == RunOf(r, "play", s, 0, arm, still, still, no, 0, alone)
<1>1. /\ Valid(b) /\ plan.safe /\ arm' = arm /\ command' = command
      /\ run' = [run EXCEPT ![x] = u]
  BY Zenon DEF Acts, RunOf
<1>2. arm \in Poses /\ arm \in Vectors
  BY DEF PlayInv, Poses
<1>3. Gentle(s) /\ Near(arm, s[1])
  BY <1>1, <1>2, PlanIsGentle
<1> HIDE DEF s, alone
<1>4. still \in Vectors /\ still \in [Joints -> Nat] /\ \A j \in Joints : still[j] = 0
  BY DEF Vectors
<1> HIDE DEF still, no
<1>5. /\ u.at = "play" /\ u.samples = s /\ u.sent = 0 /\ u.last = arm /\ u.vel = still
      /\ u.over = still /\ u.stopping = 0 /\ u.alone = alone /\ IsRun(u)
  BY RunFields
<1> HIDE DEF u
<1>6. s \in Seq(Vectors) /\ Len(s) \in Nat \ {0} /\ s[1] \in Vectors
  BY <1>3, LenProperties, EmptySeq, ElementOfSeq DEF Gentle
<1>7. Near(arm, Clipped(s[1]))
  BY <1>2, <1>3, <1>6, ClippedNear, InLimits
<1>8. \A j \in Joints : Distance(0, still[j]) =< Cap[j] + 1
  <2> SUFFICES ASSUME NEW j \in Joints PROVE Distance(0, still[j]) =< Cap[j] + 1
    OBVIOUS
  <2>1. still[j] = 0 /\ Cap[j] \in Nat
    BY <1>4, Ranges
  <2> QED BY <2>1 DEF Distance
<1>9. RunGoes(u)
  <2>1. u.sent \in Nat /\ u.sent < Len(u.samples) /\ u.samples[u.sent + 1] = s[1]
    BY <1>5, <1>6
  <2> QED BY <1>2, <1>3, <1>4, <1>5, <1>7, <1>8, <2>1 DEF RunGoes
<1>10. ASSUME NEW j \in Position PROVE Behind(u, j, Distance(arm[j], arm[j]))
  <2>1. j \in Joints /\ SaturationTicks \in Nat \ {0}
    BY BehaviorsAssumption
  <2>2. arm[j] \in Int /\ Margin(j) \in Nat /\ Cap[j] \in Nat /\ u.over[j] = 0
    BY <1>2, <1>4, <1>5, <2>1, Ranges DEF Vectors
  <2>3. Distance(arm[j], arm[j]) = 0
    BY <2>2 DEF Distance
  <2> QED BY <1>5, <2>1, <2>2, <2>3 DEF Behind
<1>11. Keeps(u, arm)
  BY <1>5, <1>9, <1>10 DEF Keeps
<1> QED BY <1>1, <1>11, OneChanges

LEMMA MarkKeeps ==
    ASSUME PlayInv, NEW x \in RunIds, Cancels(x) \/ NoticesCancel(x)
    PROVE  PlayInv' /\ command' = command
<1> DEFINE me == run[x]
           yes == TRUE
           marked == Marked(me, yes)
           stop == Stopping(me)
<1>1. Playing(x) /\ me.at = "play" /\ arm' = arm /\ command' = command
  BY DEF Cancels, NoticesCancel
<1>2. \/ run' = [run EXCEPT ![x] = marked]
      \/ run' = [run EXCEPT ![x] = Ended(FALSE)]
      \/ run' = [run EXCEPT ![x] = stop]
  <2>1. CASE Cancels(x)
    BY <2>1, Zenon DEF Cancels, Marked
  <2>2. CASE NoticesCancel(x)
    <3>1. run' = [run EXCEPT ![x] = IF me.sent = 0 THEN Ended(FALSE) ELSE stop]
      BY <2>2, Zenon DEF NoticesCancel, Stopping
    <3> HIDE DEF stop, me
    <3> QED BY <3>1
  <2> QED BY <2>1, <2>2
<1>3. RunGoes(me) /\ (me.alone => \A j \in Position : Behind(me, j, Distance(me.last[j], arm[j])))
  BY <1>1 DEF PlayInv, Keeps, Playing
<1> HIDE DEF me, yes
<1>4. IsRun(me) /\ me.last \in Poses /\ me.over \in [Joints -> Nat] /\ me.stopping = 0
  BY <1>1, <1>3 DEF RunGoes
<1>5. /\ marked.at = "play" /\ marked.samples = me.samples /\ marked.sent = me.sent
      /\ marked.last = me.last /\ marked.vel = me.vel /\ marked.over = me.over
      /\ marked.stopping = 0 /\ marked.alone = me.alone /\ IsRun(marked)
  BY <1>1, <1>4, MarkSet
<1>6. /\ stop.at = "stop" /\ stop.samples = me.samples /\ stop.sent = me.sent
      /\ stop.last = me.last /\ stop.vel = me.vel /\ stop.over = me.over
      /\ stop.stopping = 0 /\ stop.alone = me.alone /\ IsRun(stop)
  BY <1>4, MarkSet
<1> HIDE DEF marked, stop
<1>7. Keeps(marked, arm)
  <2>1. RunGoes(marked)
    BY <1>1, <1>3, <1>5 DEF RunGoes
  <2> QED BY <1>1, <1>3, <1>5, <2>1 DEF Keeps, Behind
<1>8. Keeps(stop, arm)
  <2>1. RunGoes(stop)
    BY <1>3, <1>6, BehaviorsAssumption DEF RunGoes
  <2>2. ASSUME stop.alone, NEW j \in Position
        PROVE  Behind(stop, j, Distance(stop.last[j], arm[j]))
    <3>1. j \in Joints /\ SaturationTicks \in Nat
      BY BehaviorsAssumption
    <3>2. me.over[j] \in Nat /\ me.last[j] \in Int /\ arm[j] \in Int
      BY <1>4, <3>1 DEF PlayInv, Poses, Vectors
    <3>3. Distance(me.last[j], arm[j]) \in Nat
      BY <3>2, DistanceIs
    <3>4. /\ me.over[j] < SaturationTicks
          /\ Distance(me.last[j], arm[j]) =< Margin(j) + me.over[j] * (Cap[j] + 1)
      BY <1>1, <1>3, <1>6, <2>2 DEF Behind
    <3>5. me.over[j] =< SaturationTicks
      BY <3>1, <3>2, <3>4
    <3> QED BY <1>6, <3>1, <3>2, <3>3, <3>4, <3>5, StoppedBehind
  <2> QED BY <2>1, <2>2 DEF Keeps
<1> QED BY <1>1, <1>2, <1>7, <1>8, EndedKeeps, OneChanges

LEMMA EndKeeps ==
    ASSUME PlayInv,
           \/ \E x \in RunIds : TickFails(x)
           \/ \E p \in Range(Pid) : Crashes(p)
           \/ Obstacle
    PROVE  PlayInv' /\ command' = command
<1>1. ASSUME NEW x \in RunIds, TickFails(x) PROVE PlayInv' /\ command' = command
  BY <1>1, EndedKeeps, OneChanges DEF TickFails
<1>2. ASSUME NEW p \in Range(Pid), Crashes(p) PROVE PlayInv' /\ command' = command
  <2>1. /\ arm' = arm /\ command' = command
        /\ run' = [x \in RunIds |-> IF Playing(x) /\ Pid[run[x].robot] = p THEN Ended(FALSE) ELSE run[x]]
    BY <1>2 DEF Crashes
  <2>2. \A x \in RunIds : run'[x] = Ended(FALSE) \/ run'[x] = run[x]
    BY <2>1
  <2>3. run' = [x \in RunIds |-> run'[x]]
    BY <2>1
  <2>4. \A x \in RunIds : Keeps(run'[x], arm')
    BY <2>1, <2>2, EndedKeeps DEF PlayInv
  <2> QED BY <2>1, <2>3, <2>4 DEF PlayInv
<1>3. ASSUME Obstacle PROVE PlayInv' /\ command' = command
  BY <1>3 DEF Obstacle, PlayInv
<1> QED BY <1>1, <1>2, <1>3

(* What a step does to the runs, and to the arm.                            *)
Capped == \A x \in RunIds : command' # command /\ command'.by = x =>
              \A j \in Joints : Distance(run[x].last[j], command'.to[j]) <= Cap[j] + 1

LEMMA PlayStep == PlayInv /\ [Next]_vars => PlayInv' /\ Capped
<1> SUFFICES ASSUME PlayInv, [Next]_vars PROVE PlayInv' /\ Capped
  OBVIOUS
<1>1. ASSUME UNCHANGED <<arm, run, command>> PROVE PlayInv' /\ Capped
  BY <1>1 DEF PlayInv, Capped
<1>2. ASSUME NEW r \in Robots,
             \/ \E force \in BOOLEAN : ReadsLock(r, force)
             \/ WritesLock(r) \/ Connects(r) \/ Disconnects(r) \/ Releases(r)
      PROVE  UNCHANGED <<arm, run, command>>
  BY <1>2 DEF ReadsLock, WritesLock, Connects, Disconnects, Releases
<1>3. ASSUME PlayInv', command' = command PROVE PlayInv' /\ Capped
  BY <1>3 DEF Capped
<1>4. ASSUME NEW y \in RunIds, PlayTick(y) \/ StopTick(y) PROVE PlayInv' /\ Capped
  <2>1. PlayInv' /\ command'.by = y /\ Near(run[y].last, command'.to)
    BY <1>4, PlayTickKeeps, StopTickKeeps
  <2> QED BY <2>1 DEF Capped, Near
<1>5. UNCHANGED vars => UNCHANGED <<arm, run, command>>
  BY DEF vars
<1>6. ASSUME NEW r \in Robots, NEW x \in RunIds, NEW b \in Library, NEW speed \in Speeds,
             Acts(x, r, b, speed)
      PROVE  PlayInv' /\ command' = command
  BY <1>6, ActsKeeps
<1>7. ASSUME NEW x \in RunIds, Cancels(x) \/ NoticesCancel(x) PROVE PlayInv' /\ command' = command
  BY <1>7, MarkKeeps
<1> QED BY <1>1, <1>2, <1>3, <1>4, <1>5, <1>6, <1>7, EndKeeps DEF Next

LEMMA InitPlays == Init => PlayInv
<1> SUFFICES ASSUME Init PROVE PlayInv
  OBVIOUS
<1>1. arm = [j \in Joints |-> Low[j]] /\ run = [x \in RunIds |-> NoRun]
  BY DEF Init
<1>2. arm \in Poses
  <2> SUFFICES ASSUME NEW j \in Joints PROVE Low[j] \in Int /\ Low[j] =< Low[j] /\ Low[j] =< High[j]
    BY <1>1 DEF Poses, Vectors
  <2> QED BY Ranges
<1> QED BY <1>1, <1>2 DEF PlayInv, Keeps

(* No command is further from the one before than the velocity cap, from    *)
(* the approach to the end of a stop, whatever the behaviour, the speed and *)
(* the pose it starts from: what _check_segment_velocity() lets pass,       *)
(* build_samples() samples within the cap.                                  *)
THEOREM CommandsAreCapped == Spec => WithinCap
<1>1. Init => PlayInv
  BY InitPlays
<1>2. PlayInv /\ [Next]_vars => PlayInv' /\ Capped
  BY PlayStep
<1>3. Capped => (\A x \in RunIds : command' # command /\ command'.by = x =>
                    \A j \in Joints : Distance(run[x].last[j], command'.to[j]) <= Cap[j] + 1)
  BY DEF Capped
<1> QED BY <1>1, <1>2, <1>3, PTL DEF Spec, WithinCap

(* An arm that something holds is left behind by a margin, what is sent     *)
(* until the saturation guard has counted, and half a stop ramp: the run    *)
(* that alone drives it does not wind up.                                   *)
THEOREM ArmIsNotLeftBehind == Spec => []LagIsBounded
<1>1. ASSUME PlayInv PROVE LagIsBounded
  <2> SUFFICES ASSUME NEW x \in RunIds, Playing(x), run[x].alone, NEW j \in Position
               PROVE  2 * Distance(run[x].last[j], arm[j])
                        <= 2 * Margin(j) + (2 * SaturationTicks + StopTicks - 1) * (Cap[j] + 1)
    BY DEF LagIsBounded
  <2> DEFINE me == run[x]
             d == Distance(me.last[j], arm[j])
             M == Margin(j)
             C == Cap[j] + 1
             S == SaturationTicks
             T == StopTicks
             k == me.over[j]
             W == 2 * M + (2 * S + T - 1) * C
  <2>1. RunGoes(me) /\ Behind(me, j, d) /\ me.at \in {"play", "stop"}
    BY <1>1 DEF PlayInv, Keeps, Playing
  <2>2. /\ j \in Joints /\ M \in Nat /\ C \in Nat /\ S \in Nat \ {0} /\ T \in Nat \ {0}
        /\ k \in Nat /\ arm \in Poses
    BY <1>1, <2>1, Ranges, BehaviorsAssumption DEF PlayInv, RunGoes
  <2>3. me.last[j] \in Int /\ arm[j] \in Int
    BY <2>1, <2>2 DEF RunGoes, Poses, Vectors
  <2>4. d \in Nat
    BY <2>3, DistanceIs
  <2>5. CASE me.at = "play"
    <3>1. k =< S /\ d =< M + k * C
      BY <2>1, <2>2, <2>5 DEF Behind
    <3> HIDE DEF d, M, C, S, T, k
    <3>2. k * C =< S * C /\ (2 * S + T - 1) * C = 2 * (S * C) + (T - 1) * C
      BY <2>2, <3>1
    <3>3. (T - 1) * C >= 0 /\ S * C \in Nat /\ k * C \in Nat /\ (T - 1) * C \in Int
      BY <2>2
    <3>4. 2 * d <= W
      BY <2>2, <2>4, <3>1, <3>2, <3>3
    <3> QED BY <3>4 DEF d, M, C, S, T
  <2>6. CASE me.at = "stop"
    <3> DEFINE R == Run(me.stopping)
               B == Cube
    <3>1. me.stopping \in Nat /\ me.stopping < T
      BY <2>1, <2>6 DEF RunGoes
    <3>2. R \in Int /\ R =< (T - 1) * B
      <4> HIDE DEF me
      <4> QED BY <3>1, RunGrows
    <3>3. B \in Nat \ {0}
      BY <3>1, <2>2, RampIs
    <3>4. 2 * B * d =< B * (2 * M + 2 * S * C) + R * C
      BY <2>1, <2>6 DEF Behind
    <3> HIDE DEF d, M, C, S, T, R, B
    <3>5. R * C =< ((T - 1) * B) * C
      <4> DEFINE Q == (T - 1) * B
      <4>1. Q \in Int /\ R =< Q
        BY <2>2, <3>2, <3>3
      <4> HIDE DEF Q
      <4>2. R * C =< Q * C
        BY <2>2, <3>2, <4>1
      <4> QED BY <4>2 DEF Q
    <3>6. B * (2 * M + 2 * S * C) + ((T - 1) * B) * C = W * B
      BY <2>2, <3>3
    <3>7. W \in Int /\ (2 * d) * B = 2 * B * d
      BY <2>2, <2>4, <3>3
    <3> HIDE DEF W
    <3>8. (2 * d) * B =< W * B
      <4>1. /\ 2 * B * d \in Int /\ B * (2 * M + 2 * S * C) \in Int /\ R * C \in Int
            /\ ((T - 1) * B) * C \in Int /\ W * B \in Int
        BY <2>2, <2>4, <3>2, <3>3, <3>7
      <4> QED BY <3>4, <3>5, <3>6, <3>7, <4>1
    <3>9. 2 * d =< W
      <4>1. 2 * d \in Int
        BY <2>4
      <4> QED BY <3>3, <3>7, <3>8, <4>1, Cancel
    <3> QED BY <3>9 DEF W, d, M, C, S, T
  <2> QED BY <2>1, <2>5, <2>6
<1>2. PlayInv /\ [Next]_vars => PlayInv'
  BY PlayStep
<1> QED BY <1>1, <1>2, InitPlays, PTL DEF Spec
=============================================================================
