--------------------------- MODULE Algorithms_proofs ---------------------------
(***************************************************************************)
(* Proofs about the algorithms, for every input: dependency order, the     *)
(* choice of directories, credentials, host keys and the text diff.  All   *)
(* of them are folds, proved by induction along the fold: a fold over 1..n *)
(* is a function on the subsets of 1..n, and what holds of its value on {},*)
(* and of its value on 1..(m + 1) when it holds on 1..m, holds of the      *)
(* result.                                                                 *)
(***************************************************************************)
EXTENDS Algorithms, FiniteSetTheorems, TLAPS

-----------------------------------------------------------------------------
(* Numbers up to n.                                                        *)
LEMMA Least ==
  ASSUME NEW S \in SUBSET Nat, S # {}
  PROVE  \E least \in S : \A m \in S : least <= m
<1> DEFINE R == {ss \in Nat \X Nat : ss[1] < ss[2]}
<1>1. PICK least \in S : \A m \in S : <<m, least>> \notin R
  <2>1. IsWellFoundedOn(R, Nat)
    BY NatLessThanWellFounded DEF OpToRel
  <2> HIDE DEF R
  <2>2. QED
    BY <2>1, WFMin, Zenon
<1>2. ASSUME NEW m \in S PROVE least <= m
  <2>1. least \in Nat /\ m \in Nat
    OBVIOUS
  <2>2. ~(m < least)
    BY <1>1, <2>1
  <2> HIDE DEF R
  <2>3. QED
    BY <2>1, <2>2
<1>3. QED
  BY <1>2

LEMMA UpTo ==
  ASSUME NEW n \in Nat, NEW S,
         0 \in S, \A m \in 0..(n - 1) : m \in S => m + 1 \in S
  PROVE  \A m \in 0..n : m \in S
<1> SUFFICES ASSUME NEW m \in 0..n, m \notin S PROVE FALSE
  OBVIOUS
<1> DEFINE T == {j \in 0..n : j \notin S}
<1>1. T \subseteq Nat /\ m \in T
  OBVIOUS
<1>2. PICK least \in T : \A j \in T : least <= j
  <2> HIDE DEF T
  <2>1. QED
    BY <1>1, Least
<1>3. least # 0 /\ least \in 0..n /\ least \notin S
  OBVIOUS
<1>4. least - 1 \in 0..(n - 1) /\ least - 1 \in 0..n /\ (least - 1) + 1 = least
  BY <1>3
<1>5. least - 1 \in S
  <2>1. least - 1 \notin T
    BY <1>2, <1>4
  <2>2. QED
    BY <1>4, <2>1
<1>6. QED
  BY <1>3, <1>4, <1>5

LEMMA MaxIs ==
  ASSUME NEW n \in Nat, NEW S \in SUBSET (1..n), S # {}
  PROVE  Max(S) \in S /\ \A x \in S : x <= Max(S)
<1> DEFINE T == {m \in Nat : \A x \in S : x <= m}
<1>1. T \subseteq Nat /\ n \in T
  OBVIOUS
<1>2. PICK u \in T : \A m \in T : u <= m
  <2> HIDE DEF T
  <2>1. QED
    BY <1>1, Least
<1>3. u \in Nat /\ \A x \in S : x <= u
  OBVIOUS
<1>4. u \in S
  <2> SUFFICES ASSUME u \notin S PROVE FALSE
    OBVIOUS
  <2>1. PICK x : x \in S /\ x \in 1..n
    OBVIOUS
  <2>2. u - 1 \in Nat /\ \A y \in S : y <= u - 1
    BY <1>3, <2>1
  <2>3. u - 1 \in T
    BY <2>2
  <2>4. QED
    BY <1>2, <1>3, <2>3
<1>5. \E x \in S : \A y \in S : x >= y
  BY <1>3, <1>4
<1>6. Max(S) \in S /\ \A y \in S : Max(S) >= y
  BY <1>5 DEF Max
<1>7. QED
  BY <1>6

LEMMA OneFurther ==
  ASSUME NEW n \in Nat, NEW m \in 0..(n - 1)
  PROVE  /\ (1..(m + 1)) \in SUBSET (1..n) /\ 1..(m + 1) # {} /\ Max(1..(m + 1)) = m + 1
         /\ (1..(m + 1)) \ {m + 1} = 1..m
<1>1. (1..(m + 1)) \in SUBSET (1..n) /\ (1..(m + 1)) \ {m + 1} = 1..m
  OBVIOUS
<1>2. m + 1 \in Nat /\ m + 1 \in 1..(m + 1)
  OBVIOUS
<1>3. Max(1..(m + 1)) \in 1..(m + 1) /\ m + 1 <= Max(1..(m + 1))
  BY <1>2, MaxIs
<1>4. Max(1..(m + 1)) = m + 1
  BY <1>3
<1>5. QED
  BY <1>1, <1>2, <1>4

-----------------------------------------------------------------------------
(* A fold over 1..n is defined: there is a function that satisfies its     *)
(* recursive equation.                                                     *)
Combines(F, n, B) == \A i \in 1..n, b \in B : F[i][b] \in B

Folding(g, n, base, F) ==
  \A s \in SUBSET (1..n) : g[s] = IF s = {} THEN base ELSE F[Max(s)][g[s \ {Max(s)}]]

LEMMA FoldMore ==
  ASSUME NEW m \in Nat, NEW B, NEW base, NEW F, Combines(F, m + 1, B),
         NEW g \in [SUBSET (1..m) -> B], Folding(g, m, base, F)
  PROVE  \E h \in [SUBSET (1..(m + 1)) -> B] : Folding(h, m + 1, base, F)
<1> DEFINE h == [s \in SUBSET (1..(m + 1)) |->
                   IF m + 1 \in s THEN F[m + 1][g[s \ {m + 1}]] ELSE g[s]]
<1>1. ASSUME NEW s \in SUBSET (1..(m + 1))
      PROVE  /\ s \ {m + 1} \in SUBSET (1..m)
             /\ m + 1 \notin s => s \in SUBSET (1..m)
  OBVIOUS
<1>2. h \in [SUBSET (1..(m + 1)) -> B]
  <2>1. ASSUME NEW s \in SUBSET (1..(m + 1))
        PROVE  (IF m + 1 \in s THEN F[m + 1][g[s \ {m + 1}]] ELSE g[s]) \in B
    <3>1. CASE m + 1 \in s
      BY <1>1, <3>1, m + 1 \in 1..(m + 1) DEF Combines
    <3>2. CASE m + 1 \notin s
      BY <1>1, <3>2
    <3>3. QED
      BY <3>1, <3>2
  <2>2. QED
    BY <2>1
<1>3. ASSUME NEW s \in SUBSET (1..(m + 1)), s # {}
      PROVE  h[s] = F[Max(s)][h[s \ {Max(s)}]]
  <2>1. Max(s) \in s /\ \A x \in s : x <= Max(s)
    BY <1>3, MaxIs, m + 1 \in Nat
  <2>2. CASE m + 1 \in s
    <3>1. Max(s) = m + 1
      <4>1. Max(s) \in 1..(m + 1) /\ m + 1 <= Max(s)
        BY <2>1, <2>2
      <4>2. QED
        BY <4>1
    <3>2. h[s \ {m + 1}] = g[s \ {m + 1}]
      BY <1>1
    <3>3. QED
      BY <2>2, <3>1, <3>2
  <2>3. CASE m + 1 \notin s
    <3>1. s \in SUBSET (1..m) /\ s \ {Max(s)} \in SUBSET (1..m)
      BY <1>1, <2>3
    <3>2. g[s] = F[Max(s)][g[s \ {Max(s)}]]
      BY <1>3, <3>1 DEF Folding
    <3>3. h[s] = g[s] /\ h[s \ {Max(s)}] = g[s \ {Max(s)}]
      BY <2>3, <3>1
    <3>4. QED
      BY <3>2, <3>3
  <2>4. QED
    BY <2>2, <2>3
<1>4. h[{}] = base
  <2>1. h[{}] = g[{}] /\ {} \in SUBSET (1..m)
    OBVIOUS
  <2>2. QED
    BY <2>1 DEF Folding
<1> HIDE DEF h
<1>5. Folding(h, m + 1, base, F)
  BY <1>3, <1>4 DEF Folding
<1>6. QED
  BY <1>2, <1>5

LEMMA FoldExists ==
  ASSUME NEW n \in Nat, NEW B, NEW base \in B, NEW F, Combines(F, n, B)
  PROVE  \E g \in [SUBSET (1..n) -> B] : Folding(g, n, base, F)
<1> DEFINE Folds(m) == \E g \in [SUBSET (1..m) -> B] : Folding(g, m, base, F)
           S == {m \in 0..n : Folds(m)}
<1>1. Folds(0)
  <2> DEFINE g == [s \in SUBSET (1..0) |-> base]
  <2>1. g \in [SUBSET (1..0) -> B]
    OBVIOUS
  <2>2. \A s \in SUBSET (1..0) : s = {} /\ g[s] = base
    OBVIOUS
  <2>3. Folding(g, 0, base, F)
    BY <2>2 DEF Folding
  <2> HIDE DEF g
  <2>4. QED
    BY <2>1, <2>3
<1>2. ASSUME NEW m \in 0..(n - 1), Folds(m) PROVE Folds(m + 1)
  <2>1. m \in Nat /\ 1..(m + 1) \subseteq 1..n
    OBVIOUS
  <2>2. Combines(F, m + 1, B)
    BY <2>1 DEF Combines
  <2>3. QED
    BY <1>2, <2>1, <2>2, FoldMore
<1> HIDE DEF Folds
<1>3. 0 \in S /\ \A m \in 0..(n - 1) : m \in S => m + 1 \in S
  BY <1>1, <1>2
<1>4. n \in S
  <2> HIDE DEF S
  <2>1. QED
    BY <1>3, UpTo
<1>5. QED
  BY <1>4 DEF Folds

-----------------------------------------------------------------------------
(* Lists without repetition.                                               *)
Distinct(q) == \A x, y \in DOMAIN q : q[x] = q[y] => x = y

LEMMA AppendNew ==
  ASSUME NEW S, NEW q \in Seq(S), NEW e \in S, e \notin ToSet(q), Distinct(q)
  PROVE  /\ Append(q, e) \in Seq(S)
         /\ ToSet(Append(q, e)) = ToSet(q) \cup {e}
         /\ Distinct(Append(q, e))
<1> DEFINE r == Append(q, e)
<1>1. /\ r \in Seq(S) /\ Len(q) \in Nat
      /\ DOMAIN q = 1..Len(q) /\ DOMAIN r = 1..(Len(q) + 1)
      /\ \A x \in 1..Len(q) : r[x] = q[x]
      /\ r[Len(q) + 1] = e
  OBVIOUS
<1> HIDE DEF r
<1>2. ToSet(r) = ToSet(q) \cup {e}
  <2>1. \A x \in DOMAIN r : x \in DOMAIN q \/ x = Len(q) + 1
    BY <1>1
  <2>2. Len(q) + 1 \in DOMAIN r /\ \A x \in DOMAIN q : x \in DOMAIN r
    BY <1>1
  <2>3. QED
    BY <1>1, <2>1, <2>2 DEF ToSet
<1>3. Distinct(r)
  <2> SUFFICES ASSUME NEW x \in DOMAIN r, NEW y \in DOMAIN r, r[x] = r[y] PROVE x = y
    BY DEF Distinct
  <2>1. \A z \in DOMAIN q : r[z] # e /\ r[z] = q[z]
    BY <1>1 DEF ToSet
  <2>2. x \in DOMAIN q \/ x = Len(q) + 1
    BY <1>1
  <2>3. y \in DOMAIN q \/ y = Len(q) + 1
    BY <1>1
  <2>4. QED
    BY <1>1, <2>1, <2>2, <2>3 DEF Distinct
<1>4. QED
  BY <1>1, <1>2, <1>3 DEF r

(* What is queued is the set, each position once.                          *)
LEMMA QueuedIs ==
  ASSUME NEW n \in Nat, NEW items, DOMAIN items = 1..n, NEW ready \in SUBSET (1..n)
  PROVE  /\ Queued(items, ready) \in Seq(1..n)
         /\ ToSet(Queued(items, ready)) = ready
         /\ Distinct(Queued(items, ready))
<1> DEFINE Equation(g) ==
             [s \in SUBSET (DOMAIN Positions(items)) |->
                IF s = {} THEN <<>>
                ELSE IF Positions(items)[Max(s)] \in ready
                     THEN Append(g[s \ {Max(s)}], Positions(items)[Max(s)])
                     ELSE g[s \ {Max(s)}]]
           queue == CHOOSE g : g = Equation(g)
           F == [i \in 1..n |-> [q \in Seq(1..n) |-> IF i \in ready THEN Append(q, i) ELSE q]]
<1>1. DOMAIN Positions(items) = 1..n /\ \A i \in 1..n : Positions(items)[i] = i
  BY DEF Positions
<1>2. Combines(F, n, Seq(1..n))
  <2>1. ASSUME NEW i \in 1..n, NEW q \in Seq(1..n) PROVE F[i][q] \in Seq(1..n)
    <3>1. F[i][q] = IF i \in ready THEN Append(q, i) ELSE q
      OBVIOUS
    <3>2. Append(q, i) \in Seq(1..n)
      OBVIOUS
    <3> HIDE DEF F
    <3>3. QED
      BY <3>1, <3>2
  <2> HIDE DEF F
  <2>2. QED
    BY <2>1 DEF Combines
<1>3. PICK g \in [SUBSET (1..n) -> Seq(1..n)] : Folding(g, n, <<>>, F)
  <2> HIDE DEF F
  <2>1. <<>> \in Seq(1..n)
    OBVIOUS
  <2>2. QED
    BY <1>2, <2>1, FoldExists
<1>4. ASSUME NEW s \in SUBSET (1..n), s # {}
      PROVE  Max(s) \in 1..n /\ Positions(items)[Max(s)] = Max(s) /\ s \ {Max(s)} \in SUBSET (1..n)
  BY <1>1, <1>4, MaxIs
<1>5. g = Equation(g)
  <2>1. ASSUME NEW s \in SUBSET (1..n)
        PROVE  g[s] = IF s = {} THEN <<>>
                      ELSE IF Positions(items)[Max(s)] \in ready
                           THEN Append(g[s \ {Max(s)}], Positions(items)[Max(s)])
                           ELSE g[s \ {Max(s)}]
    <3>1. CASE s = {}
      BY <1>3, <3>1 DEF Folding
    <3>2. CASE s # {}
      <4>1. Max(s) \in 1..n /\ g[s \ {Max(s)}] \in Seq(1..n)
        BY <1>4, <3>2
      <4>2. g[s] = F[Max(s)][g[s \ {Max(s)}]]
        BY <1>3, <3>2 DEF Folding
      <4>3. QED
        BY <1>4, <3>2, <4>1, <4>2
    <3>3. QED
      BY <3>1, <3>2
  <2>2. QED
    BY <1>1, <2>1
<1>6. queue = Equation(queue)
  <2> HIDE DEF Equation
  <2>1. QED
    BY <1>5
<1>12. \A s \in SUBSET (1..n) : s # {} =>
         queue[s] = IF Max(s) \in ready THEN Append(queue[s \ {Max(s)}], Max(s))
                                        ELSE queue[s \ {Max(s)}]
  <2> HIDE DEF queue
  <2>1. ASSUME NEW s \in SUBSET (1..n), s # {}
        PROVE  queue[s] = IF Positions(items)[Max(s)] \in ready
                          THEN Append(queue[s \ {Max(s)}], Positions(items)[Max(s)])
                          ELSE queue[s \ {Max(s)}]
    BY <1>1, <1>6, <2>1
  <2>2. QED
    BY <1>4, <2>1
<1>7. Queued(items, ready) = queue[1..n]
  <2>1. Queued(items, ready) = queue[DOMAIN Positions(items)]
    BY DEF Queued, FoldLeft, MapThenFoldSet
  <2>2. QED
    BY <1>1, <2>1
<1> DEFINE Good(m) == LET q == queue[1..m] IN
             q \in Seq(1..n) /\ ToSet(q) = ready \cap (1..m) /\ Distinct(q)
<1>8. Good(0)
  <2>1. 1..0 = {}
    OBVIOUS
  <2>2. {} \in SUBSET (DOMAIN Positions(items))
    OBVIOUS
  <2>3. queue[1..0] = <<>>
    BY <1>6, <2>1, <2>2
  <2> HIDE DEF queue
  <2>4. QED
    BY <2>1, <2>3 DEF ToSet, Distinct
<1>9. ASSUME NEW m \in 0..(n - 1), Good(m) PROVE Good(m + 1)
  <2>1. m + 1 \in 1..n /\ m \in 0..n
    OBVIOUS
  <2>2. /\ (1..(m + 1)) \in SUBSET (1..n) /\ 1..(m + 1) # {} /\ Max(1..(m + 1)) = m + 1
        /\ (1..(m + 1)) \ {m + 1} = 1..m
    BY OneFurther
  <2>3. m + 1 \notin 1..m
    OBVIOUS
  <2>4. queue[1..(m + 1)] = IF m + 1 \in ready THEN Append(queue[1..m], m + 1) ELSE queue[1..m]
    <3> HIDE DEF queue
    <3>1. QED
      BY <1>12, <2>1, <2>2, <2>3
  <2> HIDE DEF queue
  <2>5. CASE m + 1 \in ready
    <3>1. m + 1 \notin ToSet(queue[1..m])
      BY <1>9, <2>3
    <3>2. ready \cap (1..(m + 1)) = (ready \cap (1..m)) \cup {m + 1}
      BY <2>5, <2>3, <2>1
    <3>3. queue[1..(m + 1)] = Append(queue[1..m], m + 1)
      BY <2>4, <2>5
    <3> DEFINE q == queue[1..m]
    <3>4. /\ Append(q, m + 1) \in Seq(1..n) /\ Distinct(Append(q, m + 1))
          /\ ToSet(Append(q, m + 1)) = ToSet(q) \cup {m + 1}
      <4>1. q \in Seq(1..n) /\ Distinct(q) /\ m + 1 \in 1..n /\ m + 1 \notin ToSet(q)
        BY <1>9, <2>1, <3>1
      <4> HIDE DEF q
      <4>2. QED
        BY <4>1, AppendNew
    <3>5. QED
      BY <1>9, <3>2, <3>3, <3>4
  <2>6. CASE m + 1 \notin ready
    <3>1. ready \cap (1..(m + 1)) = ready \cap (1..m)
      BY <2>6, <2>3, <2>1
    <3>2. QED
      BY <1>9, <2>4, <2>6, <3>1
  <2>7. QED
    BY <2>5, <2>6
<1>10. Good(n)
  <2> DEFINE S == {m \in 0..n : Good(m)}
  <2> HIDE DEF Good
  <2>1. 0 \in S /\ \A m \in 0..(n - 1) : m \in S => m + 1 \in S
    BY <1>8, <1>9
  <2> HIDE DEF S
  <2>2. n \in S
    BY <2>1, UpTo
  <2>3. QED
    BY <2>2 DEF S
<1>11. QED
  <2> HIDE DEF queue
  <2>1. ready \cap (1..n) = ready
    OBVIOUS
  <2>2. QED
    BY <1>7, <1>10, <2>1

LEMMA TailOf ==
  ASSUME NEW S, NEW q \in Seq(S), q # <<>>, Distinct(q)
  PROVE  /\ Head(q) \in S /\ Tail(q) \in Seq(S)
         /\ ToSet(q) = ToSet(Tail(q)) \cup {Head(q)}
         /\ Head(q) \notin ToSet(Tail(q))
         /\ Distinct(Tail(q))
<1> DEFINE r == Tail(q)
<1>1. /\ r \in Seq(S) /\ Len(q) \in Nat \ {0}
      /\ DOMAIN q = 1..Len(q) /\ DOMAIN r = 1..(Len(q) - 1)
      /\ \A x \in 1..(Len(q) - 1) : r[x] = q[x + 1]
      /\ Head(q) = q[1] /\ q[1] \in S
  OBVIOUS
<1> HIDE DEF r
<1>2. \A x \in DOMAIN r : x + 1 \in DOMAIN q /\ x + 1 # 1 /\ r[x] = q[x + 1]
  BY <1>1
<1>3. \A x \in DOMAIN q : x = 1 \/ (x - 1 \in DOMAIN r /\ q[x] = r[x - 1])
  BY <1>1
<1>4. 1 \in DOMAIN q
  BY <1>1
<1>5. ToSet(q) = ToSet(r) \cup {q[1]}
  BY <1>2, <1>3, <1>4 DEF ToSet
<1>6. q[1] \notin ToSet(r)
  BY <1>2, <1>4 DEF ToSet, Distinct
<1>7. Distinct(r)
  <2> SUFFICES ASSUME NEW x \in DOMAIN r, NEW y \in DOMAIN r, r[x] = r[y] PROVE x = y
    BY DEF Distinct
  <2>1. x \in Int /\ y \in Int
    BY <1>1
  <2>2. x + 1 = y + 1
    BY <1>2 DEF Distinct
  <2>3. QED
    BY <2>1, <2>2
<1>8. QED
  BY <1>1, <1>5, <1>6, <1>7 DEF r

LEMMA Joined ==
  ASSUME NEW S, NEW q \in Seq(S), NEW r \in Seq(S),
         Distinct(q), Distinct(r), ToSet(q) \cap ToSet(r) = {}
  PROVE  /\ q \o r \in Seq(S)
         /\ ToSet(q \o r) = ToSet(q) \cup ToSet(r)
         /\ Distinct(q \o r)
<1> DEFINE c == q \o r
           l == Len(q)
<1>1. /\ c \in Seq(S) /\ l \in Nat /\ Len(r) \in Nat
      /\ DOMAIN q = 1..l /\ DOMAIN r = 1..Len(r) /\ DOMAIN c = 1..(l + Len(r))
      /\ \A x \in 1..(l + Len(r)) : c[x] = IF x <= l THEN q[x] ELSE r[x - l]
  OBVIOUS
<1> HIDE DEF c, l
<1>2. ASSUME NEW x \in DOMAIN c
      PROVE  \/ x \in DOMAIN q /\ c[x] = q[x]
             \/ x - l \in DOMAIN r /\ c[x] = r[x - l]
  BY <1>1
<1>3. /\ \A x \in DOMAIN q : x \in DOMAIN c /\ c[x] = q[x]
      /\ \A x \in DOMAIN r : x + l \in DOMAIN c /\ c[x + l] = r[x]
  <2>1. \A x \in DOMAIN q : x \in DOMAIN c /\ c[x] = q[x]
    BY <1>1
  <2>2. ASSUME NEW x \in DOMAIN r PROVE x + l \in DOMAIN c /\ c[x + l] = r[x]
    <3>1. x \in Int /\ x + l \in DOMAIN c /\ ~(x + l <= l) /\ (x + l) - l = x
      BY <1>1
    <3>2. c[x + l] = r[(x + l) - l]
      BY <1>1, <3>1
    <3>3. QED
      BY <3>1, <3>2
  <2>3. QED
    BY <2>1, <2>2
<1>4. ToSet(c) = ToSet(q) \cup ToSet(r)
  BY <1>2, <1>3 DEF ToSet
<1>5. Distinct(c)
  <2> SUFFICES ASSUME NEW x \in DOMAIN c, NEW y \in DOMAIN c, c[x] = c[y] PROVE x = y
    BY DEF Distinct
  <2>1. x \in Int /\ y \in Int /\ l \in Int
    BY <1>1
  <2>2. CASE x \in DOMAIN q /\ c[x] = q[x] /\ y \in DOMAIN q /\ c[y] = q[y]
    BY <2>2 DEF Distinct
  <2>3. CASE x - l \in DOMAIN r /\ c[x] = r[x - l] /\ y - l \in DOMAIN r /\ c[y] = r[y - l]
    <3>1. x - l = y - l
      BY <2>3 DEF Distinct
    <3>2. QED
      BY <2>1, <3>1
  <2>4. \A z \in DOMAIN q, w \in DOMAIN r : q[z] # r[w]
    BY DEF ToSet
  <2>5. QED
    BY <1>2, <2>2, <2>3, <2>4
<1>6. QED
  BY <1>1, <1>4, <1>5 DEF c

-----------------------------------------------------------------------------
(* What an entry means.                                                    *)
Item(S) == [ns : S, name : S, deps : Seq(S \X S)]

LEMMA IndexIs ==
  ASSUME NEW n \in Nat, NEW items, Len(items) = n, NEW key
  PROVE  LET found == {i \in 1..n : Ident(items[i]) = key} IN
         /\ found = {} => Index(items, key) = 0
         /\ found # {} => /\ Index(items, key) \in found
                          /\ \A i \in found : i <= Index(items, key)
<1> DEFINE found == {i \in 1..n : Ident(items[i]) = key}
<1>1. Index(items, key) = IF found # {} THEN Max(found) ELSE 0
  BY DEF Index, SelectLastInSeq
<1>2. found \in SUBSET (1..n)
  OBVIOUS
<1> HIDE DEF found
<1>3. found # {} => Max(found) \in found /\ \A x \in found : x <= Max(found)
  BY <1>2, MaxIs
<1>4. QED
  BY <1>1, <1>3 DEF found

LEMMA MeantIs ==
  ASSUME NEW S, NEW items \in Seq(Item(S)), NEW i \in DOMAIN items
  PROVE  /\ IsFiniteSet(Requires(items, i))
         /\ \A k \in Requires(items, i) : Meant(items, i, k) \in DOMAIN items
         /\ DependsOn(items, i) = {Meant(items, i, k) : k \in Requires(items, i)}
<1> DEFINE n == Len(items)
           item == items[i]
           keys == DepKeys(item)
<1>1. /\ n \in Nat /\ DOMAIN items = 1..n
      /\ item \in Item(S)
      /\ item.deps \in Seq(S \X S) /\ DOMAIN item.deps = 1..Len(item.deps) /\ Len(item.deps) \in Nat
      /\ \A k \in DOMAIN item.deps : item.deps[k] \in S \X S
  <2>1. item \in Item(S)
    OBVIOUS
  <2> HIDE DEF item
  <2>2. item.deps \in Seq(S \X S)
    BY <2>1 DEF Item
  <2> DEFINE deps == item.deps
  <2> HIDE DEF deps
  <2>3. DOMAIN deps = 1..Len(deps) /\ Len(deps) \in Nat /\ \A k \in DOMAIN deps : deps[k] \in S \X S
    BY <2>2 DEF deps
  <2>4. QED
    BY <2>1, <2>2, <2>3 DEF deps
<1>2. IsFiniteSet(Requires(items, i))
  <2>1. IsFiniteSet(1..Len(item.deps))
    <3> DEFINE l == Len(item.deps)
    <3>1. l \in Int
      BY <1>1
    <3> HIDE DEF l
    <3>2. QED
      BY <3>1, FS_Interval
  <2>2. Requires(items, i) \in SUBSET (1..Len(item.deps))
    BY <1>1 DEF Requires
  <2> HIDE DEF item
  <2>3. QED
    BY <2>1, <2>2, FS_Subset
<1>3. ASSUME NEW k \in DOMAIN item.deps, NEW j \in DOMAIN items
      PROVE  Meant(items, i, k) = j <=>
               /\ Ident(items[j]) = keys[k]
               /\ \A l \in (j + 1)..n : Ident(items[l]) # keys[k]
  <2> DEFINE found == {l \in 1..n : Ident(items[l]) = keys[k]}
             index == Index(items, keys[k])
  <2>1. Meant(items, i, k) = index
    BY DEF Meant
  <2>2. /\ found = {} => index = 0
        /\ found # {} => index \in found /\ \A l \in found : l <= index
    BY <1>1, IndexIs
  <2>3. j \in 1..n
    BY <1>1
  <2> HIDE DEF index, n, keys
  <2>4. ASSUME index = j
        PROVE  Ident(items[j]) = keys[k] /\ \A l \in (j + 1)..n : Ident(items[l]) # keys[k]
    <3>1. j \in found /\ \A l \in found : l <= j
      BY <1>1, <2>2, <2>3, <2>4
    <3>2. ASSUME NEW l \in (j + 1)..n PROVE l \notin found /\ l \in 1..n
      <4>1. l \in 1..n /\ ~(l <= j)
        BY <1>1, <2>3
      <4>2. QED
        BY <3>1, <4>1
    <3>3. QED
      BY <3>1, <3>2
  <2>5. ASSUME Ident(items[j]) = keys[k], \A l \in (j + 1)..n : Ident(items[l]) # keys[k]
        PROVE  index = j
    <3>1. j \in found
      BY <2>3, <2>5
    <3>2. index \in found /\ j <= index
      BY <2>2, <3>1
    <3>3. index \in 1..n /\ index \notin (j + 1)..n
      BY <2>5, <3>2
    <3>4. QED
      BY <1>1, <2>3, <3>2, <3>3
  <2>6. QED
    BY <2>1, <2>4, <2>5
<1>4. ASSUME NEW k \in Requires(items, i) PROVE Meant(items, i, k) \in DOMAIN items
  <2> DEFINE found == {l \in 1..n : Ident(items[l]) = keys[k]}
             index == Index(items, keys[k])
  <2>1. Meant(items, i, k) = index /\ index # 0
    BY DEF Meant, Requires
  <2>2. /\ found = {} => index = 0
        /\ found # {} => index \in found
    BY <1>1, IndexIs
  <2>3. QED
    BY <1>1, <2>1, <2>2
<1>5. ASSUME NEW k \in DOMAIN item.deps, NEW j \in DOMAIN items
      PROVE  Ident(items[j]) = keys[k] <=>
               LET d == item.deps[k] IN
               items[j].name = d[2] /\ items[j].ns = IF d[1] = None THEN item.ns ELSE d[1]
  <2> DEFINE d == item.deps[k]
  <2>1. keys[k] = IF d[1] = None THEN <<item.ns, d[2]>> ELSE d
    BY DEF DepKeys
  <2>2. d = <<d[1], d[2]>>
    BY <1>1
  <2>3. Ident(items[j]) = <<items[j].ns, items[j].name>>
    BY DEF Ident
  <2> HIDE DEF d, keys, item
  <2>4. QED
    BY <2>1, <2>2, <2>3 DEF d
<1>6. ASSUME NEW j \in DOMAIN items
      PROVE  j \in DependsOn(items, i) <=> \E k \in Requires(items, i) : Meant(items, i, k) = j
  <2>1. j \in DependsOn(items, i) <=>
          \E k \in DOMAIN item.deps :
            /\ Ident(items[j]) = keys[k]
            /\ \A l \in (j + 1)..n : Ident(items[l]) # Ident(items[j])
    BY <1>5 DEF DependsOn, ToSet
  <2>2. j \in DependsOn(items, i) <=> \E k \in DOMAIN item.deps : Meant(items, i, k) = j
    BY <1>3, <2>1
  <2>3. j # 0
    BY <1>1
  <2>4. QED
    BY <2>2, <2>3 DEF Requires
<1>7. QED
  BY <1>2, <1>4, <1>6 DEF DependsOn

-----------------------------------------------------------------------------
(* Kahn's algorithm.  What is left of the entries of i, with done done.    *)
Left(items, i, done) == {k \in Requires(items, i) : Meant(items, i, k) \notin done}

Kahn(n) == [queue : Seq(1..n), sorted : Seq(1..n), inDegree : [1..n -> Int]]

(* In every round: an item is sorted or queued, once, exactly when nothing *)
(* is left of its entries, which inDegree counts; and a sorted item comes  *)
(* after all that its entries mean.                                        *)
Counted(items, n, k) ==
  \A i \in 1..n : k.inDegree[i] = Cardinality(Left(items, i, ToSet(k.sorted)))

Ready(n, k) ==
  \A i \in 1..n : i \in ToSet(k.sorted) \cup ToSet(k.queue) <=> k.inDegree[i] = 0

Ordered(items, sorted) ==
  \A p \in DOMAIN sorted : \A d \in Requires(items, sorted[p]) :
    \E q \in 1..(p - 1) : sorted[q] = Meant(items, sorted[p], d)

KahnInv(items, n, k) ==
  /\ k \in Kahn(n)
  /\ Distinct(k.sorted) /\ Distinct(k.queue) /\ ToSet(k.sorted) \cap ToSet(k.queue) = {}
  /\ Counted(items, n, k) /\ Ready(n, k) /\ Ordered(items, k.sorted)

LEMMA LeftIs ==
  ASSUME NEW S, NEW items \in Seq(Item(S)), NEW i \in DOMAIN items, NEW done
  PROVE  /\ Cardinality(Left(items, i, done)) \in Nat
         /\ Cardinality(Left(items, i, done)) = 0 <=> Left(items, i, done) = {}
<1>1. IsFiniteSet(Requires(items, i)) /\ Left(items, i, done) \in SUBSET Requires(items, i)
  BY MeantIs DEF Left
<1>2. IsFiniteSet(Left(items, i, done))
  BY <1>1, FS_Subset
<1>3. QED
  BY <1>2, FS_CardinalityType, FS_EmptySet

LEMMA OneMore ==
  ASSUME NEW S, NEW items \in Seq(Item(S)), NEW i \in DOMAIN items, NEW done, NEW j, j \notin done
  PROVE  /\ Edges(items, j, i) \in Nat
         /\ Cardinality(Left(items, i, done \cup {j})) =
              Cardinality(Left(items, i, done)) - Edges(items, j, i)
<1> DEFINE edges == {k \in Requires(items, i) : Meant(items, i, k) = j}
           left  == Left(items, i, done \cup {j})
<1>1. IsFiniteSet(Requires(items, i)) /\ edges \in SUBSET Requires(items, i)
      /\ left \in SUBSET Requires(items, i)
  BY MeantIs DEF Left
<1>2. Left(items, i, done) = left \cup edges /\ left \cap edges = {}
  BY DEF Left
<1>3. Edges(items, j, i) = Cardinality(edges)
  BY DEF Edges
<1> HIDE DEF left, edges
<1>4. IsFiniteSet(left) /\ IsFiniteSet(edges)
  BY <1>1, FS_Subset
<1>5. Cardinality(left) \in Nat /\ Cardinality(edges) \in Nat
  BY <1>4, FS_CardinalityType
<1>6. Cardinality(left \cup edges) = Cardinality(left) + Cardinality(edges) - Cardinality({})
  BY <1>2, <1>4, FS_Union
<1>7. Cardinality({}) = 0
  BY FS_EmptySet
<1>8. Cardinality(left \cup edges) = Cardinality(left) + Cardinality(edges)
  BY <1>5, <1>6, <1>7
<1>9. Cardinality(left) = Cardinality(left \cup edges) - Cardinality(edges)
  BY <1>5, <1>8
<1>10. QED
  BY <1>2, <1>3, <1>5, <1>9 DEF left

LEMMA PopKeeps ==
  ASSUME NEW S, NEW items \in Seq(Item(S)), NEW n \in Nat, DOMAIN items = 1..n,
         NEW k, KahnInv(items, n, k), k.queue # <<>>
  PROVE  /\ KahnInv(items, n, Pop(items, k))
         /\ Len(Pop(items, k).sorted) = Len(k.sorted) + 1
<1> DEFINE done     == Head(k.queue)
           inDegree == [i \in DOMAIN items |-> k.inDegree[i] - Edges(items, done, i)]
           ready    == {i \in DOMAIN items : k.inDegree[i] > 0 /\ inDegree[i] = 0}
           queue    == Tail(k.queue) \o Queued(items, ready)
           sorted   == Append(k.sorted, done)
<1>1. Pop(items, k) = [queue |-> queue, sorted |-> sorted, inDegree |-> inDegree]
  BY DEF Pop
<1>2. /\ k.queue \in Seq(1..n) /\ k.sorted \in Seq(1..n) /\ k.inDegree \in [1..n -> Int]
      /\ Distinct(k.sorted) /\ Distinct(k.queue) /\ ToSet(k.sorted) \cap ToSet(k.queue) = {}
  BY DEF KahnInv, Kahn
<1>3. /\ done \in 1..n /\ Tail(k.queue) \in Seq(1..n)
      /\ ToSet(k.queue) = ToSet(Tail(k.queue)) \cup {done}
      /\ done \notin ToSet(Tail(k.queue)) /\ Distinct(Tail(k.queue))
  BY <1>2, TailOf
<1>4. done \notin ToSet(k.sorted)
  BY <1>2, <1>3
<1>5. /\ sorted \in Seq(1..n) /\ ToSet(sorted) = ToSet(k.sorted) \cup {done} /\ Distinct(sorted)
  BY <1>2, <1>3, <1>4, AppendNew
<1>6. ASSUME NEW i \in 1..n
      PROVE  /\ k.inDegree[i] \in Nat /\ Edges(items, done, i) \in Nat
             /\ inDegree[i] = k.inDegree[i] - Edges(items, done, i)
             /\ inDegree[i] = Cardinality(Left(items, i, ToSet(sorted)))
             /\ inDegree[i] \in Nat
  <2>1. k.inDegree[i] = Cardinality(Left(items, i, ToSet(k.sorted)))
    BY DEF KahnInv, Counted
  <2>2. i \in DOMAIN items /\ inDegree[i] = k.inDegree[i] - Edges(items, done, i)
    OBVIOUS
  <2> HIDE DEF done, inDegree, sorted
  <2>3. k.inDegree[i] \in Nat
    BY <2>1, <2>2, LeftIs
  <2>4. /\ Edges(items, done, i) \in Nat
        /\ Cardinality(Left(items, i, ToSet(k.sorted) \cup {done})) =
             Cardinality(Left(items, i, ToSet(k.sorted))) - Edges(items, done, i)
    BY <1>4, <2>2, OneMore
  <2>5. inDegree[i] = Cardinality(Left(items, i, ToSet(sorted)))
    BY <1>5, <2>1, <2>2, <2>4
  <2>6. inDegree[i] \in Nat
    BY <2>2, <2>5, LeftIs
  <2>7. QED
    BY <2>2, <2>3, <2>4, <2>5, <2>6
<1>7. inDegree \in [1..n -> Int]
  <2>1. inDegree = [i \in 1..n |-> inDegree[i]]
    OBVIOUS
  <2> HIDE DEF inDegree
  <2>2. QED
    BY <1>6, <2>1
<1>8. ready \in SUBSET (1..n) /\ ready = {i \in 1..n : k.inDegree[i] > 0 /\ inDegree[i] = 0}
  OBVIOUS
<1> HIDE DEF done, inDegree, ready
<1>9. /\ Queued(items, ready) \in Seq(1..n) /\ ToSet(Queued(items, ready)) = ready
      /\ Distinct(Queued(items, ready))
  BY <1>8, QueuedIs
<1>10. ready \cap (ToSet(k.sorted) \cup ToSet(k.queue)) = {}
  BY <1>8, <1>6 DEF KahnInv, Ready
<1>11. /\ queue \in Seq(1..n) /\ Distinct(queue)
       /\ ToSet(queue) = ToSet(Tail(k.queue)) \cup ready
  <2>1. ToSet(Tail(k.queue)) \cap ToSet(Queued(items, ready)) = {}
    BY <1>3, <1>9, <1>10
  <2>2. QED
    BY <1>3, <1>9, <2>1, Joined
<1> HIDE DEF queue
<1>12. ToSet(sorted) \cap ToSet(queue) = {}
  BY <1>2, <1>3, <1>5, <1>10, <1>11
<1>13. ASSUME NEW i \in 1..n PROVE i \in ToSet(sorted) \cup ToSet(queue) <=> inDegree[i] = 0
  <2>1. i \in ToSet(sorted) \cup ToSet(queue) <=> k.inDegree[i] = 0 \/ i \in ready
    BY <1>3, <1>5, <1>11 DEF KahnInv, Ready
  <2>2. k.inDegree[i] = 0 \/ i \in ready <=> inDegree[i] = 0
    BY <1>6, <1>8
  <2>3. QED
    BY <2>1, <2>2
<1>14. Ordered(items, sorted)
  <2>1. /\ DOMAIN k.sorted = 1..Len(k.sorted) /\ Len(k.sorted) \in Nat
        /\ DOMAIN sorted = 1..(Len(k.sorted) + 1)
        /\ sorted[Len(k.sorted) + 1] = done
        /\ \A p \in 1..Len(k.sorted) : sorted[p] = k.sorted[p]
    BY <1>2, <1>3
  <2> HIDE DEF sorted
  <2> SUFFICES ASSUME NEW p \in DOMAIN sorted, NEW d \in Requires(items, sorted[p])
               PROVE  \E q \in 1..(p - 1) : sorted[q] = Meant(items, sorted[p], d)
    BY DEF Ordered
  <2>2. CASE p \in 1..Len(k.sorted)
    <3>1. sorted[p] = k.sorted[p] /\ p \in DOMAIN k.sorted
      BY <2>1, <2>2
    <3>2. PICK q \in 1..(p - 1) : k.sorted[q] = Meant(items, sorted[p], d)
      BY <3>1 DEF KahnInv, Ordered
    <3>3. q \in 1..Len(k.sorted)
      BY <2>1, <2>2
    <3>4. QED
      BY <2>1, <3>2, <3>3
  <2>3. CASE p = Len(k.sorted) + 1
    <3>1. sorted[p] = done
      BY <2>1, <2>3
    <3>2. done \in ToSet(k.queue) /\ k.inDegree[done] = 0 /\ done \in DOMAIN items
      BY <1>3 DEF KahnInv, Ready
    <3>3. Left(items, done, ToSet(k.sorted)) = {}
      BY <1>3, <3>2, LeftIs DEF KahnInv, Counted
    <3>4. Meant(items, done, d) \in ToSet(k.sorted)
      BY <3>1, <3>3 DEF Left
    <3>5. PICK q \in DOMAIN k.sorted : k.sorted[q] = Meant(items, done, d)
      BY <3>4 DEF ToSet
    <3>6. q \in 1..(p - 1) /\ sorted[q] = k.sorted[q]
      BY <2>1, <2>3
    <3>7. QED
      BY <3>1, <3>5, <3>6
  <2>4. QED
    BY <2>1, <2>2, <2>3
<1>15. Len(sorted) = Len(k.sorted) + 1
  BY <1>2, <1>3
<1> DEFINE next == Pop(items, k)
<1> HIDE DEF sorted
<1>16. next.queue = queue /\ next.sorted = sorted /\ next.inDegree = inDegree /\ next \in Kahn(n)
  BY <1>1, <1>5, <1>7, <1>11 DEF Kahn
<1> HIDE DEF next
<1>17. Counted(items, n, next) /\ Ready(n, next)
  BY <1>6, <1>13, <1>16 DEF Counted, Ready
<1>18. KahnInv(items, n, next) /\ Len(next.sorted) = Len(k.sorted) + 1
  BY <1>5, <1>11, <1>12, <1>14, <1>15, <1>16, <1>17 DEF KahnInv
<1>19. QED
  BY <1>18 DEF next

RoundOf(items, k) == IF k.queue = <<>> THEN k ELSE Pop(items, k)

LEMMA SortedIs ==
  ASSUME NEW S, NEW items \in Seq(Item(S)), NEW n \in Nat, DOMAIN items = 1..n
  PROVE  \E k : /\ KahnInv(items, n, k) /\ Sorted(items) = k.sorted
                /\ Len(k.sorted) = n \/ k.queue = <<>>
<1> DEFINE inDegree == [i \in DOMAIN items |-> InDegree(items, i)]
           ready == {i \in DOMAIN items : inDegree[i] = 0}
           start == [queue |-> Queued(items, ready), sorted |-> <<>>, inDegree |-> inDegree]
           Equation(g) ==
             [s \in SUBSET (DOMAIN Positions(items)) |->
                IF s = {} THEN start
                ELSE IF g[s \ {Max(s)}].queue = <<>> THEN g[s \ {Max(s)}]
                     ELSE Pop(items, g[s \ {Max(s)}])]
           kahn == CHOOSE g : g = Equation(g)
           B == {k \in Kahn(n) : KahnInv(items, n, k)}
           F == [i \in 1..n |-> [k \in B |-> RoundOf(items, k)]]
<1>1. Sorted(items) = kahn[DOMAIN Positions(items)].sorted
  BY DEF Sorted, FoldLeft, MapThenFoldSet
<1>2. DOMAIN Positions(items) = 1..n
  BY DEF Positions
<1>3. KahnInv(items, n, start)
  <2>1. ready \in SUBSET (1..n)
    OBVIOUS
  <2>2. ASSUME NEW i \in 1..n
        PROVE  /\ inDegree[i] = Cardinality(Left(items, i, {})) /\ inDegree[i] \in Int
               /\ i \in ready <=> inDegree[i] = 0
    <3>1. Left(items, i, {}) = Requires(items, i) /\ i \in DOMAIN items
      BY DEF Left
    <3>2. inDegree[i] = Cardinality(Left(items, i, {}))
      BY <3>1 DEF InDegree
    <3>3. i \in ready <=> inDegree[i] = 0
      OBVIOUS
    <3> HIDE DEF inDegree, ready
    <3>4. inDegree[i] \in Nat
      BY <3>1, <3>2, LeftIs
    <3>5. QED
      BY <3>2, <3>3, <3>4
  <2>3. inDegree \in [1..n -> Int]
    <3>1. inDegree = [i \in 1..n |-> inDegree[i]]
      OBVIOUS
    <3> HIDE DEF inDegree
    <3>2. QED
      BY <2>2, <3>1
  <2> HIDE DEF inDegree, ready
  <2>4. /\ Queued(items, ready) \in Seq(1..n) /\ ToSet(Queued(items, ready)) = ready
        /\ Distinct(Queued(items, ready))
    BY <2>1, QueuedIs
  <2>5. <<>> \in Seq(1..n) /\ ToSet(<<>>) = {} /\ Distinct(<<>>) /\ DOMAIN <<>> = {}
    BY DEF ToSet, Distinct
  <2>6. start.queue = Queued(items, ready) /\ start.sorted = <<>> /\ start.inDegree = inDegree
        /\ start \in Kahn(n)
    BY <2>3, <2>4, <2>5 DEF Kahn
  <2> HIDE DEF start
  <2>7. Counted(items, n, start) /\ Ready(n, start) /\ Ordered(items, start.sorted)
    BY <2>2, <2>4, <2>5, <2>6 DEF Counted, Ready, Ordered
  <2>8. QED
    BY <2>4, <2>5, <2>6, <2>7 DEF KahnInv
<1>4. \A k \in B : RoundOf(items, k) \in B
  BY PopKeeps DEF RoundOf, KahnInv
<1>5. Combines(F, n, B) /\ \A i \in 1..n, k \in B : F[i][k] = RoundOf(items, k)
  <2>1. \A i \in 1..n, k \in B : F[i][k] = RoundOf(items, k)
    OBVIOUS
  <2> HIDE DEF F, B
  <2>2. QED
    BY <1>4, <2>1 DEF Combines
<1>6. start \in B
  <2> HIDE DEF start
  <2>1. QED
    BY <1>3 DEF KahnInv
<1> HIDE DEF start, F, B
<1>7. PICK g \in [SUBSET (1..n) -> B] : Folding(g, n, start, F)
  BY <1>5, <1>6, FoldExists
<1>8. g = Equation(g)
  <2>1. ASSUME NEW s \in SUBSET (1..n)
        PROVE  g[s] = IF s = {} THEN start
                      ELSE IF g[s \ {Max(s)}].queue = <<>> THEN g[s \ {Max(s)}]
                           ELSE Pop(items, g[s \ {Max(s)}])
    <3>1. CASE s = {}
      BY <1>7, <3>1 DEF Folding
    <3>2. CASE s # {}
      <4>1. Max(s) \in 1..n /\ g[s \ {Max(s)}] \in B
        BY <3>2, MaxIs
      <4>2. g[s] = F[Max(s)][g[s \ {Max(s)}]]
        BY <1>7, <3>2 DEF Folding
      <4>3. QED
        BY <1>5, <3>2, <4>1, <4>2 DEF RoundOf
    <3>3. QED
      BY <3>1, <3>2
  <2>2. QED
    BY <1>2, <2>1
<1>9. kahn = Equation(kahn)
  <2> HIDE DEF Equation
  <2>1. QED
    BY <1>8
<1>10. /\ kahn[{}] = start
       /\ \A s \in SUBSET (1..n) : s # {} => kahn[s] = RoundOf(items, kahn[s \ {Max(s)}])
  <2> HIDE DEF kahn
  <2>1. QED
    BY <1>2, <1>9 DEF RoundOf
<1> HIDE DEF kahn
<1> DEFINE k(m) == kahn[1..m]
           Good(m) == KahnInv(items, n, k(m)) /\ (Len(k(m).sorted) = m \/ k(m).queue = <<>>)
           T == {m \in 0..n : Good(m)}
<1>11. Good(0)
  <2>1. 1..0 = {} /\ start.sorted = <<>>
    BY DEF start
  <2>2. QED
    BY <1>3, <1>10, <2>1
<1>12. ASSUME NEW m \in 0..(n - 1), Good(m) PROVE Good(m + 1)
  <2>1. /\ (1..(m + 1)) \in SUBSET (1..n) /\ 1..(m + 1) # {} /\ Max(1..(m + 1)) = m + 1
        /\ (1..(m + 1)) \ {m + 1} = 1..m
    BY OneFurther
  <2>3. m \in Nat
    OBVIOUS
  <2>4. k(m + 1) = RoundOf(items, k(m))
    BY <1>10, <2>1
  <2> HIDE DEF k
  <2>5. QED
    BY <1>12, <2>3, <2>4, PopKeeps DEF RoundOf
<1>13. Good(n)
  <2> HIDE DEF Good
  <2>1. 0 \in T /\ \A m \in 0..(n - 1) : m \in T => m + 1 \in T
    BY <1>11, <1>12
  <2> HIDE DEF T
  <2>2. n \in T
    BY <2>1, UpTo
  <2>3. QED
    BY <2>2 DEF T
<1>14. QED
  BY <1>1, <1>2, <1>13

-----------------------------------------------------------------------------
(* A list of n different positions holds them all.                         *)
LEMMA AllThere ==
  ASSUME NEW n \in Nat, NEW q \in Seq(1..n), Distinct(q)
  PROVE  Len(q) = n <=> ToSet(q) = 1..n
<1> DEFINE l == Len(q)
<1>1. l \in Nat /\ DOMAIN q = 1..l /\ q \in [1..l -> 1..n]
  OBVIOUS
<1>2. ToSet(q) \in SUBSET (1..n) /\ ToSet(q) = {q[x] : x \in 1..l}
  BY <1>1 DEF ToSet
<1> HIDE DEF l
<1>3. IsFiniteSet(1..l) /\ Cardinality(1..l) = l /\ IsFiniteSet(1..n) /\ Cardinality(1..n) = n
  <2>1. \A m \in Nat : IsFiniteSet(1..m) /\ Cardinality(1..m) = m
    BY FS_Interval
  <2>2. QED
    BY <1>1, <2>1
<1>4. q \in Surjection(1..l, ToSet(q)) /\ q \in Injection(1..l, ToSet(q))
  <2>1. q \in [1..l -> ToSet(q)]
    BY <1>1, <1>2
  <2>2. QED
    BY <1>1, <1>2, <2>1 DEF Surjection, Injection, IsInjective, Distinct
<1>5. IsFiniteSet(ToSet(q)) /\ Cardinality(ToSet(q)) = l
  BY <1>3, <1>4, FS_Surjection
<1>6. QED
  BY <1>2, <1>3, <1>5, FS_Subset DEF l

(* The items left of a run that stops early wait for one another.          *)
LEMMA CycleFound ==
  ASSUME NEW S, NEW items \in Seq(Item(S)), NEW n \in Nat, DOMAIN items = 1..n
  PROVE  /\ Sorted(items) \in Seq(1..n) /\ Distinct(Sorted(items))
         /\ Ordered(items, Sorted(items))
         /\ Len(Sorted(items)) = n <=> ~HasCycle(items)
<1>1. PICK k : /\ KahnInv(items, n, k) /\ Sorted(items) = k.sorted
               /\ Len(k.sorted) = n \/ k.queue = <<>>
  BY SortedIs
<1> DEFINE sorted == Sorted(items)
<1> HIDE DEF sorted
<1>2. /\ sorted = k.sorted /\ sorted \in Seq(1..n) /\ Distinct(sorted) /\ Ordered(items, sorted)
      /\ Len(sorted) = n <=> ToSet(sorted) = 1..n
  BY <1>1, AllThere DEF KahnInv, Kahn, sorted
<1>3. ASSUME Len(sorted) # n PROVE HasCycle(items)
  <2> DEFINE rest == (1..n) \ ToSet(sorted)
  <2>1. k.queue = <<>> /\ ToSet(k.queue) = {}
    BY <1>1, <1>2, <1>3 DEF ToSet
  <2>2. rest # {} /\ rest \in SUBSET DOMAIN items
    BY <1>2, <1>3 DEF KahnInv, Kahn, ToSet
  <2>3. ASSUME NEW i \in rest PROVE DependsOn(items, i) \cap rest # {}
    <3>1. i \in DOMAIN items /\ k.inDegree[i] # 0
      BY <1>1, <1>2, <2>1 DEF KahnInv, Ready
    <3>2. Left(items, i, ToSet(sorted)) # {}
      BY <1>1, <1>2, <3>1, LeftIs DEF KahnInv, Counted
    <3>3. PICK d \in Requires(items, i) : Meant(items, i, d) \notin ToSet(sorted)
      BY <3>2 DEF Left
    <3>4. Meant(items, i, d) \in rest /\ Meant(items, i, d) \in DependsOn(items, i)
      BY <3>1, <3>3, MeantIs
    <3>5. QED
      BY <3>4
  <2> HIDE DEF rest
  <2>4. QED
    BY <2>2, <2>3 DEF HasCycle
<1>4. ASSUME HasCycle(items), Len(sorted) = n PROVE FALSE
  <2>1. PICK C \in SUBSET DOMAIN items : C # {} /\ \A i \in C : DependsOn(items, i) \cap C # {}
    BY <1>4 DEF HasCycle
  <2> DEFINE places == {p \in DOMAIN sorted : sorted[p] \in C}
  <2>2. DOMAIN sorted \subseteq Nat
    BY <1>2
  <2>3. places # {}
    BY <1>2, <1>4, <2>1 DEF ToSet
  <2>4. PICK p \in places : \A q \in places : p <= q
    <3>1. places \in SUBSET Nat
      BY <2>2
    <3> HIDE DEF places
    <3>2. QED
      BY <2>3, <3>1, Least
  <2>5. p \in DOMAIN sorted /\ sorted[p] \in C /\ sorted[p] \in DOMAIN items
    BY <2>1
  <2>6. PICK d \in Requires(items, sorted[p]) : Meant(items, sorted[p], d) \in C
    <3>1. PICK j \in DependsOn(items, sorted[p]) : j \in C
      BY <2>1, <2>5
    <3>2. DependsOn(items, sorted[p]) =
            {Meant(items, sorted[p], d) : d \in Requires(items, sorted[p])}
      BY <2>5, MeantIs
    <3>3. QED
      BY <3>1, <3>2
  <2>7. PICK q \in 1..(p - 1) : sorted[q] = Meant(items, sorted[p], d)
    BY <1>2, <2>5 DEF Ordered
  <2>8. q \in DOMAIN sorted /\ ~(p <= q)
    BY <1>2, <2>5
  <2>9. QED
    BY <2>4, <2>6, <2>7, <2>8
<1>5. QED
  BY <1>2, <1>3, <1>4 DEF sorted

(* For every list, whatever identities it repeats and whatever its entries *)
(* name: without a cycle every item is processed exactly once and after    *)
(* all that it depends on, and a list with a cycle is recognized, and kept *)
(* in its order for HelmReleases (topologicalSortGeneric, discoverHelmFleet*)
(* and runBuildKS).                                                        *)
THEOREM EveryListIsOrdered ==
  ASSUME NEW S, NEW items \in Seq(Item(S))
  PROVE  InDependencyOrder(items, ReleaseOrder(items), KustomizationOrder(items))
<1> DEFINE n == Len(items)
           sorted == Sorted(items)
           releases == ReleaseOrder(items)
<1>1. n \in Nat /\ DOMAIN items = 1..n
  OBVIOUS
<1>2. /\ sorted \in Seq(1..n) /\ Distinct(sorted) /\ Ordered(items, sorted)
      /\ Len(sorted) = n <=> ~HasCycle(items)
      /\ Len(sorted) = n <=> ToSet(sorted) = 1..n
  BY <1>1, CycleFound, AllThere
<1>3. /\ HasCycle(items) => releases = Positions(items)
      /\ ~HasCycle(items) => releases = sorted /\ KustomizationOrder(items) = sorted
  BY <1>2 DEF ReleaseOrder, KustomizationOrder, TopologicalSort, Circular
<1>4. /\ Positions(items) \in Seq(1..n)
      /\ Len(Positions(items)) = n /\ ToSet(Positions(items)) = 1..n
  <2>1. Positions(items) = [i \in 1..n |-> i]
    BY <1>1 DEF Positions
  <2> HIDE DEF n
  <2>2. [i \in 1..n |-> i] \in Seq(1..n) /\ Len([i \in 1..n |-> i]) = n
    BY <1>1
  <2>3. QED
    BY <2>1, <2>2 DEF ToSet
<1> HIDE DEF n, sorted, releases
<1>5. Len(releases) = n /\ ToSet(releases) = DOMAIN items
  BY <1>1, <1>2, <1>3, <1>4
<1>6. ASSUME ~HasCycle(items), NEW p \in DOMAIN items, NEW q \in DOMAIN items,
             releases[q] \in DependsOn(items, releases[p])
      PROVE  q < p
  <2>1. releases = sorted /\ DOMAIN sorted = 1..n /\ sorted[p] \in DOMAIN items
    BY <1>1, <1>2, <1>3, <1>6
  <2>2. PICK d \in Requires(items, sorted[p]) : Meant(items, sorted[p], d) = sorted[q]
    BY <1>6, <2>1, MeantIs
  <2>3. PICK r \in 1..(p - 1) : sorted[r] = sorted[q]
    BY <1>1, <1>2, <2>1, <2>2 DEF Ordered
  <2>4. r \in DOMAIN sorted /\ q \in DOMAIN sorted /\ r < p
    BY <1>1, <2>1
  <2>5. r = q
    BY <1>2, <2>3, <2>4 DEF Distinct
  <2>6. QED
    BY <2>4, <2>5
<1>7. QED
  BY <1>3, <1>5, <1>6 DEF InDependencyOrder, n, releases

-----------------------------------------------------------------------------
(* The stages of a fold: its value on 1..m for every m.                    *)
Iterates(it, n, B, base, F) ==
  /\ it[{}] = base
  /\ \A s \in SUBSET (1..n) : s # {} /\ it[s \ {Max(s)}] \in B =>
       it[s] = F[Max(s)][it[s \ {Max(s)}]]

StagesOf(stage, n, base, F) ==
  /\ stage[0] = base
  /\ \A m \in 0..(n - 1) : stage[m + 1] = F[m + 1][stage[m]]

LEMMA Stages ==
  ASSUME NEW n \in Nat, NEW B, NEW base \in B, NEW F, Combines(F, n, B),
         NEW it, Iterates(it, n, B, base, F)
  PROVE  \E stage \in [0..n -> B] : StagesOf(stage, n, base, F) /\ it[1..n] = stage[n]
<1> DEFINE stage == [m \in 0..n |-> it[1..m]]
           S == {m \in 0..n : it[1..m] \in B}
<1>1. 1..0 = {} /\ 0 \in 0..n /\ n \in 0..n
  OBVIOUS
<1>2. ASSUME NEW m \in 0..(n - 1), it[1..m] \in B
      PROVE  it[1..(m + 1)] = F[m + 1][it[1..m]] /\ it[1..(m + 1)] \in B
  <2>1. /\ (1..(m + 1)) \in SUBSET (1..n) /\ 1..(m + 1) # {} /\ Max(1..(m + 1)) = m + 1
        /\ (1..(m + 1)) \ {m + 1} = 1..m
    BY OneFurther
  <2>2. m + 1 \in 1..n
    OBVIOUS
  <2>3. it[1..(m + 1)] = F[m + 1][it[1..m]]
    BY <1>2, <2>1 DEF Iterates
  <2>4. QED
    BY <1>2, <2>2, <2>3 DEF Combines
<1>3. 0 \in S /\ \A m \in 0..(n - 1) : m \in S => m + 1 \in S
  BY <1>1, <1>2 DEF Iterates
<1>4. \A m \in 0..n : it[1..m] \in B
  <2>1. \A m \in 0..n : m \in S
    <3> HIDE DEF S
    <3>1. QED
      BY <1>3, UpTo
  <2>2. QED
    BY <2>1
<1>5. \A m \in 0..(n - 1) : m \in 0..n /\ m + 1 \in 0..n
  OBVIOUS
<1>6. stage \in [0..n -> B] /\ \A m \in 0..n : stage[m] = it[1..m]
  BY <1>4
<1> HIDE DEF stage
<1>7. stage[0] = base
  BY <1>1, <1>6 DEF Iterates
<1>8. \A m \in 0..(n - 1) : stage[m + 1] = F[m + 1][stage[m]]
  BY <1>2, <1>4, <1>5, <1>6
<1>9. stage[n] = it[1..n] /\ StagesOf(stage, n, base, F)
  BY <1>1, <1>6, <1>7, <1>8 DEF StagesOf
<1>10. QED
  BY <1>6, <1>9

-----------------------------------------------------------------------------
(* The choice of the directories that are built.                           *)
Chosen(entries, i, built) ==
  IF Referenced(entries, i) \/ UnderAnyDir(entries[i].path, built)
  THEN built ELSE built \cup {entries[i].path}

LEMMA SelectStages ==
  ASSUME NEW n \in Nat, NEW entries, DOMAIN entries = 1..n
  PROVE  \E stage \in [0..n -> SUBSET {entries[i].path : i \in 1..n}] :
           /\ stage[0] = {}
           /\ \A m \in 0..(n - 1) : stage[m + 1] = Chosen(entries, m + 1, stage[m])
           /\ SelectBuildDirs(entries) = stage[n]
<1> DEFINE places == [i \in DOMAIN entries |-> i]
           B == SUBSET {entries[i].path : i \in 1..n}
           F == [i \in 1..n |-> [built \in B |-> Chosen(entries, i, built)]]
           Equation(g) ==
             [s \in SUBSET (DOMAIN places) |->
                IF s = {} THEN {} ELSE Chosen(entries, places[Max(s)], g[s \ {Max(s)}])]
           it == CHOOSE g : g = Equation(g)
<1>1. DOMAIN places = 1..n /\ \A i \in 1..n : places[i] = i
  OBVIOUS
<1>2. \A i \in 1..n, b \in B : Chosen(entries, i, b) \in B /\ F[i][b] = Chosen(entries, i, b)
  BY DEF Chosen
<1>3. {} \in B /\ Combines(F, n, B)
  BY <1>2 DEF Combines
<1>4. SelectBuildDirs(entries) = it[DOMAIN places]
  BY DEF SelectBuildDirs, FoldLeft, MapThenFoldSet, Chosen
<1> HIDE DEF places, B, F
<1>5. PICK g \in [SUBSET (1..n) -> B] : Folding(g, n, {}, F)
  BY <1>3, FoldExists
<1>6. \A s \in SUBSET (1..n) : s # {} =>
        Max(s) \in 1..n /\ places[Max(s)] = Max(s) /\ s \ {Max(s)} \in SUBSET (1..n)
  BY <1>1, MaxIs
<1>7. g = Equation(g)
  BY <1>1, <1>2, <1>5, <1>6 DEF Folding
<1>8. it = Equation(it)
  <2> HIDE DEF Equation
  <2>1. QED
    BY <1>7
<1>9. \A s \in SUBSET (1..n) :
        it[s] = IF s = {} THEN {} ELSE Chosen(entries, places[Max(s)], it[s \ {Max(s)}])
  <2> HIDE DEF it
  <2>1. QED
    BY <1>1, <1>8
<1> HIDE DEF it
<1>10. Iterates(it, n, B, {}, F)
  <2>1. it[{}] = {}
    BY <1>9
  <2>2. ASSUME NEW s \in SUBSET (1..n), s # {}, it[s \ {Max(s)}] \in B
        PROVE  it[s] = F[Max(s)][it[s \ {Max(s)}]]
    <3>1. it[s] = Chosen(entries, Max(s), it[s \ {Max(s)}])
      BY <1>6, <1>9, <2>2
    <3>2. QED
      BY <1>2, <1>6, <2>2, <3>1
  <2>3. QED
    BY <2>1, <2>2 DEF Iterates
<1>11. PICK stage \in [0..n -> B] : StagesOf(stage, n, {}, F) /\ it[1..n] = stage[n]
  <2> HIDE DEF Equation
  <2>1. QED
    BY <1>3, <1>10, Stages
<1>12. ASSUME NEW m \in 0..(n - 1) PROVE stage[m + 1] = Chosen(entries, m + 1, stage[m])
  <2>1. m + 1 \in 1..n /\ stage[m] \in B
    OBVIOUS
  <2>2. QED
    BY <1>2, <1>11, <2>1 DEF StagesOf
<1>13. stage[0] = {}
  BY <1>11 DEF StagesOf
<1>14. QED
  BY <1>1, <1>4, <1>11, <1>12, <1>13 DEF B

(* What holds after the first m entries: none that is built is referenced, *)
(* or below another one, and every other one is.                           *)
SelectInv(entries, m, built) ==
  /\ \A p \in built : \E i \in 1..m : p = entries[i].path /\ ~Referenced(entries, i)
  /\ \A p, q \in built : ~IsStrictPrefix(p, q)
  /\ \A i \in 1..m : \/ entries[i].path \in built
                     \/ Referenced(entries, i)
                     \/ UnderAnyDir(entries[i].path, built)

InWalkOrder(dirs) ==
  \A i, j \in DOMAIN dirs : IsStrictPrefix(dirs[j].path, dirs[i].path) => j < i

LEMMA SelectMore ==
  ASSUME NEW n \in Nat, NEW entries, DOMAIN entries = 1..n, InWalkOrder(entries),
         NEW m \in 0..(n - 1), NEW built, SelectInv(entries, m, built)
  PROVE  SelectInv(entries, m + 1, Chosen(entries, m + 1, built))
<1> DEFINE path == entries[m + 1].path
           more == Chosen(entries, m + 1, built)
<1>1. /\ m + 1 \in 1..n /\ m + 1 \in 1..(m + 1) /\ m \in Nat
      /\ \A i \in 1..m : i \in 1..n /\ i \in 1..(m + 1) /\ ~(m + 1 < i)
      /\ \A i \in 1..(m + 1) : i \in 1..m \/ i = m + 1
  OBVIOUS
<1>2. \A q \in built : ~IsStrictPrefix(path, q)
  <2> SUFFICES ASSUME NEW q \in built, IsStrictPrefix(path, q) PROVE FALSE
    OBVIOUS
  <2>1. PICK i \in 1..m : q = entries[i].path
    BY DEF SelectInv
  <2>2. m + 1 < i
    BY <1>1, <2>1 DEF InWalkOrder
  <2>3. QED
    BY <1>1, <2>2
<1>3. ~IsStrictPrefix(path, path)
  BY DEF IsStrictPrefix
<1>4. built \subseteq more /\ more \subseteq built \cup {path}
  BY DEF Chosen
<1>5. path \in more => \/ ~Referenced(entries, m + 1) /\ ~UnderAnyDir(path, built)
                     \/ path \in built
  BY DEF Chosen
<1>6. path \in more \/ Referenced(entries, m + 1) \/ UnderAnyDir(path, built)
  BY DEF Chosen
<1> HIDE DEF path, more
<1>7. \A p \in more : \E i \in 1..(m + 1) : p = entries[i].path /\ ~Referenced(entries, i)
  BY <1>1, <1>4, <1>5 DEF SelectInv, path
<1>8. \A p, q \in more : ~IsStrictPrefix(p, q)
  BY <1>2, <1>3, <1>4, <1>5 DEF SelectInv, UnderAnyDir
<1>9. ASSUME NEW i \in 1..(m + 1)
      PROVE  \/ entries[i].path \in more
             \/ Referenced(entries, i)
             \/ UnderAnyDir(entries[i].path, more)
  <2>1. CASE i = m + 1
    BY <1>4, <1>6, <2>1 DEF UnderAnyDir, path
  <2>2. CASE i \in 1..m
    BY <1>4, <2>2 DEF SelectInv, UnderAnyDir
  <2>3. QED
    BY <1>1, <2>1, <2>2
<1>10. SelectInv(entries, m + 1, more)
  BY <1>7, <1>8, <1>9 DEF SelectInv
<1>11. QED
  BY <1>10 DEF more

LEMMA SelectedIs ==
  ASSUME NEW n \in Nat, NEW entries, DOMAIN entries = 1..n, InWalkOrder(entries)
  PROVE  SelectInv(entries, n, SelectBuildDirs(entries))
<1>1. PICK stage \in [0..n -> SUBSET {entries[i].path : i \in 1..n}] :
        /\ stage[0] = {}
        /\ \A m \in 0..(n - 1) : stage[m + 1] = Chosen(entries, m + 1, stage[m])
        /\ SelectBuildDirs(entries) = stage[n]
  BY SelectStages
<1> DEFINE S == {m \in 0..n : SelectInv(entries, m, stage[m])}
<1>2. 0 \in S
  BY <1>1 DEF SelectInv
<1>3. ASSUME NEW m \in 0..(n - 1), m \in S PROVE m + 1 \in S
  <2>1. SelectInv(entries, m, stage[m]) /\ m + 1 \in 0..n
    BY <1>3
  <2>2. SelectInv(entries, m + 1, stage[m + 1])
    BY <1>1, <2>1, SelectMore
  <2>3. QED
    BY <2>1, <2>2
<1>4. n \in S
  <2> HIDE DEF S
  <2>1. \A m \in 0..(n - 1) : m \in S => m + 1 \in S
    BY <1>3
  <2>2. \A m \in 0..n : m \in S
    BY <1>2, <2>1, UpTo
  <2>3. QED
    BY <2>2
<1>5. QED
  BY <1>1, <1>4

(* The entries of a walk: the native directories but the root, in order.   *)
Wanted(d) == d.native /\ d.path # <<>>

Entered(entries, d) == IF Wanted(d) THEN Append(entries, d) ELSE entries

EntriesInv(dirs, m, entries) ==
  /\ entries \in Seq(Dir)
  /\ \A x \in DOMAIN entries : \E i \in 1..m : entries[x] = dirs[i] /\ Wanted(dirs[i])
  /\ \A i \in 1..m : Wanted(dirs[i]) => \E x \in DOMAIN entries : entries[x] = dirs[i]
  /\ InWalkOrder(entries)

LEMMA EntriesMore ==
  ASSUME NEW n \in Nat, NEW dirs \in Seq(Dir), DOMAIN dirs = 1..n, InWalkOrder(dirs),
         NEW m \in 0..(n - 1), NEW entries, EntriesInv(dirs, m, entries)
  PROVE  EntriesInv(dirs, m + 1, Entered(entries, dirs[m + 1]))
<1> DEFINE d == dirs[m + 1]
           more == Append(entries, d)
<1>1. /\ m + 1 \in 1..n /\ m + 1 \in 1..(m + 1) /\ m \in Nat
      /\ \A i \in 1..m : i \in 1..n /\ i \in 1..(m + 1) /\ ~(m + 1 < i)
      /\ \A i \in 1..(m + 1) : i \in 1..m \/ i = m + 1
  OBVIOUS
<1>2. entries \in Seq(Dir) /\ d \in Dir
  BY <1>1 DEF EntriesInv
<1>3. CASE ~Wanted(d)
  <2>1. Entered(entries, d) = entries
    BY <1>3 DEF Entered
  <2>2. EntriesInv(dirs, m + 1, entries)
    BY <1>1, <1>3 DEF EntriesInv
  <2>3. QED
    BY <2>1, <2>2
<1>4. CASE Wanted(d)
  <2>1. Entered(entries, d) = more
    BY <1>4 DEF Entered
  <2>2. /\ more \in Seq(Dir) /\ Len(entries) \in Nat
        /\ DOMAIN entries = 1..Len(entries) /\ DOMAIN more = 1..(Len(entries) + 1)
        /\ \A x \in 1..Len(entries) : more[x] = entries[x]
        /\ more[Len(entries) + 1] = d
    <3> HIDE DEF d
    <3>1. QED
      BY <1>2
  <2> HIDE DEF more
  <2>3. /\ \A x \in DOMAIN more : x \in DOMAIN entries \/ x = Len(entries) + 1
        /\ \A x \in DOMAIN entries : x \in DOMAIN more /\ x < Len(entries) + 1
        /\ Len(entries) + 1 \in DOMAIN more
    BY <2>2
  <2>4. \A x \in DOMAIN more : \E i \in 1..(m + 1) : more[x] = dirs[i] /\ Wanted(dirs[i])
    BY <1>1, <1>4, <2>2, <2>3 DEF EntriesInv
  <2>5. \A i \in 1..(m + 1) : Wanted(dirs[i]) => \E x \in DOMAIN more : more[x] = dirs[i]
    BY <1>1, <2>2, <2>3 DEF EntriesInv
  <2>6. ASSUME NEW x \in DOMAIN more, NEW y \in DOMAIN more,
                 IsStrictPrefix(more[y].path, more[x].path)
        PROVE  y < x
    <3>1. CASE x \in DOMAIN entries /\ y \in DOMAIN entries
      BY <2>2, <2>6, <3>1 DEF EntriesInv, InWalkOrder
    <3>2. CASE x \in DOMAIN entries /\ y = Len(entries) + 1
      <4>1. PICK i \in 1..m : entries[x] = dirs[i]
        BY <3>2 DEF EntriesInv
      <4>2. m + 1 < i
        BY <1>1, <2>2, <2>6, <3>2, <4>1 DEF InWalkOrder
      <4>3. QED
        BY <1>1, <4>2
    <3>3. CASE x = Len(entries) + 1 /\ y \in DOMAIN entries
      BY <2>3, <3>3
    <3>4. CASE x = Len(entries) + 1 /\ y = Len(entries) + 1
      BY <2>6, <3>4 DEF IsStrictPrefix
    <3>5. QED
      BY <2>3, <3>1, <3>2, <3>3, <3>4
  <2>7. EntriesInv(dirs, m + 1, more)
    BY <2>2, <2>4, <2>5, <2>6 DEF EntriesInv, InWalkOrder
  <2>8. QED
    BY <2>1, <2>7
<1>5. QED
  BY <1>3, <1>4

LEMMA EntriesStages ==
  ASSUME NEW n \in Nat, NEW dirs \in Seq(Dir), DOMAIN dirs = 1..n
  PROVE  \E stage \in [0..n -> Seq(Dir)] :
           /\ stage[0] = <<>>
           /\ \A m \in 0..(n - 1) : stage[m + 1] = Entered(stage[m], dirs[m + 1])
           /\ Entries(dirs) = stage[n]
<1> DEFINE B == Seq(Dir)
           F == [i \in 1..n |-> [entries \in B |-> Entered(entries, dirs[i])]]
           Equation(g) ==
             [s \in SUBSET (DOMAIN dirs) |->
                IF s = {} THEN <<>> ELSE Entered(g[s \ {Max(s)}], dirs[Max(s)])]
           it == CHOOSE g : g = Equation(g)
<1>1. \A i \in 1..n, b \in B : Entered(b, dirs[i]) \in B /\ F[i][b] = Entered(b, dirs[i])
  <2>1. \A i \in 1..n, b \in B : Entered(b, dirs[i]) \in B
    <3>1. ASSUME NEW d \in Dir, NEW b \in B PROVE Entered(b, d) \in B
      BY DEF Entered
    <3>2. QED
      BY <3>1
  <2>2. QED
    BY <2>1
<1>2. <<>> \in B
  OBVIOUS
<1>3. Entries(dirs) = it[DOMAIN dirs]
  BY DEF Entries, FoldLeft, MapThenFoldSet, Entered, Wanted
<1> HIDE DEF B, F
<1>4. Combines(F, n, B)
  BY <1>1 DEF Combines
<1>5. PICK g \in [SUBSET (1..n) -> B] : Folding(g, n, <<>>, F)
  BY <1>2, <1>4, FoldExists
<1>6. \A s \in SUBSET (1..n) : s # {} => Max(s) \in 1..n /\ s \ {Max(s)} \in SUBSET (1..n)
  BY MaxIs
<1>7. g = Equation(g)
  BY <1>1, <1>5, <1>6 DEF Folding
<1>8. it = Equation(it)
  <2> HIDE DEF Equation
  <2>1. QED
    BY <1>7
<1>9. \A s \in SUBSET (1..n) :
        it[s] = IF s = {} THEN <<>> ELSE Entered(it[s \ {Max(s)}], dirs[Max(s)])
  <2> HIDE DEF it
  <2>1. QED
    BY <1>8
<1> HIDE DEF it
<1>10. Iterates(it, n, B, <<>>, F)
  <2>1. it[{}] = <<>>
    BY <1>9
  <2>2. ASSUME NEW s \in SUBSET (1..n), s # {}, it[s \ {Max(s)}] \in B
        PROVE  it[s] = F[Max(s)][it[s \ {Max(s)}]]
    <3>1. it[s] = Entered(it[s \ {Max(s)}], dirs[Max(s)])
      BY <1>9, <2>2
    <3>2. QED
      BY <1>1, <1>6, <2>2, <3>1
  <2>3. QED
    BY <2>1, <2>2 DEF Iterates
<1>11. PICK stage \in [0..n -> B] : StagesOf(stage, n, <<>>, F) /\ it[1..n] = stage[n]
  <2> HIDE DEF Equation
  <2>1. QED
    BY <1>2, <1>4, <1>10, Stages
<1>12. ASSUME NEW m \in 0..(n - 1) PROVE stage[m + 1] = Entered(stage[m], dirs[m + 1])
  <2>1. m + 1 \in 1..n /\ stage[m] \in B
    OBVIOUS
  <2>2. QED
    BY <1>1, <1>11, <2>1 DEF StagesOf
<1>13. stage[0] = <<>>
  BY <1>11 DEF StagesOf
<1>14. QED
  BY <1>3, <1>11, <1>12, <1>13 DEF B

LEMMA EntriesAre ==
  ASSUME NEW n \in Nat, NEW dirs \in Seq(Dir), DOMAIN dirs = 1..n, InWalkOrder(dirs)
  PROVE  /\ Entries(dirs) \in Seq(Dir)
         /\ ToSet(Entries(dirs)) = {d \in ToSet(dirs) : Wanted(d)}
         /\ InWalkOrder(Entries(dirs))
<1>1. PICK stage \in [0..n -> Seq(Dir)] :
        /\ stage[0] = <<>>
        /\ \A m \in 0..(n - 1) : stage[m + 1] = Entered(stage[m], dirs[m + 1])
        /\ Entries(dirs) = stage[n]
  BY EntriesStages
<1> DEFINE S == {m \in 0..n : EntriesInv(dirs, m, stage[m])}
<1>2. 0 \in S
  <2>1. <<>> \in Seq(Dir) /\ DOMAIN <<>> = {} /\ 0 \in 0..n
    OBVIOUS
  <2>2. EntriesInv(dirs, 0, <<>>)
    BY <2>1 DEF EntriesInv, InWalkOrder
  <2>3. QED
    BY <1>1, <2>1, <2>2
<1>3. ASSUME NEW m \in 0..(n - 1), m \in S PROVE m + 1 \in S
  <2>1. EntriesInv(dirs, m, stage[m]) /\ m + 1 \in 0..n
    BY <1>3
  <2>2. EntriesInv(dirs, m + 1, stage[m + 1])
    BY <1>1, <2>1, EntriesMore
  <2>3. QED
    BY <2>1, <2>2
<1>4. n \in S
  <2> HIDE DEF S
  <2>1. 0 \in S /\ \A m \in 0..(n - 1) : m \in S => m + 1 \in S
    BY <1>2, <1>3
  <2>2. \A m \in 0..n : m \in S
    BY ONLY n \in Nat, <2>1, UpTo
  <2>3. n \in 0..n
    OBVIOUS
  <2>4. QED
    BY <2>2, <2>3
<1>5. EntriesInv(dirs, n, Entries(dirs))
  BY <1>1, <1>4
<1> DEFINE es == Entries(dirs)
<1> HIDE DEF es, S
<1>6. \A x \in DOMAIN es : es[x] \in {d \in ToSet(dirs) : Wanted(d)}
  BY <1>5 DEF EntriesInv, ToSet, es
<1>7. \A d \in ToSet(dirs) : Wanted(d) => \E x \in DOMAIN es : es[x] = d
  BY <1>5 DEF EntriesInv, ToSet, es
<1>8. ToSet(es) = {d \in ToSet(dirs) : Wanted(d)}
  BY <1>6, <1>7 DEF ToSet
<1>9. QED
  BY <1>5, <1>8 DEF EntriesInv, es

-----------------------------------------------------------------------------
(* The specification: the output is the one of the input.                  *)
Answered ==
  /\ task \in {"sort", "diff", "select", "credentials", "hostkeys"}
  /\ input \in Inputs[task]
  /\ output # None =>
       /\ task = "sort" => output = [releases |-> ReleaseOrder(input),
                                     kustomizations |-> KustomizationOrder(input)]
       /\ task = "select" => output = BuildDirs(input)
       /\ task = "diff" =>
            LET ops == EditScript(input.a, input.b)
            IN  output = [ops |-> ops, hunks |-> Hunks(ops, input.ctxLines)]
       /\ task = "credentials" => output = ResolveAuth(input.env, input.urls)
       /\ task = "hostkeys" => output = HostKeys(input.env, input.shown)

LEMMA AnsweredInit == Init => Answered
BY DEF Init, Inputs, Answered

LEMMA AnsweredNext == Answered /\ [Next]_vars => Answered'
<1> SUFFICES ASSUME Answered, [Next]_vars PROVE Answered'
  OBVIOUS
<1>1. CASE UNCHANGED vars
  BY <1>1 DEF vars, Answered, Inputs
<1>2. CASE Next
  <2>1. UNCHANGED <<task, input>>
    BY <1>2 DEF Next, Sort, Diff, Select, Authenticate, VerifyHosts, Run
  <2>2. /\ task' = "sort" => output' = [releases |-> ReleaseOrder(input),
                                        kustomizations |-> KustomizationOrder(input)]
        /\ task' = "select" => output' = BuildDirs(input)
        /\ task' = "diff" =>
             LET ops == EditScript(input.a, input.b)
             IN  output' = [ops |-> ops, hunks |-> Hunks(ops, input.ctxLines)]
        /\ task' = "credentials" => output' = ResolveAuth(input.env, input.urls)
        /\ task' = "hostkeys" => output' = HostKeys(input.env, input.shown)
    BY <1>2 DEF Next, Sort, Diff, Select, Authenticate, VerifyHosts, Run
  <2>3. task' \in {"sort", "diff", "select", "credentials", "hostkeys"} /\ input' \in Inputs[task']
    BY <2>1 DEF Answered, Inputs
  <2>4. QED
    BY <2>1, <2>2, <2>3 DEF Answered
<1>3. QED
  BY <1>1, <1>2

(* For every list, whatever identities it repeats and whatever its entries *)
(* name (topologicalSortGeneric, discoverHelmFleet and runBuildKS).        *)
THEOREM SortsRespectDependencies == Spec => []DependenciesFirst
<1>1. Answered => DependenciesFirst
  <2> SUFFICES ASSUME Answered, task = "sort", output # None
               PROVE  InDependencyOrder(input, output.releases, output.kustomizations)
    BY DEF DependenciesFirst, Done
  <2>1. input \in Seq(Item(Names))
    BY ConstantsAssumption DEF ConstantsAssumption, Answered, Inputs, Item
  <2>2. output.releases = ReleaseOrder(input) /\ output.kustomizations = KustomizationOrder(input)
    BY DEF Answered
  <2>3. QED
    BY <2>1, <2>2, EveryListIsOrdered
<1>2. QED
  BY <1>1, AnsweredInit, AnsweredNext, PTL DEF Spec

(* For every tree, whatever its kustomization files refer to: none that is *)
(* built is part of, or below, another one that is, and every native one   *)
(* is part of a build, below a built one or needed only by one that is,    *)
(* unless references are circular (DiscoverKustomizeDirsAndFiles).         *)
THEOREM DirectoriesAreBuiltOnce == Spec => []BuiltOnce
<1>1. Answered => BuiltOnce
  <2> DEFINE others(p) == output \ {p}
             nested    == {d.path : d \in {e \in Native :
                                       \E p \in output : IsStrictPrefix(p, e.path)}}
             entries   == Entries(input)
             n         == Len(entries)
  <2> SUFFICES ASSUME Answered, task = "select", output # None
               PROVE  /\ \A p \in output : p \notin Reaches(others(p)) \cup nested
                      /\ ~Cyclic => Buildable = Reaches(output \cup nested)
    BY DEF BuiltOnce, Done
  <2>1. input \in Seq(Dir) /\ InWalkOrder(input) /\ output = SelectBuildDirs(entries)
    BY ConstantsAssumption DEF ConstantsAssumption, Answered, Inputs, InWalkOrder, BuildDirs
  <2>2. entries \in Seq(Dir) /\ ToSet(entries) = Native /\ InWalkOrder(entries)
    <3>1. Len(input) \in Nat /\ DOMAIN input = 1..Len(input)
      BY <2>1
    <3>2. /\ entries \in Seq(Dir) /\ ToSet(entries) = {d \in ToSet(input) : Wanted(d)}
          /\ InWalkOrder(entries)
      BY <2>1, <3>1, EntriesAre
    <3>3. QED
      BY <3>2 DEF Native, Wanted
  <2> HIDE DEF entries
  <2>3. n \in Nat /\ DOMAIN entries = 1..n
    BY <2>2
  <2> HIDE DEF n
  <2>4. SelectInv(entries, n, output)
    BY <2>1, <2>2, <2>3, SelectedIs
  <2>5. /\ \A i \in 1..n : entries[i] \in Native
        /\ \A d \in Native : \E i \in 1..n : d = entries[i]
    BY <2>2, <2>3 DEF ToSet
  <2>6. \A p \in output : p \in Buildable /\ \A d \in Native : p \notin d.refs
    BY <2>3, <2>4, <2>5 DEF SelectInv, Referenced, Buildable
  <2>7. \A p, q \in output : ~IsStrictPrefix(p, q)
    BY <2>4 DEF SelectInv
  <2>8. ASSUME NEW p \in Buildable, p \notin output, p \notin nested
        PROVE  \E d \in Native : p \in d.refs
    <3>1. PICK i \in 1..n : p = entries[i].path /\ entries[i] \in Native
      BY <2>5 DEF Buildable
    <3>2. ~UnderAnyDir(p, output)
      BY <2>8, <3>1 DEF UnderAnyDir
    <3>3. Referenced(entries, i)
      BY <2>4, <2>8, <3>1, <3>2 DEF SelectInv
    <3>4. QED
      BY <2>3, <2>5, <3>1, <3>3 DEF Referenced
  <2>9. ASSUME NEW p \in output PROVE p \notin Reaches(others(p)) \cup nested
    <3>1. p \notin nested
      BY <2>7
    <3>2. p \notin Reaches(others(p))
      <4> DEFINE C == Buildable \ {p}
      <4>1. others(p) \subseteq C /\ C \in SUBSET Buildable /\ p \notin C
        BY <2>6
      <4>2. Closed(C)
        BY <2>6 DEF Closed
      <4>3. QED
        BY <4>1, <4>2 DEF Reaches
    <3>3. QED
      BY <3>1, <3>2
  <2>10. ASSUME ~Cyclic PROVE Buildable = Reaches(output \cup nested)
    <3>1. ASSUME NEW p \in Buildable, NEW C \in SUBSET Buildable,
                 output \cup nested \subseteq C, Closed(C), p \notin C
          PROVE  FALSE
      <4> DEFINE D == Buildable \ C
      <4>1. D \in SUBSET Buildable /\ D # {}
        BY <3>1
      <4>2. ASSUME NEW q \in D PROVE \E d \in Native : d.path \in D /\ q \in d.refs
        <5>1. PICK d \in Native : q \in d.refs
          BY <2>8, <3>1
        <5>2. d.path \in Buildable /\ d.path \notin C
          BY <3>1, <5>1 DEF Buildable, Closed
        <5>3. QED
          BY <5>1, <5>2
      <4> HIDE DEF D
      <4>3. Cyclic
        BY <4>1, <4>2 DEF Cyclic
      <4>4. QED
        BY <2>10, <4>3
    <3> HIDE DEF nested
    <3>2. QED
      BY <3>1 DEF Reaches
  <2>11. QED
    BY <2>9, <2>10
<1>2. QED
  BY <1>1, AnsweredInit, AnsweredNext, PTL DEF Spec

-----------------------------------------------------------------------------
(* Host keys.                                                              *)
Verified(P) == [tofuMap : SUBSET P, accepted : Seq(BOOLEAN)]

LEMMA VerifyTyped ==
  ASSUME NEW P, NEW env, NEW r \in Verified(P), NEW s \in P
  PROVE  Verify(env, r, s) \in Verified(P)
<1> DEFINE known  == {p \in env.knownHosts : p[1] = s[1]}
           pinned == {p \in r.tofuMap : p[1] = s[1]}
           ok     == s \in known \/ (known = {} /\ env.accept /\ pinned \subseteq {s})
           v      == Verify(env, r, s)
<1>1. /\ v.tofuMap = IF ok /\ known = {} THEN r.tofuMap \cup {s} ELSE r.tofuMap
      /\ v.accepted = Append(r.accepted, ok)
      /\ v = [tofuMap |-> v.tofuMap, accepted |-> v.accepted]
  BY DEF Verify
<1>2. ok \in BOOLEAN
  OBVIOUS
<1>3. r.tofuMap \in SUBSET P /\ r.accepted \in Seq(BOOLEAN)
  BY DEF Verified
<1> HIDE DEF ok, v
<1>4. Append(r.accepted, ok) \in Seq(BOOLEAN)
  BY <1>2, <1>3
<1>5. v.tofuMap \in SUBSET P
  BY <1>1, <1>3
<1>6. v \in Verified(P)
  BY <1>1, <1>4, <1>5 DEF Verified
<1>7. QED
  BY <1>6 DEF v

VerifiesAll(env, shown, n, stage) ==
  /\ stage[0] = [tofuMap |-> {}, accepted |-> <<>>]
  /\ \A m \in 0..(n - 1) : stage[m + 1] = Verify(env, stage[m], shown[m + 1])
  /\ HostKeys(env, shown) = stage[n].accepted

LEMMA VerifyStages ==
  ASSUME NEW P, NEW env, NEW n \in Nat, NEW shown \in Seq(P), DOMAIN shown = 1..n
  PROVE  \E stage \in [0..n -> Verified(P)] : VerifiesAll(env, shown, n, stage)
<1> DEFINE B == Verified(P)
           base == [tofuMap |-> {}, accepted |-> <<>>]
           F == [i \in 1..n |-> [r \in B |-> Verify(env, r, shown[i])]]
           Equation(g) ==
             [s \in SUBSET (DOMAIN shown) |->
                IF s = {} THEN base ELSE Verify(env, g[s \ {Max(s)}], shown[Max(s)])]
           it == CHOOSE g : g = Equation(g)
<1>1. \A i \in 1..n, b \in B : Verify(env, b, shown[i]) \in B /\ F[i][b] = Verify(env, b, shown[i])
  <2>1. \A i \in 1..n : shown[i] \in P
    OBVIOUS
  <2> HIDE DEF B
  <2>2. \A i \in 1..n, b \in B : Verify(env, b, shown[i]) \in B
    BY <2>1, VerifyTyped DEF B
  <2>3. QED
    BY <2>2
<1>2. base \in B
  <2>1. <<>> \in Seq(BOOLEAN)
    OBVIOUS
  <2>2. QED
    BY <2>1 DEF Verified
<1>3. HostKeys(env, shown) = it[DOMAIN shown].accepted
  BY DEF HostKeys, FoldLeft, MapThenFoldSet
<1> HIDE DEF B, F, base
<1>4. Combines(F, n, B)
  BY <1>1 DEF Combines
<1>5. PICK g \in [SUBSET (1..n) -> B] : Folding(g, n, base, F)
  BY <1>2, <1>4, FoldExists
<1>6. \A s \in SUBSET (1..n) : s # {} => Max(s) \in 1..n /\ s \ {Max(s)} \in SUBSET (1..n)
  BY MaxIs
<1>7. g = Equation(g)
  BY <1>1, <1>5, <1>6 DEF Folding
<1>8. it = Equation(it)
  <2> HIDE DEF Equation
  <2>1. QED
    BY <1>7
<1>9. \A s \in SUBSET (1..n) :
        it[s] = IF s = {} THEN base ELSE Verify(env, it[s \ {Max(s)}], shown[Max(s)])
  <2> HIDE DEF it
  <2>1. QED
    BY <1>8
<1> HIDE DEF it
<1>10. Iterates(it, n, B, base, F)
  <2>1. it[{}] = base
    BY <1>9
  <2>2. ASSUME NEW s \in SUBSET (1..n), s # {}, it[s \ {Max(s)}] \in B
        PROVE  it[s] = F[Max(s)][it[s \ {Max(s)}]]
    <3>1. it[s] = Verify(env, it[s \ {Max(s)}], shown[Max(s)])
      BY <1>9, <2>2
    <3>2. QED
      BY <1>1, <1>6, <2>2, <3>1
  <2>3. QED
    BY <2>1, <2>2 DEF Iterates
<1>11. PICK stage \in [0..n -> B] : StagesOf(stage, n, base, F) /\ it[1..n] = stage[n]
  <2> HIDE DEF Equation
  <2>1. QED
    BY <1>2, <1>4, <1>10, Stages
<1>12. ASSUME NEW m \in 0..(n - 1) PROVE stage[m + 1] = Verify(env, stage[m], shown[m + 1])
  <2>1. m + 1 \in 1..n /\ stage[m] \in B
    OBVIOUS
  <2>2. QED
    BY <1>1, <1>11, <2>1 DEF StagesOf
<1>13. stage[0] = base
  BY <1>11 DEF StagesOf
<1>14. QED
  BY <1>3, <1>11, <1>12, <1>13 DEF B, base, VerifiesAll

(* What holds after m keys: an accepted one is known, or it is pinned and  *)
(* its host is not known; a host has one pin.                              *)
KnownOf(env, host) == {p \in env.knownHosts : p[1] = host}

PinInv(env, shown, m, r) ==
  /\ Len(r.accepted) = m
  /\ \A i \in 1..m : r.accepted[i] =>
       \/ shown[i] \in env.knownHosts
       \/ KnownOf(env, shown[i][1]) = {} /\ env.accept /\ shown[i] \in r.tofuMap
  /\ \A p, q \in r.tofuMap : p[1] = q[1] => p = q

LEMMA PinMore ==
  ASSUME NEW P, NEW env, NEW n \in Nat, NEW shown \in Seq(P), DOMAIN shown = 1..n,
         NEW m \in 0..(n - 1), NEW r \in Verified(P), PinInv(env, shown, m, r)
  PROVE  PinInv(env, shown, m + 1, Verify(env, r, shown[m + 1]))
<1> DEFINE s      == shown[m + 1]
           known  == {p \in env.knownHosts : p[1] = s[1]}
           pinned == {p \in r.tofuMap : p[1] = s[1]}
           ok     == s \in known \/ (known = {} /\ env.accept /\ pinned \subseteq {s})
           v      == Verify(env, r, s)
<1>1. s \in P /\ m \in Nat /\ \A i \in 1..(m + 1) : i \in 1..m \/ i = m + 1
  <2>1. m + 1 \in 1..n
    OBVIOUS
  <2>2. QED
    BY <2>1
<1>2. /\ v.tofuMap = IF ok /\ known = {} THEN r.tofuMap \cup {s} ELSE r.tofuMap
      /\ v.accepted = Append(r.accepted, ok)
  BY DEF Verify
<1>3. Len(r.accepted) = m /\ r.accepted \in Seq(BOOLEAN) /\ ok \in BOOLEAN
  BY DEF PinInv, Verified
<1> HIDE DEF s
<1> HIDE DEF ok, v
<1>4. Len(v.accepted) = m + 1 /\ \A i \in 1..m : v.accepted[i] = r.accepted[i]
  BY <1>1, <1>2, <1>3
<1>5. v.accepted[m + 1] = ok
  BY <1>1, <1>2, <1>3
<1>6. r.tofuMap \subseteq v.tofuMap
  BY <1>2
<1>7. known = KnownOf(env, s[1])
  BY DEF KnownOf
<1>8. ASSUME NEW i \in 1..(m + 1), v.accepted[i]
      PROVE  \/ shown[i] \in env.knownHosts
             \/ KnownOf(env, shown[i][1]) = {} /\ env.accept /\ shown[i] \in v.tofuMap
  <2>1. CASE i \in 1..m
    BY <1>4, <1>6, <1>8, <2>1 DEF PinInv
  <2>2. CASE i = m + 1
    <3>1. ok /\ s = shown[i]
      BY <1>5, <1>8, <2>2 DEF s
    <3>2. CASE s \in known
      BY <3>1, <3>2
    <3>3. CASE known = {} /\ env.accept
      BY <1>2, <1>7, <3>1, <3>3
    <3>4. QED
      BY <3>1, <3>2, <3>3 DEF ok
  <2>3. QED
    BY <1>1, <2>1, <2>2
<1>9. ASSUME NEW p \in v.tofuMap, NEW q \in v.tofuMap, p[1] = q[1]
      PROVE  p = q
  <2>1. CASE v.tofuMap = r.tofuMap
    BY <1>9, <2>1 DEF PinInv
  <2>2. CASE v.tofuMap # r.tofuMap
    <3>1. v.tofuMap = r.tofuMap \cup {s} /\ \A x \in r.tofuMap : x[1] = s[1] => x = s
      BY <1>2, <2>2 DEF ok
    <3>2. QED
      BY <1>9, <3>1 DEF PinInv
  <2>3. QED
    BY <2>1, <2>2
<1>10. QED
  BY <1>4, <1>8, <1>9 DEF PinInv, v, s

LEMMA OneKeyPerHost ==
  ASSUME NEW P, NEW env, NEW n \in Nat, NEW shown \in Seq(P), DOMAIN shown = 1..n
  PROVE  LET accepted == HostKeys(env, shown) IN
           \A i, j \in DOMAIN shown :
             /\ accepted[i] /\ accepted[j] /\ shown[i][1] = shown[j][1] /\ shown[i] # shown[j]
                  => {shown[i], shown[j]} \subseteq env.knownHosts
             /\ accepted[i] => env.accept \/ shown[i] \in env.knownHosts
<1>1. PICK stage \in [0..n -> Verified(P)] : VerifiesAll(env, shown, n, stage)
  BY VerifyStages
<1> DEFINE S == {m \in 0..n : PinInv(env, shown, m, stage[m])}
<1>2. 0 \in S
  BY <1>1 DEF PinInv, VerifiesAll
<1>3. ASSUME NEW m \in 0..(n - 1), m \in S PROVE m + 1 \in S
  <2>1. PinInv(env, shown, m, stage[m]) /\ m + 1 \in 0..n /\ stage[m] \in Verified(P)
    BY <1>3
  <2>2. PinInv(env, shown, m + 1, stage[m + 1])
    BY <1>1, <2>1, PinMore DEF VerifiesAll
  <2>3. QED
    BY <2>1, <2>2
<1>4. n \in S
  <2> HIDE DEF S
  <2>1. 0 \in S /\ \A m \in 0..(n - 1) : m \in S => m + 1 \in S
    BY <1>2, <1>3
  <2>2. \A m \in 0..n : m \in S
    BY ONLY n \in Nat, <2>1, UpTo
  <2>3. n \in 0..n
    OBVIOUS
  <2>4. QED
    BY <2>2, <2>3
<1> DEFINE r == stage[n]
<1>5. PinInv(env, shown, n, r) /\ HostKeys(env, shown) = r.accepted
  BY <1>1, <1>4 DEF VerifiesAll
<1> HIDE DEF r
<1>6. ASSUME NEW i \in 1..n, NEW j \in 1..n, r.accepted[i], r.accepted[j],
             shown[i][1] = shown[j][1], shown[i] # shown[j]
      PROVE  shown[i] \in env.knownHosts /\ shown[j] \in env.knownHosts
  <2>1. \A k \in {i, j} : \/ shown[k] \in env.knownHosts
                          \/ KnownOf(env, shown[k][1]) = {} /\ shown[k] \in r.tofuMap
    BY <1>5, <1>6 DEF PinInv
  <2>2. \A k \in {i, j} : shown[k] \in env.knownHosts => KnownOf(env, shown[i][1]) # {}
    BY <1>6 DEF KnownOf
  <2>3. ~(shown[i] \in r.tofuMap /\ shown[j] \in r.tofuMap)
    BY <1>5, <1>6 DEF PinInv
  <2>4. QED
    BY <1>6, <2>1, <2>2, <2>3
<1>7. \A i \in 1..n : r.accepted[i] => env.accept \/ shown[i] \in env.knownHosts
  BY <1>5 DEF PinInv
<1>8. QED
  BY <1>5, <1>6, <1>7

-----------------------------------------------------------------------------
(* Credentials: every answer is what some URL of the same family and host  *)
(* would get on its own.                                                   *)
Keys(eps)         == {AuthMapKey(eps[j]) : j \in DOMAIN eps}
Answers(env, eps) == {Direct(env, eps[j]) : j \in DOMAIN eps}

Resolving(env, eps) ==
  [perHost : UNION {[D -> Answers(env, eps)] : D \in SUBSET Keys(eps)},
   outcomes : Seq(Answers(env, eps))]

Kept(r, ep) == ep.family # "none" /\ AuthMapKey(ep) \in DOMAIN r.perHost
Answer(env, r, ep) == IF Kept(r, ep) THEN r.perHost[AuthMapKey(ep)] ELSE Direct(env, ep)

LEMMA ResolveEffect ==
  ASSUME NEW env, NEW eps, NEW i \in DOMAIN eps, NEW r \in Resolving(env, eps)
  PROVE  LET ep == eps[i]
             key == AuthMapKey(ep)
             s   == ResolvePerHost(env, r, ep)
         IN  /\ s \in Resolving(env, eps)
             /\ Answer(env, r, ep) \in Answers(env, eps)
             /\ s.outcomes = Append(r.outcomes, Answer(env, r, ep))
             /\ r.outcomes \in Seq(Answers(env, eps))
             /\ \A k \in DOMAIN s.perHost :
                  \/ k \in DOMAIN r.perHost /\ s.perHost[k] = r.perHost[k]
                  \/ k = key /\ s.perHost[k] = Answer(env, r, ep)
<1> DEFINE ep == eps[i]
           key == AuthMapKey(ep)
           s   == ResolvePerHost(env, r, ep)
           out == Answer(env, r, ep)
           A   == Answers(env, eps)
           K   == Keys(eps)
           p   == r.perHost
           q   == [k \in DOMAIN p \cup {key} |-> IF k = key THEN out ELSE p[k]]
<1>1. /\ s.perHost = IF ep.family = "none" THEN p ELSE q
      /\ s.outcomes = Append(r.outcomes, out)
      /\ s = [perHost |-> s.perHost, outcomes |-> s.outcomes]
  BY DEF ResolvePerHost, Answer, Kept
<1>2. key \in K /\ Direct(env, ep) \in A
  BY DEF Keys, Answers
<1>3. PICK D \in SUBSET K : p \in [D -> A]
  BY DEF Resolving
<1>4. r.outcomes \in Seq(A)
  BY DEF Resolving
<1>5. out \in A
  BY <1>2, <1>3 DEF Answer, Kept
<1> HIDE DEF out, A, K, key
<1>6. q \in [D \cup {key} -> A] /\ D \cup {key} \in SUBSET K
  BY <1>2, <1>3, <1>5
<1>7. Append(r.outcomes, out) \in Seq(A)
  BY <1>4, <1>5
<1> HIDE DEF s, p, ep
<1>8. s.perHost \in UNION {[C -> A] : C \in SUBSET K}
  <2>1. \E C \in SUBSET K : s.perHost \in [C -> A]
    BY <1>1, <1>3, <1>6
  <2>2. QED
    BY <2>1
<1>9. s \in Resolving(env, eps)
  BY <1>1, <1>7, <1>8 DEF Resolving, A, K
<1>10. ASSUME NEW k \in DOMAIN s.perHost
       PROVE  \/ k \in DOMAIN p /\ s.perHost[k] = p[k]
              \/ k = key /\ s.perHost[k] = out
  BY <1>1, <1>10
<1>11. QED
  BY <1>1, <1>4, <1>5, <1>9, <1>10 DEF s, ep, key, out, p, A

ResolvesAll(env, eps, n, stage) ==
  /\ stage[0] = [perHost |-> <<>>, outcomes |-> <<>>]
  /\ \A m \in 0..(n - 1) : stage[m + 1] = ResolvePerHost(env, stage[m], eps[m + 1])
  /\ Resolve(env, eps) = stage[n].outcomes

LEMMA ResolveStages ==
  ASSUME NEW env, NEW n \in Nat, NEW eps, DOMAIN eps = 1..n
  PROVE  \E stage \in [0..n -> Resolving(env, eps)] : ResolvesAll(env, eps, n, stage)
<1> DEFINE B == Resolving(env, eps)
           base == [perHost |-> <<>>, outcomes |-> <<>>]
           F == [i \in 1..n |-> [r \in B |-> ResolvePerHost(env, r, eps[i])]]
           Equation(g) ==
             [s \in SUBSET (DOMAIN eps) |->
                IF s = {} THEN base ELSE ResolvePerHost(env, g[s \ {Max(s)}], eps[Max(s)])]
           it == CHOOSE g : g = Equation(g)
<1>1. \A i \in 1..n, b \in B :
        ResolvePerHost(env, b, eps[i]) \in B /\ F[i][b] = ResolvePerHost(env, b, eps[i])
  <2> HIDE DEF B
  <2>1. \A i \in 1..n, b \in B : ResolvePerHost(env, b, eps[i]) \in B
    BY ResolveEffect DEF B
  <2>2. QED
    BY <2>1
<1>2. base \in B
  <2>1. <<>> \in [{} -> Answers(env, eps)] /\ {} \in SUBSET Keys(eps)
    OBVIOUS
  <2>2. <<>> \in UNION {[D -> Answers(env, eps)] : D \in SUBSET Keys(eps)}
    BY <2>1
  <2>3. <<>> \in Seq(Answers(env, eps))
    OBVIOUS
  <2>4. QED
    BY <2>2, <2>3 DEF Resolving
<1>3. Resolve(env, eps) = it[DOMAIN eps].outcomes
  BY DEF Resolve, FoldLeft, MapThenFoldSet
<1> HIDE DEF B, F, base
<1>4. Combines(F, n, B)
  BY <1>1 DEF Combines
<1>5. PICK g \in [SUBSET (1..n) -> B] : Folding(g, n, base, F)
  BY <1>2, <1>4, FoldExists
<1>6. \A s \in SUBSET (1..n) : s # {} => Max(s) \in 1..n /\ s \ {Max(s)} \in SUBSET (1..n)
  BY MaxIs
<1>7. g = Equation(g)
  BY <1>1, <1>5, <1>6 DEF Folding
<1>8. it = Equation(it)
  <2> HIDE DEF Equation
  <2>1. QED
    BY <1>7
<1>9. \A s \in SUBSET (1..n) :
        it[s] = IF s = {} THEN base ELSE ResolvePerHost(env, it[s \ {Max(s)}], eps[Max(s)])
  <2> HIDE DEF it
  <2>1. QED
    BY <1>8
<1> HIDE DEF it
<1>10. Iterates(it, n, B, base, F)
  <2>1. it[{}] = base
    BY <1>9
  <2>2. ASSUME NEW s \in SUBSET (1..n), s # {}, it[s \ {Max(s)}] \in B
        PROVE  it[s] = F[Max(s)][it[s \ {Max(s)}]]
    <3>1. it[s] = ResolvePerHost(env, it[s \ {Max(s)}], eps[Max(s)])
      BY <1>9, <2>2
    <3>2. QED
      BY <1>1, <1>6, <2>2, <3>1
  <2>3. QED
    BY <2>1, <2>2 DEF Iterates
<1>11. PICK stage \in [0..n -> B] : StagesOf(stage, n, base, F) /\ it[1..n] = stage[n]
  <2> HIDE DEF Equation
  <2>1. QED
    BY <1>2, <1>4, <1>10, Stages
<1>12. ASSUME NEW m \in 0..(n - 1) PROVE stage[m + 1] = ResolvePerHost(env, stage[m], eps[m + 1])
  <2>1. m + 1 \in 1..n /\ stage[m] \in B
    OBVIOUS
  <2>2. QED
    BY <1>1, <1>11, <2>1 DEF StagesOf
<1>13. stage[0] = base
  BY <1>11 DEF StagesOf
<1>14. QED
  BY <1>3, <1>11, <1>12, <1>13 DEF B, base, ResolvesAll

(* What holds after m URLs: every answer, and every one that is kept, is   *)
(* what one of them gets on its own - one with the same key.               *)
From(env, eps, m, key, out) ==
  \E j \in 1..m : AuthMapKey(eps[j]) = key /\ out = Direct(env, eps[j])

ResolveInv(env, eps, m, r) ==
  /\ Len(r.outcomes) = m
  /\ \A i \in 1..m : From(env, eps, m, AuthMapKey(eps[i]), r.outcomes[i])
  /\ \A key \in DOMAIN r.perHost : From(env, eps, m, key, r.perHost[key])

LEMMA ResolveMore ==
  ASSUME NEW env, NEW n \in Nat, NEW eps, DOMAIN eps = 1..n,
         NEW m \in 0..(n - 1), NEW r \in Resolving(env, eps), ResolveInv(env, eps, m, r)
  PROVE  ResolveInv(env, eps, m + 1, ResolvePerHost(env, r, eps[m + 1]))
<1> DEFINE ep == eps[m + 1]
           key == AuthMapKey(ep)
           s   == ResolvePerHost(env, r, ep)
           out == Answer(env, r, ep)
<1>1. m + 1 \in DOMAIN eps /\ m \in Nat /\ m + 1 \in 1..(m + 1)
      /\ \A i \in 1..(m + 1) : i \in 1..m \/ i = m + 1
  OBVIOUS
<1>2. /\ out \in Answers(env, eps) /\ r.outcomes \in Seq(Answers(env, eps))
      /\ s.outcomes = Append(r.outcomes, out)
      /\ \A k \in DOMAIN s.perHost :
           \/ k \in DOMAIN r.perHost /\ s.perHost[k] = r.perHost[k]
           \/ k = key /\ s.perHost[k] = out
  BY <1>1, ResolveEffect
<1>3. \A k, o : From(env, eps, m, k, o) => From(env, eps, m + 1, k, o)
  BY <1>1 DEF From
<1>4. From(env, eps, m + 1, key, out)
  <2>1. CASE Kept(r, ep)
    BY <1>3, <2>1 DEF ResolveInv, Answer, Kept
  <2>2. CASE ~Kept(r, ep)
    BY <1>1, <2>2 DEF From, Answer
  <2>3. QED
    BY <2>1, <2>2
<1> HIDE DEF s, out
<1>5. Len(r.outcomes) = m
  BY DEF ResolveInv
<1>6. /\ Len(s.outcomes) = m + 1 /\ s.outcomes[m + 1] = out
      /\ \A i \in 1..m : s.outcomes[i] = r.outcomes[i]
  BY <1>1, <1>2, <1>5
<1>7. \A i \in 1..(m + 1) : From(env, eps, m + 1, AuthMapKey(eps[i]), s.outcomes[i])
  BY <1>1, <1>3, <1>4, <1>6 DEF ResolveInv
<1>8. \A k \in DOMAIN s.perHost : From(env, eps, m + 1, k, s.perHost[k])
  BY <1>2, <1>3, <1>4 DEF ResolveInv
<1>9. QED
  BY <1>6, <1>7, <1>8 DEF ResolveInv, s

LEMMA ResolvedIs ==
  ASSUME NEW env, NEW n \in Nat, NEW eps, DOMAIN eps = 1..n
  PROVE  \A i \in 1..n : From(env, eps, n, AuthMapKey(eps[i]), Resolve(env, eps)[i])
<1>1. PICK stage \in [0..n -> Resolving(env, eps)] : ResolvesAll(env, eps, n, stage)
  BY ResolveStages
<1> DEFINE S == {m \in 0..n : ResolveInv(env, eps, m, stage[m])}
<1>2. 0 \in S
  BY <1>1 DEF ResolveInv, ResolvesAll
<1>3. ASSUME NEW m \in 0..(n - 1), m \in S PROVE m + 1 \in S
  <2>1. ResolveInv(env, eps, m, stage[m]) /\ m + 1 \in 0..n /\ stage[m] \in Resolving(env, eps)
    BY <1>3
  <2>2. ResolveInv(env, eps, m + 1, stage[m + 1])
    BY <1>1, <2>1, ResolveMore DEF ResolvesAll
  <2>3. QED
    BY <2>1, <2>2
<1>4. n \in S
  <2> HIDE DEF S
  <2>1. 0 \in S /\ \A m \in 0..(n - 1) : m \in S => m + 1 \in S
    BY <1>2, <1>3
  <2>2. \A m \in 0..n : m \in S
    BY ONLY n \in Nat, <2>1, UpTo
  <2>3. n \in 0..n
    OBVIOUS
  <2>4. QED
    BY <2>2, <2>3
<1>5. QED
  BY <1>1, <1>4 DEF ResolveInv, ResolvesAll

(* What a URL gets on its own.                                             *)
SSHSources == {"key", "agent", "identity"}

LEMMA SSHGets ==
  ASSUME NEW env, NEW ep
  PROVE  LET o    == ResolveSSHAuth(env, ep)
             user == IF ep.user = None THEN "git" ELSE ep.user
         IN  \/ o = Fails(NoAuth)
             \/ \E s \in SSHSources : o = Outcome(s, user) \/ o = Fails(Outcome(s, None))
<1> DEFINE user  == IF ep.user = None THEN "git" ELSE ep.user
           there == {k \in DOMAIN env.identities : env.identities[k] # None}
           o     == ResolveSSHAuth(env, ep)
<1>1. \/ o = Fails(NoAuth)
      \/ o = Outcome("agent", user)
      \/ o = IF env.key = "good" THEN Outcome("key", user) ELSE Fails(Outcome("key", None))
      \/ o = IF env.identities[Min(there)] = "good" THEN Outcome("identity", user)
             ELSE Fails(Outcome("identity", None))
  BY DEF ResolveSSHAuth
<1> HIDE DEF user, there, o
<1>2. QED
  BY <1>1 DEF SSHSources, o, user

Anonymous(o) == [o EXCEPT !.user = None]

LEMMA SSHAlike ==
  ASSUME NEW env, NEW u, NEW v
  PROVE  Anonymous(ResolveSSHAuth(env, u)) = Anonymous(ResolveSSHAuth(env, v))
<1> DEFINE user(ep) == IF ep.user = None THEN "git" ELSE ep.user
           there == {k \in DOMAIN env.identities : env.identities[k] # None}
           first == env.identities[Min(there)]
           Gets(ep) == ResolveSSHAuth(env, ep)
<1>1. \A x, y, s : Anonymous(Outcome(s, x)) = Anonymous(Outcome(s, y))
  <2>1. ASSUME NEW s, NEW x
        PROVE  Anonymous(Outcome(s, x)) =
                 [source |-> s, user |-> None, err |-> FALSE, withheld |-> FALSE]
    <3>1. PICK no : no = FALSE
      OBVIOUS
    <3>2. Outcome(s, x) = [source |-> s, user |-> x, err |-> no, withheld |-> no]
      BY <3>1 DEF Outcome
    <3>3. Anonymous([source |-> s, user |-> x, err |-> no, withheld |-> no]) =
            [source |-> s, user |-> None, err |-> no, withheld |-> no]
      BY DEF Anonymous
    <3>4. QED
      BY <3>1, <3>2, <3>3
  <2> HIDE DEF Anonymous, Outcome
  <2>2. QED
    BY <2>1
<1>2. ASSUME NEW ep
      PROVE  Gets(ep) = IF env.files = "bad" \/ (env.files = None /\ ~env.accept)
                         THEN Fails(NoAuth)
                         ELSE IF env.key # None
                         THEN IF env.key = "good" THEN Outcome("key", user(ep))
                              ELSE Fails(Outcome("key", None))
                         ELSE IF env.agent THEN Outcome("agent", user(ep))
                         ELSE IF there # {}
                         THEN IF first = "good" THEN Outcome("identity", user(ep))
                              ELSE Fails(Outcome("identity", None))
                         ELSE Fails(NoAuth)
  BY DEF ResolveSSHAuth
<1> HIDE DEF user, there, first, Gets
<1>3. Anonymous(Gets(u)) = Anonymous(Gets(v))
  <2>1. CASE env.files = "bad" \/ (env.files = None /\ ~env.accept)
    BY <1>2, <2>1
  <2>2. CASE ~(env.files = "bad" \/ (env.files = None /\ ~env.accept)) /\ env.key # None
    BY <1>1, <1>2, <2>2
  <2>3. CASE ~(env.files = "bad" \/ (env.files = None /\ ~env.accept)) /\ ~(env.key # None)
    BY <1>1, <1>2, <2>3
  <2>4. QED
    BY <2>1, <2>2, <2>3
<1>4. QED
  BY <1>3 DEF Gets

LEMMA DirectAlike ==
  ASSUME NEW env, NEW u, NEW v, AuthMapKey(u) = AuthMapKey(v)
  PROVE  /\ u.family = v.family /\ u.host = v.host
         /\ Anonymous(Direct(env, u)) = Anonymous(Direct(env, v))
<1>1. u.family = v.family /\ u.host = v.host
  BY DEF AuthMapKey
<1>2. ResolveHTTPAuth(env, u) = ResolveHTTPAuth(env, v)
  BY <1>1 DEF ResolveHTTPAuth
<1>3. QED
  BY <1>1, <1>2, SSHAlike DEF Direct

LEMMA MinIs ==
  ASSUME NEW S \in SUBSET Nat, S # {}
  PROVE  Min(S) \in S
BY Least DEF Min

(* A login is of a stanza of the host, unless a default one may be used.   *)
LEMMA LoginIs ==
  ASSUME NEW netrc, NEW host, NEW n \in Nat, DOMAIN Stanzas(netrc) = 1..n,
         NEW allowDefault \in BOOLEAN,
         NetrcLogin(netrc, host, allowDefault) # None, ~allowDefault
  PROVE  \E k \in DOMAIN Stanzas(netrc) :
           /\ Stanzas(netrc)[k].machine = host
           /\ Stanzas(netrc)[k].login = NetrcLogin(netrc, host, allowDefault)
<1> DEFINE st  == Stanzas(netrc)
           own == {k \in {j \in DOMAIN st : st[j].login # None /\ st[j].password # None} :
                     st[k].machine = host}
<1>1. own # {} /\ NetrcLogin(netrc, host, allowDefault) = st[Min(own)].login
  BY DEF NetrcLogin
<1>2. own \in SUBSET Nat
  OBVIOUS
<1>3. Min(own) \in own
  <2> HIDE DEF own
  <2>1. QED
    BY <1>1, <1>2, MinIs
<1>4. QED
  BY <1>1, <1>3

LEMMA HTTPGets ==
  ASSUME NEW env, NEW ep, NEW n \in Nat, DOMAIN Stanzas(env.netrc) = 1..n,
         None \notin {"pair", "token", "netrc"}
  PROVE  LET o == ResolveHTTPAuth(env, ep) IN
           /\ o.source \in {"pair", "token", "netrc", None}
           /\ o.source \in {"pair", "token"} => ep.host \in env.allow
           /\ o.source = "netrc" /\ ep.host \notin env.allow /\ env.allow # {} =>
                /\ o.user # None
                /\ \E k \in DOMAIN Stanzas(env.netrc) :
                     /\ Stanzas(env.netrc)[k].machine = ep.host
                     /\ Stanzas(env.netrc)[k].login = o.user
<1> DEFINE o         == ResolveHTTPAuth(env, ep)
           may       == env.allow = {} \/ ep.host \in env.allow
           login     == NetrcLogin(env.netrc, ep.host, may)
<1>1. \/ o = Outcome("pair", None) /\ ep.host \in env.allow
      \/ o = Outcome("token", None) /\ ep.host \in env.allow
      \/ o = Outcome("netrc", login) /\ login # None
      \/ o = [NoAuth EXCEPT !.withheld = env.pair \/ env.token]
  BY DEF ResolveHTTPAuth, CredentialHostAllowed
<1>2. /\ \A x : Outcome("pair", x).source = "pair" /\ Outcome("token", x).source = "token"
      /\ \A x : Outcome("netrc", x).source = "netrc" /\ Outcome("netrc", x).user = x
      /\ [NoAuth EXCEPT !.withheld = env.pair \/ env.token].source = None
  BY DEF Outcome, NoAuth
<1>3. may \in BOOLEAN
  OBVIOUS
<1>4. ASSUME login # None, ~may
      PROVE  \E k \in DOMAIN Stanzas(env.netrc) :
               /\ Stanzas(env.netrc)[k].machine = ep.host
               /\ Stanzas(env.netrc)[k].login = login
  <2> HIDE DEF may
  <2>1. QED
    BY <1>3, <1>4, LoginIs
<1> HIDE DEF o, login, may
<1>5. \/ o.source = "pair" /\ ep.host \in env.allow
      \/ o.source = "token" /\ ep.host \in env.allow
      \/ o.source = "netrc" /\ o.user = login /\ login # None
      \/ o.source = None
  <2>1. CASE o = [NoAuth EXCEPT !.withheld = env.pair \/ env.token]
    BY <1>2, <2>1, Zenon
  <2>2. CASE o = Outcome("netrc", login) /\ login # None
    BY <1>2, <2>2, Zenon
  <2>3. CASE o = Outcome("pair", None) /\ ep.host \in env.allow
    BY <1>2, <2>3, Zenon
  <2>4. CASE o = Outcome("token", None) /\ ep.host \in env.allow
    BY <1>2, <2>4, Zenon
  <2>5. QED
    BY <1>1, <2>1, <2>2, <2>3, <2>4, Zenon
<1>6. ep.host \notin env.allow /\ env.allow # {} => ~may
  BY DEF may
<1>7. /\ o.source \in {"pair", "token", "netrc", None}
      /\ o.source \in {"pair", "token"} => ep.host \in env.allow
  BY <1>5
<1>8. ASSUME o.source = "netrc", ep.host \notin env.allow, env.allow # {}
      PROVE  /\ o.user # None
             /\ \E k \in DOMAIN Stanzas(env.netrc) :
                  /\ Stanzas(env.netrc)[k].machine = ep.host
                  /\ Stanzas(env.netrc)[k].login = o.user
  <2>1. o.user = login /\ login # None
    BY <1>5, <1>8
  <2>2. QED
    BY <1>4, <1>6, <1>8, <2>1
<1>9. QED
  BY <1>7, <1>8 DEF o

-----------------------------------------------------------------------------
(* ~/.netrc: whose login a stanza holds.                                   *)
Kinds  == {"machine", "default", "login", "password"}
Own    == {"login", "password"}
Words  == Kinds \X Names
Texts  == Names \cup {None}
Stanza == [machine : Texts, login : Texts, password : Texts]

LEMMA WordOpens ==
  ASSUME NEW st \in Seq(Stanza), NEW w \in Words, w[1] \notin Own
  PROVE  \E x \in Stanza :
           /\ Word(st, w) = Append(st, x) /\ x.login = None
           /\ x.machine # None => w = <<"machine", x.machine>>
<1>1. w = <<w[1], w[2]>> /\ w[2] \in Texts /\ None \in Texts /\ w[1] \in Kinds
  BY DEF Words, Texts
<1>2. CASE w[1] = "machine"
  <2> DEFINE x == [machine |-> w[2], login |-> None, password |-> None]
  <2>1. x \in Stanza /\ x.login = None /\ x.machine = w[2]
    BY <1>1 DEF Stanza
  <2>2. Word(st, w) = Append(st, x)
    BY <1>2 DEF Word
  <2> HIDE DEF x
  <2>3. QED
    BY <1>1, <1>2, <2>1, <2>2
<1>3. CASE w[1] = "default"
  <2> DEFINE x == [machine |-> None, login |-> None, password |-> None]
  <2>1. x \in Stanza /\ x.login = None /\ x.machine = None
    BY <1>1 DEF Stanza
  <2>2. Word(st, w) = Append(st, x)
    BY <1>3 DEF Word
  <2> HIDE DEF x
  <2>3. QED
    BY <2>1, <2>2
<1>4. QED
  BY <1>1, <1>2, <1>3 DEF Kinds, Own

LEMMA WordFills ==
  ASSUME NEW st \in Seq(Stanza), NEW w \in Words, w[1] \in Own, st # <<>>
  PROVE  \E x \in Stanza :
           /\ Word(st, w) = [st EXCEPT ![Len(st)] = x]
           /\ x.machine = st[Len(st)].machine
           /\ x.login = st[Len(st)].login \/ w = <<"login", x.login>>
<1> DEFINE old == st[Len(st)]
<1>1. w = <<w[1], w[2]>> /\ w[2] \in Texts
  BY DEF Words, Texts
<1>2. old \in Stanza /\ Len(st) \in DOMAIN st
  OBVIOUS
<1>3. Word(st, w) = [st EXCEPT ![Len(st)][w[1]] = w[2]]
  BY DEF Word, Own
<1>4. CASE w[1] = "login"
  <2> DEFINE x == [machine |-> old.machine, login |-> w[2], password |-> old.password]
  <2>1. x \in Stanza /\ x.login = w[2] /\ x.machine = old.machine
    BY <1>1, <1>2 DEF Stanza
  <2>2. [old EXCEPT !["login"] = w[2]] = x
    <3> HIDE DEF old
    <3>1. PICK a, b, c : old = [machine |-> a, login |-> b, password |-> c]
      BY <1>2 DEF Stanza
    <3>2. x = [machine |-> a, login |-> w[2], password |-> c]
      BY <3>1
    <3> HIDE DEF x
    <3>3. QED
      BY <3>1, <3>2
  <2>3. Word(st, w) = [st EXCEPT ![Len(st)] = [old EXCEPT !["login"] = w[2]]]
    BY <1>3, <1>4
  <2> HIDE DEF x
  <2>4. QED
    BY <1>1, <1>4, <2>1, <2>2, <2>3
<1>5. CASE w[1] = "password"
  <2> DEFINE x == [machine |-> old.machine, login |-> old.login, password |-> w[2]]
  <2>1. x \in Stanza /\ x.login = old.login /\ x.machine = old.machine
    BY <1>1, <1>2 DEF Stanza
  <2>2. [old EXCEPT !["password"] = w[2]] = x
    <3> HIDE DEF old
    <3>1. PICK a, b, c : old = [machine |-> a, login |-> b, password |-> c]
      BY <1>2 DEF Stanza
    <3>2. x = [machine |-> a, login |-> b, password |-> w[2]]
      BY <3>1
    <3> HIDE DEF x
    <3>3. QED
      BY <3>1, <3>2
  <2>3. Word(st, w) = [st EXCEPT ![Len(st)] = [old EXCEPT !["password"] = w[2]]]
    BY <1>3, <1>5
  <2> HIDE DEF x
  <2>4. QED
    BY <2>1, <2>2, <2>3
<1>6. QED
  BY <1>4, <1>5 DEF Own

LEMMA WordTyped ==
  ASSUME NEW st \in Seq(Stanza), NEW w \in Words
  PROVE  Word(st, w) \in Seq(Stanza)
<1>1. CASE w[1] \notin Own
  BY <1>1, WordOpens
<1>2. CASE w[1] \in Own /\ st # <<>>
  BY <1>2, WordFills
<1>3. CASE w[1] \in Own /\ st = <<>>
  BY <1>3 DEF Word, Own
<1>4. QED
  BY <1>1, <1>2, <1>3

ReadsAll(netrc, n, stage) ==
  /\ stage[0] = <<>>
  /\ \A m \in 0..(n - 1) : stage[m + 1] = Word(stage[m], netrc[m + 1])
  /\ Stanzas(netrc) = stage[n]

LEMMA NetrcStages ==
  ASSUME NEW n \in Nat, NEW netrc, DOMAIN netrc = 1..n, \A i \in 1..n : netrc[i] \in Words
  PROVE  \E stage \in [0..n -> Seq(Stanza)] : ReadsAll(netrc, n, stage)
<1> DEFINE B == Seq(Stanza)
           base == <<>>
           F == [i \in 1..n |-> [st \in B |-> Word(st, netrc[i])]]
           Equation(g) ==
             [s \in SUBSET (DOMAIN netrc) |->
                IF s = {} THEN base ELSE Word(g[s \ {Max(s)}], netrc[Max(s)])]
           it == CHOOSE g : g = Equation(g)
<1>1. \A i \in 1..n, b \in B : Word(b, netrc[i]) \in B /\ F[i][b] = Word(b, netrc[i])
  <2>1. \A i \in 1..n, b \in B : Word(b, netrc[i]) \in B
    BY WordTyped
  <2> HIDE DEF B
  <2>2. QED
    BY <2>1
<1>2. base \in B
  OBVIOUS
<1>3. Stanzas(netrc) = it[DOMAIN netrc]
  BY DEF Stanzas, FoldLeft, MapThenFoldSet
<1> HIDE DEF B, F, base
<1>4. Combines(F, n, B)
  BY <1>1 DEF Combines
<1>5. PICK g \in [SUBSET (1..n) -> B] : Folding(g, n, base, F)
  BY <1>2, <1>4, FoldExists
<1>6. \A s \in SUBSET (1..n) : s # {} => Max(s) \in 1..n /\ s \ {Max(s)} \in SUBSET (1..n)
  BY MaxIs
<1>7. g = Equation(g)
  BY <1>1, <1>5, <1>6 DEF Folding
<1>8. it = Equation(it)
  <2> HIDE DEF Equation
  <2>1. QED
    BY <1>7
<1>9. \A s \in SUBSET (1..n) :
        it[s] = IF s = {} THEN base ELSE Word(it[s \ {Max(s)}], netrc[Max(s)])
  <2> HIDE DEF it
  <2>1. QED
    BY <1>8
<1> HIDE DEF it
<1>10. Iterates(it, n, B, base, F)
  <2>1. it[{}] = base
    BY <1>9
  <2>2. ASSUME NEW s \in SUBSET (1..n), s # {}, it[s \ {Max(s)}] \in B
        PROVE  it[s] = F[Max(s)][it[s \ {Max(s)}]]
    <3>1. it[s] = Word(it[s \ {Max(s)}], netrc[Max(s)])
      BY <1>9, <2>2
    <3>2. QED
      BY <1>1, <1>6, <2>2, <3>1
  <2>3. QED
    BY <2>1, <2>2 DEF Iterates
<1>11. PICK stage \in [0..n -> B] : StagesOf(stage, n, base, F) /\ it[1..n] = stage[n]
  <2> HIDE DEF Equation
  <2>1. QED
    BY <1>2, <1>4, <1>10, Stages
<1>12. ASSUME NEW m \in 0..(n - 1) PROVE stage[m + 1] = Word(stage[m], netrc[m + 1])
  <2>1. m + 1 \in 1..n /\ stage[m] \in B
    OBVIOUS
  <2>2. QED
    BY <1>1, <1>11, <2>1 DEF StagesOf
<1>13. stage[0] = base
  BY <1>11 DEF StagesOf
<1>14. QED
  BY <1>3, <1>11, <1>12, <1>13 DEF B, base, ReadsAll

(* What holds after m words: the word that opened a stanza, its login after *)
(* that one, and nothing between them that opens another; the newest stanza *)
(* is the one still open.                                                   *)
Fills(netrc, i, j) == \A k \in (i + 1)..j : netrc[k][1] \in Own

HasLogin(netrc, w, m, login) ==
  \E l \in 1..m : w < l /\ netrc[l] = <<"login", login>> /\ Fills(netrc, w, l)

OpenedAt(netrc, m, w, x) ==
  /\ x.machine # None => netrc[w] = <<"machine", x.machine>>
  /\ x.login # None => HasLogin(netrc, w, m, x.login)

NetrcInv(netrc, m, st) ==
  /\ \A k \in 1..Len(st) : \E w \in 1..m : OpenedAt(netrc, m, w, st[k])
  /\ st # <<>> => \E w \in 1..m : OpenedAt(netrc, m, w, st[Len(st)]) /\ Fills(netrc, w, m)

LEMMA OpenedLonger ==
  ASSUME NEW netrc, NEW m \in Nat, NEW w \in 1..m, NEW x, OpenedAt(netrc, m, w, x)
  PROVE  OpenedAt(netrc, m + 1, w, x) /\ w \in 1..(m + 1)
<1>1. \A l \in 1..m : l \in 1..(m + 1)
  OBVIOUS
<1>2. QED
  BY <1>1 DEF OpenedAt, HasLogin

LEMMA NetrcMore ==
  ASSUME NEW n \in Nat, NEW netrc, DOMAIN netrc = 1..n, \A i \in 1..n : netrc[i] \in Words,
         NEW m \in 0..(n - 1), NEW st \in Seq(Stanza), NetrcInv(netrc, m, st)
  PROVE  NetrcInv(netrc, m + 1, Word(st, netrc[m + 1]))
<1> DEFINE word == netrc[m + 1]
           next == Word(st, word)
<1>1. m \in Nat /\ m + 1 \in 1..(m + 1) /\ m + 1 \in 1..n /\ word \in Words
  OBVIOUS
<1>2. Fills(netrc, m + 1, m + 1)
  BY DEF Fills
<1>3. \A k \in 1..Len(st) : \E w \in 1..(m + 1) : OpenedAt(netrc, m + 1, w, st[k])
  BY <1>1, OpenedLonger DEF NetrcInv
<1> HIDE DEF next
<1>4. CASE word[1] \notin Own
  <2>1. PICK x \in Stanza : /\ next = Append(st, x) /\ x.login = None
                            /\ x.machine # None => word = <<"machine", x.machine>>
    BY <1>1, <1>4, WordOpens DEF next
  <2>2. OpenedAt(netrc, m + 1, m + 1, x)
    BY <2>1 DEF OpenedAt
  <2>3. /\ Len(next) = Len(st) + 1 /\ next[Len(next)] = x /\ Len(st) \in Nat
        /\ \A k \in 1..Len(next) : k = Len(next) \/ (k \in 1..Len(st) /\ next[k] = st[k])
    BY <2>1
  <2>4. QED
    BY <1>1, <1>2, <1>3, <2>2, <2>3 DEF NetrcInv, next
<1>5. CASE word[1] \in Own /\ st = <<>>
  <2>1. next = <<>>
    BY <1>5 DEF Word, Own, next
  <2>2. QED
    BY <2>1 DEF NetrcInv, next
<1>6. CASE word[1] \in Own /\ st # <<>>
  <2>1. PICK x \in Stanza : /\ next = [st EXCEPT ![Len(st)] = x]
                            /\ x.machine = st[Len(st)].machine
                            /\ x.login = st[Len(st)].login \/ word = <<"login", x.login>>
    BY <1>1, <1>6, WordFills DEF next
  <2>2. /\ Len(next) = Len(st) /\ next[Len(next)] = x /\ next # <<>> /\ Len(st) \in Nat
        /\ \A k \in 1..Len(next) : k # Len(next) => next[k] = st[k]
    BY <1>6, <2>1
  <2>3. PICK w \in 1..m : OpenedAt(netrc, m, w, st[Len(st)]) /\ Fills(netrc, w, m)
    BY <1>6 DEF NetrcInv
  <2>4. Fills(netrc, w, m + 1) /\ w < m + 1 /\ w \in 1..(m + 1)
    <3>1. \A k \in (w + 1)..(m + 1) : k \in (w + 1)..m \/ k = m + 1
      BY <1>1
    <3>2. Fills(netrc, w, m + 1)
      BY <1>6, <2>3, <3>1 DEF Fills
    <3>3. w < m + 1 /\ w \in 1..(m + 1)
      BY <1>1
    <3>4. QED
      BY <3>2, <3>3
  <2>5. OpenedAt(netrc, m + 1, w, st[Len(st)])
    BY <1>1, <2>3, OpenedLonger
  <2>6. OpenedAt(netrc, m + 1, w, x)
    <3>1. CASE x.login = st[Len(st)].login
      BY <2>1, <2>5, <3>1 DEF OpenedAt
    <3>2. CASE word = <<"login", x.login>>
      <4>1. HasLogin(netrc, w, m + 1, x.login)
        BY <1>1, <2>4, <3>2 DEF HasLogin
      <4>2. QED
        BY <2>1, <2>5, <4>1 DEF OpenedAt
    <3>3. QED
      BY <2>1, <3>1, <3>2
  <2>7. \A k \in 1..Len(next) : \E v \in 1..(m + 1) : OpenedAt(netrc, m + 1, v, next[k])
    BY <1>3, <2>2, <2>4, <2>6
  <2>8. QED
    BY <2>2, <2>4, <2>6, <2>7 DEF NetrcInv, next
<1>7. QED
  BY <1>4, <1>5, <1>6

LEMMA LoginsAreOwn ==
  ASSUME NEW n \in Nat, NEW netrc, DOMAIN netrc = 1..n, \A i \in 1..n : netrc[i] \in Words
  PROVE  /\ DOMAIN Stanzas(netrc) = 1..Len(Stanzas(netrc)) /\ Len(Stanzas(netrc)) \in Nat
         /\ \A k \in DOMAIN Stanzas(netrc) :
              LET x == Stanzas(netrc)[k]
              IN  x.machine # None /\ x.login # None => OwnLogin(netrc, x.machine, x.login)
<1>1. PICK stage \in [0..n -> Seq(Stanza)] : ReadsAll(netrc, n, stage)
  BY NetrcStages
<1> DEFINE S == {m \in 0..n : NetrcInv(netrc, m, stage[m])}
<1>2. 0 \in S
  BY <1>1 DEF NetrcInv, ReadsAll
<1>3. ASSUME NEW m \in 0..(n - 1), m \in S PROVE m + 1 \in S
  <2>1. NetrcInv(netrc, m, stage[m]) /\ m + 1 \in 0..n /\ stage[m] \in Seq(Stanza)
    BY <1>3
  <2>2. NetrcInv(netrc, m + 1, stage[m + 1])
    BY <1>1, <2>1, NetrcMore DEF ReadsAll
  <2>3. QED
    BY <2>1, <2>2
<1>4. n \in S
  <2> HIDE DEF S
  <2>1. 0 \in S /\ \A m \in 0..(n - 1) : m \in S => m + 1 \in S
    BY <1>2, <1>3
  <2>2. \A m \in 0..n : m \in S
    BY ONLY n \in Nat, <2>1, UpTo
  <2>3. n \in 0..n
    OBVIOUS
  <2>4. QED
    BY <2>2, <2>3
<1> DEFINE st == Stanzas(netrc)
<1>5. NetrcInv(netrc, n, st) /\ st \in Seq(Stanza)
  <2>1. n \in 0..n
    OBVIOUS
  <2>2. QED
    BY <1>1, <1>4, <2>1 DEF ReadsAll
<1> HIDE DEF st
<1>6. DOMAIN st = 1..Len(st) /\ Len(st) \in Nat
  BY <1>5
<1>7. ASSUME NEW k \in DOMAIN st, st[k].machine # None, st[k].login # None
      PROVE  OwnLogin(netrc, st[k].machine, st[k].login)
  <2>1. PICK w \in 1..n : OpenedAt(netrc, n, w, st[k])
    BY <1>5, <1>6 DEF NetrcInv
  <2>2. netrc[w] = <<"machine", st[k].machine>> /\ HasLogin(netrc, w, n, st[k].login)
    BY <1>7, <2>1 DEF OpenedAt
  <2>3. QED
    BY <2>2 DEF HasLogin, Fills, OwnLogin, Own
<1>8. QED
  BY <1>6, <1>7 DEF st

(* What CredentialsFit says of one answer, in terms of the endpoints.      *)
EndpointFits(env, eps, ep, o) ==
  /\ [o EXCEPT !.user = None] = [Resolve(env, <<ep>>)[1] EXCEPT !.user = None]
  /\ o.source \in SSHSources /\ ~o.err =>
       o.user \in {"git"} \cup {u.user : u \in {e \in ToSet(eps) : e.host = ep.host}}
  /\ o.source = "netrc" /\ ep.host \notin env.allow =>
       env.allow = {} \/ OwnLogin(env.netrc, ep.host, o.user)
  /\ o.source \in {"pair", "token"} => ep.host \in env.allow
  /\ o.source \in {"pair", "token", "netrc"} => ep.family \in {"http", "https"}

LEMMA DirectFits ==
  ASSUME NEW env, NEW n \in Nat, NEW eps, DOMAIN eps = 1..n, NEW j \in 1..n, NEW ep,
         ep.family = eps[j].family, ep.host = eps[j].host,
         env.netrc \in Seq(Words), ep.family \in Families, ep.family # "none" => ep.host # None,
         None \notin {"git", "pair", "token", "netrc", "key", "agent", "identity"}
  PROVE  LET o == Direct(env, eps[j]) IN
         /\ o.source \in SSHSources /\ ~o.err =>
              o.user \in {"git"} \cup {v.user : v \in {e \in ToSet(eps) : e.host = ep.host}}
         /\ o.source = "netrc" /\ ep.host \notin env.allow =>
              env.allow = {} \/ OwnLogin(env.netrc, ep.host, o.user)
         /\ o.source \in {"pair", "token"} => ep.host \in env.allow
         /\ o.source \in {"pair", "token", "netrc"} => ep.family \in {"http", "https"}
<1> DEFINE u == eps[j]
           o == Direct(env, u)
           netrc == env.netrc
<1>1. u.host = ep.host /\ u.family = ep.family
  OBVIOUS
<1>2. CASE ep.family \in {"http", "https"}
  <2>1. o = ResolveHTTPAuth(env, u)
    BY <1>1, <1>2 DEF Direct
  <2>2. /\ DOMAIN netrc = 1..Len(netrc) /\ Len(netrc) \in Nat
        /\ \A i \in 1..Len(netrc) : netrc[i] \in Words
    OBVIOUS
  <2> HIDE DEF netrc, o, u
  <2>3. /\ DOMAIN Stanzas(netrc) = 1..Len(Stanzas(netrc)) /\ Len(Stanzas(netrc)) \in Nat
        /\ \A k \in DOMAIN Stanzas(netrc) :
             Stanzas(netrc)[k].machine # None /\ Stanzas(netrc)[k].login # None
               => OwnLogin(netrc, Stanzas(netrc)[k].machine, Stanzas(netrc)[k].login)
    BY <2>2, LoginsAreOwn
  <2>4. /\ o.source \in {"pair", "token", "netrc", None}
        /\ o.source \in {"pair", "token"} => ep.host \in env.allow
        /\ o.source = "netrc" /\ ep.host \notin env.allow /\ env.allow # {} =>
             /\ o.user # None
             /\ \E k \in DOMAIN Stanzas(netrc) :
                  /\ Stanzas(netrc)[k].machine = ep.host
                  /\ Stanzas(netrc)[k].login = o.user
    BY <1>1, <2>1, <2>3, HTTPGets DEF netrc
  <2>5. ep.host # None
    BY <1>2
  <2>6. o.source \notin SSHSources
    BY <2>4 DEF SSHSources
  <2>7. QED
    BY <1>2, <2>3, <2>4, <2>5, <2>6 DEF o, u, netrc
<1>3. CASE ep.family = "ssh"
  <2> DEFINE user == IF u.user = None THEN "git" ELSE u.user
  <2>1. o = ResolveSSHAuth(env, u)
    BY <1>1, <1>3 DEF Direct
  <2> HIDE DEF o
  <2>2. \/ o = Fails(NoAuth)
        \/ \E s \in SSHSources : o = Outcome(s, user) \/ o = Fails(Outcome(s, None))
    BY <2>1, SSHGets
  <2>3. \/ o.source = None
        \/ o.source \in SSHSources /\ o.err = TRUE
        \/ o.source \in SSHSources /\ o.user = user
    <3>1. Fails(NoAuth).source = None
      BY DEF Fails, NoAuth, Outcome
    <3>2. ASSUME NEW s
          PROVE  /\ Outcome(s, user).source = s /\ Outcome(s, user).user = user
                 /\ Fails(Outcome(s, None)).source = s /\ Fails(Outcome(s, None)).err = TRUE
      BY DEF Fails, Outcome
    <3> HIDE DEF user
    <3>3. ASSUME NEW s \in SSHSources, o = Outcome(s, user) \/ o = Fails(Outcome(s, None))
          PROVE  o.source \in SSHSources /\ (o.err = TRUE \/ o.user = user)
      <4>1. CASE o = Outcome(s, user)
        BY <3>2, <4>1, Zenon
      <4>2. CASE o = Fails(Outcome(s, None))
        BY <3>2, <4>2, Zenon
      <4>3. QED
        BY <3>3, <4>1, <4>2
    <3>4. CASE o = Fails(NoAuth)
      BY <3>1, <3>4, Zenon
    <3>5. QED
      BY <2>2, <3>3, <3>4
  <2>4. user \in {"git"} \cup {v.user : v \in {e \in ToSet(eps) : e.host = ep.host}}
    <3>1. u \in {e \in ToSet(eps) : e.host = ep.host}
      BY <1>1 DEF ToSet
    <3>2. QED
      BY <3>1
  <2>5. o.source \notin {"pair", "token", "netrc"}
    BY <2>3 DEF SSHSources
  <2> HIDE DEF user
  <2>6. QED
    BY <2>3, <2>4, <2>5 DEF o, SSHSources
<1>4. CASE ep.family = "none"
  <2>1. o.source = None
    BY <1>1, <1>4 DEF Direct, NoAuth, Outcome
  <2> HIDE DEF o
  <2>2. QED
    BY <2>1 DEF SSHSources, o
<1>5. QED
  BY <1>2, <1>3, <1>4 DEF Families

LEMMA ResolvedFits ==
  ASSUME NEW env, NEW n \in Nat, NEW eps, DOMAIN eps = 1..n, NEW i \in 1..n,
         env.netrc \in Seq(Words),
         \A j \in 1..n : /\ eps[j].family # "none" => eps[j].host # None
                         /\ eps[j].family \in Families,
         None \notin {"git", "pair", "token", "netrc", "key", "agent", "identity"}
  PROVE  EndpointFits(env, eps, eps[i], Resolve(env, eps)[i])
<1> DEFINE ep == eps[i]
           o   == Resolve(env, eps)[i]
           alone == Resolve(env, <<ep>>)[1]
<1>1. PICK j \in 1..n : AuthMapKey(eps[j]) = AuthMapKey(ep) /\ o = Direct(env, eps[j])
  <2>1. From(env, eps, n, AuthMapKey(ep), o)
    BY ResolvedIs
  <2> HIDE DEF ep, o
  <2>2. QED
    BY <2>1 DEF From
<1>2. alone = Direct(env, ep)
  <2>1. DOMAIN <<ep>> = 1..1 /\ <<ep>>[1] = ep /\ 1 \in Nat /\ 1 \in 1..1
    OBVIOUS
  <2>2. From(env, <<ep>>, 1, AuthMapKey(<<ep>>[1]), Resolve(env, <<ep>>)[1])
    <3> HIDE DEF ep
    <3>1. QED
      BY <2>1, ResolvedIs
  <2>3. PICK k \in 1..1 : alone = Direct(env, <<ep>>[k])
    BY <2>2 DEF From
  <2>4. k = 1
    OBVIOUS
  <2>5. QED
    BY <2>1, <2>3, <2>4
<1> HIDE DEF o, alone
<1>3. /\ eps[j].family = ep.family /\ eps[j].host = ep.host
      /\ Anonymous(o) = Anonymous(alone)
  BY <1>1, <1>2, DirectAlike
<1>4. /\ o.source \in SSHSources /\ ~o.err =>
           o.user \in {"git"} \cup {v.user : v \in {e \in ToSet(eps) : e.host = ep.host}}
      /\ o.source = "netrc" /\ ep.host \notin env.allow =>
           env.allow = {} \/ OwnLogin(env.netrc, ep.host, o.user)
      /\ o.source \in {"pair", "token"} => ep.host \in env.allow
      /\ o.source \in {"pair", "token", "netrc"} => ep.family \in {"http", "https"}
  <2>1. ep.family \in Families /\ (ep.family # "none" => ep.host # None)
    OBVIOUS
  <2> HIDE DEF ep
  <2>2. QED
    BY <1>1, <1>3, <2>1, DirectFits
<1>5. QED
  BY <1>3, <1>4 DEF EndpointFits, Anonymous, o, alone

(* What the code makes of a URL: without an '@' in its path, the host and   *)
(* the family are those of the URL.                                        *)
LEMMA EndpointIs ==
  ASSUME NEW url, url.form \in Forms, url.form \notin {"file", "path"} => url.host # None
  PROVE  LET ep == ParseGitEndpoint(url) IN
         /\ ep.family \in Families
         /\ ep.family # "none" => ep.host # None
         /\ url.at = None /\ ep.family # "none" => ep.host = url.host
         /\ ep.family \in {"http", "https"} => url.form = ep.family
<1>1. Family(url.form) \in Families
  BY DEF Family, Families, Forms
<1>2. Family(url.form) # "none" => url.form \notin {"file", "path"}
  BY DEF Family, Forms
<1>3. Family(url.form) \in {"http", "https"} => url.form = Family(url.form)
  BY DEF Family, Forms
<1>4. CASE Family(url.form) = "none" \/ (url.form = "scp" /\ url.at # None)
  BY <1>4 DEF ParseGitEndpoint, Local, Families
<1>5. CASE ~(Family(url.form) = "none" \/ (url.form = "scp" /\ url.at # None))
  BY <1>1, <1>2, <1>3, <1>5 DEF ParseGitEndpoint
<1>6. QED
  BY <1>4, <1>5

(* One answer, of a process that is asked for urls.                        *)
LEMMA URLFits ==
  ASSUME NEW env, NEW n \in Nat, NEW urls, DOMAIN urls = 1..n, NEW i \in 1..n,
         env.netrc \in Seq(Words),
         \A j \in 1..n : /\ urls[j].form \notin {"file", "path"} => urls[j].host # None
                         /\ urls[j].form \in Forms,
         None \notin {"git", "pair", "token", "netrc", "key", "agent", "identity"}
  PROVE  LET url == urls[i]
             o   == ResolveAuth(env, urls)[i]
             eps == {ParseGitEndpoint(u) : u \in ToSet(urls)}
         IN  /\ [o EXCEPT !.user = None] = [ResolveAuth(env, <<url>>)[1] EXCEPT !.user = None]
             /\ o.source \in SSHSources /\ ~o.err =>
                  o.user \in {"git"} \cup {e.user : e \in {f \in eps : f.host = ParseGitEndpoint(url).host}}
             /\ url.at = None => StaysHome(env, url, o)
<1> DEFINE url == urls[i]
           eps == [j \in DOMAIN urls |-> ParseGitEndpoint(urls[j])]
           ep  == ParseGitEndpoint(url)
           o   == Resolve(env, eps)[i]
<1>1. DOMAIN eps = 1..n /\ eps[i] = ep
  OBVIOUS
<1>2. ASSUME NEW j \in 1..n
      PROVE  /\ eps[j].family # "none" => eps[j].host # None
             /\ eps[j].family \in Families
  <2>1. eps[j] = ParseGitEndpoint(urls[j])
    OBVIOUS
  <2> HIDE DEF eps
  <2>2. QED
    BY <2>1, EndpointIs
<1>3. EndpointFits(env, eps, eps[i], o)
  <2> HIDE DEF eps
  <2>1. QED
    BY <1>1, <1>2, ResolvedFits
<1>4. ResolveAuth(env, urls) = Resolve(env, eps)
  BY DEF ResolveAuth
<1>5. ResolveAuth(env, <<url>>) = Resolve(env, <<ep>>)
  <2> HIDE DEF url, ep
  <2>1. [j \in DOMAIN <<url>> |-> ParseGitEndpoint(<<url>>[j])] = <<ParseGitEndpoint(url)>>
    OBVIOUS
  <2>2. ep = ParseGitEndpoint(url)
    BY DEF ep
  <2>3. QED
    BY <2>1, <2>2 DEF ResolveAuth
<1>6. ToSet(eps) = {ParseGitEndpoint(u) : u \in ToSet(urls)}
  BY DEF ToSet
<1>7. ASSUME url.at = None PROVE StaysHome(env, url, o)
  <2>1. /\ ep.family \in Families
        /\ ep.family # "none" => ep.host = url.host
        /\ ep.family \in {"http", "https"} => url.form = ep.family
    <3> HIDE DEF ep
    <3>1. url.form \in Forms /\ (url.form \notin {"file", "path"} => url.host # None)
      OBVIOUS
    <3> HIDE DEF url
    <3>2. QED
      BY <1>7, <3>1, EndpointIs DEF ep
  <2> HIDE DEF ep, url, o, eps
  <2>2. o.source \in {"pair", "token", "netrc"} => ep.family \in {"http", "https"} /\ ep.host = url.host
    BY <1>1, <1>3, <2>1 DEF EndpointFits
  <2>3. QED
    BY <1>1, <1>3, <2>1, <2>2 DEF EndpointFits, StaysHome
<1> HIDE DEF eps, ep, o
<1>8. QED
  BY <1>1, <1>3, <1>4, <1>5, <1>6, <1>7 DEF EndpointFits, ep, o

(* Whatever the URLs of a process, their order and what is configured, each *)
(* gets what it would get on its own, and credentials only go to the hosts  *)
(* they are for, if no '@' in the path misleads parseURLGitEndpoint         *)
(* (resolvePerHost, resolveHTTPAuth, netrcCredentials); and a host never    *)
(* has two keys (hostKeyCallback).                                          *)
THEOREM PlainURLsFit == Spec => []CredentialsFit
<1>1. Answered => CredentialsFit
  <2> SUFFICES ASSUME Answered PROVE CredentialsFit
    OBVIOUS
  <2>1. ASSUME Done("credentials"), NEW i \in DOMAIN input.urls
        PROVE  LET url == input.urls[i]
                   o   == output[i]
                   eps == {ParseGitEndpoint(u) : u \in ToSet(input.urls)}
               IN  /\ [o EXCEPT !.user = None] = [ResolveAuth(input.env, <<url>>)[1] EXCEPT !.user = None]
                   /\ o.source \in SSHSources /\ ~o.err =>
                        o.user \in {"git"} \cup {e.user : e \in {f \in eps : f.host = ParseGitEndpoint(url).host}}
                   /\ url.at = None => StaysHome(input.env, url, o)
    <3> DEFINE env  == input.env
               urls == input.urls
               URL  == [form : Forms, user : Names, host : Names, port : Nat, at : Names]
    <3>1. input \in Fetches /\ output = ResolveAuth(env, urls)
      BY <2>1 DEF Answered, Done, Inputs
    <3>2. /\ env.netrc \in Seq(Words)
          /\ urls \in Seq(URL)
          /\ \A u \in ToSet(urls) : u.form \notin {"file", "path"} => u.host # None
          /\ None \notin {"git", "pair", "token", "netrc", "key", "agent", "identity"}
      BY <3>1, ConstantsAssumption DEF ConstantsAssumption, Words, Kinds
    <3> HIDE DEF URL
    <3>3. DOMAIN urls = 1..Len(urls) /\ Len(urls) \in Nat /\ i \in 1..Len(urls)
      BY <2>1, <3>2
    <3>4. ASSUME NEW j \in 1..Len(urls)
          PROVE  /\ urls[j].form \notin {"file", "path"} => urls[j].host # None
                 /\ urls[j].form \in Forms
      <4> HIDE DEF env, urls
      <4>1. urls[j] \in ToSet(urls)
        BY <3>3 DEF ToSet
      <4>2. urls[j] \in URL
        BY <3>2, <3>3
      <4>3. QED
        BY <3>2, <4>1, <4>2 DEF URL
    <3> HIDE DEF env, urls
    <3>5. QED
      <4>1. LET url == urls[i]
                o   == ResolveAuth(env, urls)[i]
                eps == {ParseGitEndpoint(u) : u \in ToSet(urls)}
            IN  /\ [o EXCEPT !.user = None] = [ResolveAuth(env, <<url>>)[1] EXCEPT !.user = None]
                /\ o.source \in SSHSources /\ ~o.err =>
                     o.user \in {"git"} \cup {e.user : e \in {f \in eps : f.host = ParseGitEndpoint(url).host}}
                /\ url.at = None => StaysHome(env, url, o)
        BY <3>2, <3>3, <3>4, URLFits
      <4>2. QED
        BY <3>1, <4>1 DEF env, urls
  <2>2. ASSUME Done("hostkeys"), NEW i \in DOMAIN input.shown, NEW j \in DOMAIN input.shown
        PROVE  /\ output[i] /\ output[j] /\ input.shown[i][1] = input.shown[j][1]
                    /\ input.shown[i] # input.shown[j]
                    => {input.shown[i], input.shown[j]} \subseteq input.env.knownHosts
               /\ output[i] => input.env.accept \/ input.shown[i] \in input.env.knownHosts
    <3>1. input \in Handshakes /\ output = HostKeys(input.env, input.shown)
      BY <2>2 DEF Answered, Done, Inputs
    <3>2. input.shown \in Seq(Names \X Names) /\ input.env.accept \in BOOLEAN
      BY <3>1, ConstantsAssumption DEF ConstantsAssumption
    <3>3. QED
      BY <3>1, <3>2, OneKeyPerHost
  <2>3. QED
    BY <2>1, <2>2 DEF CredentialsFit, SSHSources
<1>2. QED
  BY <1>1, AnsweredInit, AnsweredNext, PTL DEF Spec

(* groupIntoHunks, one operation.                                          *)
MoreGroups(ops, ctxLines, i, groups) ==
  IF ops[i].op = "e" THEN groups
  ELSE IF groups # <<>> /\ Close(Last(groups)[2], i, ctxLines)
  THEN [groups EXCEPT ![Len(groups)] = <<Last(groups)[1], i>>]
  ELSE Append(groups, <<i, i>>)

GroupsAlong(stage, n, ops, ctxLines) ==
  /\ stage[0] = <<>>
  /\ \A m \in 0..(n - 1) : stage[m + 1] = MoreGroups(ops, ctxLines, m + 1, stage[m])
  /\ Grouped(ops, ctxLines) = stage[n]

LEMMA GroupStages ==
  ASSUME NEW n \in Nat, NEW ops, DOMAIN ops = 1..n, NEW ctxLines \in Nat
  PROVE  \E stage : GroupsAlong(stage, n, ops, ctxLines)
<1> DEFINE places == [i \in DOMAIN ops |-> i]
           B == Seq(Nat \X Nat)
           F == [i \in 1..n |-> [g \in B |-> MoreGroups(ops, ctxLines, i, g)]]
           Equation(g) ==
             [s \in SUBSET (DOMAIN places) |->
                IF s = {} THEN <<>> ELSE MoreGroups(ops, ctxLines, places[Max(s)], g[s \ {Max(s)}])]
           it == CHOOSE g : g = Equation(g)
<1>1. DOMAIN places = 1..n /\ \A i \in 1..n : places[i] = i
  OBVIOUS
<1>2. \A i \in 1..n, g \in B : MoreGroups(ops, ctxLines, i, g) \in B
  <2> SUFFICES ASSUME NEW i \in 1..n, NEW g \in B PROVE MoreGroups(ops, ctxLines, i, g) \in B
    OBVIOUS
  <2>1. <<i, i>> \in Nat \X Nat /\ Append(g, <<i, i>>) \in B
    OBVIOUS
  <2>2. g # <<>> => [g EXCEPT ![Len(g)] = <<Last(g)[1], i>>] \in B
    <3> SUFFICES ASSUME g # <<>> PROVE [g EXCEPT ![Len(g)] = <<Last(g)[1], i>>] \in B
      OBVIOUS
    <3>1. Len(g) \in 1..Len(g) /\ g[Len(g)] \in Nat \X Nat
      OBVIOUS
    <3>2. <<Last(g)[1], i>> \in Nat \X Nat
      BY <3>1 DEF Last
    <3> DEFINE pair == <<Last(g)[1], i>>
    <3> HIDE DEF pair
    <3>3. [g EXCEPT ![Len(g)] = pair] \in B
      BY <3>2 DEF pair
    <3>4. QED
      BY <3>3 DEF pair
  <2>3. QED
    BY <2>1, <2>2 DEF MoreGroups
<1>3. <<>> \in B /\ Combines(F, n, B)
  <2>1. <<>> \in B
    OBVIOUS
  <2> HIDE DEF B
  <2>2. QED
    BY <1>2, <2>1 DEF Combines
<1>4. Grouped(ops, ctxLines) = it[DOMAIN places]
  BY DEF Grouped, FoldLeft, MapThenFoldSet, MoreGroups
<1>5. \A i \in 1..n, g \in B : F[i][g] = MoreGroups(ops, ctxLines, i, g)
  OBVIOUS
<1> HIDE DEF places, B, F
<1>6. PICK g \in [SUBSET (1..n) -> B] : Folding(g, n, <<>>, F)
  BY <1>3, FoldExists
<1>7. \A s \in SUBSET (1..n) : s # {} =>
        Max(s) \in 1..n /\ places[Max(s)] = Max(s) /\ s \ {Max(s)} \in SUBSET (1..n)
  BY <1>1, MaxIs
<1>8. g = Equation(g)
  BY <1>1, <1>5, <1>6, <1>7 DEF Folding
<1>9. it = Equation(it)
  <2> HIDE DEF Equation
  <2>1. QED
    BY <1>8
<1>10. \A s \in SUBSET (1..n) :
        it[s] = IF s = {} THEN <<>> ELSE MoreGroups(ops, ctxLines, places[Max(s)], it[s \ {Max(s)}])
  <2> HIDE DEF it
  <2>1. QED
    BY <1>1, <1>9
<1> HIDE DEF it
<1>11. Iterates(it, n, B, <<>>, F)
  <2>1. it[{}] = <<>>
    BY <1>10
  <2>2. ASSUME NEW s \in SUBSET (1..n), s # {}, it[s \ {Max(s)}] \in B
        PROVE  it[s] = F[Max(s)][it[s \ {Max(s)}]]
    <3>1. it[s] = MoreGroups(ops, ctxLines, Max(s), it[s \ {Max(s)}])
      BY <1>7, <1>10, <2>2
    <3>2. QED
      BY <1>5, <1>7, <2>2, <3>1
  <2>3. QED
    BY <2>1, <2>2 DEF Iterates
<1>12. PICK stage \in [0..n -> B] : StagesOf(stage, n, <<>>, F) /\ it[1..n] = stage[n]
  <2> HIDE DEF Equation
  <2>1. QED
    BY <1>3, <1>11, Stages
<1>13. ASSUME NEW m \in 0..(n - 1) PROVE stage[m + 1] = MoreGroups(ops, ctxLines, m + 1, stage[m])
  <2>1. m + 1 \in 1..n /\ stage[m] \in B
    OBVIOUS
  <2>2. QED
    BY <1>5, <1>12, <2>1 DEF StagesOf
<1>14. stage[0] = <<>>
  BY <1>12 DEF StagesOf
<1>15. GroupsAlong(stage, n, ops, ctxLines)
  BY <1>1, <1>4, <1>12, <1>13, <1>14 DEF GroupsAlong
<1>16. QED
  BY <1>15

(* What the groups are after the first m operations.                       *)
GroupsInv(ops, ctxLines, m, groups) ==
  /\ groups \in Seq(Nat \X Nat)
  /\ \A g \in DOMAIN groups :
       /\ 1 <= groups[g][1] /\ groups[g][1] <= groups[g][2] /\ groups[g][2] <= m
       /\ ops[groups[g][1]].op # "e" /\ ops[groups[g][2]].op # "e"
       /\ \A i \in groups[g][1]..groups[g][2] :
            \E j \in groups[g][1]..groups[g][2] :
              ops[j].op # "e" /\ j - i \in (-ctxLines)..ctxLines
  /\ \A g, h \in DOMAIN groups : g < h => groups[h][1] - groups[g][2] > 2 * ctxLines
  /\ \A j \in 1..m : ops[j].op # "e" =>
       \E g \in DOMAIN groups : j \in groups[g][1]..groups[g][2]

LEMMA Replaced ==
  ASSUME NEW S, NEW q \in Seq(S), NEW k \in 1..Len(q), NEW e \in S
  PROVE  LET r == [q EXCEPT ![k] = e] IN
         /\ r \in Seq(S) /\ DOMAIN r = 1..Len(q) /\ r[k] = e
         /\ \A x \in 1..Len(q) : x # k => r[x] = q[x]
OBVIOUS

LEMMA GroupsMore ==
  ASSUME NEW n \in Nat, NEW ops, NEW ctxLines \in Nat,
         NEW m \in 0..(n - 1), NEW groups, GroupsInv(ops, ctxLines, m, groups)
  PROVE  GroupsInv(ops, ctxLines, m + 1, MoreGroups(ops, ctxLines, m + 1, groups))
<1> DEFINE i == m + 1
           l == Len(groups)
           near(x, y) == x - y \in (-ctxLines)..ctxLines
<1>1. /\ m \in Nat /\ i \in Nat /\ groups \in Seq(Nat \X Nat) /\ DOMAIN groups = 1..l /\ l \in Nat
      /\ \A g \in DOMAIN groups : groups[g][1] \in Nat /\ groups[g][2] \in Nat
  BY DEF GroupsInv
<1>2. \A j \in 1..(m + 1) : j \in 1..m \/ j = i
  OBVIOUS
<1>3. CASE ops[i].op = "e"
  <2>1. MoreGroups(ops, ctxLines, m + 1, groups) = groups
    BY <1>3 DEF MoreGroups
  <2>2. \A g \in DOMAIN groups : groups[g][2] <= m + 1
    BY <1>1 DEF GroupsInv
  <2>3. \A j \in 1..(m + 1) : ops[j].op # "e" =>
          \E g \in DOMAIN groups : j \in groups[g][1]..groups[g][2]
    BY <1>2, <1>3 DEF GroupsInv
  <2>4. QED
    BY <2>1, <2>2, <2>3 DEF GroupsInv
<1>4. CASE ops[i].op # "e" /\ groups # <<>> /\ Close(groups[l][2], i, ctxLines)
  <2> DEFINE first == groups[l][1]
             end   == groups[l][2]
             more  == [groups EXCEPT ![l] = <<first, i>>]
  <2>1. MoreGroups(ops, ctxLines, m + 1, groups) = more
    BY <1>4 DEF MoreGroups, Last
  <2>2. /\ l \in DOMAIN groups /\ first \in Nat /\ end \in Nat
        /\ 1 <= first /\ first <= end /\ end <= m
        /\ i - end <= 2 * ctxLines
    <3>1. l \in DOMAIN groups
      <4>1. l # 0
        BY <1>1, <1>4
      <4>2. QED
        BY <1>1, <4>1
    <3>2. first \in Nat /\ end \in Nat /\ 1 <= first /\ first <= end /\ end <= m
      BY <1>1, <3>1 DEF GroupsInv
    <3>3. i - end <= 2 * ctxLines
      BY <1>4 DEF Close
    <3>4. QED
      BY <3>1, <3>2, <3>3
  <2>3. <<first, i>> \in Nat \X Nat /\ l \in 1..Len(groups)
    BY <1>1, <2>2
  <2>4. /\ more \in Seq(Nat \X Nat) /\ DOMAIN more = 1..l /\ more[l] = <<first, i>>
        /\ \A g \in 1..l : g # l => more[g] = groups[g]
    <3> DEFINE pair == <<first, i>>
    <3>1. pair \in Nat \X Nat /\ l \in 1..Len(groups) /\ groups \in Seq(Nat \X Nat)
      BY <1>1, <2>3
    <3> HIDE DEF pair, i
    <3> DEFINE r == [groups EXCEPT ![l] = pair]
    <3>2. /\ r \in Seq(Nat \X Nat) /\ DOMAIN r = 1..Len(groups) /\ r[l] = pair
          /\ \A x \in 1..Len(groups) : x # l => r[x] = groups[x]
      BY <3>1, Replaced
    <3>3. QED
      BY <3>2 DEF pair
  <2> HIDE DEF more
  <2>5. more[l][1] = first /\ more[l][2] = i
    BY <2>4
  <2>6. ASSUME NEW x \in first..i PROVE \E j \in first..i : ops[j].op # "e" /\ near(j, x)
    <3>1. CASE x \in first..end
      <4>1. PICK j \in first..end : ops[j].op # "e" /\ near(j, x)
        BY <2>2, <3>1 DEF GroupsInv
      <4>2. j \in first..i
        BY <2>2, <4>1, <1>1
      <4>3. QED
        BY <4>1, <4>2
    <3>2. CASE x > end /\ x - end <= ctxLines
      <4>1. ops[end].op # "e"
        BY <2>2 DEF GroupsInv
      <4>2. end \in first..i /\ near(end, x)
        BY <2>2, <3>2, <1>1
      <4>3. QED
        BY <4>1, <4>2
    <3>3. CASE x - end > ctxLines
      <4>1. near(i, x)
        BY <2>2, <3>3, <1>1
      <4>2. i \in first..i
        BY <2>2, <1>1
      <4>3. QED
        BY <1>4, <4>1, <4>2
    <3>4. QED
      BY <3>1, <3>2, <3>3, <2>2, <1>1
  <2>7. ASSUME NEW g \in DOMAIN more
        PROVE  /\ 1 <= more[g][1] /\ more[g][1] <= more[g][2] /\ more[g][2] <= m + 1
               /\ ops[more[g][1]].op # "e" /\ ops[more[g][2]].op # "e"
               /\ \A x \in more[g][1]..more[g][2] :
                    \E j \in more[g][1]..more[g][2] : ops[j].op # "e" /\ near(j, x)
    <3>1. CASE g = l
      <4>1. 1 <= first /\ first <= i /\ i <= m + 1
        BY <1>1, <2>2
      <4>2. ops[first].op # "e" /\ ops[i].op # "e"
        BY <1>4, <2>2 DEF GroupsInv
      <4> HIDE DEF near, first, i
      <4>3. QED
        BY <2>5, <2>6, <3>1, <4>1, <4>2
    <3>2. CASE g # l
      <4>1. g \in DOMAIN groups /\ more[g] = groups[g]
        BY <1>1, <2>4, <3>2
      <4>2. groups[g][2] <= m + 1
        BY <1>1, <4>1 DEF GroupsInv
      <4>3. QED
        BY <4>1, <4>2 DEF GroupsInv
    <3>3. QED
      BY <3>1, <3>2
  <2>8. ASSUME NEW g \in DOMAIN more, NEW h \in DOMAIN more, g < h
        PROVE  more[h][1] - more[g][2] > 2 * ctxLines
    <3>0. g \in 1..l /\ h \in 1..l
      BY <2>4
    <3>1. g \in DOMAIN groups /\ h \in DOMAIN groups /\ g # l
      <4> HIDE DEF l
      <4>1. QED
        BY <1>1, <2>8, <3>0
    <3>2. more[g] = groups[g] /\ more[h][1] = groups[h][1]
      BY <1>1, <2>4, <2>5, <3>1
    <3>3. groups[h][1] - groups[g][2] > 2 * ctxLines
      BY <2>8, <3>1 DEF GroupsInv
    <3>4. QED
      BY <3>2, <3>3
  <2>9. ASSUME NEW j \in 1..(m + 1), ops[j].op # "e"
        PROVE  \E g \in DOMAIN more : j \in more[g][1]..more[g][2]
    <3>1. CASE j = i
      <4>1. l \in DOMAIN more
        BY <1>1, <2>2, <2>4
      <4>2. j \in first..i
        BY <1>1, <2>2, <3>1
      <4>3. j \in more[l][1]..more[l][2]
        BY <2>5, <4>2
      <4>4. QED
        BY <4>1, <4>3
    <3>2. CASE j \in 1..m
      <4>1. PICK g \in DOMAIN groups : j \in groups[g][1]..groups[g][2]
        BY <2>9, <3>2 DEF GroupsInv
      <4>2. CASE g = l
        <5>1. j \in first..i
          BY <1>1, <2>2, <4>1, <4>2
        <5>2. QED
          BY <1>1, <2>4, <2>5, <4>2, <5>1
      <4>3. CASE g # l
        BY <1>1, <2>4, <4>1, <4>3
      <4>4. QED
        BY <4>2, <4>3
    <3>3. QED
      BY <1>2, <3>1, <3>2
  <2>10. QED
    BY <2>1, <2>4, <2>7, <2>8, <2>9 DEF GroupsInv
<1>5. CASE ops[i].op # "e" /\ ~(groups # <<>> /\ Close(groups[l][2], i, ctxLines))
  <2> DEFINE more == Append(groups, <<i, i>>)
  <2>1. MoreGroups(ops, ctxLines, m + 1, groups) = more
    BY <1>5 DEF MoreGroups, Last
  <2>2. <<i, i>> \in Nat \X Nat
    BY <1>1
  <2>3. /\ more \in Seq(Nat \X Nat) /\ DOMAIN more = 1..(l + 1) /\ more[l + 1] = <<i, i>>
        /\ \A g \in 1..l : more[g] = groups[g]
    <3> DEFINE pair == <<i, i>>
    <3> HIDE DEF pair
    <3>1. /\ Append(groups, pair) \in Seq(Nat \X Nat) /\ DOMAIN Append(groups, pair) = 1..(l + 1)
          /\ Append(groups, pair)[l + 1] = pair
          /\ \A g \in 1..l : Append(groups, pair)[g] = groups[g]
      BY <1>1, <2>2 DEF pair
    <3>2. QED
      BY <3>1 DEF pair
  <2> HIDE DEF more
  <2>4. more[l + 1][1] = i /\ more[l + 1][2] = i
    BY <2>3
  <2>5. ASSUME NEW g \in 1..l PROVE i - groups[g][2] > 2 * ctxLines
    <3>1. l \in DOMAIN groups /\ g \in DOMAIN groups /\ groups # <<>>
      BY <1>1, <2>5
    <3>2. i - groups[l][2] > 2 * ctxLines
      BY <1>1, <1>5, <3>1 DEF Close
    <3>3. CASE g = l
      BY <3>2, <3>3
    <3>4. CASE g < l
      <4>1. groups[l][1] - groups[g][2] > 2 * ctxLines /\ groups[l][1] <= groups[l][2]
        BY <3>1, <3>4 DEF GroupsInv
      <4>2. QED
        BY <1>1, <3>1, <3>2, <4>1
    <3>5. QED
      BY <1>1, <3>1, <3>3, <3>4
  <2>6. \A g \in DOMAIN more : g \in 1..l \/ g = l + 1
    BY <1>1, <2>3
  <2>7. ASSUME NEW g \in DOMAIN more
        PROVE  /\ 1 <= more[g][1] /\ more[g][1] <= more[g][2] /\ more[g][2] <= m + 1
               /\ ops[more[g][1]].op # "e" /\ ops[more[g][2]].op # "e"
               /\ \A x \in more[g][1]..more[g][2] :
                    \E j \in more[g][1]..more[g][2] : ops[j].op # "e" /\ near(j, x)
    <3>1. CASE g = l + 1
      <4>1. 1 <= i /\ i <= i /\ i <= m + 1 /\ \A x \in i..i : x = i /\ x \in i..i /\ near(x, x)
        BY <1>1
      <4> HIDE DEF near, i
      <4>3. QED
        BY <1>5, <2>4, <3>1, <4>1
    <3>2. CASE g \in 1..l
      <4>1. g \in DOMAIN groups /\ more[g] = groups[g]
        BY <1>1, <2>3, <3>2
      <4>2. groups[g][2] <= m + 1
        BY <1>1, <4>1 DEF GroupsInv
      <4>3. QED
        BY <4>1, <4>2 DEF GroupsInv
    <3>3. QED
      BY <2>6, <3>1, <3>2
  <2>8. ASSUME NEW g \in DOMAIN more, NEW h \in DOMAIN more, g < h
        PROVE  more[h][1] - more[g][2] > 2 * ctxLines
    <3>1. g \in 1..l
      BY <1>1, <2>3, <2>6, <2>8
    <3>2. CASE h = l + 1
      BY <2>3, <2>4, <2>5, <3>1, <3>2
    <3>3. CASE h \in 1..l
      BY <1>1, <2>3, <2>8, <3>1, <3>3 DEF GroupsInv
    <3>4. QED
      BY <2>6, <3>2, <3>3
  <2>9. ASSUME NEW j \in 1..(m + 1), ops[j].op # "e"
        PROVE  \E g \in DOMAIN more : j \in more[g][1]..more[g][2]
    <3>1. CASE j = i
      <4>1. l + 1 \in DOMAIN more /\ i \in i..i
        BY <1>1, <2>3
      <4>2. QED
        BY <2>4, <3>1, <4>1
    <3>2. CASE j \in 1..m
      <4>1. PICK g \in DOMAIN groups : j \in groups[g][1]..groups[g][2]
        BY <2>9, <3>2 DEF GroupsInv
      <4>2. g \in DOMAIN more /\ more[g] = groups[g]
        BY <1>1, <2>3, <4>1
      <4>3. QED
        BY <4>1, <4>2
    <3>3. QED
      BY <1>2, <3>1, <3>2
  <2>10. QED
    BY <2>1, <2>3, <2>7, <2>8, <2>9 DEF GroupsInv
<1>6. QED
  BY <1>3, <1>4, <1>5

LEMMA MaxOfTwo ==
  ASSUME NEW x \in Int, NEW y \in Int
  PROVE  Max({x, y}) = IF x >= y THEN x ELSE y
<1>1. \E z \in {x, y} : \A w \in {x, y} : z >= w
  OBVIOUS
<1>2. Max({x, y}) \in {x, y} /\ \A w \in {x, y} : Max({x, y}) >= w
  BY <1>1 DEF Max
<1>3. QED
  BY <1>2

LEMMA MinOfTwo ==
  ASSUME NEW x \in Int, NEW y \in Int
  PROVE  Min({x, y}) = IF x <= y THEN x ELSE y
<1>1. \E z \in {x, y} : \A w \in {x, y} : z <= w
  OBVIOUS
<1>2. Min({x, y}) \in {x, y} /\ \A w \in {x, y} : Min({x, y}) <= w
  BY <1>1 DEF Min
<1>3. QED
  BY <1>2

LEMMA GroupsAre ==
  ASSUME NEW n \in Nat, NEW ops, DOMAIN ops = 1..n, NEW ctxLines \in Nat
  PROVE  GroupsInv(ops, ctxLines, n, Grouped(ops, ctxLines))
<1>1. PICK stage : GroupsAlong(stage, n, ops, ctxLines)
  BY GroupStages
<1> DEFINE S == {m \in 0..n : GroupsInv(ops, ctxLines, m, stage[m])}
<1>2. 0 \in S
  <2>1. <<>> \in Seq(Nat \X Nat) /\ DOMAIN <<>> = {} /\ 1..0 = {} /\ 0 \in 0..n
    OBVIOUS
  <2>2. GroupsInv(ops, ctxLines, 0, <<>>)
    BY <2>1 DEF GroupsInv
  <2>3. QED
    BY <1>1, <2>1, <2>2 DEF GroupsAlong
<1>3. ASSUME NEW m \in 0..(n - 1), m \in S PROVE m + 1 \in S
  <2>1. m + 1 \in 0..n
    OBVIOUS
  <2>2. GroupsInv(ops, ctxLines, m + 1, stage[m + 1])
    BY <1>1, <1>3, GroupsMore DEF GroupsAlong
  <2>3. QED
    BY <2>1, <2>2
<1>4. \A m \in 0..n : m \in S
  <2> HIDE DEF S
  <2>1. QED
    BY <1>2, <1>3, UpTo
<1>5. n \in S
  <2>1. n \in 0..n
    OBVIOUS
  <2>2. QED
    BY <1>4, <2>1
<1>6. QED
  BY <1>1, <1>5 DEF GroupsAlong

(* The positions that hunk g shows.                                        *)
LEMMA HunkIs ==
  ASSUME NEW n \in Nat, NEW ops, DOMAIN ops = 1..n, Len(ops) = n, NEW ctxLines \in Nat,
         NEW first \in 1..n, NEW last \in 1..n, first <= last
  PROVE  LET hunk == Hunk(ops, first, last, ctxLines) IN
         /\ \A x, y \in DOMAIN hunk : hunk[x] - hunk[y] = x - y
         /\ ToSet(hunk) = {i \in 1..n : first - ctxLines <= i /\ i <= last + ctxLines}
<1> DEFINE start == Max({1, first - ctxLines})
           end   == Min({Len(ops), last + ctxLines})
           hunk  == [i \in 1..(end - start + 1) |-> start + i - 1]
<1>1. start \in Int /\ start = IF 1 >= first - ctxLines THEN 1 ELSE first - ctxLines
  BY MaxOfTwo
<1>2. end \in Int /\ end = IF n <= last + ctxLines THEN n ELSE last + ctxLines
  BY MinOfTwo
<1>3. Hunk(ops, first, last, ctxLines) = hunk
  BY DEF Hunk
<1> HIDE DEF start, end
<1>4. \A x \in DOMAIN hunk : x \in Int /\ hunk[x] = start + x - 1
  BY <1>1, <1>2
<1>5. DOMAIN hunk = 1..(end - start + 1)
  OBVIOUS
<1> HIDE DEF hunk
<1>6. ASSUME NEW i PROVE i \in ToSet(hunk) <=> i \in start..end
  <2>1. ASSUME i \in ToSet(hunk) PROVE i \in start..end
    <3>1. PICK x \in DOMAIN hunk : i = hunk[x]
      BY <2>1 DEF ToSet
    <3>2. QED
      BY <1>1, <1>2, <1>4, <1>5, <3>1
  <2>2. ASSUME i \in start..end PROVE i \in ToSet(hunk)
    <3>1. i - start + 1 \in 1..(end - start + 1)
      BY <1>1, <1>2, <2>2
    <3>2. hunk[i - start + 1] = start + (i - start + 1) - 1
      BY <1>4, <1>5, <3>1
    <3>3. start + (i - start + 1) - 1 = i
      BY <1>1, <1>2, <2>2
    <3>4. QED
      BY <1>5, <3>1, <3>2, <3>3 DEF ToSet
  <2>3. QED
    BY <2>1, <2>2
<1>7. \A i : i \in start..end <=> i \in 1..n /\ first - ctxLines <= i /\ i <= last + ctxLines
  BY <1>1, <1>2
<1>8. ToSet(hunk) = {i \in 1..n : first - ctxLines <= i /\ i <= last + ctxLines}
  BY <1>6, <1>7
<1>9. \A x, y \in DOMAIN hunk : hunk[x] - hunk[y] = x - y
  BY <1>1, <1>4
<1>10. QED
  BY <1>3, <1>8, <1>9

LEMMA HunksAre ==
  ASSUME NEW n \in Nat, NEW ops, DOMAIN ops = 1..n, Len(ops) = n, NEW ctxLines \in Nat
  PROVE  LET hunks == Hunks(ops, ctxLines) IN
         /\ \A h \in DOMAIN hunks : \A x, y \in DOMAIN hunks[h] : hunks[h][x] - hunks[h][y] = x - y
         /\ \A g, h \in DOMAIN hunks : g < h =>
              \A x \in ToSet(hunks[g]), y \in ToSet(hunks[h]) : x < y
         /\ UNION {ToSet(hunks[h]) : h \in DOMAIN hunks} =
              {i \in DOMAIN ops : \E j \in DOMAIN ops :
                 ops[j].op # "e" /\ j - i \in (-ctxLines)..ctxLines}
<1> DEFINE groups == Grouped(ops, ctxLines)
           hunks  == Hunks(ops, ctxLines)
           first(g) == groups[g][1]
           last(g)  == groups[g][2]
           near(j, i) == j - i \in (-ctxLines)..ctxLines
<1>1. GroupsInv(ops, ctxLines, n, groups)
  BY GroupsAre
<1>2. DOMAIN hunks = DOMAIN groups
      /\ \A h \in DOMAIN groups : hunks[h] = Hunk(ops, first(h), last(h), ctxLines)
  BY DEF Hunks
<1> HIDE DEF groups, hunks
<1>3. \A h \in DOMAIN groups : first(h) \in 1..n /\ last(h) \in 1..n /\ first(h) <= last(h)
  <2>1. groups \in Seq(Nat \X Nat)
    BY <1>1 DEF GroupsInv
  <2>2. ASSUME NEW h \in DOMAIN groups
        PROVE  first(h) \in 1..n /\ last(h) \in 1..n /\ first(h) <= last(h)
    <3>1. first(h) \in Nat /\ last(h) \in Nat
      BY <2>1
    <3>2. 1 <= first(h) /\ first(h) <= last(h) /\ last(h) <= n
      BY <1>1 DEF GroupsInv
    <3> HIDE DEF first, last
    <3>3. QED
      BY <3>1, <3>2
  <2>3. QED
    BY <2>2
<1> HIDE DEF first, last
<1>4. \A h \in DOMAIN hunks :
        /\ \A x, y \in DOMAIN hunks[h] : hunks[h][x] - hunks[h][y] = x - y
        /\ ToSet(hunks[h]) = {i \in 1..n : first(h) - ctxLines <= i /\ i <= last(h) + ctxLines}
  BY <1>2, <1>3, HunkIs
<1>5. ASSUME NEW g \in DOMAIN hunks, NEW h \in DOMAIN hunks, g < h,
             NEW x \in ToSet(hunks[g]), NEW y \in ToSet(hunks[h])
      PROVE  x < y
  <2>1. first(h) - last(g) > 2 * ctxLines
    BY <1>1, <1>2, <1>5 DEF GroupsInv, first, last
  <2>2. x \in 1..n /\ x <= last(g) + ctxLines
    BY <1>4
  <2>3. y \in 1..n /\ first(h) - ctxLines <= y
    BY <1>4
  <2>4. first(h) \in Int /\ last(g) \in Int
    BY <1>2, <1>3
  <2>5. QED
    BY <2>1, <2>2, <2>3, <2>4
<1>6. ASSUME NEW h \in DOMAIN hunks, NEW i \in ToSet(hunks[h])
      PROVE  \E j \in 1..n : ops[j].op # "e" /\ near(j, i)
  <2>1. /\ i \in 1..n /\ first(h) - ctxLines <= i /\ i <= last(h) + ctxLines
        /\ first(h) \in 1..n /\ last(h) \in 1..n
    BY <1>2, <1>3, <1>4
  <2>2. ops[first(h)].op # "e" /\ ops[last(h)].op # "e"
    BY <1>1, <1>2 DEF GroupsInv, first, last
  <2>3. CASE i < first(h)
    <3>1. near(first(h), i)
      BY <2>1, <2>3
    <3>2. QED
      BY <2>1, <2>2, <3>1
  <2>4. CASE i > last(h)
    <3>1. near(last(h), i)
      BY <2>1, <2>4
    <3>2. QED
      BY <2>1, <2>2, <3>1
  <2>5. CASE i \in first(h)..last(h)
    <3>1. PICK j \in first(h)..last(h) : ops[j].op # "e" /\ near(j, i)
      BY <1>1, <1>2, <2>5 DEF GroupsInv, first, last
    <3>2. j \in 1..n
      BY <2>1
    <3>3. QED
      BY <3>1, <3>2
  <2>6. QED
    BY <2>1, <2>3, <2>4, <2>5
<1>7. ASSUME NEW i \in 1..n, NEW j \in 1..n, ops[j].op # "e", near(j, i)
      PROVE  \E h \in DOMAIN hunks : i \in ToSet(hunks[h])
  <2>1. PICK h \in DOMAIN groups : j \in first(h)..last(h)
    BY <1>1, <1>7 DEF GroupsInv, first, last
  <2>2. first(h) \in 1..n /\ last(h) \in 1..n
    BY <1>3
  <2>3. first(h) - ctxLines <= i /\ i <= last(h) + ctxLines
    BY <1>7, <2>1, <2>2
  <2>4. QED
    BY <1>2, <1>4, <2>1, <2>3
<1> HIDE DEF near
<1>8. UNION {ToSet(hunks[h]) : h \in DOMAIN hunks}
        = {i \in 1..n : \E j \in 1..n : ops[j].op # "e" /\ near(j, i)}
  <2>1. \A h \in DOMAIN hunks : ToSet(hunks[h]) \subseteq 1..n
    BY <1>4
  <2>2. QED
    BY <1>6, <1>7, <2>1
<1>9. \A h \in DOMAIN hunks : \A x, y \in DOMAIN hunks[h] : hunks[h][x] - hunks[h][y] = x - y
  BY <1>4
<1>10. QED
  BY <1>5, <1>8, <1>9 DEF hunks, near

-----------------------------------------------------------------------------
(* Scripts: the lines of their operations.                                 *)
Operation == [op : {"e", "d", "i"}, line : Names]

LEMMA OperationsAre ==
  ASSUME NEW op \in {"e", "d", "i"}, NEW q \in Seq(Names)
  PROVE  /\ Ops(op, q) \in Seq(Operation) /\ Len(Ops(op, q)) = Len(q)
         /\ \A i \in 1..Len(q) : Ops(op, q)[i].op = op /\ Ops(op, q)[i].line = q[i]
<1>1. Len(q) \in Nat /\ DOMAIN q = 1..Len(q) /\ \A i \in 1..Len(q) : q[i] \in Names
  OBVIOUS
<1>2. \A i \in 1..Len(q) : [op |-> op, line |-> q[i]] \in Operation
  BY <1>1 DEF Operation
<1>3. Ops(op, q) = [i \in 1..Len(q) |-> [op |-> op, line |-> q[i]]]
  BY <1>1 DEF Ops, Op
<1> DEFINE T == Operation
<1> HIDE DEF T
<1>4. Ops(op, q) \in Seq(T) /\ Len(Ops(op, q)) = Len(q)
  BY <1>1, <1>2, <1>3 DEF T
<1>5. QED
  BY <1>3, <1>4 DEF T

MoreLines(ops, kinds, i, lines) ==
  IF ops[i].op \in kinds THEN Append(lines, ops[i].line) ELSE lines

LinesAlong(stage, n, ops, kinds) ==
  /\ stage[0] = <<>>
  /\ \A m \in 0..n : stage[m] \in Seq(Names)
  /\ \A m \in 0..(n - 1) : stage[m + 1] = MoreLines(ops, kinds, m + 1, stage[m])
  /\ LinesOf(ops, kinds) = stage[n]

LEMMA LinesStages ==
  ASSUME NEW n \in Nat, NEW ops, DOMAIN ops = 1..n, \A i \in 1..n : ops[i].line \in Names,
         NEW kinds
  PROVE  \E stage : LinesAlong(stage, n, ops, kinds)
<1> DEFINE places == [i \in DOMAIN ops |-> i]
           B == Seq(Names)
           F == [i \in 1..n |-> [g \in B |-> MoreLines(ops, kinds, i, g)]]
           Equation(g) ==
             [s \in SUBSET (DOMAIN places) |->
                IF s = {} THEN <<>> ELSE MoreLines(ops, kinds, places[Max(s)], g[s \ {Max(s)}])]
           it == CHOOSE g : g = Equation(g)
<1>1. DOMAIN places = 1..n /\ \A i \in 1..n : places[i] = i
  OBVIOUS
<1>2. \A i \in 1..n, g \in B : MoreLines(ops, kinds, i, g) \in B
  BY DEF MoreLines
<1>3. <<>> \in B /\ Combines(F, n, B)
  <2>1. <<>> \in B
    OBVIOUS
  <2> HIDE DEF B
  <2>2. QED
    BY <1>2, <2>1 DEF Combines
<1>4. LinesOf(ops, kinds) = it[DOMAIN places]
  BY DEF LinesOf, FoldLeft, MapThenFoldSet, MoreLines
<1>5. \A i \in 1..n, g \in B : F[i][g] = MoreLines(ops, kinds, i, g)
  OBVIOUS
<1> HIDE DEF places, B, F
<1>6. PICK g \in [SUBSET (1..n) -> B] : Folding(g, n, <<>>, F)
  BY <1>3, FoldExists
<1>7. \A s \in SUBSET (1..n) : s # {} =>
        Max(s) \in 1..n /\ places[Max(s)] = Max(s) /\ s \ {Max(s)} \in SUBSET (1..n)
  BY <1>1, MaxIs
<1>8. g = Equation(g)
  BY <1>1, <1>5, <1>6, <1>7 DEF Folding
<1>9. it = Equation(it)
  <2> HIDE DEF Equation
  <2>1. QED
    BY <1>8
<1>10. \A s \in SUBSET (1..n) :
        it[s] = IF s = {} THEN <<>> ELSE MoreLines(ops, kinds, places[Max(s)], it[s \ {Max(s)}])
  <2> HIDE DEF it
  <2>1. QED
    BY <1>1, <1>9
<1> HIDE DEF it
<1>11. Iterates(it, n, B, <<>>, F)
  <2>1. it[{}] = <<>>
    BY <1>10
  <2>2. ASSUME NEW s \in SUBSET (1..n), s # {}, it[s \ {Max(s)}] \in B
        PROVE  it[s] = F[Max(s)][it[s \ {Max(s)}]]
    <3>1. it[s] = MoreLines(ops, kinds, Max(s), it[s \ {Max(s)}])
      BY <1>7, <1>10, <2>2
    <3>2. QED
      BY <1>5, <1>7, <2>2, <3>1
  <2>3. QED
    BY <2>1, <2>2 DEF Iterates
<1>12. PICK stage \in [0..n -> B] : StagesOf(stage, n, <<>>, F) /\ it[1..n] = stage[n]
  <2> HIDE DEF Equation
  <2>1. QED
    BY <1>3, <1>11, Stages
<1>13. ASSUME NEW m \in 0..(n - 1) PROVE stage[m + 1] = MoreLines(ops, kinds, m + 1, stage[m])
  <2>1. m + 1 \in 1..n /\ stage[m] \in B
    OBVIOUS
  <2>2. QED
    BY <1>5, <1>12, <2>1 DEF StagesOf
<1>14. stage[0] = <<>>
  BY <1>12 DEF StagesOf
<1>15. \A m \in 0..n : stage[m] \in Seq(Names)
  BY DEF B
<1>16. LinesAlong(stage, n, ops, kinds)
  BY <1>1, <1>4, <1>12, <1>13, <1>14, <1>15 DEF LinesAlong
<1>17. QED
  BY <1>16

LEMMA AppendJoined ==
  \A u, v \in Seq(Names), e \in Names : Append(u \o v, e) = u \o Append(v, e)
OBVIOUS

(* st is the p operations of s, then the q of t.                           *)
Glued(st, s, t, p, q) ==
  /\ p \in Nat /\ q \in Nat
  /\ DOMAIN s = 1..p /\ DOMAIN t = 1..q /\ DOMAIN st = 1..(p + q)
  /\ \A i \in 1..p : st[i] = s[i] /\ s[i].line \in Names
  /\ \A i \in 1..q : st[p + i] = t[i] /\ t[i].line \in Names

LEMMA LinesGlued ==
  ASSUME NEW kinds, NEW p, NEW q, NEW s, NEW t, NEW st, Glued(st, s, t, p, q)
  PROVE  /\ LinesOf(s, kinds) \in Seq(Names)
         /\ LinesOf(st, kinds) = LinesOf(s, kinds) \o LinesOf(t, kinds)
<1> DEFINE r == p + q
<1>1. /\ p \in Nat /\ q \in Nat /\ DOMAIN s = 1..p /\ DOMAIN t = 1..q /\ DOMAIN st = 1..(p + q)
      /\ \A i \in 1..p : st[i] = s[i] /\ s[i].line \in Names
      /\ \A i \in 1..q : st[p + i] = t[i] /\ t[i].line \in Names
  BY DEF Glued
<1>0. r \in Nat /\ r = p + q
  BY <1>1
<1> HIDE DEF r
<1>2. \A i \in 1..(p + q) : st[i].line \in Names
  <2>1. ASSUME NEW i \in 1..(p + q), i > p PROVE st[i].line \in Names
    <3>1. i - p \in 1..q /\ p + (i - p) = i
      BY <1>1, <2>1
    <3>2. st[p + (i - p)].line \in Names
      BY <1>1, <3>1
    <3>3. QED
      BY <3>1, <3>2
  <2>2. QED
    BY <1>1, <2>1
<1>3. PICK u : LinesAlong(u, p, s, kinds)
  BY <1>1, LinesStages
<1>4. PICK v : LinesAlong(v, q, t, kinds)
  BY <1>1, LinesStages
<1>5. PICK w : LinesAlong(w, r, st, kinds)
  <2>1. DOMAIN st = 1..r /\ \A i \in 1..r : st[i].line \in Names
    BY <1>0, <1>1, <1>2
  <2>2. QED
    BY <1>0, <2>1, LinesStages
<1>10. /\ \A m \in 0..(p - 1) : u[m + 1] = MoreLines(s, kinds, m + 1, u[m])
       /\ \A m \in 0..(q - 1) : v[m + 1] = MoreLines(t, kinds, m + 1, v[m])
       /\ \A m \in 0..(r - 1) : w[m + 1] = MoreLines(st, kinds, m + 1, w[m])
       /\ u[0] = <<>> /\ v[0] = <<>> /\ w[0] = <<>>
  <2>1. u[0] = <<>> /\ \A m \in 0..(p - 1) : u[m + 1] = MoreLines(s, kinds, m + 1, u[m])
    BY <1>3, Zenon DEF LinesAlong
  <2>2. v[0] = <<>> /\ \A m \in 0..(q - 1) : v[m + 1] = MoreLines(t, kinds, m + 1, v[m])
    BY <1>4, Zenon DEF LinesAlong
  <2>3. w[0] = <<>> /\ \A m \in 0..(r - 1) : w[m + 1] = MoreLines(st, kinds, m + 1, w[m])
    BY <1>5, Zenon DEF LinesAlong
  <2>4. QED
    BY <2>1, <2>2, <2>3
<1> DEFINE U == {m \in 0..p : w[m] = u[m]}
           V == {m \in 0..q : w[p + m] = u[p] \o v[m]}
<1>6. p \in U
  <2>1. 0 \in U
    BY <1>1, <1>10
  <2>2. ASSUME NEW m \in 0..(p - 1), m \in U PROVE m + 1 \in U
    <3>1. m \in 0..(r - 1) /\ m + 1 \in 1..p /\ m + 1 \in 0..p
      BY <1>0, <1>1
    <3>2. w[m + 1] = MoreLines(st, kinds, m + 1, u[m])
      BY <1>10, <2>2, <3>1
    <3>3. u[m + 1] = MoreLines(s, kinds, m + 1, u[m])
      BY <1>10
    <3>4. st[m + 1] = s[m + 1]
      BY <1>1, <3>1
    <3>5. QED
      BY <3>1, <3>2, <3>3, <3>4 DEF MoreLines
  <2>3. p \in 0..p
    BY <1>1
  <2> HIDE DEF U
  <2>4. QED
    BY <1>1, <2>1, <2>2, <2>3, UpTo
<1>7. q \in V
  <2>1. 0 \in V
    <3>1. v[0] = <<>> /\ u[p] \in Seq(Names) /\ p + 0 = p /\ 0 \in 0..q
      BY <1>1, <1>3, <1>4 DEF LinesAlong
    <3>2. u[p] \o <<>> = u[p]
      <4>1. PICK x \in Seq(Names) : x = u[p]
        BY <3>1
      <4>2. x \o <<>> = x
        OBVIOUS
      <4>3. QED
        BY <4>1, <4>2
    <3>3. w[p + 0] = u[p] \o v[0]
      BY <1>6, <3>1, <3>2
    <3>4. QED
      BY <3>1, <3>3
  <2>2. ASSUME NEW m \in 0..(q - 1), m \in V PROVE m + 1 \in V
    <3>1. /\ p + m \in 0..(r - 1) /\ (p + m) + 1 = p + (m + 1)
          /\ m + 1 \in 1..q /\ m + 1 \in 0..q /\ m \in 0..q /\ p \in 0..p
      BY <1>0, <1>1
    <3>2. w[p + (m + 1)] = MoreLines(st, kinds, p + (m + 1), w[p + m])
      <4>1. w[(p + m) + 1] = MoreLines(st, kinds, (p + m) + 1, w[p + m])
        BY <1>10, <3>1
      <4>2. QED
        BY <3>1, <4>1
    <3>3. v[m + 1] = MoreLines(t, kinds, m + 1, v[m])
      BY <1>10
    <3>4. st[p + (m + 1)] = t[m + 1] /\ t[m + 1].line \in Names
      BY <1>1, <3>1
    <3>5. u[p] \in Seq(Names) /\ v[m] \in Seq(Names)
      BY <1>3, <1>4, <3>1 DEF LinesAlong
    <3>6. Append(u[p] \o v[m], t[m + 1].line) = u[p] \o Append(v[m], t[m + 1].line)
      <4>1. PICK x \in Seq(Names), y \in Seq(Names), z \in Names :
              x = u[p] /\ y = v[m] /\ z = t[m + 1].line
        BY <3>4, <3>5
      <4>2. Append(x \o y, z) = x \o Append(y, z)
        BY AppendJoined
      <4>3. QED
        BY <4>1, <4>2
    <3>7. w[p + (m + 1)] = u[p] \o v[m + 1]
      BY <2>2, <3>2, <3>3, <3>4, <3>6 DEF MoreLines
    <3>8. QED
      BY <3>1, <3>7
  <2>3. q \in 0..q
    BY <1>1
  <2> HIDE DEF V
  <2>4. QED
    BY <1>1, <2>1, <2>2, <2>3, UpTo
<1>8. p \in 0..p
  BY <1>1
<1>9. QED
  BY <1>0, <1>3, <1>4, <1>5, <1>7, <1>8 DEF LinesAlong

LEMMA LinesJoined ==
  ASSUME NEW s \in Seq(Operation), NEW t \in Seq(Operation), NEW kinds
  PROVE  /\ LinesOf(s, kinds) \in Seq(Names)
         /\ LinesOf(s \o t, kinds) = LinesOf(s, kinds) \o LinesOf(t, kinds)
<1> DEFINE p  == Len(s)
           q  == Len(t)
           st == s \o t
           T  == Operation
<1>1. \A o \in T : o.line \in Names
  BY DEF Operation
<1> HIDE DEF T
<1>2. s \in Seq(T) /\ t \in Seq(T)
  BY DEF T
<1>3. /\ p \in Nat /\ q \in Nat /\ DOMAIN s = 1..p /\ DOMAIN t = 1..q
      /\ DOMAIN st = 1..(p + q)
      /\ \A i \in 1..p : st[i] = s[i] /\ s[i] \in T
      /\ \A i \in 1..q : st[p + i] = t[i] /\ t[i] \in T
  BY <1>2
<1>4. /\ \A i \in 1..p : st[i] = s[i] /\ s[i].line \in Names
      /\ \A i \in 1..q : st[p + i] = t[i] /\ t[i].line \in Names
  BY <1>1, <1>3
<1>5. Glued(st, s, t, p, q)
  BY <1>3, <1>4 DEF Glued
<1> HIDE DEF p, q, st
<1>6. LinesOf(s, kinds) \in Seq(Names)
          /\ LinesOf(st, kinds) = LinesOf(s, kinds) \o LinesOf(t, kinds)
  BY <1>5, LinesGlued
<1>7. QED
  BY <1>6 DEF st

LEMMA LinesOfOps ==
  ASSUME NEW op \in {"e", "d", "i"}, NEW q \in Seq(Names), NEW kinds
  PROVE  LinesOf(Ops(op, q), kinds) = IF op \in kinds THEN q ELSE <<>>
<1> DEFINE n == Len(q)
           ops == Ops(op, q)
<1>1. /\ n \in Nat /\ DOMAIN q = 1..n /\ DOMAIN ops = 1..n
      /\ \A i \in 1..n : ops[i].op = op /\ ops[i].line = q[i] /\ q[i] \in Names
  <2>1. n \in Nat /\ DOMAIN q = 1..n /\ \A i \in 1..n : q[i] \in Names
    OBVIOUS
  <2>2. DOMAIN ops = 1..n
    BY <2>1 DEF Ops
  <2>3. \A i \in 1..n : ops[i].op = op /\ ops[i].line = q[i]
    BY <2>1 DEF Ops, Op
  <2>4. QED
    BY <2>1, <2>2, <2>3
<1> HIDE DEF n, ops
<1>2. PICK u : LinesAlong(u, n, ops, kinds)
  BY <1>1, LinesStages
<1>3. CASE op \notin kinds
  <2> DEFINE U == {m \in 0..n : u[m] = <<>>}
  <2>1. 0 \in U
    BY <1>1, <1>2 DEF LinesAlong
  <2>2. ASSUME NEW m \in 0..(n - 1), m \in U PROVE m + 1 \in U
    <3>1. m + 1 \in 1..n /\ m + 1 \in 0..n
      BY <1>1
    <3>2. u[m + 1] = MoreLines(ops, kinds, m + 1, u[m])
      BY <1>2 DEF LinesAlong
    <3>3. QED
      BY <1>1, <1>3, <2>2, <3>1, <3>2 DEF MoreLines
  <2>3. n \in 0..n
    BY <1>1
  <2>4. n \in U
    <3> HIDE DEF U
    <3>1. QED
      BY <1>1, <2>1, <2>2, <2>3, UpTo
  <2>5. QED
    BY <1>2, <1>3, <2>4 DEF LinesAlong, ops
<1>4. CASE op \in kinds
  <2> DEFINE U == {m \in 0..n : u[m] \in Seq(Names) /\ Len(u[m]) = m
          /\ \A i \in 1..m : u[m][i] = q[i]}
  <2>1. 0 \in U
    <3>1. u[0] = <<>> /\ 0 \in 0..n /\ u[0] \in Seq(Names)
      BY <1>1, <1>2 DEF LinesAlong
    <3>2. Len(u[0]) = 0 /\ 1..0 = {}
      BY <3>1
    <3>3. QED
      BY <3>1, <3>2
  <2>2. ASSUME NEW m \in 0..(n - 1), m \in U PROVE m + 1 \in U
    <3>1. m + 1 \in 1..n /\ m + 1 \in 0..n /\ m \in Nat
      BY <1>1
    <3>2. u[m + 1] = MoreLines(ops, kinds, m + 1, u[m])
      BY <1>2 DEF LinesAlong
    <3>3. u[m + 1] = Append(u[m], q[m + 1]) /\ q[m + 1] \in Names
      BY <1>1, <1>4, <3>1, <3>2 DEF MoreLines
    <3>4. u[m] \in Seq(Names) /\ Len(u[m]) = m /\ \A i \in 1..m : u[m][i] = q[i]
      BY <2>2
    <3>5. Append(u[m], q[m + 1]) \in Seq(Names) /\ Len(Append(u[m], q[m + 1])) = m + 1
      BY <3>1, <3>3, <3>4
    <3>6. \A i \in 1..(m + 1) : Append(u[m], q[m + 1])[i] = q[i]
      BY <3>1, <3>4
    <3>7. QED
      BY <3>1, <3>3, <3>5, <3>6
  <2>3. n \in 0..n
    BY <1>1
  <2>4. n \in U
    <3> HIDE DEF U
    <3>1. QED
      BY <1>1, <2>1, <2>2, <2>3, UpTo
  <2>5. u[n] = q
    <3>1. u[n] \in Seq(Names) /\ Len(u[n]) = n /\ \A i \in 1..n : u[n][i] = q[i]
      BY <2>4
    <3>2. Len(q) = n
      BY DEF n
    <3> HIDE DEF U
    <3>3. QED
      BY <3>1, <3>2
  <2>6. QED
    BY <1>2, <1>4, <2>5 DEF LinesAlong, ops
<1>5. QED
  BY <1>3, <1>4

-----------------------------------------------------------------------------
(* The table of common lengths exists: rows filled up to the sum of their  *)
(* indices.                                                                *)
Cells(n, m) == (0..n) \X (0..m)

CellOf(a, b, g, i, j) ==
  IF i = 0 \/ j = 0 THEN 0
  ELSE IF a[i] = b[j] THEN g[<<i - 1, j - 1>>] + 1
  ELSE Max({g[<<i - 1, j>>], g[<<i, j - 1>>]})

FilledTo(a, b, n, m, s, g) ==
  /\ g \in [Cells(n, m) -> Nat]
  /\ \A i \in 0..n, j \in 0..m : i + j <= s => g[<<i, j>>] = CellOf(a, b, g, i, j)

KnownTo(n, m, s, g) == \A x \in 0..n, y \in 0..m : x + y <= s => g[<<x, y>>] \in Nat

AgreeTo(n, m, s, g, h) == \A x \in 0..n, y \in 0..m : x + y <= s => g[<<x, y>>] = h[<<x, y>>]

LEMMA CellTyped ==
  ASSUME NEW a, NEW b, NEW n \in Nat, NEW m \in Nat, NEW g, NEW s \in Int,
         NEW i \in 0..n, NEW j \in 0..m, i + j <= s + 1, KnownTo(n, m, s, g)
  PROVE  CellOf(a, b, g, i, j) \in Nat
<1>1. CASE i = 0 \/ j = 0
  BY <1>1 DEF CellOf
<1>2. CASE ~(i = 0 \/ j = 0)
  <2>1. i - 1 \in 0..n /\ j - 1 \in 0..m /\ (i - 1) + (j - 1) <= s /\ i + (j - 1) <= s
            /\ (i - 1) + j <= s
    BY <1>2
  <2>2. g[<<i - 1, j - 1>>] \in Nat /\ g[<<i - 1, j>>] \in Nat /\ g[<<i, j - 1>>] \in Nat
    BY <2>1 DEF KnownTo
  <2>3. Max({g[<<i - 1, j>>], g[<<i, j - 1>>]}) \in Nat
    BY <2>2, MaxOfTwo
  <2>4. QED
    BY <1>2, <2>2, <2>3 DEF CellOf
<1>3. QED
  BY <1>1, <1>2

LEMMA CellAlike ==
  ASSUME NEW a, NEW b, NEW n \in Nat, NEW m \in Nat, NEW g, NEW h, NEW s \in Nat,
         NEW i \in 0..n, NEW j \in 0..m, i + j <= s + 1, AgreeTo(n, m, s, g, h)
  PROVE  CellOf(a, b, g, i, j) = CellOf(a, b, h, i, j)
<1>1. CASE i = 0 \/ j = 0
  BY <1>1 DEF CellOf
<1>2. CASE ~(i = 0 \/ j = 0)
  <2>1. i - 1 \in 0..n /\ j - 1 \in 0..m /\ (i - 1) + (j - 1) <= s /\ i + (j - 1) <= s
            /\ (i - 1) + j <= s
    BY <1>2
  <2>2. /\ g[<<i - 1, j - 1>>] = h[<<i - 1, j - 1>>]
        /\ g[<<i - 1, j>>] = h[<<i - 1, j>>] /\ g[<<i, j - 1>>] = h[<<i, j - 1>>]
    BY <2>1 DEF AgreeTo
  <2>3. QED
    BY <1>2, <2>2 DEF CellOf
<1>3. QED
  BY <1>1, <1>2

LEMMA FillMore ==
  ASSUME NEW a, NEW b, NEW n \in Nat, NEW m \in Nat, NEW s \in Nat, NEW g,
         FilledTo(a, b, n, m, s, g)
  PROVE  \E h : FilledTo(a, b, n, m, s + 1, h)
<1> DEFINE h == [p \in Cells(n, m) |-> IF p[1] + p[2] <= s THEN g[p]
        ELSE CellOf(a, b, g, p[1], p[2])]
<1>1. g \in [Cells(n, m) -> Nat]
  BY DEF FilledTo
<1>2. \A i \in 0..n, j \in 0..m :
        /\ <<i, j>> \in Cells(n, m)
        /\ h[<<i, j>>] = IF i + j <= s THEN g[<<i, j>>] ELSE CellOf(a, b, g, i, j)
  BY DEF Cells
<1>3. h \in [Cells(n, m) -> Nat]
  <2>1. ASSUME NEW p \in Cells(n, m)
        PROVE  (IF p[1] + p[2] <= s THEN g[p] ELSE CellOf(a, b, g, p[1], p[2])) \in Nat
    <3>1. p[1] \in 0..n /\ p[2] \in 0..m
      BY DEF Cells
    <3>2. KnownTo(n, m, n + m, g)
      BY <1>1 DEF Cells, KnownTo
    <3>4. n + m \in Int /\ p[1] + p[2] <= (n + m) + 1
      BY <3>1
    <3>5. CellOf(a, b, g, p[1], p[2]) \in Nat
      BY <3>1, <3>2, <3>4, CellTyped
    <3>3. QED
      BY <1>1, <3>5
  <2>2. QED
    BY <2>1
<1> HIDE DEF h
<1>4. ASSUME NEW i \in 0..n, NEW j \in 0..m, i + j <= s + 1
      PROVE  h[<<i, j>>] = CellOf(a, b, h, i, j)
  <2>1. AgreeTo(n, m, s, g, h)
    BY <1>2 DEF AgreeTo
  <2>2. CellOf(a, b, g, i, j) = CellOf(a, b, h, i, j)
    BY <1>4, <2>1, CellAlike
  <2>3. CASE i + j <= s
    <3>1. g[<<i, j>>] = CellOf(a, b, g, i, j)
      BY <2>3 DEF FilledTo
    <3>2. QED
      BY <1>2, <2>2, <2>3, <3>1
  <2>4. CASE ~(i + j <= s)
    BY <1>2, <2>2, <2>4
  <2>5. QED
    BY <2>3, <2>4
<1>5. FilledTo(a, b, n, m, s + 1, h)
  BY <1>3, <1>4 DEF FilledTo
<1>6. QED
  BY <1>5

LEMMA FillExists ==
  ASSUME NEW a, NEW b, NEW n \in Nat, NEW m \in Nat
  PROVE  \E g : FilledTo(a, b, n, m, n + m, g)
<1> DEFINE S == {s \in 0..(n + m) : \E g : FilledTo(a, b, n, m, s, g)}
<1>1. 0 \in S
  <2> DEFINE g == [p \in Cells(n, m) |-> 0]
  <2>1. g \in [Cells(n, m) -> Nat]
    OBVIOUS
  <2>2. \A i \in 0..n, j \in 0..m : i + j <= 0 => i = 0 /\ g[<<i, j>>] = 0
    BY DEF Cells
  <2>3. FilledTo(a, b, n, m, 0, g)
    <3> HIDE DEF g
    <3>1. QED
      BY <2>1, <2>2 DEF FilledTo, CellOf
  <2>4. QED
    <3> HIDE DEF g
    <3>1. 0 \in 0..(n + m)
      OBVIOUS
    <3>2. QED
      BY <2>3, <3>1
<1>2. ASSUME NEW s \in 0..(n + m - 1), s \in S PROVE s + 1 \in S
  <2>1. s \in Nat /\ s + 1 \in 0..(n + m)
    OBVIOUS
  <2>2. QED
    BY <1>2, <2>1, FillMore
<1>3. n + m \in Nat /\ n + m \in 0..(n + m)
  OBVIOUS
<1>4. n + m \in S
  <2> DEFINE r == n + m
  <2>1. r \in Nat /\ r \in 0..r /\ 0 \in S /\ \A s \in 0..(r - 1) : s \in S => s + 1 \in S
    BY <1>1, <1>2, <1>3
  <2> HIDE DEF S, r
  <2>2. r \in S
    BY <2>1, UpTo
  <2>3. QED
    BY <2>2 DEF r
<1>5. QED
  BY <1>4

LEMMA TableIs ==
  ASSUME NEW a \in Seq(Names), NEW b \in Seq(Names)
  PROVE  \E g : /\ FilledTo(a, b, Len(a), Len(b), Len(a) + Len(b), g)
                /\ CommonLength(a, b) = g[<<Len(a), Len(b)>>]
<1> DEFINE n == Len(a)
           m == Len(b)
           Equation(g) ==
             [p \in (0..n) \X (0..m) |->
                IF p[1] = 0 \/ p[2] = 0 THEN 0
                ELSE IF a[p[1]] = b[p[2]] THEN g[<<p[1] - 1, p[2] - 1>>] + 1
                ELSE Max({g[<<p[1] - 1, p[2]>>], g[<<p[1], p[2] - 1>>]})]
           l == CHOOSE g : g = Equation(g)
<1>1. CommonLength(a, b) = l[<<n, m>>]
  BY DEF CommonLength
<1>2. n \in Nat /\ m \in Nat
  OBVIOUS
<1>3. PICK g : FilledTo(a, b, n, m, n + m, g)
  BY <1>2, FillExists
<1> HIDE DEF n, m
<1>4. \A h : \A p \in (0..n) \X (0..m) : Equation(h)[p] = CellOf(a, b, h, p[1], p[2])
  BY DEF CellOf
<1>5. \A h : DOMAIN Equation(h) = (0..n) \X (0..m)
          /\ Equation(h) = [p \in (0..n) \X (0..m) |-> Equation(h)[p]]
  OBVIOUS
<1>6. \A p \in (0..n) \X (0..m) : g[p] = CellOf(a, b, g, p[1], p[2])
  <2>1. ASSUME NEW p \in (0..n) \X (0..m) PROVE g[p] = CellOf(a, b, g, p[1], p[2])
    <3>1. p[1] \in 0..n /\ p[2] \in 0..m /\ p = <<p[1], p[2]>> /\ p[1] + p[2] <= n + m
      BY <1>2
    <3>2. g[<<p[1], p[2]>>] = CellOf(a, b, g, p[1], p[2])
      BY <1>3, <3>1 DEF FilledTo
    <3>3. QED
      BY <3>1, <3>2
  <2>2. QED
    BY <2>1
<1>7. g = [p \in (0..n) \X (0..m) |-> g[p]]
  BY <1>3 DEF FilledTo, Cells
<1>8. g = Equation(g)
  <2>1. \A p \in (0..n) \X (0..m) : g[p] = Equation(g)[p]
    BY <1>4, <1>6
  <2> HIDE DEF Equation
  <2>2. QED
    BY <1>5, <1>7, <2>1
<1>9. l = Equation(l)
  <2> HIDE DEF Equation
  <2>1. QED
    BY <1>8
<1> HIDE DEF l
<1>10. \A p \in (0..n) \X (0..m) : l[p] = CellOf(a, b, l, p[1], p[2])
  <2> HIDE DEF Equation
  <2>1. QED
    BY <1>4, <1>9
<1>11. \A i \in 0..n, j \in 0..m : l[<<i, j>>] = CellOf(a, b, l, i, j)
  BY <1>10
<1>12. l = [p \in (0..n) \X (0..m) |-> l[p]]
  <2> HIDE DEF Equation
  <2>1. QED
    BY <1>5, <1>9
<1> DEFINE S == {s \in 0..(n + m) : \A i \in 0..n, j \in 0..m : i + j <= s => l[<<i, j>>] \in Nat}
<1>13. l \in [Cells(n, m) -> Nat]
  <2>1. 0 \in S
    <3>1. \A i \in 0..n, j \in 0..m : i + j <= 0 => i = 0
      BY <1>2
    <3>2. \A i \in 0..n, j \in 0..m : i = 0 => l[<<i, j>>] = 0
      BY <1>11 DEF CellOf
    <3>3. QED
      BY <1>2, <3>1, <3>2
  <2>2. ASSUME NEW s \in 0..((n + m) - 1), s \in S PROVE s + 1 \in S
    <3>1. ASSUME NEW i \in 0..n, NEW j \in 0..m, i + j <= s + 1 PROVE l[<<i, j>>] \in Nat
      <4>1. KnownTo(n, m, s, l) /\ s \in Int
        BY <2>2 DEF KnownTo
      <4> HIDE DEF S, Equation
      <4>2. CellOf(a, b, l, i, j) \in Nat
        BY <1>2, <3>1, <4>1, CellTyped
      <4>3. QED
        BY <1>11, <4>2
    <3>2. s + 1 \in 0..(n + m)
      BY <1>2
    <3>3. QED
      BY <3>1, <3>2
  <2>3. n + m \in S
    <3> HIDE DEF S
    <3>1. n + m \in Nat /\ n + m \in 0..(n + m)
      BY <1>2
    <3>2. \A s \in 0..((n + m) - 1) : s \in S => s + 1 \in S
      BY <2>2
    <3> DEFINE r == n + m
    <3>3. r \in Nat /\ r \in 0..r /\ \A s \in 0..(r - 1) : s \in S => s + 1 \in S
      BY <3>1, <3>2
    <3> HIDE DEF r
    <3>4. r \in S
      BY <2>1, <3>3, UpTo
    <3>5. QED
      BY <3>4 DEF r
  <2>4. ASSUME NEW p \in (0..n) \X (0..m) PROVE l[p] \in Nat
    <3>1. p[1] \in 0..n /\ p[2] \in 0..m /\ p = <<p[1], p[2]>> /\ p[1] + p[2] <= n + m
      BY <1>2
    <3>2. l[<<p[1], p[2]>>] \in Nat
      BY <2>3, <3>1
    <3>3. QED
      BY <3>1, <3>2
  <2>5. QED
    BY <1>12, <2>4 DEF Cells
<1>14. FilledTo(a, b, n, m, n + m, l)
  BY <1>11, <1>13 DEF FilledTo
<1>15. QED
  BY <1>1, <1>14 DEF n, m

(* A cell from its neighbours; neighbouring cells differ by at most one.   *)
Larger(x, y) == IF x >= y THEN x ELSE y

Known(n, m, g)      == \A i \in 0..n, j \in 0..m : g[<<i, j>>] \in Nat
Borders(n, m, g)    == (\A i \in 0..n : g[<<i, 0>>] = 0) /\ (\A j \in 0..m : g[<<0, j>>] = 0)
Inner(a, b, g, i, j) ==
  g[<<i + 1, j + 1>>] = IF a[i + 1] = b[j + 1] THEN g[<<i, j>>] + 1
                        ELSE Larger(g[<<i, j + 1>>], g[<<i + 1, j>>])
Table(a, b, n, m, g) ==
  /\ n \in Nat /\ m \in Nat
  /\ Known(n, m, g) /\ Borders(n, m, g)
  /\ \A i \in 0..(n - 1), j \in 0..(m - 1) : Inner(a, b, g, i, j)

Wider(n, g, i, j)  == i < n => g[<<i, j>>] <= g[<<i + 1, j>>] /\ g[<<i + 1, j>>] <= g[<<i, j>>] + 1
Deeper(m, g, i, j) == j < m => g[<<i, j>>] <= g[<<i, j + 1>>] /\ g[<<i, j + 1>>] <= g[<<i, j>>] + 1
Smooth(n, m, g, s) ==
  \A i \in 0..n, j \in 0..m : i + j <= s => Wider(n, g, i, j) /\ Deeper(m, g, i, j)

LEMMA FilledIsTable ==
  ASSUME NEW a, NEW b, NEW n \in Nat, NEW m \in Nat, NEW g, FilledTo(a, b, n, m, n + m, g)
  PROVE  Table(a, b, n, m, g)
<1>1. g \in [Cells(n, m) -> Nat]
  BY DEF FilledTo
<1>2. Known(n, m, g)
  BY <1>1 DEF Cells, Known
<1>3. ASSUME NEW i \in 0..n, NEW j \in 0..m PROVE g[<<i, j>>] = CellOf(a, b, g, i, j)
  <2>1. i + j <= n + m
    OBVIOUS
  <2>2. QED
    BY <2>1 DEF FilledTo
<1>4. Borders(n, m, g)
  <2>1. 0 \in 0..n /\ 0 \in 0..m
    OBVIOUS
  <2>2. \A i, j : i = 0 \/ j = 0 => CellOf(a, b, g, i, j) = 0
    BY DEF CellOf
  <2>3. QED
    BY <1>3, <2>1, <2>2 DEF Borders
<1>5. ASSUME NEW i \in 0..(n - 1), NEW j \in 0..(m - 1) PROVE Inner(a, b, g, i, j)
  <2>1. i \in 0..n /\ j \in 0..m /\ i + 1 \in 0..n /\ j + 1 \in 0..m /\ (i + 1) - 1 = i
            /\ (j + 1) - 1 = j
        /\ i + 1 # 0 /\ j + 1 # 0
    OBVIOUS
  <2>2. g[<<i, j + 1>>] \in Nat /\ g[<<i + 1, j>>] \in Nat
    BY <1>2, <2>1 DEF Known
  <2>3. Max({g[<<i, j + 1>>], g[<<i + 1, j>>]}) = Larger(g[<<i, j + 1>>], g[<<i + 1, j>>])
    BY <2>2, MaxOfTwo DEF Larger
  <2>4. g[<<i + 1, j + 1>>] = CellOf(a, b, g, i + 1, j + 1)
    BY <1>3, <2>1
  <2>5. CellOf(a, b, g, i + 1, j + 1)
          = IF a[i + 1] = b[j + 1] THEN g[<<i, j>>] + 1 ELSE Max({g[<<i, j + 1>>], g[<<i + 1, j>>]})
    BY <2>1 DEF CellOf
  <2>6. QED
    BY <2>3, <2>4, <2>5 DEF Inner
<1>6. QED
  BY <1>2, <1>4, <1>5 DEF Table

LEMMA SmoothSquare ==
  ASSUME NEW x \in Nat, NEW r \in Nat, NEW u \in Nat, NEW z \in Nat,
         x <= r, r <= x + 1, x <= u, u <= x + 1,
         z = x + 1 \/ z = Larger(u, r)
  PROVE  u <= z /\ z <= u + 1 /\ r <= z /\ z <= r + 1
BY DEF Larger

LEMMA SmoothMore ==
  ASSUME NEW a, NEW b, NEW n, NEW m, NEW g, Table(a, b, n, m, g),
         NEW i \in 0..(n - 1), NEW j \in 0..(m - 1),
         Wider(n, g, i, j), Deeper(m, g, i, j)
  PROVE  Wider(n, g, i, j + 1) /\ Deeper(m, g, i + 1, j)
<1>1. n \in Nat /\ m \in Nat
  BY DEF Table
<1>2. Known(n, m, g) /\ Inner(a, b, g, i, j)
  BY DEF Table
<1>3. i \in 0..n /\ j \in 0..m /\ i + 1 \in 0..n /\ j + 1 \in 0..m /\ i < n /\ j < m
  BY <1>1
<1>4. g[<<i, j>>] \in Nat /\ g[<<i, j + 1>>] \in Nat /\ g[<<i + 1, j>>] \in Nat
          /\ g[<<i + 1, j + 1>>] \in Nat
  BY <1>2, <1>3 DEF Known
<1>5. /\ g[<<i, j>>] <= g[<<i + 1, j>>] /\ g[<<i + 1, j>>] <= g[<<i, j>>] + 1
      /\ g[<<i, j>>] <= g[<<i, j + 1>>] /\ g[<<i, j + 1>>] <= g[<<i, j>>] + 1
  BY <1>3 DEF Wider, Deeper
<1>6. g[<<i + 1, j + 1>>] = g[<<i, j>>] + 1
          \/ g[<<i + 1, j + 1>>] = Larger(g[<<i, j + 1>>], g[<<i + 1, j>>])
  BY <1>2 DEF Inner
<1>7. /\ g[<<i, j + 1>>] <= g[<<i + 1, j + 1>>] /\ g[<<i + 1, j + 1>>] <= g[<<i, j + 1>>] + 1
      /\ g[<<i + 1, j>>] <= g[<<i + 1, j + 1>>] /\ g[<<i + 1, j + 1>>] <= g[<<i + 1, j>>] + 1
  BY <1>4, <1>5, <1>6, SmoothSquare
<1>8. QED
  BY <1>7 DEF Wider, Deeper

LEMMA TableSmooth ==
  ASSUME NEW a, NEW b, NEW n, NEW m, NEW g, Table(a, b, n, m, g)
  PROVE  \A i \in 0..n, j \in 0..m : Wider(n, g, i, j) /\ Deeper(m, g, i, j)
<1> DEFINE r == n + m
           S == {s \in 0..r : Smooth(n, m, g, s)}
<1>1. n \in Nat /\ m \in Nat /\ r \in Nat
  BY DEF Table
<1>2. Borders(n, m, g)
  BY DEF Table
<1>3. \A i \in 0..n : Wider(n, g, i, 0)
  BY <1>1, <1>2 DEF Wider, Borders
<1>4. \A j \in 0..m : Deeper(m, g, 0, j)
  BY <1>1, <1>2 DEF Deeper, Borders
<1>5. \A i \in 0..(n - 1), j \in 0..(m - 1) :
        Wider(n, g, i, j) /\ Deeper(m, g, i, j) => Wider(n, g, i, j + 1) /\ Deeper(m, g, i + 1, j)
  BY SmoothMore
<1>6. \A i, j : (i = n => Wider(n, g, i, j)) /\ (j = m => Deeper(m, g, i, j))
  BY <1>1 DEF Wider, Deeper
<1>7. r = n + m
  OBVIOUS
<1> HIDE DEF r
<1>8. 0 \in S
  <2>1. \A i \in 0..n, j \in 0..m : i + j <= 0 => i = 0 /\ j = 0
    BY <1>1
  <2>2. 0 \in 0..n /\ 0 \in 0..m /\ 0 \in 0..r
    BY <1>1
  <2>3. Smooth(n, m, g, 0)
    BY <1>3, <1>4, <2>1, <2>2 DEF Smooth
  <2>4. QED
    BY <2>2, <2>3
<1>9. ASSUME NEW s \in 0..(r - 1), s \in S PROVE s + 1 \in S
  <2>0. Smooth(n, m, g, s)
    BY <1>9
  <2> HIDE DEF S
  <2>1. ASSUME NEW i \in 0..n, NEW j \in 0..m, i + j <= s + 1 PROVE Wider(n, g, i, j)
    <3>1. CASE j = 0
      BY <1>3, <3>1
    <3>2. CASE i = n
      BY <1>6, <3>2
    <3>3. CASE j # 0 /\ i # n
      <4>1. /\ i \in 0..(n - 1) /\ j - 1 \in 0..(m - 1) /\ j - 1 \in 0..m /\ (j - 1) + 1 = j
            /\ i + (j - 1) <= s
        BY <1>1, <2>1, <3>3
      <4>2. Wider(n, g, i, j - 1) /\ Deeper(m, g, i, j - 1)
        BY <2>0, <4>1 DEF Smooth
      <4>3. Wider(n, g, i, (j - 1) + 1)
        BY <1>5, <4>1, <4>2
      <4>4. QED
        BY <4>1, <4>3
    <3>4. QED
      BY <3>1, <3>2, <3>3
  <2>2. ASSUME NEW i \in 0..n, NEW j \in 0..m, i + j <= s + 1 PROVE Deeper(m, g, i, j)
    <3>1. CASE i = 0
      BY <1>4, <3>1
    <3>2. CASE j = m
      BY <1>6, <3>2
    <3>3. CASE i # 0 /\ j # m
      <4>1. /\ j \in 0..(m - 1) /\ i - 1 \in 0..(n - 1) /\ i - 1 \in 0..n /\ (i - 1) + 1 = i
            /\ (i - 1) + j <= s
        BY <1>1, <2>2, <3>3
      <4>2. Wider(n, g, i - 1, j) /\ Deeper(m, g, i - 1, j)
        BY <2>0, <4>1 DEF Smooth
      <4>3. Deeper(m, g, (i - 1) + 1, j)
        BY <1>5, <4>1, <4>2
      <4>4. QED
        BY <4>1, <4>3
    <3>4. QED
      BY <3>1, <3>2, <3>3
  <2>3. s + 1 \in 0..r /\ Smooth(n, m, g, s + 1)
    BY <1>1, <2>1, <2>2 DEF Smooth
  <2>4. QED
    BY <2>3 DEF S
<1>10. r \in S
  <2> HIDE DEF S
  <2>1. r \in 0..r
    BY <1>1
  <2>2. QED
    BY <1>1, <1>8, <1>9, <2>1, UpTo
<1>11. \A i \in 0..n, j \in 0..m : i + j <= r
  BY <1>1, <1>7
<1>12. QED
  BY <1>10, <1>11 DEF Smooth

LEMMA TableSmall ==
  ASSUME NEW a, NEW b, NEW n, NEW m, NEW g, Table(a, b, n, m, g)
  PROVE  \A i \in 0..n, j \in 0..m : g[<<i, j>>] <= i /\ g[<<i, j>>] <= j
<1>1. n \in Nat /\ m \in Nat /\ Known(n, m, g) /\ Borders(n, m, g)
  BY DEF Table
<1>2. ASSUME NEW j \in 0..m PROVE \A i \in 0..n : g[<<i, j>>] <= i
  <2> DEFINE S == {i \in 0..n : g[<<i, j>>] <= i}
  <2>1. 0 \in S
    BY <1>1 DEF Borders
  <2>2. ASSUME NEW i \in 0..(n - 1), i \in S PROVE i + 1 \in S
    <3>1. i \in 0..n /\ i + 1 \in 0..n /\ i < n
      BY <1>1
    <3>2. Wider(n, g, i, j)
      BY <3>1, TableSmooth
    <3>3. g[<<i + 1, j>>] <= g[<<i, j>>] + 1 /\ g[<<i, j>>] <= i
      BY <2>2, <3>1, <3>2 DEF Wider
    <3>4. g[<<i + 1, j>>] \in Nat /\ g[<<i, j>>] \in Nat
      BY <1>1, <3>1 DEF Known
    <3>5. g[<<i + 1, j>>] <= i + 1
      BY <3>1, <3>3, <3>4
    <3>6. QED
      BY <3>1, <3>5
  <2>3. \A i \in 0..n : i \in S
    <3> HIDE DEF S
    <3>1. QED
      BY <1>1, <2>1, <2>2, UpTo
  <2>4. QED
    BY <2>3
<1>3. ASSUME NEW i \in 0..n PROVE \A j \in 0..m : g[<<i, j>>] <= j
  <2> DEFINE S == {j \in 0..m : g[<<i, j>>] <= j}
  <2>1. 0 \in S
    BY <1>1 DEF Borders
  <2>2. ASSUME NEW j \in 0..(m - 1), j \in S PROVE j + 1 \in S
    <3>1. j \in 0..m /\ j + 1 \in 0..m /\ j < m
      BY <1>1
    <3>2. Deeper(m, g, i, j)
      BY <3>1, TableSmooth
    <3>3. g[<<i, j + 1>>] <= g[<<i, j>>] + 1 /\ g[<<i, j>>] <= j
      BY <2>2, <3>1, <3>2 DEF Deeper
    <3>4. g[<<i, j + 1>>] \in Nat /\ g[<<i, j>>] \in Nat
      BY <1>1, <3>1 DEF Known
    <3>5. g[<<i, j + 1>>] <= j + 1
      BY <3>1, <3>3, <3>4
    <3>6. QED
      BY <3>1, <3>5
  <2>3. \A j \in 0..m : j \in S
    <3> HIDE DEF S
    <3>1. QED
      BY <1>1, <2>1, <2>2, UpTo
  <2>4. QED
    BY <2>3
<1>4. QED
  BY <1>2, <1>3

(* The edit distance of the first x lines of a and the first y of b, the   *)
(* lines after the ends of the texts being different from all others.      *)
Low(x, n) == IF x <= n THEN x ELSE n

Distance(g, n, m, x, y) == x + y - 2 * g[<<Low(x, n), Low(y, m)>>]

Agrees(a, b, n, m, x, y) == x <= n /\ y <= m /\ a[x] = b[y]

Reached(e, x, y) == e[x][y] \in Nat /\ x - y <= e[x][y] /\ y - x <= e[x][y]
Moves(e, x, y) ==
  e[x + 1][y] <= e[x][y] + 1 /\ e[x][y + 1] <= e[x][y] + 1 /\ e[x][y] <= e[x + 1][y + 1]
Slides(a, b, n, m, e, x, y) ==
  IF Agrees(a, b, n, m, x + 1, y + 1) THEN e[x + 1][y + 1] = e[x][y]
  ELSE e[x + 1][y + 1] = e[x][y + 1] + 1 \/ e[x + 1][y + 1] = e[x + 1][y] + 1
Beyond(n, m, e, x, y) == x >= n /\ y >= m => e[x][y] = e[n][m] + (x - n) + (y - m)

Edits(a, b, n, m, e) ==
  /\ n \in Nat /\ m \in Nat /\ e[0][0] = 0
  /\ \A x, y \in Nat : Reached(e, x, y) /\ Moves(e, x, y)
                         /\ Slides(a, b, n, m, e, x, y) /\ Beyond(n, m, e, x, y)

LEMMA LowIs ==
  ASSUME NEW n \in Nat, NEW x \in Nat
  PROVE  /\ Low(x, n) \in 0..n /\ Low(x, n) <= x
         /\ x < n => Low(x, n) = x /\ Low(x + 1, n) = x + 1
         /\ x >= n => Low(x, n) = n /\ Low(x + 1, n) = n
BY DEF Low

SquareOf(same, x, y, c, r, u, z) ==
  /\ c \in Nat /\ r \in Nat /\ u \in Nat /\ z \in Nat
  /\ c <= x /\ c <= y /\ c <= r /\ c <= u /\ z <= c + 1
  /\ IF same THEN z = c + 1 ELSE z = u \/ z = r

LEMMA Square ==
  ASSUME NEW a, NEW b, NEW n, NEW m, NEW g, Table(a, b, n, m, g), NEW x \in Nat, NEW y \in Nat
  PROVE  SquareOf(Agrees(a, b, n, m, x + 1, y + 1), x, y,
                  g[<<Low(x, n), Low(y, m)>>], g[<<Low(x + 1, n), Low(y, m)>>],
                  g[<<Low(x, n), Low(y + 1, m)>>], g[<<Low(x + 1, n), Low(y + 1, m)>>])
<1> DEFINE c == g[<<Low(x, n), Low(y, m)>>]
           r == g[<<Low(x + 1, n), Low(y, m)>>]
           u == g[<<Low(x, n), Low(y + 1, m)>>]
           z == g[<<Low(x + 1, n), Low(y + 1, m)>>]
<1>1. n \in Nat /\ m \in Nat /\ Known(n, m, g)
  BY DEF Table
<1>2. /\ Low(x, n) \in 0..n /\ Low(y, m) \in 0..m /\ Low(x + 1, n) \in 0..n
      /\ Low(y + 1, m) \in 0..m
      /\ Low(x, n) <= x /\ Low(y, m) <= y
  BY <1>1 DEF Low
<1>3. c \in Nat /\ r \in Nat /\ u \in Nat /\ z \in Nat
  BY <1>1, <1>2 DEF Known
<1>4. c <= x /\ c <= y
  <2>1. c <= Low(x, n) /\ c <= Low(y, m)
    BY <1>2, TableSmall
  <2>2. QED
    BY <1>2, <1>3, <2>1
<1>5. c <= r /\ r <= c + 1
  <2>1. CASE x < n
    <3>1. Low(x, n) = x /\ Low(x + 1, n) = x + 1
      BY <1>1, <2>1, LowIs
    <3>2. Wider(n, g, x, Low(y, m))
      BY <1>2, <3>1, TableSmooth
    <3>3. QED
      BY <2>1, <3>1, <3>2 DEF Wider
  <2>2. CASE x >= n
    <3>1. c = r
      BY <1>1, <2>2, LowIs
    <3>2. QED
      BY <1>3, <3>1
  <2>3. QED
    BY <1>1, <2>1, <2>2
<1>6. c <= u /\ u <= c + 1
  <2>1. CASE y < m
    <3>1. Low(y, m) = y /\ Low(y + 1, m) = y + 1
      BY <1>1, <2>1, LowIs
    <3>2. Deeper(m, g, Low(x, n), y)
      BY <1>2, <3>1, TableSmooth
    <3>3. QED
      BY <2>1, <3>1, <3>2 DEF Deeper
  <2>2. CASE y >= m
    <3>1. c = u
      BY <1>1, <2>2, LowIs
    <3>2. QED
      BY <1>3, <3>1
  <2>3. QED
    BY <1>1, <2>1, <2>2
<1>7. CASE x < n /\ y < m
  <2>1. /\ Low(x, n) = x /\ Low(x + 1, n) = x + 1 /\ Low(y, m) = y /\ Low(y + 1, m) = y + 1
        /\ x \in 0..(n - 1) /\ y \in 0..(m - 1) /\ x + 1 <= n /\ y + 1 <= m
    BY <1>1, <1>7 DEF Low
  <2>2. Inner(a, b, g, x, y)
    BY <2>1 DEF Table
  <2>3. z = IF a[x + 1] = b[y + 1] THEN c + 1 ELSE Larger(u, r)
    BY <2>1, <2>2 DEF Inner
  <2>4. Agrees(a, b, n, m, x + 1, y + 1) <=> a[x + 1] = b[y + 1]
    BY <2>1 DEF Agrees
  <2> HIDE DEF c, r, u, z
  <2>5. z = c + 1 \/ z = u \/ z = r
    BY <2>3 DEF Larger
  <2>6. z <= c + 1
    BY <1>3, <1>5, <1>6, <2>5
  <2>7. IF Agrees(a, b, n, m, x + 1, y + 1) THEN z = c + 1 ELSE z = u \/ z = r
    BY <2>3, <2>4 DEF Larger
  <2>8. SquareOf(Agrees(a, b, n, m, x + 1, y + 1), x, y, c, r, u, z)
    BY <1>3, <1>4, <1>5, <1>6, <2>6, <2>7, Zenon DEF SquareOf
  <2>9. QED
    BY <2>8 DEF c, r, u, z
<1>8. CASE ~(x < n /\ y < m)
  <2>1. ~Agrees(a, b, n, m, x + 1, y + 1)
    BY <1>1, <1>8 DEF Agrees
  <2>2. z = u \/ z = r
    <3>1. CASE x >= n
      <4>1. Low(x, n) = Low(x + 1, n)
        BY <1>1, <3>1, LowIs
      <4>2. QED
        BY <4>1
    <3>2. CASE y >= m
      <4>1. Low(y, m) = Low(y + 1, m)
        BY <1>1, <3>2, LowIs
      <4>2. QED
        BY <4>1
    <3>3. QED
      BY <1>1, <1>8, <3>1, <3>2
  <2> HIDE DEF c, r, u, z
  <2>3. z <= c + 1
    BY <1>3, <1>5, <1>6, <2>2
  <2>4. SquareOf(Agrees(a, b, n, m, x + 1, y + 1), x, y, c, r, u, z)
    BY <1>3, <1>4, <1>5, <1>6, <2>1, <2>2, <2>3, Zenon DEF SquareOf
  <2>5. QED
    BY <2>4 DEF c, r, u, z
<1>9. QED
  BY <1>7, <1>8

LEMMA EditsExist ==
  ASSUME NEW a \in Seq(Names), NEW b \in Seq(Names)
  PROVE  \E e : /\ Edits(a, b, Len(a), Len(b), e)
                /\ e[Len(a)][Len(b)] = Len(a) + Len(b) - 2 * CommonLength(a, b)
                /\ CommonLength(a, b) \in Nat
<1> DEFINE n == Len(a)
           m == Len(b)
<1>1. n \in Nat /\ m \in Nat
  OBVIOUS
<1>2. PICK g : FilledTo(a, b, n, m, n + m, g) /\ CommonLength(a, b) = g[<<n, m>>]
  BY TableIs
<1> HIDE DEF n, m
<1>3. Table(a, b, n, m, g)
  BY <1>1, <1>2, FilledIsTable
<1> DEFINE e == [x \in Nat |-> [y \in Nat |-> Distance(g, n, m, x, y)]]
<1>4. \A x, y \in Nat : e[x][y] = x + y - 2 * g[<<Low(x, n), Low(y, m)>>]
  BY DEF Distance
<1> HIDE DEF e
<1>5. ASSUME NEW x \in Nat, NEW y \in Nat
      PROVE  Reached(e, x, y) /\ Moves(e, x, y) /\ Slides(a, b, n, m, e, x, y)
  <2> DEFINE c == g[<<Low(x, n), Low(y, m)>>]
             r == g[<<Low(x + 1, n), Low(y, m)>>]
             u == g[<<Low(x, n), Low(y + 1, m)>>]
             z == g[<<Low(x + 1, n), Low(y + 1, m)>>]
  <2>1. SquareOf(Agrees(a, b, n, m, x + 1, y + 1), x, y, c, r, u, z)
    BY <1>3, Square
  <2>2. x + 1 \in Nat /\ y + 1 \in Nat
    OBVIOUS
  <2>3. /\ e[x][y] = x + y - 2 * c /\ e[x + 1][y] = (x + 1) + y - 2 * r
        /\ e[x][y + 1] = x + (y + 1) - 2 * u /\ e[x + 1][y + 1] = (x + 1) + (y + 1) - 2 * z
    BY <1>4, <2>2
  <2> HIDE DEF c, r, u, z
  <2>4. /\ c \in Nat /\ r \in Nat /\ u \in Nat /\ z \in Nat
        /\ c <= x /\ c <= y /\ c <= r /\ c <= u /\ z <= c + 1
    BY <2>1 DEF SquareOf
  <2>5. Reached(e, x, y)
    <3> DEFINE f == e[x][y]
    <3>1. f = x + y - 2 * c
      BY <2>3
    <3> HIDE DEF f
    <3>2. f \in Nat /\ x - y <= f /\ y - x <= f
      BY <2>4, <3>1
    <3>3. QED
      BY <3>2 DEF Reached, f
  <2>6. Moves(e, x, y)
    BY <2>3, <2>4 DEF Moves
  <2>7. Slides(a, b, n, m, e, x, y)
    <3>1. CASE Agrees(a, b, n, m, x + 1, y + 1)
      <4>1. z = c + 1
        BY <2>1, <3>1 DEF SquareOf
      <4>2. e[x + 1][y + 1] = e[x][y]
        BY <2>3, <2>4, <4>1
      <4>3. QED
        BY <3>1, <4>2 DEF Slides
    <3>2. CASE ~Agrees(a, b, n, m, x + 1, y + 1)
      <4>1. z = u \/ z = r
        BY <2>1, <3>2 DEF SquareOf
      <4>2. e[x + 1][y + 1] = e[x][y + 1] + 1 \/ e[x + 1][y + 1] = e[x + 1][y] + 1
        BY <2>3, <2>4, <4>1
      <4>3. QED
        BY <3>2, <4>2 DEF Slides
    <3>3. QED
      BY <3>1, <3>2
  <2>8. QED
    BY <2>5, <2>6, <2>7
<1>6. g[<<n, m>>] \in Nat
  <2>1. n \in 0..n /\ m \in 0..m
    BY <1>1
  <2>2. Known(n, m, g)
    BY <1>3 DEF Table
  <2>3. QED
    BY <2>1, <2>2 DEF Known
<1>7. ASSUME NEW x \in Nat, NEW y \in Nat PROVE Beyond(n, m, e, x, y)
  <2>1. SUFFICES ASSUME x >= n, y >= m PROVE e[x][y] = e[n][m] + (x - n) + (y - m)
    BY DEF Beyond
  <2>2. Low(x, n) = n /\ Low(y, m) = m /\ Low(n, n) = n /\ Low(m, m) = m
    BY <1>1, <2>1 DEF Low
  <2>3. e[x][y] = x + y - 2 * g[<<n, m>>] /\ e[n][m] = n + m - 2 * g[<<n, m>>]
    BY <1>1, <1>4, <2>2
  <2> DEFINE f == e[x][y]
             h == e[n][m]
             c == g[<<n, m>>]
  <2>4. f = x + y - 2 * c /\ h = n + m - 2 * c /\ c \in Nat
    BY <1>6, <2>3
  <2> HIDE DEF f, h, c
  <2>5. f = h + (x - n) + (y - m)
    BY <1>1, <2>4
  <2>6. QED
    BY <2>5 DEF f, h
<1>8. e[0][0] = 0
  <2>1. Low(0, n) = 0 /\ Low(0, m) = 0
    BY <1>1 DEF Low
  <2>2. Borders(n, m, g) /\ 0 \in 0..n
    BY <1>1, <1>3 DEF Table
  <2>3. g[<<0, 0>>] = 0
    BY <2>2 DEF Borders
  <2>4. QED
    BY <1>4, <2>1, <2>3
<1>9. e[n][m] = n + m - 2 * g[<<n, m>>]
  <2>1. Low(n, n) = n /\ Low(m, m) = m
    BY <1>1 DEF Low
  <2>2. QED
    BY <1>1, <1>4, <2>1
<1>10. Edits(a, b, n, m, e)
  BY <1>1, <1>5, <1>7, <1>8 DEF Edits
<1>11. QED
  BY <1>2, <1>6, <1>9, <1>10 DEF n, m

-----------------------------------------------------------------------------
(* A snake: the equal lines from a point on.                               *)
LEMMA MaxUpTo ==
  ASSUME NEW n \in Nat, NEW S \in SUBSET (0..n), S # {}
  PROVE  Max(S) \in S /\ \A x \in S : x <= Max(S)
<1> DEFINE T == {n - x : x \in S}
<1>1. T \in SUBSET Nat /\ T # {}
  <2>1. PICK x : x \in S
    OBVIOUS
  <2>2. n - x \in T /\ \A z \in S : n - z \in Nat
    BY <2>1
  <2>3. QED
    BY <2>2
<1>2. PICK least \in T : \A t \in T : least <= t
  <2> HIDE DEF T
  <2>1. QED
    BY <1>1, Least
<1>3. PICK z \in S : least = n - z
  BY <1>2
<1>4. \A x \in S : n - x \in T /\ x \in Nat
  OBVIOUS
<1>5. \A x \in S : z >= x
  BY <1>2, <1>3, <1>4
<1>6. \A x \in S : x \in Int
  OBVIOUS
<1>7. Max(S) \in S /\ \A x \in S : Max(S) >= x
  BY <1>5 DEF Max
<1>8. QED
  BY <1>6, <1>7

LEMMA SnakeIs ==
  ASSUME NEW a \in Seq(Names), NEW b \in Seq(Names), NEW x \in 0..Len(a), NEW y \in 0..Len(b)
  PROVE  LET s == Snake(a, b, x, y) IN
         /\ s \in Nat /\ x + s <= Len(a) /\ y + s <= Len(b)
         /\ \A i \in 1..s : a[x + i] = b[y + i]
         /\ ~Agrees(a, b, Len(a), Len(b), x + s + 1, y + s + 1)
<1> DEFINE n == Len(a)
           m == Len(b)
           most == Min({n - x, m - y})
           S == {l \in 0..most : \A i \in 1..l : a[x + i] = b[y + i]}
           s == Snake(a, b, x, y)
<1>1. n \in Nat /\ m \in Nat /\ x \in 0..n /\ y \in 0..m /\ s = Max(S)
  BY DEF Snake
<1> HIDE DEF n, m, s
<1>2. most = IF n - x <= m - y THEN n - x ELSE m - y
  BY <1>1, MinOfTwo
<1> HIDE DEF most
<1>3. most \in Nat /\ 0 \in S
  <2>1. most \in Nat
    BY <1>1, <1>2
  <2>2. 0 \in 0..most /\ 1..0 = {}
    BY <2>1
  <2>3. QED
    BY <2>1, <2>2
<1>4. s \in S /\ \A l \in S : l <= s
  <2>1. S \in SUBSET (0..most) /\ S # {}
    BY <1>3
  <2> HIDE DEF S
  <2>2. QED
    BY <1>1, <1>3, <2>1, MaxUpTo
<1>5. s \in 0..most /\ \A i \in 1..s : a[x + i] = b[y + i]
  BY <1>4
<1>6. s \in Nat /\ x + s <= n /\ y + s <= m
  BY <1>1, <1>2, <1>5
<1>7. ASSUME Agrees(a, b, n, m, x + s + 1, y + s + 1) PROVE FALSE
  <2>1. x + s + 1 <= n /\ y + s + 1 <= m /\ a[x + (s + 1)] = b[y + (s + 1)]
    <3>1. x + s + 1 = x + (s + 1) /\ y + s + 1 = y + (s + 1)
      BY <1>1, <1>6
    <3>2. QED
      BY <1>7, <3>1 DEF Agrees
  <2>0. x + s + 1 <= n /\ y + s + 1 <= m
    BY <2>1
  <2>2. s + 1 \in 0..most
    <3>1. s + 1 <= n - x /\ s + 1 <= m - y
      BY <1>1, <1>6, <2>0
    <3>2. QED
      BY <1>2, <1>3, <1>6, <3>1
  <2>3. \A i \in 1..(s + 1) : i \in 1..s \/ i = s + 1
    BY <1>6
  <2>4. \A i \in 1..(s + 1) : a[x + i] = b[y + i]
    BY <1>5, <2>1, <2>3
  <2>5. s + 1 \in S
    BY <2>2, <2>4
  <2>6. s + 1 <= s
    <3> HIDE DEF S
    <3>1. QED
      BY <1>4, <2>5
  <2>7. QED
    BY <1>6, <2>6
<1>8. QED
  BY <1>5, <1>6, <1>7 DEF n, m, s

(* myersAdvanceDiagonal: where it starts on the diagonal, and the slide.   *)
Start(v, k, d) == IF FromAbove(v, k, d) THEN v[k + 1] ELSE v[k - 1] + 1

Slid(a, b, x, k) ==
  IF x > Len(a) \/ x - k > Len(b) THEN x ELSE x + Snake(a, b, x, x - k)

LEMMA AdvanceSlides ==
  \A a, b, v, k, d : Advance(a, b, v, k, d) = Slid(a, b, Start(v, k, d), k)
BY DEF Advance, Start, Slid

SlidTo(a, b, x, k, z) ==
  /\ z \in Nat /\ x <= z
  /\ x <= Len(a) /\ x - k <= Len(b) => z <= Len(a) /\ z - k <= Len(b)
  /\ \A i \in (x + 1)..z : Agrees(a, b, Len(a), Len(b), i, i - k)
  /\ ~Agrees(a, b, Len(a), Len(b), z + 1, z - k + 1)

LEMMA SlidIs ==
  ASSUME NEW a \in Seq(Names), NEW b \in Seq(Names), NEW k \in Int, NEW x \in Nat, x - k \in Nat
  PROVE  SlidTo(a, b, x, k, Slid(a, b, x, k))
<1> DEFINE n == Len(a)
           m == Len(b)
<1>1. n \in Nat /\ m \in Nat
  OBVIOUS
<1>2. CASE x > n \/ x - k > m
  <2>1. Slid(a, b, x, k) = x
    BY <1>2 DEF Slid
  <2> HIDE DEF n, m
  <2>2. (x + 1)..x = {} /\ ~(x + 1 <= n /\ x - k + 1 <= m) /\ ~(x <= n /\ x - k <= m)
    BY <1>1, <1>2
  <2>3. ~Agrees(a, b, n, m, x + 1, x - k + 1)
    BY <2>2 DEF Agrees
  <2>4. QED
    BY <2>1, <2>2, <2>3 DEF SlidTo, n, m
<1>3. CASE ~(x > n \/ x - k > m)
  <2> DEFINE y == x - k
             s == Snake(a, b, x, y)
  <2>1. Slid(a, b, x, k) = x + s
    BY <1>3 DEF Slid
  <2>2. x \in 0..n /\ y \in 0..m
    BY <1>1, <1>3
  <2>3. /\ s \in Nat /\ x + s <= n /\ y + s <= m
        /\ \A i \in 1..s : a[x + i] = b[y + i]
        /\ ~Agrees(a, b, n, m, x + s + 1, y + s + 1)
    BY <2>2, SnakeIs
  <2> HIDE DEF s, n, m
  <2>4. x + s \in Nat /\ x <= x + s /\ (x + s) - k <= m /\ (x + s) - k + 1 = y + s + 1
    BY <2>3
  <2>5. ASSUME NEW i \in (x + 1)..(x + s) PROVE Agrees(a, b, n, m, i, i - k)
    <3>1. i - x \in 1..s /\ x + (i - x) = i /\ y + (i - x) = i - k
      BY <2>3
    <3>2. a[x + (i - x)] = b[y + (i - x)]
      BY <2>3, <3>1
    <3>3. i <= n /\ i - k <= m
      BY <1>1, <2>3
    <3>4. QED
      BY <3>1, <3>2, <3>3 DEF Agrees
  <2>6. ~Agrees(a, b, n, m, (x + s) + 1, (x + s) - k + 1)
    BY <2>3, <2>4
  <2>7. QED
    BY <2>1, <2>3, <2>4, <2>5, <2>6 DEF SlidTo, n, m
<1>4. QED
  BY <1>2, <1>3

-----------------------------------------------------------------------------
(* Furthest points.                                                        *)
LEMMA DiagonalRises ==
  ASSUME NEW a, NEW b, NEW n, NEW m, NEW e, Edits(a, b, n, m, e),
         NEW x \in Nat, NEW y \in Nat, NEW t \in Nat
  PROVE  e[x][y] <= e[x + t][y + t]
<1> DEFINE S == {j \in 0..t : e[x][y] <= e[x + j][y + j]}
<1>1. \A z, w \in Nat : e[z][w] \in Nat /\ e[z][w] <= e[z + 1][w + 1]
  BY DEF Edits, Reached, Moves
<1>2. 0 \in S
  <2>1. x + 0 = x /\ y + 0 = y /\ 0 \in 0..t /\ e[x][y] \in Nat
    BY <1>1
  <2>2. QED
    BY <2>1
<1>3. ASSUME NEW j \in 0..(t - 1), j \in S PROVE j + 1 \in S
  <2>1. /\ x + j \in Nat /\ y + j \in Nat /\ (x + j) + 1 = x + (j + 1) /\ (y + j) + 1 = y + (j + 1)
        /\ x + (j + 1) \in Nat /\ y + (j + 1) \in Nat /\ j + 1 \in 0..t
    OBVIOUS
  <2>2. e[x + j][y + j] <= e[(x + j) + 1][(y + j) + 1] /\ e[x][y] <= e[x + j][y + j]
    BY <1>1, <1>3, <2>1
  <2>3. e[x + j][y + j] <= e[x + (j + 1)][y + (j + 1)]
    BY <2>1, <2>2
  <2>4. e[x][y] \in Nat /\ e[x + j][y + j] \in Nat /\ e[x + (j + 1)][y + (j + 1)] \in Nat
    BY <1>1, <2>1
  <2>5. e[x][y] <= e[x + (j + 1)][y + (j + 1)]
    BY <2>2, <2>3, <2>4
  <2>6. QED
    BY <2>1, <2>5
<1>4. t \in S
  <2> HIDE DEF S
  <2>1. t \in 0..t
    OBVIOUS
  <2>2. QED
    BY <1>2, <1>3, <2>1, UpTo
<1>5. QED
  BY <1>4

LEMMA SlideIsFree ==
  ASSUME NEW a, NEW b, NEW e, Edits(a, b, Len(a), Len(b), e),
         NEW x \in Nat, NEW k \in Int, x - k \in Nat, NEW z, SlidTo(a, b, x, k, z)
  PROVE  e[z][z - k] = e[x][x - k]
<1> DEFINE t == z - x
           S == {j \in 0..t : e[x + j][x + j - k] = e[x][x - k]}
           n == Len(a)
           m == Len(b)
<1>1. t \in Nat /\ z \in Nat /\ x + t = z
  BY DEF SlidTo
<1>2. \A i \in (x + 1)..z : Agrees(a, b, n, m, i, i - k)
  BY DEF SlidTo
<1>3. \A i, j \in Nat : Slides(a, b, n, m, e, i, j)
  BY DEF Edits
<1> HIDE DEF t, n, m
<1>4. 0 \in S
  <2>1. x + 0 = x /\ x + 0 - k = x - k /\ 0 \in 0..t
    BY <1>1
  <2>2. QED
    BY <2>1
<1>5. ASSUME NEW j \in 0..(t - 1), j \in S PROVE j + 1 \in S
  <2>1. /\ x + j \in Nat /\ x + j - k \in Nat /\ (x + j) + 1 = x + (j + 1)
        /\ (x + j - k) + 1 = x + (j + 1) - k /\ j + 1 \in 0..t /\ x + (j + 1) \in (x + 1)..z
    BY <1>1
  <2>2. Agrees(a, b, n, m, x + (j + 1), x + (j + 1) - k)
    BY <1>2, <2>1
  <2>3. Agrees(a, b, n, m, (x + j) + 1, (x + j - k) + 1)
    BY <2>1, <2>2
  <2>4. e[(x + j) + 1][(x + j - k) + 1] = e[x + j][x + j - k]
    BY <1>3, <2>1, <2>3 DEF Slides
  <2>5. e[x + (j + 1)][x + (j + 1) - k] = e[x][x - k]
    BY <1>5, <2>1, <2>4
  <2>6. QED
    BY <2>1, <2>5
<1>6. t \in S
  <2> HIDE DEF S
  <2>1. t \in 0..t
    BY <1>1
  <2>2. QED
    BY <1>1, <1>4, <1>5, <2>1, UpTo
<1>7. QED
  BY <1>1, <1>6

Furthest(e, k, d, x) ==
  x \in Nat /\ x - k \in Nat /\ e[x][x - k] <= d /\ e[x + 1][x - k + 1] > d

LEMMA FurtherIsMore ==
  ASSUME NEW a, NEW b, NEW n, NEW m, NEW e, Edits(a, b, n, m, e),
         NEW k \in Int, NEW d \in Int, NEW x, Furthest(e, k, d, x), NEW z \in Nat, z > x
  PROVE  z - k \in Nat /\ e[z][z - k] > d
<1> DEFINE t == z - (x + 1)
<1>1. x + 1 \in Nat /\ x - k + 1 \in Nat /\ e[x + 1][x - k + 1] > d
  BY DEF Furthest
<1>2. t \in Nat /\ (x + 1) + t = z /\ (x - k + 1) + t = z - k /\ z - k \in Nat
  BY <1>1 DEF Furthest
<1>3. e[x + 1][x - k + 1] <= e[(x + 1) + t][(x - k + 1) + t]
  BY <1>1, <1>2, DiagonalRises
<1>4. e[x + 1][x - k + 1] \in Nat /\ e[z][z - k] \in Nat
  BY <1>1, <1>2 DEF Edits, Reached
<1> HIDE DEF t
<1>5. e[x + 1][x - k + 1] <= e[z][z - k]
  BY <1>2, <1>3
<1>6. e[z][z - k] > d
  BY <1>1, <1>4, <1>5
<1>7. QED
  BY <1>2, <1>6

(* Where a round finds the neighbouring diagonals.                         *)
Neighbours(e, v, k, d) ==
  /\ k # d => Furthest(e, k + 1, d - 1, v[k + 1])
  /\ k # -d => Furthest(e, k - 1, d - 1, v[k - 1])

(* Where the move to diagonal k ends, before the slide.                    *)
Moved(e, v, k, d, x) ==
  /\ x \in Nat /\ x - k \in Nat /\ e[x][x - k] <= d
  /\ k # d => v[k + 1] <= x
  /\ k # -d => v[k - 1] < x

LEMMA StartIs ==
  ASSUME NEW a, NEW b, NEW n, NEW m, NEW e, Edits(a, b, n, m, e),
         NEW d \in Nat \ {0}, NEW k \in (-d)..d, NEW v, Neighbours(e, v, k, d)
  PROVE  Moved(e, v, k, d, Start(v, k, d))
<1>1. \A x, y \in Nat : /\ e[x][y] \in Nat /\ e[x + 1][y] <= e[x][y] + 1
                        /\ e[x][y + 1] <= e[x][y] + 1
  BY DEF Edits, Reached, Moves
<1>2. k # d => /\ v[k + 1] \in Nat /\ v[k + 1] - (k + 1) \in Nat
               /\ e[v[k + 1]][v[k + 1] - (k + 1)] <= d - 1
  BY DEF Neighbours, Furthest
<1>3. k # -d => /\ v[k - 1] \in Nat /\ v[k - 1] - (k - 1) \in Nat
                /\ e[v[k - 1]][v[k - 1] - (k - 1)] <= d - 1
  BY DEF Neighbours, Furthest
<1>4. CASE FromAbove(v, k, d)
  <2> DEFINE x == v[k + 1]
             y == x - (k + 1)
  <2>1. Start(v, k, d) = x /\ k # d
    BY <1>4 DEF Start, FromAbove
  <2>2. x \in Nat /\ y \in Nat /\ e[x][y] <= d - 1 /\ y + 1 = x - k
    BY <1>2, <2>1
  <2>3. e[x][y] \in Nat /\ e[x][y + 1] <= e[x][y] + 1 /\ e[x][y + 1] \in Nat
    <3>1. y + 1 \in Nat
      BY <2>2
    <3> HIDE DEF y, x
    <3>2. QED
      BY <1>1, <2>2, <3>1
  <2>4. k # -d => v[k - 1] < x
    BY <1>4 DEF FromAbove
  <2> HIDE DEF x, y
  <2>5. e[x][x - k] <= d
    <3>1. e[x][y + 1] <= d
      BY <2>2, <2>3
    <3>2. QED
      BY <2>2, <3>1
  <2>6. x \in Nat /\ x - k \in Nat
    BY <2>2
  <2>7. v[k + 1] <= x
    BY <2>6 DEF x
  <2>8. QED
    BY <2>1, <2>4, <2>5, <2>6, <2>7 DEF Moved
<1>5. CASE ~FromAbove(v, k, d)
  <2> DEFINE x == v[k - 1]
             y == x - (k - 1)
  <2>1. Start(v, k, d) = x + 1 /\ k # -d
    BY <1>5 DEF Start, FromAbove
  <2>2. x \in Nat /\ y \in Nat /\ e[x][y] <= d - 1 /\ y = (x + 1) - k /\ x + 1 \in Nat
    BY <1>3, <2>1
  <2>3. k # d => v[k + 1] <= x
    BY <1>2, <1>5, <2>1, <2>2 DEF FromAbove
  <2>4. v[k - 1] < x + 1
    BY <2>2
  <2> HIDE DEF x, y
  <2>5. e[x][y] \in Nat /\ e[x + 1][y] <= e[x][y] + 1 /\ e[x + 1][y] \in Nat
    BY <1>1, <2>2
  <2>6. e[x + 1][(x + 1) - k] <= d
    <3>1. e[x + 1][y] <= d
      BY <2>2, <2>5
    <3>2. QED
      BY <2>2, <3>1
  <2>7. k # d => v[k + 1] <= x + 1
    BY <1>2, <2>2, <2>3
  <2>8. (x + 1) - k \in Nat
    BY <2>2
  <2>9. QED
    BY <2>1, <2>2, <2>4, <2>6, <2>7, <2>8 DEF Moved
<1>6. QED
  BY <1>4, <1>5

(* A round's move and slide reach the furthest point of the diagonal: one  *)
(* step further is the end of a longer script on both neighbours.          *)
LEMMA SlidIsFurthest ==
  ASSUME NEW a, NEW b, NEW e, Edits(a, b, Len(a), Len(b), e),
         NEW d \in Nat \ {0}, NEW k \in (-d)..d, NEW v, Neighbours(e, v, k, d),
         NEW x, Moved(e, v, k, d, x), NEW z, SlidTo(a, b, x, k, z)
  PROVE  Furthest(e, k, d, z)
<1>1. x \in Nat /\ x - k \in Nat /\ e[x][x - k] <= d /\ k \in Int
  BY DEF Moved
<1>2. z \in Nat /\ x <= z
  BY DEF SlidTo
<1> DEFINE y == z - k
<1>3. y \in Nat /\ z + 1 \in Nat /\ y + 1 \in Nat
  BY <1>1, <1>2
<1>4. e[z][y] <= d
  BY <1>1, <1>2, SlideIsFree
<1>5. e[z + 1][y + 1] = e[z][y + 1] + 1 \/ e[z + 1][y + 1] = e[z + 1][y] + 1
  <2>1. ~Agrees(a, b, Len(a), Len(b), z + 1, y + 1)
    BY DEF SlidTo
  <2>2. Slides(a, b, Len(a), Len(b), e, z, y)
    BY <1>2, <1>3 DEF Edits
  <2>3. QED
    BY <2>1, <2>2 DEF Slides
<1>6. e[z][y + 1] \in Nat /\ e[z + 1][y] \in Nat
  BY <1>2, <1>3 DEF Edits, Reached
<1>7. e[z][y + 1] > d - 1
  <2>1. CASE k = -d
    <3>1. (y + 1) - z <= e[z][y + 1]
      BY <1>2, <1>3 DEF Edits, Reached
    <3>2. (y + 1) - z = d + 1
      BY <1>2, <2>1
    <3>3. QED
      BY <1>6, <3>1, <3>2
  <2>2. CASE k # -d
    <3>1. Furthest(e, k - 1, d - 1, v[k - 1]) /\ z > v[k - 1]
      <4>1. Furthest(e, k - 1, d - 1, v[k - 1]) /\ v[k - 1] < x
        BY <2>2 DEF Neighbours, Moved
      <4>2. v[k - 1] \in Nat
        BY <4>1 DEF Furthest
      <4>3. QED
        BY <1>1, <1>2, <4>1, <4>2
    <3>2. k - 1 \in Int /\ d - 1 \in Int /\ z - (k - 1) = y + 1
      BY <1>2
    <3>3. e[z][z - (k - 1)] > d - 1
      BY <1>2, <3>1, <3>2, FurtherIsMore
    <3> HIDE DEF y
    <3>4. QED
      BY <3>2, <3>3
  <2>3. QED
    BY <2>1, <2>2
<1>8. e[z + 1][y] > d - 1
  <2>1. CASE k = d
    <3>1. (z + 1) - y <= e[z + 1][y]
      BY <1>3 DEF Edits, Reached
    <3>2. (z + 1) - y = d + 1
      BY <1>2, <2>1
    <3>3. QED
      BY <1>6, <3>1, <3>2
  <2>2. CASE k # d
    <3>1. Furthest(e, k + 1, d - 1, v[k + 1]) /\ z + 1 > v[k + 1]
      <4>1. Furthest(e, k + 1, d - 1, v[k + 1]) /\ v[k + 1] <= x
        BY <2>2 DEF Neighbours, Moved
      <4>2. v[k + 1] \in Nat
        BY <4>1 DEF Furthest
      <4>3. QED
        BY <1>1, <1>2, <4>1, <4>2
    <3>2. k + 1 \in Int /\ d - 1 \in Int /\ (z + 1) - (k + 1) = y
      BY <1>2
    <3>3. e[z + 1][(z + 1) - (k + 1)] > d - 1
      BY <1>3, <3>1, <3>2, FurtherIsMore
    <3> HIDE DEF y
    <3>4. QED
      BY <3>2, <3>3
  <2>3. QED
    BY <2>1, <2>2
<1>9. e[z + 1][y + 1] > d
  <2> HIDE DEF y
  <2>1. QED
    BY <1>5, <1>6, <1>7, <1>8
<1>10. QED
  BY <1>2, <1>3, <1>4, <1>9 DEF Furthest

(* What a round finds: the furthest points of the previous one, or the     *)
(* origin.                                                                 *)
Before(e, v, k, d) == IF d = 0 THEN k = 0 /\ v[1] = 0 ELSE k \in (-d)..d /\ Neighbours(e, v, k, d)

LEMMA AdvanceIs ==
  ASSUME NEW a \in Seq(Names), NEW b \in Seq(Names), NEW e, Edits(a, b, Len(a), Len(b), e),
         NEW d \in Nat, NEW k, NEW v, Before(e, v, k, d)
  PROVE  /\ k \in Int /\ Start(v, k, d) \in Nat /\ Start(v, k, d) - k \in Nat
         /\ SlidTo(a, b, Start(v, k, d), k, Advance(a, b, v, k, d))
         /\ Furthest(e, k, d, Advance(a, b, v, k, d))
<1> DEFINE x == Start(v, k, d)
           z == Advance(a, b, v, k, d)
<1>1. z = Slid(a, b, x, k)
  BY AdvanceSlides
<1> HIDE DEF z
<1>2. CASE d = 0
  <2>1. k = 0 /\ v[1] = 0
    BY <1>2 DEF Before
  <2>2. x = 0
    <3>1. k = -d /\ k + 1 = 1
      <4>1. k = 0 /\ k \in Int
        BY <2>1
      <4>2. \A i, j \in Int : i <= j /\ j <= i /\ j <= 0 /\ j >= 0 => i = -j /\ i + 1 = 1
        OBVIOUS
      <4>3. k \in Int /\ d \in Int /\ k <= d /\ d <= k /\ d <= 0 /\ d >= 0
        BY <1>2, <4>1
      <4>4. QED
        BY <4>2, <4>3, Zenon
    <3>2. FromAbove(v, k, d)
      BY <2>1, <3>1 DEF FromAbove
    <3>3. QED
      BY <2>1, <3>1, <3>2 DEF Start
  <2>3. SlidTo(a, b, x, k, z)
    <3>1. x \in Nat /\ k \in Int /\ x - k \in Nat
      BY <2>1, <2>2
    <3>2. QED
      BY <1>1, <3>1, SlidIs
  <2> HIDE DEF x
  <2>4. e[z][z - k] = e[0][0]
    <3>1. x \in Nat /\ k \in Int /\ x - k \in Nat /\ x - k = 0
      BY <2>1, <2>2
    <3>2. e[z][z - k] = e[x][x - k]
      BY <2>3, <3>1, SlideIsFree
    <3>3. QED
      BY <2>2, <3>1, <3>2
  <2>5. z \in Nat /\ z - k \in Nat /\ z - k = z
    BY <2>1, <2>3 DEF SlidTo
  <2>6. e[z + 1][z - k + 1] > 0
    <3>1. ~Agrees(a, b, Len(a), Len(b), z + 1, z - k + 1)
      BY <2>3 DEF SlidTo
    <3>2. Slides(a, b, Len(a), Len(b), e, z, z - k)
      BY <2>5 DEF Edits
    <3>3. e[z + 1][z - k + 1] = e[z][z - k + 1] + 1 \/ e[z + 1][z - k + 1] = e[z + 1][z - k] + 1
      BY <3>1, <3>2 DEF Slides
    <3>4. e[z][z - k + 1] \in Nat /\ e[z + 1][z - k] \in Nat
      <4>1. z + 1 \in Nat /\ z - k + 1 \in Nat
        BY <2>5
      <4>2. QED
        BY <2>5, <4>1 DEF Edits, Reached
    <3>5. QED
      BY <3>3, <3>4
  <2>7. e[0][0] = 0
    BY DEF Edits
  <2>8. Furthest(e, k, d, z)
    BY <1>2, <2>4, <2>5, <2>6, <2>7 DEF Furthest
  <2>9. QED
    BY <2>1, <2>2, <2>3, <2>8 DEF x, z
<1>3. CASE d # 0
  <2>1. k \in (-d)..d /\ Neighbours(e, v, k, d) /\ d \in Nat \ {0} /\ k \in Int
    BY <1>3 DEF Before
  <2>2. Moved(e, v, k, d, x)
    BY <2>1, StartIs
  <2> HIDE DEF x
  <2>3. x \in Nat /\ x - k \in Nat
    BY <2>2 DEF Moved
  <2>4. SlidTo(a, b, x, k, z)
    BY <1>1, <2>1, <2>3, SlidIs
  <2>5. Furthest(e, k, d, z)
    BY <2>1, <2>2, <2>4, SlidIsFurthest
  <2>6. QED
    BY <2>1, <2>3, <2>4, <2>5 DEF x, z
<1>4. QED
  BY <1>2, <1>3

-----------------------------------------------------------------------------
(* The rounds.                                                             *)
Reach(most) == [(-most)..most -> Int]
RoundState(most) == [v : Reach(most), found : BOOLEAN]

RoundStep(a, b, d, i, r) ==
  LET k == 2 * i - d
      w == [r.v EXCEPT ![k] = Advance(a, b, r.v, k, d)]
  IN  IF r.found THEN r ELSE [v |-> w, found |-> Consumed(a, b, w, k)]

LEMMA SnakeTyped ==
  ASSUME NEW a \in Seq(Names), NEW b \in Seq(Names), NEW x \in Int, NEW y \in Int,
         x <= Len(a), y <= Len(b)
  PROVE  Snake(a, b, x, y) \in Nat
<1> DEFINE n == Len(a)
           m == Len(b)
           most == Min({n - x, m - y})
           S == {l \in 0..most : \A i \in 1..l : a[x + i] = b[y + i]}
<1>1. n \in Nat /\ m \in Nat /\ x <= n /\ y <= m /\ Snake(a, b, x, y) = Max(S)
  BY DEF Snake
<1> HIDE DEF n, m
<1>2. most = IF n - x <= m - y THEN n - x ELSE m - y
  BY <1>1, MinOfTwo
<1> HIDE DEF most
<1>3. most \in Nat
  BY <1>1, <1>2
<1>4. S \in SUBSET (0..most) /\ S # {}
  <2>1. 0 \in 0..most /\ 1..0 = {}
    BY <1>3
  <2>2. 0 \in S
    BY <2>1
  <2>3. QED
    BY <2>2
<1>5. Max(S) \in 0..most
  <2> HIDE DEF S
  <2>1. Max(S) \in S
    BY <1>3, <1>4, MaxUpTo
  <2>2. QED
    BY <1>4, <2>1
<1>6. QED
  BY <1>1, <1>3, <1>5

LEMMA AdvanceTyped ==
  ASSUME NEW a \in Seq(Names), NEW b \in Seq(Names), NEW most \in Nat \ {0},
         NEW v \in Reach(most), NEW d \in 0..most, NEW k \in (-d)..d
  PROVE  Advance(a, b, v, k, d) \in Int
<1> DEFINE x == Start(v, k, d)
<1>1. x \in Int
  <2>1. CASE FromAbove(v, k, d)
    <3>1. k + 1 \in (-most)..most
      BY <2>1 DEF FromAbove
    <3>2. QED
      BY <2>1, <3>1 DEF Start, Reach
  <2>2. CASE ~FromAbove(v, k, d)
    <3>1. k - 1 \in (-most)..most
      BY <2>2 DEF FromAbove
    <3>2. v[k - 1] \in Int
      BY <3>1 DEF Reach
    <3>3. QED
      BY <2>2, <3>2 DEF Start
  <2>3. QED
    BY <2>1, <2>2
<1> HIDE DEF x
<1>2. Advance(a, b, v, k, d) = Slid(a, b, x, k)
  BY AdvanceSlides DEF x
<1>3. CASE x > Len(a) \/ x - k > Len(b)
  BY <1>1, <1>2, <1>3 DEF Slid
<1>4. CASE ~(x > Len(a) \/ x - k > Len(b))
  <2>1. x <= Len(a) /\ x - k <= Len(b) /\ x - k \in Int
    BY <1>1, <1>4
  <2>2. Snake(a, b, x, x - k) \in Nat
    BY <1>1, <2>1, SnakeTyped
  <2>3. Slid(a, b, x, k) = x + Snake(a, b, x, x - k)
    BY <1>4 DEF Slid
  <2>4. QED
    BY <1>1, <1>2, <2>2, <2>3
<1>5. QED
  BY <1>3, <1>4

LEMMA ConsumedIs == \A a, b, v, k : Consumed(a, b, v, k) \in BOOLEAN
BY Zenon DEF Consumed

LEMMA RoundStepTyped ==
  ASSUME NEW a \in Seq(Names), NEW b \in Seq(Names), NEW most \in Nat \ {0},
         NEW d \in 0..most, NEW i \in 0..d, NEW r \in RoundState(most)
  PROVE  RoundStep(a, b, d, i, r) \in RoundState(most)
<1> DEFINE k == 2 * i - d
           w == [r.v EXCEPT ![k] = Advance(a, b, r.v, k, d)]
<1>1. k \in (-d)..d /\ k \in (-most)..most
  OBVIOUS
<1>2. r.v \in Reach(most) /\ r.found \in BOOLEAN
  BY DEF RoundState
<1> HIDE DEF k
<1>3. Advance(a, b, r.v, k, d) \in Int
  BY <1>1, <1>2, AdvanceTyped
<1>4. w \in Reach(most)
  BY <1>1, <1>2, <1>3 DEF Reach
<1>5. RoundStep(a, b, d, i, r) = IF r.found THEN r ELSE [v |-> w, found |-> Consumed(a, b, w, k)]
  BY DEF RoundStep, k
<1> HIDE DEF w
<1>6. [v |-> w, found |-> Consumed(a, b, w, k)] \in RoundState(most)
  <2>1. PICK c \in BOOLEAN : c = Consumed(a, b, w, k)
    BY ConsumedIs, Zenon
  <2>2. [v |-> w, found |-> c] \in RoundState(most)
    BY <1>4, <2>1 DEF RoundState
  <2>3. QED
    BY <2>1, <2>2, Zenon
<1>7. QED
  BY <1>5, <1>6

RoundAlong(stage, a, b, most, v, d) ==
  /\ stage[0] = [v |-> v, found |-> FALSE]
  /\ \A m \in 0..(d + 1) : stage[m] \in RoundState(most)
  /\ \A m \in 0..d : stage[m + 1] = RoundStep(a, b, d, m, stage[m])
  /\ Round(a, b, v, d) = stage[d + 1]

LEMMA RoundStages ==
  ASSUME NEW a \in Seq(Names), NEW b \in Seq(Names), NEW most \in Nat \ {0},
         NEW v \in Reach(most), NEW d \in 0..most
  PROVE  \E stage : RoundAlong(stage, a, b, most, v, d)
<1> DEFINE n == d + 1
           base == [v |-> v, found |-> FALSE]
           places == [i \in 1..(d + 1) |-> i - 1]
           B == RoundState(most)
           F == [i \in 1..n |-> [g \in B |-> RoundStep(a, b, d, i - 1, g)]]
           Equation(g) ==
             [s \in SUBSET (DOMAIN places) |->
                IF s = {} THEN base ELSE RoundStep(a, b, d, places[Max(s)], g[s \ {Max(s)}])]
           it == CHOOSE g : g = Equation(g)
<1>1. DOMAIN places = 1..n /\ \A i \in 1..n : places[i] = i - 1
  OBVIOUS
<1>0. n \in Nat /\ n = d + 1
  OBVIOUS
<1>2. \A i \in 1..n, g \in B : RoundStep(a, b, d, i - 1, g) \in B
  <2>1. \A i \in 1..n : i - 1 \in 0..d
    OBVIOUS
  <2>2. QED
    BY <2>1, RoundStepTyped
<1>3. base \in B /\ Combines(F, n, B)
  <2>1. base \in B
    <3>1. PICK no \in BOOLEAN : no = FALSE
      OBVIOUS
    <3>2. [v |-> v, found |-> no] \in B
      BY DEF RoundState
    <3>3. QED
      BY <3>1, <3>2, Zenon
  <2> HIDE DEF B, n
  <2>2. QED
    BY <1>2, <2>1 DEF Combines
<1>4. Round(a, b, v, d) = it[DOMAIN places]
  BY DEF Round, FoldLeft, MapThenFoldSet, RoundStep
<1>5. \A i \in 1..n, g \in B : F[i][g] = RoundStep(a, b, d, i - 1, g)
  OBVIOUS
<1> HIDE DEF places, B, F, n, base
<1>6. PICK g \in [SUBSET (1..n) -> B] : Folding(g, n, base, F)
  BY <1>0, <1>3, FoldExists
<1>7. \A s \in SUBSET (1..n) : s # {} =>
        Max(s) \in 1..n /\ places[Max(s)] = Max(s) - 1 /\ s \ {Max(s)} \in SUBSET (1..n)
  BY <1>0, <1>1, MaxIs
<1>8. g = Equation(g)
  <2>1. \A s \in SUBSET (1..n) : s # {} => g[s \ {Max(s)}] \in B
    BY <1>7
  <2>2. \A s \in SUBSET (1..n) : s # {} => F[Max(s)][g[s \ {Max(s)}]]
          = RoundStep(a, b, d, places[Max(s)], g[s \ {Max(s)}])
    BY <1>5, <1>7, <2>1
  <2>3. \A s \in SUBSET (1..n) :
          g[s] = IF s = {} THEN base ELSE RoundStep(a, b, d, places[Max(s)], g[s \ {Max(s)}])
    BY <1>6, <2>2 DEF Folding
  <2>4. QED
    BY <1>1, <2>3
<1>9. it = Equation(it)
  <2> HIDE DEF Equation
  <2>1. QED
    BY <1>8
<1>10. \A s \in SUBSET (1..n) :
        it[s] = IF s = {} THEN base ELSE RoundStep(a, b, d, places[Max(s)], it[s \ {Max(s)}])
  <2> HIDE DEF it
  <2>1. QED
    BY <1>1, <1>9
<1> HIDE DEF it
<1>11. Iterates(it, n, B, base, F)
  <2>1. it[{}] = base
    BY <1>10
  <2>2. ASSUME NEW s \in SUBSET (1..n), s # {}, it[s \ {Max(s)}] \in B
        PROVE  it[s] = F[Max(s)][it[s \ {Max(s)}]]
    <3>1. it[s] = RoundStep(a, b, d, Max(s) - 1, it[s \ {Max(s)}])
      BY <1>7, <1>10, <2>2
    <3>2. QED
      BY <1>5, <1>7, <2>2, <3>1
  <2>3. QED
    BY <2>1, <2>2 DEF Iterates
<1>12. PICK stage \in [0..n -> B] : StagesOf(stage, n, base, F) /\ it[1..n] = stage[n]
  <2> HIDE DEF Equation
  <2>1. n \in Nat
    BY <1>0
  <2>2. QED
    BY <1>3, <1>11, <2>1, Stages
<1>13. ASSUME NEW m \in 0..d PROVE stage[m + 1] = RoundStep(a, b, d, m, stage[m])
  <2>1. m \in 0..(n - 1) /\ m + 1 \in 1..n /\ m \in 0..n /\ (m + 1) - 1 = m
    BY <1>0
  <2>2. stage[m] \in B
    BY <2>1
  <2>3. QED
    BY <1>5, <1>12, <2>1, <2>2 DEF StagesOf
<1>14. stage[0] = base
  BY <1>12 DEF StagesOf
<1>15. \A m \in 0..n : stage[m] \in RoundState(most)
  BY DEF B
<1>16. RoundAlong(stage, a, b, most, v, d)
  BY <1>0, <1>1, <1>4, <1>12, <1>13, <1>14, <1>15 DEF RoundAlong, base
<1>17. QED
  BY <1>16

(* A round's first m diagonals are advanced from the previous round's.     *)
Ends(a, b, x, k) == x >= Len(a) /\ x - k >= Len(b)

RoundInv(a, b, most, v, d, m, r) ==
  /\ r \in RoundState(most)
  /\ \A j \in (-most)..most : (\A i \in 0..(m - 1) : j # 2 * i - d) => r.v[j] = v[j]
  /\ IF r.found
     THEN \E i \in 0..d : Ends(a, b, Advance(a, b, v, 2 * i - d, d), 2 * i - d)
     ELSE \A i \in 0..(m - 1) : /\ r.v[2 * i - d] = Advance(a, b, v, 2 * i - d, d)
                                /\ ~Ends(a, b, Advance(a, b, v, 2 * i - d, d), 2 * i - d)

LEMMA AdvanceAlike ==
  ASSUME NEW a, NEW b, NEW d, NEW k, NEW v, NEW w,
         k = -d \/ k # d => v[k + 1] = w[k + 1], k # -d => v[k - 1] = w[k - 1]
  PROVE  Advance(a, b, v, k, d) = Advance(a, b, w, k, d)
<1>1. FromAbove(v, k, d) = FromAbove(w, k, d)
  BY DEF FromAbove
<1>2. Start(v, k, d) = Start(w, k, d)
  BY <1>1 DEF Start, FromAbove
<1>3. QED
  BY <1>2, AdvanceSlides

LEMMA RoundMore ==
  ASSUME NEW a \in Seq(Names), NEW b \in Seq(Names), NEW most \in Nat \ {0},
         NEW v \in Reach(most), NEW d \in 0..most, NEW m \in 0..d, NEW r,
         RoundInv(a, b, most, v, d, m, r)
  PROVE  RoundInv(a, b, most, v, d, m + 1, RoundStep(a, b, d, m, r))
<1> DEFINE k == 2 * m - d
           x == Advance(a, b, v, k, d)
           w == [r.v EXCEPT ![k] = x]
           next == RoundStep(a, b, d, m, r)
<1>1. r \in RoundState(most) /\ next \in RoundState(most) /\ r.v \in Reach(most)
          /\ r.found \in BOOLEAN
  BY RoundStepTyped DEF RoundInv, RoundState
<1>2. k \in (-d)..d /\ k \in (-most)..most /\ k \in Int
  OBVIOUS
<1>3. /\ (m + 1) - 1 = m /\ \A i \in 0..(m - 1) : i \in 0..m
      /\ \A i \in 0..m : i \in 0..(m - 1) \/ i = m
      /\ \A i \in 0..(m - 1) : 2 * i - d # k /\ 2 * i - d \in (-most)..most
      /\ m \in 0..m
  OBVIOUS
<1>4. \A j \in (-most)..most : (\A i \in 0..(m - 1) : j # 2 * i - d) => r.v[j] = v[j]
  BY DEF RoundInv
<1>5. CASE r.found
  <2>1. next = r
    BY <1>5 DEF RoundStep
  <2> HIDE DEF next
  <2>2. \E i \in 0..d : Ends(a, b, Advance(a, b, v, 2 * i - d, d), 2 * i - d)
    BY <1>5 DEF RoundInv
  <2>3. \A j \in (-most)..most : (\A i \in 0..m : j # 2 * i - d) => r.v[j] = v[j]
    BY <1>3, <1>4
  <2>4. RoundInv(a, b, most, v, d, m + 1, r)
    BY <1>1, <1>3, <1>5, <2>2, <2>3 DEF RoundInv
  <2>5. QED
    BY <2>1, <2>4 DEF next
<1>6. CASE ~r.found
  <2>1. Advance(a, b, r.v, k, d) = x
    <3>1. ASSUME k = -d \/ k # d PROVE v[k + 1] = r.v[k + 1]
      <4>1. k + 1 \in (-most)..most
        BY <3>1, <1>2
      <4>2. \A i \in 0..(m - 1) : k + 1 # 2 * i - d
        OBVIOUS
      <4>3. QED
        BY <1>4, <4>1, <4>2
    <3>2. ASSUME k # -d PROVE v[k - 1] = r.v[k - 1]
      <4>1. k - 1 \in (-most)..most
        BY <3>2, <1>2
      <4>2. \A i \in 0..(m - 1) : k - 1 # 2 * i - d
        OBVIOUS
      <4>3. QED
        BY <1>4, <4>1, <4>2
    <3> HIDE DEF k
    <3>3. QED
      BY <3>1, <3>2, AdvanceAlike
  <2>2. next = [v |-> w, found |-> Consumed(a, b, w, k)]
    BY <1>6, <2>1 DEF RoundStep
  <2>3. next.v = w /\ (next.found <=> Consumed(a, b, w, k))
    <3>1. next.v = w /\ next.found = Consumed(a, b, w, k)
      BY <2>2
    <3>2. QED
      BY <3>1, Zenon
  <2>4. w[k] = x /\ \A j \in (-most)..most : j # k => w[j] = r.v[j]
    <3> HIDE DEF k, x
    <3>1. QED
      BY <1>1, <1>2 DEF Reach
  <2>5. Consumed(a, b, w, k) <=> Ends(a, b, x, k)
    <3> HIDE DEF w, x, k
    <3>1. QED
      BY <2>4 DEF Consumed, Ends
  <2>6. \A j \in (-most)..most : (\A i \in 0..m : j # 2 * i - d) => next.v[j] = v[j]
    <3> SUFFICES ASSUME NEW j \in (-most)..most, \A i \in 0..m : j # 2 * i - d
                 PROVE  next.v[j] = v[j]
      OBVIOUS
    <3>1. j # k /\ \A i \in 0..(m - 1) : j # 2 * i - d
      BY <1>3
    <3> HIDE DEF k, w, next
    <3>2. QED
      BY <1>4, <2>3, <2>4, <3>1
  <2>7. CASE next.found
    <3>1. Ends(a, b, x, k) /\ m \in 0..d
      BY <2>3, <2>5, <2>7
    <3>2. \E i \in 0..d : Ends(a, b, Advance(a, b, v, 2 * i - d, d), 2 * i - d)
      BY <3>1
    <3> HIDE DEF next
    <3>3. QED
      BY <1>1, <1>3, <2>6, <2>7, <3>2 DEF RoundInv, next
  <2>8. CASE ~next.found
    <3>1. ~Ends(a, b, x, k)
      BY <2>3, <2>5, <2>8
    <3>2. \A i \in 0..(m - 1) : /\ r.v[2 * i - d] = Advance(a, b, v, 2 * i - d, d)
                                /\ ~Ends(a, b, Advance(a, b, v, 2 * i - d, d), 2 * i - d)
      BY <1>6 DEF RoundInv
    <3>3. ASSUME NEW i \in 0..m
          PROVE  /\ next.v[2 * i - d] = Advance(a, b, v, 2 * i - d, d)
                 /\ ~Ends(a, b, Advance(a, b, v, 2 * i - d, d), 2 * i - d)
      <4>1. CASE i = m
        BY <2>3, <2>4, <3>1, <4>1
      <4>2. CASE i \in 0..(m - 1)
        <5>1. 2 * i - d # k /\ 2 * i - d \in (-most)..most
          BY <1>3, <4>2
        <5>2. next.v[2 * i - d] = r.v[2 * i - d]
          <6> HIDE DEF next, w
          <6>1. QED
            BY <2>3, <2>4, <5>1
        <5>3. QED
          BY <3>2, <4>2, <5>2
      <4>3. QED
        BY <1>3, <4>1, <4>2
    <3> HIDE DEF next
    <3>4. QED
      BY <1>1, <1>3, <2>6, <2>8, <3>3 DEF RoundInv, next
  <2>9. QED
    BY <2>7, <2>8
<1>7. QED
  BY <1>5, <1>6

LEMMA RoundIs ==
  ASSUME NEW a \in Seq(Names), NEW b \in Seq(Names), NEW most \in Nat \ {0},
         NEW v \in Reach(most), NEW d \in 0..most
  PROVE  RoundInv(a, b, most, v, d, d + 1, Round(a, b, v, d))
<1> DEFINE n == d + 1
<1>1. PICK stage : RoundAlong(stage, a, b, most, v, d)
  BY RoundStages
<1> DEFINE S == {m \in 0..n : RoundInv(a, b, most, v, d, m, stage[m])}
<1>2. 0 \in S
  <2>1. 0..(0 - 1) = {} /\ 0 \in 0..n /\ 0 \in 0..(d + 1)
    OBVIOUS
  <2>2. PICK r : r = stage[0]
    OBVIOUS
  <2>9. stage[0] = [v |-> v, found |-> FALSE]
    BY <1>1, Zenon DEF RoundAlong
  <2>3. r.v = v /\ r.found = FALSE
    <3>1. PICK no \in BOOLEAN : no = FALSE
      OBVIOUS
    <3>2. r = [v |-> v, found |-> no]
      BY <2>2, <2>9, <3>1, Zenon
    <3>3. r.v = v /\ r.found = no
      BY <3>2
    <3>4. QED
      BY <3>1, <3>3
  <2>4. r \in RoundState(most)
    BY <1>1, <2>1, <2>2 DEF RoundAlong
  <2>5. ~r.found
    BY <2>3, Zenon
  <2>6. RoundInv(a, b, most, v, d, 0, r)
    BY <2>1, <2>3, <2>4, <2>5 DEF RoundInv
  <2>7. QED
    BY <2>1, <2>2, <2>6
<1>3. ASSUME NEW m \in 0..(n - 1), m \in S PROVE m + 1 \in S
  <2>1. m \in 0..d /\ m + 1 \in 0..n
    OBVIOUS
  <2>2. stage[m + 1] = RoundStep(a, b, d, m, stage[m])
    BY <1>1, <2>1 DEF RoundAlong
  <2>3. RoundInv(a, b, most, v, d, m, stage[m])
    BY <1>3
  <2> HIDE DEF n
  <2>4. RoundInv(a, b, most, v, d, m + 1, stage[m + 1])
    BY <2>1, <2>2, <2>3, RoundMore
  <2>5. QED
    BY <2>1, <2>4
<1>4. n \in Nat /\ n \in 0..n /\ n = d + 1
  OBVIOUS
<1> HIDE DEF n
<1>5. n \in S
  <2> HIDE DEF S
  <2>1. n \in Nat /\ n \in 0..n
    BY <1>4
  <2>2. QED
    BY <1>2, <1>3, <2>1, UpTo
<1>6. QED
  BY <1>1, <1>4, <1>5 DEF RoundAlong

(* What a round starts from, and what it leaves to the next one.           *)
Prepared(e, v, d) == \A i \in 0..d : Before(e, v, 2 * i - d, d)

Follows(a, b, v, w, d) == \A i \in 0..d : w[2 * i - d] = Advance(a, b, v, 2 * i - d, d)

LEMMA EndIsReached ==
  ASSUME NEW a, NEW b, NEW e, Edits(a, b, Len(a), Len(b), e),
         NEW d \in Nat, NEW k \in Int, NEW z, Furthest(e, k, d, z), Ends(a, b, z, k)
  PROVE  e[Len(a)][Len(b)] <= d
<1> DEFINE n == Len(a)
           m == Len(b)
<1>1. n \in Nat /\ m \in Nat
  BY DEF Edits
<1>2. z \in Nat /\ z - k \in Nat /\ e[z][z - k] <= d /\ z >= n /\ z - k >= m
  BY DEF Furthest, Ends
<1>3. Beyond(n, m, e, z, z - k) /\ e[n][m] \in Nat
  BY <1>1, <1>2 DEF Edits, Reached
<1> HIDE DEF n, m
<1>4. e[z][z - k] = e[n][m] + (z - n) + ((z - k) - m)
  BY <1>2, <1>3 DEF Beyond
<1>5. e[n][m] <= d
  BY <1>1, <1>2, <1>3, <1>4
<1>6. QED
  BY <1>5 DEF n, m

LEMMA ReachedEnds ==
  ASSUME NEW a, NEW b, NEW e, Edits(a, b, Len(a), Len(b), e),
         NEW d \in Nat, e[Len(a)][Len(b)] <= d,
         NEW z, Furthest(e, Len(a) - Len(b), d, z)
  PROVE  Ends(a, b, z, Len(a) - Len(b))
<1> DEFINE n == Len(a)
           m == Len(b)
<1>1. n \in Nat /\ m \in Nat /\ n - m \in Int /\ d \in Int
  BY DEF Edits
<1>2. z \in Nat
  BY DEF Furthest
<1>3. z >= n
  <2> SUFFICES ASSUME ~(z >= n) PROVE FALSE
    OBVIOUS
  <2>1. n > z
    BY <1>1, <1>2
  <2>2. e[n][n - (n - m)] > d
    BY <1>1, <2>1, FurtherIsMore
  <2>3. Reached(e, n, m)
    BY <1>1 DEF Edits
  <2>4. n - (n - m) = m
    BY <1>1
  <2>5. e[n][m] \in Nat /\ e[n][m] <= d
    BY <2>3 DEF Reached
  <2> HIDE DEF n, m
  <2>6. QED
    BY <2>2, <2>4, <2>5
<1>4. z - (n - m) >= m
  BY <1>1, <1>2, <1>3
<1>5. QED
  BY <1>3, <1>4 DEF Ends

EndsAt(a, b, e) ==
  \E c \in Nat : e[Len(a)][Len(b)] = Len(a) + Len(b) - 2 * c

LEMMA RoundCarries ==
  ASSUME NEW a \in Seq(Names), NEW b \in Seq(Names), NEW e, Edits(a, b, Len(a), Len(b), e),
         EndsAt(a, b, e), NEW most \in Nat \ {0}, NEW d \in 0..most, NEW v \in Reach(most),
         Prepared(e, v, d), e[Len(a)][Len(b)] >= d
  PROVE  LET r == Round(a, b, v, d) IN
         /\ r.v \in Reach(most) /\ r.found \in BOOLEAN
         /\ r.found => e[Len(a)][Len(b)] = d
         /\ ~r.found => /\ e[Len(a)][Len(b)] >= d + 1
                        /\ Follows(a, b, v, r.v, d) /\ Prepared(e, r.v, d + 1)
<1> DEFINE r == Round(a, b, v, d)
           end == e[Len(a)][Len(b)]
<1>1. RoundInv(a, b, most, v, d, d + 1, r)
  BY RoundIs
<1> HIDE DEF r
<1>2. r.v \in Reach(most) /\ r.found \in BOOLEAN /\ d \in Nat /\ (d + 1) - 1 = d
  BY <1>1 DEF RoundInv, RoundState
<1>3. \A i \in 0..d : 2 * i - d \in Int
                        /\ Furthest(e, 2 * i - d, d, Advance(a, b, v, 2 * i - d, d))
  <2> SUFFICES ASSUME NEW i \in 0..d
               PROVE  2 * i - d \in Int /\ Furthest(e, 2 * i - d, d, Advance(a, b, v, 2 * i - d, d))
    OBVIOUS
  <2> DEFINE k == 2 * i - d
  <2>1. Before(e, v, k, d)
    BY DEF Prepared
  <2> HIDE DEF k
  <2>2. k \in Int /\ Furthest(e, k, d, Advance(a, b, v, k, d))
    BY <1>2, <2>1, AdvanceIs
  <2>3. QED
    BY <2>2 DEF k
<1>4. Len(a) \in Nat /\ Len(b) \in Nat /\ end \in Nat /\ end >= d
      /\ Len(a) - Len(b) <= end /\ Len(b) - Len(a) <= end
  <2>1. Len(a) \in Nat /\ Len(b) \in Nat
    OBVIOUS
  <2>2. Reached(e, Len(a), Len(b))
    BY <2>1 DEF Edits
  <2>3. QED
    BY <2>1, <2>2 DEF Reached
<1>5. ASSUME r.found PROVE end = d
  <2>1. PICK i \in 0..d : Ends(a, b, Advance(a, b, v, 2 * i - d, d), 2 * i - d)
    BY <1>1, <1>5 DEF RoundInv
  <2>2. end <= d
    BY <1>2, <1>3, <2>1, EndIsReached
  <2> HIDE DEF end
  <2>3. QED
    BY <1>2, <1>4, <2>2
<1>6. ASSUME ~r.found
      PROVE  end >= d + 1 /\ Follows(a, b, v, r.v, d) /\ Prepared(e, r.v, d + 1)
  <2>1. \A i \in 0..d : /\ r.v[2 * i - d] = Advance(a, b, v, 2 * i - d, d)
                        /\ ~Ends(a, b, Advance(a, b, v, 2 * i - d, d), 2 * i - d)
    <3>1. \A i \in 0..((d + 1) - 1) : /\ r.v[2 * i - d] = Advance(a, b, v, 2 * i - d, d)
                                      /\ ~Ends(a, b, Advance(a, b, v, 2 * i - d, d), 2 * i - d)
      BY <1>1, <1>6 DEF RoundInv
    <3>2. QED
      BY <1>2, <3>1
  <2>2. end # d
    <3> SUFFICES ASSUME end = d PROVE FALSE
      OBVIOUS
    <3>1. PICK c \in Nat : end = Len(a) + Len(b) - 2 * c
      BY DEF EndsAt
    <3>2. PICK i \in 0..d : 2 * i - d = Len(a) - Len(b)
      <4> DEFINE n == Len(a)
                 m == Len(b)
      <4>1. /\ n \in Nat /\ m \in Nat /\ d \in Nat /\ d = n + m - 2 * c
            /\ n - m <= d /\ m - n <= d
        BY <1>2, <1>4, <3>1
      <4> HIDE DEF n, m
      <4>2. (d + c) - m \in 0..d /\ 2 * ((d + c) - m) - d = n - m
        BY <4>1
      <4>3. QED
        BY <4>2 DEF n, m
    <3> DEFINE z == Advance(a, b, v, 2 * i - d, d)
    <3>3. Furthest(e, 2 * i - d, d, z) /\ ~Ends(a, b, z, 2 * i - d)
      BY <1>3, <2>1
    <3>4. end <= d
      BY <1>2
    <3> HIDE DEF z
    <3>5. Furthest(e, Len(a) - Len(b), d, z) /\ ~Ends(a, b, z, Len(a) - Len(b))
      BY <3>2, <3>3
    <3>6. QED
      BY <1>2, <3>4, <3>5, ReachedEnds
  <2>3. end >= d + 1
    <3> HIDE DEF end
    <3>1. QED
      BY <1>2, <1>4, <2>2
  <2>4. Follows(a, b, v, r.v, d)
    BY <2>1 DEF Follows
  <2>5. ASSUME NEW i \in 0..(d + 1) PROVE Before(e, r.v, 2 * i - (d + 1), d + 1)
    <3> DEFINE k == 2 * i - (d + 1)
               w == r.v
    <3>1. k \in (-(d + 1))..(d + 1) /\ d + 1 # 0 /\ (d + 1) - 1 = d
      BY <1>2
    <3>2. ASSUME k # d + 1 PROVE Furthest(e, k + 1, d, w[k + 1])
      <4>1. i \in 0..d /\ k + 1 = 2 * i - d
        BY <1>2, <3>2
      <4> HIDE DEF k
      <4>2. w[2 * i - d] = Advance(a, b, v, 2 * i - d, d)
               /\ Furthest(e, 2 * i - d, d, Advance(a, b, v, 2 * i - d, d))
        BY <1>3, <2>1, <4>1
      <4>3. QED
        BY <4>1, <4>2
    <3>3. ASSUME k # -(d + 1) PROVE Furthest(e, k - 1, d, w[k - 1])
      <4>0. i = 0 => k = -(d + 1)
        BY <1>2
      <4>1. i - 1 \in 0..d /\ k - 1 = 2 * (i - 1) - d
        BY <1>2, <3>3, <4>0
      <4> HIDE DEF k
      <4>2. w[2 * (i - 1) - d] = Advance(a, b, v, 2 * (i - 1) - d, d)
               /\ Furthest(e, 2 * (i - 1) - d, d, Advance(a, b, v, 2 * (i - 1) - d, d))
        BY <1>3, <2>1, <4>1
      <4>3. QED
        BY <4>1, <4>2
    <3> HIDE DEF k, w
    <3>4. Neighbours(e, w, k, d + 1)
      BY <3>1, <3>2, <3>3 DEF Neighbours
    <3>5. Before(e, w, k, d + 1)
      BY <3>1, <3>4 DEF Before
    <3>6. QED
      BY <3>5 DEF k, w
  <2>6. Prepared(e, r.v, d + 1)
    BY <2>5 DEF Prepared
  <2>7. QED
    BY <2>3, <2>4, <2>6
<1>7. QED
  BY <1>2, <1>5, <1>6 DEF r, end

-----------------------------------------------------------------------------
(* The search.                                                             *)
Search(most) == [trace : Seq(Reach(most)), v : Reach(most), found : BOOLEAN]

SearchStep(a, b, d, f) ==
  IF f.found THEN f
  ELSE LET r == Round(a, b, f.v, d)
       IN  [trace |-> Append(f.trace, f.v), v |-> r.v, found |-> r.found]

SearchStart(most) == [trace |-> <<>>, v |-> [k \in (-most)..most |-> 0], found |-> FALSE]

SearchAlong(stage, a, b, most) ==
  /\ stage[0] = SearchStart(most)
  /\ \A m \in 0..(most + 1) : stage[m] \in Search(most)
  /\ \A m \in 0..most : stage[m + 1] = SearchStep(a, b, m, stage[m])
  /\ Forward(a, b) = stage[most + 1].trace

LEMMA SearchStartIs ==
  ASSUME NEW most \in Nat
  PROVE  LET f == SearchStart(most) IN
         /\ f \in Search(most) /\ f.trace = <<>> /\ f.found = FALSE
         /\ f.v \in Reach(most) /\ \A k \in (-most)..most : f.v[k] = 0
<1> DEFINE zeros == [k \in (-most)..most |-> 0]
<1>1. zeros \in Reach(most) /\ \A k \in (-most)..most : zeros[k] = 0
  BY DEF Reach
<1>2. <<>> \in Seq(Reach(most))
  OBVIOUS
<1>3. PICK no \in BOOLEAN : no = FALSE
  OBVIOUS
<1> HIDE DEF zeros
<1> DEFINE f == [trace |-> <<>>, v |-> zeros, found |-> no]
<1>4. f \in Search(most) /\ f.trace = <<>> /\ f.found = no /\ f.v = zeros
  BY <1>1, <1>2 DEF Search
<1>5. SearchStart(most) = f
  BY <1>3, Zenon DEF SearchStart, zeros
<1> HIDE DEF f
<1>6. QED
  BY <1>1, <1>3, <1>4, <1>5, Zenon

LEMMA SearchStepTyped ==
  ASSUME NEW a \in Seq(Names), NEW b \in Seq(Names), NEW most \in Nat \ {0},
         NEW d \in 0..most, NEW f \in Search(most)
  PROVE  SearchStep(a, b, d, f) \in Search(most)
<1> DEFINE r == Round(a, b, f.v, d)
           T == Reach(most)
<1>1. f.v \in T /\ f.trace \in Seq(T) /\ f.found \in BOOLEAN
  BY DEF Search
<1>2. RoundInv(a, b, most, f.v, d, d + 1, r)
  BY <1>1, RoundIs
<1> HIDE DEF r
<1>3. r.v \in T /\ r.found \in BOOLEAN
  BY <1>2 DEF RoundInv, RoundState
<1>4. SearchStep(a, b, d, f)
        = IF f.found THEN f ELSE [trace |-> Append(f.trace, f.v), v |-> r.v, found |-> r.found]
  BY DEF SearchStep, r
<1> HIDE DEF T
<1>5. Append(f.trace, f.v) \in Seq(T)
  BY <1>1
<1>6. [trace |-> Append(f.trace, f.v), v |-> r.v, found |-> r.found] \in Search(most)
  <2> DEFINE t == Append(f.trace, f.v)
  <2> HIDE DEF t
  <2>1. [trace |-> t, v |-> r.v, found |-> r.found] \in Search(most)
    BY <1>3, <1>5 DEF Search, T, t
  <2>2. QED
    BY <2>1 DEF t
<1>7. QED
  BY <1>4, <1>6

LEMMA SearchStages ==
  ASSUME NEW a \in Seq(Names), NEW b \in Seq(Names), Len(a) + Len(b) # 0
  PROVE  \E stage : SearchAlong(stage, a, b, Len(a) + Len(b))
<1> DEFINE most == Len(a) + Len(b)
           n == most + 1
           base == SearchStart(most)
           places == [i \in 1..(most + 1) |-> i - 1]
           B == Search(most)
           F == [i \in 1..n |-> [g \in B |-> SearchStep(a, b, i - 1, g)]]
           Equation(g) ==
             [s \in SUBSET (DOMAIN places) |->
                IF s = {} THEN base ELSE SearchStep(a, b, places[Max(s)], g[s \ {Max(s)}])]
           it == CHOOSE g : g = Equation(g)
<1>4. Forward(a, b) = it[DOMAIN places].trace
  BY DEF Forward, FoldLeft, MapThenFoldSet, SearchStep, SearchStart
<1>0. most \in Nat \ {0}
  OBVIOUS
<1>20. most = Len(a) + Len(b)
  OBVIOUS
<1> HIDE DEF most
<1>30. n \in Nat /\ n = most + 1
  BY <1>0
<1>1. DOMAIN places = 1..n /\ \A i \in 1..n : places[i] = i - 1
  OBVIOUS
<1>2. \A i \in 1..n, g \in B : SearchStep(a, b, i - 1, g) \in B
  <2>1. \A i \in 1..n : i - 1 \in 0..most
    BY <1>0
  <2>2. QED
    BY <1>0, <2>1, SearchStepTyped
<1>3. base \in B /\ Combines(F, n, B)
  <2>1. base \in B
    BY <1>0, SearchStartIs
  <2> HIDE DEF B, n
  <2>2. QED
    BY <1>2, <2>1 DEF Combines
<1>5. \A i \in 1..n, g \in B : F[i][g] = SearchStep(a, b, i - 1, g)
  OBVIOUS
<1> HIDE DEF places, B, F, n, base
<1>31. n \in Nat
  BY <1>30
<1>6. PICK g \in [SUBSET (1..n) -> B] : Folding(g, n, base, F)
  BY <1>31, <1>3, FoldExists
<1>7. \A s \in SUBSET (1..n) : s # {} =>
        Max(s) \in 1..n /\ places[Max(s)] = Max(s) - 1 /\ s \ {Max(s)} \in SUBSET (1..n)
  BY <1>31, <1>1, MaxIs
<1>8. g = Equation(g)
  <2>1. \A s \in SUBSET (1..n) : s # {} => g[s \ {Max(s)}] \in B
    BY <1>7
  <2>2. \A s \in SUBSET (1..n) : s # {} => F[Max(s)][g[s \ {Max(s)}]]
          = SearchStep(a, b, places[Max(s)], g[s \ {Max(s)}])
    BY <1>5, <1>7, <2>1
  <2>3. \A s \in SUBSET (1..n) :
          g[s] = IF s = {} THEN base ELSE SearchStep(a, b, places[Max(s)], g[s \ {Max(s)}])
    BY <1>6, <2>2 DEF Folding
  <2>4. QED
    BY <1>1, <2>3
<1>9. it = Equation(it)
  <2> HIDE DEF Equation
  <2>1. QED
    BY <1>8
<1>10. \A s \in SUBSET (1..n) :
        it[s] = IF s = {} THEN base ELSE SearchStep(a, b, places[Max(s)], it[s \ {Max(s)}])
  <2> HIDE DEF it
  <2>1. QED
    BY <1>1, <1>9
<1> HIDE DEF it
<1>11. Iterates(it, n, B, base, F)
  <2>1. it[{}] = base
    BY <1>10
  <2>2. ASSUME NEW s \in SUBSET (1..n), s # {}, it[s \ {Max(s)}] \in B
        PROVE  it[s] = F[Max(s)][it[s \ {Max(s)}]]
    <3>1. it[s] = SearchStep(a, b, Max(s) - 1, it[s \ {Max(s)}])
      BY <1>7, <1>10, <2>2
    <3>2. QED
      BY <1>5, <1>7, <2>2, <3>1
  <2>3. QED
    BY <2>1, <2>2 DEF Iterates
<1>12. PICK stage \in [0..n -> B] : StagesOf(stage, n, base, F) /\ it[1..n] = stage[n]
  <2> HIDE DEF Equation
  <2>2. QED
    BY <1>3, <1>11, <1>31, Stages
<1>13. ASSUME NEW m \in 0..most PROVE stage[m + 1] = SearchStep(a, b, m, stage[m])
  <2>1. m \in 0..(n - 1) /\ m + 1 \in 1..n /\ m \in 0..n /\ (m + 1) - 1 = m
    BY <1>0, <1>30
  <2>2. stage[m] \in B
    BY <2>1
  <2>3. QED
    BY <1>5, <1>12, <2>1, <2>2 DEF StagesOf
<1>14. stage[0] = base
  BY <1>12 DEF StagesOf
<1>15. \A m \in 0..n : stage[m] \in Search(most)
  BY DEF B
<1>16. SearchAlong(stage, a, b, most)
  BY <1>1, <1>4, <1>12, <1>13, <1>14, <1>15, <1>30 DEF SearchAlong, base
<1>17. QED
  BY <1>16, <1>20

(* The snapshots of v, and what the search has found out after m rounds.   *)
Snapshots(a, b, e, trace) ==
  /\ \A d \in 0..(Len(trace) - 1) : Prepared(e, trace[d + 1], d)
  /\ \A d \in 0..(Len(trace) - 2) : Follows(a, b, trace[d + 1], trace[d + 2], d)

SearchInv(a, b, e, most, m, f) ==
  /\ f \in Search(most)
  /\ Snapshots(a, b, e, f.trace)
  /\ f.found => Len(f.trace) = e[Len(a)][Len(b)] + 1
  /\ ~f.found => /\ Len(f.trace) = m /\ e[Len(a)][Len(b)] >= m /\ Prepared(e, f.v, m)
                 /\ m > 0 => Follows(a, b, f.trace[m], f.v, m - 1)

LEMMA SearchMore ==
  ASSUME NEW a \in Seq(Names), NEW b \in Seq(Names), NEW e, Edits(a, b, Len(a), Len(b), e),
         EndsAt(a, b, e), NEW most \in Nat \ {0}, NEW m \in 0..most, NEW f,
         SearchInv(a, b, e, most, m, f)
  PROVE  SearchInv(a, b, e, most, m + 1, SearchStep(a, b, m, f))
<1> DEFINE r == Round(a, b, f.v, m)
           next == SearchStep(a, b, m, f)
           end == e[Len(a)][Len(b)]
           T == Reach(most)
           t == f.trace
<1>1. f \in Search(most) /\ next \in Search(most) /\ f.v \in T /\ t \in Seq(T)
          /\ f.found \in BOOLEAN
  BY SearchStepTyped DEF SearchInv, Search
<1>2. Snapshots(a, b, e, t)
  BY DEF SearchInv
<1>3. CASE f.found
  <2>1. next = f
    BY <1>3 DEF SearchStep
  <2> HIDE DEF next
  <2>2. SearchInv(a, b, e, most, m + 1, f)
    BY <1>1, <1>2, <1>3 DEF SearchInv
  <2>3. QED
    BY <2>1, <2>2 DEF next
<1>4. CASE ~f.found
  <2>1. /\ Len(t) = m /\ end >= m /\ Prepared(e, f.v, m)
        /\ m > 0 => Follows(a, b, t[m], f.v, m - 1)
    BY <1>4 DEF SearchInv
  <2>2. /\ r.v \in T /\ r.found \in BOOLEAN /\ (r.found => end = m)
        /\ ~r.found => end >= m + 1 /\ Follows(a, b, f.v, r.v, m) /\ Prepared(e, r.v, m + 1)
    BY <1>1, <2>1, RoundCarries
  <2> DEFINE more == Append(t, f.v)
  <2>3. next = [trace |-> more, v |-> r.v, found |-> r.found]
    BY <1>4 DEF SearchStep
  <2> HIDE DEF next, r, T
  <2>4. next.trace = more /\ next.v = r.v /\ next.found = r.found
    BY <2>3
  <2>5. /\ more \in Seq(T) /\ Len(more) = m + 1 /\ more[m + 1] = f.v
        /\ \A d \in 1..m : more[d] = t[d]
    BY <1>1, <2>1
  <2> HIDE DEF more, t
  <2>6. ASSUME NEW d \in 0..m PROVE Prepared(e, more[d + 1], d)
    <3>1. CASE d = m
      BY <2>1, <2>5, <3>1
    <3>2. CASE d # m
      <4>1. d \in 0..(Len(t) - 1) /\ d + 1 \in 1..m
        BY <2>1, <3>2
      <4>2. QED
        BY <1>2, <2>5, <4>1 DEF Snapshots
    <3>3. QED
      BY <3>1, <3>2
  <2>7. ASSUME NEW d \in 0..(m - 1) PROVE Follows(a, b, more[d + 1], more[d + 2], d)
    <3>1. CASE d = m - 1
      <4>1. d + 1 = m /\ d + 2 = m + 1 /\ m > 0 /\ m \in 1..m
        BY <3>1
      <4>2. more[d + 1] = t[m] /\ more[d + 2] = f.v
        BY <2>5, <4>1
      <4>3. QED
        BY <2>1, <3>1, <4>1, <4>2
    <3>2. CASE d # m - 1
      <4>1. d \in 0..(Len(t) - 2) /\ d + 1 \in 1..m /\ d + 2 \in 1..m
        BY <2>1, <3>2
      <4>2. QED
        BY <1>2, <2>5, <4>1 DEF Snapshots
    <3>3. QED
      BY <3>1, <3>2
  <2>8. Snapshots(a, b, e, more)
    <3>1. Len(more) - 1 = m /\ Len(more) - 2 = m - 1
      BY <2>5
    <3>2. QED
      BY <2>6, <2>7, <3>1 DEF Snapshots
  <2>9. next.found => Len(more) = end + 1
    BY <2>2, <2>4, <2>5
  <2>10. ~next.found => /\ Len(more) = m + 1 /\ end >= m + 1 /\ Prepared(e, next.v, m + 1)
                        /\ Follows(a, b, more[m + 1], next.v, m)
    BY <2>2, <2>4, <2>5
  <2>11. (m + 1) - 1 = m
    OBVIOUS
  <2>12. SearchInv(a, b, e, most, m + 1, next)
    BY <1>1, <2>4, <2>8, <2>9, <2>10, <2>11 DEF SearchInv
  <2>13. QED
    BY <2>12 DEF next
<1>5. QED
  BY <1>3, <1>4

LEMMA SearchIs ==
  ASSUME NEW a \in Seq(Names), NEW b \in Seq(Names), NEW e, Edits(a, b, Len(a), Len(b), e),
         EndsAt(a, b, e), Len(a) + Len(b) # 0
  PROVE  LET trace == Forward(a, b) IN
         /\ trace \in Seq(Reach(Len(a) + Len(b))) /\ Len(trace) = e[Len(a)][Len(b)] + 1
         /\ Snapshots(a, b, e, trace)
<1> DEFINE most == Len(a) + Len(b)
           n == most + 1
           end == e[Len(a)][Len(b)]
<1>1. PICK stage : SearchAlong(stage, a, b, most)
  BY SearchStages
<1>2. /\ most \in Nat \ {0} /\ most = Len(a) + Len(b) /\ n \in Nat /\ n = most + 1 /\ n \in 0..n
      /\ most + 1 \in 0..(most + 1)
  OBVIOUS
<1>3. end \in Nat /\ end <= most
  <2>1. PICK c \in Nat : end = Len(a) + Len(b) - 2 * c
    BY DEF EndsAt
  <2>2. Len(a) \in Nat /\ Len(b) \in Nat
    OBVIOUS
  <2>3. Reached(e, Len(a), Len(b))
    BY <2>2 DEF Edits
  <2>4. end \in Nat
    BY <2>3 DEF Reached
  <2> HIDE DEF end
  <2>5. QED
    BY <2>1, <2>2, <2>4
<1> HIDE DEF most, n
<1> DEFINE S == {m \in 0..n : SearchInv(a, b, e, most, m, stage[m])}
<1>4. 0 \in S
  <2> DEFINE f == SearchStart(most)
  <2>1. /\ f \in Search(most) /\ f.trace = <<>> /\ f.found = FALSE
        /\ f.v \in Reach(most) /\ \A k \in (-most)..most : f.v[k] = 0
    BY <1>2, SearchStartIs
  <2>2. ~f.found
    BY <2>1, Zenon
  <2> HIDE DEF f
  <2>3. f.v[1] = 0
    <3>1. 1 \in (-most)..most
      BY <1>2
    <3>2. QED
      BY <2>1, <3>1
  <2>4. Prepared(e, f.v, 0)
    <3>1. \A i \in 0..0 : 2 * i - 0 = 0
      OBVIOUS
    <3>2. Before(e, f.v, 0, 0)
      BY <2>3 DEF Before
    <3>3. QED
      BY <3>1, <3>2 DEF Prepared
  <2>5. Len(f.trace) = 0
    BY <2>1
  <2>6. Snapshots(a, b, e, f.trace)
    <3>1. 0..(Len(f.trace) - 1) = {} /\ 0..(Len(f.trace) - 2) = {}
      BY <2>5
    <3>2. QED
      BY <3>1 DEF Snapshots
  <2>7. end >= 0 /\ ~(0 > 0)
    BY <1>3
  <2>8. SearchInv(a, b, e, most, 0, f)
    BY <2>1, <2>2, <2>4, <2>5, <2>6, <2>7 DEF SearchInv
  <2>9. stage[0] = f /\ 0 \in 0..n
    BY <1>1, <1>2 DEF SearchAlong, f
  <2>10. QED
    BY <2>8, <2>9
<1>5. ASSUME NEW m \in 0..(n - 1), m \in S PROVE m + 1 \in S
  <2>1. m \in 0..most /\ m + 1 \in 0..n
    BY <1>2
  <2>2. stage[m + 1] = SearchStep(a, b, m, stage[m])
    BY <1>1, <2>1 DEF SearchAlong
  <2>3. SearchInv(a, b, e, most, m, stage[m]) /\ most \in Nat \ {0}
    BY <1>2, <1>5
  <2>4. SearchInv(a, b, e, most, m + 1, stage[m + 1])
    BY <2>1, <2>2, <2>3, SearchMore
  <2>5. QED
    BY <2>1, <2>4
<1>6. n \in S
  <2> HIDE DEF S
  <2>1. n \in Nat /\ n \in 0..n
    BY <1>2
  <2>2. QED
    BY <1>4, <1>5, <2>1, UpTo
<1>7. SearchInv(a, b, e, most, most + 1, stage[most + 1])
  BY <1>2, <1>6
<1> DEFINE f == stage[most + 1]
<1>8. f.trace = Forward(a, b)
  BY <1>1 DEF SearchAlong
<1> HIDE DEF f
<1>9. f.found
  <2> SUFFICES ASSUME ~f.found PROVE FALSE
    OBVIOUS
  <2>1. end >= most + 1
    BY <1>7 DEF SearchInv, f
  <2> HIDE DEF end
  <2>2. QED
    BY <1>2, <1>3, <2>1
<1>10. Len(f.trace) = end + 1 /\ Snapshots(a, b, e, f.trace) /\ f \in Search(most)
  BY <1>7, <1>9 DEF SearchInv, f
<1>11. f.trace \in Seq(Reach(most))
  BY <1>10 DEF Search
<1>12. QED
  BY <1>8, <1>10, <1>11 DEF most

-----------------------------------------------------------------------------
(* The way back, as a fold.                                                *)
BackAt(a, b, trace, i, p) == Back(a, b, trace[(Len(trace) - i) + 1], Len(trace) - i, p)

Unfolding(g, n, a, b, trace, base) ==
  /\ g = [s \in SUBSET (1..n) |-> g[s]]
  /\ \A s \in SUBSET (1..n) :
       g[s] = IF s = {} THEN base ELSE BackAt(a, b, trace, Max(s), g[s \ {Max(s)}])

LEMMA UnfoldMore ==
  ASSUME NEW m \in Nat, NEW a, NEW b, NEW trace, NEW base, NEW g, Unfolding(g, m, a, b, trace, base)
  PROVE  \E h : Unfolding(h, m + 1, a, b, trace, base)
<1> DEFINE h == [s \in SUBSET (1..(m + 1)) |->
                   IF m + 1 \in s THEN BackAt(a, b, trace, m + 1, g[s \ {m + 1}]) ELSE g[s]]
<1>1. ASSUME NEW s \in SUBSET (1..(m + 1))
      PROVE  /\ s \ {m + 1} \in SUBSET (1..m) /\ s \ {m + 1} \in SUBSET (1..(m + 1))
             /\ m + 1 \notin s => s \in SUBSET (1..m)
  OBVIOUS
<1>2. h = [s \in SUBSET (1..(m + 1)) |-> h[s]]
  OBVIOUS
<1>3. \A s \in SUBSET (1..(m + 1)) :
        h[s] = IF m + 1 \in s THEN BackAt(a, b, trace, m + 1, g[s \ {m + 1}]) ELSE g[s]
  OBVIOUS
<1> HIDE DEF h
<1>4. ASSUME NEW s \in SUBSET (1..(m + 1)), s # {}
      PROVE  h[s] = BackAt(a, b, trace, Max(s), h[s \ {Max(s)}])
  <2>1. Max(s) \in s /\ \A x \in s : x <= Max(s)
    BY <1>4, MaxIs, m + 1 \in Nat
  <2>2. CASE m + 1 \in s
    <3>1. Max(s) = m + 1
      <4>1. Max(s) \in 1..(m + 1) /\ m + 1 <= Max(s)
        BY <2>1, <2>2
      <4>2. QED
        BY <4>1
    <3>2. h[s \ {m + 1}] = g[s \ {m + 1}]
      BY <1>1, <1>3
    <3>3. QED
      BY <1>3, <2>2, <3>1, <3>2
  <2>3. CASE m + 1 \notin s
    <3>1. s \in SUBSET (1..m) /\ s \ {Max(s)} \in SUBSET (1..m)
              /\ s \ {Max(s)} \in SUBSET (1..(m + 1))
      BY <1>1, <2>3
    <3>2. h[s] = g[s] /\ h[s \ {Max(s)}] = g[s \ {Max(s)}]
      <4>1. m + 1 \notin s \ {Max(s)}
        BY <2>3
      <4>2. QED
        BY <1>3, <2>3, <3>1, <4>1
    <3>3. g[s] = BackAt(a, b, trace, Max(s), g[s \ {Max(s)}])
      BY <1>4, <3>1 DEF Unfolding
    <3>4. QED
      BY <3>2, <3>3
  <2>4. QED
    BY <2>2, <2>3
<1>5. h[{}] = base
  <2>1. {} \in SUBSET (1..(m + 1)) /\ {} \in SUBSET (1..m) /\ m + 1 \notin {}
    OBVIOUS
  <2>2. h[{}] = g[{}] /\ g[{}] = base
    BY <1>3, <2>1 DEF Unfolding
  <2>3. QED
    BY <2>2
<1>6. Unfolding(h, m + 1, a, b, trace, base)
  BY <1>2, <1>4, <1>5 DEF Unfolding
<1>7. QED
  BY <1>6

LEMMA UnfoldExists ==
  ASSUME NEW n \in Nat, NEW a, NEW b, NEW trace, NEW base
  PROVE  \E g : Unfolding(g, n, a, b, trace, base)
<1> DEFINE S == {m \in 0..n : \E g : Unfolding(g, m, a, b, trace, base)}
<1>1. 0 \in S
  <2> DEFINE g == [s \in SUBSET (1..0) |-> base]
  <2>1. g = [s \in SUBSET (1..0) |-> g[s]] /\ \A s \in SUBSET (1..0) : s = {} /\ g[s] = base
    OBVIOUS
  <2> HIDE DEF g
  <2>2. Unfolding(g, 0, a, b, trace, base)
    BY <2>1 DEF Unfolding
  <2>3. 0 \in 0..n
    OBVIOUS
  <2>4. QED
    BY <2>2, <2>3
<1>2. ASSUME NEW m \in 0..(n - 1), m \in S PROVE m + 1 \in S
  <2>1. m \in Nat /\ m + 1 \in 0..n
    OBVIOUS
  <2>2. QED
    BY <1>2, <2>1, UnfoldMore
<1>3. n \in S
  <2> HIDE DEF S
  <2>1. n \in 0..n
    OBVIOUS
  <2>2. QED
    BY <1>1, <1>2, <2>1, UpTo
<1>4. QED
  BY <1>3

BackAlong(stage, a, b, trace, n) ==
  /\ stage[0] = [x |-> Len(a), y |-> Len(b), ops |-> <<>>]
  /\ \A m \in 0..(n - 1) : stage[m + 1] = Back(a, b, trace[n - m + 1], n - m, stage[m])
  /\ Myers(a, b) = LET end == stage[n]
                       l   == Min({end.x, end.y})
                   IN  Ops("e", SubSeq(a, end.x - l + 1, end.x)) \o end.ops

LEMMA BackStages ==
  ASSUME NEW a, NEW b, NEW n \in Nat, Len(Forward(a, b)) = n + 1
  PROVE  \E stage : BackAlong(stage, a, b, Forward(a, b), n)
<1> DEFINE trace == Forward(a, b)
           base == [x |-> Len(a), y |-> Len(b), ops |-> <<>>]
           rounds == [i \in 1..(Len(trace) - 1) |-> Len(trace) - i]
           Equation(g) ==
             [s \in SUBSET (DOMAIN rounds) |->
                IF s = {} THEN base
                ELSE Back(a, b, trace[rounds[Max(s)] + 1], rounds[Max(s)], g[s \ {Max(s)}])]
           it == CHOOSE g : g = Equation(g)
           end == it[DOMAIN rounds]
           l == Min({end.x, end.y})
<1>1. Myers(a, b) = Ops("e", SubSeq(a, end.x - l + 1, end.x)) \o end.ops
  BY DEF Myers, FoldLeft, MapThenFoldSet
<1>2. Len(trace) = n + 1
  OBVIOUS
<1> HIDE DEF trace
<1>3. DOMAIN rounds = 1..n /\ \A i \in 1..n : rounds[i] = Len(trace) - i
  BY <1>2
<1> HIDE DEF rounds, base, l
<1>4. PICK g : Unfolding(g, n, a, b, trace, base)
  BY UnfoldExists
<1>5. \A s \in SUBSET (1..n) : s # {} => Max(s) \in 1..n
  BY MaxIs
<1>6. g = Equation(g)
  <2>1. \A s \in SUBSET (1..n) : s # {} =>
          Back(a, b, trace[rounds[Max(s)] + 1], rounds[Max(s)], g[s \ {Max(s)}])
            = BackAt(a, b, trace, Max(s), g[s \ {Max(s)}])
    BY <1>3, <1>5 DEF BackAt
  <2>2. \A s \in SUBSET (1..n) : g[s] = Equation(g)[s]
    BY <1>3, <1>4, <2>1 DEF Unfolding
  <2>3. Equation(g) = [s \in SUBSET (1..n) |-> Equation(g)[s]]
    BY <1>3
  <2> HIDE DEF Equation
  <2>4. g = [s \in SUBSET (1..n) |-> g[s]]
    BY <1>4 DEF Unfolding
  <2>5. QED
    BY <2>2, <2>3, <2>4
<1>7. it = Equation(it)
  <2> HIDE DEF Equation
  <2>1. QED
    BY <1>6
<1>8. \A s \in SUBSET (1..n) :
        it[s] = IF s = {} THEN base
                ELSE Back(a, b, trace[rounds[Max(s)] + 1], rounds[Max(s)], it[s \ {Max(s)}])
  <2> HIDE DEF it
  <2>1. QED
    BY <1>3, <1>7
<1> HIDE DEF it
<1> DEFINE stage == [m \in 0..n |-> it[1..m]]
<1>9. stage[0] = base
  <2>1. 1..0 = {} /\ 0 \in 0..n
    OBVIOUS
  <2>2. it[{}] = base
    BY <1>8
  <2>3. QED
    BY <2>1, <2>2
<1>10. ASSUME NEW m \in 0..(n - 1)
       PROVE  stage[m + 1] = Back(a, b, trace[n - m + 1], n - m, stage[m])
  <2>1. /\ (1..(m + 1)) \in SUBSET (1..n) /\ 1..(m + 1) # {} /\ Max(1..(m + 1)) = m + 1
        /\ (1..(m + 1)) \ {m + 1} = 1..m
    BY OneFurther
  <2>2. m + 1 \in 1..n /\ m + 1 \in 0..n /\ m \in 0..n
    OBVIOUS
  <2>3. it[1..(m + 1)] = Back(a, b, trace[rounds[m + 1] + 1], rounds[m + 1], it[1..m])
    BY <1>8, <2>1
  <2>4. rounds[m + 1] = n - m
    BY <1>2, <1>3, <2>2
  <2>5. QED
    BY <2>2, <2>3, <2>4
<1>11. end = stage[n]
  BY <1>3
<1> HIDE DEF stage
<1>12. BackAlong(stage, a, b, trace, n)
  <2>1. Myers(a, b) = LET q == stage[n]
                          z == Min({q.x, q.y})
                      IN  Ops("e", SubSeq(a, q.x - z + 1, q.x)) \o q.ops
    BY <1>1, <1>11 DEF l
  <2>2. QED
    BY <1>9, <1>10, <2>1 DEF BackAlong, base
<1>13. QED
  BY <1>12 DEF trace

-----------------------------------------------------------------------------
(* Stretches of a text.                                                    *)
LEMMA StretchIs ==
  ASSUME NEW a \in Seq(Names), NEW x \in 0..Len(a), NEW z \in x..Len(a)
  PROVE  /\ SubSeq(a, x + 1, z) \in Seq(Names) /\ Len(SubSeq(a, x + 1, z)) = z - x
         /\ \A i \in 1..(z - x) : SubSeq(a, x + 1, z)[i] = a[x + i]
<1> DEFINE n == Len(a)
<1>1. n \in Nat /\ DOMAIN a = 1..n /\ \A i \in 1..n : a[i] \in Names
  OBVIOUS
<1>2. x \in 0..n /\ z \in x..n
  OBVIOUS
<1> HIDE DEF n
<1>3. (1 + z) - (x + 1) = z - x /\ \A i \in 1..(z - x) : (x + 1) + i - 1 = x + i /\ x + i \in 1..n
  BY <1>1, <1>2
<1>4. SubSeq(a, x + 1, z) = [i \in 1..(1 + z - (x + 1)) |-> a[i + (x + 1) - 1]]
  OBVIOUS
<1>5. \A i \in 1..(z - x) : i + (x + 1) - 1 = x + i /\ a[x + i] \in Names
  BY <1>1, <1>2, <1>3
<1>6. SubSeq(a, x + 1, z) = [i \in 1..(z - x) |-> a[x + i]]
  BY <1>3, <1>4, <1>5
<1>7. z - x \in Nat
  BY <1>1, <1>2
<1>8. QED
  BY <1>5, <1>6, <1>7

LEMMA SameText ==
  ASSUME NEW s \in Seq(Names), NEW t \in Seq(Names), Len(s) = Len(t),
         \A i \in 1..Len(s) : s[i] = t[i]
  PROVE  s = t
OBVIOUS

LEMMA JoinedIs ==
  ASSUME NEW s \in Seq(Names), NEW t \in Seq(Names)
  PROVE  /\ s \o t \in Seq(Names) /\ Len(s \o t) = Len(s) + Len(t)
         /\ \A i \in 1..Len(s) : (s \o t)[i] = s[i]
         /\ \A i \in 1..Len(t) : (s \o t)[Len(s) + i] = t[i]
OBVIOUS

LEMMA StretchesJoin ==
  ASSUME NEW a \in Seq(Names), NEW x \in 0..Len(a), NEW y \in x..Len(a), NEW z \in y..Len(a)
  PROVE  SubSeq(a, x + 1, y) \o SubSeq(a, y + 1, z) = SubSeq(a, x + 1, z)
<1> DEFINE n == Len(a)
           s == SubSeq(a, x + 1, y)
           t == SubSeq(a, y + 1, z)
           u == SubSeq(a, x + 1, z)
<1>1. n \in Nat /\ x \in 0..n /\ y \in x..n /\ z \in y..n /\ y \in 0..n /\ z \in x..n
  OBVIOUS
<1>2. s \in Seq(Names) /\ Len(s) = y - x /\ \A i \in 1..(y - x) : s[i] = a[x + i]
  BY StretchIs
<1>3. t \in Seq(Names) /\ Len(t) = z - y /\ \A i \in 1..(z - y) : t[i] = a[y + i]
  BY <1>1, StretchIs
<1>4. u \in Seq(Names) /\ Len(u) = z - x /\ \A i \in 1..(z - x) : u[i] = a[x + i]
  BY <1>1, StretchIs
<1> HIDE DEF s, t, u, n
<1>5. /\ s \o t \in Seq(Names) /\ Len(s \o t) = (y - x) + (z - y)
      /\ \A i \in 1..(y - x) : (s \o t)[i] = s[i]
      /\ \A i \in 1..(z - y) : (s \o t)[(y - x) + i] = t[i]
  <2>1. /\ s \o t \in Seq(Names) /\ Len(s \o t) = Len(s) + Len(t)
        /\ \A i \in 1..Len(s) : (s \o t)[i] = s[i]
        /\ \A i \in 1..Len(t) : (s \o t)[Len(s) + i] = t[i]
    BY <1>2, <1>3, JoinedIs
  <2>2. QED
    BY <1>2, <1>3, <2>1
<1> DEFINE w == s \o t
<1> HIDE DEF w
<1>6. w \in Seq(Names) /\ Len(w) = z - x
  BY <1>1, <1>5 DEF w
<1>7. ASSUME NEW i \in 1..(z - x) PROVE w[i] = u[i]
  <2>1. CASE i <= y - x
    <3>1. i \in 1..(y - x)
      BY <1>1, <2>1
    <3>2. QED
      BY <1>2, <1>4, <1>5, <3>1 DEF w
  <2>2. CASE i > y - x
    <3>1. i - (y - x) \in 1..(z - y) /\ (y - x) + (i - (y - x)) = i /\ y + (i - (y - x)) = x + i
      BY <1>1, <2>2
    <3>2. w[(y - x) + (i - (y - x))] = t[i - (y - x)] /\ t[i - (y - x)] = a[y + (i - (y - x))]
      BY <1>3, <1>5, <3>1 DEF w
    <3>3. QED
      BY <1>4, <3>1, <3>2
  <2>3. QED
    BY <1>1, <2>1, <2>2
<1>8. w = u
  BY <1>4, <1>6, <1>7, SameText
<1>9. QED
  BY <1>8 DEF w, s, t, u

LEMMA WholeText ==
  ASSUME NEW a \in Seq(Names)
  PROVE  SubSeq(a, 1, Len(a)) = a /\ SubSeq(a, Len(a) + 1, Len(a)) = <<>>
<1>1. Len(a) \in Nat /\ 0 \in 0..Len(a) /\ Len(a) \in 0..Len(a) /\ Len(a) \in Len(a)..Len(a)
  OBVIOUS
<1>2. /\ SubSeq(a, 0 + 1, Len(a)) \in Seq(Names) /\ Len(SubSeq(a, 0 + 1, Len(a))) = Len(a) - 0
      /\ \A i \in 1..(Len(a) - 0) : SubSeq(a, 0 + 1, Len(a))[i] = a[0 + i]
  BY <1>1, StretchIs
<1>3. SubSeq(a, Len(a) + 1, Len(a)) \in Seq(Names)
        /\ Len(SubSeq(a, Len(a) + 1, Len(a))) = Len(a) - Len(a)
  BY <1>1, StretchIs
<1>4. 0 + 1 = 1 /\ Len(a) - 0 = Len(a) /\ Len(a) - Len(a) = 0 /\ \A i \in 1..Len(a) : 0 + i = i
  BY <1>1
<1> DEFINE s == SubSeq(a, 1, Len(a))
           t == SubSeq(a, Len(a) + 1, Len(a))
<1>5. s \in Seq(Names) /\ Len(s) = Len(a) /\ \A i \in 1..Len(s) : s[i] = a[i]
  BY <1>2, <1>4
<1>6. t \in Seq(Names) /\ Len(t) = 0
  BY <1>3, <1>4
<1> HIDE DEF s, t
<1>7. s = a
  BY <1>5, SameText
<1>8. t = <<>>
  BY <1>6
<1>9. QED
  BY <1>7, <1>8 DEF s, t

(* Lines that agree along a diagonal are the same stretch of both texts.   *)
LEMMA SameStretch ==
  ASSUME NEW a \in Seq(Names), NEW b \in Seq(Names), NEW k \in Int,
         NEW x \in 0..Len(a), NEW z \in x..Len(a), x - k \in 0..Len(b), z - k \in 0..Len(b),
         \A i \in (x + 1)..z : Agrees(a, b, Len(a), Len(b), i, i - k)
  PROVE  SubSeq(a, x + 1, z) = SubSeq(b, (x - k) + 1, z - k)
<1> DEFINE n == Len(a)
           m == Len(b)
           y == x - k
           w == z - k
           s == SubSeq(a, x + 1, z)
           t == SubSeq(b, y + 1, w)
<1>1. n \in Nat /\ m \in Nat /\ x \in 0..n /\ z \in x..n /\ y \in 0..m /\ w \in y..m
          /\ w - y = z - x
  OBVIOUS
<1>2. s \in Seq(Names) /\ Len(s) = z - x /\ \A i \in 1..(z - x) : s[i] = a[x + i]
  BY StretchIs
<1>3. t \in Seq(Names) /\ Len(t) = w - y /\ \A i \in 1..(w - y) : t[i] = b[y + i]
  BY <1>1, StretchIs
<1> HIDE DEF s, t
<1>4. ASSUME NEW i \in 1..(z - x) PROVE s[i] = t[i]
  <2>1. x + i \in (x + 1)..z /\ (x + i) - k = y + i /\ i \in 1..(w - y)
    BY <1>1
  <2>2. Agrees(a, b, n, m, x + i, (x + i) - k)
    BY <2>1
  <2>3. a[x + i] = b[(x + i) - k]
    BY <2>2 DEF Agrees
  <2> HIDE DEF y, w
  <2>4. QED
    BY <1>2, <1>3, <2>1, <2>3
<1> HIDE DEF y, w, n, m
<1>5. s = t
  BY <1>1, <1>2, <1>3, <1>4, SameText
<1>6. QED
  BY <1>5 DEF s, t, y, w

-----------------------------------------------------------------------------
(* The script grows at its front.                                          *)
LEMMA NothingJoined == \A s \in Seq(Names) : <<>> \o s = s /\ s \o <<>> = s
OBVIOUS

LEMMA OperationsJoin ==
  ASSUME NEW s \in Seq(Operation), NEW t \in Seq(Operation)
  PROVE  s \o t \in Seq(Operation)
<1> DEFINE T == Operation
<1> HIDE DEF T
<1>1. s \in Seq(T) /\ t \in Seq(T)
  BY DEF T
<1>2. s \o t \in Seq(T)
  BY <1>1
<1>3. QED
  BY <1>2 DEF T

Longer(op, c, q, ops, more) ==
  /\ more \in Seq(Operation)
  /\ LinesOf(more, {"e", "d"})
       = (IF op = "d" THEN <<c>> \o q ELSE q) \o LinesOf(ops, {"e", "d"})
  /\ LinesOf(more, {"e", "i"})
       = (IF op = "i" THEN <<c>> \o q ELSE q) \o LinesOf(ops, {"e", "i"})
  /\ LinesOf(more, {"e"}) = q \o LinesOf(ops, {"e"})

LEMMA ScriptMore ==
  ASSUME NEW op \in {"d", "i"}, NEW c \in Names, NEW q \in Seq(Names), NEW ops \in Seq(Operation)
  PROVE  Longer(op, c, q, ops, <<Op(op, c)>> \o Ops("e", q) \o ops)
<1> DEFINE edit == Ops(op, <<c>>)
           snake == Ops("e", q)
           head == edit \o snake
<1>1. <<Op(op, c)>> = edit
  <2>1. DOMAIN <<c>> = {1} /\ <<c>>[1] = c
    OBVIOUS
  <2>2. edit = [i \in {1} |-> Op(op, c)]
    BY <2>1 DEF Ops
  <2>3. QED
    BY <2>2
<1>2. <<c>> \in Seq(Names) /\ op \in {"e", "d", "i"} /\ "e" \in {"e", "d", "i"}
  OBVIOUS
<1>3. edit \in Seq(Operation) /\ snake \in Seq(Operation)
  BY <1>2, OperationsAre
<1>4. \A kinds : LinesOf(edit, kinds) = IF op \in kinds THEN <<c>> ELSE <<>>
  <2> DEFINE one == <<c>>
  <2> HIDE DEF one
  <2>1. \A kinds : LinesOf(Ops(op, one), kinds) = IF op \in kinds THEN one ELSE <<>>
    BY <1>2, LinesOfOps DEF one
  <2>2. QED
    BY <2>1 DEF one
<1>5. \A kinds : LinesOf(snake, kinds) = IF "e" \in kinds THEN q ELSE <<>>
  BY <1>2, LinesOfOps
<1> HIDE DEF edit, snake
<1>6. head \in Seq(Operation)
  BY <1>3, OperationsJoin
<1>7. \A kinds : LinesOf(head, kinds) = LinesOf(edit, kinds) \o LinesOf(snake, kinds)
  BY <1>3, LinesJoined
<1> HIDE DEF head
<1>8. head \o ops \in Seq(Operation)
  BY <1>6, OperationsJoin
<1>9. \A kinds : LinesOf(head \o ops, kinds) = LinesOf(head, kinds) \o LinesOf(ops, kinds)
  BY <1>6, LinesJoined
<1>10. <<c>> \in Seq(Names) /\ <<>> \o q = q
  BY NothingJoined
<1>11. LinesOf(head, {"e", "d"}) = IF op = "d" THEN <<c>> \o q ELSE q
  <2>1. LinesOf(snake, {"e", "d"}) = q
    BY <1>5
  <2>2. LinesOf(edit, {"e", "d"}) = IF op = "d" THEN <<c>> ELSE <<>>
    BY <1>4
  <2>3. QED
    BY <1>7, <1>10, <2>1, <2>2
<1>12. LinesOf(head, {"e", "i"}) = IF op = "i" THEN <<c>> \o q ELSE q
  <2>1. LinesOf(snake, {"e", "i"}) = q
    BY <1>5
  <2>2. LinesOf(edit, {"e", "i"}) = IF op = "i" THEN <<c>> ELSE <<>>
    BY <1>4
  <2>3. QED
    BY <1>7, <1>10, <2>1, <2>2
<1>13. LinesOf(head, {"e"}) = q
  <2>1. LinesOf(snake, {"e"}) = q
    BY <1>5
  <2>2. LinesOf(edit, {"e"}) = <<>>
    BY <1>4
  <2>3. QED
    BY <1>7, <1>10, <2>1, <2>2
<1>14. <<Op(op, c)>> \o Ops("e", q) \o ops = head \o ops
  BY <1>1 DEF head, snake
<1>15. QED
  <2> DEFINE more == head \o ops
  <2>1. /\ more \in Seq(Operation)
        /\ \A kinds : LinesOf(more, kinds) = LinesOf(head, kinds) \o LinesOf(ops, kinds)
    BY <1>8, <1>9
  <2> HIDE DEF more
  <2>2. Longer(op, c, q, ops, more)
    BY <1>11, <1>12, <1>13, <2>1 DEF Longer
  <2>3. QED
    BY <1>14, <2>2 DEF more

-----------------------------------------------------------------------------
(* One round of the way back: the snake of the round and the edit before it.*)
Edited(a, b, x, z, k, above, ops) ==
  LET snake == Ops("e", SubSeq(a, x + 1, z))
  IN  IF above THEN [x |-> x, y |-> x - k - 1, ops |-> <<Op("i", b[x - k])>> \o snake \o ops]
      ELSE [x |-> x - 1, y |-> x - k, ops |-> <<Op("d", a[x])>> \o snake \o ops]

At(p, z, w) == p.x = z /\ p.y = w

LEMMA BackLands ==
  ASSUME NEW a, NEW b, NEW v, NEW d, NEW p, NEW z \in Int, NEW w \in Int, At(p, z, w),
         NEW k \in Int, w = z - k, Start(v, k, d) \in Int, Start(v, k, d) <= z,
         FromAbove(v, k, d) => v[k + 1] \in Int, ~FromAbove(v, k, d) => v[k - 1] \in Int
  PROVE  Back(a, b, v, d, p) = Edited(a, b, Start(v, k, d), z, k, FromAbove(v, k, d), p.ops)
<1> DEFINE above == FromAbove(v, k, d)
           prevX == IF above THEN v[k + 1] ELSE v[k - 1]
           prevY == prevX - (IF above THEN k + 1 ELSE k - 1)
           l     == Max({0, Min({z - prevX, w - prevY})})
           x     == Start(v, k, d)
<1>1. Back(a, b, v, d, p)
        = IF z - l = prevX
          THEN [x |-> z - l, y |-> (w - l) - 1,
                ops |-> <<Op("i", b[w - l])>> \o Ops("e", SubSeq(a, (z - l) + 1, z)) \o p.ops]
          ELSE [x |-> (z - l) - 1, y |-> w - l,
                ops |-> <<Op("d", a[z - l])>> \o Ops("e", SubSeq(a, (z - l) + 1, z)) \o p.ops]
  <2>1. z - w = k
    OBVIOUS
  <2>2. p.x = z /\ p.y = w
    BY DEF At
  <2>3. QED
    BY <2>1, <2>2 DEF Back
<1>2. x \in Int /\ x <= z
  OBVIOUS
<1>3. CASE above
  <2>1. x = v[k + 1] /\ prevX = x /\ prevY = x - (k + 1)
    BY <1>3 DEF Start
  <2> HIDE DEF above, prevX, prevY, x
  <2>2. z - prevX \in Nat /\ w - prevY = (z - prevX) + 1 /\ z - prevX = z - x
    BY <1>2, <2>1
  <2>3. Min({z - prevX, w - prevY}) = z - x
    <3>1. z - prevX \in Int /\ w - prevY \in Int /\ z - prevX <= w - prevY
      BY <2>2
    <3>2. QED
      BY <2>2, <3>1, MinOfTwo
  <2>4. l = z - x
    <3>1. z - x \in Int /\ (0 >= z - x => z - x = 0) /\ 0 \in Int
      BY <1>2
    <3>2. Max({0, z - x}) = IF 0 >= z - x THEN 0 ELSE z - x
      BY <3>1, MaxOfTwo
    <3>3. QED
      BY <2>3, <3>1, <3>2
  <2> HIDE DEF l
  <2>5. z - l = x /\ w - l = x - k /\ x = prevX
    BY <1>2, <2>1, <2>4
  <2>6. Back(a, b, v, d, p) = [x |-> x, y |-> (x - k) - 1,
          ops |-> <<Op("i", b[x - k])>> \o Ops("e", SubSeq(a, x + 1, z)) \o p.ops]
    BY <1>1, <2>5
  <2>7. QED
    BY <1>3, <2>6 DEF Edited, above, x
<1>4. CASE ~above
  <2>1. x = v[k - 1] + 1 /\ prevX = v[k - 1] /\ prevY = v[k - 1] - (k - 1) /\ v[k - 1] \in Int
    BY <1>4 DEF Start
  <2> HIDE DEF above, prevX, prevY, x
  <2>0. prevX = x - 1 /\ prevY = x - k
    BY <1>2, <2>1
  <2>2. z - x \in Nat /\ z - prevX = (z - x) + 1 /\ w - prevY = z - x
    BY <1>2, <2>0
  <2>3. Min({z - prevX, w - prevY}) = z - x
    <3>1. z - prevX \in Int /\ w - prevY \in Int /\ ~(z - prevX <= w - prevY)
      BY <2>2
    <3>2. QED
      BY <2>2, <3>1, MinOfTwo
  <2>4. l = z - x
    <3>1. z - x \in Int /\ (0 >= z - x => z - x = 0) /\ 0 \in Int
      BY <1>2
    <3>2. Max({0, z - x}) = IF 0 >= z - x THEN 0 ELSE z - x
      BY <3>1, MaxOfTwo
    <3>3. QED
      BY <2>3, <3>1, <3>2
  <2> HIDE DEF l
  <2>5. z - l = x /\ w - l = x - k /\ x # prevX
    BY <1>2, <2>0, <2>4
  <2>6. Back(a, b, v, d, p) = [x |-> x - 1, y |-> x - k,
          ops |-> <<Op("d", a[x])>> \o Ops("e", SubSeq(a, x + 1, z)) \o p.ops]
    BY <1>1, <2>5
  <2>7. QED
    BY <1>4, <2>6 DEF Edited, above, x
<1>5. QED
  BY <1>3, <1>4

(* What is in the script when the way back has come to round d.            *)
OnDiagonal(k, d) == \E i \in 0..d : k = 2 * i - d

Behind(a, b, n, m, end, d, p) ==
  /\ p.x \in 0..n /\ p.y \in 0..m
  /\ p.ops \in Seq(Operation)
  /\ LinesOf(p.ops, {"e", "d"}) = SubSeq(a, p.x + 1, n)
  /\ LinesOf(p.ops, {"e", "i"}) = SubSeq(b, p.y + 1, m)
  /\ LinesOf(p.ops, {"e"}) \in Seq(Names)
  /\ 2 * Len(LinesOf(p.ops, {"e"})) = (n - p.x) + (m - p.y) - (end - d)

LEMMA EditedIs ==
  ASSUME NEW a \in Seq(Names), NEW b \in Seq(Names), NEW end \in Nat, NEW d \in Nat \ {0},
         NEW p, Behind(a, b, Len(a), Len(b), end, d, p),
         NEW z \in Int, NEW w \in Int, At(p, z, w), NEW k \in Int, w = z - k,
         NEW x \in Nat, x - k \in Nat, SlidTo(a, b, x, k, z), NEW above \in BOOLEAN,
         IF above THEN x - k >= 1 ELSE x >= 1
  PROVE  Behind(a, b, Len(a), Len(b), end, d - 1, Edited(a, b, x, z, k, above, p.ops))
<1> DEFINE n == Len(a)
           m == Len(b)
           y == x - k
           q == SubSeq(a, x + 1, z)
           ops == p.ops
<1>1. /\ z \in 0..n /\ w \in 0..m /\ ops \in Seq(Operation)
      /\ LinesOf(ops, {"e", "d"}) = SubSeq(a, z + 1, n)
      /\ LinesOf(ops, {"e", "i"}) = SubSeq(b, w + 1, m)
      /\ LinesOf(ops, {"e"}) \in Seq(Names)
      /\ 2 * Len(LinesOf(ops, {"e"})) = (n - z) + (m - w) - (end - d)
  BY DEF Behind, At
<1>2. n \in Nat /\ m \in Nat /\ w = z - k
  <2>1. n \in Nat /\ m \in Nat
    OBVIOUS
  <2>2. QED
    BY <1>1, <2>1
<1>3. x <= z /\ \A i \in (x + 1)..z : Agrees(a, b, n, m, i, i - k)
  BY DEF SlidTo
<1>4. x \in 0..n /\ z \in x..n /\ y \in 0..m /\ w \in y..m
  BY <1>1, <1>2, <1>3
<1>5. /\ q \in Seq(Names) /\ Len(q) = z - x
      /\ \A i \in 1..(z - x) : q[i] = a[x + i]
  BY <1>4, StretchIs
<1>6. q = SubSeq(b, y + 1, w)
  <2>1. z - k \in 0..m
    BY <1>1, <1>2
  <2>2. SubSeq(a, x + 1, z) = SubSeq(b, (x - k) + 1, z - k)
    <3>1. /\ x \in 0..Len(a) /\ z \in x..Len(a)
          /\ x - k \in 0..Len(b) /\ z - k \in 0..Len(b)
      BY <1>4, <2>1
    <3>2. \A i \in (x + 1)..z : Agrees(a, b, Len(a), Len(b), i, i - k)
      BY <1>3
    <3> HIDE DEF n, m, y, q, ops
    <3>3. QED
      BY <3>1, <3>2, SameStretch
  <2>3. QED
    BY <1>2, <2>2
<1>7. q \o SubSeq(a, z + 1, n) = SubSeq(a, x + 1, n)
  <2>1. n \in z..n
    BY <1>1, <1>2
  <2>2. QED
    BY <1>4, <2>1, StretchesJoin
<1>8. q \o SubSeq(b, w + 1, m) = SubSeq(b, y + 1, m)
  <2>1. m \in w..m
    BY <1>1, <1>2
  <2>2. SubSeq(b, y + 1, w) \o SubSeq(b, w + 1, m) = SubSeq(b, y + 1, m)
    BY <1>4, <2>1, StretchesJoin
  <2>3. QED
    BY <1>6, <2>2
<1>9. q \o LinesOf(ops, {"e"}) \in Seq(Names)
        /\ Len(q \o LinesOf(ops, {"e"})) = (z - x) + Len(LinesOf(ops, {"e"}))
  <2> DEFINE t == LinesOf(ops, {"e"})
  <2>1. t \in Seq(Names)
    BY <1>1
  <2> HIDE DEF q, ops, t
  <2>2. q \o t \in Seq(Names) /\ Len(q \o t) = Len(q) + Len(t)
    BY <1>5, <2>1, JoinedIs
  <2>3. QED
    BY <1>5, <2>2 DEF t
<1> DEFINE r == Edited(a, b, x, z, k, above, ops)
<1>10. CASE above
  <2> DEFINE c == b[y]
             more == <<Op("i", c)>> \o Ops("e", q) \o ops
  <2>1. r = [x |-> x, y |-> y - 1, ops |-> more]
    BY <1>10 DEF Edited
  <2>2. c \in Names /\ y \in 1..m /\ y - 1 \in 0..m /\ y \in (y - 1)..m /\ (y - 1) + 1 = y
            /\ m \in y..m
    <3>1. y \in 1..m
      BY <1>4, <1>10
    <3>2. QED
      BY <1>2, <3>1
  <2> HIDE DEF q, c, n, m, y, ops
  <2>3. "i" \in {"d", "i"} /\ "i" # "d"
    OBVIOUS
  <2>4. /\ more \in Seq(Operation)
        /\ LinesOf(more, {"e", "d"}) = q \o LinesOf(ops, {"e", "d"})
        /\ LinesOf(more, {"e", "i"}) = (<<c>> \o q) \o LinesOf(ops, {"e", "i"})
        /\ LinesOf(more, {"e"}) = q \o LinesOf(ops, {"e"})
    <3>1. Longer("i", c, q, ops, more)
      BY <1>1, <1>5, <2>2, <2>3, ScriptMore
    <3> HIDE DEF more
    <3>2. QED
      BY <2>3, <3>1 DEF Longer
  <2>5. <<c>> = SubSeq(b, y, y)
    <3>1. /\ SubSeq(b, (y - 1) + 1, y) \in Seq(Names)
          /\ Len(SubSeq(b, (y - 1) + 1, y)) = y - (y - 1)
          /\ \A i \in 1..(y - (y - 1)) : SubSeq(b, (y - 1) + 1, y)[i] = b[(y - 1) + i]
      BY <2>2, StretchIs DEF m
    <3>2. y - (y - 1) = 1 /\ 1 \in 1..1 /\ (y - 1) + 1 = y
      BY <1>4
    <3> DEFINE t == SubSeq(b, y, y)
    <3>3. t \in Seq(Names) /\ Len(t) = 1 /\ t[1] = c
      BY <3>1, <3>2 DEF c
    <3> HIDE DEF t
    <3>4. t = <<c>>
      BY <3>3
    <3>5. QED
      BY <3>4 DEF t
  <2>6. (<<c>> \o q) \o SubSeq(b, w + 1, m) = SubSeq(b, y, m)
    <3>1. SubSeq(b, (y - 1) + 1, y) \o SubSeq(b, y + 1, w) = SubSeq(b, (y - 1) + 1, w)
      BY <1>2, <1>4, <2>2, StretchesJoin DEF m
    <3>2. SubSeq(b, (y - 1) + 1, w) \o SubSeq(b, w + 1, m) = SubSeq(b, (y - 1) + 1, m)
      <4>1. w \in (y - 1)..m /\ m \in w..m
        BY <1>2, <1>4, <2>2
      <4>2. QED
        BY <1>2, <2>2, <4>1, StretchesJoin DEF m
    <3>3. QED
      BY <1>6, <2>2, <2>5, <3>1, <3>2
  <2> HIDE DEF more
  <2>7. LinesOf(more, {"e", "d"}) = SubSeq(a, x + 1, n)
    BY <1>1, <1>7, <2>4
  <2>8. LinesOf(more, {"e", "i"}) = SubSeq(b, (y - 1) + 1, m)
    BY <1>1, <2>2, <2>4, <2>6
  <2>9. LinesOf(more, {"e"}) \in Seq(Names)
          /\ Len(LinesOf(more, {"e"})) = (z - x) + Len(LinesOf(ops, {"e"}))
    BY <1>9, <2>4
  <2>10. 2 * Len(LinesOf(more, {"e"})) = (n - x) + (m - (y - 1)) - (end - (d - 1))
    <3> DEFINE g == Len(LinesOf(more, {"e"}))
               h == Len(LinesOf(ops, {"e"}))
    <3>1. g = (z - x) + h /\ 2 * h = (n - z) + (m - w) - (end - d) /\ h \in Nat
      BY <1>1, <2>9
    <3> HIDE DEF g, h
    <3>2. w = y + (z - x) /\ x \in Int /\ z \in Int /\ y \in Int /\ n \in Int /\ m \in Int
              /\ w \in Int
      BY <1>2, <1>4 DEF y
    <3>3. 2 * g = (n - x) + (m - (y - 1)) - (end - (d - 1))
      BY <3>1, <3>2
    <3>4. QED
      BY <3>3 DEF g
  <2>11. r.x = x /\ r.y = y - 1 /\ r.ops = more
    BY <2>1
  <2> HIDE DEF r
  <2>12. Behind(a, b, n, m, end, d - 1, r)
    BY <1>4, <2>2, <2>4, <2>7, <2>8, <2>9, <2>10, <2>11 DEF Behind
  <2>13. QED
    BY <2>12 DEF r, n, m, ops
<1>11. CASE ~above
  <2> DEFINE c == a[x]
             more == <<Op("d", c)>> \o Ops("e", q) \o ops
  <2>1. r = [x |-> x - 1, y |-> y, ops |-> more]
    BY <1>11 DEF Edited
  <2>2. c \in Names /\ x \in 1..n /\ x - 1 \in 0..n /\ x \in (x - 1)..n /\ (x - 1) + 1 = x
            /\ n \in x..n
    <3>1. x \in 1..n
      BY <1>4, <1>11
    <3>2. QED
      BY <1>2, <3>1
  <2> HIDE DEF q, c, n, m, y, ops
  <2>3. "d" \in {"d", "i"} /\ "i" # "d"
    OBVIOUS
  <2>4. /\ more \in Seq(Operation)
        /\ LinesOf(more, {"e", "d"}) = (<<c>> \o q) \o LinesOf(ops, {"e", "d"})
        /\ LinesOf(more, {"e", "i"}) = q \o LinesOf(ops, {"e", "i"})
        /\ LinesOf(more, {"e"}) = q \o LinesOf(ops, {"e"})
    <3>1. Longer("d", c, q, ops, more)
      BY <1>1, <1>5, <2>2, <2>3, ScriptMore
    <3> HIDE DEF more
    <3>2. QED
      BY <2>3, <3>1 DEF Longer
  <2>5. <<c>> = SubSeq(a, x, x)
    <3>1. /\ SubSeq(a, (x - 1) + 1, x) \in Seq(Names)
          /\ Len(SubSeq(a, (x - 1) + 1, x)) = x - (x - 1)
          /\ \A i \in 1..(x - (x - 1)) : SubSeq(a, (x - 1) + 1, x)[i] = a[(x - 1) + i]
      BY <2>2, StretchIs DEF n
    <3>2. x - (x - 1) = 1 /\ 1 \in 1..1 /\ (x - 1) + 1 = x
      BY <1>4
    <3> DEFINE t == SubSeq(a, x, x)
    <3>3. t \in Seq(Names) /\ Len(t) = 1 /\ t[1] = c
      BY <3>1, <3>2 DEF c
    <3> HIDE DEF t
    <3>4. t = <<c>>
      BY <3>3
    <3>5. QED
      BY <3>4 DEF t
  <2>6. (<<c>> \o q) \o SubSeq(a, z + 1, n) = SubSeq(a, x, n)
    <3>1. SubSeq(a, (x - 1) + 1, x) \o SubSeq(a, x + 1, z) = SubSeq(a, (x - 1) + 1, z)
      BY <1>2, <1>4, <2>2, StretchesJoin DEF n
    <3>2. SubSeq(a, (x - 1) + 1, z) \o SubSeq(a, z + 1, n) = SubSeq(a, (x - 1) + 1, n)
      <4>1. z \in (x - 1)..n /\ n \in z..n
        BY <1>2, <1>4, <2>2
      <4>2. QED
        BY <1>2, <2>2, <4>1, StretchesJoin DEF n
    <3>3. QED
      BY <2>2, <2>5, <3>1, <3>2 DEF q
  <2> HIDE DEF more
  <2>7. LinesOf(more, {"e", "d"}) = SubSeq(a, (x - 1) + 1, n)
    BY <1>1, <2>2, <2>4, <2>6
  <2>8. LinesOf(more, {"e", "i"}) = SubSeq(b, y + 1, m)
    BY <1>1, <1>8, <2>4
  <2>9. LinesOf(more, {"e"}) \in Seq(Names)
          /\ Len(LinesOf(more, {"e"})) = (z - x) + Len(LinesOf(ops, {"e"}))
    BY <1>9, <2>4
  <2>10. 2 * Len(LinesOf(more, {"e"})) = (n - (x - 1)) + (m - y) - (end - (d - 1))
    <3> DEFINE g == Len(LinesOf(more, {"e"}))
               h == Len(LinesOf(ops, {"e"}))
    <3>1. g = (z - x) + h /\ 2 * h = (n - z) + (m - w) - (end - d) /\ h \in Nat
      BY <1>1, <2>9
    <3> HIDE DEF g, h
    <3>2. w = y + (z - x) /\ x \in Int /\ z \in Int /\ y \in Int /\ n \in Int /\ m \in Int
              /\ w \in Int
      BY <1>2, <1>4 DEF y
    <3>3. 2 * g = (n - (x - 1)) + (m - y) - (end - (d - 1))
      BY <3>1, <3>2
    <3>4. QED
      BY <3>3 DEF g
  <2>11. r.x = x - 1 /\ r.y = y /\ r.ops = more
    BY <2>1
  <2> HIDE DEF r
  <2>12. Behind(a, b, n, m, end, d - 1, r)
    BY <1>4, <2>2, <2>4, <2>7, <2>8, <2>9, <2>10, <2>11 DEF Behind
  <2>13. QED
    BY <2>12 DEF r, n, m, ops
<1>12. QED
  BY <1>10, <1>11

(* The neighbour a round came from, and that it lies on the round before.  *)
LEMMA CameFrom ==
  ASSUME NEW e, NEW d \in Nat \ {0}, NEW k \in Int, OnDiagonal(k, d), NEW v, Neighbours(e, v, k, d)
  PROVE  /\ FromAbove(v, k, d) => /\ v[k + 1] = Start(v, k, d) /\ Start(v, k, d) \in Int
                                  /\ Start(v, k, d) - k >= 1 /\ OnDiagonal(k + 1, d - 1)
         /\ ~FromAbove(v, k, d) => /\ v[k - 1] = Start(v, k, d) - 1 /\ Start(v, k, d) \in Int
                                   /\ v[k - 1] \in Int
                                   /\ Start(v, k, d) >= 1 /\ OnDiagonal(k - 1, d - 1)
<1>1. PICK i \in 0..d : k = 2 * i - d
  BY DEF OnDiagonal
<1>2. CASE FromAbove(v, k, d)
  <2>1. Start(v, k, d) = v[k + 1] /\ k # d
    <3>1. Start(v, k, d) = v[k + 1]
      BY <1>2, Zenon DEF Start
    <3>2. k = -d \/ k # d
      BY <1>2, Zenon DEF FromAbove
    <3>3. QED
      BY <3>1, <3>2
  <2>2. Furthest(e, k + 1, d - 1, v[k + 1])
    BY <2>1 DEF Neighbours
  <2>3. v[k + 1] \in Nat /\ v[k + 1] - (k + 1) \in Nat
    BY <2>2 DEF Furthest
  <2>4. i \in 0..(d - 1) /\ k + 1 = 2 * i - (d - 1)
    BY <1>1, <2>1
  <2>5. OnDiagonal(k + 1, d - 1)
    BY <2>4, Zenon DEF OnDiagonal
  <2>6. Start(v, k, d) \in Int /\ Start(v, k, d) - k >= 1
    BY <2>1, <2>3
  <2>7. QED
    BY <1>2, <2>1, <2>5, <2>6
<1>3. CASE ~FromAbove(v, k, d)
  <2>1. Start(v, k, d) = v[k - 1] + 1 /\ k # -d
    <3>1. Start(v, k, d) = v[k - 1] + 1
      BY <1>3, Zenon DEF Start
    <3>2. k # -d
      BY <1>3, Zenon DEF FromAbove
    <3>3. QED
      BY <3>1, <3>2
  <2>2. Furthest(e, k - 1, d - 1, v[k - 1])
    BY <2>1 DEF Neighbours
  <2>3. v[k - 1] \in Nat
    BY <2>2 DEF Furthest
  <2>4. i - 1 \in 0..(d - 1) /\ k - 1 = 2 * (i - 1) - (d - 1)
    BY <1>1, <2>1
  <2>5. OnDiagonal(k - 1, d - 1)
    BY <2>4, Zenon DEF OnDiagonal
  <2>6. Start(v, k, d) \in Int /\ Start(v, k, d) >= 1 /\ v[k - 1] = Start(v, k, d) - 1
    BY <2>1, <2>3
  <2>7. QED
    BY <1>3, <2>3, <2>5, <2>6
<1>4. QED
  BY <1>2, <1>3

(* The way back is at the end of a snake of round d.                       *)
AtSnakeEnd(a, b, v, d, p) ==
  \E z, w, k \in Int : At(p, z, w) /\ w = z - k /\ OnDiagonal(k, d) /\ z = Advance(a, b, v, k, d)

LEMMA BackKeeps ==
  ASSUME NEW a \in Seq(Names), NEW b \in Seq(Names), NEW e, Edits(a, b, Len(a), Len(b), e),
         NEW trace, Snapshots(a, b, e, trace), NEW end \in Nat, Len(trace) = end + 1,
         NEW d \in 1..end, NEW p, Behind(a, b, Len(a), Len(b), end, d, p),
         AtSnakeEnd(a, b, trace[d + 1], d, p)
  PROVE  /\ Behind(a, b, Len(a), Len(b), end, d - 1, Back(a, b, trace[d + 1], d, p))
         /\ AtSnakeEnd(a, b, trace[d], d - 1, Back(a, b, trace[d + 1], d, p))
<1> DEFINE v == trace[d + 1]
           u == trace[d]
           r == Back(a, b, v, d, p)
<1>1. PICK z, w, k \in Int : At(p, z, w) /\ w = z - k /\ OnDiagonal(k, d)
          /\ z = Advance(a, b, v, k, d)
  BY DEF AtSnakeEnd
<1>2. Prepared(e, v, d)
  <2>1. d \in 0..(Len(trace) - 1)
    OBVIOUS
  <2>2. QED
    BY <2>1 DEF Snapshots
<1>3. Follows(a, b, u, v, d - 1)
  <2>1. d - 1 \in 0..(Len(trace) - 2) /\ (d - 1) + 1 = d /\ (d - 1) + 2 = d + 1
    OBVIOUS
  <2>2. Follows(a, b, trace[(d - 1) + 1], trace[(d - 1) + 2], d - 1)
    BY <2>1 DEF Snapshots
  <2>3. QED
    BY <2>1, <2>2
<1> HIDE DEF v, u
<1>4. Before(e, v, k, d)
  BY <1>1, <1>2 DEF Prepared, OnDiagonal
<1>5. Neighbours(e, v, k, d) /\ d \in Nat \ {0}
  BY <1>4 DEF Before
<1> DEFINE x == Start(v, k, d)
           above == FromAbove(v, k, d)
<1>6. x \in Nat /\ x - k \in Nat /\ SlidTo(a, b, x, k, z)
  <2>1. d \in Nat
    OBVIOUS
  <2>2. SlidTo(a, b, x, k, Advance(a, b, v, k, d)) /\ x \in Nat /\ x - k \in Nat
    BY <1>4, <2>1, AdvanceIs
  <2>3. QED
    BY <1>1, <2>2
<1>7. x <= z
  BY <1>6 DEF SlidTo
<1>8. /\ above => v[k + 1] = x /\ x \in Int /\ x - k >= 1 /\ OnDiagonal(k + 1, d - 1)
      /\ ~above => /\ v[k - 1] = x - 1 /\ x \in Int /\ v[k - 1] \in Int
                   /\ x >= 1 /\ OnDiagonal(k - 1, d - 1)
  BY <1>1, <1>5, CameFrom
<1>9. above \in BOOLEAN
  BY DEF FromAbove
<1>10. r = Edited(a, b, x, z, k, above, p.ops)
  <2>1. x \in Int /\ x <= z
    BY <1>6, <1>7
  <2>2. (above => v[k + 1] \in Int) /\ (~above => v[k - 1] \in Int)
    BY <1>8, <2>1
  <2>3. QED
    BY <1>1, <2>1, <2>2, BackLands
<1> HIDE DEF x, above, r
<1>11. Behind(a, b, Len(a), Len(b), end, d - 1, Edited(a, b, x, z, k, above, p.ops))
  BY <1>1, <1>5, <1>6, <1>8, <1>9, EditedIs
<1>12. AtSnakeEnd(a, b, u, d - 1, r)
  <2>1. \A i \in Int : OnDiagonal(i, d - 1) => v[i] = Advance(a, b, u, i, d - 1)
    BY <1>3 DEF Follows, OnDiagonal
  <2>2. CASE above
    <3>1. At(r, x, x - k - 1)
      BY <1>10, <2>2 DEF At, Edited
    <3>2. k + 1 \in Int /\ x \in Int /\ x - k - 1 \in Int /\ x - k - 1 = x - (k + 1)
      BY <1>1, <1>6
    <3>3. x = Advance(a, b, u, k + 1, d - 1) /\ OnDiagonal(k + 1, d - 1)
      BY <1>8, <2>1, <2>2, <3>2
    <3>4. QED
      BY <3>1, <3>2, <3>3 DEF AtSnakeEnd
  <2>3. CASE ~above
    <3>1. At(r, x - 1, x - k)
      BY <1>10, <2>3 DEF At, Edited
    <3>2. k - 1 \in Int /\ x - 1 \in Int /\ x - k \in Int /\ x - k = (x - 1) - (k - 1)
      BY <1>1, <1>6
    <3>3. x - 1 = Advance(a, b, u, k - 1, d - 1) /\ OnDiagonal(k - 1, d - 1)
      BY <1>8, <2>1, <2>3, <3>2
    <3>4. QED
      BY <3>1, <3>2, <3>3 DEF AtSnakeEnd
  <2>4. QED
    BY <2>2, <2>3
<1>13. QED
  BY <1>10, <1>11, <1>12 DEF r, u, v

-----------------------------------------------------------------------------
(* The first round finds the origin: the way back ends on the main diagonal.*)
LEMMA NoLines == <<>> \in Seq(Operation) /\ \A kinds : LinesOf(<<>>, kinds) = <<>>
<1> DEFINE none == Ops("e", <<>>)
<1>1. "e" \in {"e", "d", "i"} /\ <<>> \in Seq(Names) /\ <<>> \in Seq(Operation)
  OBVIOUS
<1>2. \A kinds : LinesOf(none, kinds) = IF "e" \in kinds THEN <<>> ELSE <<>>
  <2> DEFINE empty == <<>>
  <2>1. empty \in Seq(Names)
    OBVIOUS
  <2> HIDE DEF empty
  <2>2. \A kinds : LinesOf(Ops("e", empty), kinds) = IF "e" \in kinds THEN empty ELSE <<>>
    BY <1>1, <2>1, LinesOfOps
  <2>3. QED
    BY <2>2 DEF empty
<1>3. none = <<>>
  BY DEF Ops
<1>4. QED
  BY <1>1, <1>2, <1>3

LEMMA StartAtOrigin ==
  ASSUME NEW v, v[1] = 0, NEW k \in Int, NEW d \in Nat, k = 0, d = 0
  PROVE  Start(v, k, d) = 0
<1>1. k = -d /\ k + 1 = 1
  <2>1. \A i, j \in Int : i <= j /\ j <= i /\ j <= 0 /\ j >= 0 => i = -j /\ i + 1 = 1
    OBVIOUS
  <2>2. k \in Int /\ d \in Int /\ k <= d /\ d <= k /\ d <= 0 /\ d >= 0
    OBVIOUS
  <2>3. QED
    BY <2>1, <2>2, Zenon
<1>2. FromAbove(v, k, d)
  BY <1>1, Zenon DEF FromAbove
<1>3. Start(v, k, d) = v[k + 1]
  BY <1>2, Zenon DEF Start
<1>4. QED
  BY <1>1, <1>3, Zenon

LEMMA BackStarts ==
  ASSUME NEW a \in Seq(Names), NEW b \in Seq(Names), NEW e, Edits(a, b, Len(a), Len(b), e),
         EndsAt(a, b, e), NEW trace, Snapshots(a, b, e, trace), NEW end \in Nat,
         Len(trace) = end + 1, e[Len(a)][Len(b)] = end,
         NEW p, p = [x |-> Len(a), y |-> Len(b), ops |-> <<>>]
  PROVE  Behind(a, b, Len(a), Len(b), end, end, p) /\ AtSnakeEnd(a, b, trace[end + 1], end, p)
<1> DEFINE n == Len(a)
           m == Len(b)
           k == n - m
           v == trace[end + 1]
           z == Advance(a, b, v, k, end)
<1>1. n \in Nat /\ m \in Nat /\ k \in Int
  OBVIOUS
<1>2. At(p, n, m) /\ p.ops = <<>>
  BY DEF At
<1>3. Behind(a, b, n, m, end, end, p)
  <2>1. SubSeq(a, n + 1, n) = <<>> /\ SubSeq(b, m + 1, m) = <<>>
    BY WholeText
  <2>2. p.ops \in Seq(Operation) /\ \A kinds : LinesOf(p.ops, kinds) = <<>>
    BY <1>2, NoLines
  <2> DEFINE none == LinesOf(p.ops, {"e"})
  <2>3. none \in Seq(Names) /\ Len(none) = 0
    <3>1. none = <<>>
      BY <2>2
    <3> HIDE DEF none
    <3>2. QED
      BY <3>1
  <2>4. n \in 0..n /\ m \in 0..m /\ 2 * 0 = (n - n) + (m - m) - (end - end)
    BY <1>1
  <2>5. p.x = n /\ p.y = m
    BY <1>2 DEF At
  <2>6. LinesOf(p.ops, {"e", "d"}) = <<>> /\ LinesOf(p.ops, {"e", "i"}) = <<>>
    BY <2>2
  <2> HIDE DEF n, m, none
  <2>7. 2 * Len(none) = (n - n) + (m - m) - (end - end)
    BY <2>3, <2>4
  <2>8. QED
    BY <2>1, <2>2, <2>3, <2>4, <2>5, <2>6, <2>7 DEF Behind, none
<1>4. OnDiagonal(k, end)
  <2>1. PICK c \in Nat : end = n + m - 2 * c
    BY DEF EndsAt
  <2>2. Reached(e, n, m)
    BY <1>1 DEF Edits
  <2>3. n - m <= end /\ m - n <= end
    BY <2>2 DEF Reached
  <2> HIDE DEF n, m
  <2>4. n - c \in 0..end /\ n - m = 2 * (n - c) - end
    BY <1>1, <2>1, <2>3
  <2>5. QED
    BY <2>4 DEF OnDiagonal
<1>5. Furthest(e, k, end, z)
  <2>1. Prepared(e, v, end)
    <3>1. end \in 0..(Len(trace) - 1)
      OBVIOUS
    <3>2. QED
      BY <3>1 DEF Snapshots
  <2> HIDE DEF k, v, n, m
  <2>2. Before(e, v, k, end)
    BY <1>4, <2>1 DEF Prepared, OnDiagonal
  <2>3. QED
    BY <2>2, AdvanceIs
<1>6. z = n
  <2>1. Ends(a, b, z, k)
    <3>1. e[Len(a)][Len(b)] <= end
      OBVIOUS
    <3> HIDE DEF z, v
    <3>2. QED
      BY <1>5, <3>1, ReachedEnds
  <2> HIDE DEF z, v
  <2>2. z >= n /\ z - k >= m
    BY <2>1 DEF Ends
  <2>3. z \in Nat /\ z - k \in Nat /\ e[z][z - k] <= end
    BY <1>5 DEF Furthest
  <2>4. e[z][z - k] = e[n][m] + (z - n) + ((z - k) - m)
    <3>1. Beyond(n, m, e, z, z - k)
      BY <2>3 DEF Edits
    <3> HIDE DEF n, m, k
    <3>2. QED
      BY <2>2, <3>1 DEF Beyond
  <2> DEFINE c == e[z][z - k]
  <2>5. c = end + (z - n) + ((z - k) - m) /\ c <= end
    BY <2>3, <2>4
  <2> HIDE DEF c, n, m
  <2>6. QED
    BY <1>1, <2>2, <2>3, <2>5
<1> HIDE DEF n, m, k, z
<1>7. AtSnakeEnd(a, b, v, end, p)
  <2>1. n \in Int /\ m \in Int /\ k \in Int /\ m = n - k
    BY <1>1 DEF k
  <2>2. n = Advance(a, b, v, k, end)
    BY <1>6 DEF z
  <2> HIDE DEF v
  <2>3. QED
    BY <1>2, <1>4, <2>1, <2>2 DEF AtSnakeEnd
<1>8. QED
  BY <1>3, <1>7 DEF n, m

(* What a script promises: it turns a into b; and no shorter one does.     *)
Script(a, b, ops) ==
  /\ ops \in Seq(Operation)
  /\ LinesOf(ops, {"e", "d"}) = a
  /\ LinesOf(ops, {"e", "i"}) = b

Shortest(a, b, ops) == Len(LinesOf(ops, {"e"})) = CommonLength(a, b)

(* The lines both texts start with complete the script.                    *)
LEMMA ScriptEnds ==
  ASSUME NEW a \in Seq(Names), NEW b \in Seq(Names), NEW c \in Nat, NEW end \in Nat,
         end = Len(a) + Len(b) - 2 * c, NEW p, Behind(a, b, Len(a), Len(b), end, 0, p),
         NEW z \in Int, At(p, z, z), SlidTo(a, b, 0, 0, z)
  PROVE  LET script == Ops("e", SubSeq(a, 1, z)) \o p.ops IN
         Script(a, b, script) /\ Len(LinesOf(script, {"e"})) = c
<1> DEFINE n == Len(a)
           m == Len(b)
           ops == p.ops
           q == SubSeq(a, 1, z)
           head == Ops("e", q)
           script == head \o ops
<1>1. /\ z \in 0..n /\ z \in 0..m /\ ops \in Seq(Operation)
      /\ LinesOf(ops, {"e", "d"}) = SubSeq(a, z + 1, n)
      /\ LinesOf(ops, {"e", "i"}) = SubSeq(b, z + 1, m)
      /\ LinesOf(ops, {"e"}) \in Seq(Names)
      /\ 2 * Len(LinesOf(ops, {"e"})) = (n - z) + (m - z) - (end - 0)
  BY DEF Behind, At
<1>2. n \in Nat /\ m \in Nat /\ 0 \in 0..n /\ 0 \in 0..m /\ n \in z..n /\ m \in z..m /\ z \in 0..n
        /\ 0 - 0 = 0 /\ z - 0 = z /\ 0 + 1 = 1
  BY <1>1
<1>3. \A i \in (0 + 1)..z : Agrees(a, b, n, m, i, i - 0)
  BY DEF SlidTo
<1> HIDE DEF ops
<1>4. q \in Seq(Names) /\ Len(q) = z
  <2>1. SubSeq(a, 0 + 1, z) \in Seq(Names) /\ Len(SubSeq(a, 0 + 1, z)) = z - 0
    BY <1>2, StretchIs
  <2>2. QED
    BY <1>2, <2>1
<1>5. q = SubSeq(b, 1, z)
  <2>1. SubSeq(a, 0 + 1, z) = SubSeq(b, (0 - 0) + 1, z - 0)
    <3>1. 0 - 0 \in 0..Len(b) /\ z - 0 \in 0..Len(b) /\ 0 \in Int /\ 0 \in 0..Len(a)
              /\ z \in 0..Len(a)
      BY <1>1, <1>2
    <3>2. QED
      BY <1>3, <3>1, SameStretch
  <2>2. QED
    BY <1>2, <2>1
<1>6. q \o SubSeq(a, z + 1, n) = a
  <2>1. SubSeq(a, 0 + 1, z) \o SubSeq(a, z + 1, n) = SubSeq(a, 0 + 1, n)
    BY <1>2, StretchesJoin
  <2>2. SubSeq(a, 1, n) = a
    BY WholeText
  <2>3. QED
    BY <1>2, <2>1, <2>2
<1>7. q \o SubSeq(b, z + 1, m) = b
  <2>1. SubSeq(b, 0 + 1, z) \o SubSeq(b, z + 1, m) = SubSeq(b, 0 + 1, m)
    BY <1>1, <1>2, StretchesJoin
  <2>2. SubSeq(b, 1, m) = b
    BY WholeText
  <2>3. QED
    BY <1>2, <1>5, <2>1, <2>2
<1>8. "e" \in {"e", "d", "i"}
  OBVIOUS
<1> HIDE DEF q
<1>9. head \in Seq(Operation)
  BY <1>4, <1>8, OperationsAre
<1>10. \A kinds : LinesOf(head, kinds) = IF "e" \in kinds THEN q ELSE <<>>
  BY <1>4, <1>8, LinesOfOps
<1> HIDE DEF head
<1>11. script \in Seq(Operation)
  BY <1>1, <1>9, OperationsJoin
<1>12. \A kinds : LinesOf(script, kinds) = LinesOf(head, kinds) \o LinesOf(ops, kinds)
  BY <1>1, <1>9, LinesJoined
<1> HIDE DEF script
<1>13. \A kinds : "e" \in kinds => LinesOf(script, kinds) = q \o LinesOf(ops, kinds)
  BY <1>10, <1>12
<1>14. LinesOf(script, {"e", "d"}) = a /\ LinesOf(script, {"e", "i"}) = b
  BY <1>1, <1>6, <1>7, <1>13
<1>15. LinesOf(script, {"e"}) = q \o LinesOf(ops, {"e"})
  BY <1>13
<1> DEFINE equal == LinesOf(ops, {"e"})
<1>16. Len(q \o equal) = z + Len(equal)
  BY <1>1, <1>4, JoinedIs
<1>17. Len(LinesOf(script, {"e"})) = c
  <2>1. equal \in Seq(Names) /\ 2 * Len(equal) = (n - z) + (m - z) - (end - 0)
    BY <1>1
  <2>2. end = n + m - 2 * c
    OBVIOUS
  <2> HIDE DEF equal, n, m
  <2> DEFINE g == Len(equal)
  <2>3. g \in Nat /\ 2 * g = (n - z) + (m - z) - (end - 0)
    BY <2>1
  <2> HIDE DEF g
  <2>4. z + g = c
    BY <1>2, <2>2, <2>3
  <2>5. QED
    BY <1>15, <1>16, <2>4 DEF g, equal
<1>18. QED
  BY <1>11, <1>14, <1>17 DEF Script, script, head, q, ops

(* Myers' script turns a into b and no shorter one does.                   *)
LEMMA MyersIs ==
  ASSUME NEW a \in Seq(Names), NEW b \in Seq(Names), Len(a) + Len(b) # 0
  PROVE  Script(a, b, Myers(a, b)) /\ Shortest(a, b, Myers(a, b))
<1> DEFINE trace == Forward(a, b)
           c == CommonLength(a, b)
<1>1. PICK e : /\ Edits(a, b, Len(a), Len(b), e) /\ e[Len(a)][Len(b)] = Len(a) + Len(b) - 2 * c
               /\ c \in Nat
  BY EditsExist
<1>2. EndsAt(a, b, e)
  BY <1>1 DEF EndsAt
<1> DEFINE end == e[Len(a)][Len(b)]
<1>3. Len(trace) = end + 1 /\ Snapshots(a, b, e, trace)
  BY <1>1, <1>2, SearchIs
<1>4. end \in Nat
  <2>1. Len(a) \in Nat /\ Len(b) \in Nat
    OBVIOUS
  <2>2. Reached(e, Len(a), Len(b))
    BY <1>1, <2>1 DEF Edits
  <2>3. QED
    BY <2>2 DEF Reached
<1>5. end = Len(a) + Len(b) - 2 * c
  BY <1>1
<1> DEFINE n == end
<1>6. n \in Nat /\ n = end /\ e[Len(a)][Len(b)] = n
  BY <1>4
<1> HIDE DEF n, end
<1>7. Len(trace) = n + 1
  BY <1>3, <1>6
<1>8. PICK stage : BackAlong(stage, a, b, trace, n)
  BY <1>6, <1>7, BackStages
<1> HIDE DEF trace
<1> DEFINE S == {m \in 0..n : /\ Behind(a, b, Len(a), Len(b), n, n - m, stage[m])
                              /\ AtSnakeEnd(a, b, trace[n - m + 1], n - m, stage[m])}
<1>9. 0 \in S
  <2>1. stage[0] = [x |-> Len(a), y |-> Len(b), ops |-> <<>>]
    BY <1>8 DEF BackAlong
  <2>2. Behind(a, b, Len(a), Len(b), n, n, stage[0]) /\ AtSnakeEnd(a, b, trace[n + 1], n, stage[0])
    BY <1>1, <1>2, <1>3, <1>6, <1>7, <2>1, BackStarts
  <2>3. 0 \in 0..n /\ n - 0 = n
    BY <1>6
  <2>4. QED
    BY <2>2, <2>3
<1>10. ASSUME NEW m \in 0..(n - 1), m \in S PROVE m + 1 \in S
  <2> DEFINE d == n - m
             r == Back(a, b, trace[d + 1], d, stage[m])
  <2>1. d \in 1..n /\ m + 1 \in 0..n /\ n - (m + 1) = d - 1 /\ (d - 1) + 1 = d
    BY <1>6
  <2>2. Behind(a, b, Len(a), Len(b), n, d, stage[m]) /\ AtSnakeEnd(a, b, trace[d + 1], d, stage[m])
    BY <1>10
  <2>3. stage[m + 1] = r
    BY <1>8 DEF BackAlong
  <2> HIDE DEF d
  <2>4. Behind(a, b, Len(a), Len(b), n, d - 1, r) /\ AtSnakeEnd(a, b, trace[d], d - 1, r)
    BY <1>1, <1>3, <1>6, <1>7, <2>1, <2>2, BackKeeps
  <2> HIDE DEF r
  <2>5. QED
    BY <2>1, <2>3, <2>4
<1>11. n \in S
  <2> HIDE DEF S
  <2>1. n \in 0..n /\ n \in Nat
    BY <1>6
  <2>2. QED
    BY <1>9, <1>10, <2>1, UpTo
<1> DEFINE p == stage[n]
           v == trace[1]
<1>12. Behind(a, b, Len(a), Len(b), n, 0, p) /\ AtSnakeEnd(a, b, v, 0, p)
  <2>1. n - n = 0 /\ 0 + 1 = 1
    BY <1>6
  <2>2. QED
    BY <1>11, <2>1
<1>13. Myers(a, b) = LET l == Min({p.x, p.y}) IN Ops("e", SubSeq(a, p.x - l + 1, p.x)) \o p.ops
  BY <1>8 DEF BackAlong
<1> HIDE DEF p, S
<1>14. PICK z, w, k \in Int : At(p, z, w) /\ w = z - k /\ OnDiagonal(k, 0)
           /\ z = Advance(a, b, v, k, 0)
  BY <1>12 DEF AtSnakeEnd
<1>15. k = 0 /\ w = z
  <2>1. \E i \in 0..0 : k = 2 * i - 0
    BY <1>14 DEF OnDiagonal
  <2>2. k = 0
    BY <2>1
  <2>3. QED
    BY <1>14, <2>2
<1>16. Before(e, v, k, 0)
  <2>1. Prepared(e, v, 0)
    <3>1. 0 \in 0..(Len(trace) - 1) /\ 0 + 1 = 1
      BY <1>6, <1>7
    <3>2. QED
      BY <1>3, <3>1 DEF Snapshots
  <2> HIDE DEF v
  <2>2. 0 \in 0..0 /\ k = 2 * 0 - 0
    BY <1>15
  <2>3. QED
    BY <2>1, <2>2 DEF Prepared
<1> HIDE DEF v
<1>17. SlidTo(a, b, 0, 0, z)
  <2>1. v[1] = 0
    BY <1>16 DEF Before
  <2>2. Start(v, k, 0) = 0
    BY <1>15, <2>1, StartAtOrigin
  <2>3. SlidTo(a, b, Start(v, k, 0), k, Advance(a, b, v, k, 0))
    BY <1>1, <1>16, AdvanceIs
  <2>4. QED
    BY <1>14, <1>15, <2>2, <2>3
<1>18. At(p, z, z)
  BY <1>14, <1>15
<1> DEFINE script == Ops("e", SubSeq(a, 1, z)) \o p.ops
<1>19. Myers(a, b) = script
  <2>1. p.x = z /\ p.y = z
    BY <1>18 DEF At
  <2>2. Min({z, z}) = z
    BY <1>14, MinOfTwo
  <2>3. z - z + 1 = 1
    BY <1>14
  <2>4. QED
    BY <1>13, <2>1, <2>2, <2>3
<1>20. n = Len(a) + Len(b) - 2 * c
  BY <1>5, <1>6
<1> HIDE DEF c
<1>21. Script(a, b, script) /\ Len(LinesOf(script, {"e"})) = c
  BY <1>1, <1>6, <1>12, <1>14, <1>17, <1>18, <1>20, ScriptEnds
<1> HIDE DEF script
<1>22. QED
  BY <1>19, <1>21 DEF Shortest, c

-----------------------------------------------------------------------------
(* The greedy script: what both texts start and end with stays.            *)
LEMMA SuffixIs ==
  ASSUME NEW a \in Seq(Names), NEW b \in Seq(Names), NEW prefix \in Nat,
         prefix <= Len(a), prefix <= Len(b)
  PROVE  LET s == CommonSuffix(a, b, prefix) IN
         /\ s \in Nat /\ s <= Len(a) - prefix /\ s <= Len(b) - prefix
         /\ \A i \in 0..(s - 1) : a[Len(a) - i] = b[Len(b) - i]
<1> DEFINE n == Len(a)
           m == Len(b)
           most == Min({n, m}) - prefix
           S == {l \in 0..most : \A i \in 0..(l - 1) : a[n - i] = b[m - i]}
           s == CommonSuffix(a, b, prefix)
<1>1. n \in Nat /\ m \in Nat /\ s = Max(S)
  BY DEF CommonSuffix
<1>2. Min({n, m}) = IF n <= m THEN n ELSE m
  <2> HIDE DEF n, m
  <2>1. n \in Int /\ m \in Int
    BY <1>1
  <2>2. QED
    BY <2>1, MinOfTwo
<1>3. most \in Nat /\ most <= n - prefix /\ most <= m - prefix
  BY <1>1, <1>2
<1> HIDE DEF n, m, most
<1>4. 0 \in S
  <2>1. 0 \in 0..most /\ 0..(0 - 1) = {}
    BY <1>3
  <2>2. QED
    BY <2>1
<1>5. S \in SUBSET (0..most) /\ S # {}
  BY <1>4
<1> HIDE DEF S, s
<1>6. s \in S
  BY <1>1, <1>3, <1>5, MaxUpTo
<1>7. s \in 0..most /\ \A i \in 0..(s - 1) : a[n - i] = b[m - i]
  BY <1>6 DEF S
<1>8. s \in Nat /\ s <= n - prefix /\ s <= m - prefix
  <2>1. n - prefix \in Int /\ m - prefix \in Int
    BY <1>1
  <2>2. QED
    BY <1>3, <1>7, <2>1
<1>9. QED
  BY <1>7, <1>8 DEF s, n, m

(* Both texts start with p and end with s; between, one has q, the other r.*)
Pieces(p, q, r, s, a, b) == (p \o q) \o s = a /\ (p \o r) \o s = b

LEMMA PiecesJoin ==
  ASSUME NEW p \in Seq(Names), NEW q \in Seq(Names), NEW r \in Seq(Names), NEW s \in Seq(Names),
         NEW a, NEW b, Pieces(p, q, r, s, a, b)
  PROVE  Script(a, b, Ops("e", p) \o Ops("d", q) \o Ops("i", r) \o Ops("e", s))
<1> DEFINE o1 == Ops("e", p)
           o2 == Ops("d", q)
           o3 == Ops("i", r)
           o4 == Ops("e", s)
           h2 == o1 \o o2
           h3 == h2 \o o3
           h4 == h3 \o o4
<1>1. "e" \in {"e", "d", "i"} /\ "d" \in {"e", "d", "i"} /\ "i" \in {"e", "d", "i"}
  OBVIOUS
<1>2. /\ o1 \in Seq(Operation) /\ o2 \in Seq(Operation) /\ o3 \in Seq(Operation)
      /\ o4 \in Seq(Operation)
  BY <1>1, OperationsAre
<1>3. \A kinds : LinesOf(o1, kinds) = IF "e" \in kinds THEN p ELSE <<>>
  BY <1>1, LinesOfOps
<1>4. \A kinds : LinesOf(o2, kinds) = IF "d" \in kinds THEN q ELSE <<>>
  BY <1>1, LinesOfOps
<1>5. \A kinds : LinesOf(o3, kinds) = IF "i" \in kinds THEN r ELSE <<>>
  BY <1>1, LinesOfOps
<1>6. \A kinds : LinesOf(o4, kinds) = IF "e" \in kinds THEN s ELSE <<>>
  BY <1>1, LinesOfOps
<1> HIDE DEF o1, o2, o3, o4
<1>7. h2 \in Seq(Operation)
          /\ \A kinds : LinesOf(h2, kinds) = LinesOf(o1, kinds) \o LinesOf(o2, kinds)
  <2>1. h2 \in Seq(Operation)
    BY <1>2, OperationsJoin
  <2>2. \A kinds : LinesOf(h2, kinds) = LinesOf(o1, kinds) \o LinesOf(o2, kinds)
    <3>1. o1 \in Seq(Operation) /\ o2 \in Seq(Operation)
      BY <1>2
    <3>2. QED
      BY <3>1, LinesJoined
  <2>3. QED
    BY <2>1, <2>2
<1> HIDE DEF h2
<1>8. h3 \in Seq(Operation)
          /\ \A kinds : LinesOf(h3, kinds) = LinesOf(h2, kinds) \o LinesOf(o3, kinds)
  BY <1>2, <1>7, OperationsJoin, LinesJoined
<1> HIDE DEF h3
<1>9. h4 \in Seq(Operation)
          /\ \A kinds : LinesOf(h4, kinds) = LinesOf(h3, kinds) \o LinesOf(o4, kinds)
  BY <1>2, <1>8, OperationsJoin, LinesJoined
<1> HIDE DEF h4
<1>10. p \o q \in Seq(Names)
  BY JoinedIs
<1>11. LinesOf(h4, {"e", "d"}) = a
  <2>1. LinesOf(o1, {"e", "d"}) = p /\ LinesOf(o4, {"e", "d"}) = s
    BY <1>3, <1>6
  <2>2. LinesOf(o2, {"e", "d"}) = q /\ LinesOf(o3, {"e", "d"}) = <<>>
    BY <1>4, <1>5
  <2>3. LinesOf(h3, {"e", "d"}) = (p \o q) \o <<>>
    BY <1>7, <1>8, <2>1, <2>2
  <2>4. (p \o q) \o <<>> = p \o q
    BY <1>10, NothingJoined
  <2>5. (p \o q) \o s = a
    BY DEF Pieces
  <2>6. QED
    BY <1>9, <2>1, <2>3, <2>4, <2>5
<1>12. LinesOf(h4, {"e", "i"}) = b
  <2>1. LinesOf(o1, {"e", "i"}) = p /\ LinesOf(o4, {"e", "i"}) = s
    BY <1>3, <1>6
  <2>2. LinesOf(o2, {"e", "i"}) = <<>> /\ LinesOf(o3, {"e", "i"}) = r
    BY <1>4, <1>5
  <2>3. p \o <<>> = p
    BY NothingJoined
  <2>4. LinesOf(h2, {"e", "i"}) = p
    BY <1>7, <2>1, <2>2, <2>3
  <2>5. LinesOf(h3, {"e", "i"}) = p \o r
    BY <1>8, <2>2, <2>4
  <2>6. (p \o r) \o s = b
    BY DEF Pieces
  <2>7. QED
    BY <1>9, <2>1, <2>5, <2>6
<1>13. Script(a, b, h4)
  BY <1>9, <1>11, <1>12 DEF Script
<1>14. QED
  BY <1>13 DEF h4, h3, h2, o1, o2, o3, o4

LEMMA GreedyIs ==
  ASSUME NEW a \in Seq(Names), NEW b \in Seq(Names)
  PROVE  Script(a, b, Greedy(a, b))
<1> DEFINE n == Len(a)
           m == Len(b)
           x == Snake(a, b, 0, 0)
           s == CommonSuffix(a, b, x)
           p == SubSeq(a, 1, x)
           q == SubSeq(a, x + 1, n - s)
           r == SubSeq(b, x + 1, m - s)
           t == SubSeq(a, n - s + 1, n)
<1>1. Greedy(a, b) = Ops("e", p) \o Ops("d", q) \o Ops("i", r) \o Ops("e", t)
  BY DEF Greedy
<1>2. n \in Nat /\ m \in Nat
  OBVIOUS
<1>3. x \in Nat /\ x <= n /\ x <= m /\ \A i \in 1..x : a[i] = b[i]
  <2>1. 0 \in 0..n /\ 0 \in 0..m
    BY <1>2
  <2>2. x \in Nat /\ 0 + x <= n /\ 0 + x <= m /\ \A i \in 1..x : a[0 + i] = b[0 + i]
    BY <2>1, SnakeIs
  <2> HIDE DEF x, n, m
  <2>3. 0 + x = x /\ \A i \in 1..x : 0 + i = i
    BY <2>2
  <2>4. QED
    BY <2>2, <2>3
<1> HIDE DEF x
<1>4. s \in Nat /\ s <= n - x /\ s <= m - x /\ \A i \in 0..(s - 1) : a[n - i] = b[m - i]
  BY <1>3, SuffixIs
<1> HIDE DEF s
<1>5. /\ x \in 0..n /\ x \in 0..m /\ n - s \in x..n /\ m - s \in x..m /\ n - s \in 0..n
      /\ m - s \in 0..m
      /\ n \in (n - s)..n /\ m \in (m - s)..m /\ n \in x..n /\ m \in x..m /\ 0 \in 0..n
      /\ 0 \in 0..m
      /\ n \in 0..n /\ m \in 0..m /\ 0 + 1 = 1
  BY <1>2, <1>3, <1>4
<1>6. p \in Seq(Names)
  <2>1. SubSeq(a, 0 + 1, x) \in Seq(Names)
    BY <1>5, StretchIs
  <2>2. QED
    BY <1>5, <2>1
<1>7. q \in Seq(Names) /\ r \in Seq(Names) /\ t \in Seq(Names)
  BY <1>5, StretchIs
<1>8. p = SubSeq(b, 1, x)
  <2>1. \A i \in (0 + 1)..x : Agrees(a, b, n, m, i, i - 0)
    <3> HIDE DEF n, m
    <3>1. \A i \in (0 + 1)..x : i <= n /\ i - 0 <= m /\ i \in 1..x /\ i - 0 = i
      BY <1>2, <1>3
    <3>2. QED
      BY <1>3, <3>1 DEF Agrees
  <2>2. 0 - 0 \in 0..m /\ x - 0 \in 0..m /\ 0 \in Int /\ x \in 0..n /\ 0 - 0 = 0 /\ x - 0 = x
    BY <1>2, <1>5
  <2>3. SubSeq(a, 0 + 1, x) = SubSeq(b, (0 - 0) + 1, x - 0)
    BY <1>5, <2>1, <2>2, SameStretch
  <2>4. QED
    BY <1>5, <2>2, <2>3
<1>9. t = SubSeq(b, m - s + 1, m)
  <2> DEFINE k == n - m
             z == n - s
  <2>1. k \in Int /\ z \in 0..n /\ n \in z..n /\ z - k = m - s /\ n - k = m
    BY <1>2, <1>4, <1>5
  <2>2. \A i \in (z + 1)..n : Agrees(a, b, n, m, i, i - k)
    <3> SUFFICES ASSUME NEW i \in (z + 1)..n PROVE Agrees(a, b, n, m, i, i - k)
      OBVIOUS
    <3> DEFINE j == n - i
    <3>1. j \in 0..(s - 1) /\ n - j = i /\ m - j = i - k /\ i <= n /\ i - k <= m
      BY <1>2, <1>4
    <3> HIDE DEF n, m, k, j
    <3>2. a[n - j] = b[m - j]
      BY <1>4, <3>1
    <3>3. QED
      BY <3>1, <3>2 DEF Agrees
  <2> HIDE DEF k, z
  <2>3. z - k \in 0..m /\ n - k \in 0..m
    BY <1>5, <2>1
  <2>4. SubSeq(a, z + 1, n) = SubSeq(b, (z - k) + 1, n - k)
    BY <1>5, <2>1, <2>2, <2>3, SameStretch
  <2>5. QED
    BY <2>1, <2>4 DEF z
<1> HIDE DEF n, m
<1>10. (p \o q) \o t = a
  <2>1. SubSeq(a, 0 + 1, x) \o SubSeq(a, x + 1, n - s) = SubSeq(a, 0 + 1, n - s)
    BY <1>5, StretchesJoin DEF n
  <2>2. SubSeq(a, 0 + 1, n - s) \o SubSeq(a, n - s + 1, n) = SubSeq(a, 0 + 1, n)
    BY <1>5, StretchesJoin DEF n
  <2>3. SubSeq(a, 1, n) = a
    BY WholeText DEF n
  <2>4. QED
    BY <1>5, <2>1, <2>2, <2>3
<1>11. (p \o r) \o t = b
  <2>1. SubSeq(b, 0 + 1, x) \o SubSeq(b, x + 1, m - s) = SubSeq(b, 0 + 1, m - s)
    BY <1>5, StretchesJoin DEF m
  <2>2. SubSeq(b, 0 + 1, m - s) \o SubSeq(b, m - s + 1, m) = SubSeq(b, 0 + 1, m)
    BY <1>5, StretchesJoin DEF m
  <2>3. SubSeq(b, 1, m) = b
    BY WholeText DEF m
  <2>4. QED
    BY <1>5, <1>8, <1>9, <2>1, <2>2, <2>3
<1> HIDE DEF p, q, r, t
<1>12. Pieces(p, q, r, t, a, b)
  BY <1>10, <1>11 DEF Pieces
<1>13. Script(a, b, Ops("e", p) \o Ops("d", q) \o Ops("i", r) \o Ops("e", t))
  BY <1>6, <1>7, <1>12, PiecesJoin
<1>14. QED
  BY <1>1, <1>13

-----------------------------------------------------------------------------
(* Every script.                                                           *)
LEMMA NothingInCommon ==
  ASSUME NEW a \in Seq(Names), NEW b \in Seq(Names), Len(a) = 0 \/ Len(b) = 0
  PROVE  CommonLength(a, b) = 0
<1> DEFINE n == Len(a)
           m == Len(b)
<1>1. n \in Nat /\ m \in Nat /\ (n = 0 \/ m = 0)
  OBVIOUS
<1>2. PICK g : FilledTo(a, b, n, m, n + m, g) /\ CommonLength(a, b) = g[<<n, m>>]
  BY TableIs
<1> HIDE DEF n, m
<1>3. Table(a, b, n, m, g)
  BY <1>1, <1>2, FilledIsTable
<1>4. n \in 0..n /\ m \in 0..m
  BY <1>1
<1>5. g[<<n, m>>] <= n /\ g[<<n, m>>] <= m
  BY <1>3, <1>4, TableSmall
<1>6. g[<<n, m>>] \in Nat
  BY <1>3, <1>4 DEF Table, Known
<1> DEFINE c == g[<<n, m>>]
<1>7. c \in Nat /\ c <= n /\ c <= m
  BY <1>5, <1>6
<1> HIDE DEF c
<1>8. c = 0
  BY <1>1, <1>7
<1>9. QED
  BY <1>2, <1>8 DEF c

LEMMA OneSided ==
  ASSUME NEW c \in Seq(Names)
  PROVE  /\ Script(c, <<>>, Ops("d", c)) /\ Script(<<>>, c, Ops("i", c))
         /\ Len(LinesOf(Ops("d", c), {"e"})) = 0 /\ Len(LinesOf(Ops("i", c), {"e"})) = 0
<1>1. "d" \in {"e", "d", "i"} /\ "i" \in {"e", "d", "i"}
  OBVIOUS
<1> DEFINE o1 == Ops("d", c)
           o2 == Ops("i", c)
<1>2. o1 \in Seq(Operation) /\ o2 \in Seq(Operation)
  BY <1>1, OperationsAre
<1>3. \A kinds : LinesOf(o1, kinds) = IF "d" \in kinds THEN c ELSE <<>>
  BY <1>1, LinesOfOps
<1>4. \A kinds : LinesOf(o2, kinds) = IF "i" \in kinds THEN c ELSE <<>>
  BY <1>1, LinesOfOps
<1> HIDE DEF o1, o2
<1>5. /\ LinesOf(o1, {"e", "d"}) = c /\ LinesOf(o1, {"e", "i"}) = <<>> /\ LinesOf(o1, {"e"}) = <<>>
  BY <1>3
<1>6. /\ LinesOf(o2, {"e", "d"}) = <<>> /\ LinesOf(o2, {"e", "i"}) = c /\ LinesOf(o2, {"e"}) = <<>>
  BY <1>4
<1>7. Len(LinesOf(o1, {"e"})) = 0 /\ Len(LinesOf(o2, {"e"})) = 0
  <2>1. Len(<<>>) = 0
    OBVIOUS
  <2>2. QED
    BY <1>5, <1>6, <2>1
<1>8. Script(c, <<>>, o1) /\ Script(<<>>, c, o2)
  BY <1>2, <1>5, <1>6 DEF Script
<1>9. QED
  BY <1>7, <1>8 DEF o1, o2

LEMMA EditScriptIs ==
  ASSUME NEW a \in Seq(Names), NEW b \in Seq(Names)
  PROVE  /\ Script(a, b, EditScript(a, b))
         /\ Len(a) + Len(b) <= MaxMyersInputSize => Shortest(a, b, EditScript(a, b))
<1> DEFINE ops == EditScript(a, b)
<1>1. Len(a) \in Nat /\ Len(b) \in Nat /\ MaxMyersInputSize \in Nat
  BY ConstantsAssumption DEF ConstantsAssumption
<1>2. CASE Len(a) + Len(b) > MaxMyersInputSize
  <2>1. ops = Greedy(a, b)
    BY <1>2 DEF EditScript
  <2>2. ~(Len(a) + Len(b) <= MaxMyersInputSize)
    BY <1>1, <1>2
  <2>3. Script(a, b, Greedy(a, b))
    BY GreedyIs
  <2> HIDE DEF ops
  <2>4. QED
    BY <2>1, <2>2, <2>3 DEF ops
<1>3. CASE ~(Len(a) + Len(b) > MaxMyersInputSize) /\ a = <<>>
  <2>1. ops = Ops("i", b)
    BY <1>3 DEF EditScript
  <2>2. Script(<<>>, b, Ops("i", b)) /\ Len(LinesOf(Ops("i", b), {"e"})) = 0
    BY OneSided
  <2>3. CommonLength(a, b) = 0
    <3>1. Len(a) = 0
      BY <1>3
    <3>2. QED
      BY <3>1, NothingInCommon
  <2> HIDE DEF ops
  <2>4. Script(a, b, ops) /\ Shortest(a, b, ops)
    BY <1>3, <2>1, <2>2, <2>3 DEF Shortest
  <2>5. QED
    BY <2>4 DEF ops
<1>4. CASE ~(Len(a) + Len(b) > MaxMyersInputSize) /\ a # <<>> /\ b = <<>>
  <2>1. ops = Ops("d", a)
    BY <1>4 DEF EditScript
  <2>2. Script(a, <<>>, Ops("d", a)) /\ Len(LinesOf(Ops("d", a), {"e"})) = 0
    BY OneSided
  <2>3. CommonLength(a, b) = 0
    <3>1. Len(b) = 0
      BY <1>4
    <3>2. QED
      BY <3>1, NothingInCommon
  <2> HIDE DEF ops
  <2>4. Script(a, b, ops) /\ Shortest(a, b, ops)
    BY <1>4, <2>1, <2>2, <2>3 DEF Shortest
  <2>5. QED
    BY <2>4 DEF ops
<1>5. CASE ~(Len(a) + Len(b) > MaxMyersInputSize) /\ a # <<>> /\ b # <<>>
  <2>1. ops = Myers(a, b)
    BY <1>5 DEF EditScript
  <2>2. Len(a) + Len(b) # 0
    <3>1. Len(a) # 0
      BY <1>5
    <3>2. QED
      BY <1>1, <3>1
  <2>3. Script(a, b, Myers(a, b)) /\ Shortest(a, b, Myers(a, b))
    BY <2>2, MyersIs
  <2> HIDE DEF ops
  <2>4. QED
    BY <2>1, <2>3 DEF ops
<1>6. QED
  BY <1>2, <1>3, <1>4, <1>5

-----------------------------------------------------------------------------
(* The length of the table is a bound: along any script that turns a into  *)
(* b, the deletions and insertions so far are never fewer than the distance*)
(* of the prefixes it has produced.                                        *)
Starts(s, t) == Len(s) <= Len(t) /\ \A i \in 1..Len(s) : s[i] = t[i]

LEMMA LinesGrow ==
  ASSUME NEW n \in Nat, NEW ops, NEW kinds, NEW stage, LinesAlong(stage, n, ops, kinds)
  PROVE  \A m \in 0..n : Starts(stage[m], stage[n])
<1> DEFINE S == {k \in 0..n : Starts(stage[n - k], stage[n])}
<1>1. \A m \in 0..n : stage[m] \in Seq(Names)
  BY DEF LinesAlong
<1>2. 0 \in S
  <2>1. n - 0 = n /\ 0 \in 0..n /\ Len(stage[n]) \in Nat
    BY <1>1
  <2>2. QED
    BY <2>1 DEF Starts
<1>3. ASSUME NEW k \in 0..(n - 1), k \in S PROVE k + 1 \in S
  <2> DEFINE m == n - (k + 1)
             s == stage[m]
             t == stage[m + 1]
  <2>1. m \in 0..(n - 1) /\ m \in 0..n /\ m + 1 \in 0..n /\ m + 1 = n - k /\ k + 1 \in 0..n
    OBVIOUS
  <2> HIDE DEF m
  <2>2. t = IF ops[m + 1].op \in kinds THEN Append(s, ops[m + 1].line) ELSE s
    BY <2>1 DEF LinesAlong, MoreLines
  <2>3. s \in Seq(Names) /\ t \in Seq(Names) /\ Starts(t, stage[n])
    BY <1>1, <1>3, <2>1
  <2> HIDE DEF s, t
  <2>4. Starts(s, t)
    <3>1. CASE ops[m + 1].op \in kinds
      <4>1. t = Append(s, ops[m + 1].line)
        BY <2>2, <3>1
      <4>2. QED
        BY <2>3, <4>1 DEF Starts
    <3>2. CASE ops[m + 1].op \notin kinds
      BY <2>2, <2>3, <3>2 DEF Starts
    <3>3. QED
      BY <3>1, <3>2
  <2>5. Starts(s, stage[n])
    <3>1. Len(s) \in Nat /\ Len(t) \in Nat /\ Len(s) <= Len(t)
      BY <2>3, <2>4 DEF Starts
    <3>2. \A i \in 1..Len(s) : i \in 1..Len(t)
      BY <3>1
    <3>3. Len(stage[n]) \in Nat
      BY <1>1
    <3>4. QED
      BY <2>3, <2>4, <3>1, <3>2, <3>3 DEF Starts
  <2>6. QED
    BY <2>1, <2>5 DEF s, m
<1>4. ASSUME NEW m \in 0..n PROVE Starts(stage[m], stage[n])
  <2>1. \A k \in 0..n : k \in S
    <3> HIDE DEF S
    <3>1. QED
      BY <1>2, <1>3, UpTo
  <2>2. n - m \in 0..n /\ n - (n - m) = m
    OBVIOUS
  <2>3. QED
    BY <2>1, <2>2
<1>5. QED
  BY <1>4

(* One operation takes the lengths x, y, c to these.                       *)
Count(ops, kinds, i, x) == IF ops[i].op \in kinds THEN x + 1 ELSE x

LineMore(ops, kinds, i, s, t, all) ==
  /\ Len(s) \in Nat /\ Len(t) = Count(ops, kinds, i, Len(s)) /\ Len(t) <= Len(all)
  /\ ops[i].op \in kinds => all[Len(s) + 1] = ops[i].line

LEMMA LinesCounted ==
  ASSUME NEW n \in Nat, NEW ops, NEW kinds, NEW stage, LinesAlong(stage, n, ops, kinds),
         NEW i \in 0..(n - 1)
  PROVE  LineMore(ops, kinds, i + 1, stage[i], stage[i + 1], stage[n])
<1> DEFINE s == stage[i]
           t == stage[i + 1]
<1>1. i \in 0..n /\ i + 1 \in 0..n
  OBVIOUS
<1>2. s \in Seq(Names) /\ t \in Seq(Names) /\ stage[n] \in Seq(Names)
        /\ t = IF ops[i + 1].op \in kinds THEN Append(s, ops[i + 1].line) ELSE s
  BY <1>1 DEF LinesAlong, MoreLines
<1>3. Starts(t, stage[n])
  BY <1>1, LinesGrow
<1> HIDE DEF s, t
<1>4. Len(s) \in Nat /\ Len(t) <= Len(stage[n])
  BY <1>2, <1>3 DEF Starts
<1>5. CASE ops[i + 1].op \in kinds
  <2>1. t = Append(s, ops[i + 1].line)
    BY <1>2, <1>5
  <2>2. Len(t) = Len(s) + 1 /\ t[Len(s) + 1] = ops[i + 1].line
    BY <1>2, <2>1
  <2>3. Len(s) + 1 \in 1..Len(t)
    BY <1>4, <2>2
  <2>4. stage[n][Len(s) + 1] = t[Len(s) + 1]
    BY <1>3, <2>3 DEF Starts
  <2>5. QED
    BY <1>4, <1>5, <2>2, <2>4 DEF Count, LineMore, s, t
<1>6. CASE ops[i + 1].op \notin kinds
  <2>1. t = s
    BY <1>2, <1>6
  <2>2. QED
    BY <1>4, <1>6, <2>1 DEF Count, LineMore, s, t
<1>7. QED
  BY <1>5, <1>6

(* The lengths after i operations, and the distance they have covered.     *)
Covered(e, x, y, c) ==
  x \in Nat /\ y \in Nat /\ c \in Nat /\ e[x][y] \in Nat /\ x + y - 2 * c >= e[x][y]

LEMMA CoverMore ==
  ASSUME NEW a, NEW b, NEW e, Edits(a, b, Len(a), Len(b), e), NEW ops, NEW i,
         ops[i].op \in {"e", "d", "i"}, NEW x, NEW y, NEW c, Covered(e, x, y, c),
         ops[i].op = "e" => Agrees(a, b, Len(a), Len(b), x + 1, y + 1)
  PROVE  Covered(e, Count(ops, {"e", "d"}, i, x), Count(ops, {"e", "i"}, i, y),
                 Count(ops, {"e"}, i, c))
<1>1. /\ x \in Nat /\ y \in Nat /\ c \in Nat /\ e[x][y] \in Nat /\ x + y - 2 * c >= e[x][y]
      /\ x + 1 \in Nat /\ y + 1 \in Nat /\ c + 1 \in Nat
  BY DEF Covered
<1>2. /\ e[x + 1][y] \in Nat /\ e[x][y + 1] \in Nat /\ e[x + 1][y + 1] \in Nat
      /\ e[x + 1][y] <= e[x][y] + 1 /\ e[x][y + 1] <= e[x][y] + 1
  BY <1>1 DEF Edits, Reached, Moves
<1>3. CASE ops[i].op = "e"
  <2>1. /\ Count(ops, {"e", "d"}, i, x) = x + 1 /\ Count(ops, {"e", "i"}, i, y) = y + 1
        /\ Count(ops, {"e"}, i, c) = c + 1
    BY <1>3 DEF Count
  <2>2. e[x + 1][y + 1] = e[x][y]
    <3>1. Slides(a, b, Len(a), Len(b), e, x, y)
      BY <1>1 DEF Edits
    <3>2. QED
      BY <1>3, <3>1 DEF Slides
  <2>3. (x + 1) + (y + 1) - 2 * (c + 1) >= e[x + 1][y + 1]
    <3> DEFINE here == e[x][y]
               there == e[x + 1][y + 1]
    <3>1. x + y - 2 * c >= here /\ there = here /\ here \in Nat
      BY <1>1, <2>2
    <3> HIDE DEF here, there
    <3>2. (x + 1) + (y + 1) - 2 * (c + 1) >= there
      BY <1>1, <3>1
    <3>3. QED
      BY <3>2 DEF there
  <2>4. QED
    BY <1>1, <1>2, <2>1, <2>3 DEF Covered
<1>4. CASE ops[i].op = "d"
  <2>1. /\ Count(ops, {"e", "d"}, i, x) = x + 1 /\ Count(ops, {"e", "i"}, i, y) = y
        /\ Count(ops, {"e"}, i, c) = c
    BY <1>4 DEF Count
  <2>2. (x + 1) + y - 2 * c >= e[x + 1][y]
    <3> DEFINE here == e[x][y]
               there == e[x + 1][y]
    <3>1. x + y - 2 * c >= here /\ there <= here + 1 /\ here \in Nat /\ there \in Nat
      BY <1>1, <1>2
    <3> HIDE DEF here, there
    <3>2. (x + 1) + y - 2 * c >= there
      BY <1>1, <3>1
    <3>3. QED
      BY <3>2 DEF there
  <2>3. QED
    BY <1>1, <1>2, <2>1, <2>2 DEF Covered
<1>5. CASE ops[i].op = "i"
  <2>1. /\ Count(ops, {"e", "d"}, i, x) = x /\ Count(ops, {"e", "i"}, i, y) = y + 1
        /\ Count(ops, {"e"}, i, c) = c
    BY <1>5 DEF Count
  <2>2. x + (y + 1) - 2 * c >= e[x][y + 1]
    <3> DEFINE here == e[x][y]
               there == e[x][y + 1]
    <3>1. x + y - 2 * c >= here /\ there <= here + 1 /\ here \in Nat /\ there \in Nat
      BY <1>1, <1>2
    <3> HIDE DEF here, there
    <3>2. x + (y + 1) - 2 * c >= there
      BY <1>1, <3>1
    <3>3. QED
      BY <3>2 DEF there
  <2>3. QED
    BY <1>1, <1>2, <2>1, <2>2 DEF Covered
<1>6. QED
  BY <1>3, <1>4, <1>5

(* No script that turns a into b keeps more lines than the table says.     *)
LEMMA NoScriptKeepsMore ==
  ASSUME NEW a \in Seq(Names), NEW b \in Seq(Names), NEW ops, Script(a, b, ops)
  PROVE  Len(LinesOf(ops, {"e"})) <= CommonLength(a, b)
<1> DEFINE n == Len(ops)
<1>1. /\ ops \in Seq(Operation) /\ LinesOf(ops, {"e", "d"}) = a /\ LinesOf(ops, {"e", "i"}) = b
  BY DEF Script
<1>2. n \in Nat /\ DOMAIN ops = 1..n /\ \A i \in 1..n : ops[i] \in Operation
  BY <1>1
<1>3. \A i \in 1..n : ops[i].line \in Names /\ ops[i].op \in {"e", "d", "i"}
  BY <1>2 DEF Operation
<1> HIDE DEF n
<1>4. PICK old : LinesAlong(old, n, ops, {"e", "d"})
  BY <1>2, <1>3, LinesStages
<1>5. PICK new : LinesAlong(new, n, ops, {"e", "i"})
  BY <1>2, <1>3, LinesStages
<1>6. PICK kept : LinesAlong(kept, n, ops, {"e"})
  BY <1>2, <1>3, LinesStages
<1>7. old[n] = a /\ new[n] = b /\ kept[n] = LinesOf(ops, {"e"})
  BY <1>1, <1>4, <1>5, <1>6 DEF LinesAlong
<1>8. PICK e : /\ Edits(a, b, Len(a), Len(b), e)
               /\ e[Len(a)][Len(b)] = Len(a) + Len(b) - 2 * CommonLength(a, b)
               /\ CommonLength(a, b) \in Nat
  BY EditsExist
<1> DEFINE S == {i \in 0..n : Covered(e, Len(old[i]), Len(new[i]), Len(kept[i]))}
<1>9. 0 \in S
  <2>1. old[0] = <<>> /\ new[0] = <<>> /\ kept[0] = <<>> /\ 0 \in 0..n
    BY <1>2, <1>4, <1>5, <1>6 DEF LinesAlong
  <2>2. Len(old[0]) = 0 /\ Len(new[0]) = 0 /\ Len(kept[0]) = 0
    BY <2>1
  <2>3. e[0][0] = 0 /\ 0 \in Nat /\ 0 + 0 - 2 * 0 >= 0
    BY <1>8 DEF Edits
  <2>4. Covered(e, 0, 0, 0)
    BY <2>3 DEF Covered
  <2>5. QED
    BY <2>1, <2>2, <2>4
<1>10. ASSUME NEW i \in 0..(n - 1), i \in S PROVE i + 1 \in S
  <2> DEFINE x == Len(old[i])
             y == Len(new[i])
             c == Len(kept[i])
  <2>1. i + 1 \in 0..n /\ i + 1 \in 1..n
    BY <1>2
  <2>2. /\ x \in Nat /\ Len(old[i + 1]) = Count(ops, {"e", "d"}, i + 1, x)
        /\ Len(old[i + 1]) <= Len(a)
        /\ ops[i + 1].op \in {"e", "d"} => a[x + 1] = ops[i + 1].line
    <3>1. LineMore(ops, {"e", "d"}, i + 1, old[i], old[i + 1], old[n])
      BY <1>2, <1>4, LinesCounted
    <3>2. QED
      BY <1>7, <3>1 DEF LineMore
  <2>3. /\ y \in Nat /\ Len(new[i + 1]) = Count(ops, {"e", "i"}, i + 1, y)
        /\ Len(new[i + 1]) <= Len(b)
        /\ ops[i + 1].op \in {"e", "i"} => b[y + 1] = ops[i + 1].line
    <3>1. LineMore(ops, {"e", "i"}, i + 1, new[i], new[i + 1], new[n])
      BY <1>2, <1>5, LinesCounted
    <3>2. QED
      BY <1>7, <3>1 DEF LineMore
  <2>4. Len(kept[i + 1]) = Count(ops, {"e"}, i + 1, c)
    <3>1. LineMore(ops, {"e"}, i + 1, kept[i], kept[i + 1], kept[n])
      BY <1>2, <1>6, LinesCounted
    <3>2. QED
      BY <3>1 DEF LineMore
  <2>5. Covered(e, x, y, c)
    BY <1>10
  <2> HIDE DEF x, y, c
  <2>6. ASSUME ops[i + 1].op = "e" PROVE Agrees(a, b, Len(a), Len(b), x + 1, y + 1)
    <3>1. Count(ops, {"e", "d"}, i + 1, x) = x + 1 /\ Count(ops, {"e", "i"}, i + 1, y) = y + 1
      BY <2>6 DEF Count
    <3>2. a[x + 1] = b[y + 1]
      BY <2>2, <2>3, <2>6
    <3>3. QED
      BY <2>2, <2>3, <3>1, <3>2 DEF Agrees
  <2>7. Covered(e, Count(ops, {"e", "d"}, i + 1, x), Count(ops, {"e", "i"}, i + 1, y),
                Count(ops, {"e"}, i + 1, c))
    BY <1>3, <1>8, <2>1, <2>5, <2>6, CoverMore
  <2>8. QED
    BY <2>1, <2>2, <2>3, <2>4, <2>7
<1>11. n \in S
  <2> HIDE DEF S
  <2>1. n \in 0..n
    BY <1>2
  <2>2. QED
    BY <1>2, <1>9, <1>10, <2>1, UpTo
<1> DEFINE k == Len(kept[n])
           most == CommonLength(a, b)
<1>12. k \in Nat /\ Len(a) + Len(b) - 2 * k >= e[Len(a)][Len(b)]
  BY <1>7, <1>11 DEF Covered
<1>13. e[Len(a)][Len(b)] = Len(a) + Len(b) - 2 * most /\ most \in Nat
  BY <1>8
<1>14. Len(a) \in Nat /\ Len(b) \in Nat
  OBVIOUS
<1>15. Len(LinesOf(ops, {"e"})) = k
  BY <1>7
<1> HIDE DEF k, most
<1>16. k <= most
  BY <1>12, <1>13, <1>14
<1>17. QED
  BY <1>15, <1>16 DEF most

(* Up to MaxMyersInputSize lines, no script that turns a into b keeps more *)
(* lines than computeEditScript's: CommonLength is a bound on all of them, *)
(* not only a number the answer agrees with.                               *)
THEOREM NoScriptIsShorter ==
  ASSUME NEW a \in Seq(Names), NEW b \in Seq(Names), Len(a) + Len(b) <= MaxMyersInputSize
  PROVE  /\ Script(a, b, EditScript(a, b))
         /\ \A ops : Script(a, b, ops) =>
              Len(LinesOf(ops, {"e"})) <= Len(LinesOf(EditScript(a, b), {"e"}))
<1>1. Script(a, b, EditScript(a, b)) /\ Shortest(a, b, EditScript(a, b))
  BY EditScriptIs
<1>2. \A ops : Script(a, b, ops) => Len(LinesOf(ops, {"e"})) <= CommonLength(a, b)
  BY NoScriptKeepsMore
<1>3. Len(LinesOf(EditScript(a, b), {"e"})) = CommonLength(a, b)
  BY <1>1 DEF Shortest
<1>4. QED
  BY <1>1, <1>2, <1>3

(* For any two texts: the script turns the old one into the new one, and   *)
(* up to MaxMyersInputSize lines no shorter one does (myersForward,        *)
(* myersBacktrack and greedyDiff).                                         *)
THEOREM ScriptsAreMinimal == Spec => []ScriptIsMinimal
<1>1. Answered => ScriptIsMinimal
  <2> SUFFICES ASSUME Answered, task = "diff", output # None
               PROVE  ScriptIsMinimal
    BY DEF ScriptIsMinimal, Done
  <2> DEFINE a == input.a
             b == input.b
             ops == EditScript(a, b)
  <2>1. a \in Seq(Names) /\ b \in Seq(Names)
    BY ConstantsAssumption DEF ConstantsAssumption, Answered, Inputs
  <2>2. output.ops = ops
    BY DEF Answered
  <2> HIDE DEF a, b
  <2>3. Script(a, b, ops) /\ (Len(a) + Len(b) <= MaxMyersInputSize => Shortest(a, b, ops))
    BY <2>1, EditScriptIs
  <2> HIDE DEF ops
  <2>4. /\ LinesOf(ops, {"e", "d"}) = a /\ LinesOf(ops, {"e", "i"}) = b
        /\ Len(a) + Len(b) <= MaxMyersInputSize => Len(LinesOf(ops, {"e"})) = CommonLength(a, b)
    BY <2>3 DEF Script, Shortest
  <2>5. QED
    BY <2>2, <2>4 DEF ScriptIsMinimal, a, b
<1>2. QED
  BY <1>1, AnsweredInit, AnsweredNext, PTL DEF Spec

(* For any two texts and any number of context lines (groupIntoHunks and   *)
(* buildHunk).                                                             *)
THEOREM HunksShowEveryChange == Spec => []HunksShowChanges
<1>1. Answered => HunksShowChanges
  <2> SUFFICES ASSUME Answered, task = "diff", output # None
               PROVE  HunksShowChanges
    BY DEF HunksShowChanges, Done
  <2> DEFINE ops == EditScript(input.a, input.b)
             hunks == Hunks(ops, input.ctxLines)
             n == Len(ops)
  <2>1. input.a \in Seq(Names) /\ input.b \in Seq(Names) /\ input.ctxLines \in Nat
    BY ConstantsAssumption DEF ConstantsAssumption, Answered, Inputs
  <2>2. output.ops = ops /\ output.hunks = hunks
    BY DEF Answered
  <2>3. ops \in Seq(Operation)
    <3>1. Script(input.a, input.b, ops)
      BY <2>1, EditScriptIs
    <3> HIDE DEF ops
    <3>2. QED
      BY <3>1 DEF Script
  <2> HIDE DEF ops
  <2>4. n \in Nat /\ DOMAIN ops = 1..n
    BY <2>3
  <2> HIDE DEF n
  <2>5. /\ \A h \in DOMAIN hunks : \A x, y \in DOMAIN hunks[h] : hunks[h][x] - hunks[h][y] = x - y
        /\ \A g, h \in DOMAIN hunks : g < h =>
             \A x \in ToSet(hunks[g]), y \in ToSet(hunks[h]) : x < y
        /\ UNION {ToSet(hunks[h]) : h \in DOMAIN hunks} =
             {i \in DOMAIN ops : \E j \in DOMAIN ops :
                ops[j].op # "e" /\ j - i \in (-input.ctxLines)..input.ctxLines}
    <3>1. n = Len(ops)
      BY DEF n
    <3>2. QED
      BY <2>1, <2>4, <3>1, HunksAre
  <2> HIDE DEF hunks
  <2>6. QED
    BY <2>2, <2>5 DEF HunksShowChanges
<1>2. QED
  BY <1>1, AnsweredInit, AnsweredNext, PTL DEF Spec
=============================================================================
