------------------------ MODULE ImportArchive_proofs ------------------------
(***************************************************************************)
(* Proofs about ImportArchive, for archives of any members.                *)
(*                                                                         *)
(* The model compares what the code computes on the way with what an       *)
(* archive is: a stack of names with the depth a text reaches, and a walk  *)
(* that goes back to the root at every link with one that follows links    *)
(* where they are.  Both are inductions over texts and walks.  They are    *)
(* done over sets: a set of numbers that holds 0 and with each number the  *)
(* next one holds them all, and a recursion that looks only below along a  *)
(* well-founded relation has a function that satisfies it, so what Follow  *)
(* chooses is one.                                                         *)
(***************************************************************************)
EXTENDS ImportArchive, FiniteSetTheorems, SequenceTheorems, TLAPS

-----------------------------------------------------------------------------
(* Induction over numbers, told by sets.                                   *)

LEMMA NatMinimum ==
    ASSUME NEW T \in SUBSET Nat, T # {}
    PROVE  \E x \in T : \A y \in T : x <= y
<1>1. PICK n \in T : TRUE
    OBVIOUS
<1> DEFINE S == 0 .. n
           D == {0 .. m : m \in {k \in T : k <= n}}
           R == StrictSubsetOrdering(S)
<1>2. IsFiniteSet(S)
    BY FS_Interval
<1>3. IsWellFoundedOn(R, FiniteSubsetsOf(S))
    BY <1>2, FS_StrictSubsetOrderingWellFounded
<1>4. D \subseteq FiniteSubsetsOf(S)
  <2>1. SUFFICES ASSUME NEW m \in T, m <= n PROVE 0 .. m \in FiniteSubsetsOf(S)
      OBVIOUS
  <2>2. IsFiniteSet(0 .. m)
      BY FS_Interval
  <2>3. 0 .. m \subseteq S
      BY <2>1
  <2> QED
      BY <2>2, <2>3 DEF FiniteSubsetsOf
<1>5. D # {}
    OBVIOUS
<1>6. PICK X \in D : \A Y \in D : ~ (<<Y, X>> \in R)
  <2> HIDE DEF D, R
  <2> QED
      BY <1>3, <1>4, <1>5, WFMin
<1>7. PICK x \in T : x <= n /\ X = 0 .. x
    OBVIOUS
<1>8. ASSUME NEW y \in T, y < x PROVE FALSE
  <2>1. 0 .. y \in D
      BY <1>7, <1>8
  <2>2. 0 .. y \subseteq S /\ X \subseteq S
      BY <1>7, <1>8
  <2>3. 0 .. y \subseteq X /\ 0 .. y # X
    <3>1. x \in X /\ x \notin 0 .. y
        BY <1>7, <1>8
    <3> QED
        BY <1>7, <1>8, <3>1
  <2>4. <<0 .. y, X>> \in R
      BY <2>2, <2>3 DEF StrictSubsetOrdering
  <2> QED
      BY <2>1, <2>4, <1>6
<1> QED
    BY <1>8

LEMMA UpTo ==
    ASSUME NEW n \in Nat, NEW S, 0 \in S, \A k \in 0 .. n - 1 : k \in S => k + 1 \in S
    PROVE  0 .. n \subseteq S
<1> SUFFICES ASSUME ~(0 .. n \subseteq S) PROVE FALSE
    OBVIOUS
<1> DEFINE T == {k \in 0 .. n : k \notin S}
<1>1. T \in SUBSET Nat /\ T # {}
    OBVIOUS
<1>2. PICK x \in T : \A y \in T : x <= y
    BY <1>1, NatMinimum
<1>3. x - 1 \in 0 .. n - 1 /\ x - 1 \notin T
    BY <1>2
<1> QED
    BY <1>2, <1>3

-----------------------------------------------------------------------------
(* Recursion along a well-founded relation: a functional that looks only   *)
(* below has a fixed point.                                                *)

Depends(Phi, F, D, R) ==
    \A f, g \in F : \A x \in D :
        (\A y \in D : <<y, x>> \in R => f[y] = g[y]) => Phi[f][x] = Phi[g][x]

Transitive(D, R) ==
    \A x, y, z \in D : <<x, y>> \in R /\ <<y, z>> \in R => <<x, z>> \in R

Typed(D, U, T) == {f \in [D -> U] : \A x \in D : f[x] \in T[x]}

\* f is a solution from x downwards.
Solves(Phi, F, D, R, f, x) ==
    /\ f \in F
    /\ \A y \in D : y = x \/ <<y, x>> \in R => Phi[f][y] = f[y]

LEMMA SolutionsAgree ==
    ASSUME NEW D, NEW R, NEW F, NEW Phi \in [F -> F],
           IsWellFoundedOn(R, D), Transitive(D, R), Depends(Phi, F, D, R),
           NEW x \in D, NEW f, NEW g, Solves(Phi, F, D, R, f, x), Solves(Phi, F, D, R, g, x)
    PROVE  f[x] = g[x]
<1> DEFINE T == {y \in D : /\ Solves(Phi, F, D, R, f, y) /\ Solves(Phi, F, D, R, g, y)
                           /\ f[y] # g[y]}
<1> SUFFICES ASSUME T # {} PROVE FALSE
    OBVIOUS
<1>1. PICK y \in T : \A z \in T : ~(<<z, y>> \in R)
  <2>1. T \subseteq D
      OBVIOUS
  <2> HIDE DEF T
  <2> QED
      BY <2>1, WFMin
<1>2. ASSUME NEW z \in D, <<z, y>> \in R PROVE f[z] = g[z]
  <2>1. Solves(Phi, F, D, R, f, z) /\ Solves(Phi, F, D, R, g, z)
      BY <1>2 DEF Solves, Transitive
  <2> QED
      BY <2>1, <1>1, <1>2
<1>3. Phi[f][y] = Phi[g][y]
    BY <1>2 DEF Depends, Solves
<1> QED
    BY <1>3 DEF Solves

LEMMA SolutionExists ==
    ASSUME NEW D, NEW R, NEW U, NEW T, NEW Phi \in [Typed(D, U, T) -> Typed(D, U, T)],
           Typed(D, U, T) # {},
           IsWellFoundedOn(R, D), Transitive(D, R), Depends(Phi, Typed(D, U, T), D, R)
    PROVE  \E f \in Typed(D, U, T) : Phi[f] = f
<1> DEFINE F == Typed(D, U, T)
           Sol(f, x) == Solves(Phi, F, D, R, f, x)
           Of(x) == CHOOSE f \in F : Sol(f, x)
<1>1. PICK b \in F : TRUE
    OBVIOUS
<1>2. ASSUME NEW x \in D PROVE ~(<<x, x>> \in R)
    BY <1>2, WellFoundedIsIrreflexive
<1>3. ASSUME NEW x \in D, NEW f \in F, NEW g \in F, Sol(f, x), Sol(g, x)
      PROVE  f[x] = g[x]
    BY <1>3, SolutionsAgree
<1>4. ASSUME NEW x \in D, NEW y \in D, NEW f \in F, Sol(f, x), <<y, x>> \in R
      PROVE  Sol(f, y)
    BY <1>4 DEF Solves, Transitive
\* What is solved below x can be glued together, below x and at x itself.
<1>5. ASSUME NEW x \in D, \A y \in D : <<y, x>> \in R => \E f \in F : Sol(f, y)
      PROVE  \E h \in F : Sol(h, x)
  <2> DEFINE g == [y \in D |-> IF <<y, x>> \in R THEN Of(y)[y] ELSE b[y]]
             h == [y \in D |-> IF y = x THEN Phi[g][x] ELSE g[y]]
  <2>1. ASSUME NEW y \in D, <<y, x>> \in R PROVE Of(y) \in F /\ Sol(Of(y), y)
      BY <1>5, <2>1
  <2>2. g \in F
      BY <2>1, <1>1 DEF Typed
  <2>3. Phi[g] \in F
      BY <2>2
  <2>4. h \in F
      BY <2>2, <2>3 DEF Typed
  <2>5. ASSUME NEW y \in D, <<y, x>> \in R PROVE Phi[h][y] = h[y]
    <3>1. ASSUME NEW z \in D, <<z, y>> \in R PROVE h[z] = Of(y)[z]
      <4>1. <<z, x>> \in R /\ z # x
          BY <2>5, <3>1, <1>2 DEF Transitive
      <4>2. Sol(Of(y), z) /\ Sol(Of(z), z) /\ Of(y) \in F /\ Of(z) \in F
          BY <2>1, <2>5, <3>1, <4>1, <1>4
      <4>3. Of(y)[z] = Of(z)[z]
          BY <4>2, <1>3
      <4> QED
          BY <4>1, <4>3
    <3>2. Phi[h][y] = Phi[Of(y)][y]
      <4> HIDE DEF h, Of
      <4> QED
          BY <3>1, <2>4, <2>1, <2>5 DEF Depends
    <3>3. Phi[Of(y)][y] = Of(y)[y]
        BY <2>1, <2>5 DEF Solves
    <3>4. y # x
        BY <1>2, <2>5
    <3>5. h[y] = Of(y)[y]
        BY <2>5, <3>4
    <3> HIDE DEF h, Of
    <3> QED
        BY <3>2, <3>3, <3>5
  <2>6. Phi[h][x] = h[x]
    <3>1. ASSUME NEW z \in D, <<z, x>> \in R PROVE h[z] = g[z]
        BY <3>1, <1>2
    <3>2. Phi[h][x] = Phi[g][x]
      <4> HIDE DEF h, g
      <4> QED
          BY <3>1, <2>2, <2>4 DEF Depends
    <3>3. h[x] = Phi[g][x]
        OBVIOUS
    <3> HIDE DEF h, g
    <3> QED
        BY <3>2, <3>3
  <2>7. Sol(h, x)
    <3> HIDE DEF h
    <3> QED
        BY <2>4, <2>5, <2>6 DEF Solves
  <2> HIDE DEF h
  <2> QED
      BY <2>4, <2>7
<1>6. ASSUME NEW x \in D PROVE \E f \in F : Sol(f, x)
  <2> DEFINE Bad == {y \in D : ~ \E f \in F : Sol(f, y)}
  <2> SUFFICES ASSUME Bad # {} PROVE FALSE
      OBVIOUS
  <2>1. Bad \subseteq D
      OBVIOUS
  <2>2. PICK y \in Bad : \A z \in Bad : ~(<<z, y>> \in R)
    <3> HIDE DEF Bad
    <3> QED
        BY <2>1, WFMin
  <2>3. \A z \in D : <<z, y>> \in R => \E f \in F : Sol(f, z)
      BY <2>2
  <2> QED
      BY <2>3, <1>5
<1> DEFINE f == [x \in D |-> Of(x)[x]]
<1>7. ASSUME NEW x \in D PROVE Of(x) \in F /\ Sol(Of(x), x)
    BY <1>6
<1>8. f \in F
    BY <1>7 DEF Typed
<1>9. ASSUME NEW x \in D PROVE Phi[f][x] = f[x]
  <2>1. ASSUME NEW z \in D, <<z, x>> \in R PROVE f[z] = Of(x)[z]
    <3>1. Sol(Of(x), z) /\ Sol(Of(z), z) /\ Of(x) \in F /\ Of(z) \in F
        BY <1>7, <2>1, <1>4
    <3> QED
        BY <3>1, <1>3
  <2>2. Phi[f][x] = Phi[Of(x)][x]
    <3>1. Of(x) \in F
        BY <1>7
    <3> HIDE DEF f, Of
    <3> QED
        BY <2>1, <1>8, <3>1 DEF Depends
  <2>3. Phi[Of(x)][x] = Of(x)[x]
      BY <1>7 DEF Solves
  <2>4. f[x] = Of(x)[x]
      OBVIOUS
  <2> HIDE DEF f, Of
  <2> QED
      BY <2>2, <2>3, <2>4
<1> QED
  <2>1. Phi[f] \in F
      BY <1>8
  <2>2. Phi[f] = f
    <3> HIDE DEF f
    <3> QED
        BY <1>8, <1>9, <2>1 DEF Typed
  <2> HIDE DEF f
  <2> QED
      BY <1>8, <2>2

LEMMA MeasureWellFounded ==
    ASSUME NEW D, NEW m \in [D -> Nat]
    PROVE  /\ IsWellFoundedOn({r \in D \X D : m[r[1]] < m[r[2]]}, D)
           /\ Transitive(D, {r \in D \X D : m[r[1]] < m[r[2]]})
<1> DEFINE R == {r \in D \X D : m[r[1]] < m[r[2]]}
<1>1. ASSUME NEW T \in SUBSET D, T # {} PROVE \E x \in T : \A y \in T : ~(<<y, x>> \in R)
  <2>1. PICK n \in {m[x] : x \in T} : \A k \in {m[x] : x \in T} : n <= k
    <3>1. {m[x] : x \in T} \in SUBSET Nat /\ {m[x] : x \in T} # {}
        BY <1>1
    <3> QED
        BY <3>1, NatMinimum
  <2>2. PICK x \in T : n = m[x]
      BY <2>1
  <2>3. \A y \in T : m[x] <= m[y] /\ m[x] \in Nat /\ m[y] \in Nat
      BY <2>1, <2>2
  <2> QED
      BY <2>3
<1>2. IsWellFoundedOn(R, D)
  <2> HIDE DEF R
  <2> QED
      BY <1>1, MinWF
<1>3. Transitive(D, R)
    BY DEF Transitive
<1> QED
    BY <1>2, <1>3

-----------------------------------------------------------------------------
(* Parts.                                                                  *)

PartsUpTo(s, f, n) ==
    CASE n = 0 -> << >>
      [] n > 0 /\ s[n] \in {"", "."} -> f[n - 1]
      [] OTHER -> Append(f[n - 1], s[n])

LEMMA PartsStepType ==
    ASSUME NEW s, NEW f, NEW n \in Nat, n # 0, s[n] \in Names, f[n - 1] \in Paths
    PROVE  PartsUpTo(s, f, n) \in Paths
<1>1. Append(f[n - 1], s[n]) \in Paths
    BY AppendProperties DEF Paths
<1> QED
    BY <1>1 DEF PartsUpTo

LEMMA PartsExist ==
    ASSUME NEW s \in Paths
    PROVE  \E f : f = [n \in 0 .. Len(s) |-> PartsUpTo(s, f, n)]
<1> DEFINE D == 0 .. Len(s)
           T == [n \in D |-> Paths]
           F == Typed(D, Paths, T)
           m == [n \in D |-> n]
           R == {r \in D \X D : m[r[1]] < m[r[2]]}
           Phi == [f \in F |-> [n \in D |-> PartsUpTo(s, f, n)]]
<1>1. F = [D -> Paths]
    BY DEF Typed
<1>2. ASSUME NEW f \in F, NEW n \in D PROVE PartsUpTo(s, f, n) \in Paths
  <2>1. CASE n = 0
      BY <2>1 DEF PartsUpTo, Paths
  <2>2. CASE n # 0
    <3>1. n - 1 \in D /\ n \in 1 .. Len(s)
        BY <2>2
    <3>2. s[n] \in Names
        BY <3>1, ElementOfSeq DEF Paths
    <3>3. f[n - 1] \in Paths
        BY <3>1, <1>1
    <3> QED
        BY <2>2, <3>2, <3>3, PartsStepType
  <2> QED
      BY <2>1, <2>2
<1>3. Phi \in [F -> F]
    BY <1>1, <1>2
<1>4. F # {}
  <2>1. [n \in D |-> << >>] \in F
      BY <1>1 DEF Paths
  <2> QED
      BY <2>1
<1>5. m \in [D -> Nat]
    OBVIOUS
<1>6. IsWellFoundedOn(R, D) /\ Transitive(D, R)
  <2> HIDE DEF m, D
  <2> QED
      BY <1>5, MeasureWellFounded
<1>7. Depends(Phi, F, D, R)
  <2> SUFFICES ASSUME NEW f \in F, NEW g \in F, NEW x \in D,
                      \A y \in D : <<y, x>> \in R => f[y] = g[y]
               PROVE  Phi[f][x] = Phi[g][x]
      BY DEF Depends
  <2>1. CASE x = 0
      BY <2>1 DEF PartsUpTo
  <2>2. CASE x # 0
    <3>1. x - 1 \in D /\ <<x - 1, x>> \in R
        BY <2>2
    <3>2. f[x - 1] = g[x - 1]
        BY <3>1
    <3> QED
        BY <2>2, <3>2 DEF PartsUpTo
  <2> QED
      BY <2>1, <2>2
<1>8. PICK f \in F : Phi[f] = f
  <2> HIDE DEF F, Phi, D, R, T
  <2> QED
      BY <1>3, <1>4, <1>6, <1>7, SolutionExists DEF F
<1> QED
    BY <1>8

LEMMA PartsType ==
    ASSUME NEW t, t.segments \in Paths
    PROVE  Parts(t) \in Paths
<1> DEFINE s == t.segments
           D == 0 .. Len(s)
           f == CHOOSE g : g = [n \in D |-> PartsUpTo(s, g, n)]
<1>1. Parts(t) = f[Len(s)]
    BY DEF Parts, PartsUpTo
<1>2. f = [n \in D |-> PartsUpTo(s, f, n)]
    BY PartsExist
<1> HIDE DEF f
<1> DEFINE S == {n \in D : f[n] \in Paths}
<1>5. Len(s) \in Nat
    BY DEF Paths
<1>3. 0 \in S
  <2>1. f[0] = << >>
    <3>1. f[0] = PartsUpTo(s, f, 0)
        BY <1>2, <1>5
    <3> QED
        BY <3>1 DEF PartsUpTo
  <2>2. << >> \in Paths
      BY DEF Paths
  <2> QED
      BY <2>1, <2>2, <1>5
<1>4. ASSUME NEW k \in 0 .. Len(s) - 1, k \in S PROVE k + 1 \in S
  <2>1. k + 1 \in D /\ k + 1 # 0 /\ k + 1 \in 1 .. Len(s)
      BY <1>4 DEF Paths
  <2>2. s[k + 1] \in Names
      BY <2>1, ElementOfSeq DEF Paths
  <2>3. f[k + 1] = PartsUpTo(s, f, k + 1)
      BY <1>2, <2>1
  <2>4. f[k + 1 - 1] \in Paths
      BY <1>4
  <2> QED
      BY <2>1, <2>2, <2>3, <2>4, PartsStepType
<1>6. D \subseteq S
  <2> HIDE DEF S
  <2> QED
      BY <1>3, <1>4, <1>5, UpTo
<1> QED
    BY <1>1, <1>5, <1>6

-----------------------------------------------------------------------------
(* Stack: what validateLinkTarget computes from a target's text.           *)

StackOf(base, seq, f, s) ==
    IF s = {} THEN base ELSE Push(f[s \ {Max(s)}], seq[Max(s)])

LEMMA MaxOf ==
    ASSUME NEW n \in Nat, NEW s \in SUBSET (1 .. n), s # {}
    PROVE  Max(s) \in s /\ \A x \in s : x <= Max(s)
<1> DEFINE T == {n - x : x \in s}
<1>1. T \in SUBSET Nat /\ T # {}
  <2>1. ASSUME NEW x \in s PROVE n - x \in Nat
      OBVIOUS
  <2>2. PICK x \in s : TRUE
      OBVIOUS
  <2> QED
      BY <2>1, <2>2
<1>2. PICK k \in T : \A j \in T : k <= j
    BY <1>1, NatMinimum
<1>3. PICK y \in s : k = n - y
    BY <1>2
<1>4. \A x \in s : x <= y
    BY <1>2, <1>3
<1> QED
    BY <1>4 DEF Max

LEMMA MaxUpTo ==
    ASSUME NEW k \in Nat, k # 0
    PROVE  Max(1 .. k) = k /\ (1 .. k) \ {k} = 1 .. (k - 1)
<1>1. Max(1 .. k) \in 1 .. k /\ \A x \in 1 .. k : x <= Max(1 .. k)
  <2>1. 1 .. k \in SUBSET (1 .. k) /\ 1 .. k # {}
      OBVIOUS
  <2> QED
      BY <2>1, MaxOf
<1> QED
    BY <1>1

NoUps(s) == \A i \in 1 .. Len(s) : s[i] # ".."

LEMMA AppendPath ==
    ASSUME NEW s \in Paths, NEW part \in Names
    PROVE  /\ Append(s, part) \in Paths
           /\ Len(Append(s, part)) = Len(s) + 1 /\ Len(s) \in Nat
           /\ Append(s, part) # << >>
           /\ \A i \in 1 .. Len(s) : Append(s, part)[i] = s[i]
           /\ Append(s, part)[Len(s) + 1] = part
           /\ NoUps(s) /\ part # ".." => NoUps(Append(s, part))
<1>1. /\ Append(s, part) \in Paths
      /\ Len(Append(s, part)) = Len(s) + 1 /\ Len(s) \in Nat
      /\ \A i \in 1 .. Len(s) : Append(s, part)[i] = s[i]
      /\ Append(s, part)[Len(s) + 1] = part
    BY AppendProperties, LenProperties DEF Paths
<1>2. Append(s, part) # << >>
    BY AppendProperties DEF Paths
<1>3. NoUps(s) /\ part # ".." => NoUps(Append(s, part))
  <2> DEFINE a == Append(s, part)
  <2> HIDE DEF a
  <2>1. /\ Len(a) = Len(s) + 1 /\ Len(s) \in Nat
        /\ \A i \in 1 .. Len(s) : a[i] = s[i]
        /\ a[Len(s) + 1] = part
      BY <1>1 DEF a
  <2>2. NoUps(s) /\ part # ".." => NoUps(a)
      BY <2>1 DEF NoUps
  <2> QED
      BY <2>2 DEF a
<1> QED
    BY <1>1, <1>2, <1>3

LEMMA OutsideType == Outside \in Paths /\ Len(Outside) = 1 /\ Outside[1] = ".."
<1>1. << >> \in Paths /\ Len(<< >>) = 0
    BY EmptySeq DEF Paths
<1>2. Append(<< >>, "..") = Outside
    BY DEF Outside
<1>3. ".." \in Names
    BY ImportAssumption DEF ImportAssumption
<1>4. /\ Append(<< >>, "..") \in Paths
      /\ Len(Append(<< >>, "..")) = Len(<< >>) + 1
      /\ Append(<< >>, "..")[Len(<< >>) + 1] = ".."
    BY <1>1, <1>3, AppendPath
<1>5. Len(<< >>) + 1 = 1
    BY <1>1
<1> QED
    BY <1>2, <1>4, <1>5

LEMMA NoUpsInside == ASSUME NEW s, NoUps(s) PROVE s # Outside
BY OutsideType DEF NoUps

LEMMA FrontPath ==
    ASSUME NEW s \in Paths, s # << >>
    PROVE  /\ Front(s) \in Paths
           /\ Len(Front(s)) = Len(s) - 1 /\ Len(s) \in Nat \ {0}
           /\ \A i \in 1 .. Len(s) - 1 : Front(s)[i] = s[i]
           /\ NoUps(s) => NoUps(Front(s))
<1>1. Len(s) \in Nat \ {0}
    BY EmptySeq DEF Paths
<1>2. /\ SubSeq(s, 1, Len(s) - 1) \in Paths
      /\ Len(SubSeq(s, 1, Len(s) - 1)) = Len(s) - 1
      /\ \A i \in 1 .. Len(s) - 1 : SubSeq(s, 1, Len(s) - 1)[i] = s[i]
  <2>1. \A i \in 1 .. Len(s) - 1 : s[i] \in Names
      BY <1>1, ElementOfSeq DEF Paths
  <2>2. 1 \in Int /\ Len(s) - 1 \in Int
      BY <1>1
  <2>3. /\ SubSeq(s, 1, Len(s) - 1) \in Seq(Names)
        /\ Len(SubSeq(s, 1, Len(s) - 1)) =
             IF 1 <= Len(s) - 1 THEN Len(s) - 1 - 1 + 1 ELSE 0
        /\ \A i \in 1 .. Len(s) - 1 - 1 + 1 : SubSeq(s, 1, Len(s) - 1)[i] = s[1 + i - 1]
      BY <2>1, <2>2, SubSeqProperties
  <2>4. Len(s) - 1 - 1 + 1 = Len(s) - 1
      BY <1>1
  <2>5. \A i \in 1 .. Len(s) - 1 : 1 + i - 1 = i
      BY <1>1
  <2> QED
      BY <1>1, <2>3, <2>4, <2>5 DEF Paths
<1> QED
    BY <1>1, <1>2 DEF Front, NoUps

LEMMA PushType ==
    ASSUME NEW stack \in Paths, NEW part \in Names
    PROVE  Push(stack, part) \in Paths
<1>1. Append(stack, part) \in Paths
    BY AppendPath
<1>2. Outside \in Paths
    BY OutsideType
<1>3. CASE stack # << >>
  <2>1. Front(stack) \in Paths
      BY <1>3, FrontPath
  <2> QED
      BY <1>1, <1>2, <2>1 DEF Push
<1>4. CASE stack = << >>
    BY <1>1, <1>2, <1>4 DEF Push
<1> QED
    BY <1>3, <1>4

LEMMA StackExists ==
    ASSUME NEW base \in Paths, NEW seq \in Paths
    PROVE  \E f : f = [s \in SUBSET DOMAIN seq |-> StackOf(base, seq, f, s)]
<1> DEFINE N == Len(seq)
           D == SUBSET (1 .. N)
           T == [s \in D |-> Paths]
           F == Typed(D, Paths, T)
           m == [s \in D |-> Cardinality(s)]
           R == {r \in D \X D : m[r[1]] < m[r[2]]}
           Phi == [f \in F |-> [s \in D |-> StackOf(base, seq, f, s)]]
<1>0. N \in Nat /\ DOMAIN seq = 1 .. N
    BY LenProperties DEF Paths
<1>1. F = [D -> Paths]
    BY DEF Typed
<1>8. ASSUME NEW s \in D, s # {}
      PROVE  /\ Max(s) \in s /\ s \ {Max(s)} \in D
             /\ Cardinality(s \ {Max(s)}) < Cardinality(s)
  <2>1. Max(s) \in s
      BY <1>0, <1>8, MaxOf
  <2>2. IsFiniteSet(s)
    <3>1. IsFiniteSet(1 .. N)
        BY <1>0, FS_Interval
    <3> QED
        BY <3>1, FS_Subset
  <2>3. Cardinality(s \ {Max(s)}) = Cardinality(s) - 1 /\ Cardinality(s) \in Nat
      BY <2>1, <2>2, FS_RemoveElement, FS_CardinalityType
  <2>4. Cardinality(s \ {Max(s)}) < Cardinality(s)
      BY <2>3
  <2>5. s \ {Max(s)} \in D
      OBVIOUS
  <2> QED
      BY <2>1, <2>4, <2>5
<1>2. ASSUME NEW f \in F, NEW s \in D PROVE StackOf(base, seq, f, s) \in Paths
  <2>1. CASE s = {}
      BY <2>1 DEF StackOf
  <2>2. CASE s # {}
    <3>1. f[s \ {Max(s)}] \in Paths
        BY <1>1, <1>8, <2>2
    <3>2. seq[Max(s)] \in Names
        BY <1>0, <1>8, <2>2, ElementOfSeq DEF Paths
    <3> QED
        BY <2>2, <3>1, <3>2, PushType DEF StackOf
  <2> QED
      BY <2>1, <2>2
<1>3. Phi \in [F -> F]
    BY <1>1, <1>2
<1>4. F # {}
  <2>1. [s \in D |-> base] \in F
      BY <1>1
  <2> QED
      BY <2>1
<1>5. m \in [D -> Nat]
  <2>1. ASSUME NEW s \in D PROVE Cardinality(s) \in Nat
    <3>1. IsFiniteSet(1 .. N)
        BY <1>0, FS_Interval
    <3> QED
        BY <3>1, FS_Subset, FS_CardinalityType
  <2> QED
      BY <2>1
<1>6. IsWellFoundedOn(R, D) /\ Transitive(D, R)
  <2> HIDE DEF m, D
  <2> QED
      BY <1>5, MeasureWellFounded
<1>7. Depends(Phi, F, D, R)
  <2> SUFFICES ASSUME NEW f \in F, NEW g \in F, NEW x \in D,
                      \A y \in D : <<y, x>> \in R => f[y] = g[y]
               PROVE  Phi[f][x] = Phi[g][x]
      BY DEF Depends
  <2>1. CASE x = {}
      BY <2>1 DEF StackOf
  <2>2. CASE x # {}
    <3>1. <<x \ {Max(x)}, x>> \in R
        BY <1>8, <2>2
    <3>2. f[x \ {Max(x)}] = g[x \ {Max(x)}]
        BY <1>8, <2>2, <3>1
    <3> QED
        BY <2>2, <3>2 DEF StackOf
  <2> QED
      BY <2>1, <2>2
<1>9. PICK f \in F : Phi[f] = f
  <2> HIDE DEF F, Phi, D, R, T
  <2> QED
      BY <1>3, <1>4, <1>6, <1>7, SolutionExists DEF F
<1>10. f = [s \in D |-> StackOf(base, seq, f, s)]
    BY <1>9
<1> QED
    BY <1>0, <1>10

\* The stack after each name of the text.
LEMMA StackSteps ==
    ASSUME NEW base \in Paths, NEW seq \in Paths
    PROVE  \E st \in [0 .. Len(seq) -> Paths] :
             /\ st[0] = base /\ Stack(base, seq) = st[Len(seq)]
             /\ \A k \in 1 .. Len(seq) : st[k] = Push(st[k - 1], seq[k])
<1> DEFINE N == Len(seq)
           f == CHOOSE g : g = [s \in SUBSET DOMAIN seq |-> StackOf(base, seq, g, s)]
           st == [k \in 0 .. N |-> f[1 .. k]]
<1>0. N \in Nat /\ DOMAIN seq = 1 .. N
    BY LenProperties DEF Paths
<1>1. Stack(base, seq) = f[DOMAIN seq]
    BY DEF Stack, FoldLeft, MapThenFoldSet, StackOf
<1>2. f = [s \in SUBSET DOMAIN seq |-> StackOf(base, seq, f, s)]
    BY StackExists
<1> HIDE DEF f
<1>3. st[0] = base
  <2>1. f[{}] = StackOf(base, seq, f, {})
      BY <1>2
  <2>2. 1 .. 0 = {}
      OBVIOUS
  <2> QED
      BY <2>1, <2>2, <1>0 DEF StackOf
<1>4. ASSUME NEW k \in 1 .. N PROVE st[k] = Push(st[k - 1], seq[k])
  <2>1. f[1 .. k] = StackOf(base, seq, f, 1 .. k)
      BY <1>0, <1>2
  <2>2. Max(1 .. k) = k /\ (1 .. k) \ {k} = 1 .. (k - 1) /\ 1 .. k # {}
      BY <1>0, MaxUpTo
  <2>3. f[1 .. k] = Push(f[1 .. (k - 1)], seq[k])
      BY <2>1, <2>2 DEF StackOf
  <2> QED
      BY <2>3, <1>0
<1>5. ASSUME NEW k \in 0 .. N PROVE st[k] \in Paths
  <2> DEFINE S == {j \in 0 .. N : st[j] \in Paths}
  <2>1. 0 \in S
      BY <1>3, <1>0
  <2>2. ASSUME NEW j \in 0 .. N - 1, j \in S PROVE j + 1 \in S
    <3>1. j + 1 \in 1 .. N /\ j + 1 - 1 = j
        BY <1>0
    <3>2. seq[j + 1] \in Names
        BY <3>1, ElementOfSeq DEF Paths
    <3>3. st[j + 1] = Push(st[j + 1 - 1], seq[j + 1])
      <4> HIDE DEF st
      <4> QED
          BY <1>4, <3>1
    <3>4. st[j] \in Paths
        BY <2>2
    <3>5. st[j + 1] \in Paths
      <4> HIDE DEF st
      <4> QED
          BY <3>1, <3>2, <3>3, <3>4, PushType
    <3> QED
        BY <3>1, <3>5, <1>0
  <2>3. 0 .. N \subseteq S
    <3> HIDE DEF S
    <3> QED
        BY <1>0, <2>1, <2>2, UpTo
  <2> QED
      BY <2>3
<1>6. st \in [0 .. N -> Paths]
    BY <1>5
<1>7. Stack(base, seq) = st[N]
    BY <1>0, <1>1
<1> QED
    BY <1>3, <1>4, <1>6, <1>7

LEMMA UpsStep ==
    ASSUME NEW t \in Paths, NEW k \in 0 .. Len(t)
    PROVE  /\ Ups(t, k) \in Nat
           /\ k = 0 => Ups(t, k) = 0
           /\ k # 0 => Ups(t, k) = Ups(t, k - 1) + (IF t[k] = ".." THEN 1 ELSE 0)
<1> DEFINE U(n) == {i \in 1 .. n : t[i] = ".."}
<1>0. Len(t) \in Nat
    BY DEF Paths
<1>1. ASSUME NEW n \in Nat PROVE IsFiniteSet(U(n))
  <2>1. IsFiniteSet(1 .. n)
      BY FS_Interval
  <2>2. U(n) \subseteq 1 .. n
      OBVIOUS
  <2> HIDE DEF U
  <2> QED
      BY <2>1, <2>2, FS_Subset
<1>2. Ups(t, k) \in Nat
    BY <1>0, <1>1, FS_CardinalityType DEF Ups
<1>3. ASSUME k = 0 PROVE Ups(t, k) = 0
  <2>1. U(k) = {}
      BY <1>3
  <2> QED
      BY <2>1, FS_EmptySet DEF Ups
<1>4. ASSUME k # 0
      PROVE  Ups(t, k) = Ups(t, k - 1) + (IF t[k] = ".." THEN 1 ELSE 0)
  <2>1. CASE t[k] = ".."
    <3>1. U(k) = U(k - 1) \cup {k} /\ k \notin U(k - 1) /\ k - 1 \in Nat
        BY <1>0, <1>4, <2>1
    <3>2. Cardinality(U(k)) = Cardinality(U(k - 1)) + 1
      <4> HIDE DEF U
      <4> QED
          BY <3>1, <1>1, FS_AddElement
    <3> QED
        BY <3>2, <2>1 DEF Ups
  <2>2. CASE t[k] # ".."
    <3>1. U(k) = U(k - 1) /\ k - 1 \in Nat
        BY <1>0, <1>4, <2>2
    <3>2. Ups(t, k) = Ups(t, k - 1)
        BY <3>1 DEF Ups
    <3> QED
        BY <3>2, <2>2, <1>2
  <2> QED
      BY <2>1, <2>2
<1> QED
    BY <1>2, <1>3, <1>4

LEMMA Depths ==
    ASSUME NEW d \in Nat, NEW j \in Nat, NEW u \in Nat, NEW n \in Nat,
           n = d + j - 2 * u
    PROVE  /\ n + 1 = d + (j + 1) - 2 * u /\ 2 * u <= d + (j + 1)
           /\ n # 0 => n - 1 = d + (j + 1) - 2 * (u + 1) /\ 2 * (u + 1) <= d + (j + 1)
OBVIOUS

\* The stack never meets the root from below exactly if the text stays inside.
LEMMA StackStays ==
    ASSUME NEW base \in Paths, NEW t \in Paths, NoUps(base)
    PROVE  Stack(base, t) # Outside <=> StaysInside(Len(base), t)
<1> DEFINE N == Len(t)
<1>0. N \in Nat /\ Len(base) \in Nat
    BY DEF Paths
<1>1. PICK st \in [0 .. N -> Paths] :
             /\ st[0] = base /\ Stack(base, t) = st[N]
             /\ \A k \in 1 .. N : st[k] = Push(st[k - 1], t[k])
    BY StackSteps
<1> DEFINE In(k) == \A n \in 0 .. k : 2 * Ups(t, n) <= Len(base) + n
           S == {k \in 0 .. N :
                   \/ /\ st[k] # Outside /\ NoUps(st[k])
                      /\ Len(st[k]) = Len(base) + k - 2 * Ups(t, k)
                      /\ In(k)
                   \/ st[k] = Outside /\ ~In(k)}
<1>2. 0 \in S
  <2>1. base # Outside
      BY NoUpsInside
  <2>2. Ups(t, 0) = 0
      BY <1>0, UpsStep
  <2> QED
      BY <1>0, <1>1, <2>1, <2>2
<1>3. ASSUME NEW j \in 0 .. N - 1, j \in S PROVE j + 1 \in S
  <2> DEFINE k == j + 1
  <2>1. k \in 1 .. N /\ k \in 0 .. N /\ k # 0 /\ k - 1 = j
      BY <1>0
  <2>2. st[k] = Push(st[j], t[k]) /\ st[j] \in Paths /\ t[k] \in Names
      BY <1>1, <2>1, ElementOfSeq DEF Paths
  <2>3. /\ Ups(t, j) \in Nat /\ Ups(t, k) \in Nat
        /\ Ups(t, k) = Ups(t, j) + (IF t[k] = ".." THEN 1 ELSE 0)
      BY <2>1, UpsStep
  <2>4. In(k) <=> In(j) /\ 2 * Ups(t, k) <= Len(base) + k
      BY <1>0, <2>1
  <2>5. CASE st[j] = Outside
      BY <2>1, <2>2, <2>4, <2>5, <1>3 DEF Push
  <2>6. CASE st[j] # Outside /\ t[k] # ".."
    <3>1. st[k] = Append(st[j], t[k])
        BY <2>2, <2>6 DEF Push
    <3>2. Len(st[k]) = Len(st[j]) + 1 /\ NoUps(st[k])
      <4>1. NoUps(st[j])
          BY <1>3, <2>6
      <4> QED
          BY <3>1, <4>1, <2>2, <2>6, AppendPath
    <3>3. st[k] # Outside
        BY <3>2, NoUpsInside
    <3>4. Len(st[j]) = Len(base) + j - 2 * Ups(t, j) /\ In(j)
        BY <1>3, <2>6
    <3>5. Len(st[k]) = Len(base) + k - 2 * Ups(t, k) /\ 2 * Ups(t, k) <= Len(base) + k
      <4>1. Ups(t, k) = Ups(t, j) /\ Len(st[j]) \in Nat /\ j \in Nat /\ Len(base) \in Nat
          BY <1>0, <2>2, <2>3, <2>6 DEF Paths
      <4> HIDE DEF S
      <4> QED
          BY <2>3, <3>2, <3>4, <4>1, Depths
    <3> QED
        BY <2>1, <2>4, <3>2, <3>3, <3>4, <3>5
  <2>7. CASE st[j] = << >> /\ t[k] = ".."
    <3>1. st[j] # Outside
        BY <2>7, OutsideType, EmptySeq
    <3>2. st[k] = Outside
        BY <2>2, <2>7, <3>1 DEF Push
    <3>3. Len(st[j]) = 0
        BY <2>7
    <3>4. Len(st[j]) = Len(base) + j - 2 * Ups(t, j)
        BY <1>3, <3>1
    <3>5. ~(2 * Ups(t, k) <= Len(base) + k)
        BY <1>0, <2>3, <2>7, <3>3, <3>4
    <3> QED
        BY <2>1, <2>4, <3>2, <3>5
  <2>8. CASE st[j] # Outside /\ st[j] # << >> /\ t[k] = ".."
    <3>1. st[k] = Front(st[j])
        BY <2>2, <2>8 DEF Push
    <3>2. Len(st[j]) \in Nat \ {0} /\ Len(st[k]) = Len(st[j]) - 1 /\ NoUps(st[k])
      <4>1. NoUps(st[j])
          BY <1>3, <2>8
      <4> QED
          BY <3>1, <4>1, <2>2, <2>8, FrontPath
    <3>3. st[k] # Outside
        BY <3>2, NoUpsInside
    <3>4. Len(st[j]) = Len(base) + j - 2 * Ups(t, j) /\ In(j)
        BY <1>3, <2>8
    <3>5. Len(st[k]) = Len(base) + k - 2 * Ups(t, k) /\ 2 * Ups(t, k) <= Len(base) + k
      <4>1. Ups(t, k) = Ups(t, j) + 1 /\ Len(st[j]) \in Nat /\ j \in Nat
            /\ Len(base) \in Nat
          BY <1>0, <2>2, <2>3, <2>8 DEF Paths
      <4>2. PICK n \in Nat : n = Len(st[j])
          BY <3>2
      <4>3. n # 0 /\ n = Len(base) + j - 2 * Ups(t, j) /\ Len(st[k]) = n - 1
          BY <3>2, <3>4, <4>2
      <4>4. /\ n - 1 = Len(base) + (j + 1) - 2 * (Ups(t, j) + 1)
            /\ 2 * (Ups(t, j) + 1) <= Len(base) + (j + 1)
        <5> HIDE DEF S
        <5> QED
            BY <2>3, <4>1, <4>2, <4>3, Depths
      <4> QED
          BY <4>1, <4>3, <4>4
    <3> QED
        BY <2>1, <2>4, <3>2, <3>3, <3>4, <3>5
  <2> QED
      BY <2>5, <2>6, <2>7, <2>8
<1>4. N \in S
  <2> HIDE DEF S
  <2>1. 0 .. N \subseteq S
      BY <1>0, <1>2, <1>3, UpTo
  <2> QED
      BY <2>1, <1>0
<1>5. StaysInside(Len(base), t) <=> In(N)
    BY DEF StaysInside
<1> QED
    BY <1>1, <1>4, <1>5

-----------------------------------------------------------------------------
(* Follow: the recursion is well-founded, so there is a function that      *)
(* satisfies it.                                                           *)

\* Fewer hops left, or as many and less of the path to go.
Shorter ==
    {r \in Walks \X Walks :
       \/ r[1][3] < r[2][3]
       \/ r[1][3] = r[2][3] /\ Len(r[1][2]) < Len(r[2][2])}

LEMMA WalkParts ==
    ASSUME NEW x \in Walks
    PROVE  x[1] \in Paths /\ x[2] \in Paths /\ x[3] \in Nat /\ Len(x[2]) \in Nat
           /\ x = <<x[1], x[2], x[3]>>
BY DEF Walks, Paths

LEMMA ShorterIff ==
    ASSUME NEW x \in Walks, NEW y \in Walks
    PROVE  <<y, x>> \in Shorter <=>
             y[3] < x[3] \/ (y[3] = x[3] /\ Len(y[2]) < Len(x[2]))
BY DEF Shorter

LEMMA ShorterWellFounded == IsWellFoundedOn(Shorter, Walks) /\ Transitive(Walks, Shorter)
<1>1. ASSUME NEW T \in SUBSET Walks, T # {}
      PROVE  \E x \in T : \A y \in T : ~(<<y, x>> \in Shorter)
  <2> DEFINE H == {x[3] : x \in T}
  <2>1. PICK n \in H : \A k \in H : n <= k
    <3>1. H \in SUBSET Nat /\ H # {}
        BY <1>1, WalkParts
    <3> HIDE DEF H
    <3> QED
        BY <3>1, NatMinimum
  <2> DEFINE L == {Len(x[2]) : x \in {y \in T : y[3] = n}}
  <2>2. PICK m \in L : \A k \in L : m <= k
    <3>1. L \in SUBSET Nat /\ L # {}
        BY <2>1, WalkParts
    <3> HIDE DEF L
    <3> QED
        BY <3>1, NatMinimum
  <2>3. PICK x \in T : x[3] = n /\ Len(x[2]) = m
      BY <2>2
  <2>4. ASSUME NEW y \in T, <<y, x>> \in Shorter PROVE FALSE
    <3>1. x \in Walks /\ y \in Walks
        BY <1>1
    <3>2. y[3] < x[3] \/ (y[3] = x[3] /\ Len(y[2]) < Len(x[2]))
        BY <2>4, <3>1, ShorterIff
    <3>3. y[3] \in Nat /\ x[3] \in Nat /\ Len(y[2]) \in Nat /\ Len(x[2]) \in Nat
        BY <3>1, WalkParts
    <3>4. x[3] <= y[3]
        BY <2>1, <2>3
    <3>5. y[3] = x[3] /\ Len(y[2]) < Len(x[2])
        BY <3>2, <3>3, <3>4
    <3>6. Len(y[2]) \in L
        BY <3>5, <2>3
    <3> QED
        BY <2>2, <2>3, <3>3, <3>5, <3>6
  <2> QED
      BY <2>3, <2>4
<1>2. IsWellFoundedOn(Shorter, Walks)
    BY <1>1, MinWF
<1>3. ASSUME NEW x \in Walks, NEW y \in Walks, NEW z \in Walks,
             <<x, y>> \in Shorter, <<y, z>> \in Shorter
      PROVE  <<x, z>> \in Shorter
  <2>1. /\ x[3] < y[3] \/ (x[3] = y[3] /\ Len(x[2]) < Len(y[2]))
        /\ y[3] < z[3] \/ (y[3] = z[3] /\ Len(y[2]) < Len(z[2]))
      BY <1>3, ShorterIff
  <2>2. /\ x[3] \in Nat /\ y[3] \in Nat /\ z[3] \in Nat
        /\ Len(x[2]) \in Nat /\ Len(y[2]) \in Nat /\ Len(z[2]) \in Nat
      BY WalkParts
  <2>3. x[3] < z[3] \/ (x[3] = z[3] /\ Len(x[2]) < Len(z[2]))
      BY <2>1, <2>2
  <2> QED
      BY <2>3, ShorterIff
<1> QED
    BY <1>2, <1>3 DEF Transitive

LEMMA WalkInduction ==
    ASSUME NEW S,
           ASSUME NEW x \in Walks, \A y \in Walks : <<y, x>> \in Shorter => y \in S
           PROVE  x \in S
    PROVE  Walks \subseteq S
<1> DEFINE T == Walks \ S
<1> SUFFICES ASSUME T # {} PROVE FALSE
    OBVIOUS
<1>1. PICK x \in T : \A y \in T : ~(<<y, x>> \in Shorter)
  <2>1. T \subseteq Walks
      OBVIOUS
  <2> HIDE DEF T
  <2> QED
      BY <2>1, ShorterWellFounded, WFMin
<1>2. \A y \in Walks : <<y, x>> \in Shorter => y \in S
    BY <1>1
<1> QED
    BY <1>1, <1>2

-----------------------------------------------------------------------------
Ends      == [key : Paths, hops : Nat]
EndsOf    == [x \in Walks |-> {e \in Ends : e.hops <= x[3]}]
Followers == Typed(Walks, Ends, EndsOf)

LEMMA FollowersMap ==
    ASSUME NEW f \in Followers, NEW x \in Walks
    PROVE  f[x].key \in Paths /\ f[x].hops \in Nat /\ f[x].hops <= x[3] /\ f[x] \in EndsOf[x]
BY DEF Followers, Typed, EndsOf, Ends

LEMMA HeadTailPath ==
    ASSUME NEW p \in Paths, p # << >>
    PROVE  /\ Head(p) \in Names /\ Tail(p) \in Paths
           /\ Len(Tail(p)) = Len(p) - 1 /\ Len(p) \in Nat \ {0}
BY HeadTailProperties, EmptySeq DEF Paths

LEMMA HeaderType ==
    ASSUME NEW hs \in Seq(Headers), NEW h \in ToSet(hs)
    PROVE  h \in Headers /\ Key(h) \in Paths /\ Parts(h.target) \in Paths
<1>1. h \in Headers
    BY ElementOfSeq, LenProperties DEF ToSet
<1>2. h.name.segments \in Paths /\ h.target.segments \in Paths
    BY <1>1 DEF Headers, Texts
<1> QED
    BY <1>1, <1>2, PartsType DEF Key

LEMMA TheLinkType ==
    ASSUME NEW hs \in Seq(Headers), NEW key, HasLink(hs, key)
    PROVE  /\ TheLink(hs, key) \in Member(hs, key) /\ IsLink(TheLink(hs, key))
           /\ TheLink(hs, key) \in ToSet(hs) /\ Parts(TheLink(hs, key).target) \in Paths
<1>1. TheLink(hs, key) \in Member(hs, key) /\ IsLink(TheLink(hs, key))
    BY DEF TheLink, HasLink
<1>2. TheLink(hs, key) \in ToSet(hs)
    BY <1>1 DEF Member
<1> QED
    BY <1>1, <1>2, HeaderType

Open(hs, p, k) == Tail(p) = << >> \/ k = << >> \/ HasDir(hs, k)
Lost(b)        == [key |-> Outside, hops |-> b]
Here(r, p)     == Append(r, Head(p))

Onward(hs, f, p, e, b) ==
    IF Open(hs, p, e.key) THEN f[<<e.key, Tail(p), e.hops>>] ELSE Lost(b)

Above(f, r, p, b) == IF r = << >> THEN Lost(b) ELSE f[<<Front(r), Tail(p), b>>]

\* The cases of FollowStep.
LEMMA StepOutside ==
    ASSUME NEW hs, NEW f, NEW p, NEW b
    PROVE  FollowStep(hs, f, <<Outside, p, b>>) = Lost(b)
BY DEF FollowStep, Lost

LEMMA StepEnd ==
    ASSUME NEW hs, NEW f, NEW r, NEW p, NEW b, r # Outside, p = << >>
    PROVE  FollowStep(hs, f, <<r, p, b>>) = [key |-> r, hops |-> b]
BY DEF FollowStep

LEMMA StepUp ==
    ASSUME NEW hs, NEW f, NEW r, NEW p, NEW b, r # Outside, p # << >>, Head(p) = ".."
    PROVE  FollowStep(hs, f, <<r, p, b>>) = Above(f, r, p, b)
BY DEF FollowStep, Lost, Above

LEMMA StepLink ==
    ASSUME NEW hs, NEW f, NEW r, NEW p, NEW b, r # Outside, p # << >>, Head(p) # "..",
           HasLink(hs, Here(r, p))
    PROVE  FollowStep(hs, f, <<r, p, b>>) =
             IF b = 0 THEN Lost(b)
             ELSE Onward(hs, f, p, f[Along(TheLink(hs, Here(r, p)), r, b - 1)], b)
BY DEF FollowStep, Lost, Open, Here, Onward

LEMMA StepName ==
    ASSUME NEW hs, NEW f, NEW r, NEW p, NEW b, r # Outside, p # << >>, Head(p) # "..",
           ~HasLink(hs, Here(r, p))
    PROVE  FollowStep(hs, f, <<r, p, b>>) =
             IF Open(hs, p, Here(r, p)) THEN f[<<Here(r, p), Tail(p), b>>] ELSE Lost(b)
BY DEF FollowStep, Lost, Open, Here

LEMMA WalkTriple ==
    ASSUME NEW r \in Paths, NEW p \in Paths, NEW b \in Nat
    PROVE  /\ <<r, p, b>> \in Walks
           /\ EndsOf[<<r, p, b>>] = {e \in Ends : e.hops <= b}
BY DEF Walks, EndsOf

LEMMA EmptyPath == << >> \in Paths /\ Len(<< >>) = 0 /\ NoUps(<< >>)
BY EmptySeq DEF Paths, NoUps

LEMMA LostType ==
    ASSUME NEW b \in Nat
    PROVE  Lost(b) \in Ends /\ Lost(b).hops = b /\ Lost(b).key = Outside
BY OutsideType DEF Lost, Ends

LEMMA AlongType ==
    ASSUME NEW hs \in Seq(Headers), NEW key, HasLink(hs, key), NEW r \in Paths, NEW b \in Nat
    PROVE  /\ Along(TheLink(hs, key), r, b) \in Walks
           /\ Along(TheLink(hs, key), r, b)[3] = b
           /\ \/ Along(TheLink(hs, key), r, b)[1] = r
              \/ Along(TheLink(hs, key), r, b)[1] = << >>
           /\ Along(TheLink(hs, key), r, b)[2] = Parts(TheLink(hs, key).target)
BY TheLinkType, EmptyPath, WalkTriple DEF Along

LEMMA EndAt ==
    ASSUME NEW f \in Followers, NEW r \in Paths, NEW p \in Paths, NEW b \in Nat
    PROVE  /\ f[<<r, p, b>>] \in Ends /\ f[<<r, p, b>>].hops <= b
           /\ f[<<r, p, b>>].key \in Paths /\ f[<<r, p, b>>].hops \in Nat
<1>1. f[<<r, p, b>>] \in EndsOf[<<r, p, b>>]
    BY WalkTriple, FollowersMap
<1> QED
    BY <1>1, WalkTriple DEF Ends

LEMMA HereType ==
    ASSUME NEW r \in Paths, NEW p \in Paths, p # << >>
    PROVE  /\ Here(r, p) \in Paths /\ Here(r, p) # << >>
           /\ Tail(p) \in Paths /\ Len(Tail(p)) < Len(p)
           /\ NoUps(r) /\ Head(p) # ".." => NoUps(Here(r, p)) /\ Here(r, p) # Outside
<1>1. Head(p) \in Names /\ Tail(p) \in Paths /\ Len(Tail(p)) < Len(p)
    BY HeadTailPath
<1> QED
    BY <1>1, AppendPath, NoUpsInside DEF Here

LEMMA FollowStepType ==
    ASSUME NEW hs \in Seq(Headers), NEW f \in Followers, NEW x \in Walks
    PROVE  FollowStep(hs, f, x) \in EndsOf[x]
<1> DEFINE r == x[1]
           p == x[2]
           b == x[3]
<1>1. r \in Paths /\ p \in Paths /\ b \in Nat /\ x = <<r, p, b>>
    BY WalkParts
<1> HIDE DEF r, p, b
<1>2. SUFFICES FollowStep(hs, f, <<r, p, b>>) \in {e \in Ends : e.hops <= b}
    BY <1>1, WalkTriple
<1>3. Lost(b) \in Ends /\ Lost(b).hops <= b
    BY <1>1, LostType
<1>4. CASE r = Outside
    BY <1>3, <1>4, StepOutside
<1>5. CASE r # Outside /\ p = << >>
  <2>1. FollowStep(hs, f, <<r, p, b>>) = [key |-> r, hops |-> b]
      BY <1>5, StepEnd, SMT
  <2> QED
      BY <1>1, <2>1 DEF Ends
<1>6. CASE r # Outside /\ p # << >> /\ Head(p) = ".."
  <2>1. Tail(p) \in Paths
      BY <1>1, <1>6, HeadTailPath
  <2>2. ASSUME r # << >>
        PROVE  /\ f[<<Front(r), Tail(p), b>>] \in Ends
               /\ f[<<Front(r), Tail(p), b>>].hops <= b
    <3>1. Front(r) \in Paths
        BY <1>1, <2>2, FrontPath
    <3> QED
        BY <1>1, <2>1, <3>1, EndAt
  <2>3. FollowStep(hs, f, <<r, p, b>>) = Above(f, r, p, b)
      BY <1>6, StepUp, SMT
  <2>4. CASE r = << >>
      BY <1>3, <2>3, <2>4 DEF Above
  <2>5. CASE r # << >>
      BY <2>2, <2>3, <2>5 DEF Above
  <2> QED
      BY <2>4, <2>5
<1>7. CASE r # Outside /\ p # << >> /\ Head(p) # ".." /\ HasLink(hs, Here(r, p))
  <2> DEFINE y   == Along(TheLink(hs, Here(r, p)), r, b - 1)
             end == f[y]
  <2>1. FollowStep(hs, f, <<r, p, b>>) =
          IF b = 0 THEN Lost(b)
          ELSE IF Open(hs, p, end.key) THEN f[<<end.key, Tail(p), end.hops>>] ELSE Lost(b)
      BY <1>7, StepLink DEF Onward
  <2>2. CASE b = 0
      BY <1>3, <2>1, <2>2
  <2>3. CASE b # 0
    <3>1. b - 1 \in Nat
        BY <1>1, <2>3
    <3>2. y \in Walks /\ y[3] = b - 1
        BY <1>1, <1>7, <3>1, AlongType
    <3>3. end.key \in Paths /\ end.hops \in Nat /\ end.hops <= b - 1
        BY <3>2, FollowersMap
    <3>4. Tail(p) \in Paths
        BY <1>1, <1>7, HeadTailPath
    <3> DEFINE z == f[<<end.key, Tail(p), end.hops>>]
    <3>5. z \in Ends /\ z.hops <= end.hops /\ z.hops \in Nat
      <4> HIDE DEF end
      <4> QED
          BY <3>3, <3>4, EndAt
    <3>6. z \in Ends /\ z.hops <= b
      <4> HIDE DEF end, z
      <4> QED
          BY <1>1, <3>3, <3>5
    <3>7. FollowStep(hs, f, <<r, p, b>>) = IF Open(hs, p, end.key) THEN z ELSE Lost(b)
        BY <2>1, <2>3
    <3> HIDE DEF z, end
    <3> QED
        BY <1>3, <3>6, <3>7
  <2> QED
      BY <2>2, <2>3
<1>8. CASE r # Outside /\ p # << >> /\ Head(p) # ".." /\ ~HasLink(hs, Here(r, p))
  <2>1. FollowStep(hs, f, <<r, p, b>>) =
          IF Open(hs, p, Here(r, p)) THEN f[<<Here(r, p), Tail(p), b>>] ELSE Lost(b)
      BY <1>8, StepName, ZenonT(60)
  <2>2. Here(r, p) \in Paths /\ Tail(p) \in Paths
      BY <1>1, <1>8, HereType
  <2>3. f[<<Here(r, p), Tail(p), b>>] \in Ends /\ f[<<Here(r, p), Tail(p), b>>].hops <= b
      BY <1>1, <2>2, EndAt
  <2> QED
      BY <1>3, <2>1, <2>3
<1> QED
    BY <1>4, <1>5, <1>6, <1>7, <1>8

\* What a walk needs of the walks before it: they are all shorter.
LEMMA ShorterWalks ==
    ASSUME NEW r \in Paths, NEW p \in Paths, NEW b \in Nat,
           NEW q \in Paths, NEW s \in Paths, NEW c \in Nat,
           c < b \/ (c = b /\ Len(s) < Len(p))
    PROVE  <<q, s, c>> \in Walks /\ <<<<q, s, c>>, <<r, p, b>>>> \in Shorter
BY WalkTriple, ShorterIff

LEMMA FollowDepends ==
    ASSUME NEW hs \in Seq(Headers), NEW f \in Followers, NEW g, NEW x \in Walks,
           \A y \in Walks : <<y, x>> \in Shorter => f[y] = g[y]
    PROVE  FollowStep(hs, f, x) = FollowStep(hs, g, x)
<1> DEFINE r == x[1]
           p == x[2]
           b == x[3]
<1>1. r \in Paths /\ p \in Paths /\ b \in Nat /\ x = <<r, p, b>>
    BY WalkParts
<1> HIDE DEF r, p, b
<1>2. ASSUME NEW q \in Paths, NEW s \in Paths, NEW c \in Nat,
             c < b \/ (c = b /\ Len(s) < Len(p))
      PROVE  f[<<q, s, c>>] = g[<<q, s, c>>]
    BY <1>1, <1>2, ShorterWalks
<1>3. SUFFICES FollowStep(hs, f, <<r, p, b>>) = FollowStep(hs, g, <<r, p, b>>)
    BY <1>1
<1>4. CASE r = Outside
    BY <1>4, StepOutside
<1>5. CASE r # Outside /\ p = << >>
  <2>1. FollowStep(hs, f, <<r, p, b>>) = [key |-> r, hops |-> b]
      BY <1>5, StepEnd, SMT
  <2>2. FollowStep(hs, g, <<r, p, b>>) = [key |-> r, hops |-> b]
      BY <1>5, StepEnd, SMT
  <2> QED
      BY <2>1, <2>2
<1>6. CASE r # Outside /\ p # << >> /\ Head(p) = ".."
  <2>1. Tail(p) \in Paths /\ Len(Tail(p)) < Len(p)
      BY <1>1, <1>6, HereType
  <2>2. r # << >> => f[<<Front(r), Tail(p), b>>] = g[<<Front(r), Tail(p), b>>]
      BY <1>1, <1>2, <2>1, FrontPath
  <2>3. FollowStep(hs, f, <<r, p, b>>) = Above(f, r, p, b)
      BY <1>6, StepUp, SMT
  <2>4. FollowStep(hs, g, <<r, p, b>>) = Above(g, r, p, b)
      BY <1>6, StepUp, SMT
  <2> QED
      BY <2>2, <2>3, <2>4 DEF Above
<1>7. CASE r # Outside /\ p # << >> /\ Head(p) # ".." /\ HasLink(hs, Here(r, p))
  <2> DEFINE y   == Along(TheLink(hs, Here(r, p)), r, b - 1)
             end == f[y]
             gnd == g[y]
  <2>1. FollowStep(hs, f, <<r, p, b>>) =
          IF b = 0 THEN Lost(b)
          ELSE IF Open(hs, p, end.key) THEN f[<<end.key, Tail(p), end.hops>>] ELSE Lost(b)
      BY <1>7, StepLink DEF Onward
  <2>4. FollowStep(hs, g, <<r, p, b>>) =
          IF b = 0 THEN Lost(b)
          ELSE IF Open(hs, p, gnd.key) THEN g[<<gnd.key, Tail(p), gnd.hops>>] ELSE Lost(b)
      BY <1>7, StepLink DEF Onward
  <2>2. CASE b = 0
      BY <2>1, <2>2, <2>4
  <2>3. CASE b # 0
    <3>1. b - 1 \in Nat /\ b - 1 < b
        BY <1>1, <2>3
    <3>2. y \in Walks /\ y[3] = b - 1
        BY <1>1, <1>7, <3>1, AlongType
    <3>3. end = gnd
      <4>1. y[1] \in Paths /\ y[2] \in Paths /\ y = <<y[1], y[2], b - 1>>
          BY <3>2, WalkParts
      <4> HIDE DEF y
      <4> QED
          BY <4>1, <3>1, <1>2
    <3>4. end.key \in Paths /\ end.hops \in Nat /\ end.hops < b
      <4>1. end.key \in Paths /\ end.hops \in Nat /\ end.hops <= b - 1
          BY <3>2, FollowersMap
      <4> HIDE DEF end
      <4> QED
          BY <4>1, <1>1
    <3>5. Tail(p) \in Paths
        BY <1>1, <1>7, HeadTailPath
    <3> HIDE DEF end, gnd
    <3>6. f[<<end.key, Tail(p), end.hops>>] = g[<<end.key, Tail(p), end.hops>>]
        BY <3>4, <3>5, <1>2
    <3> QED
        BY <2>1, <2>4, <3>3, <3>6
  <2> QED
      BY <2>2, <2>3
<1>8. CASE r # Outside /\ p # << >> /\ Head(p) # ".." /\ ~HasLink(hs, Here(r, p))
  <2>1. FollowStep(hs, f, <<r, p, b>>) =
             IF Open(hs, p, Here(r, p)) THEN f[<<Here(r, p), Tail(p), b>>] ELSE Lost(b)
      BY <1>8, StepName, ZenonT(60)
  <2>4. FollowStep(hs, g, <<r, p, b>>) =
             IF Open(hs, p, Here(r, p)) THEN g[<<Here(r, p), Tail(p), b>>] ELSE Lost(b)
      BY <1>8, StepName, ZenonT(60)
  <2>2. Here(r, p) \in Paths /\ Tail(p) \in Paths /\ Len(Tail(p)) < Len(p)
      BY <1>1, <1>8, HereType
  <2>3. f[<<Here(r, p), Tail(p), b>>] = g[<<Here(r, p), Tail(p), b>>]
      BY <1>1, <1>2, <2>2
  <2> QED
      BY <2>1, <2>3, <2>4
<1> QED
    BY <1>4, <1>5, <1>6, <1>7, <1>8

LEMMA FollowSolves ==
    ASSUME NEW hs \in Seq(Headers)
    PROVE  /\ Follow(hs) \in Followers
           /\ \A x \in Walks : Follow(hs)[x] = FollowStep(hs, Follow(hs), x)
<1> DEFINE Phi == [f \in Followers |-> [x \in Walks |-> FollowStep(hs, f, x)]]
           g == CHOOSE f : f = [x \in Walks |-> FollowStep(hs, f, x)]
<1>1. ASSUME NEW f \in Followers
      PROVE  [x \in Walks |-> FollowStep(hs, f, x)] \in Followers
  <2>1. \A x \in Walks : FollowStep(hs, f, x) \in EndsOf[x] /\ EndsOf[x] \subseteq Ends
      BY FollowStepType DEF EndsOf
  <2> QED
      BY <2>1 DEF Followers, Typed
<1>2. Phi \in [Followers -> Followers]
    BY <1>1
<1>3. Followers # {}
  <2>1. ASSUME NEW x \in Walks
        PROVE  Lost(x[3]) \in EndsOf[x] /\ EndsOf[x] \subseteq Ends
    <3>1. x[3] \in Nat
        BY WalkParts
    <3>2. Lost(x[3]) \in Ends /\ Lost(x[3]).hops <= x[3]
        BY <3>1, LostType
    <3> QED
        BY <3>2 DEF EndsOf
  <2>2. [x \in Walks |-> Lost(x[3])] \in Followers
      BY <2>1 DEF Followers, Typed
  <2> QED
      BY <2>2
<1>4. Depends(Phi, Followers, Walks, Shorter)
    BY FollowDepends DEF Depends
<1>5. PICK f \in Followers : Phi[f] = f
  <2> HIDE DEF Phi
  <2> QED
      BY <1>2, <1>3, <1>4, ShorterWellFounded, SolutionExists DEF Followers
<1>6. f = [x \in Walks |-> FollowStep(hs, f, x)]
    BY <1>5
<1>7. g = [x \in Walks |-> FollowStep(hs, g, x)]
    BY <1>6
<1>8. Follow(hs) = g
    BY DEF Follow
<1> HIDE DEF g
\* Any other solution is f: they agree from every walk downwards.
<1>9. ASSUME NEW x \in Walks PROVE g[x] = f[x]
  <2> DEFINE S == {z \in Walks : g[z] = f[z]}
  <2>1. ASSUME NEW z \in Walks, \A y \in Walks : <<y, z>> \in Shorter => y \in S
        PROVE  z \in S
    <3>1. \A y \in Walks : <<y, z>> \in Shorter => f[y] = g[y]
        BY <2>1
    <3>2. FollowStep(hs, f, z) = FollowStep(hs, g, z)
        BY <3>1, FollowDepends
    <3>3. f[z] = FollowStep(hs, f, z)
        BY <1>6
    <3>4. g[z] = FollowStep(hs, g, z)
        BY <1>7
    <3> QED
        BY <3>2, <3>3, <3>4
  <2>2. Walks \subseteq S
    <3> HIDE DEF S
    <3> QED
        BY <2>1, WalkInduction
  <2> QED
      BY <2>2
<1>10. f = g
    BY <1>6, <1>7, <1>9
<1> QED
    BY <1>6, <1>8, <1>10

-----------------------------------------------------------------------------
(* The walk in the tree of hs from r along p with b hops left.             *)
W(hs, r, p, b) == Follow(hs)[<<r, p, b>>]

\* The directory a link's target is read from.
From(l, r) == IF l.type = "symlink" THEN r ELSE << >>

LEMMA WalkType ==
    ASSUME NEW hs \in Seq(Headers), NEW r \in Paths, NEW p \in Paths, NEW b \in Nat
    PROVE  /\ W(hs, r, p, b) \in Ends
           /\ W(hs, r, p, b).key \in Paths /\ W(hs, r, p, b).hops \in Nat
           /\ W(hs, r, p, b).hops <= b
           /\ W(hs, r, p, b) = FollowStep(hs, Follow(hs), <<r, p, b>>)
BY FollowSolves, EndAt, WalkTriple DEF W

LEMMA WalkOutside ==
    ASSUME NEW hs \in Seq(Headers), NEW p \in Paths, NEW b \in Nat
    PROVE  W(hs, Outside, p, b) = Lost(b)
<1>1. FollowStep(hs, Follow(hs), <<Outside, p, b>>) = Lost(b)
    BY StepOutside
<1> QED
    BY <1>1, OutsideType, WalkType

LEMMA WalkEnd ==
    ASSUME NEW hs \in Seq(Headers), NEW r \in Paths, NEW b \in Nat, r # Outside,
           NEW p, p = << >>
    PROVE  /\ W(hs, r, p, b) = [key |-> r, hops |-> b]
           /\ W(hs, r, p, b).key = r /\ W(hs, r, p, b).hops = b
<1>1. FollowStep(hs, Follow(hs), <<r, << >>, b>>) = [key |-> r, hops |-> b]
    BY StepEnd, SMT
<1>2. W(hs, r, << >>, b) = [key |-> r, hops |-> b]
    BY <1>1, EmptyPath, WalkType
<1> QED
    BY <1>2

LEMMA WalkUp ==
    ASSUME NEW hs \in Seq(Headers), NEW r \in Paths, NEW p \in Paths, NEW b \in Nat,
           r # Outside, p # << >>, Head(p) = ".."
    PROVE  W(hs, r, p, b) =
             IF r = << >> THEN Lost(b) ELSE W(hs, Front(r), Tail(p), b)
<1>1. FollowStep(hs, Follow(hs), <<r, p, b>>) = Above(Follow(hs), r, p, b)
    BY StepUp, SMT
<1> QED
    BY <1>1, WalkType DEF Above, W

LEMMA WalkLink ==
    ASSUME NEW hs \in Seq(Headers), NEW r \in Paths, NEW p \in Paths, NEW b \in Nat,
           r # Outside, p # << >>, Head(p) # "..", HasLink(hs, Here(r, p)),
           NEW l, l = TheLink(hs, Here(r, p))
    PROVE  /\ b = 0 => W(hs, r, p, b) = Lost(b)
           /\ b # 0 =>
                W(hs, r, p, b) = Onward(hs, Follow(hs), p,
                                        W(hs, From(l, r), Parts(l.target), b - 1), b)
<1>1. FollowStep(hs, Follow(hs), <<r, p, b>>) =
        IF b = 0 THEN Lost(b)
        ELSE Onward(hs, Follow(hs), p, Follow(hs)[Along(l, r, b - 1)], b)
    BY StepLink, SMT
<1>2. Follow(hs)[Along(l, r, b - 1)] = W(hs, From(l, r), Parts(l.target), b - 1)
    BY DEF Along, W, From
<1> QED
    BY <1>1, <1>2, WalkType

LEMMA WalkName ==
    ASSUME NEW hs \in Seq(Headers), NEW r \in Paths, NEW p \in Paths, NEW b \in Nat,
           r # Outside, p # << >>, Head(p) # "..", ~HasLink(hs, Here(r, p))
    PROVE  W(hs, r, p, b) =
             IF Open(hs, p, Here(r, p)) THEN W(hs, Here(r, p), Tail(p), b) ELSE Lost(b)
<1> DEFINE f == Follow(hs)
<1>1. FollowStep(hs, f, <<r, p, b>>) =
        IF Open(hs, p, Here(r, p)) THEN f[<<Here(r, p), Tail(p), b>>] ELSE Lost(b)
  <2> HIDE DEF f
  <2> QED
      BY StepName
<1> QED
    BY <1>1, WalkType DEF W

-----------------------------------------------------------------------------
(* Prefixes.                                                               *)

Upto(s, n) == SubSeq(s, 1, n)

LEMMA PathEqual ==
    ASSUME NEW s \in Paths, NEW t \in Paths, Len(s) = Len(t),
           \A i \in 1 .. Len(s) : s[i] = t[i]
    PROVE  s = t
BY SeqEqual DEF Paths

LEMMA UptoType ==
    ASSUME NEW s \in Paths, NEW n \in 0 .. Len(s)
    PROVE  /\ Upto(s, n) \in Paths /\ Len(Upto(s, n)) = n
           /\ \A i \in 1 .. n : Upto(s, n)[i] = s[i]
           /\ NoUps(s) => NoUps(Upto(s, n))
<1>0. Len(s) \in Nat /\ n \in Nat
    BY DEF Paths
<1>1. \A i \in 1 .. n : s[i] \in Names
    BY <1>0, ElementOfSeq DEF Paths
<1>2. /\ Upto(s, n) \in Seq(Names)
      /\ Len(Upto(s, n)) = IF 1 <= n THEN n - 1 + 1 ELSE 0
      /\ \A i \in 1 .. n - 1 + 1 : Upto(s, n)[i] = s[1 + i - 1]
    BY <1>0, <1>1, SubSeqProperties DEF Paths, Upto
<1>3. n - 1 + 1 = n /\ \A i \in 1 .. n : 1 + i - 1 = i
    BY <1>0
<1>4. Upto(s, n) \in Paths /\ Len(Upto(s, n)) = n /\ \A i \in 1 .. n : Upto(s, n)[i] = s[i]
    BY <1>0, <1>2, <1>3 DEF Paths
<1> QED
    BY <1>0, <1>4 DEF NoUps

LEMMA UptoAll ==
    ASSUME NEW s \in Paths
    PROVE  Upto(s, Len(s)) = s
<1>1. Len(s) \in 0 .. Len(s)
    BY DEF Paths
<1> QED
    BY <1>1, UptoType, PathEqual

LEMMA UptoFront ==
    ASSUME NEW s \in Paths, s # << >>, NEW n \in 0 .. Len(s) - 1
    PROVE  Upto(Front(s), n) = Upto(s, n)
<1>1. /\ Front(s) \in Paths /\ Len(Front(s)) = Len(s) - 1 /\ Len(s) \in Nat \ {0}
      /\ \A i \in 1 .. Len(s) - 1 : Front(s)[i] = s[i]
    BY FrontPath
<1>2. n \in 0 .. Len(s) /\ n \in 0 .. Len(Front(s)) /\ n \in Nat
    BY <1>1
<1>3. /\ Upto(s, n) \in Paths /\ Len(Upto(s, n)) = n
      /\ \A i \in 1 .. n : Upto(s, n)[i] = s[i]
    BY <1>2, UptoType
<1>4. /\ Upto(Front(s), n) \in Paths /\ Len(Upto(Front(s), n)) = n
      /\ \A i \in 1 .. n : Upto(Front(s), n)[i] = Front(s)[i]
    BY <1>1, <1>2, UptoType
<1>5. \A i \in 1 .. n : Upto(Front(s), n)[i] = Upto(s, n)[i]
    BY <1>1, <1>3, <1>4
<1> QED
    BY <1>3, <1>4, <1>5, PathEqual

LEMMA FrontAppend ==
    ASSUME NEW s \in Paths, NEW part \in Names
    PROVE  Front(Append(s, part)) = s
<1> DEFINE a == Append(s, part)
<1>1. /\ a \in Paths /\ Len(a) = Len(s) + 1 /\ Len(s) \in Nat /\ a # << >>
      /\ \A i \in 1 .. Len(s) : a[i] = s[i]
    BY AppendPath
<1> HIDE DEF a
<1>2. /\ Front(a) \in Paths /\ Len(Front(a)) = Len(a) - 1
      /\ \A i \in 1 .. Len(a) - 1 : Front(a)[i] = a[i]
    BY <1>1, FrontPath
<1>3. Len(Front(a)) = Len(s) /\ \A i \in 1 .. Len(s) : Front(a)[i] = s[i]
    BY <1>1, <1>2
<1>4. Front(a) = s
    BY <1>2, <1>3, PathEqual
<1> QED
    BY <1>4 DEF a

-----------------------------------------------------------------------------
(* What the first pass leaves of an archive, as far as walks go.           *)

Tidy(hs) ==
    /\ hs \in Seq(Headers)
    /\ \A h, g \in ToSet(hs) : Key(h) = Key(g) => h = g
    /\ \A h \in ToSet(hs) :
          /\ NoUps(Key(h))
          /\ IsLink(h) => Parts(h.target) # << >>

LEMMA DirNoLink ==
    ASSUME NEW hs, Tidy(hs), NEW key, HasDir(hs, key)
    PROVE  ~HasLink(hs, key)
BY DEF Tidy, HasDir, HasLink, Member, IsLink

LEMMA LinkTidy ==
    ASSUME NEW hs, Tidy(hs), NEW key, HasLink(hs, key)
    PROVE  /\ Parts(TheLink(hs, key).target) \in Paths
           /\ Parts(TheLink(hs, key).target) # << >>
BY TheLinkType DEF Tidy

\* A place all of whose directories are there, and one whose parents are.
Led(hs, k)    == /\ k \in Paths /\ NoUps(k)
                 /\ \A n \in 1 .. Len(k) - 1 : HasDir(hs, Upto(k, n))
Steady(hs, k) == Led(hs, k) /\ (k = << >> \/ HasDir(hs, k))

LEMMA SteadyEmpty == ASSUME NEW hs PROVE Steady(hs, << >>)
BY EmptyPath DEF Steady, Led

LEMMA LedInside ==
    ASSUME NEW hs, NEW k, Led(hs, k)
    PROVE  k \in Paths /\ NoUps(k) /\ k # Outside
BY NoUpsInside DEF Led

LEMMA SteadyFront ==
    ASSUME NEW hs, NEW k, Steady(hs, k), k # << >>
    PROVE  Steady(hs, Front(k))
<1>1. /\ Front(k) \in Paths /\ Len(Front(k)) = Len(k) - 1 /\ Len(k) \in Nat \ {0}
      /\ NoUps(Front(k)) /\ k \in Paths
    BY FrontPath DEF Steady, Led
<1>2. ASSUME NEW n \in 1 .. Len(k) - 1 PROVE HasDir(hs, Upto(Front(k), n))
  <2>1. Upto(Front(k), n) = Upto(k, n)
      BY <1>1, UptoFront
  <2> QED
      BY <2>1 DEF Steady, Led
<1>3. Front(k) = << >> \/ Front(k) = Upto(Front(k), Len(k) - 1)
    BY <1>1, UptoAll
<1>4. Front(k) = << >> \/ Len(k) - 1 \in 1 .. Len(k) - 1
    BY <1>1, EmptySeq DEF Paths
<1> QED
    BY <1>1, <1>2, <1>3, <1>4 DEF Steady, Led

LEMMA SteadyHere ==
    ASSUME NEW hs, NEW k, Steady(hs, k), NEW part \in Names, part # ".."
    PROVE  Led(hs, Append(k, part))
<1> DEFINE a == Append(k, part)
<1>1. /\ k \in Paths /\ NoUps(k)
    BY DEF Steady, Led
<1>2. /\ a \in Paths /\ Len(a) = Len(k) + 1 /\ Len(k) \in Nat /\ a # << >> /\ NoUps(a)
      /\ Front(a) = k
    BY <1>1, AppendPath, FrontAppend
<1> HIDE DEF a
<1>3. ASSUME NEW n \in 1 .. Len(k) PROVE HasDir(hs, Upto(a, n))
  <2>1. Upto(k, n) = Upto(a, n)
      BY <1>2, UptoFront
  <2>2. CASE n = Len(k)
    <3>1. k # << >>
        BY <2>2, EmptyPath
    <3>2. Upto(k, n) = k
        BY <1>1, <2>2, UptoAll
    <3> QED
        BY <2>1, <3>1, <3>2 DEF Steady
  <2>3. CASE n # Len(k)
    <3>1. n \in 1 .. Len(k) - 1
        BY <1>2, <2>3
    <3> QED
        BY <2>1, <3>1 DEF Steady, Led
  <2> QED
      BY <2>2, <2>3
<1>4. \A n \in 1 .. Len(a) - 1 : HasDir(hs, Upto(a, n))
    BY <1>2, <1>3
<1>5. Led(hs, a)
    BY <1>2, <1>4 DEF Led
<1> QED
    BY <1>5 DEF a

-----------------------------------------------------------------------------
(* Induction over walks, and walks with more hops to begin with.           *)

LEMMA WalksInduction ==
    ASSUME NEW S,
           ASSUME NEW r \in Paths, NEW p \in Paths, NEW b \in Nat,
                  \A q \in Paths, s \in Paths, c \in Nat :
                     c < b \/ (c = b /\ Len(s) < Len(p)) => <<q, s, c>> \in S
           PROVE  <<r, p, b>> \in S
    PROVE  \A r \in Paths, p \in Paths, b \in Nat : <<r, p, b>> \in S
<1>1. ASSUME NEW x \in Walks, \A y \in Walks : <<y, x>> \in Shorter => y \in S
      PROVE  x \in S
  <2> DEFINE r == x[1]
             p == x[2]
             b == x[3]
  <2>1. r \in Paths /\ p \in Paths /\ b \in Nat /\ x = <<r, p, b>>
      BY WalkParts
  <2> HIDE DEF r, p, b
  <2>2. ASSUME NEW q \in Paths, NEW s \in Paths, NEW c \in Nat,
               c < b \/ (c = b /\ Len(s) < Len(p))
        PROVE  <<q, s, c>> \in S
    <3>1. <<q, s, c>> \in Walks /\ <<<<q, s, c>>, <<r, p, b>>>> \in Shorter
        BY <2>1, <2>2, ShorterWalks
    <3> QED
        BY <1>1, <2>1, <3>1
  <2>3. <<r, p, b>> \in S
      BY <1>1, <2>1, <2>2
  <2> QED
      BY <2>1, <2>3
<1>2. Walks \subseteq S
    BY <1>1, WalkInduction
<1> QED
    BY <1>2 DEF Walks

LEMMA OnwardWalk ==
    ASSUME NEW hs, NEW p, NEW e, NEW b
    PROVE  Onward(hs, Follow(hs), p, e, b) =
             IF Open(hs, p, e.key) THEN W(hs, e.key, Tail(p), e.hops) ELSE Lost(b)
BY DEF Onward, W

\* One step of a walk over a link: e is where the link leads.
LEMMA WalkOver ==
    ASSUME NEW hs \in Seq(Headers), NEW r \in Paths, NEW p \in Paths, NEW b \in Nat,
           r # Outside, p # << >>, Head(p) # "..", HasLink(hs, Here(r, p)),
           NEW l, l = TheLink(hs, Here(r, p)),
           NEW e, e = W(hs, From(l, r), Parts(l.target), b - 1), b # 0
    PROVE  /\ W(hs, r, p, b) =
                IF Open(hs, p, e.key) THEN W(hs, e.key, Tail(p), e.hops) ELSE Lost(b)
           /\ From(l, r) \in Paths /\ Parts(l.target) \in Paths /\ b - 1 \in Nat
           /\ b - 1 < b /\ Tail(p) \in Paths /\ Len(Tail(p)) < Len(p)
           /\ e.key \in Paths /\ e.hops \in Nat /\ e.hops <= b - 1 /\ e.hops < b
<1>1. From(l, r) \in Paths /\ Parts(l.target) \in Paths /\ b - 1 \in Nat
    BY TheLinkType, EmptyPath DEF From
<1>2. e.key \in Paths /\ e.hops \in Nat /\ e.hops <= b - 1
    BY <1>1, WalkType
<1>3. W(hs, r, p, b) = Onward(hs, Follow(hs), p, e, b)
    BY WalkLink
<1> QED
    BY <1>1, <1>2, <1>3, OnwardWalk, HereType

LEMMA LostKey ==
    ASSUME NEW b PROVE Lost(b).key = Outside /\ Lost(b).hops = b
BY DEF Lost

\* More hops to begin with, as many more at the end.
LEMMA Budget ==
    ASSUME NEW hs \in Seq(Headers), NEW r \in Paths, NEW p \in Paths, NEW b \in Nat,
           NEW d \in Nat, W(hs, r, p, b).key # Outside
    PROVE  /\ W(hs, r, p, b + d).key = W(hs, r, p, b).key
           /\ W(hs, r, p, b + d).hops = W(hs, r, p, b).hops + d
<1> DEFINE Plus(e, f) == e.key # Outside => f.key = e.key /\ f.hops = e.hops + d
           P(q, s, c) == Plus(W(hs, q, s, c), W(hs, q, s, c + d))
           S == {x \in Walks : P(x[1], x[2], x[3])}
<1>1. ASSUME NEW q \in Paths, NEW s \in Paths, NEW c \in Nat,
             \A q1 \in Paths, s1 \in Paths, c1 \in Nat :
                c1 < c \/ (c1 = c /\ Len(s1) < Len(s)) => P(q1, s1, c1)
      PROVE  P(q, s, c)
  <2>0. c + d \in Nat
      OBVIOUS
  <2>1. CASE q = Outside
      BY <2>1, WalkOutside, LostKey
  <2>2. CASE q # Outside /\ s = << >>
      BY <2>0, <2>2, WalkEnd
  <2>3. CASE q # Outside /\ s # << >> /\ Head(s) = ".."
    <3>1. /\ W(hs, q, s, c) = IF q = << >> THEN Lost(c) ELSE W(hs, Front(q), Tail(s), c)
          /\ W(hs, q, s, c + d) =
               IF q = << >> THEN Lost(c + d) ELSE W(hs, Front(q), Tail(s), c + d)
        BY <2>0, <2>3, WalkUp
    <3>2. CASE q = << >>
        BY <3>1, <3>2, LostKey
    <3>3. CASE q # << >>
      <4>1. Front(q) \in Paths /\ Tail(s) \in Paths /\ Len(Tail(s)) < Len(s)
          BY <2>3, <3>3, FrontPath, HereType
      <4>2. P(Front(q), Tail(s), c)
        <5> HIDE DEF P
        <5> QED
            BY <4>1, <1>1
      <4> HIDE DEF Plus
      <4> QED
          BY <3>1, <3>3, <4>2
    <3> QED
        BY <3>2, <3>3
  <2>4. CASE q # Outside /\ s # << >> /\ Head(s) # ".." /\ HasLink(hs, Here(q, s))
    <3> DEFINE l == TheLink(hs, Here(q, s))
               e == W(hs, From(l, q), Parts(l.target), c - 1)
               f == W(hs, From(l, q), Parts(l.target), c + d - 1)
    <3>1. CASE c = 0
      <4>1. W(hs, q, s, c) = Lost(c)
          BY <2>4, <3>1, WalkLink
      <4> QED
          BY <4>1, LostKey
    <3>2. CASE c # 0
      <4>1. /\ W(hs, q, s, c) =
                 IF Open(hs, s, e.key) THEN W(hs, e.key, Tail(s), e.hops) ELSE Lost(c)
            /\ From(l, q) \in Paths /\ Parts(l.target) \in Paths /\ c - 1 \in Nat
            /\ c - 1 < c /\ Tail(s) \in Paths /\ Len(Tail(s)) < Len(s)
            /\ e.key \in Paths /\ e.hops \in Nat /\ e.hops < c
        <5> HIDE DEF l
        <5> QED
            BY <2>4, <3>2, WalkOver DEF l
      <4>2. W(hs, q, s, c + d) =
              IF Open(hs, s, f.key) THEN W(hs, f.key, Tail(s), f.hops) ELSE Lost(c + d)
        <5> HIDE DEF l
        <5>1. c + d # 0
            BY <3>2
        <5> QED
            BY <2>0, <2>4, <5>1, WalkOver DEF l
      <4>3. Plus(e, f)
        <5>1. P(From(l, q), Parts(l.target), c - 1)
          <6> HIDE DEF P, l
          <6> QED
              BY <4>1, <1>1
        <5>2. c - 1 + d = c + d - 1
            BY <2>0
        <5> QED
            BY <5>1, <5>2
      <4>4. CASE e.key = Outside
        <5>1. W(hs, q, s, c) = Lost(c) \/ W(hs, q, s, c) = Lost(e.hops)
          <6> HIDE DEF e, l
          <6> QED
              BY <4>1, <4>4, WalkOutside
        <5> QED
            BY <5>1, LostKey
      <4>5. CASE e.key # Outside
        <5> HIDE DEF e, f, l
        <5>1. f.key = e.key /\ f.hops = e.hops + d
            BY <4>3, <4>5
        <5>2. P(e.key, Tail(s), e.hops)
          <6> HIDE DEF P
          <6> QED
              BY <4>1, <1>1
        <5>3. CASE Open(hs, s, e.key)
            BY <4>1, <4>2, <5>1, <5>2, <5>3
        <5>4. CASE ~Open(hs, s, e.key)
            BY <4>1, <5>4, LostKey
        <5> QED
            BY <5>3, <5>4
      <4> QED
          BY <4>4, <4>5
    <3> QED
        BY <3>1, <3>2
  <2>5. CASE q # Outside /\ s # << >> /\ Head(s) # ".." /\ ~HasLink(hs, Here(q, s))
    <3>1. /\ W(hs, q, s, c) =
               IF Open(hs, s, Here(q, s)) THEN W(hs, Here(q, s), Tail(s), c) ELSE Lost(c)
          /\ W(hs, q, s, c + d) =
               IF Open(hs, s, Here(q, s)) THEN W(hs, Here(q, s), Tail(s), c + d)
                                          ELSE Lost(c + d)
        BY <2>0, <2>5, WalkName
    <3>2. Here(q, s) \in Paths /\ Tail(s) \in Paths /\ Len(Tail(s)) < Len(s)
        BY <2>5, HereType
    <3>3. P(Here(q, s), Tail(s), c)
      <4> HIDE DEF P
      <4> QED
          BY <3>2, <1>1
    <3>4. CASE Open(hs, s, Here(q, s))
        BY <3>1, <3>3, <3>4
    <3>5. CASE ~Open(hs, s, Here(q, s))
        BY <3>1, <3>5, LostKey
    <3> QED
        BY <3>4, <3>5
  <2> HIDE DEF P
  <2> QED
      BY <2>1, <2>2, <2>3, <2>4, <2>5
<1>2. ASSUME NEW q \in Paths, NEW s \in Paths, NEW c \in Nat
      PROVE  <<q, s, c>> \in S <=> P(q, s, c)
  <2>1. <<q, s, c>> \in Walks
      BY WalkTriple
  <2> HIDE DEF P
  <2> QED
      BY <2>1
<1>3. \A q \in Paths, s \in Paths, c \in Nat : <<q, s, c>> \in S
  <2> HIDE DEF S, P
  <2>1. ASSUME NEW q \in Paths, NEW s \in Paths, NEW c \in Nat,
               \A q1 \in Paths, s1 \in Paths, c1 \in Nat :
                  c1 < c \/ (c1 = c /\ Len(s1) < Len(s)) => <<q1, s1, c1>> \in S
        PROVE  <<q, s, c>> \in S
      BY <1>1, <1>2, <2>1
  <2> QED
      BY <2>1, WalksInduction
<1>4. P(r, p, b)
  <2> HIDE DEF S, P
  <2> QED
      BY <1>2, <1>3
<1> QED
    BY <1>4

-----------------------------------------------------------------------------
(* Where a walk that starts in the tree ends.                              *)

LEMMA HereLed ==
    ASSUME NEW hs, NEW r, Steady(hs, r), NEW p \in Paths, p # << >>, Head(p) # ".."
    PROVE  /\ Led(hs, Here(r, p))
           /\ HasDir(hs, Here(r, p)) => Steady(hs, Here(r, p))
           /\ Here(r, p) # << >> /\ Here(r, p) # Outside
BY SteadyHere, HeadTailPath, HereType, LedInside DEF Here, Steady, Led

LEMMA SteadyPath ==
    ASSUME NEW hs, NEW r, Steady(hs, r)
    PROVE  r \in Paths /\ r # Outside /\ NoUps(r) /\ Led(hs, r) /\ (r = << >> \/ HasDir(hs, r))
BY LedInside DEF Steady

\* A walk that starts in a directory of the tree ends beneath one.
LEMMA EndsLed ==
    ASSUME NEW hs \in Seq(Headers), NEW r, Steady(hs, r), NEW p \in Paths, NEW b \in Nat,
           W(hs, r, p, b).key # Outside
    PROVE  Led(hs, W(hs, r, p, b).key)
<1> DEFINE P(q, s, c) == Steady(hs, q) /\ W(hs, q, s, c).key # Outside
                           => Led(hs, W(hs, q, s, c).key)
           S == {x \in Walks : P(x[1], x[2], x[3])}
<1>1. ASSUME NEW q \in Paths, NEW s \in Paths, NEW c \in Nat,
             \A q1 \in Paths, s1 \in Paths, c1 \in Nat :
                c1 < c \/ (c1 = c /\ Len(s1) < Len(s)) => P(q1, s1, c1),
             Steady(hs, q), W(hs, q, s, c).key # Outside
      PROVE  Led(hs, W(hs, q, s, c).key)
  <2>1. q # Outside /\ Led(hs, q)
      BY <1>1, SteadyPath
  <2>2. CASE s = << >>
      BY <2>1, <2>2, WalkEnd
  <2>3. CASE s # << >> /\ Head(s) = ".."
    <3>1. W(hs, q, s, c) = IF q = << >> THEN Lost(c) ELSE W(hs, Front(q), Tail(s), c)
        BY <2>1, <2>3, WalkUp
    <3>2. q # << >>
        BY <1>1, <3>1, LostKey
    <3>3. Front(q) \in Paths /\ Tail(s) \in Paths /\ Len(Tail(s)) < Len(s)
        BY <2>3, <3>2, FrontPath, HereType
    <3>4. P(Front(q), Tail(s), c)
      <4> HIDE DEF P
      <4> QED
          BY <3>3, <1>1
    <3>5. Steady(hs, Front(q))
        BY <1>1, <3>2, SteadyFront
    <3> QED
        BY <1>1, <3>1, <3>2, <3>4, <3>5
  <2>4. CASE s # << >> /\ Head(s) # ".." /\ HasLink(hs, Here(q, s))
    <3> DEFINE l == TheLink(hs, Here(q, s))
               e == W(hs, From(l, q), Parts(l.target), c - 1)
    <3>1. c # 0
      <4>1. c = 0 => W(hs, q, s, c) = Lost(c)
          BY <2>1, <2>4, WalkLink
      <4> QED
          BY <4>1, <1>1, LostKey
    <3>2. /\ W(hs, q, s, c) =
               IF Open(hs, s, e.key) THEN W(hs, e.key, Tail(s), e.hops) ELSE Lost(c)
          /\ From(l, q) \in Paths /\ Parts(l.target) \in Paths /\ c - 1 \in Nat
          /\ c - 1 < c /\ Tail(s) \in Paths /\ Len(Tail(s)) < Len(s)
          /\ e.key \in Paths /\ e.hops \in Nat /\ e.hops < c
      <4> HIDE DEF l
      <4> QED
          BY <2>1, <2>4, <3>1, WalkOver DEF l
    <3>3. Open(hs, s, e.key) /\ W(hs, q, s, c) = W(hs, e.key, Tail(s), e.hops)
      <4> HIDE DEF e
      <4> QED
          BY <1>1, <3>2, LostKey
    <3>4. e.key # Outside
      <4> HIDE DEF e
      <4>1. e.key = Outside => W(hs, q, s, c) = Lost(e.hops)
          BY <3>2, <3>3, WalkOutside
      <4> QED
          BY <4>1, <1>1, LostKey
    <3>5. Led(hs, e.key)
      <4>1. Steady(hs, From(l, q))
        <5> HIDE DEF l
        <5> QED
            BY <1>1, SteadyEmpty DEF From
      <4>2. P(From(l, q), Parts(l.target), c - 1)
        <5> HIDE DEF P, l
        <5> QED
            BY <3>2, <1>1
      <4> QED
          BY <4>1, <4>2, <3>4
    <3> HIDE DEF e
    <3>6. CASE Tail(s) = << >>
      <4>1. W(hs, e.key, << >>, e.hops).key = e.key
          BY <3>2, <3>4, WalkEnd
      <4> QED
          BY <3>3, <3>5, <3>6, <4>1
    <3>7. CASE Tail(s) # << >>
      <4>1. Steady(hs, e.key)
          BY <3>3, <3>5, <3>7 DEF Open, Steady
      <4>2. P(e.key, Tail(s), e.hops)
        <5> HIDE DEF P
        <5> QED
            BY <3>2, <1>1
      <4> QED
          BY <4>1, <4>2, <3>3, <1>1
    <3> QED
        BY <3>6, <3>7
  <2>5. CASE s # << >> /\ Head(s) # ".." /\ ~HasLink(hs, Here(q, s))
    <3> DEFINE k == Here(q, s)
    <3>1. /\ W(hs, q, s, c) = IF Open(hs, s, k) THEN W(hs, k, Tail(s), c) ELSE Lost(c)
          /\ k \in Paths /\ Tail(s) \in Paths /\ Len(Tail(s)) < Len(s)
        BY <2>1, <2>5, WalkName, HereType
    <3>2. Led(hs, k) /\ (HasDir(hs, k) => Steady(hs, k)) /\ k # << >> /\ k # Outside
        BY <1>1, <2>5, HereLed
    <3> HIDE DEF k
    <3>3. Open(hs, s, k) /\ W(hs, q, s, c) = W(hs, k, Tail(s), c)
        BY <1>1, <3>1, LostKey
    <3>4. CASE Tail(s) = << >>
      <4>1. W(hs, k, << >>, c).key = k
          BY <3>1, <3>2, WalkEnd
      <4> QED
          BY <3>2, <3>3, <3>4, <4>1
    <3>5. CASE Tail(s) # << >>
      <4>1. Steady(hs, k)
          BY <3>2, <3>3, <3>5 DEF Open
      <4>2. P(k, Tail(s), c)
        <5> HIDE DEF P
        <5> QED
            BY <3>1, <1>1
      <4> QED
          BY <4>1, <4>2, <3>3, <1>1
    <3> QED
        BY <3>4, <3>5
  <2> QED
      BY <2>2, <2>3, <2>4, <2>5
<1>2. ASSUME NEW q \in Paths, NEW s \in Paths, NEW c \in Nat
      PROVE  <<q, s, c>> \in S <=> P(q, s, c)
  <2>1. <<q, s, c>> \in Walks
      BY WalkTriple
  <2> HIDE DEF P
  <2> QED
      BY <2>1
<1>3. \A q \in Paths, s \in Paths, c \in Nat : <<q, s, c>> \in S
  <2>1. ASSUME NEW q \in Paths, NEW s \in Paths, NEW c \in Nat,
               \A q1 \in Paths, s1 \in Paths, c1 \in Nat :
                  c1 < c \/ (c1 = c /\ Len(s1) < Len(s)) => <<q1, s1, c1>> \in S
        PROVE  <<q, s, c>> \in S
    <3>1. \A q1 \in Paths, s1 \in Paths, c1 \in Nat :
             c1 < c \/ (c1 = c /\ Len(s1) < Len(s)) => P(q1, s1, c1)
      <4> HIDE DEF S, P
      <4> QED
          BY <1>2, <2>1
    <3>2. P(q, s, c)
        BY <3>1, <1>1
    <3> HIDE DEF S, P
    <3> QED
        BY <1>2, <3>2
  <2> HIDE DEF S, P
  <2> QED
      BY <2>1, WalksInduction
<1>4. P(r, p, b)
  <2>1. r \in Paths
      BY SteadyPath
  <2> HIDE DEF S, P
  <2> QED
      BY <2>1, <1>2, <1>3
<1> QED
    BY <1>4

-----------------------------------------------------------------------------
(* A walk along one path after another.                                    *)

LEMMA ConcatPath ==
    ASSUME NEW t \in Paths, NEW s \in Paths
    PROVE  /\ t \o s \in Paths /\ Len(t \o s) = Len(t) + Len(s)
           /\ \A i \in 1 .. Len(t) + Len(s) :
                 (t \o s)[i] = IF i <= Len(t) THEN t[i] ELSE s[i - Len(t)]
           /\ t = << >> => t \o s = s
           /\ s = << >> => t \o s = t
           /\ t # << >> \/ s # << >> => t \o s # << >>
BY ConcatProperties, ConcatEmptySeq, ConcatEqualIffEmpty DEF Paths

LEMMA ConcatHeadTail ==
    ASSUME NEW t \in Paths, NEW s \in Paths, t # << >>
    PROVE  /\ Head(t \o s) = Head(t)
           /\ Tail(t \o s) = Tail(t) \o s
<1> DEFINE c == t \o s
<1>1. /\ c \in Paths /\ Len(c) = Len(t) + Len(s) /\ c # << >>
      /\ \A i \in 1 .. Len(t) + Len(s) : c[i] = IF i <= Len(t) THEN t[i] ELSE s[i - Len(t)]
      /\ Len(s) \in Nat /\ Len(t) \in Nat \ {0}
    BY ConcatPath, EmptySeq DEF Paths
<1> HIDE DEF c
<1>2. /\ Head(t) = t[1] /\ Tail(t) \in Paths /\ Len(Tail(t)) = Len(t) - 1
      /\ \A i \in 1 .. Len(t) - 1 : Tail(t)[i] = t[i + 1]
    BY <1>1, HeadTailProperties DEF Paths
<1>3. /\ Head(c) = c[1] /\ Tail(c) \in Paths /\ Len(Tail(c)) = Len(c) - 1
      /\ \A i \in 1 .. Len(c) - 1 : Tail(c)[i] = c[i + 1]
    BY <1>1, HeadTailProperties DEF Paths
<1> DEFINE d == Tail(t) \o s
<1>4. /\ d \in Paths /\ Len(d) = Len(t) - 1 + Len(s)
      /\ \A i \in 1 .. Len(t) - 1 + Len(s) :
            d[i] = IF i <= Len(t) - 1 THEN Tail(t)[i] ELSE s[i - (Len(t) - 1)]
    BY <1>2, ConcatPath
<1> HIDE DEF d
<1>5. Head(c) = Head(t)
  <2>1. 1 \in 1 .. Len(t) + Len(s) /\ 1 <= Len(t)
      BY <1>1
  <2> QED
      BY <2>1, <1>1, <1>2, <1>3
<1>6. ASSUME NEW i \in 1 .. Len(c) - 1 PROVE Tail(c)[i] = d[i]
  <2>1. /\ i \in 1 .. Len(t) - 1 + Len(s) /\ i + 1 \in 1 .. Len(t) + Len(s)
        /\ i + 1 <= Len(t) <=> i <= Len(t) - 1
        /\ i + 1 - Len(t) = i - (Len(t) - 1)
        /\ i <= Len(t) - 1 => i \in 1 .. Len(t) - 1
      BY <1>1
  <2>2. Tail(c)[i] = c[i + 1]
      BY <1>3
  <2>3. c[i + 1] = IF i + 1 <= Len(t) THEN t[i + 1] ELSE s[i + 1 - Len(t)]
      BY <1>1, <2>1
  <2>4. d[i] = IF i <= Len(t) - 1 THEN Tail(t)[i] ELSE s[i - (Len(t) - 1)]
      BY <1>4, <2>1
  <2>5. i <= Len(t) - 1 => Tail(t)[i] = t[i + 1]
      BY <1>2, <2>1
  <2> QED
      BY <2>1, <2>2, <2>3, <2>4, <2>5
<1>7. Tail(c) = d
  <2>1. Len(Tail(c)) = Len(d) /\ Len(Tail(c)) = Len(c) - 1
      BY <1>1, <1>3, <1>4
  <2> QED
      BY <1>3, <1>4, <1>6, <2>1, PathEqual
<1> QED
    BY <1>5, <1>7 DEF c, d

\* The same outcome: outside, or at the same place with as many hops left.
Same(e, f) == e.key = f.key /\ (e.key # Outside => e.hops = f.hops)

Ground(hs, k) == k = << >> \/ HasDir(hs, k)

\* The walk that goes on along s from where another ended.
GoOn(hs, e, s) == IF Ground(hs, e.key) THEN W(hs, e.key, s, e.hops) ELSE Lost(e.hops)

LEMMA GoOnNowhere ==
    ASSUME NEW hs \in Seq(Headers), NEW e, NEW s \in Paths, e.hops \in Nat,
           e.key = Outside \/ ~Ground(hs, e.key)
    PROVE  GoOn(hs, e, s).key = Outside
<1>1. W(hs, Outside, s, e.hops) = Lost(e.hops)
    BY WalkOutside
<1> QED
    BY <1>1, LostKey DEF GoOn

LEMMA SameNowhere ==
    ASSUME NEW e, NEW f, e.key = Outside, f.key = Outside
    PROVE  Same(e, f)
BY DEF Same

LEMMA LedGround ==
    ASSUME NEW hs, NEW k, Led(hs, k), Ground(hs, k)
    PROVE  Steady(hs, k)
BY DEF Steady, Ground

LEMMA SteadyGround ==
    ASSUME NEW hs, NEW k, Steady(hs, k)
    PROVE  Ground(hs, k)
BY DEF Steady, Ground

\* A walk along two paths is the walk along the first, then along the second.
LEMMA WalkConcat ==
    ASSUME NEW hs \in Seq(Headers), NEW r, Steady(hs, r), NEW p \in Paths, NEW b \in Nat,
           NEW s \in Paths, s # << >>
    PROVE  Same(W(hs, r, p \o s, b), GoOn(hs, W(hs, r, p, b), s))
<1> DEFINE P(q, t, c) == Steady(hs, q)
                           => Same(W(hs, q, t \o s, c), GoOn(hs, W(hs, q, t, c), s))
           S == {x \in Walks : P(x[1], x[2], x[3])}
<1>1. ASSUME NEW q \in Paths, NEW t \in Paths, NEW c \in Nat,
             \A q1 \in Paths, t1 \in Paths, c1 \in Nat :
                c1 < c \/ (c1 = c /\ Len(t1) < Len(t)) => P(q1, t1, c1),
             Steady(hs, q)
      PROVE  Same(W(hs, q, t \o s, c), GoOn(hs, W(hs, q, t, c), s))
  <2> DEFINE u == t \o s
             e == W(hs, q, t, c)
  <2>1. q # Outside /\ Led(hs, q) /\ Ground(hs, q)
      BY <1>1, SteadyPath, SteadyGround
  <2>2. CASE t = << >>
    <3>1. u = s
        BY <2>2, ConcatPath
    <3>2. W(hs, q, t, c).key = q /\ W(hs, q, t, c).hops = c
        BY <2>1, <2>2, WalkEnd
    <3>3. GoOn(hs, e, s) = W(hs, q, s, c)
        BY <2>1, <3>2 DEF GoOn
    <3> QED
        BY <3>1, <3>3 DEF Same
  <2>3. CASE t # << >>
    <3>0. /\ u \in Paths /\ u # << >> /\ Head(u) = Head(t) /\ Tail(u) = Tail(t) \o s
          /\ Tail(u) # << >> /\ Here(q, u) = Here(q, t)
          /\ Tail(t) \in Paths /\ Len(Tail(t)) < Len(t)
      <4>1. Tail(t) \in Paths /\ Len(Tail(t)) < Len(t)
          BY <2>3, HereType
      <4>2. u \in Paths /\ u # << >> /\ Tail(t) \o s # << >>
          BY <4>1, <2>3, ConcatPath
      <4>3. Head(u) = Head(t) /\ Tail(u) = Tail(t) \o s
          BY <2>3, ConcatHeadTail
      <4> QED
          BY <4>1, <4>2, <4>3 DEF Here
    <3>1. CASE Head(t) = ".."
      <4>1. e = IF q = << >> THEN Lost(c) ELSE W(hs, Front(q), Tail(t), c)
          BY <2>1, <2>3, <3>1, WalkUp
      <4>2. W(hs, q, u, c) =
              IF q = << >> THEN Lost(c) ELSE W(hs, Front(q), Tail(t) \o s, c)
        <5>1. W(hs, q, u, c) =
                IF q = << >> THEN Lost(c) ELSE W(hs, Front(q), Tail(u), c)
          <6> HIDE DEF u
          <6> QED
              BY <2>1, <3>0, <3>1, WalkUp
        <5> QED
            BY <5>1, <3>0
      <4>3. CASE q = << >>
        <5>1. e.key = Outside /\ e.hops \in Nat /\ W(hs, q, u, c).key = Outside
            BY <4>1, <4>2, <4>3, LostKey
        <5> HIDE DEF e
        <5> QED
            BY <5>1, GoOnNowhere, SameNowhere DEF e
      <4>4. CASE q # << >>
        <5>1. Front(q) \in Paths /\ Steady(hs, Front(q))
            BY <1>1, <4>4, SteadyFront, FrontPath
        <5>2. P(Front(q), Tail(t), c)
          <6> HIDE DEF P
          <6> QED
              BY <3>0, <5>1, <1>1
        <5> QED
            BY <4>1, <4>2, <4>4, <5>1, <5>2
      <4> QED
          BY <4>3, <4>4
    <3>2. CASE Head(t) # ".." /\ HasLink(hs, Here(q, t))
      <4> DEFINE l == TheLink(hs, Here(q, t))
                 d == W(hs, From(l, q), Parts(l.target), c - 1)
      <4>1. CASE c = 0
        <5>1. e = Lost(c)
            BY <2>1, <2>3, <3>2, <4>1, WalkLink
        <5>2. W(hs, q, u, c) = Lost(c)
          <6>1. Head(u) # ".." /\ HasLink(hs, Here(q, u))
              BY <3>0, <3>2
          <6> HIDE DEF u
          <6> QED
              BY <2>1, <3>0, <4>1, <6>1, WalkLink
        <5>3. e.key = Outside /\ e.hops \in Nat /\ W(hs, q, u, c).key = Outside
            BY <5>1, <5>2, LostKey
        <5> HIDE DEF e
        <5> QED
            BY <5>3, GoOnNowhere, SameNowhere DEF e
      <4>2. CASE c # 0
        <5>1. /\ e = IF Open(hs, t, d.key) THEN W(hs, d.key, Tail(t), d.hops) ELSE Lost(c)
              /\ From(l, q) \in Paths /\ Parts(l.target) \in Paths /\ c - 1 \in Nat
              /\ d.key \in Paths /\ d.hops \in Nat /\ d.hops < c
          <6> HIDE DEF l
          <6> QED
              BY <2>1, <2>3, <3>2, <4>2, WalkOver DEF l
        <5>2. W(hs, q, u, c) =
                IF Ground(hs, d.key) THEN W(hs, d.key, Tail(t) \o s, d.hops) ELSE Lost(c)
          <6>1. Head(u) # ".." /\ HasLink(hs, Here(q, u)) /\ l = TheLink(hs, Here(q, u))
              BY <3>0, <3>2
          <6>2. W(hs, q, u, c) =
                  IF Open(hs, u, d.key) THEN W(hs, d.key, Tail(u), d.hops) ELSE Lost(c)
            <7> HIDE DEF u, l
            <7> QED
                BY <2>1, <3>0, <4>2, <6>1, WalkOver
          <6>3. Open(hs, u, d.key) <=> Ground(hs, d.key)
              BY <3>0 DEF Open, Ground
          <6> HIDE DEF u, d
          <6> QED
              BY <6>2, <6>3, <3>0
        <5>3. d.key # Outside => Led(hs, d.key)
          <6>1. Steady(hs, From(l, q))
            <7> HIDE DEF l
            <7> QED
                BY <1>1, SteadyEmpty DEF From
          <6> HIDE DEF l
          <6> QED
              BY <5>1, <6>1, EndsLed
        <5> HIDE DEF d, l, u
        <5>4. W(hs, Outside, Tail(t), d.hops) = Lost(d.hops)
            BY <3>0, <5>1, WalkOutside
        <5>5. W(hs, Outside, Tail(t) \o s, d.hops) = Lost(d.hops)
            BY <3>0, <5>1, ConcatPath, WalkOutside
        <5>6. CASE d.key = Outside
          <6>1. W(hs, q, u, c) = Lost(d.hops) \/ W(hs, q, u, c) = Lost(c)
              BY <5>2, <5>5, <5>6
          <6>2. e = Lost(d.hops) \/ e = Lost(c)
              BY <5>1, <5>4, <5>6
          <6>3. e.key = Outside /\ e.hops \in Nat /\ W(hs, q, u, c).key = Outside
              BY <6>1, <6>2, <5>1, LostKey
          <6> HIDE DEF e
          <6> QED
              BY <6>3, GoOnNowhere, SameNowhere DEF e, u
        <5>7. CASE d.key # Outside /\ Ground(hs, d.key)
          <6>1. Steady(hs, d.key)
              BY <5>3, <5>7, LedGround
          <6>2. P(d.key, Tail(t), d.hops)
            <7> HIDE DEF P
            <7> QED
                BY <3>0, <5>1, <1>1
          <6>3. e = W(hs, d.key, Tail(t), d.hops)
              BY <5>1, <5>7 DEF Open, Ground
          <6> QED
              BY <5>2, <5>7, <6>1, <6>2, <6>3 DEF u
        <5>8. CASE d.key # Outside /\ ~Ground(hs, d.key)
          <6>1. W(hs, q, u, c).key = Outside
              BY <5>2, <5>8, LostKey
          <6>2. CASE Tail(t) = << >>
            <7>1. W(hs, d.key, << >>, d.hops).key = d.key
                BY <5>1, <5>8, WalkEnd
            <7>2. Open(hs, t, d.key)
                BY <6>2 DEF Open
            <7>3. e.key = d.key
                BY <7>1, <7>2, <6>2, <5>1
            <7>4. e.hops \in Nat
                BY WalkType
            <7> HIDE DEF e
            <7> QED
                BY <6>1, <7>3, <7>4, <5>8, GoOnNowhere, SameNowhere DEF e, u
          <6>3. CASE Tail(t) # << >>
            <7>1. e = Lost(c)
                BY <5>1, <5>8, <6>3 DEF Open, Ground
            <7>2. e.key = Outside /\ e.hops \in Nat
                BY <7>1, LostKey
            <7> HIDE DEF e
            <7> QED
                BY <6>1, <7>2, GoOnNowhere, SameNowhere DEF e, u
          <6> QED
              BY <6>2, <6>3
        <5> QED
            BY <5>6, <5>7, <5>8
      <4> QED
          BY <4>1, <4>2
    <3>3. CASE Head(t) # ".." /\ ~HasLink(hs, Here(q, t))
      <4> DEFINE k == Here(q, t)
      <4>1. e = IF Open(hs, t, k) THEN W(hs, k, Tail(t), c) ELSE Lost(c)
          BY <2>1, <2>3, <3>3, WalkName
      <4>2. W(hs, q, u, c) = IF Ground(hs, k) THEN W(hs, k, Tail(t) \o s, c) ELSE Lost(c)
        <5>1. Head(u) # ".." /\ ~HasLink(hs, Here(q, u)) /\ k = Here(q, u)
            BY <3>0, <3>3
        <5>2. W(hs, q, u, c) = IF Open(hs, u, k) THEN W(hs, k, Tail(u), c) ELSE Lost(c)
          <6> HIDE DEF u, k
          <6> QED
              BY <2>1, <3>0, <5>1, WalkName
        <5>3. Open(hs, u, k) <=> Ground(hs, k)
            BY <3>0 DEF Open, Ground
        <5> HIDE DEF u, k
        <5> QED
            BY <5>2, <5>3, <3>0
      <4>3. /\ Led(hs, k) /\ k \in Paths /\ k # << >> /\ k # Outside
            /\ (Ground(hs, k) => Steady(hs, k))
          BY <1>1, <2>3, <3>3, HereLed, HereType, LedGround
      <4> HIDE DEF k
      <4>4. CASE Ground(hs, k)
        <5>1. P(k, Tail(t), c)
          <6> HIDE DEF P
          <6> QED
              BY <3>0, <4>3, <1>1
        <5>2. e = W(hs, k, Tail(t), c)
            BY <4>1, <4>4 DEF Open, Ground
        <5> QED
            BY <4>2, <4>3, <4>4, <5>1, <5>2
      <4>5. CASE ~Ground(hs, k)
        <5>1. W(hs, q, u, c).key = Outside
            BY <4>2, <4>5, LostKey
        <5>2. CASE Tail(t) = << >>
          <6>1. W(hs, k, << >>, c).key = k /\ W(hs, k, << >>, c).hops = c
              BY <4>3, WalkEnd
          <6>2. Open(hs, t, k)
              BY <5>2 DEF Open
          <6>3. e.key = k /\ e.hops = c
              BY <6>1, <6>2, <5>2, <4>1
          <6> HIDE DEF e
          <6> QED
              BY <5>1, <6>3, <4>5, GoOnNowhere, SameNowhere DEF e, u
        <5>3. CASE Tail(t) # << >>
          <6>1. e = Lost(c)
              BY <4>1, <4>5, <5>3 DEF Open, Ground
          <6>2. e.key = Outside /\ e.hops \in Nat
              BY <6>1, LostKey
          <6> HIDE DEF e
          <6> QED
              BY <5>1, <6>2, GoOnNowhere, SameNowhere DEF e, u
        <5> QED
            BY <5>2, <5>3
      <4> QED
          BY <4>4, <4>5
    <3> QED
        BY <3>1, <3>2, <3>3
  <2> QED
      BY <2>2, <2>3
<1>2. ASSUME NEW q \in Paths, NEW t \in Paths, NEW c \in Nat
      PROVE  <<q, t, c>> \in S <=> P(q, t, c)
  <2>1. <<q, t, c>> \in Walks
      BY WalkTriple
  <2> HIDE DEF P
  <2> QED
      BY <2>1
<1>3. \A q \in Paths, t \in Paths, c \in Nat : <<q, t, c>> \in S
  <2>1. ASSUME NEW q \in Paths, NEW t \in Paths, NEW c \in Nat,
               \A q1 \in Paths, t1 \in Paths, c1 \in Nat :
                  c1 < c \/ (c1 = c /\ Len(t1) < Len(t)) => <<q1, t1, c1>> \in S
        PROVE  <<q, t, c>> \in S
    <3>1. \A q1 \in Paths, t1 \in Paths, c1 \in Nat :
             c1 < c \/ (c1 = c /\ Len(t1) < Len(t)) => P(q1, t1, c1)
      <4> HIDE DEF S, P
      <4> QED
          BY <1>2, <2>1
    <3>2. P(q, t, c)
        BY <3>1, <1>1
    <3> HIDE DEF S, P
    <3> QED
        BY <1>2, <3>2
  <2> HIDE DEF S, P
  <2> QED
      BY <2>1, WalksInduction
<1>4. P(r, p, b)
  <2>1. r \in Paths
      BY SteadyPath
  <2> HIDE DEF S, P
  <2> QED
      BY <2>1, <1>2, <1>3
<1> QED
    BY <1>4

-----------------------------------------------------------------------------
(* Straight walks, and walks begun again at the root with a link's target  *)
(* before what was left: what resolve does at every link.                  *)

LEMMA SameSame ==
    ASSUME NEW e, NEW f, NEW g
    PROVE  /\ Same(e, e)
           /\ Same(e, f) => Same(f, e)
           /\ Same(e, f) /\ Same(f, g) => Same(e, g)
BY DEF Same

LEMMA OneName ==
    ASSUME NEW part \in Names
    PROVE  /\ <<part>> \in Paths /\ <<part>> # << >>
           /\ Head(<<part>>) = part /\ Tail(<<part>>) = << >>
<1>1. <<part>> \in Seq(Names) /\ <<part>> # << >> /\ Head(<<part>>) = part
    OBVIOUS
<1>2. Tail(<<part>>) \in Seq(Names) /\ Len(Tail(<<part>>)) = Len(<<part>>) - 1
    BY <1>1, HeadTailProperties
<1>3. Len(<<part>>) = 1
    OBVIOUS
<1>4. Tail(<<part>>) = << >>
    BY <1>2, <1>3, EmptySeq
<1> QED
    BY <1>1, <1>4 DEF Paths

LEMMA UptoNext ==
    ASSUME NEW k \in Paths, NEW n \in 0 .. Len(k) - 1
    PROVE  /\ k[n + 1] \in Names /\ Upto(k, n) \in Paths
           /\ Upto(k, n + 1) = Append(Upto(k, n), k[n + 1])
           /\ Upto(k, n + 1) = Upto(k, n) \o <<k[n + 1]>>
<1>0. Len(k) \in Nat /\ n \in Nat /\ n \in 0 .. Len(k) /\ n + 1 \in 1 .. Len(k)
      /\ n + 1 \in 0 .. Len(k)
    BY DEF Paths
<1>1. k[n + 1] \in Names
    BY <1>0, ElementOfSeq DEF Paths
<1>2. /\ Upto(k, n) \in Paths /\ Len(Upto(k, n)) = n
      /\ \A i \in 1 .. n : Upto(k, n)[i] = k[i]
    BY <1>0, UptoType
<1>3. /\ Upto(k, n + 1) \in Paths /\ Len(Upto(k, n + 1)) = n + 1
      /\ \A i \in 1 .. n + 1 : Upto(k, n + 1)[i] = k[i]
    BY <1>0, UptoType
<1> DEFINE a == Append(Upto(k, n), k[n + 1])
<1>4. /\ a \in Paths /\ Len(a) = Len(Upto(k, n)) + 1
      /\ \A i \in 1 .. Len(Upto(k, n)) : a[i] = Upto(k, n)[i]
      /\ a[Len(Upto(k, n)) + 1] = k[n + 1]
    BY <1>1, <1>2, AppendPath
<1> HIDE DEF a
<1>5. \A i \in 1 .. n + 1 : Upto(k, n + 1)[i] = a[i]
    BY <1>0, <1>2, <1>3, <1>4
<1>6. Upto(k, n + 1) = a
    BY <1>2, <1>3, <1>4, <1>5, PathEqual
<1>7. a = Upto(k, n) \o <<k[n + 1]>>
    BY <1>1, <1>2, AppendIsConcat DEF a, Paths
<1> QED
    BY <1>1, <1>2, <1>6, <1>7 DEF a

LEMMA WalkOneName ==
    ASSUME NEW hs \in Seq(Headers), NEW q \in Paths, NEW part \in Names, NEW b \in Nat,
           NoUps(q), part # "..", ~HasLink(hs, Append(q, part))
    PROVE  W(hs, q, <<part>>, b).key = Append(q, part) /\ W(hs, q, <<part>>, b).hops = b
<1> DEFINE p == <<part>>
<1>1. p \in Paths /\ p # << >> /\ Head(p) = part /\ Tail(p) = << >>
    BY OneName
<1> HIDE DEF p
<1>2. Here(q, p) = Append(q, part) /\ Open(hs, p, Here(q, p))
    BY <1>1 DEF Here, Open
<1>3. q # Outside
    BY NoUpsInside
<1>4. W(hs, q, p, b) = W(hs, Here(q, p), Tail(p), b)
    BY <1>1, <1>2, <1>3, WalkName
<1>5. Append(q, part) \in Paths /\ Append(q, part) # Outside
    BY AppendPath, NoUpsInside
<1> DEFINE h == Append(q, part)
<1>6. W(hs, h, << >>, b).key = h /\ W(hs, h, << >>, b).hops = b
  <2>1. h \in Paths /\ h # Outside
      BY <1>5
  <2> HIDE DEF h
  <2> QED
      BY <2>1, WalkEnd
<1> QED
    BY <1>1, <1>2, <1>4, <1>6 DEF p

LEMMA SteadyUpto ==
    ASSUME NEW hs, NEW k, Steady(hs, k), NEW n \in 1 .. Len(k)
    PROVE  HasDir(hs, Upto(k, n))
<1>1. k \in Paths /\ Len(k) \in Nat /\ k # << >>
    BY SteadyPath, EmptySeq DEF Paths
<1>2. CASE n = Len(k)
    BY <1>1, <1>2, UptoAll, SteadyPath
<1>3. CASE n # Len(k)
  <2>1. n \in 1 .. Len(k) - 1
      BY <1>1, <1>3
  <2> QED
      BY <2>1 DEF Steady, Led
<1> QED
    BY <1>2, <1>3

\* Without links on it a path leads to what it names, if anywhere.
LEMMA StraightWalk ==
    ASSUME NEW hs \in Seq(Headers), NEW k \in Paths, NoUps(k), NEW b \in Nat,
           \A n \in 1 .. Len(k) : ~HasLink(hs, Upto(k, n))
    PROVE  /\ W(hs, << >>, k, b).key \in {Outside, k}
           /\ Steady(hs, k) => W(hs, << >>, k, b).key = k /\ W(hs, << >>, k, b).hops = b
<1> DEFINE N == Len(k)
           E(n) == W(hs, << >>, Upto(k, n), b)
           Fine(n) == /\ E(n).key \in {Outside, Upto(k, n)}
                      /\ Steady(hs, k) => E(n).key = Upto(k, n) /\ E(n).hops = b
           S == {n \in 0 .. N : Fine(n)}
<1>0. N \in Nat
    BY DEF Paths
<1>1. 0 \in S
  <2>1. Upto(k, 0) \in Paths /\ Len(Upto(k, 0)) = 0
      BY <1>0, UptoType
  <2>2. Upto(k, 0) = << >>
      BY <2>1, EmptySeq DEF Paths
  <2>3. << >> \in Paths /\ << >> # Outside
      BY EmptyPath, NoUpsInside
  <2>4. W(hs, << >>, << >>, b).key = << >> /\ W(hs, << >>, << >>, b).hops = b
      BY <2>3, WalkEnd
  <2> QED
      BY <1>0, <2>2, <2>4
<1>2. ASSUME NEW n \in 0 .. N - 1, n \in S PROVE n + 1 \in S
  <2> DEFINE q == Upto(k, n)
             x == k[n + 1]
             e == W(hs, << >>, q, b)
  <2>1. /\ x \in Names /\ q \in Paths /\ n + 1 \in 1 .. N /\ n \in 0 .. N
        /\ Upto(k, n + 1) = Append(q, x) /\ Upto(k, n + 1) = q \o <<x>>
      BY <1>0, UptoNext
  <2>2. x # ".." /\ NoUps(q)
      BY <2>1, UptoType DEF NoUps
  <2>3. ~HasLink(hs, Append(q, x))
      BY <2>1
  <2>4. Same(E(n + 1), GoOn(hs, e, <<x>>))
    <3>1. <<x>> \in Paths /\ <<x>> # << >>
        BY <2>1, OneName
    <3>2. Steady(hs, << >>)
        BY SteadyEmpty
    <3>3. Same(W(hs, << >>, q \o <<x>>, b), GoOn(hs, e, <<x>>))
      <4> HIDE DEF q, x
      <4> QED
          BY <2>1, <3>1, <3>2, WalkConcat
    <3> QED
        BY <2>1, <3>3
  <2>5. e.key \in {Outside, q} /\ (Steady(hs, k) => e.key = q /\ e.hops = b)
      BY <1>2
  <2>6. e.hops \in Nat
      BY <2>1, EmptyPath, WalkType
  <2>7. W(hs, q, <<x>>, e.hops).key = Append(q, x) /\ W(hs, q, <<x>>, e.hops).hops = e.hops
    <3> HIDE DEF q, x, e
    <3> QED
        BY <2>1, <2>2, <2>3, <2>6, WalkOneName
  <2>8. E(n + 1).key \in {Outside, Append(q, x)}
    <3>1. CASE e.key = Outside \/ ~Ground(hs, e.key)
      <4>1. GoOn(hs, e, <<x>>).key = Outside
        <5> HIDE DEF e, q, x
        <5> QED
            BY <3>1, <2>1, <2>6, OneName, GoOnNowhere
      <4> QED
          BY <4>1, <2>4 DEF Same
    <3>2. CASE e.key = q /\ Ground(hs, e.key)
      <4> HIDE DEF e, q, x
      <4>1. GoOn(hs, e, <<x>>) = W(hs, q, <<x>>, e.hops)
          BY <3>2 DEF GoOn
      <4> QED
          BY <4>1, <2>4, <2>7 DEF Same
    <3> QED
        BY <3>1, <3>2, <2>5
  <2>9. ASSUME Steady(hs, k)
        PROVE  E(n + 1).key = Append(q, x) /\ E(n + 1).hops = b
    <3>1. e.key = q /\ e.hops = b
        BY <2>5, <2>9
    <3>2. Ground(hs, q)
      <4>1. CASE n = 0
        <5>1. Len(q) = 0
            BY <2>1, <4>1, UptoType
        <5> QED
            BY <5>1, <2>1, EmptySeq DEF Ground, Paths
      <4>2. CASE n # 0
        <5>1. n \in 1 .. Len(k)
            BY <2>1, <4>2
        <5> QED
            BY <5>1, <2>9, SteadyUpto DEF Ground
      <4> QED
          BY <4>1, <4>2
    <3>3. Append(q, x) # Outside
        BY <2>1, <2>2, AppendPath, NoUpsInside
    <3> HIDE DEF e, q, x
    <3>4. GoOn(hs, e, <<x>>) = W(hs, q, <<x>>, e.hops)
        BY <3>1, <3>2 DEF GoOn
    <3> QED
        BY <3>1, <3>3, <3>4, <2>4, <2>7 DEF Same
  <2>10. Fine(n + 1)
      BY <2>1, <2>8, <2>9
  <2>11. n + 1 \in 0 .. N
      BY <1>0
  <2> HIDE DEF Fine
  <2> QED
      BY <2>10, <2>11
<1>3. N \in S
  <2> HIDE DEF S
  <2>1. 0 .. N \subseteq S
      BY <1>0, <1>1, <1>2, UpTo
  <2> QED
      BY <1>0, <2>1
<1>4. Upto(k, N) = k
    BY UptoAll
<1> QED
    BY <1>3, <1>4

LEMMA SteadyWalk ==
    ASSUME NEW hs, Tidy(hs), NEW k, Steady(hs, k), NEW b \in Nat
    PROVE  W(hs, << >>, k, b).key = k /\ W(hs, << >>, k, b).hops = b
<1>1. \A n \in 1 .. Len(k) : ~HasLink(hs, Upto(k, n))
    BY SteadyUpto, DirNoLink
<1>2. k \in Paths /\ NoUps(k) /\ hs \in Seq(Headers)
    BY SteadyPath DEF Tidy
<1> QED
    BY <1>1, <1>2, StraightWalk

\* Walking to a directory of the tree again makes no difference.
LEMMA Rewalk ==
    ASSUME NEW hs, Tidy(hs), NEW k, Steady(hs, k), NEW p \in Paths, p # << >>, NEW b \in Nat
    PROVE  Same(W(hs, << >>, k \o p, b), W(hs, k, p, b))
<1>1. Same(W(hs, << >>, k \o p, b), GoOn(hs, W(hs, << >>, k, b), p))
  <2>1. Steady(hs, << >>) /\ k \in Paths /\ hs \in Seq(Headers)
      BY SteadyEmpty, SteadyPath DEF Tidy
  <2> QED
      BY <2>1, WalkConcat
<1>2. GoOn(hs, W(hs, << >>, k, b), p) = W(hs, k, p, b)
    BY SteadyWalk, SteadyGround DEF GoOn
<1> QED
    BY <1>1, <1>2

\* resolve's step over a link: the walk starts anew from the root.
LEMMA LinkRewalk ==
    ASSUME NEW hs, Tidy(hs), NEW r, Steady(hs, r), NEW p \in Paths, NEW b \in Nat, b # 0,
           p # << >>, Head(p) # "..", HasLink(hs, Here(r, p)),
           NEW l, l = TheLink(hs, Here(r, p))
    PROVE  /\ From(l, r) \o Parts(l.target) \o Tail(p) \in Paths
           /\ b - 1 \in Nat
           /\ Same(W(hs, r, p, b),
                   W(hs, << >>, From(l, r) \o Parts(l.target) \o Tail(p), b - 1))
<1> DEFINE k == From(l, r)
           t == Parts(l.target)
           s == Tail(p)
           d == W(hs, k, t, b - 1)
<1>1. hs \in Seq(Headers) /\ r \in Paths /\ r # Outside
    BY SteadyPath DEF Tidy
<1>2. /\ W(hs, r, p, b) = IF Open(hs, p, d.key) THEN W(hs, d.key, s, d.hops) ELSE Lost(b)
      /\ k \in Paths /\ t \in Paths /\ b - 1 \in Nat /\ s \in Paths
      /\ d.key \in Paths /\ d.hops \in Nat
    BY <1>1, WalkOver
<1>3. Steady(hs, k)
    BY SteadyEmpty DEF From
<1>4. t # << >>
    BY LinkTidy
<1> HIDE DEF k, t, s, d
<1>5. CASE s = << >>
  <2>1. k \o t \o s = k \o t /\ k \o t \in Paths
      BY <1>2, <1>5, ConcatPath
  <2>2. Same(W(hs, << >>, k \o t, b - 1), d)
      BY <1>2, <1>3, <1>4, Rewalk DEF d
  <2>3. Open(hs, p, d.key)
      BY <1>5 DEF Open, s
  <2>4. W(hs, r, p, b) = W(hs, d.key, << >>, d.hops)
      BY <1>2, <1>5, <2>3
  <2>5. Same(W(hs, d.key, << >>, d.hops), d)
    <3>1. CASE d.key = Outside
      <4>1. W(hs, Outside, << >>, d.hops) = Lost(d.hops)
          BY <1>1, <1>2, EmptyPath, WalkOutside
      <4> QED
          BY <3>1, <4>1, LostKey DEF Same
    <3>2. CASE d.key # Outside
      <4>1. /\ W(hs, d.key, << >>, d.hops).key = d.key
            /\ W(hs, d.key, << >>, d.hops).hops = d.hops
          BY <1>1, <1>2, <3>2, WalkEnd
      <4> QED
          BY <4>1 DEF Same
    <3> QED
        BY <3>1, <3>2
  <2>6. Same(W(hs, r, p, b), W(hs, << >>, k \o t \o s, b - 1))
      BY <2>1, <2>2, <2>4, <2>5 DEF Same
  <2> QED
      BY <1>2, <2>1, <2>6 DEF k, t, s
<1>6. CASE s # << >>
  <2>1. t \o s \in Paths /\ t \o s # << >> /\ k \o t \o s = k \o (t \o s)
    <3>1. t \o s \in Paths /\ t \o s # << >>
        BY <1>2, <1>6, ConcatPath
    <3>2. k \in Seq(Names) /\ t \in Seq(Names) /\ s \in Seq(Names)
        BY <1>2 DEF Paths
    <3>3. (k \o t) \o s = k \o (t \o s)
        BY <3>2, ConcatAssociative
    <3> QED
        BY <3>1, <3>3
  <2>2. k \o t \o s \in Paths
      BY <1>2, <2>1, ConcatPath
  <2>3. Same(W(hs, << >>, k \o t \o s, b - 1), W(hs, k, t \o s, b - 1))
      BY <1>2, <1>3, <2>1, Rewalk
  <2>4. Same(W(hs, k, t \o s, b - 1), GoOn(hs, d, s))
      BY <1>1, <1>2, <1>3, <1>6, WalkConcat DEF d
  <2>5. Same(GoOn(hs, d, s), W(hs, r, p, b))
    <3>1. Open(hs, p, d.key) <=> Ground(hs, d.key)
        BY <1>6 DEF Open, Ground, s
    <3>2. CASE Ground(hs, d.key)
        BY <1>2, <3>1, <3>2 DEF GoOn, Same
    <3>3. CASE ~Ground(hs, d.key)
      <4>1. GoOn(hs, d, s).key = Outside /\ W(hs, r, p, b).key = Outside
          BY <1>2, <3>1, <3>3, LostKey DEF GoOn
      <4> QED
          BY <4>1, SameNowhere
    <3> QED
        BY <3>2, <3>3
  <2>6. Same(W(hs, r, p, b), W(hs, << >>, k \o t \o s, b - 1))
      BY <2>3, <2>4, <2>5, SameSame
  <2> QED
      BY <1>2, <2>2, <2>6 DEF k, t, s
<1> QED
    BY <1>5, <1>6

\* A walk that repeats itself with fewer hops left leads nowhere.
LEMMA Repeats ==
    ASSUME NEW hs \in Seq(Headers), NEW r \in Paths, NEW p \in Paths, NEW b \in Nat,
           NEW c \in Nat, b < c, Same(W(hs, r, p, c), W(hs, r, p, b))
    PROVE  W(hs, r, p, b).key = Outside
<1>0. SUFFICES ASSUME W(hs, r, p, b).key # Outside PROVE FALSE
    OBVIOUS
<1>1. ASSUME NEW d \in Nat
      PROVE  /\ W(hs, r, p, b + d).key = W(hs, r, p, b).key
             /\ W(hs, r, p, b + d).hops = W(hs, r, p, b).hops + d
    BY <1>0, Budget
<1>2. PICK d \in Nat : b + d = c /\ d # 0
  <2>1. c - b \in Nat /\ b + (c - b) = c /\ c - b # 0
      OBVIOUS
  <2> QED
      BY <2>1
<1>3. /\ W(hs, r, p, c).key = W(hs, r, p, b).key
      /\ W(hs, r, p, c).hops = W(hs, r, p, b).hops + d
    BY <1>1, <1>2
<1>4. W(hs, r, p, b).hops \in Nat
    BY WalkType
<1>5. W(hs, r, p, c).hops = W(hs, r, p, b).hops
    BY <1>0, <1>3 DEF Same
<1> QED
    BY <1>2, <1>3, <1>4, <1>5

-----------------------------------------------------------------------------
(* The inductive invariant.                                                *)

File     == [members : Seq(Outer), version : Nat, encrypted : BOOLEAN, content : Contents]
WalkRecs == [key : Paths, pending : Paths, resolved : Paths,
             seen : SUBSET (Paths \X Paths), steps : Nat, hops : 0 .. MaxLinkHops]
Early    == {"metadata", "closed", "locked", "decrypt", "read"}
Third    == {"parent", "parentWalk", "link", "linkWalk"}
Passes   == {"index", "nesting", "required"} \cup Third

Expected == IF meta.encrypted THEN "gpg" ELSE "gzip"

\* What is known of the file.
FileInv ==
    /\ container \in File
    /\ pc \in {"decrypt", "read"} \cup Passes => DataReadable(container)
    /\ pc = "decrypt" => meta.encrypted /\ content = container.content
    /\ pc = "read" =>
          IF meta.encrypted THEN container.content = "gpg" /\ content = "gzip"
                            ELSE content = container.content
    /\ pc \in Passes => container.content = Expected

\* Where the passes are.
ShapeInv ==
    /\ headers \in Seq(Headers)
    /\ at \in Nat \ {0}
    /\ walk \in WalkRecs
    /\ pc \in Early => headers = << >> /\ DOMAIN byName = {} /\ parents = {} /\ at = 1
    /\ pc \in Passes => Len(headers) \in 1 .. MaxMembers /\ at <= Len(headers) + 1
    /\ pc \in {"index", "nesting", "required"} => parents = {}
    /\ pc \in {"nesting", "required"} => at = 1
    /\ pc \in {"parentWalk", "link", "linkWalk"} => at <= Len(headers)
    /\ ~Walking /\ pc # "end" => walk = NoWalk

\* A member that has passed the first pass.
Sound(h) ==
    /\ h.name.clean /\ ~Absolute(h.name) /\ ".." \notin ToSet(Key(h))
    /\ h.type # "special"
    /\ Key(h) = << >> => h.type = "dir"
    /\ IsLink(h) =>
          /\ h.target.clean /\ ~Absolute(h.target) /\ Parts(h.target) # << >>
          /\ StaysInside(IF h.type = "symlink" THEN Len(Key(h)) - 1 ELSE 0,
                         Parts(h.target))

\* The first n members are in the index.
Listed(n) ==
    /\ DOMAIN byName = {Key(headers[i]) : i \in 1 .. n}
    /\ \A i \in 1 .. n : byName[Key(headers[i])] = headers[i] /\ Sound(headers[i])
    /\ \A i, j \in 1 .. n : Key(headers[i]) = Key(headers[j]) => i = j

IndexInv == pc \in Passes => Listed(IF pc = "index" THEN at - 1 ELSE Len(headers))

ParentThere(hs, h) == Len(Key(h)) > 1 => HasDir(hs, Front(Key(h)))
LinkThere(hs, h)   ==
    IsLink(h) => /\ Reached(hs, Key(h)) # {}
                 /\ h.type = "hardlink" => \A f \in Reached(hs, Key(h)) : f.type = "file"

\* What the second pass and the third have found so far.
PassInv ==
    /\ pc \in {"required"} \cup Third =>
          \A key \in DOMAIN byName : \A above \in Beneath(key) : ~LinkAt(above)
    /\ pc \in Third =>
          /\ \A key \in ToSet(Required) : HasDir(headers, key)
          /\ \A key \in parents : HasDir(headers, key)
          /\ \A i \in 1 .. at - 1 :
                ParentThere(headers, headers[i]) /\ LinkThere(headers, headers[i])
    /\ pc \in {"link", "linkWalk"} => ParentThere(headers, headers[at])
    /\ pc = "parentWalk" =>
          Len(Key(headers[at])) > 1 /\ walk.key = Front(Key(headers[at]))
    /\ pc = "linkWalk" => IsLink(headers[at]) /\ walk.key = Key(headers[at])

\* The walk under way comes out where the one from the root along its key does.
Budgeted(w) == MaxLinkHops - w.hops
Now(hs, w)  == W(hs, w.resolved, w.pending, Budgeted(w))

Seen(hs, w, s) ==
    \E c \in 0 .. MaxLinkHops :
       /\ c > Budgeted(w) \/ (c = Budgeted(w) /\ Len(s[2]) > Len(w.pending))
       /\ Same(W(hs, s[1], s[2], c), Now(hs, w))

OnTrack(hs, w) ==
    /\ NoUps(w.resolved)
    /\ w.pending # << >> => Steady(hs, w.resolved)
    /\ Same(W(hs, << >>, w.key, MaxLinkHops), Now(hs, w))
    /\ \A s \in w.seen : Seen(hs, w, s)

WalkInv == Walking => OnTrack(headers, walk)

IInv ==
    /\ TypeOK /\ FileInv /\ ShapeInv /\ IndexInv /\ PassInv /\ WalkInv
    /\ AcceptsOnlyBackups /\ RefusesWithReason

-----------------------------------------------------------------------------
(* What the index says of the members.                                     *)

LEMMA ToSetOf ==
    ASSUME NEW S, NEW s \in Seq(S)
    PROVE  /\ ToSet(s) = {s[i] : i \in 1 .. Len(s)}
           /\ ToSet(s) \subseteq S
           /\ \A i \in 1 .. Len(s) : s[i] \in S /\ s[i] \in ToSet(s)
<1>1. DOMAIN s = 1 .. Len(s)
    BY LenProperties
<1>2. \A i \in 1 .. Len(s) : s[i] \in S
    BY ElementOfSeq
<1> QED
    BY <1>1, <1>2 DEF ToSet

LEMMA NoUpsIff ==
    ASSUME NEW s \in Paths
    PROVE  NoUps(s) <=> ".." \notin ToSet(s)
<1>1. ToSet(s) = {s[i] : i \in 1 .. Len(s)}
    BY ToSetOf DEF Paths
<1> QED
    BY <1>1 DEF NoUps

LEMMA HeaderAt ==
    ASSUME NEW hs \in Seq(Headers), NEW i \in 1 .. Len(hs)
    PROVE  /\ hs[i] \in Headers /\ hs[i] \in ToSet(hs)
           /\ Key(hs[i]) \in Paths /\ Parts(hs[i].target) \in Paths
<1>1. hs[i] \in Headers /\ hs[i] \in ToSet(hs)
    BY ToSetOf
<1> QED
    BY <1>1, HeaderType

\* What the full index says of the members.
LEMMA ListedTidy ==
    ASSUME headers \in Seq(Headers), Listed(Len(headers))
    PROVE  Tidy(headers)
<1>1. ToSet(headers) = {headers[i] : i \in 1 .. Len(headers)}
    BY ToSetOf
<1>2. ASSUME NEW i \in 1 .. Len(headers)
      PROVE  /\ NoUps(Key(headers[i]))
             /\ IsLink(headers[i]) => Parts(headers[i].target) # << >>
  <2>1. Sound(headers[i]) /\ Key(headers[i]) \in Paths
      BY HeaderAt DEF Listed
  <2> QED
      BY <2>1, NoUpsIff DEF Sound
<1>3. ASSUME NEW i \in 1 .. Len(headers), NEW j \in 1 .. Len(headers),
             Key(headers[i]) = Key(headers[j])
      PROVE  headers[i] = headers[j]
    BY <1>3 DEF Listed
<1> QED
    BY <1>1, <1>2, <1>3 DEF Tidy

LEMMA ListedMember ==
    ASSUME headers \in Seq(Headers), Listed(Len(headers)), NEW key
    PROVE  /\ Known(key) => Member(headers, key) = {byName[key]}
           /\ ~Known(key) => Member(headers, key) = {}
           /\ Known(key) => key \in Paths /\ byName[key] \in ToSet(headers)
                            /\ Key(byName[key]) = key
<1>1. ToSet(headers) = {headers[i] : i \in 1 .. Len(headers)}
    BY ToSetOf
<1>2. ASSUME Known(key)
      PROVE  /\ Member(headers, key) = {byName[key]}
             /\ key \in Paths /\ byName[key] \in ToSet(headers)
             /\ Key(byName[key]) = key
  <2>1. PICK i \in 1 .. Len(headers) : key = Key(headers[i])
      BY <1>2 DEF Known, Listed
  <2>2. byName[key] = headers[i]
      BY <2>1 DEF Listed
  <2>3. \A h \in ToSet(headers) : Key(h) = key => h = byName[key]
    <3>1. SUFFICES ASSUME NEW j \in 1 .. Len(headers), Key(headers[j]) = key
                   PROVE  headers[j] = byName[key]
        BY <1>1
    <3> QED
        BY <3>1 DEF Listed
  <2>4. byName[key] \in ToSet(headers) /\ Key(byName[key]) = key
      BY <1>1, <2>1, <2>2
  <2>5. key \in Paths
      BY <2>1, HeaderAt
  <2> QED
      BY <2>3, <2>4, <2>5 DEF Member
<1>3. ASSUME ~Known(key) PROVE Member(headers, key) = {}
    BY <1>1, <1>3 DEF Member, Known, Listed
<1> QED
    BY <1>2, <1>3

LEMMA ListedKinds ==
    ASSUME headers \in Seq(Headers), Listed(Len(headers)), NEW key
    PROVE  /\ LinkAt(key) <=> HasLink(headers, key)
           /\ DirAt(key) <=> HasDir(headers, key)
           /\ Known(key) <=> Member(headers, key) # {}
           /\ LinkAt(key) => byName[key] = TheLink(headers, key)
<1>1. CASE Known(key)
  <2>1. Member(headers, key) = {byName[key]}
      BY <1>1, ListedMember
  <2>2. LinkAt(key) <=> HasLink(headers, key)
      BY <1>1, <2>1 DEF LinkAt, HasLink
  <2>3. DirAt(key) <=> HasDir(headers, key)
      BY <1>1, <2>1 DEF DirAt, HasDir
  <2>4. LinkAt(key) => byName[key] = TheLink(headers, key)
    <3>1. HasLink(headers, key) => TheLink(headers, key) \in Member(headers, key)
        BY DEF TheLink, HasLink
    <3> QED
        BY <2>1, <2>2, <3>1
  <2> QED
      BY <1>1, <2>1, <2>2, <2>3, <2>4
<1>2. CASE ~Known(key)
  <2>1. Member(headers, key) = {}
      BY <1>2, ListedMember
  <2> QED
      BY <1>2, <2>1 DEF LinkAt, DirAt, HasLink, HasDir
<1> QED
    BY <1>1, <1>2

-----------------------------------------------------------------------------
(* In a well-formed tree every member's directories are there.             *)

LEMMA WellFormedLed ==
    ASSUME NEW hs \in Seq(Headers), WellFormed(hs), NEW h \in ToSet(hs)
    PROVE  Led(hs, Key(h))
<1> DEFINE k == Key(h)
           N == Len(k)
           S == {j \in 0 .. N - 2 : HasDir(hs, Upto(k, N - 1 - j))}
<1>1. /\ k \in Paths /\ NoUps(k) /\ N \in Nat
  <2>1. k \in Paths /\ ".." \notin ToSet(k)
      BY HeaderType DEF WellFormed
  <2> QED
      BY <2>1, NoUpsIff DEF Paths
<1>2. ASSUME NEW g \in ToSet(hs), Len(Key(g)) > 1 PROVE HasDir(hs, Front(Key(g)))
    BY <1>2 DEF WellFormed
<1>3. ASSUME NEW p \in Paths, Len(p) > 1, HasDir(hs, p) PROVE HasDir(hs, Front(p))
  <2>1. PICK g \in ToSet(hs) : Key(g) = p
      BY <1>3 DEF HasDir, Member
  <2> QED
      BY <1>2, <1>3, <2>1
<1> HIDE DEF k
<1>4. ASSUME NEW m \in 2 .. N
      PROVE  /\ Upto(k, m) \in Paths /\ Len(Upto(k, m)) = m
             /\ Front(Upto(k, m)) = Upto(k, m - 1)
  <2>1. m - 1 \in 0 .. N - 1 /\ m - 1 + 1 = m /\ m \in 0 .. N
      BY <1>1
  <2>2. /\ k[m] \in Names /\ Upto(k, m - 1) \in Paths
        /\ Upto(k, m) = Append(Upto(k, m - 1), k[m])
      BY <1>1, <2>1, UptoNext
  <2>3. Front(Upto(k, m)) = Upto(k, m - 1)
      BY <2>2, FrontAppend
  <2> QED
      BY <1>1, <2>1, <2>3, UptoType
<1>5. CASE N < 2
  <2>1. 1 .. N - 1 = {}
      BY <1>1, <1>5
  <2> QED
      BY <1>1, <2>1 DEF Led, k
<1>6. CASE N >= 2
  <2>1. 0 \in S
    <3>1. HasDir(hs, Front(k))
        BY <1>2, <1>1, <1>6 DEF k
    <3>2. N \in 2 .. N
        BY <1>1, <1>6
    <3>3. Front(k) = Upto(k, N - 1)
        BY <1>1, <1>4, <3>2, UptoAll
    <3>4. 0 \in 0 .. N - 2 /\ N - 1 - 0 = N - 1
        BY <1>1, <1>6
    <3> QED
        BY <3>1, <3>3, <3>4
  <2>2. ASSUME NEW j \in 0 .. N - 2 - 1, j \in S PROVE j + 1 \in S
    <3>1. N - 1 - j \in 2 .. N /\ N - 1 - j > 1 /\ N - 1 - j - 1 = N - 1 - (j + 1)
          /\ j + 1 \in 0 .. N - 2
        BY <1>1, <1>6
    <3>2. HasDir(hs, Upto(k, N - 1 - j))
        BY <2>2
    <3>3. HasDir(hs, Upto(k, N - 1 - (j + 1)))
        BY <1>3, <1>4, <3>1, <3>2
    <3> QED
        BY <3>1, <3>3
  <2>3. N - 2 \in Nat
      BY <1>1, <1>6
  <2>4. 0 .. N - 2 \subseteq S
    <3> HIDE DEF S, N
    <3> QED
        BY <2>1, <2>2, <2>3, UpTo
  <2>5. ASSUME NEW n \in 1 .. N - 1 PROVE HasDir(hs, Upto(k, n))
    <3>1. N - 1 - n \in 0 .. N - 2 /\ N - 1 - (N - 1 - n) = n
        BY <1>1
    <3>2. N - 1 - n \in S
        BY <2>4, <3>1
    <3> QED
        BY <3>1, <3>2
  <2> QED
      BY <1>1, <2>5 DEF Led, k
<1> QED
    BY <1>1, <1>5, <1>6

LEMMA WellFormedParent ==
    ASSUME NEW hs \in Seq(Headers), WellFormed(hs), NEW h \in ToSet(hs), Len(Key(h)) > 1
    PROVE  Steady(hs, Front(Key(h)))
<1>1. HasDir(hs, Front(Key(h)))
    BY DEF WellFormed
<1>2. PICK g \in ToSet(hs) : Key(g) = Front(Key(h))
    BY <1>1 DEF HasDir, Member
<1> QED
    BY <1>1, <1>2, WellFormedLed DEF Steady

-----------------------------------------------------------------------------
(* The container.                                                          *)

LEMMA OuterPair ==
    ASSUME NEW a \in Outer, NEW b \in Outer
    PROVE  <<a, b>> \in Seq(Outer) /\ Len(<<a, b>>) = 2 /\ <<a, b>>[1] = a /\ <<a, b>>[2] = b
OBVIOUS

LEMMA BackupsReadable ==
    ASSUME NEW c \in Backups
    PROVE  c \in File /\ MetadataReadable(c) /\ DataReadable(c)
<1>1. PICK e \in BOOLEAN, g \in Contents : c = WriteTx9(e, g)
    BY DEF Backups, Contents
<1> DEFINE a == [name |-> "metadata.json", regular |-> TRUE]
           b == [name |-> DataMemberName(e), regular |-> TRUE]
<1>2. a \in Outer /\ b \in Outer
    BY DEF Outer, MemberNames, DataMemberName
<1>3. /\ c.members = <<a, b>> /\ c.version = FormatVersion /\ c.encrypted = e
      /\ c.content = g
      /\ c = [members |-> <<a, b>>, version |-> FormatVersion, encrypted |-> e, content |-> g]
    BY <1>1 DEF WriteTx9
<1>4. /\ c.members \in Seq(Outer) /\ Len(c.members) = 2
      /\ c.members[1] = a /\ c.members[2] = b /\ c.members # << >>
  <2>1. /\ <<a, b>> \in Seq(Outer) /\ Len(<<a, b>>) = 2
        /\ <<a, b>>[1] = a /\ <<a, b>>[2] = b
    <3> HIDE DEF a, b
    <3> QED
        BY <1>2, OuterPair
  <2>2. c.members # << >>
    <3> HIDE DEF a, b
    <3> QED
        BY <1>3, <2>1
  <2> QED
      BY <1>3, <2>1, <2>2
<1>5. FormatVersion \in Nat \ {0}
    BY ImportAssumption DEF ImportAssumption
<1>6. c \in File
  <2> HIDE DEF a, b
  <2> QED
      BY <1>2, <1>3, <1>4, <1>5, OuterPair DEF File
<1>7. MetadataReadable(c)
    BY <1>3, <1>4, <1>5 DEF MetadataReadable
<1>8. DataReadable(c)
    BY <1>3, <1>4, <1>7 DEF DataReadable
<1> QED
    BY <1>6, <1>7, <1>8

LEMMA ReadableIsBackup ==
    ASSUME NEW c \in File, DataReadable(c), NEW e, NEW g,
           c.encrypted = e, c.content = g
    PROVE  \E v \in 1 .. FormatVersion : c = [WriteTx9(e, g) EXCEPT !.version = v]
<1> DEFINE a == [name |-> "metadata.json", regular |-> TRUE]
           b == [name |-> DataMemberName(e), regular |-> TRUE]
<1>1. /\ c.version \in 1 .. FormatVersion /\ Len(c.members) = 2
      /\ c.members[1] = a /\ c.members[2] = b /\ c.members \in Seq(Outer)
    BY DEF DataReadable, MetadataReadable, File
<1>2. c.members = <<a, b>>
    BY <1>1
<1>3. c = [members |-> c.members, version |-> c.version, encrypted |-> c.encrypted,
           content |-> c.content]
    BY DEF File
<1>4. c = [WriteTx9(e, g) EXCEPT !.version = c.version]
  <2>1. WriteTx9(e, g) = [members |-> <<a, b>>, version |-> FormatVersion,
                          encrypted |-> e, content |-> g]
      BY DEF WriteTx9
  <2>2. [WriteTx9(e, g) EXCEPT !.version = c.version] =
           [members |-> <<a, b>>, version |-> c.version, encrypted |-> e, content |-> g]
    <3> HIDE DEF a, b
    <3> QED
        BY <2>1
  <2> HIDE DEF a, b
  <2> QED
      BY <1>2, <1>3, <2>2
<1> QED
    BY <1>1, <1>4

LEMMA ContainersAreFiles ==
    ASSUME NEW c \in Container
    PROVE  c \in File
<1>1. c.members \in Seq(Outer)
  <2>1. PICK m \in 0 .. 3 : c.members \in [1 .. m -> Outer]
      BY DEF Container, BoundedSeq, SeqOf
  <2>2. m \in Nat
      OBVIOUS
  <2> QED
      BY <2>1, <2>2
<1>2. c.version \in Nat
  <2>1. FormatVersion \in Nat \ {0}
      BY ImportAssumption DEF ImportAssumption
  <2>2. c.version \in 0 .. FormatVersion + 1
      BY DEF Container
  <2> QED
      BY <2>1, <2>2
<1> QED
    BY <1>1, <1>2 DEF Container, File

-----------------------------------------------------------------------------
(* Type correctness, told by what an action touches.                       *)

LEMMA VerdictNone ==
    ASSUME TypeOK, pc # "end"
    PROVE  verdict = "none"
BY DEF TypeOK

\* While nothing has been decided there is nothing to be wrong about.
LEMMA Undecided ==
    ASSUME verdict' = "none"
    PROVE  AcceptsOnlyBackups' /\ RefusesWithReason'
BY DEF AcceptsOnlyBackups, RefusesWithReason

LEMMA ConstantsType ==
    /\ MaxMembers \in Nat /\ MaxLinkHops \in Nat /\ StepsBase \in Nat
    /\ StepsPerMember \in Nat /\ FormatVersion \in Nat \ {0}
    /\ Archives \subseteq Seq(Headers)
BY ImportAssumption DEF ImportAssumption

LEMMA MaxStepsType ==
    ASSUME headers \in Seq(Headers)
    PROVE  MaxSteps \in Nat
BY ConstantsType, LenProperties DEF MaxSteps

LEMMA NoWalkType ==
    NoWalk \in WalkRecs
<1>1. << >> \in Paths
    BY EmptyPath
<1> QED
    BY <1>1, ConstantsType DEF NoWalk, WalkRecs

LEMMA InitInv == Init => IInv
<1> SUFFICES ASSUME Init PROVE IInv
    OBVIOUS
<1>1. << >> \in Seq(Headers) /\ Len(<< >>) = 0 /\ DOMAIN << >> = {}
    BY EmptySeq
<1>2. container \in File
    BY ContainersAreFiles DEF Init
<1>3. walk \in WalkRecs
    BY NoWalkType DEF Init
<1>4. MaxSteps \in Nat
    BY <1>1, MaxStepsType DEF Init
<1>5. TypeOK
    BY <1>1, <1>2, <1>3, <1>4, ConstantsType
       DEF Init, TypeOK, File, WalkRecs, NoWalk, Steps, Verdicts, Contents
<1>6. FileInv
    BY <1>2 DEF Init, FileInv, Passes, Third
<1>7. ShapeInv
    BY <1>1, <1>3 DEF Init, ShapeInv, Passes, Third, Early, Walking
<1>8. IndexInv /\ PassInv /\ WalkInv
    BY DEF Init, IndexInv, PassInv, WalkInv, Passes, Third, Walking
<1>9. AcceptsOnlyBackups /\ RefusesWithReason
    BY DEF Init, AcceptsOnlyBackups, RefusesWithReason
<1> QED
    BY <1>5, <1>6, <1>7, <1>8, <1>9 DEF IInv

-----------------------------------------------------------------------------
(* The file's actions.                                                     *)

\* Outside the passes the other invariants have nothing to say.
LEMMA NotYetPasses ==
    ASSUME pc' \notin Passes
    PROVE  IndexInv' /\ PassInv' /\ WalkInv'
BY DEF IndexInv, PassInv, WalkInv, Passes, Third, Walking

LEMMA EarlyType ==
    ASSUME TypeOK, ShapeInv, pc \in Early
    PROVE  /\ verdict = "none" /\ DOMAIN byName = {} /\ parents = {} /\ walk = NoWalk
           /\ headers = << >> /\ at = 1 /\ headers \in Seq(Headers)
           /\ container.members \in Seq(Outer) /\ container.content \in Contents
           /\ meta.encrypted \in BOOLEAN /\ meta \in [encrypted : BOOLEAN]
           /\ content \in Contents /\ walk \in WalkRecs
BY DEF TypeOK, ShapeInv, Early, Walking

\* What an action of the file leaves alone is typed as before.
LEMMA EarlyTypeNext ==
    ASSUME TypeOK, ShapeInv, pc \in Early, UNCHANGED <<at, byName, parents, walk>>,
           headers' \in Seq(Headers), container' \in File, meta' \in [encrypted : BOOLEAN],
           content' \in Contents, pc' \in Steps, verdict' \in Verdicts,
           pc' = "end" <=> verdict' # "none"
    PROVE  TypeOK'
<1>1. /\ DOMAIN byName' = {} /\ parents' = {} /\ walk' = NoWalk /\ at' = 1
      /\ walk' \in WalkRecs
    BY EarlyType
<1>2. MaxSteps' \in Nat
    BY ConstantsType, LenProperties DEF MaxSteps
<1>3. /\ walk'.key \in Paths /\ walk'.pending \in Paths /\ walk'.resolved \in Paths
      /\ walk'.hops \in 0 .. MaxLinkHops
    BY <1>1 DEF WalkRecs
<1>4. walk'.steps \in 0 .. MaxSteps'
  <2>1. walk'.steps = 0
      BY <1>1 DEF NoWalk
  <2> QED
      BY <1>2, <2>1
<1>5. at' \in 1 .. MaxMembers + 1
    BY <1>1, ConstantsType
<1>6. container'.members \in Seq(Outer) /\ container'.content \in Contents
    BY DEF File
<1> QED
    BY <1>1, <1>3, <1>4, <1>5, <1>6 DEF TypeOK

LEMMA EarlyShapeNext ==
    ASSUME TypeOK, ShapeInv, pc \in Early, UNCHANGED <<headers, byName, at, parents, walk>>,
           pc' \in Early \cup {"end"}
    PROVE  ShapeInv'
<1>1. /\ headers = << >> /\ DOMAIN byName = {} /\ parents = {} /\ at = 1 /\ walk = NoWalk
      /\ headers \in Seq(Headers) /\ walk \in WalkRecs
    BY EarlyType
<1> QED
    BY <1>1 DEF ShapeInv, Early, Passes, Third, Walking

\* A file's action either goes on to another or ends.
LEMMA EarlyNext ==
    ASSUME IInv, pc \in Early, UNCHANGED <<headers, at, byName, parents, walk>>,
           container' \in File, meta' \in [encrypted : BOOLEAN], content' \in Contents,
           \/ pc' \in Early /\ verdict' = verdict
           \/ pc' = "end" /\ verdict' \in Verdicts \ {"none"}
    PROVE  TypeOK' /\ ShapeInv' /\ IndexInv' /\ PassInv' /\ WalkInv'
<1>1. TypeOK /\ ShapeInv /\ verdict = "none" /\ headers \in Seq(Headers)
    BY EarlyType DEF IInv
<1>2. pc' \in Early \cup {"end"} /\ pc' \in Steps /\ pc' \notin Passes
      /\ (pc' = "end" <=> verdict' # "none") /\ verdict' \in Verdicts
    BY <1>1 DEF Early, Steps, Passes, Third, Verdicts
<1> QED
    BY <1>1, <1>2, EarlyTypeNext, EarlyShapeNext, NotYetPasses

LEMMA Refused ==
    ASSUME NEW why, End(why), why # "accepted",
           why \in {"malformed", "cycle", "hops"} => ~WellFormed(headers)',
           why = "members" => Len(headers') > MaxMembers,
           why = "container" => container' \notin Backups,
           why = "content" => container'.content # Expected'
    PROVE  AcceptsOnlyBackups' /\ RefusesWithReason'
BY DEF End, AcceptsOnlyBackups, RefusesWithReason, Expected

LEMMA ReadMetadataStep == IInv /\ ReadMetadata => IInv'
<1> SUFFICES ASSUME IInv, ReadMetadata PROVE IInv'
    OBVIOUS
<1>1. pc \in Early /\ pc = "metadata" /\ verdict = "none" /\ container \in File
    BY EarlyType DEF ReadMetadata, Early, IInv, FileInv
<1>2. meta' = [encrypted |-> container.encrypted] /\ meta' \in [encrypted : BOOLEAN]
    BY <1>1 DEF ReadMetadata, File
<1>3. UNCHANGED <<container, content, headers, at, byName, parents, walk>>
    BY DEF ReadMetadata, index
<1>4. content \in Contents
    BY <1>1, EarlyType DEF IInv
<1>5. CASE pc' = "closed" /\ verdict' = verdict
  <2>1. TypeOK' /\ ShapeInv' /\ IndexInv' /\ PassInv' /\ WalkInv'
      BY <1>1, <1>2, <1>3, <1>4, <1>5, EarlyNext DEF Early
  <2>2. FileInv'
      BY <1>1, <1>2, <1>3, <1>5 DEF FileInv, Passes, Third
  <2>3. AcceptsOnlyBackups' /\ RefusesWithReason'
      BY <1>1, <1>5, Undecided
  <2> QED
      BY <2>1, <2>2, <2>3 DEF IInv
<1>6. ASSUME NEW why \in {"container", "failed"}, End(why),
             why = "container" => ~MetadataReadable(container)
      PROVE  IInv'
  <2>1. pc' = "end" /\ verdict' = why
      BY <1>6 DEF End
  <2>2. TypeOK' /\ ShapeInv' /\ IndexInv' /\ PassInv' /\ WalkInv'
      BY <1>1, <1>2, <1>3, <1>4, <2>1, EarlyNext DEF Verdicts
  <2>3. FileInv'
      BY <1>1, <1>3, <2>1 DEF FileInv, Passes, Third
  <2>4. AcceptsOnlyBackups' /\ RefusesWithReason'
      BY <1>3, <1>6, BackupsReadable, Refused
  <2> QED
      BY <2>2, <2>3, <2>4 DEF IInv
<1> QED
    BY <1>5, <1>6 DEF ReadMetadata, Goto

LEMMA AwaitLockStep == IInv /\ AwaitLock => IInv'
<1> SUFFICES ASSUME IInv, AwaitLock PROVE IInv'
    OBVIOUS
<1>1. /\ pc = "closed" /\ pc \in Early /\ verdict = "none" /\ content \in Contents
      /\ meta \in [encrypted : BOOLEAN]
    BY EarlyType DEF AwaitLock, Early, IInv
<1>2. UNCHANGED <<meta, content, headers, at, byName, parents, walk>>
    BY DEF AwaitLock, index
<1>3. container' \in File
    BY ContainersAreFiles DEF AwaitLock, IInv, FileInv
<1>4. \/ pc' = "locked" /\ verdict' = verdict
      \/ pc' = "end" /\ verdict' = "failed"
    BY DEF AwaitLock, Goto, End
<1>5. TypeOK' /\ ShapeInv' /\ IndexInv' /\ PassInv' /\ WalkInv'
    BY <1>1, <1>2, <1>3, <1>4, EarlyNext DEF Early, Verdicts
<1>6. FileInv'
    BY <1>3, <1>4 DEF FileInv, Passes, Third
<1>7. AcceptsOnlyBackups' /\ RefusesWithReason'
    BY <1>1, <1>4 DEF AcceptsOnlyBackups, RefusesWithReason
<1> QED
    BY <1>5, <1>6, <1>7 DEF IInv

LEMMA ExtractDataStep == IInv /\ ExtractData => IInv'
<1> SUFFICES ASSUME IInv, ExtractData PROVE IInv'
    OBVIOUS
<1>1. /\ pc = "locked" /\ pc \in Early /\ verdict = "none"
      /\ meta \in [encrypted : BOOLEAN] /\ container \in File
    BY EarlyType DEF ExtractData, Early, IInv, FileInv
<1>2. /\ UNCHANGED <<container, meta, headers, at, byName, parents, walk>>
      /\ content' = container.content /\ content' \in Contents
    BY <1>1 DEF ExtractData, index, File
<1>3. CASE /\ DataReadable(container) /\ verdict' = verdict
           /\ pc' = (IF meta.encrypted THEN "decrypt" ELSE "read")
  <2>1. pc' \in {"decrypt", "read"} /\ (pc' = "decrypt" <=> meta.encrypted)
      BY <1>3
  <2>2. TypeOK' /\ ShapeInv' /\ IndexInv' /\ PassInv' /\ WalkInv'
      BY <1>1, <1>2, <1>3, <2>1, EarlyNext DEF Early
  <2>3. FileInv'
      BY <1>1, <1>2, <1>3, <2>1 DEF FileInv, Passes, Third
  <2>4. AcceptsOnlyBackups' /\ RefusesWithReason'
      BY <1>1, <1>3, Undecided
  <2> QED
      BY <2>2, <2>3, <2>4 DEF IInv
<1>4. ASSUME NEW why \in {"container", "failed"}, End(why),
             why = "container" => ~DataReadable(container)
      PROVE  IInv'
  <2>1. pc' = "end" /\ verdict' = why
      BY <1>4 DEF End
  <2>2. TypeOK' /\ ShapeInv' /\ IndexInv' /\ PassInv' /\ WalkInv'
      BY <1>1, <1>2, <2>1, EarlyNext DEF Verdicts
  <2>3. FileInv'
      BY <1>1, <1>2, <2>1 DEF FileInv, Passes, Third
  <2>4. AcceptsOnlyBackups' /\ RefusesWithReason'
      BY <1>2, <1>4, BackupsReadable, Refused
  <2> QED
      BY <2>2, <2>3, <2>4 DEF IInv
<1> QED
    BY <1>3, <1>4 DEF ExtractData, Goto

LEMMA DecryptStep == IInv /\ Decrypt => IInv'
<1> SUFFICES ASSUME IInv, Decrypt PROVE IInv'
    OBVIOUS
<1>1. /\ pc = "decrypt" /\ pc \in Early /\ verdict = "none" /\ content \in Contents
      /\ meta \in [encrypted : BOOLEAN] /\ container \in File
      /\ meta.encrypted /\ content = container.content /\ DataReadable(container)
    BY EarlyType DEF Decrypt, Early, IInv, FileInv
<1>2. UNCHANGED <<container, meta, headers, at, byName, parents, walk>>
    BY DEF Decrypt, index
<1>3. CASE content = "gpg" /\ content' = "gzip" /\ pc' = "read" /\ verdict' = verdict
  <2>1. TypeOK' /\ ShapeInv' /\ IndexInv' /\ PassInv' /\ WalkInv'
      BY <1>1, <1>2, <1>3, EarlyNext DEF Early, Contents
  <2>2. FileInv'
      BY <1>1, <1>2, <1>3 DEF FileInv, Passes, Third
  <2>3. AcceptsOnlyBackups' /\ RefusesWithReason'
      BY <1>1, <1>3, Undecided
  <2> QED
      BY <2>1, <2>2, <2>3 DEF IInv
<1>4. ASSUME NEW why \in {"content", "failed"}, End(why), UNCHANGED content,
             why = "content" => content # "gpg"
      PROVE  IInv'
  <2>1. pc' = "end" /\ verdict' = why
      BY <1>4 DEF End
  <2>2. TypeOK' /\ ShapeInv' /\ IndexInv' /\ PassInv' /\ WalkInv'
      BY <1>1, <1>2, <1>4, <2>1, EarlyNext DEF Verdicts
  <2>3. FileInv'
      BY <1>1, <1>2, <2>1 DEF FileInv, Passes, Third
  <2>4. Expected' = "gpg"
      BY <1>1, <1>2 DEF Expected
  <2>5. AcceptsOnlyBackups' /\ RefusesWithReason'
      BY <1>1, <1>2, <1>4, <2>4, Refused
  <2> QED
      BY <2>2, <2>3, <2>5 DEF IInv
<1> QED
    BY <1>3, <1>4 DEF Decrypt, Goto

-----------------------------------------------------------------------------
(* The member list is read.                                                *)

LEMMA ReadMembersStep == IInv /\ ReadMembers => IInv'
<1> SUFFICES ASSUME IInv, ReadMembers PROVE IInv'
    OBVIOUS
<1>1. /\ pc = "read" /\ pc \in Early /\ verdict = "none" /\ content \in Contents
      /\ meta \in [encrypted : BOOLEAN] /\ container \in File /\ DataReadable(container)
      /\ (IF meta.encrypted THEN container.content = "gpg" /\ content = "gzip"
                            ELSE content = container.content)
      /\ TypeOK /\ ShapeInv
      /\ DOMAIN byName = {} /\ parents = {} /\ at = 1 /\ walk = NoWalk /\ walk \in WalkRecs
    BY EarlyType DEF ReadMembers, Early, IInv, FileInv
<1>2. UNCHANGED <<container, meta, content, at, byName, parents, walk>>
    BY DEF ReadMembers
<1>3. ASSUME NEW why \in {"content", "failed"}, End(why), UNCHANGED headers,
             why = "content" => content # "gzip"
      PROVE  IInv'
  <2>1. pc' = "end" /\ verdict' = why
      BY <1>3 DEF End
  <2>2. TypeOK' /\ ShapeInv' /\ IndexInv' /\ PassInv' /\ WalkInv'
      BY <1>1, <1>2, <1>3, <2>1, EarlyNext DEF Verdicts
  <2>3. FileInv'
      BY <1>1, <1>2, <2>1 DEF FileInv, Passes, Third
  <2>4. content # "gzip" => container'.content # Expected'
      BY <1>1, <1>2 DEF Expected
  <2>5. AcceptsOnlyBackups' /\ RefusesWithReason'
      BY <1>3, <2>4, Refused
  <2> QED
      BY <2>2, <2>3, <2>5 DEF IInv
<1>4. ASSUME headers' \in Archives, content = "gzip"
      PROVE  headers' \in Seq(Headers) /\ Len(headers') \in Nat
  <2>1. headers' \in Seq(Headers)
      BY <1>4, ConstantsType
  <2> QED
      BY <2>1
<1>5. ASSUME NEW why \in {"members", "malformed"}, End(why), headers' \in Archives,
             content = "gzip",
             why = "members" => Len(headers') > MaxMembers,
             why = "malformed" => headers' = << >>
      PROVE  IInv'
  <2>1. pc' = "end" /\ verdict' = why
      BY <1>5 DEF End
  <2>2. headers' \in Seq(Headers)
      BY <1>4, <1>5
  <2>3. pc' \in Steps /\ verdict' \in Verdicts /\ (pc' = "end" <=> verdict' # "none")
      BY <2>1 DEF Steps, Verdicts
  <2>4. TypeOK'
      BY <1>1, <1>2, <2>2, <2>3, EarlyTypeNext
  <2>5. FileInv'
      BY <1>1, <1>2, <2>1 DEF FileInv, Passes, Third
  <2>6. ShapeInv'
      BY <1>1, <1>2, <2>1, <2>2 DEF ShapeInv, Early, Passes, Third, Walking
  <2>7. IndexInv' /\ PassInv' /\ WalkInv'
    <3>1. pc' \notin Passes
        BY <2>1 DEF Passes, Third
    <3> QED
        BY <3>1, NotYetPasses
  <2>8. AcceptsOnlyBackups' /\ RefusesWithReason'
    <3>1. headers' = << >> => ~WellFormed(headers)'
        BY DEF WellFormed
    <3> QED
        BY <1>5, <3>1, Refused
  <2> QED
      BY <2>4, <2>5, <2>6, <2>7, <2>8 DEF IInv
<1>6. ASSUME headers' \in Archives, content = "gzip", Len(headers') <= MaxMembers,
             headers' # << >>, pc' = "index", verdict' = verdict
      PROVE  IInv'
  <2>1. headers' \in Seq(Headers) /\ Len(headers') \in 1 .. MaxMembers
    <3>1. headers' \in Seq(Headers) /\ Len(headers') \in Nat
        BY <1>4, <1>6
    <3>2. Len(headers') # 0
        BY <3>1, <1>6, EmptySeq
    <3> QED
        BY <3>1, <3>2, <1>6, ConstantsType
  <2>2. pc' \in Steps /\ verdict' \in Verdicts /\ (pc' = "end" <=> verdict' # "none")
      BY <1>1, <1>6 DEF Steps, Verdicts
  <2>3. TypeOK'
      BY <1>1, <1>2, <2>1, <2>2, EarlyTypeNext
  <2>4. Expected' = container'.content
      BY <1>1, <1>2, <1>6 DEF Expected
  <2>5. FileInv'
      BY <1>1, <1>2, <1>6, <2>4 DEF FileInv
  <2>6. ShapeInv'
      BY <1>1, <1>2, <1>6, <2>1 DEF ShapeInv, Early, Passes, Third, Walking
  <2>7. IndexInv'
    <3>1. at' - 1 = 0 /\ 1 .. 0 = {}
        BY <1>1, <1>2
    <3>2. Listed(0)'
        BY <1>1, <1>2, <3>1 DEF Listed
    <3> QED
        BY <1>6, <3>1, <3>2 DEF IndexInv
  <2>8. PassInv' /\ WalkInv'
      BY <1>6 DEF PassInv, WalkInv, Third, Walking
  <2>9. AcceptsOnlyBackups' /\ RefusesWithReason'
      BY <1>1, <1>6, Undecided
  <2> QED
      BY <2>3, <2>5, <2>6, <2>7, <2>8, <2>9 DEF IInv
<1>7. CASE content # "gzip" /\ End("content") /\ UNCHANGED headers
    BY <1>3, <1>7
<1>8. CASE End("failed") /\ UNCHANGED headers
    BY <1>3, <1>8
<1>9. CASE /\ content = "gzip"
           /\ headers' \in Archives
           /\ IF Len(headers') > MaxMembers THEN End("members")
              ELSE IF headers' = << >> THEN End("malformed") ELSE Goto("index")
  <2>1. CASE Len(headers') > MaxMembers /\ End("members")
      BY <1>5, <1>9, <2>1
  <2>2. CASE headers' = << >> /\ End("malformed")
      BY <1>5, <1>9, <2>2
  <2>3. CASE /\ ~(Len(headers') > MaxMembers) /\ headers' # << >>
             /\ pc' = "index" /\ verdict' = verdict
    <3>1. Len(headers') <= MaxMembers
        BY <1>4, <1>9, <2>3, ConstantsType
    <3> QED
        BY <1>6, <1>9, <2>3, <3>1
  <2> QED
      BY <1>9, <2>1, <2>2, <2>3 DEF Goto
<1> QED
    BY <1>7, <1>8, <1>9 DEF ReadMembers

-----------------------------------------------------------------------------
(* The first two passes.                                                   *)

LEMMA PassFacts ==
    ASSUME IInv, pc \in Passes
    PROVE  /\ verdict = "none" /\ headers \in Seq(Headers)
           /\ Len(headers) \in 1 .. MaxMembers /\ Len(headers) \in Nat
           /\ at \in 1 .. Len(headers) + 1 /\ at \in Nat \ {0}
           /\ walk \in WalkRecs /\ walk.steps <= MaxSteps /\ MaxSteps \in Nat
           /\ container \in File /\ DataReadable(container) /\ container.content = Expected
           /\ meta \in [encrypted : BOOLEAN] /\ content \in Contents
           /\ parents \subseteq DOMAIN byName
<1>1. TypeOK /\ FileInv /\ ShapeInv /\ pc # "end" /\ pc # "metadata"
    BY DEF IInv, Passes, Third
<1>2. verdict = "none" /\ headers \in Seq(Headers) /\ Len(headers) \in 1 .. MaxMembers
      /\ at \in Nat \ {0} /\ at <= Len(headers) + 1 /\ walk \in WalkRecs
    BY <1>1, VerdictNone DEF ShapeInv
<1>3. MaxSteps \in Nat
    BY <1>2, MaxStepsType
<1>4. walk.steps <= MaxSteps
    BY <1>1, <1>3 DEF TypeOK
<1>5. at \in 1 .. Len(headers) + 1
    BY <1>2, ConstantsType
<1>6. meta \in [encrypted : BOOLEAN] /\ content \in Contents /\ parents \subseteq DOMAIN byName
    BY <1>1 DEF TypeOK
<1>7. /\ container \in File /\ DataReadable(container) /\ container.content = Expected
    BY <1>1 DEF FileInv
<1> QED
    BY <1>2, <1>3, <1>4, <1>5, <1>6, <1>7

\* The passes leave the file alone.
LEMMA PassFile ==
    ASSUME IInv, pc \in Passes, UNCHANGED <<container, meta, content>>,
           pc' \in Passes \cup {"end"}
    PROVE  FileInv'
<1>1. FileInv /\ pc # "metadata" /\ pc # "end"
    BY DEF IInv, Passes, Third
<1> QED
    BY <1>1 DEF FileInv, Passes, Third, Expected

LEMMA PassTyped ==
    ASSUME IInv, pc \in Passes, UNCHANGED <<container, meta, content, headers>>,
           pc' \in Passes \cup {"end"}, verdict' \in Verdicts,
           pc' = "end" <=> verdict' # "none",
           at' \in 1 .. Len(headers) + 1,
           \A key \in DOMAIN byName' : key \in Paths /\ byName'[key] \in ToSet(headers),
           parents' \subseteq DOMAIN byName',
           walk' \in WalkRecs, walk'.steps <= MaxSteps
    PROVE  TypeOK'
<1>1. TypeOK /\ MaxSteps \in Nat /\ Len(headers) \in 1 .. MaxMembers
    BY PassFacts DEF IInv
<1>2. MaxSteps' = MaxSteps
    BY DEF MaxSteps
<1>3. at' \in 1 .. MaxMembers + 1
    BY <1>1, ConstantsType
<1>4. pc' \in Steps
    BY DEF Passes, Third, Steps
<1>5. /\ walk'.key \in Paths /\ walk'.pending \in Paths /\ walk'.resolved \in Paths
      /\ walk'.hops \in 0 .. MaxLinkHops /\ walk'.steps \in 0 .. MaxSteps'
    BY <1>1, <1>2 DEF WalkRecs
<1>6. /\ container'.members \in Seq(Outer) /\ container'.content \in Contents
      /\ meta' \in [encrypted : BOOLEAN] /\ content' \in Contents
    BY <1>1 DEF TypeOK
<1> QED
    BY <1>3, <1>4, <1>5, <1>6 DEF TypeOK

\* When the index and the walk stay as they are.
LEMMA PassTypedSame ==
    ASSUME IInv, pc \in Passes, UNCHANGED <<container, meta, content, headers, byName, parents>>,
           pc' \in Passes \cup {"end"}, verdict' \in Verdicts,
           pc' = "end" <=> verdict' # "none",
           at' \in 1 .. Len(headers) + 1,
           walk' \in WalkRecs, walk'.steps <= MaxSteps
    PROVE  TypeOK'
<1>1. TypeOK
    BY DEF IInv
<1>2. /\ \A key \in DOMAIN byName' : key \in Paths /\ byName'[key] \in ToSet(headers)
      /\ parents' \subseteq DOMAIN byName'
    BY <1>1 DEF TypeOK
<1> QED
    BY <1>2, PassTyped

LEMMA TargetStays ==
    ASSUME NEW h, Key(h) \in Paths, Parts(h.target) \in Paths, NoUps(Key(h)),
           h.type = "symlink" => Key(h) # << >>
    PROVE  Stack(IF h.type = "symlink" THEN Front(Key(h)) ELSE << >>, Parts(h.target))
             # Outside
           <=> StaysInside(IF h.type = "symlink" THEN Len(Key(h)) - 1 ELSE 0, Parts(h.target))
<1> DEFINE base == IF h.type = "symlink" THEN Front(Key(h)) ELSE << >>
<1>1. /\ base \in Paths /\ NoUps(base)
      /\ Len(base) = IF h.type = "symlink" THEN Len(Key(h)) - 1 ELSE 0
    BY FrontPath, EmptyPath
<1>2. Stack(base, Parts(h.target)) # Outside <=> StaysInside(Len(base), Parts(h.target))
  <2> HIDE DEF base
  <2> QED
      BY <1>1, StackStays
<1> QED
    BY <1>1, <1>2

LEMMA AllowedIff ==
    ASSUME NEW h \in Headers, Key(h) \in Paths, Parts(h.target) \in Paths
    PROVE  MemberAllowed(h) <=> Sound(h) /\ ~Known(Key(h))
<1>1. ASSUME ".." \notin ToSet(Key(h)), Key(h) = << >> => h.type = "dir", IsLink(h)
      PROVE  TargetAllowed(h) <=>
               /\ h.target.clean /\ ~Absolute(h.target) /\ Parts(h.target) # << >>
               /\ StaysInside(IF h.type = "symlink" THEN Len(Key(h)) - 1 ELSE 0,
                              Parts(h.target))
  <2>1. NoUps(Key(h))
      BY <1>1, NoUpsIff
  <2>2. h.type = "symlink" => Key(h) # << >>
      BY <1>1
  <2>3. Stack(IF h.type = "symlink" THEN Front(Key(h)) ELSE << >>, Parts(h.target))
          # Outside
        <=> StaysInside(IF h.type = "symlink" THEN Len(Key(h)) - 1 ELSE 0, Parts(h.target))
      BY <2>1, <2>2, TargetStays
  <2> QED
      BY <2>3 DEF TargetAllowed
<1>2. ".." \notin ToSet(Parts(h.name)) <=> ".." \notin ToSet(Key(h))
    BY DEF Key
<1> QED
    BY <1>1, <1>2 DEF MemberAllowed, Sound

LEMMA WellFormedSound ==
    ASSUME NEW hs, WellFormed(hs), NEW h \in ToSet(hs)
    PROVE  Sound(h)
BY DEF WellFormed, Sound

\* Inside the first pass nothing but the index counts.
LEMMA FirstPasses ==
    ASSUME pc' \in {"index", "nesting"}
    PROVE  PassInv' /\ WalkInv'
BY DEF PassInv, WalkInv, Third, Walking

LEMMA EndPasses ==
    ASSUME pc' = "end"
    PROVE  IndexInv' /\ PassInv' /\ WalkInv'
BY NotYetPasses DEF Passes, Third

LEMMA EndShape ==
    ASSUME IInv, pc \in Passes, UNCHANGED headers, pc' = "end",
           at' \in 1 .. Len(headers) + 1, walk' \in WalkRecs
    PROVE  ShapeInv'
<1>1. at' \in Nat \ {0} /\ headers' \in Seq(Headers)
    BY PassFacts
<1> QED
    BY <1>1 DEF ShapeInv, Early, Passes, Third, Walking

\* A pass that ends the import, the rest left alone.
LEMMA PassEnd ==
    ASSUME IInv, pc \in Passes, UNCHANGED <<container, meta, content, headers, byName>>,
           NEW why \in {"malformed", "cycle", "hops", "steps"}, End(why),
           parents' = parents, at' \in 1 .. Len(headers) + 1,
           walk' \in WalkRecs, walk'.steps <= MaxSteps,
           why # "steps" => ~WellFormed(headers)
    PROVE  IInv'
<1>1. pc' = "end" /\ verdict' = why
    BY DEF End
<1>2. verdict' \in Verdicts /\ verdict' # "none" /\ why \notin {"accepted", "members",
      "container", "content"}
    BY <1>1 DEF Verdicts
<1>3. TypeOK'
    BY <1>1, <1>2, PassTypedSame
<1>4. FileInv' /\ ShapeInv' /\ IndexInv' /\ PassInv' /\ WalkInv'
    BY <1>1, PassFile, EndShape, EndPasses
<1>5. AcceptsOnlyBackups' /\ RefusesWithReason'
    BY <1>2, Refused
<1> QED
    BY <1>3, <1>4, <1>5 DEF IInv

LEMMA IndexMemberStep == IInv /\ IndexMember => IInv'
<1> SUFFICES ASSUME IInv, IndexMember PROVE IInv'
    OBVIOUS
<1> DEFINE h == headers[at]
<1>1. pc = "index" /\ pc \in Passes /\ at <= Len(headers) /\ at' = at + 1
    BY DEF IndexMember, Passes
<1>2. UNCHANGED <<container, meta, content, headers, parents, walk>>
    BY DEF IndexMember
<1>3. /\ verdict = "none" /\ headers \in Seq(Headers) /\ Len(headers) \in Nat
      /\ at \in 1 .. Len(headers) /\ at \in Nat \ {0} /\ at' \in 1 .. Len(headers) + 1
      /\ walk \in WalkRecs /\ walk.steps <= MaxSteps
  <2>1. /\ verdict = "none" /\ headers \in Seq(Headers) /\ Len(headers) \in Nat
        /\ at \in 1 .. Len(headers) + 1 /\ at \in Nat \ {0}
        /\ walk \in WalkRecs /\ walk.steps <= MaxSteps
      BY <1>1, PassFacts
  <2> QED
      BY <1>1, <2>1
<1>4. Listed(at - 1) /\ parents = {} /\ walk = NoWalk
    BY <1>1 DEF IInv, IndexInv, ShapeInv, Walking
<1>5. /\ h \in Headers /\ h \in ToSet(headers)
      /\ Key(h) \in Paths /\ Parts(h.target) \in Paths
    BY <1>3, HeaderAt
<1>6. MemberAllowed(h) <=> Sound(h) /\ ~Known(Key(h))
    BY <1>5, AllowedIff
<1>7. CASE MemberAllowed(h)
  <2>1. /\ byName' = [k \in DOMAIN byName \cup {Key(h)} |->
                         IF k = Key(h) THEN h ELSE byName[k]]
        /\ pc' = "index" /\ verdict' = verdict
      BY <1>7 DEF IndexMember, Goto
  <2>2. DOMAIN byName' = DOMAIN byName \cup {Key(h)}
      BY <2>1
  <2>10. PICK n \in Nat : n = at
      BY <1>3
  <2>3. Listed(n)'
    <3>1. \A i \in 1 .. at : i \in 1 .. at - 1 \/ i = at
        BY <1>3
    <3>2. 1 .. at - 1 \subseteq 1 .. at /\ at \in 1 .. at /\ 1 .. at = 1 .. at - 1 \cup {at}
        BY <1>3
    <3>3. Key(h) \notin DOMAIN byName /\ Sound(h)
        BY <1>6, <1>7 DEF Known
    <3>4. /\ DOMAIN byName = {Key(headers[i]) : i \in 1 .. at - 1}
          /\ \A i \in 1 .. at - 1 :
                byName[Key(headers[i])] = headers[i] /\ Sound(headers[i])
          /\ \A i, j \in 1 .. at - 1 : Key(headers[i]) = Key(headers[j]) => i = j
        BY <1>4 DEF Listed
    <3>5. DOMAIN byName' = {Key(headers[i]) : i \in 1 .. at}
        BY <2>2, <3>2, <3>4
    <3>6. ASSUME NEW i \in 1 .. at
          PROVE  byName'[Key(headers[i])] = headers[i] /\ Sound(headers[i])
      <4>1. CASE i = at
          BY <2>1, <2>2, <3>3, <4>1
      <4>2. CASE i \in 1 .. at - 1
        <5>1. Key(headers[i]) \in DOMAIN byName /\ Key(headers[i]) # Key(h)
            BY <3>3, <3>4, <4>2
        <5> QED
            BY <2>1, <3>4, <4>2, <5>1
      <4> QED
          BY <3>1, <4>1, <4>2
    <3>7. ASSUME NEW i \in 1 .. at, NEW j \in 1 .. at, Key(headers[i]) = Key(headers[j])
          PROVE  i = j
      <4>1. \A m \in 1 .. at - 1 : Key(headers[m]) # Key(h)
          BY <3>3, <3>4
      <4> QED
          BY <3>1, <3>4, <3>7, <4>1
    <3>8. \A i \in 1 .. at : byName'[Key(headers[i])] = headers[i] /\ Sound(headers[i])
        BY <3>6
    <3>9. \A i, j \in 1 .. at : Key(headers[i]) = Key(headers[j]) => i = j
        BY <3>7
    <3> HIDE DEF h
    <3>10. (DOMAIN byName)' = DOMAIN byName'
        OBVIOUS
    <3> QED
        BY <1>2, <2>10, <3>5, <3>8, <3>9 DEF Listed
  <2>4. IndexInv'
    <3>1. at' - 1 = n
        BY <1>1, <2>10
    <3> QED
        BY <2>1, <2>3, <3>1 DEF IndexInv, Listed
  <2>5. TypeOK'
    <3>1. ASSUME NEW key \in DOMAIN byName'
          PROVE  key \in Paths /\ byName'[key] \in ToSet(headers)
      <4>1. TypeOK
          BY DEF IInv
      <4> QED
          BY <1>5, <2>1, <2>2, <4>1 DEF TypeOK
    <3>2. parents' \subseteq DOMAIN byName'
        BY <1>2, <1>4
    <3>3. pc' \in Passes \cup {"end"} /\ verdict' \in Verdicts
          /\ (pc' = "end" <=> verdict' # "none")
        BY <1>3, <2>1 DEF Passes, Verdicts
    <3> QED
        BY <1>1, <1>2, <1>3, <3>1, <3>2, <3>3, PassTyped
  <2>6. FileInv'
      BY <1>1, <1>2, <2>1, PassFile DEF Passes
  <2>7. ShapeInv'
    <3>1. ShapeInv
        BY DEF IInv
    <3> QED
        BY <1>1, <1>2, <1>3, <1>4, <2>1, <3>1 DEF ShapeInv, Early, Passes, Third, Walking
  <2>8. PassInv' /\ WalkInv'
      BY <2>1, FirstPasses
  <2>9. AcceptsOnlyBackups' /\ RefusesWithReason'
      BY <1>3, <2>1, Undecided
  <2> QED
      BY <2>4, <2>5, <2>6, <2>7, <2>8, <2>9 DEF IInv
<1>8. CASE ~MemberAllowed(h)
  <2>1. byName' = byName /\ End("malformed")
      BY <1>8 DEF IndexMember
  <2>2. ~WellFormed(headers)
    <3>1. SUFFICES ASSUME WellFormed(headers) PROVE FALSE
        OBVIOUS
    <3>2. Sound(h)
        BY <1>5, <3>1, WellFormedSound
    <3>3. Known(Key(h))
        BY <1>6, <1>8, <3>2
    <3>4. PICK i \in 1 .. at - 1 : Key(headers[i]) = Key(h)
        BY <1>4, <3>3 DEF Known, Listed
    <3>5. DOMAIN headers = 1 .. Len(headers)
        BY <1>3, LenProperties
    <3>6. i \in DOMAIN headers /\ at \in DOMAIN headers /\ i # at
        BY <1>3, <3>5
    <3> QED
        BY <3>1, <3>4, <3>6 DEF WellFormed
  <2> QED
      BY <1>1, <1>2, <1>3, <2>1, <2>2, PassEnd
<1> QED
    BY <1>7, <1>8

-----------------------------------------------------------------------------
(* From pass to pass.                                                      *)

LEMMA ListedSame ==
    ASSUME UNCHANGED <<headers, byName>>, Listed(Len(headers)), pc' # "index"
    PROVE  IndexInv'
BY DEF IndexInv, Listed

LEMMA ListedFull ==
    ASSUME IInv, pc \in Passes, pc # "index"
    PROVE  Listed(Len(headers)) /\ headers \in Seq(Headers) /\ Tidy(headers)
BY PassFacts, ListedTidy DEF IInv, IndexInv

LEMMA IndexedStep == IInv /\ Indexed => IInv'
<1> SUFFICES ASSUME IInv, Indexed PROVE IInv'
    OBVIOUS
<1>1. /\ pc = "index" /\ pc \in Passes /\ at > Len(headers) /\ at' = 1
      /\ pc' = "nesting" /\ verdict' = verdict
      /\ UNCHANGED <<container, meta, content, headers, byName, parents, walk>>
    BY DEF Indexed, Passes, Goto, index
<1>2. /\ verdict = "none" /\ at = Len(headers) + 1 /\ Len(headers) \in 1 .. MaxMembers
      /\ at' \in 1 .. Len(headers) + 1 /\ walk \in WalkRecs /\ walk.steps <= MaxSteps
      /\ at - 1 = Len(headers) /\ headers \in Seq(Headers)
  <2>1. /\ verdict = "none" /\ at \in 1 .. Len(headers) + 1 /\ walk \in WalkRecs
        /\ Len(headers) \in 1 .. MaxMembers /\ Len(headers) \in Nat
        /\ walk.steps <= MaxSteps /\ headers \in Seq(Headers)
      BY <1>1, PassFacts
  <2> QED
      BY <1>1, <2>1, ConstantsType
<1>3. Listed(Len(headers)) /\ ShapeInv
    BY <1>1, <1>2 DEF IInv, IndexInv
<1>4. TypeOK'
    BY <1>1, <1>2, PassTypedSame DEF Passes, Verdicts
<1>5. FileInv'
    BY <1>1, PassFile DEF Passes
<1>6. ShapeInv'
    BY <1>1, <1>2, <1>3 DEF ShapeInv, Early, Passes, Third, Walking
<1>7. IndexInv' /\ PassInv' /\ WalkInv'
    BY <1>1, <1>3, ListedSame, FirstPasses
<1>8. AcceptsOnlyBackups' /\ RefusesWithReason'
    BY <1>1, <1>2, Undecided
<1> QED
    BY <1>4, <1>5, <1>6, <1>7, <1>8 DEF IInv

\* A well-formed tree has directories above its members, so no links.
LEMMA WellFormedNesting ==
    ASSUME headers \in Seq(Headers), Listed(Len(headers)), WellFormed(headers),
           NEW key \in DOMAIN byName, NEW above \in Beneath(key)
    PROVE  ~LinkAt(above)
<1>1. PICK i \in 1 .. Len(headers) : key = Key(headers[i])
    BY DEF Listed
<1>2. Led(headers, key)
    BY <1>1, HeaderAt, WellFormedLed
<1>3. PICK n \in 1 .. Len(key) - 1 : above = Upto(key, n)
    BY DEF Beneath, Upto
<1>4. HasDir(headers, above)
    BY <1>2, <1>3 DEF Led
<1>5. ~HasLink(headers, above)
    BY <1>4, ListedTidy, DirNoLink
<1> QED
    BY <1>5, ListedKinds

\* What every later pass keeps while it goes from member to member.
LEMMA PassFrame ==
    ASSUME IInv, pc \in Passes, pc # "index",
           UNCHANGED <<container, meta, content, headers, byName>>,
           pc' \in Passes \ {"index"}, verdict' = verdict
    PROVE  FileInv' /\ IndexInv' /\ AcceptsOnlyBackups' /\ RefusesWithReason'
<1>1. verdict' = "none"
    BY PassFacts
<1> QED
    BY <1>1, PassFile, ListedFull, ListedSame, Undecided

LEMMA CheckNestingStep == IInv /\ CheckNesting => IInv'
<1> SUFFICES ASSUME IInv, CheckNesting PROVE IInv'
    OBVIOUS
<1>1. /\ pc = "nesting" /\ pc \in Passes /\ pc # "index"
      /\ UNCHANGED <<container, meta, content, headers, byName, at, parents, walk>>
    BY DEF CheckNesting, Passes, index
<1>2. /\ verdict = "none" /\ at' \in 1 .. Len(headers) + 1
      /\ walk' \in WalkRecs /\ walk'.steps <= MaxSteps
    BY <1>1, PassFacts
<1>3. Listed(Len(headers)) /\ headers \in Seq(Headers)
    BY <1>1, ListedFull
<1>4. CASE \E key \in DOMAIN byName : \E above \in Beneath(key) : LinkAt(above)
  <2>1. End("malformed")
      BY <1>4 DEF CheckNesting
  <2>2. ~WellFormed(headers)
      BY <1>3, <1>4, WellFormedNesting
  <2> QED
      BY <1>1, <1>2, <2>1, <2>2, PassEnd
<1>5. CASE \A key \in DOMAIN byName : \A above \in Beneath(key) : ~LinkAt(above)
  <2>1. pc' = "required" /\ verdict' = verdict
      BY <1>5 DEF CheckNesting, Goto
  <2>2. FileInv' /\ IndexInv' /\ AcceptsOnlyBackups' /\ RefusesWithReason'
      BY <1>1, <2>1, PassFrame DEF Passes
  <2>3. TypeOK'
      BY <1>1, <1>2, <2>1, PassTypedSame DEF Passes, Verdicts
  <2>4. ShapeInv'
      BY <1>1, <2>1 DEF IInv, ShapeInv, Early, Passes, Third, Walking
  <2>5. PassInv' /\ WalkInv'
      BY <1>1, <1>5, <2>1 DEF PassInv, WalkInv, Third, Walking, LinkAt, Known
  <2> QED
      BY <2>2, <2>3, <2>4, <2>5 DEF IInv
<1> QED
    BY <1>4, <1>5

LEMMA CheckRequiredStep == IInv /\ CheckRequired => IInv'
<1> SUFFICES ASSUME IInv, CheckRequired PROVE IInv'
    OBVIOUS
<1>1. /\ pc = "required" /\ pc \in Passes /\ pc # "index"
      /\ UNCHANGED <<container, meta, content, headers, byName, at, parents, walk>>
    BY DEF CheckRequired, Passes, index
<1>2. /\ verdict = "none" /\ at' \in 1 .. Len(headers) + 1
      /\ walk' \in WalkRecs /\ walk'.steps <= MaxSteps
    BY <1>1, PassFacts
<1>3. Listed(Len(headers)) /\ headers \in Seq(Headers)
    BY <1>1, ListedFull
<1>4. CASE \E key \in ToSet(Required) : ~DirAt(key)
  <2>1. End("malformed")
      BY <1>4 DEF CheckRequired
  <2>2. ~WellFormed(headers)
      BY <1>3, <1>4, ListedKinds DEF WellFormed
  <2> QED
      BY <1>1, <1>2, <2>1, <2>2, PassEnd
<1>5. CASE \A key \in ToSet(Required) : DirAt(key)
  <2>1. pc' = "parent" /\ verdict' = verdict
      BY <1>5 DEF CheckRequired, Goto
  <2>2. FileInv' /\ IndexInv' /\ AcceptsOnlyBackups' /\ RefusesWithReason'
      BY <1>1, <2>1, PassFrame DEF Passes, Third
  <2>3. TypeOK'
      BY <1>1, <1>2, <2>1, PassTypedSame DEF Passes, Third, Verdicts
  <2>4. at = 1 /\ parents = {} /\ ShapeInv
      BY <1>1 DEF IInv, ShapeInv
  <2>5. ShapeInv'
      BY <1>1, <2>1, <2>4 DEF ShapeInv, Early, Passes, Third, Walking
  <2>6. \A key \in ToSet(Required) : HasDir(headers, key)
      BY <1>3, <1>5, ListedKinds
  <2>7. \A key \in DOMAIN byName : \A above \in Beneath(key) : ~LinkAt(above)
      BY <1>1 DEF IInv, PassInv
  <2>8. 1 .. at' - 1 = {}
      BY <1>1, <2>4
  <2>9. PassInv'
      BY <1>1, <2>1, <2>4, <2>6, <2>7, <2>8 DEF PassInv, Third, LinkAt, Known
  <2>10. WalkInv'
      BY <2>1 DEF WalkInv, Walking
  <2> QED
      BY <2>2, <2>3, <2>5, <2>9, <2>10 DEF IInv
<1> QED
    BY <1>4, <1>5

-----------------------------------------------------------------------------
(* The third pass, from member to member.                                  *)

LEMMA ThirdFacts ==
    ASSUME IInv, pc \in Third
    PROVE  /\ pc \in Passes /\ pc # "index"
           /\ Listed(Len(headers)) /\ headers \in Seq(Headers) /\ Tidy(headers)
           /\ \A key \in DOMAIN byName : \A above \in Beneath(key) : ~LinkAt(above)
           /\ \A key \in ToSet(Required) : HasDir(headers, key)
           /\ \A key \in parents : HasDir(headers, key)
           /\ \A i \in 1 .. at - 1 :
                 ParentThere(headers, headers[i]) /\ LinkThere(headers, headers[i])
           /\ verdict = "none" /\ at \in 1 .. Len(headers) + 1 /\ at \in Nat
           /\ Len(headers) \in 1 .. MaxMembers /\ Len(headers) \in Nat
           /\ walk \in WalkRecs /\ walk.steps <= MaxSteps /\ MaxSteps \in Nat
<1>1. pc \in Passes /\ pc # "index"
    BY DEF Passes, Third
<1>2. PassInv
    BY DEF IInv
<1> QED
    BY <1>1, <1>2, PassFacts, ListedFull DEF PassInv

LEMMA ThirdPass ==
    ASSUME IInv, pc \in Third, UNCHANGED <<headers, byName>>, pc' \in Third,
           \A key \in parents' : HasDir(headers, key),
           \A i \in 1 .. at' - 1 :
              ParentThere(headers, headers[i]) /\ LinkThere(headers, headers[i]),
           pc' \in {"link", "linkWalk"} => ParentThere(headers, headers[at']),
           pc' = "parentWalk" =>
              Len(Key(headers[at'])) > 1 /\ walk'.key = Front(Key(headers[at'])),
           pc' = "linkWalk" => IsLink(headers[at']) /\ walk'.key = Key(headers[at'])
    PROVE  PassInv'
<1>1. /\ \A key \in DOMAIN byName : \A above \in Beneath(key) : ~LinkAt(above)
      /\ \A key \in ToSet(Required) : HasDir(headers, key)
    BY ThirdFacts
<1> QED
    BY <1>1 DEF PassInv, LinkAt, Known

\* A step of the third pass that goes on.
LEMMA ThirdNext ==
    ASSUME IInv, pc \in Third, UNCHANGED <<container, meta, content, headers, byName>>,
           pc' \in Third, verdict' = verdict, parents' \subseteq DOMAIN byName,
           at' \in 1 .. Len(headers) + 1, pc' # "parent" => at' <= Len(headers),
           walk' \in WalkRecs, walk'.steps <= MaxSteps,
           pc' \notin {"parentWalk", "linkWalk"} => walk' = NoWalk
    PROVE  /\ TypeOK' /\ FileInv' /\ ShapeInv' /\ IndexInv'
           /\ AcceptsOnlyBackups' /\ RefusesWithReason'
<1>1. /\ pc \in Passes /\ pc # "index" /\ verdict = "none" /\ headers \in Seq(Headers)
      /\ Len(headers) \in 1 .. MaxMembers /\ Len(headers) \in Nat
    BY ThirdFacts
<1>2. pc' \in Passes \ {"index"} /\ pc' # "end" /\ pc' \notin Early
      /\ pc' \notin {"index", "nesting", "required"}
    BY DEF Passes, Third, Early
<1>3. FileInv' /\ IndexInv' /\ AcceptsOnlyBackups' /\ RefusesWithReason'
    BY <1>1, <1>2, PassFrame
<1>4. TypeOK'
  <2>1. \A key \in DOMAIN byName' : key \in Paths /\ byName'[key] \in ToSet(headers)
      BY DEF IInv, TypeOK
  <2>2. verdict' \in Verdicts /\ verdict' = "none"
      BY <1>1 DEF Verdicts
  <2> QED
      BY <1>1, <1>2, <2>1, <2>2, PassTyped
<1>5. ShapeInv'
  <2>1. at' \in Nat \ {0} /\ at' <= Len(headers) + 1
      BY <1>1
  <2> QED
      BY <1>1, <1>2, <2>1 DEF ShapeInv, Third, Walking
<1> QED
    BY <1>3, <1>4, <1>5

LEMMA MemberAt ==
    ASSUME IInv, pc \in Third, at <= Len(headers)
    PROVE  /\ at \in 1 .. Len(headers) /\ at \in 1 .. Len(headers) + 1
           /\ at + 1 \in 1 .. Len(headers) + 1
           /\ headers[at] \in ToSet(headers) /\ headers[at] \in Headers
           /\ Key(headers[at]) \in Paths /\ Key(headers[at]) \in DOMAIN byName
           /\ byName[Key(headers[at])] = headers[at] /\ Sound(headers[at])
           /\ Known(Key(headers[at])) /\ NoUps(Key(headers[at]))
           /\ (LinkAt(Key(headers[at])) <=> IsLink(headers[at]))
<1>1. /\ at \in 1 .. Len(headers) + 1 /\ at \in Nat /\ Len(headers) \in Nat
      /\ headers \in Seq(Headers) /\ Listed(Len(headers))
    BY ThirdFacts
<1>2. at \in 1 .. Len(headers) /\ at + 1 \in 1 .. Len(headers) + 1
    BY <1>1
<1>3. /\ headers[at] \in ToSet(headers) /\ headers[at] \in Headers
      /\ Key(headers[at]) \in Paths
    BY <1>1, <1>2, HeaderAt
<1>4. /\ Key(headers[at]) \in DOMAIN byName /\ byName[Key(headers[at])] = headers[at]
      /\ Sound(headers[at])
    BY <1>1, <1>2 DEF Listed
<1>5. NoUps(Key(headers[at]))
    BY <1>3, <1>4, NoUpsIff DEF Sound
<1> QED
    BY <1>1, <1>2, <1>3, <1>4, <1>5 DEF Known, LinkAt

\* The next member's turn: what has been checked includes this one.
LEMMA CheckedNext ==
    ASSUME IInv, pc \in Third, at <= Len(headers),
           ParentThere(headers, headers[at]), LinkThere(headers, headers[at])
    PROVE  \A i \in 1 .. at + 1 - 1 :
              ParentThere(headers, headers[i]) /\ LinkThere(headers, headers[i])
<1>1. at \in Nat /\ \A i \in 1 .. at - 1 :
         ParentThere(headers, headers[i]) /\ LinkThere(headers, headers[i])
    BY ThirdFacts
<1>2. \A i \in 1 .. at + 1 - 1 : i = at \/ i \in 1 .. at - 1
    BY <1>1
<1> QED
    BY <1>1, <1>2

\* A walk begins at the root with its key before it.
LEMMA WalkFresh ==
    ASSUME NEW hs, NEW k \in Paths, NEW w,
           w \in WalkRecs, w.key = k, w.pending = k, w.resolved = << >>, w.seen = {},
           w.hops = 0
    PROVE  OnTrack(hs, w)
<1>3. Budgeted(w) = MaxLinkHops
    BY ConstantsType DEF Budgeted
<1>4. Now(hs, w) = W(hs, << >>, k, MaxLinkHops)
    BY <1>3 DEF Now
<1>5. Same(W(hs, << >>, w.key, MaxLinkHops), Now(hs, w))
    BY <1>4 DEF Same
<1>6. NoUps(w.resolved) /\ Steady(hs, w.resolved) /\ w.seen = {}
    BY EmptyPath, SteadyEmpty
<1> QED
    BY <1>5, <1>6 DEF OnTrack

LEMMA CheckMemberStep == IInv /\ CheckMember => IInv'
<1> SUFFICES ASSUME IInv, CheckMember PROVE IInv'
    OBVIOUS
<1> DEFINE h == headers[at]
<1>1. /\ pc = "parent" /\ pc \in Third /\ at <= Len(headers)
      /\ UNCHANGED <<container, meta, content, headers, byName, parents>>
    BY DEF CheckMember, Third, index
<1>2. /\ at \in 1 .. Len(headers) /\ at \in 1 .. Len(headers) + 1
      /\ at + 1 \in 1 .. Len(headers) + 1 /\ Key(h) \in Paths /\ Sound(h)
    BY <1>1, MemberAt
<1>3. /\ \A key \in parents : HasDir(headers, key)
      /\ \A i \in 1 .. at - 1 :
            ParentThere(headers, headers[i]) /\ LinkThere(headers, headers[i])
      /\ walk = NoWalk /\ walk \in WalkRecs /\ walk.steps <= MaxSteps /\ MaxSteps \in Nat
      /\ parents \subseteq DOMAIN byName
  <2>1. walk = NoWalk /\ parents \subseteq DOMAIN byName
      BY <1>1 DEF IInv, ShapeInv, TypeOK, Walking
  <2> QED
      BY <1>1, <2>1, ThirdFacts
<1>4. CASE Key(h) = << >>
  <2>1. pc' = "parent" /\ verdict' = verdict /\ at' = at + 1 /\ walk' = walk
      BY <1>4 DEF CheckMember, Goto
  <2>2. /\ TypeOK' /\ FileInv' /\ ShapeInv' /\ IndexInv'
        /\ AcceptsOnlyBackups' /\ RefusesWithReason'
      BY <1>1, <1>2, <1>3, <2>1, ThirdNext
  <2>3. ParentThere(headers, h) /\ LinkThere(headers, h)
    <3>1. Len(Key(h)) = 0 /\ h.type = "dir"
        BY <1>2, <1>4, EmptyPath DEF Sound
    <3> QED
        BY <3>1 DEF ParentThere, LinkThere, IsLink
  <2>4. \A i \in 1 .. at' - 1 :
           ParentThere(headers, headers[i]) /\ LinkThere(headers, headers[i])
    <3>1. \A i \in 1 .. at + 1 - 1 :
             ParentThere(headers, headers[i]) /\ LinkThere(headers, headers[i])
        BY <1>1, <2>3, CheckedNext
    <3>2. at \in Nat
        BY <1>1, ThirdFacts
    <3>4. at' - 1 = at + 1 - 1
        BY <2>1, <3>2
    <3> HIDE DEF h
    <3> QED
        BY <1>1, <3>1, <3>4
  <2>5. PassInv'
      BY <1>1, <1>3, <2>1, <2>4, ThirdPass
  <2>6. WalkInv'
      BY <2>1 DEF WalkInv, Walking
  <2> QED
      BY <2>2, <2>5, <2>6 DEF IInv
<1>5. CASE Key(h) # << >> /\ Len(Key(h)) > 1 /\ Front(Key(h)) \notin parents
  <2>1. /\ pc' = "parentWalk" /\ verdict' = verdict /\ at' = at
        /\ walk' = [NoWalk EXCEPT !.key = Front(Key(h)), !.pending = Front(Key(h))]
      BY <1>5 DEF CheckMember, Goto
  <2>2. Front(Key(h)) \in Paths
      BY <1>2, <1>5, FrontPath
  <2>3. /\ walk' \in WalkRecs /\ walk'.key = Front(Key(h)) /\ walk'.steps = 0
        /\ OnTrack(headers, walk')
    <3> HIDE DEF h
    <3>1. PICK r, s, n : r = << >> /\ s = {} /\ n = 0
        OBVIOUS
    <3>2. walk' = [key |-> Front(Key(h)), pending |-> Front(Key(h)), resolved |-> r,
                   seen |-> s, steps |-> n, hops |-> n]
        BY <2>1, <3>1 DEF NoWalk
    <3>3. /\ walk'.key = Front(Key(h)) /\ walk'.pending = Front(Key(h)) /\ walk'.resolved = r
          /\ walk'.seen = s /\ walk'.steps = n /\ walk'.hops = n
        BY <3>2
    <3>4. walk' \in WalkRecs
      <4>1. r \in Paths /\ s \in SUBSET (Paths \X Paths) /\ n \in Nat
            /\ n \in 0 .. MaxLinkHops
          BY <3>1, EmptyPath, ConstantsType
      <4> QED
          BY <2>2, <3>2, <4>1 DEF WalkRecs
    <3> QED
        BY <2>2, <3>1, <3>3, <3>4, WalkFresh
  <2>4. /\ TypeOK' /\ FileInv' /\ ShapeInv' /\ IndexInv'
        /\ AcceptsOnlyBackups' /\ RefusesWithReason'
      BY <1>1, <1>2, <1>3, <2>1, <2>3, ThirdNext DEF Third
  <2>5. PassInv'
      BY <1>1, <1>3, <1>5, <2>1, <2>3, ThirdPass DEF Third
  <2>6. WalkInv'
      BY <1>1, <2>3 DEF WalkInv
  <2> QED
      BY <2>4, <2>5, <2>6 DEF IInv
<1>6. CASE Key(h) # << >> /\ ~(Len(Key(h)) > 1 /\ Front(Key(h)) \notin parents)
  <2>1. pc' = "link" /\ verdict' = verdict /\ at' = at /\ walk' = walk
      BY <1>6 DEF CheckMember, Goto
  <2>2. /\ TypeOK' /\ FileInv' /\ ShapeInv' /\ IndexInv'
        /\ AcceptsOnlyBackups' /\ RefusesWithReason'
      BY <1>1, <1>2, <1>3, <2>1, ThirdNext DEF Third
  <2>3. ParentThere(headers, h)
      BY <1>3, <1>6 DEF ParentThere
  <2>4. PassInv'
      BY <1>1, <1>3, <2>1, <2>3, ThirdPass DEF Third
  <2>5. WalkInv'
      BY <2>1 DEF WalkInv, Walking
  <2> QED
      BY <2>2, <2>4, <2>5 DEF IInv
<1> QED
    BY <1>4, <1>5, <1>6

LEMMA CheckLinkStep == IInv /\ CheckLink => IInv'
<1> SUFFICES ASSUME IInv, CheckLink PROVE IInv'
    OBVIOUS
<1> DEFINE h == headers[at]
<1>1. /\ pc = "link" /\ pc \in Third /\ at <= Len(headers)
      /\ UNCHANGED <<container, meta, content, headers, byName, parents>>
    BY DEF CheckLink, Third, index, IInv, ShapeInv
<1>2. /\ at \in 1 .. Len(headers) /\ at \in 1 .. Len(headers) + 1
      /\ at + 1 \in 1 .. Len(headers) + 1 /\ Key(h) \in Paths /\ Sound(h)
      /\ (LinkAt(Key(h)) <=> IsLink(h))
    BY <1>1, MemberAt
<1>3. /\ \A key \in parents : HasDir(headers, key)
      /\ \A i \in 1 .. at - 1 :
            ParentThere(headers, headers[i]) /\ LinkThere(headers, headers[i])
      /\ walk = NoWalk /\ walk \in WalkRecs /\ walk.steps <= MaxSteps /\ MaxSteps \in Nat
      /\ parents \subseteq DOMAIN byName /\ ParentThere(headers, h)
  <2>1. /\ walk = NoWalk /\ parents \subseteq DOMAIN byName /\ ParentThere(headers, h)
      BY <1>1 DEF IInv, ShapeInv, TypeOK, PassInv, Walking
  <2> QED
      BY <1>1, <2>1, ThirdFacts
<1>4. CASE LinkAt(Key(h))
  <2>1. /\ pc' = "linkWalk" /\ verdict' = verdict /\ at' = at
        /\ walk' = [NoWalk EXCEPT !.key = Key(h), !.pending = Key(h)]
      BY <1>4 DEF CheckLink, Goto
  <2>2. /\ walk' \in WalkRecs /\ walk'.key = Key(h) /\ walk'.steps = 0
        /\ OnTrack(headers, walk')
    <3> HIDE DEF h
    <3>1. PICK r, s, n : r = << >> /\ s = {} /\ n = 0
        OBVIOUS
    <3>2. walk' = [key |-> Key(h), pending |-> Key(h), resolved |-> r,
                   seen |-> s, steps |-> n, hops |-> n]
        BY <2>1, <3>1 DEF NoWalk
    <3>3. /\ walk'.key = Key(h) /\ walk'.pending = Key(h) /\ walk'.resolved = r
          /\ walk'.seen = s /\ walk'.steps = n /\ walk'.hops = n
        BY <3>2
    <3>4. walk' \in WalkRecs
      <4>1. r \in Paths /\ s \in SUBSET (Paths \X Paths) /\ n \in Nat
            /\ n \in 0 .. MaxLinkHops
          BY <3>1, EmptyPath, ConstantsType
      <4> QED
          BY <1>2, <3>2, <4>1 DEF WalkRecs
    <3> QED
        BY <1>2, <3>1, <3>3, <3>4, WalkFresh
  <2>3. /\ TypeOK' /\ FileInv' /\ ShapeInv' /\ IndexInv'
        /\ AcceptsOnlyBackups' /\ RefusesWithReason'
      BY <1>1, <1>2, <1>3, <2>1, <2>2, ThirdNext DEF Third
  <2>4. PassInv'
      BY <1>1, <1>2, <1>3, <1>4, <2>1, <2>2, ThirdPass DEF Third
  <2>5. WalkInv'
      BY <1>1, <2>2 DEF WalkInv
  <2> QED
      BY <2>3, <2>4, <2>5 DEF IInv
<1>5. CASE ~LinkAt(Key(h))
  <2>1. pc' = "parent" /\ verdict' = verdict /\ at' = at + 1 /\ walk' = walk
      BY <1>5 DEF CheckLink, Goto
  <2>2. /\ TypeOK' /\ FileInv' /\ ShapeInv' /\ IndexInv'
        /\ AcceptsOnlyBackups' /\ RefusesWithReason'
      BY <1>1, <1>2, <1>3, <2>1, ThirdNext DEF Third
  <2>3. LinkThere(headers, h)
      BY <1>2, <1>5 DEF LinkThere
  <2>4. \A i \in 1 .. at' - 1 :
           ParentThere(headers, headers[i]) /\ LinkThere(headers, headers[i])
    <3>1. \A i \in 1 .. at + 1 - 1 :
             ParentThere(headers, headers[i]) /\ LinkThere(headers, headers[i])
        BY <1>1, <1>3, <2>3, CheckedNext
    <3>2. at \in Nat
        BY <1>1, ThirdFacts
    <3>4. at' - 1 = at + 1 - 1
        BY <2>1, <3>2
    <3> HIDE DEF h
    <3> QED
        BY <1>1, <3>1, <3>4
  <2>5. PassInv'
      BY <1>1, <1>3, <2>1, <2>4, ThirdPass DEF Third
  <2>6. WalkInv'
      BY <2>1 DEF WalkInv, Walking
  <2> QED
      BY <2>2, <2>5, <2>6 DEF IInv
<1> QED
    BY <1>4, <1>5

-----------------------------------------------------------------------------
(* One step of a walk.                                                     *)

LEMMA Counted ==
    ASSUME NEW w \in WalkRecs, NEW v,
           v = [w EXCEPT !.steps = @ + 1, !.seen = @ \cup {<<w.resolved, w.pending>>}]
    PROVE  /\ v \in WalkRecs /\ v.pending = w.pending /\ v.resolved = w.resolved
           /\ v.hops = w.hops /\ v.key = w.key /\ v.steps = w.steps + 1
           /\ v.seen = w.seen \cup {<<w.resolved, w.pending>>}
<1>1. PICK s, n : s = w.seen \cup {<<w.resolved, w.pending>>} /\ n = w.steps + 1
    OBVIOUS
<1>2. s \in SUBSET (Paths \X Paths) /\ n \in Nat
    BY <1>1 DEF WalkRecs
<1>3. v = [w EXCEPT !.steps = n, !.seen = s]
    BY <1>1
<1>4. /\ v \in WalkRecs /\ v.pending = w.pending /\ v.resolved = w.resolved
      /\ v.hops = w.hops /\ v.key = w.key /\ v.steps = n /\ v.seen = s
    BY <1>2, <1>3 DEF WalkRecs
<1> QED
    BY <1>1, <1>4

LEMMA StepsUp ==
    ASSUME NEW w, Head(w.pending) = ".."
    PROVE  /\ w.resolved # << >> =>
                /\ Step(w).why = "none"
                /\ Step(w).to = [w EXCEPT !.pending = Tail(w.pending),
                                          !.resolved = Front(w.resolved), !.hops = w.hops]
           /\ w.resolved = << >> => Step(w).why = "malformed"
BY DEF Step

LEMMA StepsLink ==
    ASSUME NEW w, Head(w.pending) # "..", NEW here, here = Here(w.resolved, w.pending),
           LinkAt(here)
    PROVE  /\ HopsLeft(w) =>
                /\ Step(w).why = "none"
                /\ Step(w).to =
                     [w EXCEPT !.pending = Base(w, byName[here]) \o Parts(byName[here].target)
                                             \o Tail(w.pending),
                               !.resolved = << >>, !.hops = w.hops + 1]
           /\ ~HopsLeft(w) => Step(w).why = "hops"
BY DEF Step, Here

LEMMA StepsName ==
    ASSUME NEW w, Head(w.pending) # "..", NEW here, here = Here(w.resolved, w.pending),
           ~LinkAt(here)
    PROVE  /\ Tail(w.pending) = << >> \/ DirAt(here) =>
                /\ Step(w).why = "none"
                /\ Step(w).to = [w EXCEPT !.pending = Tail(w.pending), !.resolved = here,
                                          !.hops = w.hops]
           /\ ~(Tail(w.pending) = << >> \/ DirAt(here)) => Step(w).why = "malformed"
BY DEF Step, Here

\* The walk goes on: it comes out where it did, with less left to walk.
LEMMA OnTrackNext ==
    ASSUME NEW hs, NEW w \in WalkRecs, OnTrack(hs, w), NEW v \in WalkRecs,
           v.key = w.key, v.seen = w.seen \cup {<<w.resolved, w.pending>>},
           NoUps(v.resolved), v.pending # << >> => Steady(hs, v.resolved),
           Same(Now(hs, w), Now(hs, v)),
           w.hops < v.hops \/ (v.hops = w.hops /\ Len(v.pending) < Len(w.pending))
    PROVE  OnTrack(hs, v)
<1>1. /\ w.hops \in 0 .. MaxLinkHops /\ v.hops \in 0 .. MaxLinkHops /\ MaxLinkHops \in Nat
      /\ Len(v.pending) \in Nat /\ Len(w.pending) \in Nat
    BY ConstantsType DEF WalkRecs, Paths
<1>2. /\ Budgeted(w) \in 0 .. MaxLinkHops /\ Budgeted(v) \in 0 .. MaxLinkHops
      /\ Budgeted(w) > Budgeted(v)
         \/ (Budgeted(w) = Budgeted(v) /\ Len(v.pending) < Len(w.pending))
    BY <1>1 DEF Budgeted
<1>3. Same(W(hs, << >>, v.key, MaxLinkHops), Now(hs, v))
    BY SameSame DEF OnTrack
<1>4. ASSUME NEW s \in w.seen
      PROVE  Seen(hs, v, s)
  <2>1. PICK c \in 0 .. MaxLinkHops :
           /\ c > Budgeted(w) \/ (c = Budgeted(w) /\ Len(s[2]) > Len(w.pending))
           /\ Same(W(hs, s[1], s[2], c), Now(hs, w))
      BY DEF OnTrack, Seen
  <2>2. Same(W(hs, s[1], s[2], c), Now(hs, v))
      BY <2>1, SameSame
  <2>3. s[2] \in Paths /\ Len(s[2]) \in Nat
      BY DEF WalkRecs, Paths
  <2>4. c > Budgeted(v) \/ (c = Budgeted(v) /\ Len(s[2]) > Len(v.pending))
      BY <1>1, <1>2, <2>1, <2>3
  <2> QED
      BY <2>2, <2>4 DEF Seen
<1>5. Seen(hs, v, <<w.resolved, w.pending>>)
  <2>1. Same(W(hs, w.resolved, w.pending, Budgeted(w)), Now(hs, v))
      BY DEF Now
  <2>2. \/ Budgeted(w) > Budgeted(v)
        \/ (Budgeted(w) = Budgeted(v) /\ Len(w.pending) > Len(v.pending))
      BY <1>1, <1>2
  <2> QED
      BY <1>2, <2>1, <2>2 DEF Seen
<1> QED
    BY <1>3, <1>4, <1>5 DEF OnTrack

LEMMA Astray ==
    ASSUME NEW hs, NEW w, OnTrack(hs, w), Now(hs, w).key = Outside
    PROVE  W(hs, << >>, w.key, MaxLinkHops).key = Outside
BY DEF OnTrack, Same

\* A walk that comes to a place a second time never ends.
LEMMA SeenTwice ==
    ASSUME NEW hs \in Seq(Headers), NEW w \in WalkRecs, OnTrack(hs, w),
           <<w.resolved, w.pending>> \in w.seen
    PROVE  Now(hs, w).key = Outside
<1>1. /\ w.hops \in 0 .. MaxLinkHops /\ MaxLinkHops \in Nat /\ Len(w.pending) \in Nat
      /\ w.pending \in Paths /\ w.resolved \in Paths
    BY ConstantsType DEF WalkRecs, Paths
<1>2. Budgeted(w) \in Nat
    BY <1>1 DEF Budgeted
<1>3. Seen(hs, w, <<w.resolved, w.pending>>)
    BY DEF OnTrack
<1>4. PICK c \in 0 .. MaxLinkHops :
         /\ c > Budgeted(w) \/ (c = Budgeted(w) /\ Len(w.pending) > Len(w.pending))
         /\ Same(W(hs, w.resolved, w.pending, c), Now(hs, w))
    BY <1>3 DEF Seen
<1>5. c \in Nat /\ Budgeted(w) < c
    BY <1>1, <1>2, <1>4
<1> QED
    BY <1>1, <1>2, <1>4, <1>5, Repeats DEF Now

\* What a walk that leads nowhere says of the archive.
LEMMA LeadsNowhere ==
    ASSUME IInv, Walking, W(headers, << >>, walk.key, MaxLinkHops).key = Outside
    PROVE  ~WellFormed(headers)
<1>1. pc \in Third /\ PassInv /\ at <= Len(headers)
    BY DEF Walking, Third, IInv, ShapeInv
<1>2. /\ at \in 1 .. Len(headers) /\ headers[at] \in ToSet(headers)
      /\ headers \in Seq(Headers) /\ Tidy(headers) /\ Listed(Len(headers))
    BY <1>1, MemberAt, ThirdFacts
<1>3. SUFFICES ASSUME WellFormed(headers) PROVE FALSE
    OBVIOUS
<1>4. CASE pc = "parentWalk"
  <2>1. Steady(headers, walk.key)
      BY <1>1, <1>2, <1>3, <1>4, WellFormedParent DEF PassInv
  <2>2. W(headers, << >>, walk.key, MaxLinkHops).key = walk.key
      BY <1>2, <2>1, SteadyWalk, ConstantsType
  <2> QED
      BY <2>1, <2>2, SteadyPath
<1>5. CASE pc = "linkWalk"
  <2>1. IsLink(headers[at]) /\ walk.key = Key(headers[at])
      BY <1>1, <1>5 DEF PassInv
  <2>2. Reached(headers, walk.key) = Member(headers, Outside)
      BY DEF Reached, W
  <2>3. Reached(headers, walk.key) # {}
      BY <1>2, <1>3, <2>1 DEF WellFormed
  <2>4. Known(Outside)
      BY <1>2, <2>2, <2>3, ListedMember
  <2>5. PICK i \in 1 .. Len(headers) : Key(headers[i]) = Outside
      BY <1>2, <2>4 DEF Known, Listed
  <2> QED
      BY <1>2, <1>3, <2>5, HeaderAt, WellFormedLed, LedInside
<1> QED
    BY <1>4, <1>5 DEF Walking

LEMMA WalkFacts ==
    ASSUME IInv, Walking, walk.pending # << >>
    PROVE  /\ pc \in Third /\ pc \in Passes /\ headers \in Seq(Headers) /\ Tidy(headers)
           /\ Listed(Len(headers)) /\ OnTrack(headers, walk) /\ walk \in WalkRecs
           /\ Steady(headers, walk.resolved)
           /\ walk.resolved \in Paths /\ walk.resolved # Outside /\ NoUps(walk.resolved)
           /\ walk.pending \in Paths /\ Tail(walk.pending) \in Paths
           /\ Len(walk.pending) \in Nat /\ Len(Tail(walk.pending)) < Len(walk.pending)
           /\ walk.steps \in Nat /\ walk.hops \in 0 .. MaxLinkHops /\ MaxLinkHops \in Nat
           /\ Budgeted(walk) \in Nat
           /\ at \in 1 .. Len(headers) + 1 /\ at <= Len(headers)
           /\ walk.steps <= MaxSteps /\ MaxSteps \in Nat /\ verdict = "none"
<1>1. pc \in Third /\ pc \in Passes /\ at <= Len(headers)
    BY DEF Walking, Third, Passes, IInv, ShapeInv
<1>2. /\ headers \in Seq(Headers) /\ Tidy(headers) /\ Listed(Len(headers))
      /\ at \in 1 .. Len(headers) + 1 /\ verdict = "none"
      /\ walk \in WalkRecs /\ walk.steps <= MaxSteps /\ MaxSteps \in Nat
    BY <1>1, ThirdFacts
<1>3. OnTrack(headers, walk)
    BY DEF IInv, WalkInv
<1>4. Steady(headers, walk.resolved)
    BY <1>3 DEF OnTrack
<1>5. /\ walk.pending \in Paths /\ walk.steps \in Nat /\ walk.hops \in 0 .. MaxLinkHops
      /\ MaxLinkHops \in Nat
    BY <1>2, ConstantsType DEF WalkRecs
<1>6. Budgeted(walk) \in Nat
    BY <1>5 DEF Budgeted
<1>7. /\ Tail(walk.pending) \in Paths /\ Len(walk.pending) \in Nat
      /\ Len(Tail(walk.pending)) < Len(walk.pending)
    BY <1>5, HeadTailPath
<1> QED
    BY <1>1, <1>2, <1>3, <1>4, <1>5, <1>6, <1>7, SteadyPath

LEMMA StepRight ==
    ASSUME IInv, Walking, walk.pending # << >>,
           NEW w \in WalkRecs, w.resolved = walk.resolved, w.pending = walk.pending,
           w.hops = walk.hops, w.key = walk.key, w.steps = walk.steps + 1,
           w.seen = walk.seen \cup {<<walk.resolved, walk.pending>>}
    PROVE  /\ Step(w).why = "none" =>
                /\ Step(w).to \in WalkRecs /\ Step(w).to.key = walk.key
                /\ Step(w).to.steps = walk.steps + 1
                /\ OnTrack(headers, Step(w).to)
           /\ Step(w).why # "none" =>
                Step(w).why \in {"malformed", "hops"} /\ Now(headers, walk).key = Outside
<1> DEFINE r == walk.resolved
           p == walk.pending
           b == Budgeted(walk)
           here == Here(r, p)
           v == Step(w).to
<1>1. /\ headers \in Seq(Headers) /\ Tidy(headers) /\ Listed(Len(headers))
      /\ OnTrack(headers, walk) /\ walk \in WalkRecs /\ Steady(headers, r)
      /\ r \in Paths /\ r # Outside /\ NoUps(r) /\ p \in Paths /\ p # << >>
      /\ Tail(p) \in Paths /\ Len(p) \in Nat /\ Len(Tail(p)) < Len(p) /\ b \in Nat
      /\ walk.hops \in 0 .. MaxLinkHops /\ MaxLinkHops \in Nat
      /\ w.hops \in 0 .. MaxLinkHops
    BY WalkFacts
<1>2. b = MaxLinkHops - walk.hops /\ Now(headers, walk) = W(headers, r, p, b)
    BY DEF Now, Budgeted
\* A step that goes on is right if it comes out where it did.
<1>3. ASSUME NEW q \in Paths, NEW k \in Paths, NEW n \in 0 .. MaxLinkHops,
             v = [w EXCEPT !.pending = q, !.resolved = k, !.hops = n],
             NoUps(k), q # << >> => Steady(headers, k),
             Same(W(headers, r, p, b), W(headers, k, q, MaxLinkHops - n)),
             walk.hops < n \/ (n = walk.hops /\ Len(q) < Len(p))
      PROVE  v \in WalkRecs /\ v.key = walk.key /\ v.steps = walk.steps + 1
             /\ OnTrack(headers, v)
  <2>1. /\ v \in WalkRecs /\ v.pending = q /\ v.resolved = k /\ v.hops = n
        /\ v.key = walk.key /\ v.steps = walk.steps + 1
        /\ v.seen = walk.seen \cup {<<walk.resolved, walk.pending>>}
    <3>1. /\ v \in WalkRecs /\ v.pending = q /\ v.resolved = k /\ v.hops = n
          /\ v.key = w.key /\ v.steps = w.steps /\ v.seen = w.seen
      <4> HIDE DEF v, r, p, b
      <4> QED
          BY <1>3 DEF WalkRecs
    <3> QED
        BY <3>1
  <2>2. Same(Now(headers, walk), Now(headers, v))
    <3> HIDE DEF v
    <3> QED
        BY <1>2, <1>3, <2>1 DEF Now, Budgeted
  <2>3. OnTrack(headers, v)
    <3> HIDE DEF v
    <3> QED
        BY <1>1, <1>3, <2>1, <2>2, OnTrackNext
  <2> QED
      BY <2>1, <2>3
<1>4. LinkAt(here) <=> HasLink(headers, here)
    BY <1>1, ListedKinds
<1>5. DirAt(here) <=> HasDir(headers, here)
    BY <1>1, ListedKinds
<1>9. /\ here = Here(w.resolved, w.pending) /\ Head(w.pending) = Head(p)
      /\ Tail(w.pending) = Tail(p)
    OBVIOUS
<1>6. CASE Head(p) = ".."
  <2>1. W(headers, r, p, b) =
          IF r = << >> THEN Lost(b) ELSE W(headers, Front(r), Tail(p), b)
    <3> HIDE DEF r, p, b
    <3> QED
        BY <1>1, <1>6, WalkUp
  <2>2. CASE r = << >>
    <3>1. Step(w).why = "malformed"
        BY <1>6, <2>2, StepsUp
    <3>2. Now(headers, walk).key = Outside
        BY <1>2, <2>1, <2>2, LostKey
    <3> QED
        BY <3>1, <3>2
  <2>3. CASE r # << >>
    <3>1. /\ Step(w).why = "none"
          /\ v = [w EXCEPT !.pending = Tail(p), !.resolved = Front(r), !.hops = walk.hops]
        BY <1>6, <2>3, StepsUp
    <3>2. Front(r) \in Paths /\ NoUps(Front(r)) /\ Steady(headers, Front(r))
      <4> HIDE DEF r
      <4> QED
          BY <1>1, <2>3, FrontPath, SteadyFront
    <3>3. Same(W(headers, r, p, b), W(headers, Front(r), Tail(p), MaxLinkHops - walk.hops))
        BY <1>2, <2>1, <2>3, SameSame
    <3>4. v \in WalkRecs /\ v.key = walk.key /\ v.steps = walk.steps + 1
          /\ OnTrack(headers, v)
      <4> HIDE DEF v, r, p, b
      <4> QED
          BY <1>1, <1>3, <3>1, <3>2, <3>3
    <3> QED
        BY <3>1, <3>4
  <2> QED
      BY <2>2, <2>3
<1>7. CASE Head(p) # ".." /\ ~LinkAt(here)
  <2>1. /\ Led(headers, here) /\ here # << >> /\ here # Outside
        /\ HasDir(headers, here) => Steady(headers, here)
    <3> HIDE DEF r, p
    <3> QED
        BY <1>1, <1>7, HereLed
  <2>2. W(headers, r, p, b) =
          IF Open(headers, p, here) THEN W(headers, here, Tail(p), b) ELSE Lost(b)
    <3> HIDE DEF r, p, b
    <3> QED
        BY <1>1, <1>4, <1>7, WalkName
  <2>3. Open(headers, p, here) <=> Tail(p) = << >> \/ DirAt(here)
      BY <1>5, <2>1 DEF Open
  <2>4. CASE Tail(p) = << >> \/ DirAt(here)
    <3>1. /\ Step(w).why = "none"
          /\ v = [w EXCEPT !.pending = Tail(p), !.resolved = here, !.hops = walk.hops]
        BY <1>7, <2>4, StepsName
    <3>2. /\ here \in Paths /\ NoUps(here)
          /\ Tail(p) # << >> => Steady(headers, here)
        BY <1>5, <2>1, <2>4 DEF Led
    <3>3. Same(W(headers, r, p, b), W(headers, here, Tail(p), MaxLinkHops - walk.hops))
        BY <1>2, <2>2, <2>3, <2>4, SameSame
    <3>4. v \in WalkRecs /\ v.key = walk.key /\ v.steps = walk.steps + 1
          /\ OnTrack(headers, v)
      <4> HIDE DEF v, r, p, b, here
      <4> QED
          BY <1>1, <1>3, <3>1, <3>2, <3>3
    <3> QED
        BY <3>1, <3>4
  <2>5. CASE ~(Tail(p) = << >> \/ DirAt(here))
    <3>1. Step(w).why = "malformed"
      <4> HIDE DEF here, p
      <4> QED
          BY <1>7, <1>9, <2>5, StepsName
    <3>2. Now(headers, walk).key = Outside
        BY <1>2, <2>2, <2>3, <2>5, LostKey
    <3> QED
        BY <3>1, <3>2
  <2> QED
      BY <2>4, <2>5
<1>8. CASE Head(p) # ".." /\ LinkAt(here)
  <2>1. byName[here] = TheLink(headers, here) /\ HasLink(headers, here)
      BY <1>1, <1>4, <1>8, ListedKinds
  <2>2. HopsLeft(w) <=> b # 0
      BY <1>1, <1>2 DEF HopsLeft
  <2>3. CASE b = 0
    <3>1. Step(w).why = "hops"
        BY <1>8, <2>2, <2>3, StepsLink
    <3>2. W(headers, r, p, b) = Lost(b)
      <4> HIDE DEF r, p, b, here
      <4> QED
          BY <1>1, <1>8, <2>1, <2>3, WalkLink DEF here
    <3>3. Now(headers, walk).key = Outside
        BY <1>2, <3>2, LostKey
    <3> QED
        BY <3>1, <3>3
  <2>4. CASE b # 0
    <3> DEFINE l == byName[here]
               q == From(l, r) \o Parts(l.target) \o Tail(p)
    <3>1. Base(w, l) = From(l, r)
        BY DEF Base, From
    <3>2. /\ Step(w).why = "none"
          /\ v = [w EXCEPT !.pending = q, !.resolved = << >>, !.hops = walk.hops + 1]
      <4>1. /\ Step(w).why = "none"
            /\ v = [w EXCEPT !.pending = Base(w, l) \o Parts(l.target) \o Tail(p),
                             !.resolved = << >>, !.hops = walk.hops + 1]
        <5>1. /\ Step(w).why = "none"
              /\ Step(w).to =
                   [w EXCEPT !.pending = Base(w, byName[here]) \o Parts(byName[here].target)
                                           \o Tail(w.pending),
                             !.resolved = << >>, !.hops = w.hops + 1]
          <6> HIDE DEF here, p, b, r
          <6> QED
              BY <1>8, <1>9, <2>2, <2>4, StepsLink
        <5>2. v = Step(w).to /\ l = byName[here] /\ Tail(w.pending) = Tail(p)
              /\ w.hops = walk.hops
            BY <1>9
        <5> HIDE DEF here, p, b, r, v, l
        <5> QED
            BY <5>1, <5>2
      <4> QED
          BY <3>1, <4>1
    <3>3. /\ q \in Paths /\ b - 1 \in Nat
          /\ Same(W(headers, r, p, b), W(headers, << >>, q, b - 1))
      <4> HIDE DEF r, p, b, l
      <4> QED
          BY <1>1, <1>8, <2>1, <2>4, LinkRewalk DEF l
    <3>4. /\ walk.hops + 1 \in 0 .. MaxLinkHops /\ b - 1 = MaxLinkHops - (walk.hops + 1)
          /\ walk.hops < walk.hops + 1
      <4>1. /\ walk.hops \in 0 .. MaxLinkHops /\ MaxLinkHops \in Nat
            /\ b = MaxLinkHops - walk.hops /\ b # 0
          BY <1>1, <1>2, <2>4
      <4> HIDE DEF b
      <4> QED
          BY <4>1
    <3>5. << >> \in Paths /\ NoUps(<< >>) /\ Steady(headers, << >>)
        BY EmptyPath, SteadyEmpty
    <3>6. Same(W(headers, r, p, b), W(headers, << >>, q, MaxLinkHops - (walk.hops + 1)))
        BY <3>3, <3>4
    <3>7. v \in WalkRecs /\ v.key = walk.key /\ v.steps = walk.steps + 1
          /\ OnTrack(headers, v)
      <4>1. PICK n : n = walk.hops + 1
          OBVIOUS
      <4>2. PICK e : e = << >>
          OBVIOUS
      <4>3. /\ e \in Paths /\ NoUps(e) /\ Steady(headers, e) /\ n \in 0 .. MaxLinkHops
            /\ walk.hops < n /\ q \in Paths
            /\ v = [w EXCEPT !.pending = q, !.resolved = e, !.hops = n]
            /\ Same(W(headers, r, p, b), W(headers, e, q, MaxLinkHops - n))
          BY <3>2, <3>3, <3>4, <3>5, <3>6, <4>1, <4>2
      <4> HIDE DEF v, r, p, b, q
      <4> QED
          BY <1>3, <4>3
    <3> QED
        BY <3>2, <3>7
  <2> QED
      BY <2>3, <2>4
<1> QED
    BY <1>6, <1>7, <1>8

-----------------------------------------------------------------------------
(* The walk's actions.                                                     *)

LEMMA ResolveStepStep == IInv /\ ResolveStep => IInv'
<1> SUFFICES ASSUME IInv, ResolveStep PROVE IInv'
    OBVIOUS
<1>1. /\ Walking /\ walk.pending # << >>
      /\ UNCHANGED <<container, meta, content, headers, at, byName, parents>>
    BY DEF ResolveStep, index
<1>2. /\ pc \in Third /\ pc \in Passes /\ headers \in Seq(Headers)
      /\ OnTrack(headers, walk) /\ walk \in WalkRecs /\ walk.steps \in Nat
      /\ at \in 1 .. Len(headers) + 1 /\ at <= Len(headers)
      /\ walk.steps <= MaxSteps /\ MaxSteps \in Nat /\ verdict = "none"
    BY <1>1, WalkFacts
\* Where the step refuses, the walk leads nowhere.
<1>3. ASSUME NEW why \in {"malformed", "cycle", "hops", "steps"}, End(why), walk' = walk,
             why # "steps" => Now(headers, walk).key = Outside
      PROVE  IInv'
  <2>1. why # "steps" => ~WellFormed(headers)
      BY <1>1, <1>2, <1>3, Astray, LeadsNowhere
  <2> QED
      BY <1>1, <1>2, <1>3, <2>1, PassEnd
<1>4. CASE walk.steps + 1 > MaxSteps
  <2>1. End("steps") /\ walk' = walk
    <3>1. ~(walk.steps + 1 <= MaxSteps)
        BY <1>2, <1>4
    <3> QED
        BY <1>4, <3>1 DEF ResolveStep
  <2> QED
      BY <1>3, <2>1
<1>5. CASE walk.steps + 1 <= MaxSteps /\ State \in walk.seen
  <2>1. End("cycle") /\ walk' = walk
      BY <1>2, <1>5 DEF ResolveStep
  <2>2. Now(headers, walk).key = Outside
      BY <1>2, <1>5, SeenTwice DEF State
  <2> QED
      BY <1>3, <2>1, <2>2
<1>6. CASE walk.steps + 1 <= MaxSteps /\ State \notin walk.seen
  <2> DEFINE w == [walk EXCEPT !.steps = @ + 1, !.seen = @ \cup {State}]
  <2>1. IF Step(w).why = "none" THEN walk' = Step(w).to /\ UNCHANGED <<pc, verdict>>
                                ELSE End(Step(w).why) /\ UNCHANGED walk
      BY <1>2, <1>6 DEF ResolveStep
  <2>2. /\ w \in WalkRecs /\ w.pending = walk.pending /\ w.resolved = walk.resolved
        /\ w.hops = walk.hops /\ w.key = walk.key /\ w.steps = walk.steps + 1
        /\ w.seen = walk.seen \cup {<<walk.resolved, walk.pending>>}
      BY <1>2, Counted DEF State
  <2>3. /\ Step(w).why = "none" =>
             /\ Step(w).to \in WalkRecs /\ Step(w).to.key = walk.key
             /\ Step(w).to.steps = walk.steps + 1
             /\ OnTrack(headers, Step(w).to)
        /\ Step(w).why # "none" =>
             Step(w).why \in {"malformed", "hops"} /\ Now(headers, walk).key = Outside
    <3> HIDE DEF w
    <3> QED
        BY <1>1, <2>2, StepRight
  <2> HIDE DEF w
  <2>4. CASE Step(w).why = "none"
    <3>1. /\ walk' \in WalkRecs /\ walk'.key = walk.key /\ walk'.steps <= MaxSteps
          /\ OnTrack(headers, walk') /\ UNCHANGED <<pc, verdict>>
        BY <1>2, <1>6, <2>1, <2>3, <2>4
    <3>2. PassInv /\ ShapeInv /\ TypeOK /\ pc \in {"parentWalk", "linkWalk"}
        BY <1>1 DEF IInv, Walking
    <3>3. parents' \subseteq DOMAIN byName
        BY <1>1, <3>2 DEF TypeOK
    <3>4. /\ TypeOK' /\ FileInv' /\ ShapeInv' /\ IndexInv'
          /\ AcceptsOnlyBackups' /\ RefusesWithReason'
        BY <1>1, <1>2, <3>1, <3>2, <3>3, ThirdNext
    <3>5. PassInv'
        BY <1>1, <1>2, <3>1, <3>2 DEF PassInv, LinkAt, Known
    <3>6. WalkInv'
        BY <1>1, <3>1 DEF WalkInv
    <3> QED
        BY <3>4, <3>5, <3>6 DEF IInv
  <2>5. CASE Step(w).why # "none"
      BY <1>3, <2>1, <2>3, <2>5
  <2> QED
      BY <2>4, <2>5
<1> QED
  <2>1. walk.steps + 1 > MaxSteps \/ walk.steps + 1 <= MaxSteps
      BY <1>2
  <2> QED
      BY <1>4, <1>5, <1>6, <2>1

\* Where the walk has come to its end.
LEMMA WalkDone ==
    ASSUME IInv, Walking, walk.pending = << >>
    PROVE  /\ W(headers, << >>, walk.key, MaxLinkHops).key = walk.resolved
           /\ walk.resolved \in Paths /\ NoUps(walk.resolved) /\ walk.key \in Paths
<1>1. pc \in Third
    BY DEF Walking, Third
<1>2. headers \in Seq(Headers) /\ walk \in WalkRecs
    BY <1>1, ThirdFacts
<1>3. OnTrack(headers, walk)
    BY DEF IInv, WalkInv
<1>4. /\ walk.resolved \in Paths /\ walk.key \in Paths /\ NoUps(walk.resolved)
      /\ walk.hops \in 0 .. MaxLinkHops /\ MaxLinkHops \in Nat
    BY <1>2, <1>3, ConstantsType DEF WalkRecs, OnTrack
<1>5. Budgeted(walk) \in Nat
    BY <1>4 DEF Budgeted
<1>6. Now(headers, walk).key = walk.resolved
    BY <1>2, <1>4, <1>5, NoUpsInside, WalkEnd DEF Now
<1> QED
    BY <1>3, <1>4, <1>6 DEF OnTrack, Same

\* The walk is over: the third pass goes on without it.
LEMMA ParentResolvedStep == IInv /\ ParentResolved => IInv'
<1> SUFFICES ASSUME IInv, ParentResolved PROVE IInv'
    OBVIOUS
<1> DEFINE h == headers[at]
<1>1. /\ pc = "parentWalk" /\ pc \in Third /\ pc \in Passes /\ Walking
      /\ at <= Len(headers) /\ walk.pending = << >> /\ walk' = NoWalk
      /\ UNCHANGED <<container, meta, content, headers, byName, at>>
    BY DEF ParentResolved, Third, Passes, Walking, index, IInv, ShapeInv
<1>2. /\ at \in 1 .. Len(headers) /\ at \in 1 .. Len(headers) + 1 /\ h \in ToSet(headers)
      /\ Key(h) \in Paths /\ Sound(h) /\ NoUps(Key(h)) /\ Key(h) \in DOMAIN byName
    BY <1>1, MemberAt
<1>3. /\ \A key \in DOMAIN byName : \A above \in Beneath(key) : ~LinkAt(above)
      /\ \A key \in parents : HasDir(headers, key)
      /\ \A i \in 1 .. at - 1 :
            ParentThere(headers, headers[i]) /\ LinkThere(headers, headers[i])
      /\ headers \in Seq(Headers) /\ Tidy(headers) /\ Listed(Len(headers))
      /\ verdict = "none" /\ MaxSteps \in Nat
    BY <1>1, ThirdFacts
<1>4. Len(Key(h)) > 1 /\ walk.key = Front(Key(h))
    BY <1>1 DEF IInv, PassInv
<1>5. NoWalk \in WalkRecs /\ NoWalk.steps = 0
    BY NoWalkType DEF NoWalk
<1>6. /\ W(headers, << >>, walk.key, MaxLinkHops).key = walk.resolved
      /\ NoUps(walk.resolved) /\ walk.resolved # Outside
    BY <1>1, WalkDone, NoUpsInside
\* There is no link above the member, so the walk has gone straight on.
<1>7. walk.resolved = walk.key
  <2> DEFINE k == Front(Key(h))
  <2>1. /\ k \in Paths /\ NoUps(k) /\ Len(k) = Len(Key(h)) - 1 /\ Len(Key(h)) \in Nat
    <3>1. Key(h) # << >>
        BY <1>4, EmptyPath
    <3> QED
        BY <1>2, <3>1, FrontPath
  <2>2. ASSUME NEW n \in 1 .. Len(k)
        PROVE  ~HasLink(headers, Upto(k, n))
    <3>1. Upto(k, n) = Upto(Key(h), n)
      <4>1. Key(h) # << >> /\ n \in 0 .. Len(Key(h)) - 1
          BY <1>4, <2>1, <2>2, EmptyPath
      <4> QED
          BY <1>2, <4>1, UptoFront
    <3>2. Upto(Key(h), n) \in Beneath(Key(h))
        BY <2>1, <2>2 DEF Beneath, Upto
    <3> QED
        BY <1>2, <1>3, <3>1, <3>2, ListedKinds
  <2>3. W(headers, << >>, k, MaxLinkHops).key \in {Outside, k}
    <3> HIDE DEF k
    <3> QED
        BY <1>3, <2>1, <2>2, StraightWalk, ConstantsType
  <2> QED
      BY <1>4, <1>6, <2>3
<1>8. DirAt(walk.resolved) <=> HasDir(headers, walk.key)
    BY <1>3, <1>7, ListedKinds
<1>9. CASE DirAt(walk.resolved)
  <2>1. /\ parents' = parents \cup {walk.key} /\ pc' = "link" /\ verdict' = verdict
      BY <1>9 DEF ParentResolved, Goto
  <2>2. /\ parents \subseteq DOMAIN byName /\ walk.key \in DOMAIN byName
      BY <1>7, <1>9 DEF IInv, TypeOK, DirAt, Known
  <2>3. /\ TypeOK' /\ FileInv' /\ ShapeInv' /\ IndexInv'
        /\ AcceptsOnlyBackups' /\ RefusesWithReason'
      BY <1>1, <1>2, <1>3, <1>5, <2>1, <2>2, ThirdNext DEF Third
  <2>4. ParentThere(headers, h) /\ \A key \in parents' : HasDir(headers, key)
      BY <1>3, <1>4, <1>8, <1>9, <2>1 DEF ParentThere
  <2>5. PassInv'
      BY <1>1, <1>3, <2>1, <2>4, ThirdPass DEF Third
  <2>6. WalkInv'
      BY <2>1 DEF WalkInv, Walking
  <2> QED
      BY <2>3, <2>5, <2>6 DEF IInv
<1>10. CASE ~DirAt(walk.resolved)
  <2>1. parents' = parents /\ End("malformed")
      BY <1>10 DEF ParentResolved
  <2>2. ~WellFormed(headers)
    <3>1. ASSUME WellFormed(headers) PROVE HasDir(headers, Front(Key(h)))
        BY <1>2, <1>4, <3>1 DEF WellFormed
    <3> QED
        BY <1>4, <1>8, <1>10, <3>1
  <2> QED
      BY <1>1, <1>2, <1>3, <1>5, <2>1, <2>2, PassEnd
<1> QED
    BY <1>9, <1>10

LEMMA LinkResolvedStep == IInv /\ LinkResolved => IInv'
<1> SUFFICES ASSUME IInv, LinkResolved PROVE IInv'
    OBVIOUS
<1> DEFINE h == headers[at]
<1>1. /\ pc = "linkWalk" /\ pc \in Third /\ pc \in Passes /\ Walking
      /\ at <= Len(headers) /\ walk.pending = << >> /\ walk' = NoWalk
      /\ UNCHANGED <<container, meta, content, headers, byName, parents>>
    BY DEF LinkResolved, Third, Passes, Walking, index, IInv, ShapeInv
<1>2. /\ at \in 1 .. Len(headers) /\ at \in 1 .. Len(headers) + 1
      /\ at + 1 \in 1 .. Len(headers) + 1 /\ h \in ToSet(headers)
      /\ byName[Key(h)] = h /\ at \in Nat
    BY <1>1, MemberAt, ThirdFacts
<1>3. /\ \A key \in parents : HasDir(headers, key)
      /\ \A i \in 1 .. at - 1 :
            ParentThere(headers, headers[i]) /\ LinkThere(headers, headers[i])
      /\ headers \in Seq(Headers) /\ Tidy(headers) /\ Listed(Len(headers))
      /\ verdict = "none" /\ MaxSteps \in Nat /\ parents \subseteq DOMAIN byName
  <2>1. parents \subseteq DOMAIN byName
      BY DEF IInv, TypeOK
  <2> QED
      BY <1>1, <2>1, ThirdFacts
<1>4. IsLink(h) /\ walk.key = Key(h) /\ ParentThere(headers, h)
    BY <1>1 DEF IInv, PassInv
<1>5. NoWalk \in WalkRecs /\ NoWalk.steps = 0
    BY NoWalkType DEF NoWalk
<1>6. Reached(headers, Key(h)) = Member(headers, walk.resolved)
    BY <1>1, <1>4, WalkDone DEF Reached, W
\* The code's check of where the link leads is the archive's.
<1>7. LinkThere(headers, h) <=>
        /\ Known(walk.resolved)
        /\ byName[walk.key].type = "hardlink" => byName[walk.resolved].type = "file"
  <2>1. /\ Known(walk.resolved) =>
             Reached(headers, Key(h)) = {byName[walk.resolved]}
        /\ ~Known(walk.resolved) => Reached(headers, Key(h)) = {}
      BY <1>3, <1>6, ListedMember
  <2> QED
      BY <1>2, <1>4, <2>1 DEF LinkThere
<1>8. CASE LinkThere(headers, h)
  <2>1. pc' = "parent" /\ verdict' = verdict /\ at' = at + 1
      BY <1>7, <1>8 DEF LinkResolved, Goto
  <2>2. /\ TypeOK' /\ FileInv' /\ ShapeInv' /\ IndexInv'
        /\ AcceptsOnlyBackups' /\ RefusesWithReason'
      BY <1>1, <1>2, <1>3, <1>5, <2>1, ThirdNext DEF Third
  <2>3. \A i \in 1 .. at' - 1 :
           ParentThere(headers, headers[i]) /\ LinkThere(headers, headers[i])
    <3>1. \A i \in 1 .. at + 1 - 1 :
             ParentThere(headers, headers[i]) /\ LinkThere(headers, headers[i])
        BY <1>1, <1>4, <1>8, CheckedNext
    <3>2. at' - 1 = at + 1 - 1
        BY <1>2, <2>1
    <3> HIDE DEF h
    <3> QED
        BY <1>1, <3>1, <3>2
  <2>4. PassInv'
      BY <1>1, <1>3, <2>1, <2>3, ThirdPass DEF Third
  <2>5. WalkInv'
      BY <2>1 DEF WalkInv, Walking
  <2> QED
      BY <2>2, <2>4, <2>5 DEF IInv
<1>9. CASE ~LinkThere(headers, h)
  <2>1. at' = at /\ End("malformed")
      BY <1>7, <1>9 DEF LinkResolved
  <2>2. ~WellFormed(headers)
      BY <1>2, <1>9 DEF WellFormed, LinkThere
  <2> QED
      BY <1>1, <1>2, <1>3, <1>5, <2>1, <2>2, PassEnd
<1> QED
    BY <1>8, <1>9

-----------------------------------------------------------------------------
(* The end, and the invariant.                                             *)

\* What the passes have found, together, is what an archive is told by.
LEMMA AllPasses ==
    ASSUME IInv, pc = "parent", at > Len(headers)
    PROVE  WellFormed(headers)
<1>1. pc \in Third
    BY DEF Third
<1>2. /\ Listed(Len(headers)) /\ headers \in Seq(Headers)
      /\ \A key \in ToSet(Required) : HasDir(headers, key)
      /\ \A i \in 1 .. at - 1 :
            ParentThere(headers, headers[i]) /\ LinkThere(headers, headers[i])
      /\ at \in 1 .. Len(headers) + 1 /\ at \in Nat
      /\ Len(headers) \in 1 .. MaxMembers /\ Len(headers) \in Nat
    BY <1>1, ThirdFacts
<1>3. at - 1 = Len(headers) /\ Len(headers) # 0
    BY <1>2, ConstantsType
<1>4. headers # << >> /\ DOMAIN headers = 1 .. Len(headers)
  <2>1. Len(<< >>) = 0
      BY EmptyPath
  <2> QED
      BY <1>2, <1>3, <2>1, LenProperties
<1>5. \A i, j \in DOMAIN headers : Key(headers[i]) = Key(headers[j]) => i = j
    BY <1>2, <1>4 DEF Listed
<1>6. ASSUME NEW h \in ToSet(headers)
      PROVE  /\ h.name.clean /\ ~Absolute(h.name) /\ ".." \notin ToSet(Key(h))
             /\ h.type # "special"
             /\ Key(h) = << >> => h.type = "dir"
             /\ Len(Key(h)) > 1 => HasDir(headers, Front(Key(h)))
             /\ IsLink(h) =>
                  /\ h.target.clean /\ ~Absolute(h.target) /\ Parts(h.target) # << >>
                  /\ StaysInside(IF h.type = "symlink" THEN Len(Key(h)) - 1 ELSE 0,
                                 Parts(h.target))
                  /\ Reached(headers, Key(h)) # {}
                  /\ h.type = "hardlink" => \A f \in Reached(headers, Key(h)) : f.type = "file"
  <2>1. PICK i \in 1 .. Len(headers) : headers[i] = h
      BY <1>2, ToSetOf
  <2>2. Sound(h)
      BY <1>2, <2>1 DEF Listed
  <2>3. ParentThere(headers, h) /\ LinkThere(headers, h)
      BY <1>2, <1>3, <2>1
  <2> QED
      BY <2>2, <2>3 DEF Sound, ParentThere, LinkThere
<1> QED
    BY <1>2, <1>4, <1>5, <1>6 DEF WellFormed

LEMMA AcceptStep == IInv /\ Accept => IInv'
<1> SUFFICES ASSUME IInv, Accept PROVE IInv'
    OBVIOUS
<1>1. /\ pc = "parent" /\ pc \in Passes /\ at > Len(headers)
      /\ pc' = "end" /\ verdict' = "accepted"
      /\ UNCHANGED <<container, meta, content, headers, at, byName, parents, walk>>
    BY DEF Accept, Passes, Third, End, index
<1>2. /\ container \in File /\ DataReadable(container) /\ container.content = Expected
      /\ at \in 1 .. Len(headers) + 1 /\ walk \in WalkRecs /\ walk.steps <= MaxSteps
      /\ meta \in [encrypted : BOOLEAN]
    BY <1>1, PassFacts
<1>3. WellFormed(headers)
    BY <1>1, AllPasses
<1>4. container.encrypted \in BOOLEAN
    BY <1>2 DEF File
<1>5. \E v \in 1 .. FormatVersion :
         container = [WriteTx9(container.encrypted, Expected) EXCEPT !.version = v]
    BY <1>2, ReadableIsBackup
<1>6. AcceptsOnlyBackups' /\ RefusesWithReason'
    BY <1>1, <1>3, <1>4, <1>5 DEF AcceptsOnlyBackups, RefusesWithReason, Expected
<1>7. TypeOK'
    BY <1>1, <1>2, PassTypedSame DEF Verdicts
<1>8. FileInv' /\ ShapeInv' /\ IndexInv' /\ PassInv' /\ WalkInv'
    BY <1>1, <1>2, PassFile, EndShape, EndPasses
<1> QED
    BY <1>6, <1>7, <1>8 DEF IInv

LEMMA StutterStep == IInv /\ UNCHANGED vars => IInv'
<1> SUFFICES ASSUME IInv, UNCHANGED vars PROVE IInv'
    OBVIOUS
<1>1. UNCHANGED <<pc, verdict, container, meta, content, headers, at, byName, parents, walk>>
    BY DEF vars, index
<1>2. MaxSteps' = MaxSteps
    BY <1>1 DEF MaxSteps
<1>3. TypeOK' /\ FileInv' /\ ShapeInv'
    BY <1>1, <1>2
       DEF IInv, TypeOK, FileInv, ShapeInv, Expected, Walking
<1>4. IndexInv' /\ PassInv' /\ WalkInv'
    BY <1>1 DEF IInv, IndexInv, PassInv, WalkInv, Listed, LinkAt, Known, Walking
<1>5. AcceptsOnlyBackups' /\ RefusesWithReason'
    BY <1>1 DEF IInv, AcceptsOnlyBackups, RefusesWithReason
<1> QED
    BY <1>3, <1>4, <1>5 DEF IInv

\* What is inductive of the import: the file's part, the passes', the index and
\* the walk's, with what it accepts and refuses (ValidateDataTar, resolve).
THEOREM Invariance == Spec => []IInv
<1>1. Init => IInv
    BY InitInv
<1>2. IInv /\ [Next]_vars => IInv'
  <2> SUFFICES ASSUME IInv, [Next]_vars PROVE IInv'
      OBVIOUS
  <2>1. CASE ReadMetadata
      BY <2>1, ReadMetadataStep
  <2>2. CASE AwaitLock
      BY <2>2, AwaitLockStep
  <2>3. CASE ExtractData
      BY <2>3, ExtractDataStep
  <2>4. CASE Decrypt
      BY <2>4, DecryptStep
  <2>5. CASE ReadMembers
      BY <2>5, ReadMembersStep
  <2>6. CASE IndexMember
      BY <2>6, IndexMemberStep
  <2>7. CASE Indexed
      BY <2>7, IndexedStep
  <2>8. CASE CheckNesting
      BY <2>8, CheckNestingStep
  <2>9. CASE CheckRequired
      BY <2>9, CheckRequiredStep
  <2>10. CASE CheckMember
      BY <2>10, CheckMemberStep
  <2>11. CASE CheckLink
      BY <2>11, CheckLinkStep
  <2>12. CASE ResolveStep
      BY <2>12, ResolveStepStep
  <2>13. CASE ParentResolved
      BY <2>13, ParentResolvedStep
  <2>14. CASE LinkResolved
      BY <2>14, LinkResolvedStep
  <2>15. CASE Accept
      BY <2>15, AcceptStep
  <2>16. CASE UNCHANGED vars
      BY <2>16, StutterStep
  <2> QED
      BY <2>1, <2>2, <2>3, <2>4, <2>5, <2>6, <2>7, <2>8, <2>9, <2>10, <2>11, <2>12, <2>13,
         <2>14, <2>15, <2>16 DEF Next, Validate
<1> QED
    BY <1>1, <1>2, PTL DEF Spec

-----------------------------------------------------------------------------
(* The theorems.                                                           *)

\* Every value of the state is of its kind; the walk's counters keep to their
\* bounds.
THEOREM TypeCorrect == Spec => []TypeOK
<1>1. IInv => TypeOK
    BY DEF IInv
<1> QED
    BY <1>1, Invariance, PTL

\* What import restores is a backup and a tree with every name and link inside
\* it, whatever the members and the texts of their links (ValidateDataTar).
THEOREM AcceptsCorrect == Spec => []AcceptsOnlyBackups
<1>1. IInv => AcceptsOnlyBackups
    BY DEF IInv
<1> QED
    BY <1>1, Invariance, PTL

\* A backup is not refused, least of all for a cycle or for its hops: where
\* resolve gives up, the walk leads nowhere (resolve, validateDataTar).
THEOREM RefusesCorrect == Spec => []RefusesWithReason
<1>1. IInv => RefusesWithReason
    BY DEF IInv
<1> QED
    BY <1>1, Invariance, PTL

=============================================================================
