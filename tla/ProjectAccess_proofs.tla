------------------------- MODULE ProjectAccess_proofs -------------------------
(***************************************************************************)
(* What is proved about projects, memberships and the synchronisation.     *)
(*                                                                          *)
(* A plan is a sequence of steps, and most of the work is to say what is   *)
(* in it: Elems are its steps, OnlyLast that an operation comes last, and  *)
(* Advance and Escape what remains of it when a step is done or raises.    *)
(*                                                                          *)
(* TypesHold needs to know of every step what it carries (StepsOf), that   *)
(* there is a task while one is being executed (QueueInv), and that the    *)
(* synchronisation never compares a user it is about to delete (SyncInv).  *)
(*                                                                          *)
(* MembershipsMatch needs what a plan that is under way still has to do:   *)
(* a user that is being activated has joined the groups whose steps are    *)
(* done (MatchInv), nothing but these steps is left of its activation      *)
(* (ActivationInv), and no synchronisation runs meanwhile (ExclusiveInv).  *)
(*                                                                          *)
(* DirectoryMirrored needs that every difference between the rows and the  *)
(* directory has its step in the plan of the synchronisation (GroupsInv,   *)
(* UsersInv, HomesInv), and that no exception skips such a step: what may  *)
(* raise is in a try block of its own (Apart), and a project has no links  *)
(* any more when it is gone (LinksInv), so that removing one succeeds.     *)
(***************************************************************************)
EXTENDS ProjectAccess, FiniteSetTheorems, TLAPS

-----------------------------------------------------------------------------
(* Sequences *)

\* A non-empty set of naturals has a least element, and Min finds it.
LEMMA LeastOne ==
  ASSUME NEW I \in SUBSET Nat, I # {}
  PROVE  Min(I) \in I /\ \A x \in I : Min(I) <= x
  <1> DEFINE R == {ss \in Nat \X Nat : ss[1] < ss[2]}
  <1>1. IsWellFoundedOn(R, Nat)
    BY NatLessThanWellFounded DEF OpToRel
  <1>2. PICK x \in I : \A y \in I : <<y, x>> \notin R
    <2> HIDE DEF R
    <2> QED
      BY <1>1, WFMin
  <1>3. ASSUME NEW y \in I
        PROVE  x <= y
    <2>1. <<y, x>> \in Nat \X Nat /\ <<y, x>>[1] = y /\ <<y, x>>[2] = x
      OBVIOUS
    <2>2. ~(y < x)
      BY <1>2, <2>1, Zenon
    <2> QED
      BY <2>2
  <1> QED
    BY <1>3 DEF Min

\* SetToSeq lists every element of a finite set once.
LEMMA Listed ==
  ASSUME NEW S, IsFiniteSet(S), NEW s, s = SetToSeq(S)
  PROVE  /\ s \in Seq(S) /\ DOMAIN s = 1 .. Len(s) /\ Len(s) \in Nat
         /\ \A i \in 1 .. Len(s) : s[i] \in S
         /\ \A i, j \in 1 .. Len(s) : s[i] = s[j] => i = j
         /\ \A x \in S : \E i \in 1 .. Len(s) : s[i] = x
  <1> DEFINE n == Cardinality(S)
  <1>1. n \in Nat /\ ExistsBijection(1 .. n, S)
    BY FS_CardinalityType
  <1>2. \E f \in [1 .. n -> S] : IsInjective(f)
    BY <1>1 DEF ExistsBijection, Bijection, Injection, Surjection
  <1>3. s \in [1 .. n -> S] /\ IsInjective(s)
    BY <1>2 DEF SetToSeq
  <1>4. s \in Injection(1 .. n, S)
    BY <1>3 DEF Injection
  <1>5. Cardinality(1 .. n) = n
    BY <1>1, FS_Interval
  <1>6. s \in Surjection(1 .. n, S)
    BY <1>4, <1>5, FS_Injection
  <1>7. Len(s) = n /\ s \in Seq(S)
    BY <1>1, <1>3
  <1>8. \A x \in S : \E i \in 1 .. n : s[i] = x
    BY <1>6 DEF Surjection
  <1> QED
    BY <1>1, <1>3, <1>7, <1>8 DEF IsInjective

Ends == {"catch", "catch_all"}

\* r is an end of s, and only the ends of try blocks are left out before it.
Shortened(r, s) ==
    \E k \in 0 .. Len(s) :
        /\ Len(r) = Len(s) - k
        /\ \A i \in 1 .. Len(r) : r[i] = s[i + k]
        /\ \A i \in 1 .. k : s[i].op \in Ends

\* What remains of a plan.
LEMMA Remains ==
  ASSUME NEW S, NEW s \in Seq(S), NEW r, r = Remaining(s)
  PROVE  r \in Seq(S) /\ Shortened(r, s)
  <1> DEFINE I == {i \in 1 .. Len(s) : s[i].op \notin Ends}
             first == IF I # {} THEN Min(I) ELSE 0
  <1>1. r = IF first = 0 THEN <<>> ELSE SubSeq(s, first, Len(s))
    BY DEF Remaining, SelectInSeq, Ends
  <1>2. CASE I = {}
    <2>1. r = <<>>
      BY <1>1, <1>2
    <2>2. Len(s) \in 0 .. Len(s) /\ \A i \in 1 .. Len(s) : s[i].op \in Ends
      BY <1>2
    <2> QED
      BY <2>1, <2>2 DEF Shortened
  <1>3. CASE I # {}
    <2>0. I \in SUBSET Nat
      OBVIOUS
    <2>1. first \in I /\ (\A x \in I : first <= x) /\ Len(s) \in Nat
      <3> HIDE DEF I
      <3> QED
        BY <1>3, <2>0, LeastOne
    <2>2. first \in 1 .. Len(s) /\ \A i \in 1 .. Len(s) : first <= i \/ s[i].op \in Ends
      BY <2>1
    <2> HIDE DEF first
    <2>3. r = SubSeq(s, first, Len(s))
      BY <1>1, <2>2
    <2> DEFINE k == first - 1
    <2>4. k \in 0 .. Len(s) /\ r \in Seq(S) /\ Len(r) = Len(s) - k
      BY <2>2, <2>3
    <2>5. \A i \in 1 .. Len(r) : r[i] = s[i + k]
      BY <2>2, <2>3, <2>4
    <2>6. \A i \in 1 .. k : s[i].op \in Ends
      BY <2>1, <2>2, <2>4
    <2> HIDE DEF k
    <2> QED
      BY <2>4, <2>5, <2>6 DEF Shortened
  <1> QED
    BY <1>2, <1>3

\* The elements of a sequence, and its last one.
Elems(s) == {s[i] : i \in 1 .. Len(s)}
LastOf(s) == s[Len(s)]

\* Nothing but the last element has this operation.
OnlyLast(s, op) == \A i \in 1 .. Len(s) : s[i].op = op => i = Len(s)

\* The elements of the sequences that plans are made of.
LEMMA ElemsOf ==
  ASSUME NEW S
  PROVE  /\ \A s \in Seq(S) : Elems(s) \subseteq S
         /\ \A s, t \in Seq(S) : s \o t \in Seq(S) /\ Elems(s \o t) = Elems(s) \cup Elems(t)
         /\ \A x : Elems(<<x>>) = {x}
         /\ Elems(<<>>) = {}
  <1>1. ASSUME NEW s \in Seq(S), NEW t \in Seq(S)
        PROVE  s \o t \in Seq(S) /\ Elems(s \o t) = Elems(s) \cup Elems(t)
    <2> DEFINE r == s \o t
    <2>1. /\ r \in Seq(S) /\ Len(r) = Len(s) + Len(t) /\ Len(s) \in Nat /\ Len(t) \in Nat
          /\ \A i \in 1 .. Len(s) : r[i] = s[i]
          /\ \A i \in 1 .. Len(t) : r[i + Len(s)] = t[i]
      OBVIOUS
    <2> HIDE DEF r
    <2>2. \A i \in 1 .. Len(r) : i \in 1 .. Len(s) \/ i - Len(s) \in 1 .. Len(t)
      BY <2>1
    <2>3. Elems(r) \subseteq Elems(s) \cup Elems(t)
      <3>1. ASSUME NEW i \in 1 .. Len(r)
            PROVE  r[i] \in Elems(s) \cup Elems(t)
        <4>1. CASE i \in 1 .. Len(s)
          BY <2>1, <4>1 DEF Elems
        <4>2. CASE i - Len(s) \in 1 .. Len(t)
          <5>1. r[(i - Len(s)) + Len(s)] = t[i - Len(s)] /\ (i - Len(s)) + Len(s) = i
            BY <2>1, <4>2
          <5> QED
            BY <4>2, <5>1 DEF Elems
        <4> QED
          BY <2>2, <4>1, <4>2
      <3> QED
        BY <3>1 DEF Elems
    <2>4. Elems(s) \subseteq Elems(r)
      BY <2>1 DEF Elems
    <2>5. Elems(t) \subseteq Elems(r)
      <3>1. ASSUME NEW i \in 1 .. Len(t)
            PROVE  t[i] \in Elems(r)
        <4>1. i + Len(s) \in 1 .. Len(r) /\ r[i + Len(s)] = t[i]
          BY <2>1
        <4> QED
          BY <4>1 DEF Elems
      <3> QED
        BY <3>1 DEF Elems
    <2> QED
      BY <2>1, <2>3, <2>4, <2>5 DEF r
  <1>2. \A s \in Seq(S) : Elems(s) \subseteq S
    BY DEF Elems
  <1>3. ASSUME NEW x
        PROVE  Elems(<<x>>) = {x}
    <2>1. Len(<<x>>) = 1 /\ <<x>>[1] = x /\ 1 .. 1 = {1}
      OBVIOUS
    <2> QED
      BY <2>1 DEF Elems
  <1>4. Elems(<<>>) = {}
    BY DEF Elems
  <1> QED
    BY <1>1, <1>2, <1>3, <1>4

\* The steps before the others, and the others, when the current one is done.
LEMMA Continued ==
  ASSUME NEW S, NEW t \in Seq(S), t # <<>>, NEW s \in Seq(S), NEW r, r = Remaining(s \o Tail(t))
  PROVE  /\ r \in Seq(S)
         /\ Tail(t) \in Seq(S) /\ Elems(t) = {t[1]} \cup Elems(Tail(t))
         /\ Elems(r) \subseteq Elems(s) \cup Elems(Tail(t))
         /\ \A x \in Elems(s) \cup Elems(Tail(t)) : x.op \in Ends \/ x \in Elems(r)
         /\ Len(t) > 1 /\ LastOf(t).op \notin Ends => r # <<>> /\ LastOf(r) = LastOf(t)
         /\ Len(t) = 1 /\ s = <<>> => r = <<>>
         /\ \A op : OnlyLast(t, op) /\ (\A x \in Elems(s) : x.op # op) => OnlyLast(r, op)
         /\ Len(t) = 1 => \A op : OnlyLast(s, op) => OnlyLast(r, op)
  <1> DEFINE u == Tail(t)
             w == s \o u
  <1>1. /\ u \in Seq(S) /\ Len(u) = Len(t) - 1 /\ Len(t) \in Nat /\ Len(t) >= 1
        /\ \A i \in 1 .. Len(u) : u[i] = t[i + 1]
    OBVIOUS
  <1>2. /\ w \in Seq(S) /\ Len(w) = Len(s) + Len(u) /\ Len(s) \in Nat
        /\ \A i \in 1 .. Len(s) : w[i] = s[i]
        /\ \A i \in 1 .. Len(u) : w[i + Len(s)] = u[i]
    BY <1>1
  <1>3. Elems(w) = Elems(s) \cup Elems(u)
    <2> HIDE DEF u
    <2> QED
      BY <1>1, ElemsOf
  <1>4. r = Remaining(w) /\ w \in Seq(S)
    BY <1>2
  <1> HIDE DEF w, u
  <1>5. r \in Seq(S) /\ Shortened(r, w)
    BY <1>4, Remains
  <1>6. PICK k \in 0 .. Len(w) :
               /\ Len(r) = Len(w) - k
               /\ \A i \in 1 .. Len(r) : r[i] = w[i + k]
               /\ \A i \in 1 .. k : w[i].op \in Ends
    BY <1>5 DEF Shortened
  <1>0. r \in Seq(S) /\ Len(w) \in Nat /\ Len(r) \in Nat
    BY <1>4, <1>5
  <1>7. Elems(r) \subseteq Elems(w)
    <2>1. \A i \in 1 .. Len(r) : i + k \in 1 .. Len(w)
      BY <1>0, <1>6
    <2> QED
      BY <1>6, <2>1 DEF Elems
  <1>8. \A x \in Elems(w) : x.op \in Ends \/ x \in Elems(r)
    <2>1. ASSUME NEW i \in 1 .. Len(w), w[i].op \notin Ends
          PROVE  w[i] \in Elems(r)
      <3>1. i - k \in 1 .. Len(r) /\ (i - k) + k = i
        BY <1>0, <1>6, <2>1
      <3>2. r[i - k] = w[i]
        BY <1>6, <3>1
      <3> QED
        BY <3>1, <3>2 DEF Elems
    <2> QED
      BY <2>1 DEF Elems
  <1>9. Elems(t) = {t[1]} \cup Elems(u)
    <2>1. \A i \in 1 .. Len(t) : i = 1 \/ (i - 1 \in 1 .. Len(u) /\ t[i] = u[i - 1])
      BY <1>1
    <2>2. 1 \in 1 .. Len(t) /\ \A i \in 1 .. Len(u) : i + 1 \in 1 .. Len(t)
      BY <1>1
    <2>3. Elems(t) \subseteq {t[1]} \cup Elems(u)
      <3>1. ASSUME NEW i \in 1 .. Len(t)
            PROVE  t[i] \in {t[1]} \cup Elems(u)
        BY <2>1 DEF Elems
      <3> QED
        BY <3>1 DEF Elems
    <2>4. {t[1]} \cup Elems(u) \subseteq Elems(t)
      BY <1>1, <2>2 DEF Elems
    <2> QED
      BY <2>3, <2>4
  <1>10. ASSUME Len(t) > 1
         PROVE  Len(w) >= 1 /\ w[Len(w)] = LastOf(t)
    <2>1. Len(u) \in 1 .. Len(u) /\ Len(u) + 1 = Len(t) /\ Len(u) + Len(s) = Len(w)
      BY <1>1, <1>2, <1>10
    <2>2. w[Len(u) + Len(s)] = u[Len(u)]
      BY <1>2, <2>1
    <2>3. u[Len(u)] = t[Len(u) + 1]
      BY <1>1, <2>1
    <2>4. w[Len(w)] = t[Len(t)]
      BY <2>1, <2>2, <2>3
    <2>5. Len(w) >= 1
      BY <2>1
    <2> QED
      BY <2>4, <2>5 DEF LastOf
  <1>11. ASSUME Len(t) > 1, LastOf(t).op \notin Ends
         PROVE  r # <<>> /\ LastOf(r) = LastOf(t)
    <2>1. Len(w) >= 1 /\ w[Len(w)].op \notin Ends
      BY <1>10, <1>11
    <2>2. ~(Len(w) \in 1 .. k)
      BY <1>0, <1>6, <2>1
    <2>3. k < Len(w) /\ Len(r) >= 1 /\ Len(r) + k = Len(w) /\ Len(r) \in 1 .. Len(r)
      BY <1>0, <1>6, <2>1, <2>2
    <2>4. r[Len(r)] = w[Len(w)]
      BY <1>6, <2>3
    <2>5. r # <<>>
      BY <2>3
    <2> QED
      BY <1>10, <1>11, <2>4, <2>5 DEF LastOf
  <1>12. ASSUME Len(t) = 1, s = <<>>
         PROVE  r = <<>>
    <2>1. Len(w) = 0
      BY <1>1, <1>2, <1>12
    <2> QED
      BY <1>0, <1>6, <2>1
  <1>13. ASSUME NEW op, OnlyLast(t, op), \A x \in Elems(s) : x.op # op
         PROVE  OnlyLast(r, op)
    <2>1. SUFFICES ASSUME NEW i \in 1 .. Len(r), r[i].op = op
                   PROVE  i = Len(r)
      BY DEF OnlyLast
    <2>2. i + k \in 1 .. Len(w) /\ r[i] = w[i + k]
      BY <1>0, <1>6
    <2>3. ~(i + k \in 1 .. Len(s))
      BY <1>2, <1>13, <2>1, <2>2 DEF Elems
    <2>4. i + k - Len(s) \in 1 .. Len(u) /\ (i + k - Len(s)) + Len(s) = i + k
      <3>1. Len(w) = Len(s) + Len(u) /\ Len(s) \in Nat /\ Len(u) \in Nat /\ k \in Nat /\ i \in Nat
        BY <1>0, <1>1, <1>2, <1>6
      <3> QED
        BY <2>2, <2>3, <3>1
    <2>5. w[i + k] = u[i + k - Len(s)]
      BY <1>2, <2>4
    <2> DEFINE j == i + k - Len(s)
    <2>6. j \in 1 .. Len(u) /\ u[j].op = op
      BY <2>1, <2>2, <2>4, <2>5
    <2>7. i + k - Len(s) + 1 = Len(t)
      <3> HIDE DEF j
      <3>1. j + 1 \in 1 .. Len(t) /\ t[j + 1].op = op
        BY <1>1, <2>6
      <3>2. j + 1 = Len(t)
        BY <1>13, <3>1 DEF OnlyLast
      <3> QED
        BY <3>2 DEF j
    <2> QED
      BY <1>1, <1>2, <1>5, <1>6, <2>7
  <1>14. ASSUME Len(t) = 1, NEW op, OnlyLast(s, op)
         PROVE  OnlyLast(r, op)
    <2>1. SUFFICES ASSUME NEW i \in 1 .. Len(r), r[i].op = op
                   PROVE  i = Len(r)
      BY DEF OnlyLast
    <2>2. Len(w) = Len(s)
      BY <1>1, <1>2, <1>14
    <2>3. i + k \in 1 .. Len(s) /\ r[i] = w[i + k]
      BY <1>0, <1>6, <2>2
    <2>4. s[i + k].op = op
      BY <1>2, <2>1, <2>3
    <2>5. i + k = Len(s)
      BY <1>14, <2>3, <2>4 DEF OnlyLast
    <2> QED
      BY <1>0, <1>6, <2>2, <2>5
  <1> QED
    BY <1>1, <1>3, <1>5, <1>7, <1>8, <1>9, <1>11, <1>12, <1>13, <1>14 DEF u

\* Only the step that closes a plan is of its kind.
LEMMA Closed ==
  ASSUME NEW S, NEW s \in Seq(S), NEW l \in Seq(S), Len(l) = 1, NEW op,
         \A y \in Elems(s) : y.op # op
  PROVE  OnlyLast(s \o l, op)
  <1> DEFINE w == s \o l
  <1>0. /\ Len(w) = Len(s) + Len(l) /\ Len(s) \in Nat
        /\ \A i \in 1 .. Len(s) : w[i] = s[i]
    BY ONLY s \in Seq(S), l \in Seq(S)
  <1> HIDE DEF w
  <1>1. /\ Len(w) = Len(s) + 1 /\ Len(s) \in Nat
        /\ \A i \in 1 .. Len(s) : w[i] = s[i]
    BY <1>0
  <1>2. ASSUME NEW i \in 1 .. Len(w), w[i].op = op
        PROVE  i = Len(w)
    <2>1. CASE i \in 1 .. Len(s)
      BY <1>1, <1>2, <2>1 DEF Elems
    <2> QED
      BY <1>1, <2>1
  <1>3. OnlyLast(w, op)
    BY <1>2 DEF OnlyLast
  <1> QED
    BY <1>3 DEF w

\* An exception leaves the plan with steps it had after the current one.
LEMMA Raised ==
  ASSUME NEW S, NEW t \in Seq(S), t # <<>>, NEW I, I \subseteq 1 .. Len(t), NEW r,
         I = {} => r = <<>>, I # {} => r = Remaining(SubSeq(t, Min(I) + 1, Len(t)))
  PROVE  /\ r \in Seq(S) /\ Elems(r) \subseteq Elems(Tail(t))
         /\ \A op : OnlyLast(t, op) => OnlyLast(r, op)
  <1>1. CASE I = {}
    <2>1. r = <<>>
      BY <1>1
    <2>2. \A op : OnlyLast(r, op)
      BY <2>1 DEF OnlyLast
    <2> QED
      BY <2>1, <2>2, ElemsOf
  <1>2. CASE I # {}
    <2> DEFINE m == Min(I)
               w == SubSeq(t, m + 1, Len(t))
    <2>0. r = Remaining(w)
      BY <1>2
    <2>1. m \in I
      <3>1. I \in SUBSET Nat
        OBVIOUS
      <3> QED
        BY <1>2, <3>1, LeastOne
    <2> HIDE DEF m
    <2>2. m \in 1 .. Len(t) /\ Len(t) \in Nat
      BY <2>1
    <2>3. w \in Seq(S) /\ Len(w) = Len(t) - m /\ \A i \in 1 .. Len(w) : w[i] = t[i + m]
      BY <2>2
    <2>4. r = Remaining(w) /\ w \in Seq(S)
      BY <2>0, <2>3
    <2> HIDE DEF w
    <2>5. r \in Seq(S) /\ Shortened(r, w)
      BY <2>4, Remains
    <2>6. PICK k \in 0 .. Len(w) : Len(r) = Len(w) - k /\ \A i \in 1 .. Len(r) : r[i] = w[i + k]
      BY <2>5 DEF Shortened
    <2>7. Len(w) \in Nat /\ Len(r) \in Nat
      BY <2>4, <2>5
    <2> DEFINE u == Tail(t)
    <2>8. Len(u) = Len(t) - 1 /\ \A i \in 1 .. Len(u) : u[i] = t[i + 1]
      OBVIOUS
    <2> HIDE DEF u
    <2>9. ASSUME NEW i \in 1 .. Len(r)
          PROVE  r[i] \in Elems(u)
      <3> DEFINE j == i + k + m - 1
      <3>1. i + k \in 1 .. Len(w) /\ i + k + m = j + 1 /\ j \in 1 .. Len(u)
        BY <2>2, <2>3, <2>6, <2>7, <2>8
      <3>2. r[i] = w[i + k] /\ w[i + k] = t[i + k + m]
        BY <2>3, <2>6, <3>1
      <3> HIDE DEF j
      <3>3. r[i] = u[j]
        BY <2>8, <3>1, <3>2
      <3> QED
        BY <3>1, <3>3 DEF Elems
    <2>10. ASSUME NEW op, OnlyLast(t, op), NEW i \in 1 .. Len(r), r[i].op = op
           PROVE  i = Len(r)
      <3>1. i + k \in 1 .. Len(w) /\ i + k + m \in 1 .. Len(t)
        BY <2>2, <2>3, <2>6, <2>7
      <3>2. t[i + k + m].op = op
        BY <2>3, <2>6, <2>10, <3>1
      <3>3. i + k + m = Len(t)
        BY <2>10, <3>1, <3>2 DEF OnlyLast
      <3>4. /\ m \in Nat /\ k \in Nat /\ i \in Nat /\ Len(t) \in Nat /\ Len(w) \in Nat
            /\ Len(w) = Len(t) - m /\ Len(r) = Len(w) - k
        BY <2>2, <2>3, <2>6, <2>7
      <3> QED
        BY <3>3, <3>4
    <2>11. \A op : OnlyLast(t, op) => OnlyLast(r, op)
      BY <2>10 DEF OnlyLast
    <2> QED
      BY <2>5, <2>9, <2>11 DEF Elems, u
  <1> QED
    BY <1>1, <1>2

-----------------------------------------------------------------------------
(* The steps of plans *)

Reasons == Groups \cup {Self}
UserLists == (SUBSET Users) \cup {Unset}

\* What TaskManager.send puts into the queue.
Tasks ==
    [kind : {"enabled", "disabled"}]
    \cup [kind : {"updated"}, added : SUBSET Groups, removed : SUBSET Groups,
          usersAdded : SUBSET Users, usersRemoved : SUBSET Users]

GroupOps == {"link", "unlink", "grant_members", "revoke_members",
             "create_group", "delete_group", "remove_project", "drop_group"}
UserOps == {"request_home", "delete_user", "drop_user", "set_active"}
MemberOps == {"member_added", "member_removed", "force_remove", "remove_from_group"}
PlainOps == {"sync_groups", "synced", "refresh", "delete_message", "drop_project"} \cup Ends

Steps ==
    [op : GroupOps, g : Groups]
    \cup [op : UserOps, u : Users]
    \cup [op : MemberOps, g : Groups, u : Users]
    \cup [op : PlainOps]
    \cup [op : {"grant", "revoke"}, u : Users, by : Reasons]
    \cup [op : {"write"}, u : Users, row : SUBSET Reasons]
    \cup [op : {"add_to_group"}, u : Users, g : Groups, bypass : BOOLEAN]
    \cup [op : {"create_user"}, u : Users, groups : SUBSET Groups]
    \cup [op : {"compare"}, u : Users, added : SUBSET Groups, removed : SUBSET Groups,
          found : BOOLEAN]
    \cup [op : {"sync_users"}, groups : SUBSET Groups]
    \cup [op : {"store"}, state : {"enabled", "disabled"}, send : Seq(Tasks)]
    \cup [op : {"store"}, groups : SUBSET Groups, users : UserLists, send : Seq(Tasks)]
    \cup [op : {"send"}, task : Tasks]

\* The operations each actor has in its plans.
ApiOps == {"store", "send", "drop_project", "unlink", "revoke_members", "revoke", "write",
           "add_to_group", "catch_all", "set_active", "member_added", "grant"}
ProjectsOps == {"link", "unlink", "grant_members", "revoke_members", "grant", "revoke",
                "write", "refresh", "delete_message"}
SyncOps == {"sync_groups", "create_group", "delete_group", "force_remove", "remove_project",
            "drop_group", "sync_users", "create_user", "delete_user", "compare", "synced",
            "add_to_group", "remove_from_group", "request_home", "drop_user", "member_added",
            "member_removed", "grant", "revoke", "write", "unlink", "revoke_members"} \cup Ends
StepsOf(a) ==
    {s \in Steps : /\ s.op \in CASE a = "api" -> ApiOps
                                [] a = "projects" -> ProjectsOps
                                [] a = "sync" -> SyncOps
                   /\ a = "sync" /\ s.op = "add_to_group" => s.bypass = FALSE}

\* What a step has besides its operation.
LEMMA Fields ==
  ASSUME NEW s \in Steps
  PROVE  /\ s.op \in GroupOps \cup MemberOps \cup {"add_to_group"} => s.g \in Groups
         /\ s.op \in UserOps \cup MemberOps => s.u \in Users
         /\ s.op \in {"grant", "revoke"} => s.u \in Users /\ s.by \in Reasons
         /\ s.op = "write" => s.u \in Users /\ s.row \subseteq Reasons
         /\ s.op = "add_to_group" => s.u \in Users /\ s.bypass \in BOOLEAN
         /\ s.op = "create_user" => s.u \in Users /\ s.groups \subseteq Groups
         /\ s.op = "compare" => /\ s.u \in Users /\ s.added \subseteq Groups
                                /\ s.removed \subseteq Groups /\ s.found \in BOOLEAN
         /\ s.op = "sync_users" => s.groups \subseteq Groups
         /\ s.op = "send" => s.task \in Tasks
         /\ s.op = "store" => s.send \in Seq(Tasks)
         /\ s.op = "store" /\ "state" \in DOMAIN s => s.state \in {"enabled", "disabled"}
         /\ s.op = "store" /\ "state" \notin DOMAIN s =>
               s.groups \subseteq Groups /\ s.users \in UserLists
  BY DEF Steps, GroupOps, UserOps, MemberOps, PlainOps, Ends

\* A function over 1 .. n is a sequence.
LEMMA Enumerated ==
  ASSUME NEW n \in Nat, NEW s, s = [i \in 1 .. n |-> s[i]]
  PROVE  Len(s) = n /\ s \in Seq(Elems(s))
  <1>1. \A T : (\A i \in 1 .. n : s[i] \in T) => s \in Seq(T)
    OBVIOUS
  <1>2. Len(s) = n
    OBVIOUS
  <1>3. \A i \in 1 .. n : s[i] \in Elems(s)
    BY <1>2 DEF Elems
  <1> QED
    BY <1>1, <1>2, <1>3

\* ForEach has the steps of the function, and no others.
LEMMA EachStep ==
  ASSUME NEW f, IsFiniteSet(DOMAIN f), NEW s, s = ForEach(f)
  PROVE  Elems(s) = {f[x] : x \in DOMAIN f} /\ s \in Seq(Elems(s))
  <1> DEFINE o == SetToSeq(DOMAIN f)
             n == Len(o)
  <1>1. /\ \A i \in 1 .. n : o[i] \in DOMAIN f
        /\ DOMAIN o = 1 .. n /\ n \in Nat
        /\ \A x \in DOMAIN f : \E i \in 1 .. n : o[i] = x
    BY Listed, Zenon
  <1>2. s = [i \in DOMAIN o |-> f[o[i]]]
    BY DEF ForEach
  <1> HIDE DEF o, n
  <1>3. s = [i \in 1 .. n |-> s[i]] /\ \A i \in 1 .. n : s[i] = f[o[i]]
    BY <1>1, <1>2
  <1>4. Len(s) = n /\ s \in Seq(Elems(s))
    BY <1>1, <1>3, Enumerated
  <1>5. Elems(s) \subseteq {f[x] : x \in DOMAIN f}
    <2>1. \A i \in 1 .. n : s[i] \in {f[x] : x \in DOMAIN f}
      BY <1>1, <1>3
    <2> QED
      BY <1>4, <2>1, Zenon DEF Elems
  <1>6. ASSUME NEW x \in DOMAIN f
        PROVE  f[x] \in Elems(s)
    <2>1. PICK i \in 1 .. n : o[i] = x
      BY <1>1
    <2>2. s[i] = f[x]
      BY <1>3, <2>1
    <2> QED
      BY <1>4, <2>1, <2>2 DEF Elems
  <1> QED
    BY <1>4, <1>5, <1>6

\* The indices of two steps per element.
LEMMA Halves ==
  ASSUME NEW n \in Nat
  PROVE  /\ 2 * n \in Nat
         /\ \A i \in 1 .. 2 * n : i % 2 = 1 => (i + 1) \div 2 \in 1 .. n
         /\ \A j \in 1 .. n : 2 * j - 1 \in 1 .. 2 * n /\ (2 * j - 1) % 2 = 1 /\ (2 * j - 1 + 1) \div 2 = j
  OBVIOUS

\* ForEachThen has these, and the one that follows each.
LEMMA EachStepThen ==
  ASSUME NEW f, IsFiniteSet(DOMAIN f), NEW next, NEW s, s = ForEachThen(f, next)
  PROVE  /\ Elems(s) \subseteq {f[x] : x \in DOMAIN f} \cup {next}
         /\ {f[x] : x \in DOMAIN f} \subseteq Elems(s)
         /\ s \in Seq(Elems(s))
  <1> DEFINE o == SetToSeq(DOMAIN f)
             n == Len(o)
  <1>1. /\ \A i \in 1 .. n : o[i] \in DOMAIN f
        /\ n \in Nat /\ \A x \in DOMAIN f : \E i \in 1 .. n : o[i] = x
    BY Listed, Zenon
  <1>2. s = [i \in 1 .. 2 * n |-> IF i % 2 = 1 THEN f[o[(i + 1) \div 2]] ELSE next]
    BY DEF ForEachThen
  <1> HIDE DEF o, n
  <1>3. /\ s = [i \in 1 .. 2 * n |-> s[i]]
        /\ \A i \in 1 .. 2 * n : s[i] = IF i % 2 = 1 THEN f[o[(i + 1) \div 2]] ELSE next
    BY <1>2
  <1>4. Len(s) = 2 * n /\ s \in Seq(Elems(s))
    BY <1>1, <1>3, Halves, Enumerated
  <1>5. Elems(s) \subseteq {f[x] : x \in DOMAIN f} \cup {next}
    <2>1. ASSUME NEW i \in 1 .. 2 * n
          PROVE  s[i] \in {f[x] : x \in DOMAIN f} \cup {next}
      <3>1. CASE i % 2 = 1
        <4> DEFINE j == (i + 1) \div 2
        <4>1. j \in 1 .. n
          BY <1>1, <3>1, Halves
        <4>2. s[i] = f[o[j]]
          BY <1>3, <3>1
        <4> HIDE DEF j
        <4> QED
          BY <1>1, <4>1, <4>2
      <3>2. CASE i % 2 # 1
        BY <1>3, <3>2
      <3> QED
        BY <3>1, <3>2
    <2> QED
      BY <1>4, <2>1, Zenon DEF Elems
  <1>6. ASSUME NEW x \in DOMAIN f
        PROVE  f[x] \in Elems(s)
    <2>1. PICK j \in 1 .. n : o[j] = x
      BY <1>1
    <2> DEFINE i == 2 * j - 1
    <2>2. i \in 1 .. 2 * n /\ i % 2 = 1 /\ (i + 1) \div 2 = j
      BY <1>1, Halves
    <2> HIDE DEF i
    <2>3. s[i] = f[x]
      BY <1>3, <2>1, <2>2
    <2> QED
      BY <1>4, <2>2, <2>3 DEF Elems
  <1> QED
    BY <1>4, <1>5, <1>6

\* A sequence of steps of a set.
LEMMA Retyped ==
  ASSUME NEW S, NEW s \in Seq(S), NEW T, Elems(s) \subseteq T
  PROVE  s \in Seq(T)
  <1>1. Len(s) \in Nat /\ s = [i \in 1 .. Len(s) |-> s[i]]
    OBVIOUS
  <1>2. \A i \in 1 .. Len(s) : s[i] \in T
    BY DEF Elems
  <1>3. \A n \in Nat : s = [i \in 1 .. n |-> s[i]] /\ (\A i \in 1 .. n : s[i] \in T) => s \in Seq(T)
    OBVIOUS
  <1> QED
    BY <1>1, <1>2, <1>3

-----------------------------------------------------------------------------
(* The types *)

\* Every actor has a plan of its own steps.
PlansInv ==
    /\ todo \in [Actors -> Seq(Steps)]
    /\ \A a \in Actors : todo[a] \in Seq(StepsOf(a))

\* The task queue, and the task that is carried out.
QueueInv ==
    /\ tasks \in Seq(Tasks) /\ recent \subseteq Tasks
    /\ tries > 0 => tasks # <<>>
    /\ todo["projects"] # <<>> => tries > 0

\* The current step of an actor.
LEMMA Current ==
  ASSUME PlansInv, NEW a \in Actors, NEW op, At(a, op)
  PROVE  /\ todo[a] \in Seq(StepsOf(a)) /\ todo[a] # <<>>
         /\ Cur(a) \in StepsOf(a) /\ Cur(a) \in Steps /\ Cur(a).op = op
         /\ Cur(a) \in Elems(todo[a])
         /\ a = "api" => op \in ApiOps
         /\ a = "projects" => op \in ProjectsOps
         /\ a = "sync" => op \in SyncOps
  <1>1. todo[a] \in Seq(StepsOf(a)) /\ todo[a] # <<>> /\ todo[a][1].op = op
    BY DEF PlansInv, At
  <1>2. 1 \in 1 .. Len(todo[a])
    BY <1>1
  <1>3. todo[a][1] \in StepsOf(a) /\ todo[a][1] \in Elems(todo[a])
    BY <1>1, <1>2 DEF Elems
  <1> QED
    BY <1>1, <1>3 DEF Cur, StepsOf, Actors

\* The plan of an actor whose current step is done.
LEMMA Advance ==
  ASSUME PlansInv, NEW a \in Actors, todo[a] # <<>>, NEW s \in Seq(StepsOf(a)), Continue(a, s)
  PROVE  /\ PlansInv'
         /\ \A b \in Actors : b # a => todo'[b] = todo[b]
         /\ Elems(todo[a]) = {Cur(a)} \cup Elems(Tail(todo[a]))
         /\ Elems(todo'[a]) \subseteq Elems(s) \cup Elems(Tail(todo[a]))
         /\ \A x \in Elems(s) \cup Elems(Tail(todo[a])) : x.op \in Ends \/ x \in Elems(todo'[a])
         /\ Len(todo[a]) > 1 /\ LastOf(todo[a]).op \notin Ends =>
               todo'[a] # <<>> /\ LastOf(todo'[a]) = LastOf(todo[a])
         /\ Len(todo[a]) = 1 /\ s = <<>> => todo'[a] = <<>>
         /\ \A op : OnlyLast(todo[a], op) /\ (\A x \in Elems(s) : x.op # op) => OnlyLast(todo'[a], op)
         /\ Len(todo[a]) = 1 => \A op : OnlyLast(s, op) => OnlyLast(todo'[a], op)
  <1> DEFINE t == todo[a]
             r == Remaining(s \o Tail(t))
  <1>1. /\ t \in Seq(StepsOf(a)) /\ t # <<>> /\ Cur(a) = t[1]
        /\ StepsOf(a) \subseteq Steps
    BY DEF PlansInv, Cur, StepsOf
  <1>2. todo' = [todo EXCEPT ![a] = r]
    BY DEF Continue
  <1> HIDE DEF r
  <1>3. todo'[a] = r /\ \A b \in Actors : b # a => todo'[b] = todo[b]
    BY <1>2 DEF PlansInv
  <1>4. /\ r \in Seq(StepsOf(a))
        /\ Elems(t) = {t[1]} \cup Elems(Tail(t))
        /\ Elems(r) \subseteq Elems(s) \cup Elems(Tail(t))
        /\ \A x \in Elems(s) \cup Elems(Tail(t)) : x.op \in Ends \/ x \in Elems(r)
        /\ Len(t) > 1 /\ LastOf(t).op \notin Ends => r # <<>> /\ LastOf(r) = LastOf(t)
        /\ Len(t) = 1 /\ s = <<>> => r = <<>>
        /\ \A op : OnlyLast(t, op) /\ (\A x \in Elems(s) : x.op # op) => OnlyLast(r, op)
        /\ Len(t) = 1 => \A op : OnlyLast(s, op) => OnlyLast(r, op)
    <2>1. r = Remaining(s \o Tail(t))
      BY DEF r
    <2> HIDE DEF t
    <2> QED
      BY <1>1, <2>1, Continued
  <1>5. r \in Seq(Steps)
    BY <1>1, <1>4, ElemsOf, Retyped
  <1>6. PlansInv'
    BY <1>2, <1>3, <1>4, <1>5 DEF PlansInv
  <1> QED
    BY <1>1, <1>3, <1>4, <1>6

\* The plan of an actor after an exception.
LEMMA Escape ==
  ASSUME PlansInv, NEW a \in Actors, todo[a] # <<>>, NEW C, Raise(a, C)
  PROVE  /\ PlansInv'
         /\ \A b \in Actors : b # a => todo'[b] = todo[b]
         /\ Elems(todo[a]) = {Cur(a)} \cup Elems(Tail(todo[a]))
         /\ Elems(todo'[a]) \subseteq Elems(Tail(todo[a]))
         /\ \A op : OnlyLast(todo[a], op) => OnlyLast(todo'[a], op)
  <1> DEFINE t == todo[a]
             I == {i \in 1 .. Len(t) : t[i].op \in C}
             caught == IF I # {} THEN Min(I) ELSE 0
             r == IF caught = 0 THEN <<>> ELSE Remaining(SubSeq(t, caught + 1, Len(t)))
  <1>1. /\ t \in Seq(StepsOf(a)) /\ t # <<>> /\ Cur(a) = t[1]
        /\ StepsOf(a) \subseteq Steps
    BY DEF PlansInv, Cur, StepsOf
  <1>2. todo' = [todo EXCEPT ![a] = r]
    BY DEF Raise, SelectInSeq
  <1>3. todo'[a] = r /\ \A b \in Actors : b # a => todo'[b] = todo[b]
    <2> HIDE DEF r
    <2> QED
      BY <1>2 DEF PlansInv
  <1>4. I = {} => r = <<>>
    OBVIOUS
  <1>5. I # {} => r = Remaining(SubSeq(t, Min(I) + 1, Len(t)))
    <2>1. SUFFICES ASSUME I # {}
                   PROVE  caught # 0
      OBVIOUS
    <2>2. I \in SUBSET Nat /\ 0 \notin I
      OBVIOUS
    <2> HIDE DEF I
    <2>3. Min(I) \in I
      BY <2>1, <2>2, LeastOne
    <2> QED
      BY <2>1, <2>2, <2>3
  <1>6. I \subseteq 1 .. Len(t)
    OBVIOUS
  <1> HIDE DEF I, r
  <1>7. /\ r \in Seq(StepsOf(a)) /\ Elems(r) \subseteq Elems(Tail(t))
        /\ \A op : OnlyLast(t, op) => OnlyLast(r, op)
    <2> HIDE DEF t
    <2> QED
      BY <1>1, <1>4, <1>5, <1>6, Raised
  <1>8. Elems(t) = {t[1]} \cup Elems(Tail(t))
    <2> HIDE DEF t
    <2> QED
      BY <1>1, Continued
  <1>9. r \in Seq(Steps)
    BY <1>1, <1>7, ElemsOf, Retyped
  <1> QED
    BY <1>1, <1>2, <1>3, <1>7, <1>8, <1>9 DEF PlansInv

\* Single steps in sequences.
LEMMA Singles ==
  ASSUME NEW S
  PROVE  /\ <<>> \in Seq(S) /\ Elems(<<>>) = {}
         /\ \A x \in S : <<x>> \in Seq(S)
         /\ \A x : Elems(<<x>>) = {x}
  BY ElemsOf

\* Subsets of the users and the groups are finite.
LEMMA Finite == \A S \in (SUBSET Users) \cup (SUBSET Groups) : IsFiniteSet(S)
  BY MembershipParameters, FS_Subset

\* ForEach makes a plan of the steps it is given.
LEMMA Fan ==
  ASSUME NEW S, NEW D \in (SUBSET Users) \cup (SUBSET Groups), NEW f \in [D -> S], NEW s,
         s = ForEach(f)
  PROVE  /\ s \in Seq(S)
         /\ \A x \in Elems(s) : \E d \in D : x = f[d]
         /\ \A d \in D : f[d] \in Elems(s)
  <1>1. DOMAIN f = D /\ IsFiniteSet(DOMAIN f)
    BY Finite
  <1>2. Elems(s) = {f[x] : x \in D} /\ s \in Seq(Elems(s))
    BY <1>1, EachStep
  <1>3. Elems(s) \subseteq S
    BY <1>2
  <1>4. s \in Seq(S)
    BY <1>2, <1>3, Retyped
  <1> QED
    BY <1>2, <1>4

\* So does ForEachThen, with the step that follows each.
LEMMA ThenFan ==
  ASSUME NEW S, NEW D \in (SUBSET Users) \cup (SUBSET Groups), NEW f \in [D -> S], NEW c \in S,
         NEW s, s = ForEachThen(f, c)
  PROVE  /\ s \in Seq(S)
         /\ \A x \in Elems(s) : (\E d \in D : x = f[d]) \/ x = c
         /\ \A d \in D : f[d] \in Elems(s)
  <1>1. DOMAIN f = D /\ IsFiniteSet(DOMAIN f)
    BY Finite
  <1>2. /\ Elems(s) \subseteq {f[x] : x \in D} \cup {c}
        /\ {f[x] : x \in D} \subseteq Elems(s)
        /\ s \in Seq(Elems(s))
    BY <1>1, EachStepThen
  <1>3. Elems(s) \subseteq S
    <2>1. {f[x] : x \in D} \subseteq S
      OBVIOUS
    <2> HIDE DEF Elems
    <2> QED
      BY <1>2, <2>1
  <1>4. s \in Seq(S)
    BY <1>2, <1>3, Retyped
  <1>5. \A x \in Elems(s) : (\E d \in D : x = f[d]) \/ x = c
    BY <1>2
  <1> QED
    BY <1>2, <1>4, <1>5

\* And so does Tried.
LEMMA TriedFan ==
  ASSUME NEW S, NEW D \in (SUBSET Users) \cup (SUBSET Groups), NEW f \in [D -> S], NEW s,
         s = Tried(f),
         [op |-> "catch_all"] \in S
  PROVE  /\ s \in Seq(S)
         /\ \A x \in Elems(s) : (\E d \in D : x = f[d]) \/ x = [op |-> "catch_all"]
         /\ \A d \in D : f[d] \in Elems(s)
  <1> DEFINE c == [op |-> "catch_all"]
  <1>1. s = ForEachThen(f, c) /\ c \in S
    BY DEF Tried
  <1> HIDE DEF c
  <1>2. DOMAIN f = D /\ IsFiniteSet(DOMAIN f)
    BY Finite
  <1>3. /\ Elems(s) \subseteq {f[x] : x \in D} \cup {c}
        /\ {f[x] : x \in D} \subseteq Elems(s)
        /\ s \in Seq(Elems(s))
    BY <1>1, <1>2, EachStepThen
  <1>4. {f[x] : x \in D} \subseteq S
    OBVIOUS
  <1>5. s \in Seq(S)
    BY <1>1, <1>3, <1>4, Retyped
  <1>6. \A x \in Elems(s) : (\E d \in D : x = f[d]) \/ x = c
    BY <1>3
  <1>7. \A d \in D : f[d] \in Elems(s)
    BY <1>3
  <1> QED
    BY <1>5, <1>6, <1>7 DEF c

-----------------------------------------------------------------------------
(* The steps of UserProjects *)

\* The tables have the types TypeOK gives them.
Tables ==
    /\ user \in [Users -> {NoRow} \cup [enabled : BOOLEAN, active : BOOLEAN, groups : SUBSET Groups]]
    /\ group \in [Groups -> {"none", "enabled", "disabled"}]
    /\ members \in [Groups -> SUBSET Users]
    /\ project \in [state : {"none", "enabled", "disabled", "deleted"},
                    groups : SUBSET Groups, users : UserLists]
    /\ links \subseteq Groups
    /\ access \in [Users -> SUBSET Reasons]

\* The steps that only change the access.
AccessOps == {"link", "unlink", "grant_members", "revoke_members", "grant", "revoke", "write",
              "member_added", "member_removed", "refresh"}

\* project_enabled and project_disabled.
LEMMA Projected ==
  ASSUME Tables
  PROVE  /\ Named \subseteq Users
         /\ ProjectEnabled \in Seq(StepsOf("projects"))
         /\ ProjectDisabled \in Seq(StepsOf("projects"))
         /\ \A x \in Elems(ProjectEnabled) \cup Elems(ProjectDisabled) : x.op \in AccessOps
  <1>1. Named \subseteq Users /\ project.groups \subseteq Groups
    BY DEF Tables, Named, UserLists
  <1> DEFINE S == StepsOf("projects")
             A == [g \in project.groups |-> GroupAdded(g)]
             B == [u \in Named |-> CreateUserProject(u, Self)]
             C == [g \in project.groups |-> GroupRemoved(g)]
             D == [u \in Named |-> DeleteUserProject(u, Self)]
  <1>2. /\ A \in [project.groups -> S] /\ B \in [Named -> S]
        /\ C \in [project.groups -> S] /\ D \in [Named -> S]
    BY <1>1
       DEF StepsOf, Steps, ProjectsOps, GroupOps, GroupAdded, GroupRemoved,
           CreateUserProject,
                DeleteUserProject, Reasons
  <1>3. ProjectEnabled = ForEach(A) \o ForEach(B) /\ ProjectDisabled = ForEach(C) \o ForEach(D)
    BY DEF ProjectEnabled, ProjectDisabled
  <1>4. /\ \A x \in project.groups : A[x].op \in AccessOps /\ C[x].op \in AccessOps
        /\ \A x \in Named : B[x].op \in AccessOps /\ D[x].op \in AccessOps
    BY DEF AccessOps, GroupAdded, GroupRemoved, CreateUserProject, DeleteUserProject
  <1> HIDE DEF S, A, B, C, D
  <1>5. ASSUME NEW E \in (SUBSET Users) \cup (SUBSET Groups), NEW f \in [E -> S],
               \A x \in E : f[x].op \in AccessOps
        PROVE  ForEach(f) \in Seq(S) /\ \A x \in Elems(ForEach(f)) : x.op \in AccessOps
    <2> DEFINE s == ForEach(f)
    <2>0. s = ForEach(f)
      OBVIOUS
    <2> HIDE DEF s
    <2>1. s \in Seq(S) /\ \A x \in Elems(s) : \E d \in E : x = f[d]
      BY <1>5, <2>0, Fan
    <2>2. \A x \in Elems(s) : x.op \in AccessOps
      BY <1>5, <2>1
    <2> QED
      BY <2>1, <2>2 DEF s
  <1>6. /\ ForEach(A) \in Seq(S) /\ \A x \in Elems(ForEach(A)) : x.op \in AccessOps
        /\ ForEach(C) \in Seq(S) /\ \A x \in Elems(ForEach(C)) : x.op \in AccessOps
    BY <1>1, <1>2, <1>4, <1>5
  <1>7. /\ ForEach(B) \in Seq(S) /\ \A x \in Elems(ForEach(B)) : x.op \in AccessOps
        /\ ForEach(D) \in Seq(S) /\ \A x \in Elems(ForEach(D)) : x.op \in AccessOps
    BY <1>1, <1>2, <1>4, <1>5
  <1>8. /\ ProjectEnabled \in Seq(S)
        /\ Elems(ProjectEnabled) = Elems(ForEach(A)) \cup Elems(ForEach(B))
        /\ ProjectDisabled \in Seq(S)
        /\ Elems(ProjectDisabled) = Elems(ForEach(C)) \cup Elems(ForEach(D))
    BY <1>3, <1>6, <1>7, ElemsOf
  <1>9. \A x \in Elems(ProjectEnabled) \cup Elems(ProjectDisabled) : x.op \in AccessOps
    BY <1>6, <1>7, <1>8
  <1> QED
    BY <1>1, <1>8, <1>9 DEF S

\* A step of UserProjects leaves the actor with steps of the same kind and those
\* it had, and changes only links and access.
LEMMA UserProjectsTypes ==
  ASSUME Tables, PlansInv, NEW a \in Actors, UserProjectsStep(a)
  PROVE  /\ Tables' /\ PlansInv'
         /\ UNCHANGED <<user, group, members, project, excuse>>
         /\ todo[a] # <<>> /\ Cur(a).op \in AccessOps
         /\ \A b \in Actors : b # a => todo'[b] = todo[b]
         /\ \A x \in Elems(todo'[a]) : x \in Elems(Tail(todo[a])) \/ x.op \in AccessOps
         /\ Elems(todo[a]) = {Cur(a)} \cup Elems(Tail(todo[a]))
         /\ \A op : op \notin AccessOps /\ OnlyLast(todo[a], op) => OnlyLast(todo'[a], op)
         /\ Cur(a).op \notin {"revoke", "refresh"} =>
               \A x \in Elems(Tail(todo[a])) : x.op \in Ends \/ x \in Elems(todo'[a])
  <1> DEFINE Goal ==
               /\ Tables' /\ PlansInv'
               /\ UNCHANGED <<user, group, members, project, excuse>>
               /\ todo[a] # <<>> /\ Cur(a).op \in AccessOps
               /\ \A b \in Actors : b # a => todo'[b] = todo[b]
               /\ \A x \in Elems(todo'[a]) : x \in Elems(Tail(todo[a])) \/ x.op \in AccessOps
               /\ Elems(todo[a]) = {Cur(a)} \cup Elems(Tail(todo[a]))
               /\ \A op : op \notin AccessOps /\ OnlyLast(todo[a], op) => OnlyLast(todo'[a], op)
               /\ Cur(a).op \notin {"revoke", "refresh"} =>
                     \A x \in Elems(Tail(todo[a])) : x.op \in Ends \/ x \in Elems(todo'[a])
  <1>1. ASSUME NEW s \in Seq(StepsOf(a)), todo[a] # <<>>, Continue(a, s), Tables',
               Cur(a).op \in AccessOps,
               UNCHANGED <<user, group, members, project, excuse>>,
               \A x \in Elems(s) : x.op \in AccessOps
        PROVE  Goal
    <2>1. /\ PlansInv'
          /\ \A b \in Actors : b # a => todo'[b] = todo[b]
          /\ Elems(todo[a]) = {Cur(a)} \cup Elems(Tail(todo[a]))
          /\ Elems(todo'[a]) \subseteq Elems(s) \cup Elems(Tail(todo[a]))
          /\ \A x \in Elems(Tail(todo[a])) : x.op \in Ends \/ x \in Elems(todo'[a])
      BY <1>1, Advance
    <2>2. \A op : OnlyLast(todo[a], op) /\ (\A x \in Elems(s) : x.op # op) => OnlyLast(todo'[a], op)
      BY <1>1, Advance
    <2>3. \A op : op \notin AccessOps => \A x \in Elems(s) : x.op # op
      BY <1>1
    <2>4. \A x \in Elems(todo'[a]) : x \in Elems(Tail(todo[a])) \/ x.op \in AccessOps
      BY <1>1, <2>1
    <2>5. \A op : op \notin AccessOps /\ OnlyLast(todo[a], op) => OnlyLast(todo'[a], op)
      BY <2>2, <2>3
    <2> QED
      BY <1>1, <2>1, <2>4, <2>5
  <1>2. ASSUME NEW C, todo[a] # <<>>, Raise(a, C), Tables', Cur(a).op \in {"revoke", "refresh"},
               UNCHANGED <<user, group, members, project, excuse>>
        PROVE  Goal
    BY <1>2, Escape DEF AccessOps
  <1> SUFFICES Goal
    OBVIOUS
  <1> HIDE DEF Goal
  <1>3. CASE Link(a)
    <2>1. a = "projects" /\ Cur(a).g \in Groups /\ todo[a] # <<>> /\ Cur(a).op \in AccessOps
      BY <1>3, Current, Fields DEF Link, ApiOps, SyncOps, Ends, Actors, GroupOps, AccessOps
    <2> DEFINE x == [op |-> "grant_members", g |-> Cur(a).g]
    <2>2. x \in StepsOf(a) /\ x.op \in AccessOps
      BY <2>1 DEF StepsOf, Steps, GroupOps, ProjectsOps, AccessOps
    <2> HIDE DEF x
    <2>3. Tables'
      BY <1>3, <2>1 DEF Link, Tables
    <2>4. Continue(a, <<x>>) /\ UNCHANGED <<user, group, members, project, excuse>>
      BY <1>3 DEF Link, x
    <2> QED
      BY <1>1, <2>1, <2>2, <2>3, <2>4, Singles
  <1>4. CASE Unlink(a)
    <2>1. Cur(a).g \in Groups /\ todo[a] # <<>> /\ Cur(a).op \in AccessOps
      BY <1>4, Current, Fields DEF Unlink, GroupOps, AccessOps
    <2> DEFINE x == [op |-> "revoke_members", g |-> Cur(a).g]
    <2>2. x \in StepsOf(a) /\ x.op \in AccessOps
      BY <2>1 DEF StepsOf, Steps, GroupOps, ProjectsOps, ApiOps, SyncOps, Actors, AccessOps
    <2> HIDE DEF x
    <2>3. Tables'
      BY <1>4, <2>1 DEF Unlink, Tables
    <2>4. Continue(a, <<x>>) /\ UNCHANGED <<user, group, members, project, excuse>>
      BY <1>4 DEF Unlink, x
    <2> QED
      BY <1>1, <2>1, <2>2, <2>3, <2>4, Singles
  <1>5. CASE GrantMembers(a)
    <2>1. a = "projects" /\ Cur(a).g \in Groups /\ todo[a] # <<>> /\ Cur(a).op \in AccessOps
      BY <1>5, Current, Fields
         DEF GrantMembers, ApiOps, SyncOps, Ends, Actors, GroupOps, AccessOps
    <2> DEFINE D == members[Cur(a).g]
               f == [u \in D |-> CreateUserProject(u, Cur(a).g)]
    <2>2. D \subseteq Users /\ Continue(a, ForEach(f)) /\ UNCHANGED <<tables, excuse>>
      BY <1>5, <2>1 DEF GrantMembers, Tables
    <2>3. f \in [D -> StepsOf(a)] /\ \A u \in D : f[u].op \in AccessOps
      BY <2>1, <2>2 DEF StepsOf, Steps, ProjectsOps, CreateUserProject, Reasons, AccessOps
    <2> HIDE DEF D, f
    <2> DEFINE s == ForEach(f)
    <2>4. s \in Seq(StepsOf(a)) /\ \A x \in Elems(s) : x.op \in AccessOps
      <3>1. D \in (SUBSET Users) \cup (SUBSET Groups) /\ f \in [D -> StepsOf(a)] /\ s = ForEach(f)
        BY <2>2, <2>3
      <3> HIDE DEF s
      <3>2. s \in Seq(StepsOf(a))
        BY <3>1, Fan
      <3>3. \A x \in Elems(s) : \E d \in D : x = f[d]
        BY <3>1, Fan
      <3> QED
        BY <2>3, <3>2, <3>3
    <2>5. Tables' /\ UNCHANGED <<user, group, members, project, excuse>>
      BY <2>2 DEF tables, Tables
    <2>6. Continue(a, s)
      BY <2>2
    <2> HIDE DEF s
    <2> QED
      BY <1>1, <2>1, <2>4, <2>5, <2>6
  <1>6. CASE RevokeMembers(a)
    <2>1. Cur(a).g \in Groups /\ todo[a] # <<>> /\ Cur(a).op \in AccessOps
      BY <1>6, Current, Fields DEF RevokeMembers, GroupOps, AccessOps
    <2> DEFINE D == members[Cur(a).g]
               f == [u \in D |-> DeleteUserProject(u, Cur(a).g)]
    <2>2. D \subseteq Users /\ Continue(a, ForEach(f)) /\ UNCHANGED <<tables, excuse>>
      BY <1>6, <2>1 DEF RevokeMembers, Tables
    <2>3. f \in [D -> StepsOf(a)] /\ \A u \in D : f[u].op \in AccessOps
      BY <2>1, <2>2
         DEF StepsOf, Steps, ProjectsOps, ApiOps, SyncOps, Actors, DeleteUserProject,
             Reasons, AccessOps
    <2> HIDE DEF D, f
    <2> DEFINE s == ForEach(f)
    <2>4. s \in Seq(StepsOf(a)) /\ \A x \in Elems(s) : x.op \in AccessOps
      <3>1. D \in (SUBSET Users) \cup (SUBSET Groups) /\ f \in [D -> StepsOf(a)] /\ s = ForEach(f)
        BY <2>2, <2>3
      <3> HIDE DEF s
      <3>2. s \in Seq(StepsOf(a))
        BY <3>1, Fan
      <3>3. \A x \in Elems(s) : \E d \in D : x = f[d]
        BY <3>1, Fan
      <3> QED
        BY <2>3, <3>2, <3>3
    <2>5. Tables' /\ UNCHANGED <<user, group, members, project, excuse>>
      BY <2>2 DEF tables, Tables
    <2>6. Continue(a, s)
      BY <2>2
    <2> HIDE DEF s
    <2> QED
      BY <1>1, <2>1, <2>4, <2>5, <2>6
  <1>7. CASE MemberChanged(a)
    <2> DEFINE x == CreateUserProject(Cur(a).u, Cur(a).g)
               y == DeleteUserProject(Cur(a).u, Cur(a).g)
    <2>1. At(a, "member_added") \/ At(a, "member_removed")
      BY <1>7 DEF MemberChanged
    <2>2. /\ Cur(a).g \in Groups /\ Cur(a).u \in Users /\ todo[a] # <<>> /\ Cur(a).op \in AccessOps
          /\ a \in {"api", "sync"} /\ (At(a, "member_removed") => a = "sync")
      BY <2>1, Current, Fields DEF MemberOps, AccessOps, Actors, ProjectsOps, ApiOps
    <2>3. /\ x \in StepsOf(a) /\ x.op \in AccessOps
          /\ y.op \in AccessOps /\ (a = "sync" => y \in StepsOf(a))
      BY <2>2
         DEF StepsOf, Steps, ApiOps, SyncOps, CreateUserProject, DeleteUserProject,
             Reasons, AccessOps
    <2>4. /\ \/ Continue(a, <<x>>) \/ Continue(a, <<>>) \/ (a = "sync" /\ Continue(a, <<y>>))
          /\ UNCHANGED <<tables, excuse>>
      BY <1>7, <2>2 DEF MemberChanged
    <2> HIDE DEF x, y
    <2>5. Tables' /\ UNCHANGED <<user, group, members, project, excuse>>
      BY <2>4 DEF tables, Tables
    <2>6. CASE Continue(a, <<x>>)
      BY <1>1, <2>2, <2>3, <2>5, <2>6, Singles
    <2>7. CASE Continue(a, <<>>)
      BY <1>1, <2>2, <2>5, <2>7, Singles
    <2>8. CASE a = "sync" /\ Continue(a, <<y>>)
      <3> DEFINE s == <<y>>
      <3>1. s \in Seq(StepsOf(a)) /\ \A z \in Elems(s) : z.op \in AccessOps
        BY <2>3, <2>8, Singles
      <3>2. Continue(a, s)
        BY <2>8
      <3> HIDE DEF s
      <3> QED
        BY <1>1, <2>2, <2>5, <3>1, <3>2
    <2> QED
      BY <2>4, <2>6, <2>7, <2>8
  <1>8. CASE Grant(a)
    <2>1. Cur(a).u \in Users /\ Cur(a).by \in Reasons /\ todo[a] # <<>> /\ Cur(a).op \in AccessOps
      BY <1>8, Current, Fields DEF Grant, AccessOps
    <2> DEFINE x == [op |-> "write", u |-> Cur(a).u, row |-> access[Cur(a).u] \cup {Cur(a).by}]
    <2>2. x \in StepsOf(a) /\ x.op \in AccessOps
      BY <2>1 DEF StepsOf, Steps, Tables, ProjectsOps, ApiOps, SyncOps, Actors, AccessOps
    <2> HIDE DEF x
    <2>4. Continue(a, <<x>>) /\ UNCHANGED <<tables, excuse>>
      BY <1>8 DEF Grant, x
    <2> QED
      BY <1>1, <2>1, <2>2, <2>4, Singles DEF tables, Tables
  <1>9. CASE Revoke(a)
    <2>1. Cur(a).u \in Users /\ Cur(a).by \in Reasons /\ todo[a] # <<>> /\ Cur(a).op \in AccessOps
      BY <1>9, Current, Fields DEF Revoke, AccessOps
    <2> DEFINE x == [op |-> "write", u |-> Cur(a).u, row |-> access[Cur(a).u] \ {Cur(a).by}]
    <2>2. x \in StepsOf(a) /\ x.op \in AccessOps
      BY <2>1 DEF StepsOf, Steps, Tables, ProjectsOps, ApiOps, SyncOps, Actors, AccessOps
    <2>3. /\ RaiseSoca(a) \/ Continue(a, <<>>) \/ Continue(a, <<x>>)
          /\ UNCHANGED <<tables, excuse>>
      BY <1>9 DEF Revoke
    <2> HIDE DEF x
    <2>4. Tables' /\ UNCHANGED <<user, group, members, project, excuse>>
      BY <2>3 DEF tables, Tables
    <2>5. CASE RaiseSoca(a)
      BY <1>2, <1>9, <2>1, <2>4, <2>5 DEF RaiseSoca, Revoke, At, Cur
    <2>6. CASE Continue(a, <<>>)
      BY <1>1, <2>1, <2>4, <2>6, Singles
    <2>7. CASE Continue(a, <<x>>)
      BY <1>1, <2>1, <2>2, <2>4, <2>7, Singles
    <2> QED
      BY <2>3, <2>5, <2>6, <2>7
  <1>10. CASE Write(a)
    <2>1. /\ Cur(a).u \in Users /\ Cur(a).row \subseteq Reasons /\ todo[a] # <<>>
          /\ Cur(a).op \in AccessOps
      BY <1>10, Current, Fields DEF Write, AccessOps
    <2>2. Tables'
      BY <1>10, <2>1 DEF Write, Tables
    <2>3. Continue(a, <<>>) /\ UNCHANGED <<user, group, members, project, excuse>>
      BY <1>10 DEF Write, Done
    <2> QED
      BY <1>1, <2>1, <2>2, <2>3, Singles
  <1>11. CASE Refresh(a)
    <2>1. a = "projects" /\ todo[a] # <<>> /\ Cur(a).op \in AccessOps
      BY <1>11, Current DEF Refresh, ApiOps, SyncOps, Ends, Actors, AccessOps
    <2>2. Tables' /\ UNCHANGED <<user, group, members, project, excuse>>
      BY <1>11 DEF Refresh, tables, Tables
    <2>3. CASE RaiseOther(a)
      BY <1>2, <1>11, <2>1, <2>2, <2>3 DEF RaiseOther, Refresh, At, Cur
    <2>4. CASE Continue(a, ProjectEnabled)
      <3>1. \A x \in Elems(ProjectEnabled) : x.op \in AccessOps
        BY Projected
      <3> QED
        BY <1>1, <2>1, <2>2, <2>4, <3>1, Projected
    <2> QED
      BY <1>11, <2>3, <2>4 DEF Refresh
  <1> QED
    BY <1>3, <1>4, <1>5, <1>6, <1>7, <1>8, <1>9, <1>10, <1>11 DEF UserProjectsStep

-----------------------------------------------------------------------------
(* The steps of DirectorySync *)

Excuses == {"silent", "overtaken", "deduped", "dropped", "orphaned", "missed", "unhoused",
            "interrupted", "stale"}

\* The other variables have the types TypeOK gives them.
Others ==
    /\ excuse \subseteq Excuses
    /\ ad \in [groups : SUBSET Groups, of : [Users -> {NoRow} \cup SUBSET Groups],
               renamed : SUBSET Users]
    /\ homes \subseteq Users
    /\ synced \in {"no", "running", "yes"}
    /\ faults \in 0 .. MaxFaults

\* The steps that read the directory, those that expect the user's row, and
\* those that take it away.
Reading == {"sync_groups", "sync_users"}
Needy == {"compare", "remove_from_group"}
Leaving == {"delete_user", "drop_user"}

\* A synchronisation takes no row away that it still needs: who stays and who
\* goes is decided at once.
SyncInv ==
    /\ \A op \in Reading : OnlyLast(todo["sync"], op)
    /\ \A s, x \in Elems(todo["sync"]) :
          /\ s.op \in Reading => x.op \notin Needy \cup Leaving
          /\ s.op \in Needy /\ x.op \in Leaving => x.u # s.u
    /\ \A s \in Elems(todo["sync"]) : s.op \in Needy => user[s.u] # NoRow

\* A step that another one turns into.
Inherits(x, c) ==
    /\ x.op \notin Reading
    /\ x.op \in Needy => c.op \in Needy /\ x.u = c.u
    /\ x.op \in Leaving => c.op \in Leaving /\ x.u = c.u

\* So it is after a step of the synchronisation that only reads its own plan.
LEMMA SyncKept ==
  ASSUME SyncInv, PlansInv', NEW c \in Elems(todo["sync"]),
         \A op \in Reading : OnlyLast(todo'["sync"], op),
         \A x \in Elems(todo'["sync"]) : x \in Elems(todo["sync"]) \/ Inherits(x, c),
         \A u \in Users : user[u] # NoRow => user'[u] # NoRow \/ (c.op = "drop_user" /\ c.u = u)
  PROVE  SyncInv'
  <1>1. ASSUME NEW s \in Elems(todo'["sync"]), NEW x \in Elems(todo'["sync"])
        PROVE  /\ s.op \in Reading => x.op \notin Needy \cup Leaving
               /\ s.op \in Needy /\ x.op \in Leaving => x.u # s.u
    BY DEF SyncInv, Inherits, Reading, Needy, Leaving
  <1>2. ASSUME NEW s \in Elems(todo'["sync"]), s.op \in Needy
        PROVE  user'[s.u] # NoRow
    <2>1. s \in Steps
      BY ElemsOf DEF PlansInv, Actors
    <2>2. s.u \in Users
      BY <1>2, <2>1, Fields DEF Needy, MemberOps
    <2>3. user[s.u] # NoRow /\ ~(c.op = "drop_user" /\ c.u = s.u)
      BY <1>2 DEF SyncInv, Inherits, Needy, Leaving
    <2> QED
      BY <2>2, <2>3
  <1> QED
    BY <1>1, <1>2 DEF SyncInv

\* A step of DirectorySync keeps the types; only the synchronisation takes
\* them, but for add_users_to_group.
LEMMA DirectoryTypes ==
  ASSUME Tables, Others, PlansInv, SyncInv, NEW a \in Actors, DirectoryStep(a)
  PROVE  /\ Tables' /\ Others' /\ PlansInv' /\ SyncInv'
         /\ todo[a] # <<>> /\ a \in {"api", "sync"} /\ (a = "api" => AddUsersToGroup(a))
         /\ \A b \in Actors : b # a => todo'[b] = todo[b]
  <1> DEFINE Goal ==
               /\ Tables' /\ Others' /\ PlansInv' /\ SyncInv'
               /\ todo[a] # <<>> /\ a \in {"api", "sync"} /\ (a = "api" => AddUsersToGroup(a))
               /\ \A b \in Actors : b # a => todo'[b] = todo[b]
             Safe == \A u \in Users : user[u] # NoRow =>
                        user'[u] # NoRow \/ (a = "sync" /\ Cur(a).op = "drop_user" /\ Cur(a).u = u)
             Mine == todo[a] # <<>> /\ a \in {"api", "sync"} /\ (a = "api" => AddUsersToGroup(a))
  <1>0. ASSUME PlansInv', Safe, Mine, \A b \in Actors : b # a => todo'[b] = todo[b],
               Elems(todo[a]) = {Cur(a)} \cup Elems(Tail(todo[a])),
               a = "sync" => \A x \in Elems(todo'[a]) : x \in Elems(Tail(todo[a])) \/ Inherits(x, Cur(a)),
               a = "sync" => \A op \in Reading : OnlyLast(todo'[a], op)
        PROVE  SyncInv'
    <2>1. CASE a = "sync"
      <3>1. /\ Cur("sync") \in Elems(todo["sync"])
            /\ \A x \in Elems(todo'["sync"]) : x \in Elems(todo["sync"]) \/ Inherits(x, Cur("sync"))
            /\ \A op \in Reading : OnlyLast(todo'["sync"], op)
        BY <1>0, <2>1
      <3>2. \A u \in Users : user[u] # NoRow =>
               user'[u] # NoRow \/ (Cur("sync").op = "drop_user" /\ Cur("sync").u = u)
        BY <1>0, <2>1
      <3> QED
        BY <1>0, <3>1, <3>2, SyncKept
    <2>2. CASE a # "sync"
      <3>1. todo'["sync"] = todo["sync"]
        BY <1>0, <2>2 DEF Actors
      <3>2. \A u \in Users : user[u] # NoRow => user'[u] # NoRow
        BY <1>0, <2>2
      <3>3. ASSUME NEW s \in Elems(todo["sync"]), s.op \in Needy
            PROVE  s.u \in Users
        <4>1. s \in Steps
          BY ElemsOf DEF PlansInv, Actors
        <4> QED
          BY <3>3, <4>1, Fields DEF Needy, MemberOps
      <3> QED
        BY <3>1, <3>2, <3>3 DEF SyncInv
    <2> QED
      BY <2>1, <2>2
  <1>1. ASSUME NEW s \in Seq(StepsOf(a)), Continue(a, s), Tables', Others', Mine, Safe,
               a = "sync" => \A x \in Elems(s) : Inherits(x, Cur(a))
        PROVE  Goal
    <2>1. /\ PlansInv'
          /\ \A b \in Actors : b # a => todo'[b] = todo[b]
          /\ Elems(todo[a]) = {Cur(a)} \cup Elems(Tail(todo[a]))
          /\ Elems(todo'[a]) \subseteq Elems(s) \cup Elems(Tail(todo[a]))
          /\ \A op : OnlyLast(todo[a], op) /\ (\A x \in Elems(s) : x.op # op) => OnlyLast(todo'[a], op)
      BY <1>1, Advance
    <2>2. a = "sync" => \A op \in Reading : OnlyLast(todo'[a], op)
      BY <1>1, <2>1 DEF SyncInv, Inherits
    <2>3. SyncInv'
      <3> HIDE DEF Safe, Mine
      <3>1. a = "sync" => \A x \in Elems(todo'[a]) : x \in Elems(Tail(todo[a])) \/ Inherits(x, Cur(a))
        BY <1>1, <2>1
      <3> QED
        BY <1>0, <1>1, <2>1, <2>2, <3>1
    <2> QED
      BY <1>1, <2>1, <2>3
  <1>2. ASSUME NEW C, Raise(a, C), Tables', Others', Mine, Safe
        PROVE  Goal
    <2>1. /\ PlansInv'
          /\ \A b \in Actors : b # a => todo'[b] = todo[b]
          /\ Elems(todo[a]) = {Cur(a)} \cup Elems(Tail(todo[a]))
          /\ Elems(todo'[a]) \subseteq Elems(Tail(todo[a]))
          /\ \A op : OnlyLast(todo[a], op) => OnlyLast(todo'[a], op)
      BY <1>2, Escape
    <2>2. a = "sync" => \A op \in Reading : OnlyLast(todo'[a], op)
      BY <2>1 DEF SyncInv
    <2>3. SyncInv'
      <3> HIDE DEF Safe, Mine
      <3> QED
        BY <1>0, <1>2, <2>1, <2>2
    <2> QED
      BY <1>2, <2>1, <2>3
  <1> SUFFICES Goal
    OBVIOUS
  <1> HIDE DEF Goal, Safe, Mine
  <1> DEFINE Row == [enabled : BOOLEAN, active : BOOLEAN, groups : SUBSET Groups]
  <1>3. ASSUME NEW u \in Users, user[u] # NoRow, NEW G \in SUBSET Groups,
               user' = [user EXCEPT ![u].groups = G]
        PROVE  user' \in [Users -> {NoRow} \cup Row] /\ Safe
    <2>1. user[u] \in Row
      BY <1>3 DEF Tables
    <2>2. [user[u] EXCEPT !.groups = G] \in Row
      BY <2>1
    <2>3. user' \in [Users -> {NoRow} \cup Row] /\ \A v \in Users : v # u => user'[v] = user[v]
      BY <1>3, <2>2 DEF Tables
    <2>4. user'[u] \in Row
      BY <1>3, <2>2 DEF Tables
    <2> QED
      BY <2>3, <2>4, MembershipParameters DEF Safe
  <1>4. (user' = user) => Safe
    BY DEF Safe
  <1>5. CASE AddUsersToGroup(a)
    <2> DEFINE u == Cur(a).u
               g == Cur(a).g
               X == CASE a = "api" -> {"missed"}
                      [] Creating(a, u) -> {"unhoused"}
                      [] OTHER -> {}
    <2>1. u \in Users /\ g \in Groups /\ Mine /\ Cur(a).op = "add_to_group"
      BY <1>5, Current, Fields DEF AddUsersToGroup, Mine, ProjectsOps, Actors
    <2>2. X \subseteq Excuses
      BY DEF Excuses
    <2>3. UNCHANGED directoryVars
      BY <1>5 DEF AddUsersToGroup
    <2>4. CASE group[g] # "enabled" \/ user[u] = NoRow \/ ~user[u].enabled
      <3>1. RaiseSoca(a) /\ excuse' = excuse \cup X /\ UNCHANGED tables
        BY <1>5, <2>4 DEF AddUsersToGroup
      <3> HIDE DEF X
      <3>2. Tables' /\ Others' /\ user' = user
        BY <2>2, <2>3, <3>1 DEF tables, Tables, Others, directoryVars
      <3> QED
        BY <1>2, <1>4, <2>1, <3>1, <3>2 DEF RaiseSoca
    <2>5. CASE ~(group[g] # "enabled" \/ user[u] = NoRow \/ ~user[u].enabled)
      <3> DEFINE x == MemberAdded(g, u)
      <3>1. /\ user' = [user EXCEPT ![u].groups = @ \cup {g}] /\ user[u] # NoRow
            /\ \/ members' = [members EXCEPT ![g] = @ \cup {u}] /\ Continue(a, <<x>>)
               \/ Done(a) /\ UNCHANGED members
            /\ UNCHANGED <<group, project, links, access, excuse>>
        BY <1>5, <2>5 DEF AddUsersToGroup
      <3>2. /\ user[u].groups \cup {g} \subseteq Groups
            /\ user' = [user EXCEPT ![u].groups = user[u].groups \cup {g}]
        BY <2>1, <3>1 DEF Tables
      <3>3. user' \in [Users -> {NoRow} \cup Row] /\ Safe
        <4> HIDE DEF u, g
        <4> QED
          BY <1>3, <2>1, <3>1, <3>2
      <3>4. members' \in [Groups -> SUBSET Users]
        BY <2>1, <3>1 DEF Tables
      <3>5. Tables' /\ Others'
        BY <2>3, <3>1, <3>3, <3>4 DEF Tables, Others, directoryVars
      <3>6. x \in StepsOf(a) /\ Inherits(x, Cur(a))
        BY <2>1
           DEF Mine, MemberAdded, StepsOf, Steps, MemberOps, ApiOps, SyncOps, Inherits,
               Reading,
                    Needy, Leaving
      <3> HIDE DEF x
      <3>7. CASE Continue(a, <<x>>)
        <4>1. <<x>> \in Seq(StepsOf(a)) /\ \A y \in Elems(<<x>>) : Inherits(y, Cur(a))
          BY <3>6, Singles
        <4> QED
          BY <1>1, <2>1, <3>3, <3>5, <3>7, <4>1
      <3>8. CASE Done(a)
        <4>1. <<>> \in Seq(StepsOf(a)) /\ \A y \in Elems(<<>>) : Inherits(y, Cur(a))
          BY Singles
        <4> QED
          BY <1>1, <2>1, <3>3, <3>5, <3>8, <4>1 DEF Done
      <3> QED
        BY <3>1, <3>7, <3>8
    <2> QED
      BY <2>4, <2>5
  <1>6. \A op : At(a, op) /\ op \in SyncOps \ (ApiOps \cup ProjectsOps) => a = "sync" /\ Mine
    <2>1. ASSUME NEW op, At(a, op), op \in SyncOps \ (ApiOps \cup ProjectsOps)
          PROVE  a = "sync" /\ Mine
      BY <2>1, Current DEF Mine, Actors
    <2> QED
      BY <2>1
  <1>7. ASSUME NEW x, x \in StepsOf(a), Inherits(x, Cur(a)), Continue(a, <<x>>), Mine,
               Safe, Tables', Others'
        PROVE  Goal
    <2>1. <<x>> \in Seq(StepsOf(a)) /\ \A y \in Elems(<<x>>) : Inherits(y, Cur(a))
      BY <1>7, Singles
    <2> QED
      BY <1>1, <1>7, <2>1
  <1>8. ASSUME Done(a), Mine, Safe, Tables', Others'
        PROVE  Goal
    <2>1. <<>> \in Seq(StepsOf(a)) /\ \A y \in Elems(<<>>) : Inherits(y, Cur(a))
      BY Singles
    <2> QED
      BY <1>1, <1>8, <2>1 DEF Done
  <1>9. ASSUME NEW u \in Users, NEW g \in Groups, user[u] # NoRow, a = "sync", Mine,
               Leave(a, u, g),
               UNCHANGED directoryVars
        PROVE  Goal
    <2> DEFINE x == MemberRemoved(g, u)
    <2>1. /\ user[u].groups \ {g} \subseteq Groups
          /\ user' = [user EXCEPT ![u].groups = user[u].groups \ {g}]
      BY <1>9 DEF Tables, Leave
    <2>2. user' \in [Users -> {NoRow} \cup Row] /\ Safe
      BY <1>3, <1>9, <2>1
    <2>3. /\ members' \in [Groups -> SUBSET Users]
          /\ UNCHANGED <<group, project, links, access, excuse>>
      BY <1>9 DEF Tables, Leave
    <2>4. Tables' /\ Others'
      BY <1>9, <2>2, <2>3 DEF Tables, Others, directoryVars
    <2>5. x \in StepsOf(a) /\ Inherits(x, Cur(a))
      BY <1>9
         DEF MemberRemoved, StepsOf, Steps, MemberOps, SyncOps, Inherits, Reading, Needy,
             Leaving
    <2>6. Continue(a, <<x>>)
      BY <1>9 DEF Leave
    <2> HIDE DEF x
    <2> QED
      BY <1>7, <1>9, <2>2, <2>4, <2>5, <2>6
  <1>10. CASE RemoveFromGroup(a)
    <2>1. a = "sync" /\ Mine
      BY <1>6, <1>10 DEF RemoveFromGroup, SyncOps, ApiOps, ProjectsOps
    <2> DEFINE u == Cur(a).u
               g == Cur(a).g
    <2>2. /\ u \in Users /\ g \in Groups /\ Cur(a) \in Elems(todo[a])
          /\ Cur(a).op = "remove_from_group"
      BY <1>10, Current, Fields DEF RemoveFromGroup, MemberOps
    <2>3. user[u] # NoRow
      BY <2>1, <2>2 DEF SyncInv, Needy
    <2>4. UNCHANGED directoryVars
      BY <1>10 DEF RemoveFromGroup
    <2>5. CASE /\ RaiseSoca(a) /\ UNCHANGED <<group, members, project, links, access, excuse>>
               /\ user' = IF user[u].active THEN user ELSE [user EXCEPT ![u].groups = @ \ {g}]
      <3>1. user[u].groups \ {g} \subseteq Groups
        BY <2>2, <2>3 DEF Tables
      <3>2. user' = user \/ user' = [user EXCEPT ![u].groups = user[u].groups \ {g}]
        BY <2>2, <2>5 DEF Tables
      <3>3. user' \in [Users -> {NoRow} \cup Row] /\ Safe
        <4> HIDE DEF u, g
        <4>1. CASE user' = user
          BY <1>4, <4>1 DEF Tables
        <4>2. CASE user' = [user EXCEPT ![u].groups = user[u].groups \ {g}]
          BY <1>3, <2>2, <2>3, <3>1, <4>2
        <4> QED
          BY <3>2, <4>1, <4>2
      <3>4. Tables' /\ Others'
        BY <2>4, <2>5, <3>3 DEF Tables, Others, directoryVars
      <3> QED
        BY <1>2, <2>1, <2>5, <3>3, <3>4 DEF RaiseSoca
    <2>6. CASE RaiseSoca(a) /\ UNCHANGED <<tables, excuse>>
      <3>1. Tables' /\ Others' /\ user' = user
        BY <2>4, <2>6 DEF tables, Tables, Others, directoryVars
      <3> QED
        BY <1>2, <1>4, <2>1, <2>6, <3>1 DEF RaiseSoca
    <2>7. CASE Leave(a, u, g)
      BY <1>9, <2>1, <2>2, <2>3, <2>4, <2>7
    <2> QED
      BY <1>10, <2>5, <2>6, <2>7 DEF RemoveFromGroup
  <1>11. CASE ForceRemove(a)
    <2>1. a = "sync" /\ Mine
      BY <1>6, <1>11 DEF ForceRemove, SyncOps, ApiOps, ProjectsOps
    <2>2. Cur(a).u \in Users /\ Cur(a).g \in Groups
      BY <1>11, Current, Fields DEF ForceRemove, MemberOps
    <2>3. UNCHANGED directoryVars
      BY <1>11 DEF ForceRemove
    <2>4. CASE user[Cur(a).u] = NoRow
      <3>1. Tables' /\ Others' /\ user' = user /\ Done(a)
        BY <1>11, <2>3, <2>4 DEF ForceRemove, tables, Tables, Others, directoryVars
      <3> QED
        BY <1>4, <1>8, <2>1, <3>1
    <2>5. CASE user[Cur(a).u] # NoRow
      BY <1>9, <1>11, <2>1, <2>2, <2>3, <2>5 DEF ForceRemove
    <2> QED
      BY <2>4, <2>5
  <1>12. ASSUME NEW s \in Seq(StepsOf(a)), Continue(a, s), Mine, Safe, Tables', Others',
                \A x \in Elems(s) : x.op \notin Reading \cup Needy \cup Leaving
         PROVE  Goal
    <2>1. \A x \in Elems(s) : Inherits(x, Cur(a))
      BY <1>12 DEF Inherits
    <2> QED
      BY <1>1, <1>12, <2>1
  <1>13. ASSUME UNCHANGED <<tables, excuse>>, UNCHANGED directoryVars
         PROVE  Tables' /\ Others' /\ Safe
    BY <1>4, <1>13 DEF tables, Tables, Others, directoryVars
  <1>14. CASE CreateUser(a)
    <2> DEFINE u == Cur(a).u
               G == Cur(a).groups
               row == [enabled |-> TRUE, active |-> FALSE, groups |-> G]
               f == [g \in G |-> AddToGroup(u, g, FALSE)]
               x == [op |-> "request_home", u |-> u]
    <2>1. a = "sync" /\ Mine
      BY <1>6, <1>14 DEF CreateUser, SyncOps, ApiOps, ProjectsOps
    <2>2. u \in Users /\ G \subseteq Groups
      BY <1>14, Current, Fields DEF CreateUser
    <2>3. Others'
      <3>1. MaxFaults \in Nat
        BY AccessParameters
      <3>2. faults' \in 0 .. MaxFaults /\ UNCHANGED <<excuse, ad, homes, synced>>
        BY <1>14, <3>1 DEF CreateUser, Others
      <3> QED
        BY <3>2 DEF Others
    <2>4. CASE RaiseSoca(a) /\ UNCHANGED tables
      <3>1. Tables' /\ Safe
        BY <1>4, <2>4 DEF tables, Tables
      <3> QED
        BY <1>2, <2>1, <2>3, <2>4, <3>1 DEF RaiseSoca
    <2>5. CASE /\ user' = [user EXCEPT ![u] = row] /\ Continue(a, ForEach(f) \o <<x>>)
               /\ UNCHANGED <<group, members, project, links, access>>
      <3>1. row \in Row
        BY <2>2
      <3>2. /\ f \in [G -> StepsOf(a)] /\ (\A g \in G : f[g].op = "add_to_group")
            /\ x \in StepsOf(a) /\ x.op = "request_home"
        BY <2>1, <2>2 DEF AddToGroup, StepsOf, Steps, SyncOps, UserOps
      <3> HIDE DEF row, f, x
      <3>3. Tables' /\ Safe
        <4>1. user' \in [Users -> {NoRow} \cup Row]
          BY <2>2, <2>5, <3>1 DEF Tables
        <4>2. \A v \in Users : user[v] # NoRow => user'[v] # NoRow
          BY <2>2, <2>5, <3>1, MembershipParameters DEF Tables
        <4> QED
          BY <2>5, <4>1, <4>2 DEF Tables, Safe
      <3> DEFINE p == ForEach(f)
                 s == p \o <<x>>
      <3>4. p \in Seq(StepsOf(a)) /\ \A y \in Elems(p) : y.op = "add_to_group"
        <4>0. p = ForEach(f)
          OBVIOUS
        <4>00. G \subseteq Groups /\ f \in [G -> StepsOf(a)]
          BY <2>2, <3>2
        <4> HIDE DEF p, G
        <4>01. G \in (SUBSET Users) \cup (SUBSET Groups)
          BY <4>00
        <4>1. p \in Seq(StepsOf(a))
          BY <4>00, <4>01, <4>0, Fan
        <4>2. \A y \in Elems(p) : \E g \in G : y = f[g]
          BY <4>00, <4>01, <4>0, Fan
        <4> QED
          BY <3>2, <4>1, <4>2
      <3>5. Continue(a, s) /\ s = p \o <<x>>
        BY <2>5
      <3> HIDE DEF p, s
      <3>6. s \in Seq(StepsOf(a)) /\ Elems(s) = Elems(p) \cup {x}
        <4> DEFINE l == <<x>>
        <4>1. p \in Seq(StepsOf(a)) /\ s = p \o l /\ l \in Seq(StepsOf(a)) /\ Elems(l) = {x}
          BY <3>2, <3>4, <3>5, Singles
        <4> HIDE DEF l
        <4> QED
          BY <4>1, ElemsOf
      <3>7. \A y \in Elems(s) : y.op \notin Reading \cup Needy \cup Leaving
        BY <3>2, <3>4, <3>6 DEF Reading, Needy, Leaving
      <3> QED
        BY <1>12, <2>1, <2>3, <3>3, <3>5, <3>6, <3>7
    <2> QED
      BY <1>14, <2>4, <2>5 DEF CreateUser
  <1>15. CASE RequestHome(a)
    <2>1. a = "sync" /\ Mine
      BY <1>6, <1>15 DEF RequestHome, SyncOps, ApiOps, ProjectsOps
    <2>2. Cur(a).u \in Users
      BY <1>15, Current, Fields DEF RequestHome, UserOps
    <2>3. Tables' /\ Others' /\ user' = user /\ Done(a)
      BY <1>15, <2>2 DEF RequestHome, tables, Tables, Others
    <2> QED
      BY <1>4, <1>8, <2>1, <2>3
  <1>16. CASE DropUser(a)
    <2>1. a = "sync" /\ Mine
      BY <1>6, <1>16 DEF DropUser, SyncOps, ApiOps, ProjectsOps
    <2>2. Cur(a).u \in Users /\ Cur(a).op = "drop_user"
      BY <1>16, Current, Fields DEF DropUser, UserOps
    <2>3. user' = [user EXCEPT ![Cur(a).u] = NoRow]
      BY <1>16 DEF DropUser
    <2>4. Tables' /\ Others' /\ Done(a)
      BY <1>16, <2>2 DEF DropUser, Tables, Others, Excuses, directoryVars
    <2>5. Safe
      BY <2>1, <2>2, <2>3 DEF Safe, Tables
    <2> QED
      BY <1>8, <2>1, <2>4, <2>5
  <1>17. CASE DeleteUser(a)
    <2> DEFINE u == Cur(a).u
               row == user[u]
               left == {g \in row.groups : group[g] = "enabled"}
               crossed == left \cup {g \in row.groups : group[g] = "none" /\ ~row.active}
               f == [g \in row.groups |-> MemberRemoved(g, u)]
               x == [op |-> "drop_user", u |-> u]
    <2>1. a = "sync" /\ Mine
      BY <1>6, <1>17 DEF DeleteUser, SyncOps, ApiOps, ProjectsOps
    <2>2. u \in Users /\ Cur(a).op = "delete_user"
      BY <1>17, Current, Fields DEF DeleteUser, UserOps
    <2>3. x \in StepsOf(a) /\ x.op = "drop_user" /\ x.u = u /\ Inherits(x, Cur(a))
      BY <2>1, <2>2 DEF StepsOf, Steps, SyncOps, UserOps, Inherits, Reading, Needy, Leaving
    <2>4. UNCHANGED <<group, project, links, access, excuse, directoryVars>>
      BY <1>17 DEF DeleteUser
    <2>5. Others'
      BY <2>4 DEF Others, directoryVars
    <2>6. CASE Done(a) /\ UNCHANGED <<user, members>>
      <3>1. Tables' /\ user' = user
        BY <2>4, <2>6 DEF Tables
      <3> QED
        BY <1>4, <1>8, <2>1, <2>5, <2>6, <3>1
    <2>7. CASE Continue(a, <<x>>) /\ UNCHANGED <<user, members>>
      <3> HIDE DEF x
      <3>1. Tables' /\ user' = user
        BY <2>4, <2>7 DEF Tables
      <3> QED
        BY <1>4, <1>7, <2>1, <2>3, <2>5, <2>7, <3>1
    <2>8. CASE /\ row # NoRow
               /\ members' = [g \in Groups |-> IF g \in left THEN members[g] \ {u} ELSE members[g]]
               /\ user' = [user EXCEPT ![u].groups = @ \ crossed]
               /\ Continue(a, ForEach(f) \o <<x>>)
      <3>1. row.groups \subseteq Groups /\ user' = [user EXCEPT ![u].groups = row.groups \ crossed]
        BY <2>2, <2>8 DEF Tables
      <3>2. row.groups \ crossed \subseteq Groups
        BY <3>1
      <3>3. members' \in [Groups -> SUBSET Users]
        BY <2>8 DEF Tables
      <3>4. f \in [row.groups -> StepsOf(a)] /\ (\A g \in row.groups : f[g].op = "member_removed")
        BY <2>1, <2>2, <3>1 DEF MemberRemoved, StepsOf, Steps, SyncOps, MemberOps
      <3> HIDE DEF crossed, left, f, x
      <3>5. user' \in [Users -> {NoRow} \cup Row] /\ Safe
        <4> HIDE DEF u
        <4> QED
          BY <1>3, <2>2, <2>8, <3>1, <3>2
      <3>6. Tables'
        BY <2>4, <3>3, <3>5 DEF Tables
      <3> DEFINE p == ForEach(f)
                 s == p \o <<x>>
      <3>7. p \in Seq(StepsOf(a)) /\ \A y \in Elems(p) : y.op = "member_removed"
        <4>0. p = ForEach(f)
          OBVIOUS
        <4> HIDE DEF p
        <4> DEFINE D == row.groups
        <4>1. /\ D \subseteq Groups /\ f \in [D -> StepsOf(a)]
              /\ (\A g \in D : f[g].op = "member_removed")
          BY <3>1, <3>4
        <4> HIDE DEF D
        <4>2. p \in Seq(StepsOf(a)) /\ \A y \in Elems(p) : \E g \in D : y = f[g]
          BY <4>0, <4>1, Fan
        <4> QED
          BY <4>1, <4>2
      <3>8. Continue(a, s) /\ s = p \o <<x>>
        BY <2>8
      <3> HIDE DEF p, s
      <3>9. s \in Seq(StepsOf(a)) /\ Elems(s) = Elems(p) \cup {x}
        <4> DEFINE l == <<x>>
        <4>1. p \in Seq(StepsOf(a)) /\ s = p \o l /\ l \in Seq(StepsOf(a)) /\ Elems(l) = {x}
          BY <2>3, <3>7, <3>8, Singles
        <4> HIDE DEF l
        <4> QED
          BY <4>1, ElemsOf
      <3>10. \A y \in Elems(s) : Inherits(y, Cur(a))
        BY <2>3, <3>7, <3>9 DEF Inherits, Reading, Needy, Leaving
      <3> QED
        BY <1>1, <2>1, <2>5, <3>5, <3>6, <3>8, <3>9, <3>10
    <2> QED
      BY <1>17, <2>6, <2>7, <2>8 DEF DeleteUser
  <1>18. CASE CreateGroup(a)
    <2>1. a = "sync" /\ Mine
      BY <1>6, <1>18 DEF CreateGroup, SyncOps, ApiOps, ProjectsOps
    <2>2. Cur(a).g \in Groups
      BY <1>18, Current, Fields DEF CreateGroup, GroupOps
    <2>3. MaxFaults \in Nat
      BY AccessParameters
    <2>4. group' \in [Groups -> {"none", "enabled", "disabled"}] /\ faults' \in 0 .. MaxFaults
      BY <1>18, <2>2, <2>3 DEF CreateGroup, Tables, Others
    <2>5. UNCHANGED <<user, members, project, links, access, excuse, ad, homes, synced>>
      BY <1>18 DEF CreateGroup
    <2>6. Tables' /\ Others' /\ Safe
      BY <1>4, <2>4, <2>5 DEF Tables, Others
    <2>7. Done(a) \/ RaiseSoca(a)
      BY <1>18 DEF CreateGroup
    <2>8. CASE Done(a)
      BY <1>8, <2>1, <2>6, <2>8
    <2>9. CASE RaiseSoca(a)
      BY <1>2, <2>1, <2>6, <2>9 DEF RaiseSoca
    <2> QED
      BY <2>7, <2>8, <2>9
  <1>19. CASE DropGroup(a)
    <2>1. a = "sync" /\ Mine
      BY <1>6, <1>19 DEF DropGroup, SyncOps, ApiOps, ProjectsOps
    <2>2. Cur(a).g \in Groups
      BY <1>19, Current, Fields DEF DropGroup, GroupOps
    <2>3. Tables' /\ Others' /\ user' = user /\ Done(a)
      BY <1>19, <2>2 DEF DropGroup, Tables, Others, directoryVars
    <2> QED
      BY <1>4, <1>8, <2>1, <2>3
  <1>20. CASE Synced(a)
    <2>1. a = "sync" /\ Mine
      BY <1>6, <1>20 DEF Synced, SyncOps, ApiOps, ProjectsOps
    <2>2. Tables' /\ Others' /\ user' = user /\ Done(a)
      BY <1>20 DEF Synced, tables, Tables, Others
    <2> QED
      BY <1>4, <1>8, <2>1, <2>2
  <1>21. CASE RemoveProject(a)
    <2> DEFINE x == GroupRemoved(Cur(a).g)
    <2>1. a = "sync" /\ Mine
      BY <1>6, <1>21 DEF RemoveProject, SyncOps, ApiOps, ProjectsOps
    <2>2. Cur(a).g \in Groups
      BY <1>21, Current, Fields DEF RemoveProject, GroupOps
    <2>3. /\ UNCHANGED <<user, group, members, links, access, excuse, directoryVars>>
          /\ project' = project \/ project' = [project EXCEPT !.groups = @ \ {Cur(a).g}]
          /\ RaiseOther(a) \/ Continue(a, <<x>>) \/ Done(a)
      BY <1>21 DEF RemoveProject
    <2>4. x \in StepsOf(a) /\ Inherits(x, Cur(a))
      BY <2>1, <2>2
         DEF GroupRemoved, StepsOf, Steps, GroupOps, SyncOps, Inherits, Reading, Needy,
             Leaving
    <2> HIDE DEF x
    <2>5. Tables' /\ Others' /\ Safe
      BY <1>4, <2>2, <2>3 DEF Tables, Others, directoryVars
    <2>6. CASE RaiseOther(a)
      BY <1>2, <2>1, <2>5, <2>6 DEF RaiseOther
    <2>7. CASE Continue(a, <<x>>)
      BY <1>7, <2>1, <2>4, <2>5, <2>7
    <2>8. CASE Done(a)
      BY <1>8, <2>1, <2>5, <2>8
    <2> QED
      BY <2>3, <2>6, <2>7, <2>8
  <1>22. CASE DeleteGroup(a)
    <2> DEFINE g == Cur(a).g
               D == members[g]
               f == [u \in D |-> [op |-> "force_remove", u |-> u, g |-> g]]
               x == [op |-> "remove_project", g |-> g]
               y == [op |-> "drop_group", g |-> g]
               p == ForEach(f)
    <2>1. a = "sync" /\ Mine
      BY <1>6, <1>22 DEF DeleteGroup, SyncOps, ApiOps, ProjectsOps
    <2>2. g \in Groups /\ D \subseteq Users
      BY <1>22, Current, Fields DEF DeleteGroup, GroupOps, Tables
    <2>3. /\ Continue(a, p \o Catch \o <<x>> \o Catch \o <<y>>)
          /\ UNCHANGED <<tables, excuse>> /\ UNCHANGED directoryVars
      BY <1>22 DEF DeleteGroup
    <2>4. Tables' /\ Others' /\ Safe
      BY <1>13, <2>3
    <2> DEFINE S == {s \in StepsOf(a) : s.op \notin Reading \cup Needy \cup Leaving}
    <2>5. f \in [D -> S] /\ x \in S /\ y \in S /\ [op |-> "catch"] \in S
      BY <2>1, <2>2
         DEF StepsOf, Steps, GroupOps, MemberOps, PlainOps, SyncOps, Ends, Reading,
             Needy, Leaving
    <2>6. p = ForEach(f)
      OBVIOUS
    <2> HIDE DEF S, f, x, y, p, D
    <2>7. p \in Seq(S)
      BY <2>2, <2>5, <2>6, Fan
    <2> DEFINE s == p \o Catch \o <<x>> \o Catch \o <<y>>
    <2>8. s \in Seq(S)
      BY <2>5, <2>7 DEF Catch
    <2>9. Continue(a, s)
      BY <2>3
    <2> HIDE DEF s
    <2>10. \A z \in Elems(s) : z \in S
      BY <2>8, ElemsOf
    <2>11. s \in Seq(StepsOf(a)) /\ \A z \in Elems(s) : z.op \notin Reading \cup Needy \cup Leaving
      <3>1. Elems(s) \subseteq StepsOf(a)
        BY <2>10 DEF S
      <3>2. s \in Seq(StepsOf(a))
        BY <2>8, <3>1, Retyped
      <3> QED
        BY <2>10, <3>2 DEF S
    <2> QED
      BY <1>12, <2>1, <2>4, <2>9, <2>11
  <1>23. CASE CompareUser(a)
    <2> DEFINE u == Cur(a).u
               A == Cur(a).added
               R == Cur(a).removed
               e == [g \in A |-> AddToGroup(u, g, FALSE)]
               f == [g \in R |-> [op |-> "remove_from_group", u |-> u, g |-> g]]
               p == Tried(e)
               q == Tried(f)
               s == p \o q
               S == {x \in StepsOf(a) : Inherits(x, Cur(a))}
    <2>1. a = "sync" /\ Mine
      BY <1>6, <1>23 DEF CompareUser, SyncOps, ApiOps, ProjectsOps
    <2>2. u \in Users /\ A \subseteq Groups /\ R \subseteq Groups /\ Cur(a).op = "compare"
      BY <1>23, Current, Fields DEF CompareUser
    <2>3. Continue(a, s) \/ Done(a) \/ Raise(a, {})
      BY <1>23 DEF CompareUser
    <2>4. Tables' /\ Others' /\ Safe
      BY <1>4, <1>23 DEF CompareUser, tables, Tables, Others
    <2>11. CASE Done(a)
      BY <1>8, <2>1, <2>4, <2>11
    <2>12. CASE Raise(a, {})
      BY <1>2, <2>1, <2>4, <2>12
    <2>5. e \in [A -> S] /\ f \in [R -> S] /\ [op |-> "catch_all"] \in S
      BY <2>1, <2>2
         DEF AddToGroup, StepsOf, Steps, MemberOps, PlainOps, SyncOps, Ends, Inherits,
             Reading,
                        Needy, Leaving
    <2>6. p = Tried(e) /\ q = Tried(f) /\ s = p \o q
      OBVIOUS
    <2> HIDE DEF S, e, f, p, q, s, A, R
    <2>7. p \in Seq(S) /\ q \in Seq(S)
      BY <2>2, <2>5, <2>6, TriedFan
    <2>8. s \in Seq(S)
      BY <2>6, <2>7, ElemsOf
    <2>9. Elems(s) \subseteq S
      BY <2>8, ElemsOf
    <2>10. s \in Seq(StepsOf(a)) /\ \A x \in Elems(s) : Inherits(x, Cur(a))
      <3>1. Elems(s) \subseteq StepsOf(a)
        BY <2>9 DEF S
      <3>2. s \in Seq(StepsOf(a))
        BY <2>8, <3>1, Retyped
      <3> QED
        BY <2>9, <3>2 DEF S
    <2>13. CASE Continue(a, s)
      BY <1>1, <2>1, <2>4, <2>10, <2>13
    <2> QED
      BY <2>3, <2>11, <2>12, <2>13
  <1>24. ASSUME NEW op \in Reading, At(a, op), a = "sync", NEW s \in Seq(StepsOf(a)),
                Continue(a, s)
         PROVE  /\ PlansInv' /\ Elems(todo'[a]) \subseteq Elems(s)
                /\ \A b \in Actors : b # a => todo'[b] = todo[b]
                /\ \A o : OnlyLast(s, o) => OnlyLast(todo'[a], o)
    <2>1. todo[a] \in Seq(StepsOf(a)) /\ todo[a] # <<>> /\ todo[a][1].op = op
      BY <1>24, Current DEF At
    <2>2. 1 \in 1 .. Len(todo[a]) /\ OnlyLast(todo[a], op)
      BY <1>24, <2>1 DEF SyncInv
    <2>3. Len(todo[a]) = 1
      BY <2>1, <2>2 DEF OnlyLast
    <2>4. Elems(Tail(todo[a])) = {}
      <3> DEFINE T == todo[a]
                 v == Tail(T)
      <3>1. T \in Seq(StepsOf(a)) /\ T # <<>> /\ Len(T) = 1
        BY <2>1, <2>3
      <3> HIDE DEF T
      <3>2. Len(v) = Len(T) - 1
        BY <3>1
      <3> HIDE DEF v
      <3>3. Elems(v) = {}
        BY <3>1, <3>2 DEF Elems
      <3> QED
        BY <3>3 DEF v, T
    <2>5. /\ PlansInv'
          /\ \A b \in Actors : b # a => todo'[b] = todo[b]
          /\ Elems(todo'[a]) \subseteq Elems(s) \cup Elems(Tail(todo[a]))
          /\ Len(todo[a]) = 1 => \A o : OnlyLast(s, o) => OnlyLast(todo'[a], o)
      BY <1>24, <2>1, Advance
    <2> QED
      BY <2>3, <2>4, <2>5
  <1>25. CASE SyncAllGroups(a)
    <2> DEFINE A == ad.groups \ Known
               B == Known \ ad.groups
               e == [g \in A |-> [op |-> "create_group", g |-> g]]
               f == [g \in B |-> [op |-> "delete_group", g |-> g]]
               x == [op |-> "sync_users", groups |-> ad.groups]
               l == <<x>>
               p == Tried(e)
               q == Tried(f)
               r == p \o q
               s == r \o l
               S == {z \in StepsOf(a) : z.op \notin Reading \cup Needy \cup Leaving}
    <2>1. a = "sync" /\ Mine /\ At(a, "sync_groups")
      BY <1>6, <1>25 DEF SyncAllGroups, SyncOps, ApiOps, ProjectsOps
    <2>2. A \subseteq Groups /\ B \subseteq Groups /\ ad.groups \subseteq Groups
      BY DEF Known, Others
    <2>3. Continue(a, s) /\ UNCHANGED <<tables, excuse>> /\ UNCHANGED directoryVars
      BY <1>25 DEF SyncAllGroups
    <2>4. Tables' /\ Others' /\ Safe
      BY <1>13, <2>3
    <2>5. e \in [A -> S] /\ f \in [B -> S] /\ [op |-> "catch_all"] \in S
      BY <2>1, <2>2
         DEF StepsOf, Steps, GroupOps, PlainOps, SyncOps, Ends, Reading, Needy, Leaving
    <2>6. x \in StepsOf(a) /\ x.op \notin Needy \cup Leaving
      BY <2>1, <2>2 DEF StepsOf, Steps, SyncOps, Needy, Leaving
    <2>7. p = Tried(e) /\ q = Tried(f) /\ r = p \o q /\ s = r \o l
      OBVIOUS
    <2> HIDE DEF x
    <2>8. l \in Seq(StepsOf(a)) /\ Len(l) = 1 /\ Elems(l) = {x}
      BY <2>6, Singles
    <2> HIDE DEF A, B, e, f, l, p, q, r, s, S
    <2>9. p \in Seq(S) /\ q \in Seq(S)
      BY <2>2, <2>5, <2>7, TriedFan
    <2>10. r \in Seq(S)
      BY <2>7, <2>9, ElemsOf
    <2>11. Elems(r) \subseteq S
      BY <2>10, ElemsOf
    <2>12. r \in Seq(StepsOf(a))
      <3>1. Elems(r) \subseteq StepsOf(a)
        BY <2>11 DEF S
      <3> QED
        BY <2>10, <3>1, Retyped
    <2>13. s \in Seq(StepsOf(a)) /\ Elems(s) = Elems(r) \cup {x}
      <3>1. l \in Seq(StepsOf(a))
        BY <2>8
      <3>2. r \o l \in Seq(StepsOf(a)) /\ Elems(r \o l) = Elems(r) \cup Elems(l)
        BY <2>12, <3>1, ElemsOf
      <3> QED
        BY <2>7, <2>8, <3>2
    <2>14. \A z \in Elems(r) : z.op \notin Reading \cup Needy \cup Leaving
      BY <2>11 DEF S
    <2>15. \A o \in Reading : OnlyLast(s, o)
      <3>1. ASSUME NEW o \in Reading
            PROVE  OnlyLast(s, o)
        <4>1. \A y \in Elems(r) : y.op # o
          BY <2>14
        <4>2. OnlyLast(r \o l, o)
          BY <2>8, <2>12, <4>1, Closed
        <4> QED
          BY <2>7, <4>2
      <3> QED
        BY <3>1
    <2>16. "sync_groups" \in Reading
      BY DEF Reading
    <2>17. /\ PlansInv' /\ Elems(todo'[a]) \subseteq Elems(s)
           /\ \A b \in Actors : b # a => todo'[b] = todo[b]
           /\ \A o : OnlyLast(s, o) => OnlyLast(todo'[a], o)
      BY <1>24, <2>1, <2>3, <2>13, <2>16
    <2>18. \A z \in Elems(todo'["sync"]) : z.op \notin Needy \cup Leaving
      BY <2>1, <2>6, <2>13, <2>14, <2>17
    <2>19. \A o \in Reading : OnlyLast(todo'["sync"], o)
      BY <2>1, <2>15, <2>17
    <2>20. SyncInv'
      BY <2>18, <2>19 DEF SyncInv
    <2> QED
      BY <2>1, <2>4, <2>17, <2>20 DEF Goal, Mine
  <1>26. CASE SyncAllUsers(a)
    <2> DEFINE G == Cur(a).groups
               here == {u \in Users : ad.of[u] # NoRow}
               A == here \ Rows
               B == Rows \ here
               C == here \cap Rows
               e == [u \in A |-> [op |-> "create_user", u |-> u, groups |-> ad.of[u] \cap G]]
               f == [u \in B |-> [op |-> "delete_user", u |-> u]]
               h == [u \in C |-> Compare(u, (ad.of[u] \cap G) \ (G \ Known))]
               x == [op |-> "synced"]
               l == <<x>>
               p == Tried(e)
               q == Tried(f)
               r == ForEach(h)
               s == p \o q \o r \o l
               S == {z \in StepsOf(a) :
                        /\ z.op \notin Reading
                        /\ z.op \in Needy => z.u \in Rows /\ z.u \in here
                        /\ z.op \in Leaving => z.u \in Rows /\ z.u \notin here}
    <2>1. a = "sync" /\ Mine /\ At(a, "sync_users")
      BY <1>6, <1>26 DEF SyncAllUsers, SyncOps, ApiOps, ProjectsOps
    <2>2. A \subseteq Users /\ B \subseteq Users /\ C \subseteq Users /\ G \subseteq Groups
      BY <1>26, Current, Fields DEF Rows, SyncAllUsers
    <2>3. Continue(a, s) /\ UNCHANGED <<tables, excuse>> /\ UNCHANGED directoryVars
      BY <1>26 DEF SyncAllUsers, InDirectory
    <2>4. Tables' /\ Others' /\ Safe
      BY <1>13, <2>3
    <2>5. e \in [A -> S]
      BY <2>1, <2>2 DEF Others, StepsOf, Steps, SyncOps, Reading, Needy, Leaving
    <2>6. f \in [B -> S]
      BY <2>1, <2>2 DEF StepsOf, Steps, UserOps, SyncOps, Reading, Needy, Leaving
    <2>7. h \in [C -> S]
      <3>1. ASSUME NEW u \in C
            PROVE  Compare(u, (ad.of[u] \cap G) \ (G \ Known)) \in S
        <4> DEFINE y == Compare(u, (ad.of[u] \cap G) \ (G \ Known))
        <4>1. u \in Users /\ u \in Rows /\ u \in here /\ user[u].groups \subseteq Groups
          BY <2>2 DEF Rows, Tables
        <4>2. /\ y \in [op : {"compare"}, u : Users, added : SUBSET Groups, removed : SUBSET Groups,
                     found : BOOLEAN]
              /\ y.u = u
          <5>1. (u \notin ad.renamed) \in BOOLEAN
            OBVIOUS
          <5> QED
            BY <2>2, <4>1, <5>1 DEF Compare
        <4> HIDE DEF y, here
        <4>3. y \in StepsOf(a) /\ y.op = "compare"
          BY <2>1, <4>2 DEF StepsOf, Steps, SyncOps
        <4> QED
          BY <4>1, <4>2, <4>3 DEF Reading, Needy, Leaving, y
      <3> QED
        BY <3>1
    <2>8. x \in S /\ [op |-> "catch_all"] \in S
      BY <2>1 DEF StepsOf, Steps, PlainOps, SyncOps, Ends, Reading, Needy, Leaving
    <2>9. p = Tried(e) /\ q = Tried(f) /\ r = ForEach(h) /\ s = p \o q \o r \o l
      OBVIOUS
    <2> HIDE DEF x
    <2>10. l \in Seq(S)
      BY <2>8, Singles
    <2> HIDE DEF A, B, C, e, f, h, l, p, q, r, s, S
    <2>11. p \in Seq(S) /\ q \in Seq(S)
      BY <2>2, <2>5, <2>6, <2>8, <2>9, TriedFan
    <2>12. r \in Seq(S)
      BY <2>2, <2>7, <2>9, Fan
    <2>13. s \in Seq(S)
      BY <2>9, <2>10, <2>11, <2>12, ElemsOf
    <2>14. Elems(s) \subseteq S
      BY <2>13, ElemsOf
    <2>15. s \in Seq(StepsOf(a))
      <3>1. Elems(s) \subseteq StepsOf(a)
        BY <2>14 DEF S
      <3> QED
        BY <2>13, <3>1, Retyped
    <2>16. "sync_users" \in Reading
      BY DEF Reading
    <2>17. /\ PlansInv' /\ Elems(todo'[a]) \subseteq Elems(s)
           /\ \A b \in Actors : b # a => todo'[b] = todo[b]
      BY <1>24, <2>1, <2>3, <2>15, <2>16
    <2>18. \A z \in Elems(todo'["sync"]) : z \in S
      BY <2>1, <2>14, <2>17
    <2>19. \A o \in Reading : OnlyLast(todo'["sync"], o)
      <3>1. \A i \in 1 .. Len(todo'["sync"]) : todo'["sync"][i].op \notin Reading
        BY <2>18 DEF Elems, S
      <3> QED
        BY <3>1 DEF OnlyLast
    <2>20. user' = user
      BY <2>3 DEF tables
    <2>21. SyncInv'
      BY <2>18, <2>19, <2>20 DEF SyncInv, S, Rows
    <2> QED
      BY <2>1, <2>4, <2>17, <2>21 DEF Goal, Mine
  <1> QED
    BY <1>5, <1>10, <1>11, <1>14, <1>15, <1>16, <1>17, <1>18, <1>19, <1>20, <1>21, <1>22, <1>23, <1>25, <1>26
       DEF DirectoryStep

-----------------------------------------------------------------------------
(* The requests and the task queue *)

\* The steps of the three project tasks, before the message is deleted.
LEMMA Invoked ==
  ASSUME Tables, NEW t \in Tasks, NEW S, S = {x \in StepsOf("projects") : x.op \in AccessOps}
  PROVE  Invoke(t) \in Seq(S)
  <1>1. ProjectEnabled \in Seq(S) /\ ProjectDisabled \in Seq(S)
    <2>1. ASSUME NEW s \in Seq(StepsOf("projects")), \A x \in Elems(s) : x.op \in AccessOps
          PROVE  s \in Seq(S)
      <3>1. Elems(s) \subseteq S
        BY <2>1, ElemsOf
      <3> QED
        BY <3>1, Retyped
    <2> QED
      BY <2>1, Projected
  <1>2. CASE t.kind = "updated" /\ project.state = "enabled"
    <2> DEFINE A == t.usersRemoved
               B == t.removed
               C == t.usersAdded
               D == t.added
               e == [u \in A |-> DeleteUserProject(u, Self)]
               f == [g \in B |-> GroupRemoved(g)]
               h == [u \in C |-> CreateUserProject(u, Self)]
               k == [g \in D |-> GroupAdded(g)]
               c == [op |-> "refresh"]
               p == ForEach(e)
               q == ForEachThen(f, c)
               r == ForEach(h)
               s == ForEach(k)
    <2>1. A \subseteq Users /\ B \subseteq Groups /\ C \subseteq Users /\ D \subseteq Groups
      BY <1>2 DEF Tasks
    <2>2. e \in [A -> S] /\ f \in [B -> S] /\ h \in [C -> S] /\ k \in [D -> S] /\ c \in S
      BY <2>1
         DEF DeleteUserProject, GroupRemoved, CreateUserProject, GroupAdded, StepsOf,
             Steps,
                  ProjectsOps, GroupOps, PlainOps, Reasons, AccessOps
    <2>3. p = ForEach(e) /\ q = ForEachThen(f, c) /\ r = ForEach(h) /\ s = ForEach(k)
      OBVIOUS
    <2>4. Invoke(t) = p \o q \o r \o s
      BY <1>2 DEF Invoke
    <2> HIDE DEF A, B, C, D, e, f, h, k, c, p, q, r, s
    <2>5. p \in Seq(S)
      BY <2>1, <2>2, <2>3, Fan
    <2>6. q \in Seq(S)
      BY <2>1, <2>2, <2>3, ThenFan
    <2>7. r \in Seq(S)
      BY <2>1, <2>2, <2>3, Fan
    <2>8. s \in Seq(S)
      BY <2>1, <2>2, <2>3, Fan
    <2> QED
      BY <2>4, <2>5, <2>6, <2>7, <2>8, ElemsOf
  <1>3. CASE t.kind = "updated" /\ project.state # "enabled"
    BY <1>3 DEF Invoke
  <1>4. CASE t.kind = "enabled"
    BY <1>1, <1>4 DEF Invoke
  <1>5. CASE t.kind = "disabled"
    BY <1>1, <1>5 DEF Invoke
  <1> QED
    BY <1>2, <1>3, <1>4, <1>5 DEF Tasks

\* All that the types need.
TypesInv ==
    /\ Tables /\ Others /\ PlansInv /\ SyncInv /\ QueueInv
    /\ tries \in 0 .. MaxReceive
    /\ OnlyLast(todo["projects"], "delete_message")

\* A plan takes an actor's place.
LEMMA Planned ==
  ASSUME PlansInv, NEW a \in Actors, NEW s \in Seq(StepsOf(a)), todo' = [todo EXCEPT ![a] = s]
  PROVE  PlansInv' /\ todo'[a] = s /\ \A b \in Actors : b # a => todo'[b] = todo[b]
  <1>1. s \in Seq(Steps)
    <2>1. Elems(s) \subseteq StepsOf(a)
      BY ElemsOf
    <2>2. Elems(s) \subseteq Steps
      BY <2>1 DEF StepsOf
    <2> QED
      BY <2>2, Retyped
  <1> QED
    BY <1>1 DEF PlansInv

\* What SyncInv is about has not changed.
LEMMA SyncUntouched ==
  ASSUME PlansInv, SyncInv, todo'["sync"] = todo["sync"],
         \A u \in Users : user[u] # NoRow => user'[u] # NoRow
  PROVE  SyncInv'
  <1>1. ASSUME NEW s \in Elems(todo["sync"]), s.op \in Needy
        PROVE  s.u \in Users
    <2>1. s \in Steps
      BY ElemsOf DEF PlansInv, Actors
    <2> QED
      BY <1>1, <2>1, Fields DEF Needy, MemberOps
  <1> QED
    BY <1>1 DEF SyncInv

\* A request keeps the types.
LEMMA RequestTypes ==
  ASSUME TypesInv, Request
  PROVE  TypesInv'
  <1> DEFINE Row == [enabled : BOOLEAN, active : BOOLEAN, groups : SUBSET Groups]
             Safe == \A u \in Users : user[u] # NoRow => user'[u] # NoRow
  <1>1. ASSUME NEW s \in Seq(StepsOf("api")), Plan(s), Tables', Others',
               UNCHANGED queueVars, Safe
        PROVE  TypesInv'
    <2>1. PlansInv' /\ todo'["sync"] = todo["sync"] /\ todo'["projects"] = todo["projects"]
      BY <1>1, Planned DEF TypesInv, Plan, Actors
    <2>2. SyncInv'
      BY <1>1, <2>1, SyncUntouched DEF TypesInv
    <2> QED
      BY <1>1, <2>1, <2>2 DEF TypesInv, QueueInv, queueVars
  <1>2. ASSUME Tables', Others', UNCHANGED queueVars, UNCHANGED todo, Safe
        PROVE  TypesInv'
    <2>1. PlansInv' /\ todo'["sync"] = todo["sync"] /\ todo'["projects"] = todo["projects"]
      BY <1>2 DEF TypesInv, PlansInv
    <2>2. SyncInv'
      BY <1>2, <2>1, SyncUntouched DEF TypesInv
    <2> QED
      BY <1>2, <2>1, <2>2 DEF TypesInv, QueueInv, queueVars
  <1>3. (user' = user) => Safe
    OBVIOUS
  <1>4. Call => UNCHANGED <<ad, homes, faults>> /\ UNCHANGED queueVars
    BY DEF Call
  <1>5. ASSUME NEW x \in StepsOf("api"), Plan(<<x>>), Tables', Others',
               UNCHANGED queueVars, Safe
        PROVE  TypesInv'
    BY <1>1, <1>5, Singles
  <1>6. ASSUME NEW u \in Users, user[u] # NoRow, NEW v \in BOOLEAN,
               user' = [user EXCEPT ![u].enabled = v]
        PROVE  user' \in [Users -> {NoRow} \cup Row] /\ Safe
    <2>1. user[u] \in Row
      BY <1>6 DEF TypesInv, Tables
    <2>2. [user[u] EXCEPT !.enabled = v] \in Row
      BY <2>1
    <2>3. user' \in [Users -> {NoRow} \cup Row] /\ \A w \in Users : w # u => user'[w] = user[w]
      BY <1>6, <2>2 DEF TypesInv, Tables
    <2>4. user'[u] \in Row
      BY <1>6, <2>2 DEF TypesInv, Tables
    <2> QED
      BY <2>3, <2>4, MembershipParameters
  <1> HIDE DEF Safe
  <1>7. CASE \E G \in GroupChoices, U \in UserChoices : CreateProject(G, U)
    <2>1. PICK G \in GroupChoices, U \in UserChoices : CreateProject(G, U)
      BY <1>7
    <2> DEFINE x == SetState("enabled")
    <2>2. G \subseteq Groups /\ U \in UserLists
      BY AccessParameters DEF UserLists
    <2>3. x \in StepsOf("api")
      BY DEF SetState, StepsOf, Steps, ApiOps, Tasks
    <2>4. Plan(<<x>>) /\ Tables' /\ Others' /\ UNCHANGED queueVars /\ user' = user
      BY <1>4, <2>1, <2>2 DEF CreateProject, Undisturbed, TypesInv, Tables, Others
    <2> HIDE DEF x
    <2> QED
      BY <1>3, <1>5, <2>3, <2>4
  <1>8. CASE \E G \in GroupChoices, U \in UserChoices : UpdateProject(G, U)
    <2>1. PICK G \in GroupChoices, U \in UserChoices : UpdateProject(G, U)
      BY <1>8
    <2> DEFINE named == IF U = Unset THEN {} ELSE U
               added == IF G = {} THEN {} ELSE G \ project.groups
               removed == IF G = {} THEN {} ELSE project.groups \ G
               usersAdded == named \ Named
               usersRemoved == IF named = {} THEN {} ELSE Named \ named
               task == [kind |-> "updated", added |-> added, removed |-> removed,
                        usersAdded |-> usersAdded, usersRemoved |-> usersRemoved]
               changed == added \cup removed \cup usersAdded \cup usersRemoved # {}
               send == IF changed THEN <<task>> ELSE <<>>
               x == [op |-> "store", groups |-> G, users |-> U, send |-> send]
    <2>2. /\ G \subseteq Groups /\ U \in UserLists /\ Named \subseteq Users
          /\ project.groups \subseteq Groups
      BY AccessParameters, Projected DEF UserLists, TypesInv, Tables
    <2>3. /\ Plan(<<x>>) /\ UNCHANGED tables /\ UNCHANGED synced
          /\ (excuse' = excuse \/ excuse' = excuse \cup {"silent"})
      BY <2>1 DEF UpdateProject, Undisturbed
    <2>4. named \subseteq Users /\ added \subseteq Groups /\ removed \subseteq Groups
      BY <2>2 DEF UserLists
    <2>5. usersAdded \subseteq Users /\ usersRemoved \subseteq Users
      BY <2>2, <2>4
    <2> HIDE DEF named, added, removed, usersAdded, usersRemoved
    <2>6. task \in Tasks
      BY <2>4, <2>5 DEF Tasks
    <2> HIDE DEF task, changed
    <2>7. send \in Seq(Tasks)
      BY <2>6
    <2> HIDE DEF send
    <2>8. x \in StepsOf("api")
      BY <2>2, <2>7 DEF StepsOf, Steps, ApiOps
    <2> HIDE DEF x
    <2>9. Tables' /\ Others' /\ UNCHANGED queueVars /\ user' = user
      BY <1>4, <2>1, <2>3 DEF UpdateProject, TypesInv, tables, Tables, Others, Excuses
    <2> QED
      BY <1>3, <1>5, <2>3, <2>8, <2>9
  <1>9. ASSUME NEW v \in {"enabled", "disabled"}, Call, Undisturbed, Plan(<<SetState(v)>>),
               UNCHANGED <<tables, excuse>>
        PROVE  TypesInv'
    <2> DEFINE x == SetState(v)
    <2>1. x \in StepsOf("api")
      BY DEF SetState, StepsOf, Steps, ApiOps, Tasks
    <2>2. Plan(<<x>>) /\ Tables' /\ Others' /\ UNCHANGED queueVars /\ user' = user
      BY <1>4, <1>9 DEF Undisturbed, TypesInv, tables, Tables, Others
    <2> HIDE DEF x
    <2> QED
      BY <1>3, <1>5, <2>1, <2>2
  <1>10. CASE EnableProject \/ DisableProject
    BY <1>9, <1>10 DEF EnableProject, DisableProject
  <1>11. CASE DeleteProject
    <2> DEFINE f == [g \in links |-> GroupRemoved(g)]
               x == [op |-> "drop_project"]
               p == ForEach(f)
               s == p \o <<x>>
    <2>1. links \subseteq Groups
      BY DEF TypesInv, Tables
    <2>2. f \in [links -> StepsOf("api")] /\ x \in StepsOf("api")
      BY <2>1 DEF GroupRemoved, StepsOf, Steps, ApiOps, GroupOps, PlainOps
    <2>3. p = ForEach(f)
      OBVIOUS
    <2>4. Plan(s) /\ Tables' /\ Others' /\ UNCHANGED queueVars /\ user' = user
      BY <1>4, <1>11 DEF DeleteProject, Undisturbed, TypesInv, tables, Tables, Others
    <2> HIDE DEF f, x, p
    <2>5. p \in Seq(StepsOf("api"))
      BY <2>1, <2>2, <2>3, Fan
    <2>6. s \in Seq(StepsOf("api"))
      BY <2>2, <2>5
    <2> HIDE DEF s
    <2> QED
      BY <1>1, <1>3, <2>4, <2>6
  <1>12. CASE \E u \in Users : ActivateUser(u)
    <2>1. PICK u \in Users : ActivateUser(u)
      BY <1>12
    <2> DEFINE D == user[u].groups
               f == [g \in D |-> AddToGroup(u, g, TRUE)]
               x == [op |-> "set_active", u |-> u]
               p == Tried(f)
               s == p \o <<x>>
    <2>2. D \subseteq Groups
      BY <2>1 DEF ActivateUser, TypesInv, Tables
    <2>3. /\ f \in [D -> StepsOf("api")] /\ x \in StepsOf("api")
          /\ [op |-> "catch_all"] \in StepsOf("api")
      BY <2>2 DEF AddToGroup, StepsOf, Steps, ApiOps, UserOps, PlainOps, Ends
    <2>4. p = Tried(f)
      OBVIOUS
    <2>5. Plan(s) /\ Tables' /\ Others' /\ UNCHANGED queueVars /\ user' = user
      BY <1>4, <2>1 DEF ActivateUser, Disturbed, TypesInv, tables, Tables, Others
    <2> HIDE DEF D, f, x, p
    <2>6. p \in Seq(StepsOf("api"))
      BY <2>2, <2>3, <2>4, TriedFan
    <2>7. s \in Seq(StepsOf("api"))
      BY <2>3, <2>6
    <2> HIDE DEF s
    <2> QED
      BY <1>1, <1>3, <2>5, <2>7
  <1>13. CASE \E u \in Users : EnableUser(u) \/ DisableUser(u)
    <2>1. PICK u \in Users : EnableUser(u) \/ DisableUser(u)
      BY <1>13
    <2>2. PICK v \in BOOLEAN : user' = [user EXCEPT ![u].enabled = v]
      BY <2>1 DEF EnableUser, DisableUser
    <2>3. /\ user[u] # NoRow /\ Call /\ synced' = "no" /\ UNCHANGED todo
          /\ UNCHANGED <<group, members, project, links, access, excuse>>
      BY <2>1 DEF EnableUser, DisableUser, Disturbed
    <2>4. user' \in [Users -> {NoRow} \cup Row] /\ Safe
      BY <1>6, <2>2, <2>3
    <2>5. Tables' /\ Others' /\ UNCHANGED queueVars
      BY <1>4, <2>3, <2>4 DEF TypesInv, Tables, Others
    <2> QED
      BY <1>2, <2>3, <2>4, <2>5
  <1>14. CASE \E g \in Groups : EnableGroup(g) \/ DisableGroup(g)
    <2>1. PICK g \in Groups : EnableGroup(g) \/ DisableGroup(g)
      BY <1>14
    <2>2. /\ Call /\ synced' = "no" /\ UNCHANGED todo
          /\ UNCHANGED <<user, members, project, links, access, excuse>>
      BY <2>1 DEF EnableGroup, DisableGroup, Disturbed
    <2>3. group' \in [Groups -> {"none", "enabled", "disabled"}]
      BY <2>1 DEF EnableGroup, DisableGroup, TypesInv, Tables
    <2>4. Tables' /\ Others' /\ UNCHANGED queueVars
      BY <1>4, <2>2, <2>3 DEF TypesInv, Tables, Others
    <2> QED
      BY <1>2, <1>3, <2>2, <2>4
  <1> QED
    BY <1>7, <1>8, <1>10, <1>11, <1>12, <1>13, <1>14 DEF Request

\* The tasks of a request that has written the project's row.
LEMMA Sendings ==
  ASSUME NEW m \in Seq(Tasks), NEW s, s = [i \in DOMAIN m |-> [op |-> "send", task |-> m[i]]]
  PROVE  s \in Seq(StepsOf("api")) /\ \A x \in Elems(s) : x.op = "send"
  <1>1. \A x \in Tasks : [op |-> "send", task |-> x] \in StepsOf("api")
    BY DEF StepsOf, Steps, ApiOps
  <1>2. DOMAIN m = 1 .. Len(m) /\ Len(m) \in Nat /\ \A i \in 1 .. Len(m) : m[i] \in Tasks
    OBVIOUS
  <1>3. /\ s = [i \in 1 .. Len(m) |-> s[i]]
        /\ \A i \in 1 .. Len(m) : s[i] \in StepsOf("api") /\ s[i].op = "send"
    BY <1>1, <1>2
  <1>4. Len(s) = Len(m) /\ s \in Seq(Elems(s))
    BY <1>2, <1>3, Enumerated
  <1>5. \A x \in Elems(s) : x \in StepsOf("api") /\ x.op = "send"
    BY <1>3, <1>4 DEF Elems
  <1> QED
    BY <1>4, <1>5, Retyped

\* A step of a request or a task keeps the types.
LEMMA ProgressTypes ==
  ASSUME TypesInv, Progress
  PROVE  TypesInv'
  <1> DEFINE Row == [enabled : BOOLEAN, active : BOOLEAN, groups : SUBSET Groups]
             Safe == \A u \in Users : user[u] # NoRow => user'[u] # NoRow
             Queue == /\ tasks' \in Seq(Tasks) /\ (tasks # <<>> => tasks' # <<>>) /\ recent' \subseteq Tasks
                      /\ tries' = tries
  <1>1. ASSUME PlansInv', todo'["sync"] = todo["sync"], todo'["projects"] = todo["projects"],
               Tables', Others', Safe, Queue
        PROVE  TypesInv'
    <2>1. SyncInv'
      BY <1>1, SyncUntouched DEF TypesInv
    <2> QED
      BY <1>1, <2>1 DEF TypesInv, QueueInv
  <1>2. ASSUME NEW s \in Seq(StepsOf("api")), todo["api"] # <<>>, Continue("api", s),
               Tables', Others', Safe, Queue
        PROVE  TypesInv'
    <2>1. PlansInv' /\ todo'["sync"] = todo["sync"] /\ todo'["projects"] = todo["projects"]
      BY <1>2, Advance DEF TypesInv, Actors
    <2> HIDE DEF Safe, Queue
    <2> QED
      BY <1>1, <1>2, <2>1
  <1>3. ASSUME NEW C, todo["api"] # <<>>, Raise("api", C), Tables', Others', Safe, Queue
        PROVE  TypesInv'
    <2>1. PlansInv' /\ todo'["sync"] = todo["sync"] /\ todo'["projects"] = todo["projects"]
      BY <1>3, Escape DEF TypesInv, Actors
    <2> HIDE DEF Safe, Queue
    <2> QED
      BY <1>1, <1>3, <2>1
  <1>4. (user' = user) => Safe
    OBVIOUS
  <1>5. UNCHANGED queueVars => Queue
    BY DEF queueVars, TypesInv, QueueInv
  <1> HIDE DEF Safe, Queue
  <1>6. CASE \E a \in Actors : Step(a)
    <2>1. PICK a \in Actors : Step(a)
      BY <1>6
    <2>2. CASE UserProjectsStep(a) /\ UNCHANGED <<directoryVars, queueVars, events>>
      <3>1. /\ Tables' /\ PlansInv'
            /\ UNCHANGED <<user, group, members, project, excuse>>
            /\ todo[a] # <<>> /\ Cur(a).op \in AccessOps
            /\ \A b \in Actors : b # a => todo'[b] = todo[b]
            /\ \A x \in Elems(todo'[a]) : x \in Elems(Tail(todo[a])) \/ x.op \in AccessOps
            /\ Elems(todo[a]) = {Cur(a)} \cup Elems(Tail(todo[a]))
            /\ \A op : op \notin AccessOps /\ OnlyLast(todo[a], op) => OnlyLast(todo'[a], op)
        BY <2>2, UserProjectsTypes DEF TypesInv
      <3>2. Others'
        BY <2>2, <3>1 DEF TypesInv, Others, directoryVars
      <3>3. SyncInv'
        <4>1. CASE a = "sync"
          <5>1. \A op \in Reading : OnlyLast(todo'["sync"], op)
            BY <3>1, <4>1 DEF TypesInv, SyncInv, Reading, AccessOps
          <5>2. /\ Cur("sync") \in Elems(todo["sync"])
                /\ \A x \in Elems(todo'["sync"]) : x \in Elems(todo["sync"]) \/ x.op \in AccessOps
            BY <3>1, <4>1
          <5>3. \A x \in Elems(todo'["sync"]) : x \in Elems(todo["sync"]) \/ Inherits(x, Cur("sync"))
            BY <5>2 DEF Inherits, Reading, Needy, Leaving, AccessOps
          <5>4. \A u \in Users : user[u] # NoRow => user'[u] # NoRow
            BY <3>1
          <5> QED
            BY <3>1, <5>1, <5>2, <5>3, <5>4, SyncKept DEF TypesInv
        <4>2. CASE a # "sync"
          <5>1. todo'["sync"] = todo["sync"] /\ \A u \in Users : user[u] # NoRow => user'[u] # NoRow
            BY <3>1, <4>2 DEF Actors
          <5> QED
            BY <5>1, SyncUntouched DEF TypesInv
        <4> QED
          BY <4>1, <4>2
      <3>4. QueueInv' /\ tries' \in 0 .. MaxReceive
        <4>1. todo'["projects"] # <<>> => todo["projects"] # <<>>
          BY <3>1 DEF Actors
        <4> QED
          BY <2>2, <4>1 DEF TypesInv, QueueInv, queueVars
      <3>5. OnlyLast(todo'["projects"], "delete_message")
        <4>1. CASE a = "projects"
          BY <3>1, <4>1 DEF TypesInv, AccessOps
        <4>2. CASE a # "projects"
          BY <3>1, <4>2 DEF TypesInv, Actors
        <4> QED
          BY <4>1, <4>2
      <3> QED
        BY <3>1, <3>2, <3>3, <3>4, <3>5 DEF TypesInv
    <2>3. CASE DirectoryStep(a) /\ UNCHANGED <<queueVars, events>>
      <3>1. /\ Tables' /\ Others' /\ PlansInv' /\ SyncInv' /\ a \in {"api", "sync"}
            /\ \A b \in Actors : b # a => todo'[b] = todo[b]
        BY <2>3, DirectoryTypes DEF TypesInv
      <3>2. todo'["projects"] = todo["projects"]
        BY <3>1 DEF Actors
      <3> QED
        BY <2>3, <3>1, <3>2 DEF TypesInv, QueueInv, queueVars
    <2> QED
      BY <2>1, <2>2, <2>3 DEF Step
  <1>7. CASE Store
    <2> DEFINE c == Cur("api")
               s == [i \in DOMAIN c.send |-> [op |-> "send", task |-> c.send[i]]]
    <2>1. c \in Steps /\ c.op = "store" /\ todo["api"] # <<>>
      BY <1>7, Current DEF Store, TypesInv, Actors
    <2>2. c.send \in Seq(Tasks)
      BY <2>1, Fields
    <2>3. s \in Seq(StepsOf("api"))
      <3> HIDE DEF c
      <3> DEFINE m == c.send
      <3>1. m \in Seq(Tasks) /\ s = [i \in DOMAIN m |-> [op |-> "send", task |-> m[i]]]
        BY <2>2
      <3> HIDE DEF m, s
      <3> QED
        BY <3>1, Sendings
    <2>4. /\ UNCHANGED <<user, group, members, links, access, directoryVars, queueVars>>
          /\ excuse' \subseteq Excuses
      BY <1>7 DEF Store, TypesInv, Others, Excuses
    <2>5. Others' /\ user' = user /\ Queue
      BY <1>5, <2>4 DEF Others, TypesInv, directoryVars
    <2>6. CASE RaiseOther("api") /\ UNCHANGED project
      <3>1. Tables'
        BY <2>4, <2>6 DEF TypesInv, Tables
      <3> QED
        BY <1>3, <1>4, <2>1, <2>5, <2>6, <3>1 DEF RaiseOther
    <2>7. CASE /\ project' = IF "state" \in DOMAIN c
                             THEN [project EXCEPT !.state = c.state]
                             ELSE [project EXCEPT !.groups = c.groups,
                                                  !.users = IF c.users = Unset THEN @ ELSE c.users]
               /\ Continue("api", s) \/ Continue("api", <<>>)
      <3>1. CASE "state" \in DOMAIN c
        <4>1. c.state \in {"enabled", "disabled"}
          BY <2>1, <3>1, Fields
        <4> QED
          <5>1. Tables'
            BY <2>4, <2>7, <3>1, <4>1 DEF TypesInv, Tables
          <5> HIDE DEF s
          <5> QED
            BY <1>2, <1>4, <2>1, <2>3, <2>5, <2>7, <5>1, Singles
      <3>2. CASE "state" \notin DOMAIN c
        <4>1. c.groups \subseteq Groups /\ c.users \in UserLists
          BY <2>1, <3>2, Fields
        <4> QED
          <5>1. Tables'
            BY <2>4, <2>7, <3>2, <4>1 DEF TypesInv, Tables
          <5> HIDE DEF s
          <5> QED
            BY <1>2, <1>4, <2>1, <2>3, <2>5, <2>7, <5>1, Singles
      <3> QED
        BY <3>1, <3>2
    <2>8. \/ RaiseOther("api") /\ UNCHANGED project
          \/ /\ project' = IF "state" \in DOMAIN c
                           THEN [project EXCEPT !.state = c.state]
                           ELSE [project EXCEPT !.groups = c.groups,
                                                !.users = IF c.users = Unset THEN @ ELSE c.users]
             /\ Continue("api", s) \/ Continue("api", <<>>)
      BY <1>7 DEF Store
    <2> QED
      BY <2>6, <2>7, <2>8
  <1>8. CASE Send
    <2>1. Cur("api").task \in Tasks /\ todo["api"] # <<>>
      BY <1>8, Current, Fields DEF Send, TypesInv, Actors
    <2>2. /\ Continue("api", <<>>) /\ UNCHANGED tables /\ UNCHANGED directoryVars /\ UNCHANGED tries
          /\ excuse' \subseteq Excuses
          /\ tasks' = tasks \/ tasks' = Append(tasks, Cur("api").task)
          /\ recent' = recent \/ recent' = recent \cup {Cur("api").task}
      BY <1>8 DEF Send, Done, TypesInv, Others, Excuses
    <2>3. tasks \in Seq(Tasks) /\ recent \subseteq Tasks
      BY DEF TypesInv, QueueInv
    <2>4. Queue
      BY <2>1, <2>2, <2>3 DEF Queue
    <2>5. Tables' /\ Others' /\ user' = user
      BY <2>2 DEF TypesInv, tables, Tables, Others, directoryVars
    <2> QED
      BY <1>2, <1>4, <2>1, <2>2, <2>4, <2>5, Singles
  <1>9. CASE DropProject
    <2>1. todo["api"] # <<>> /\ Continue("api", <<>>) /\ UNCHANGED queueVars /\ user' = user
      BY <1>9 DEF DropProject, At, Done
    <2>2. Tables' /\ Others'
      BY <1>9 DEF DropProject, TypesInv, Tables, Others, directoryVars
    <2> QED
      BY <1>2, <1>4, <1>5, <2>1, <2>2, Singles
  <1>10. CASE SetActive
    <2> DEFINE u == Cur("api").u
    <2>1. u \in Users /\ todo["api"] # <<>>
      BY <1>10, Current, Fields DEF SetActive, TypesInv, Actors, UserOps
    <2>2. /\ Continue("api", <<>>) /\ UNCHANGED queueVars
          /\ UNCHANGED <<group, members, project, links, access, excuse, directoryVars>>
          /\ user' = user \/ (user[u] # NoRow /\ user' = [user EXCEPT ![u].active = TRUE])
      BY <1>10 DEF SetActive, Done
    <2>3. user' \in [Users -> {NoRow} \cup Row] /\ Safe
      <3>1. CASE user' = user
        BY <1>4, <3>1 DEF TypesInv, Tables
      <3>2. CASE user[u] # NoRow /\ user' = [user EXCEPT ![u].active = TRUE]
        <4>1. user[u] \in Row
          BY <2>1, <3>2 DEF TypesInv, Tables
        <4>2. [user[u] EXCEPT !.active = TRUE] \in Row
          BY <4>1
        <4> HIDE DEF u
        <4>3. user' \in [Users -> {NoRow} \cup Row] /\ \A w \in Users : w # u => user'[w] = user[w]
          BY <2>1, <3>2, <4>2 DEF TypesInv, Tables
        <4>4. user'[u] \in Row
          BY <2>1, <3>2, <4>2 DEF TypesInv, Tables
        <4> QED
          BY <4>3, <4>4, MembershipParameters DEF Safe
      <3> QED
        BY <2>2, <3>1, <3>2
    <2>4. Tables' /\ Others'
      BY <2>2, <2>3 DEF TypesInv, Tables, Others, directoryVars
    <2> QED
      BY <1>2, <1>5, <2>1, <2>2, <2>3, <2>4, Singles
  <1>11. CASE StartTask
    <2> DEFINE t == Head(tasks)
               x == [op |-> "delete_message"]
               l == <<x>>
               p == Invoke(t)
               s == p \o l
               A == {y \in StepsOf("projects") : y.op \in AccessOps}
    <2>1. /\ tasks \in Seq(Tasks) /\ tasks # <<>> /\ tries' = tries + 1 /\ tries < MaxReceive
          /\ UNCHANGED <<tables, directoryVars, tasks, recent>>
          /\ excuse \subseteq excuse' /\ excuse' \subseteq excuse \cup {"overtaken", "stale"}
      BY <1>11 DEF StartTask, TypesInv, QueueInv
    <2>2. todo' = [todo EXCEPT !["projects"] = <<>>] \/ todo' = [todo EXCEPT !["projects"] = s]
      BY <1>11 DEF StartTask
    <2>3. t \in Tasks
      BY <2>1
    <2> HIDE DEF t
    <2>4. p \in Seq(A)
      BY <2>3, Invoked DEF TypesInv
    <2>5. x \in StepsOf("projects")
      BY DEF StepsOf, Steps, ProjectsOps, PlainOps
    <2> HIDE DEF x, p
    <2>6. l \in Seq(StepsOf("projects")) /\ Len(l) = 1
      BY <2>5
    <2> HIDE DEF l, A
    <2>7. Elems(p) \subseteq A
      BY <2>4, ElemsOf
    <2>8. p \in Seq(StepsOf("projects")) /\ \A y \in Elems(p) : y.op # "delete_message"
      <3>1. Elems(p) \subseteq StepsOf("projects")
        BY <2>7 DEF A
      <3>2. p \in Seq(StepsOf("projects"))
        BY <2>4, <3>1, Retyped
      <3> QED
        BY <2>7, <3>2 DEF A, AccessOps
    <2>9. s \in Seq(StepsOf("projects"))
      <3>1. l \in Seq(StepsOf("projects")) /\ p \in Seq(StepsOf("projects"))
        BY <2>6, <2>8
      <3> QED
        BY <3>1, ElemsOf
    <2>10. OnlyLast(s, "delete_message")
      <3> DEFINE op == "delete_message"
                 S == StepsOf("projects")
      <3>1. p \in Seq(S) /\ l \in Seq(S) /\ Len(l) = 1 /\ \A y \in Elems(p) : y.op # op
        BY <2>6, <2>8
      <3> HIDE DEF op, S
      <3>2. OnlyLast(p \o l, op)
        BY <3>1, Closed
      <3> QED
        BY <3>2 DEF op
    <2> HIDE DEF s
    <2>11. OnlyLast(<<>>, "delete_message") /\ <<>> \in Seq(StepsOf("projects"))
      BY DEF OnlyLast
    <2>12. /\ PlansInv' /\ todo'["sync"] = todo["sync"]
           /\ OnlyLast(todo'["projects"], "delete_message")
      <3>1. ASSUME NEW z \in Seq(StepsOf("projects")), OnlyLast(z, "delete_message"),
                   todo' = [todo EXCEPT !["projects"] = z]
            PROVE  /\ PlansInv' /\ todo'["sync"] = todo["sync"]
                   /\ OnlyLast(todo'["projects"], "delete_message")
        BY <3>1, Planned DEF TypesInv, Actors
      <3> QED
        BY <2>2, <2>9, <2>10, <2>11, <3>1
    <2>13. Tables' /\ Others' /\ user' = user
      BY <2>1 DEF TypesInv, tables, Tables, Others, directoryVars, Excuses
    <2>14. SyncInv'
      BY <2>12, <2>13, SyncUntouched DEF TypesInv
    <2>15. QueueInv' /\ tries' \in 0 .. MaxReceive
      BY <2>1, AccessParameters DEF TypesInv, QueueInv
    <2> QED
      BY <2>12, <2>13, <2>14, <2>15 DEF TypesInv
  <1>12. CASE DeleteMessage
    <2>1. /\ todo["projects"] \in Seq(StepsOf("projects")) /\ todo["projects"] # <<>>
          /\ todo["projects"][1].op = "delete_message"
      BY <1>12 DEF DeleteMessage, At, TypesInv, PlansInv, Actors
    <2>2. /\ tasks \in Seq(Tasks) /\ tasks # <<>> /\ tasks' = Tail(tasks) /\ tries' = 0
          /\ recent' = recent
      BY <1>12, <2>1 DEF DeleteMessage, TypesInv, QueueInv
    <2>3. Len(todo["projects"]) = 1
      <3>1. 1 \in 1 .. Len(todo["projects"])
        BY <2>1
      <3> QED
        BY <2>1, <3>1 DEF TypesInv, OnlyLast
    <2>4. /\ Continue("projects", <<>>) /\ UNCHANGED tables /\ UNCHANGED excuse
          /\ UNCHANGED directoryVars
      BY <1>12 DEF DeleteMessage, Done
    <2>5. PlansInv' /\ todo'["sync"] = todo["sync"] /\ todo'["projects"] = <<>>
      <3>1. <<>> \in Seq(StepsOf("projects")) /\ "projects" \in Actors /\ "sync" \in Actors
        BY DEF Actors
      <3> QED
        BY <2>1, <2>3, <2>4, <3>1, Advance DEF TypesInv
    <2>6. Tables' /\ Others' /\ user' = user
      BY <2>4 DEF TypesInv, tables, Tables, Others, directoryVars
    <2>7. SyncInv'
      BY <2>5, <2>6, SyncUntouched DEF TypesInv
    <2>8. QueueInv' /\ tries' \in 0 .. MaxReceive
      BY <2>2, <2>5, AccessParameters DEF TypesInv, QueueInv
    <2>9. OnlyLast(todo'["projects"], "delete_message")
      BY <2>5 DEF OnlyLast
    <2> QED
      BY <2>5, <2>6, <2>7, <2>8, <2>9 DEF TypesInv
  <1>13. CASE DeadLetter
    <2>1. MaxReceive \in Nat \ {0}
      BY AccessParameters
    <2>2. /\ tasks \in Seq(Tasks) /\ tasks # <<>> /\ tasks' = Tail(tasks) /\ tries' = 0
          /\ recent' = recent
          /\ todo["projects"] = <<>> /\ todo' = todo
      BY <1>13, <2>1 DEF DeadLetter, TypesInv, QueueInv, Idle
    <2>3. Tables' /\ Others' /\ user' = user
      BY <1>13 DEF DeadLetter, TypesInv, tables, Tables, Others, directoryVars, Excuses
    <2>4. PlansInv' /\ SyncInv' /\ OnlyLast(todo'["projects"], "delete_message")
      BY <2>2, <2>3 DEF TypesInv, PlansInv, SyncInv
    <2>5. QueueInv' /\ tries' \in 0 .. MaxReceive
      BY <2>1, <2>2 DEF TypesInv, QueueInv
    <2> QED
      BY <2>3, <2>4, <2>5 DEF TypesInv
  <1> QED
    BY <1>6, <1>7, <1>8, <1>9, <1>10, <1>11, <1>12, <1>13 DEF Progress

\* What the directory becomes is a directory.
LEMMA DirectoryTyped ==
  ASSUME Others, NEW new \in DirectoryChanges
  PROVE  new \in [groups : SUBSET Groups, of : [Users -> {NoRow} \cup SUBSET Groups],
                  renamed : SUBSET Users]
  <1> DEFINE F == [Users -> {NoRow} \cup SUBSET Groups]
             T == [groups : SUBSET Groups, of : F, renamed : SUBSET Users]
  <1>1. ad \in T /\ ad.groups \subseteq Groups /\ ad.of \in F /\ ad.renamed \subseteq Users
    BY DEF Others
  <1>2. ASSUME NEW u \in Users, NEW v \in {NoRow} \cup SUBSET Groups
        PROVE  [ad.of EXCEPT ![u] = v] \in F
    BY <1>1
  <1> SUFFICES new \in T
    OBVIOUS
  <1> HIDE DEF F
  <1>3. CASE new \in UserChanges
    <2>1. PICK u \in Users : \/ new = [ad EXCEPT !.of[u] = NoRow, !.renamed = @ \ {u}]
                             \/ new = [ad EXCEPT !.of[u] = {}]
                             \/ new = [ad EXCEPT !.renamed = @ \cup {u}]
                             \/ new = [ad EXCEPT !.renamed = @ \ {u}]
      BY <1>3 DEF UserChanges, InDirectory
    <2> DEFINE f == [ad.of EXCEPT ![u] = NoRow]
               h == [ad.of EXCEPT ![u] = {}]
               R == ad.renamed \ {u}
               Q == ad.renamed \cup {u}
    <2>2. f \in F /\ h \in F
      BY <1>2
    <2>3. R \in SUBSET Users /\ Q \in SUBSET Users
      BY <1>1
    <2>4. \/ new = [ad EXCEPT !.of = f, !.renamed = R]
          \/ new = [ad EXCEPT !.of = h]
          \/ new = [ad EXCEPT !.renamed = Q]
          \/ new = [ad EXCEPT !.renamed = R]
      BY <2>1
    <2> HIDE DEF f, h, R, Q
    <2>5. CASE new = [ad EXCEPT !.of = f, !.renamed = R]
      BY <1>1, <2>2, <2>3, <2>5
    <2>6. CASE new = [ad EXCEPT !.of = h]
      BY <1>1, <2>2, <2>6
    <2>7. CASE new = [ad EXCEPT !.renamed = Q]
      BY <1>1, <2>3, <2>7
    <2>8. CASE new = [ad EXCEPT !.renamed = R]
      BY <1>1, <2>3, <2>8
    <2> QED
      BY <2>4, <2>5, <2>6, <2>7, <2>8 DEF T
  <1>4. CASE new \in MembershipChanges
    <2>1. PICK u \in Users, g \in ad.groups :
                 ad.of[u] # NoRow /\ new = [ad EXCEPT !.of[u] = IF g \in @ THEN @ \ {g} ELSE @ \cup {g}]
      BY <1>4 DEF MembershipChanges, InDirectory
    <2> DEFINE v == IF g \in ad.of[u] THEN ad.of[u] \ {g} ELSE ad.of[u] \cup {g}
               f == [ad.of EXCEPT ![u] = v]
    <2>2. new = [ad EXCEPT !.of = f]
      BY <2>1
    <2>3. ad.of[u] \subseteq Groups /\ g \in Groups
      BY <1>1, <2>1 DEF F
    <2>4. v \in {NoRow} \cup SUBSET Groups
      BY <2>3
    <2> HIDE DEF v
    <2>5. f \in F
      BY <1>2, <2>4
    <2> HIDE DEF f
    <2> QED
      BY <1>1, <2>2, <2>5
  <1>5. CASE new \in GroupChanges
    <2>1. PICK g \in Groups :
             \/ new = [ad EXCEPT !.groups = @ \cup {g}]
             \/ new = [ad EXCEPT !.groups = @ \ {g},
                                 !.of = [u \in Users |-> IF u \in InDirectory THEN @[u] \ {g} ELSE NoRow]]
      BY <1>5 DEF GroupChanges
    <2> DEFINE f == [u \in Users |-> IF u \in InDirectory THEN ad.of[u] \ {g} ELSE NoRow]
               G == ad.groups \cup {g}
               H == ad.groups \ {g}
    <2>2. f \in F
      BY <1>1 DEF InDirectory, F
    <2>3. G \in SUBSET Groups /\ H \in SUBSET Groups
      BY <1>1
    <2>4. new = [ad EXCEPT !.groups = G] \/ new = [ad EXCEPT !.groups = H, !.of = f]
      BY <2>1
    <2> HIDE DEF f, G, H
    <2>5. CASE new = [ad EXCEPT !.groups = G]
      BY <1>1, <2>3, <2>5
    <2>6. CASE new = [ad EXCEPT !.groups = H, !.of = f]
      BY <1>1, <2>2, <2>3, <2>6
    <2> QED
      BY <2>4, <2>5, <2>6 DEF T
  <1> QED
    BY <1>3, <1>4, <1>5 DEF DirectoryChanges

\* A deployed cluster has the types.
LEMMA InitTypes ==
  ASSUME Init
  PROVE  TypesInv
  <1> DEFINE Row == [enabled : BOOLEAN, active : BOOLEAN, groups : SUBSET Groups]
  <1>1. PICK here \in {Users, ActiveUsers}, G \in {Groups, OldGroups} :
           /\ group = [g \in Groups |-> IF g \in G THEN "enabled" ELSE "none"]
           /\ user = [u \in Users |-> IF u \in here
                                      THEN [enabled |-> TRUE, active |-> u \in ActiveUsers, groups |-> G]
                                      ELSE NoRow]
           /\ members = [g \in Groups |-> IF g \in G THEN ActiveUsers ELSE {}]
           /\ homes = here
           /\ synced \in {"no", "yes"}
           /\ \/ /\ project = [state |-> "none", groups |-> {}, users |-> Unset]
                 /\ links = {}
                 /\ access = [u \in Users |-> {}]
              \/ /\ project \in [state : {"enabled"}, groups : {G}, users : UserChoices]
                 /\ links = G
                 /\ access = [u \in Users |-> Entitled(u)]
    BY DEF Init
  <1>2. /\ here \subseteq Users /\ G \subseteq Groups /\ ActiveUsers \subseteq Users
        /\ UserChoices \subseteq UserLists
    BY AccessParameters DEF UserLists
  <1>3. user \in [Users -> {NoRow} \cup Row]
    <2>1. \A u \in Users : [enabled |-> TRUE, active |-> u \in ActiveUsers, groups |-> G] \in Row
      <3>1. \A u \in Users : (u \in ActiveUsers) \in BOOLEAN
        OBVIOUS
      <3> QED
        BY <1>2, <3>1
    <2> QED
      BY <1>1, <2>1
  <1>4. /\ members \in [Groups -> SUBSET Users]
        /\ group \in [Groups -> {"none", "enabled", "disabled"}]
    BY <1>1, <1>2
  <1>5. project \in [state : {"none", "enabled", "disabled", "deleted"}, groups : SUBSET Groups, users : UserLists]
    BY <1>1, <1>2 DEF UserLists
  <1>6. links \subseteq Groups
    BY <1>1, <1>2
  <1>7. access \in [Users -> SUBSET Reasons]
    <2>1. project.groups \subseteq Groups
      BY <1>5
    <2>2. \A u \in Users : Entitled(u) \subseteq Reasons
      BY <2>1 DEF Entitled, Reasons
    <2> QED
      BY <1>1, <2>2
  <1>8. Tables
    BY <1>3, <1>4, <1>5, <1>6, <1>7 DEF Tables
  <1>9. Others
    <2>1. ad \in [groups : SUBSET Groups, of : [Users -> {NoRow} \cup SUBSET Groups],
                  renamed : SUBSET Users]
      BY DEF Init
    <2>2. excuse = {} /\ faults = 0 /\ MaxFaults \in Nat
      BY AccessParameters DEF Init
    <2> QED
      BY <1>1, <1>2, <2>1, <2>2 DEF Others
  <1>10. todo = [a \in Actors |-> <<>>] /\ tasks = <<>> /\ recent = {} /\ tries = 0
    BY DEF Init
  <1>11. PlansInv /\ \A a \in Actors : todo[a] = <<>>
    BY <1>10 DEF PlansInv
  <1>12. SyncInv /\ OnlyLast(todo["projects"], "delete_message")
    <2>1. todo["sync"] = <<>> /\ todo["projects"] = <<>>
      BY <1>11 DEF Actors
    <2>2. Elems(todo["sync"]) = {}
      BY <2>1, ElemsOf
    <2> QED
      BY <2>1, <2>2 DEF SyncInv, OnlyLast
  <1>13. QueueInv /\ tries \in 0 .. MaxReceive
    BY <1>10, <1>11, AccessParameters DEF QueueInv, Actors
  <1> QED
    BY <1>8, <1>9, <1>11, <1>12, <1>13 DEF TypesInv

\* Every step keeps the types.
LEMMA NextTypes ==
  ASSUME TypesInv, [Next]_vars
  PROVE  TypesInv'
  <1>1. CASE Request
    BY <1>1, RequestTypes
  <1>2. CASE Progress
    BY <1>2, ProgressTypes
  <1>3. CASE Forget
    <2>1. /\ UNCHANGED <<tables, todo, excuse, directoryVars, tasks, tries>> /\ recent' = {}
      BY <1>3 DEF Forget
    <2>2. Tables' /\ Others' /\ PlansInv' /\ SyncInv'
      BY <2>1 DEF TypesInv, tables, Tables, Others, PlansInv, SyncInv, directoryVars
    <2> QED
      BY <2>1, <2>2 DEF TypesInv, QueueInv
  <1>4. CASE StartSync
    <2> DEFINE x == [op |-> "sync_groups"]
               s == <<x>>
    <2>1. /\ UNCHANGED <<tables, excuse, ad, homes, faults, queueVars>> /\ synced' = "running"
          /\ todo' = [todo EXCEPT !["sync"] = s]
      BY <1>4 DEF StartSync
    <2>2. x \in StepsOf("sync") /\ x.op \notin Needy \cup Leaving
      BY DEF StepsOf, Steps, PlainOps, SyncOps, Needy, Leaving
    <2>3. Tables' /\ Others'
      BY <2>1 DEF TypesInv, tables, Tables, Others
    <2> HIDE DEF x
    <2>4. s \in Seq(StepsOf("sync")) /\ Elems(s) = {x} /\ Len(s) = 1
      BY <2>2, Singles
    <2> HIDE DEF s
    <2>5. PlansInv' /\ todo'["sync"] = s /\ todo'["projects"] = todo["projects"]
      BY <2>1, <2>4, Planned DEF TypesInv, Actors
    <2>6. \A op : OnlyLast(s, op)
      BY <2>4 DEF OnlyLast
    <2>7. SyncInv'
      BY <2>2, <2>4, <2>5, <2>6 DEF SyncInv
    <2> QED
      BY <2>1, <2>3, <2>5, <2>7 DEF TypesInv, QueueInv, queueVars
  <1>5. CASE ChangeDirectory
    <2>1. PICK new \in DirectoryChanges : DirectoryChange(new)
      BY <1>5 DEF ChangeDirectory
    <2>2. /\ UNCHANGED <<tables, todo, excuse, homes, faults, queueVars>> /\ ad' = new
          /\ synced' = "no"
      BY <1>5, <2>1 DEF ChangeDirectory, DirectoryChange
    <2>3. new \in [groups : SUBSET Groups, of : [Users -> {NoRow} \cup SUBSET Groups],
                   renamed : SUBSET Users]
      BY DirectoryTyped DEF TypesInv
    <2>4. Tables' /\ Others' /\ PlansInv' /\ SyncInv'
      BY <2>2, <2>3 DEF TypesInv, tables, Tables, Others, PlansInv, SyncInv
    <2> QED
      BY <2>2, <2>4 DEF TypesInv, QueueInv, queueVars
  <1>6. CASE Crash
    <2>1. /\ UNCHANGED <<tables, ad, homes, queueVars>> /\ synced' = "no"
          /\ todo' = [a \in Actors |-> <<>>] /\ faults' = faults + 1 /\ faults < MaxFaults
          /\ excuse' = excuse \/ excuse' = excuse \cup {"interrupted"}
      BY <1>6 DEF Crash
    <2>2. Tables' /\ Others'
      <3>1. MaxFaults \in Nat
        BY AccessParameters
      <3>2. faults' \in 0 .. MaxFaults
        BY <2>1, <3>1 DEF TypesInv, Others
      <3>3. excuse' \subseteq Excuses
        BY <2>1 DEF TypesInv, Others, Excuses
      <3>4. Tables'
        BY <2>1 DEF TypesInv, tables, Tables
      <3> QED
        BY <2>1, <3>2, <3>3, <3>4 DEF TypesInv, Others
    <2>3. PlansInv' /\ \A a \in Actors : todo'[a] = <<>>
      BY <2>1 DEF PlansInv
    <2>4. todo'["sync"] = <<>> /\ todo'["projects"] = <<>>
      BY <2>3 DEF Actors
    <2>5. Elems(todo'["sync"]) = {}
      BY <2>4, ElemsOf
    <2>6. SyncInv' /\ OnlyLast(todo'["projects"], "delete_message")
      BY <2>4, <2>5 DEF SyncInv, OnlyLast
    <2> QED
      BY <2>1, <2>2, <2>3, <2>4, <2>6 DEF TypesInv, QueueInv, queueVars
  <1>7. CASE UNCHANGED vars
    <2>1. UNCHANGED <<tables, todo, excuse, directoryVars, queueVars>>
      BY <1>7 DEF vars
    <2>2. Tables' /\ Others' /\ PlansInv' /\ SyncInv'
      BY <2>1 DEF TypesInv, tables, Tables, Others, PlansInv, SyncInv, directoryVars
    <2> QED
      BY <2>1, <2>2 DEF TypesInv, QueueInv, queueVars
  <1> QED
    BY <1>1, <1>2, <1>3, <1>4, <1>5, <1>6, <1>7 DEF Next, Finished

\* Every variable keeps its type, the row of each user included: the
\* synchronisation never writes to the row of a user it has removed.
THEOREM TypesHold == Spec => []TypeOK
  <1>1. Init => TypesInv
    BY InitTypes
  <1>2. TypesInv /\ [Next]_vars => TypesInv'
    BY NextTypes
  <1>3. TypesInv => TypeOK
    BY DEF TypesInv, TypeOK, Tables, Others, PlansInv, Reasons, UserLists, Excuses
  <1> QED
    BY <1>1, <1>2, <1>3, PTL DEF Spec

-----------------------------------------------------------------------------
(* Memberships *)

\* The steps of user_projects that follow a new membership.
Calm == {"member_added", "grant", "write"}

\* They are followed by steps of the same kind.
LEMMA CalmStep ==
  ASSUME Tables, PlansInv, NEW a \in Actors, UserProjectsStep(a), Cur(a).op \in Calm
  PROVE  \E s \in Seq(StepsOf(a)) : Continue(a, s) /\ \A x \in Elems(s) : x.op \in Calm
  <1>1. <<>> \in Seq(StepsOf(a)) /\ Elems(<<>>) = {}
    BY Singles
  <1>2. ASSUME NEW x \in StepsOf(a), x.op \in Calm, Continue(a, <<x>>)
        PROVE  \E s \in Seq(StepsOf(a)) : Continue(a, s) /\ \A y \in Elems(s) : y.op \in Calm
    <2>1. <<x>> \in Seq(StepsOf(a)) /\ Elems(<<x>>) = {x}
      BY Singles
    <2> QED
      BY <1>2, <2>1
  <1>3. ASSUME Continue(a, <<>>)
        PROVE  \E s \in Seq(StepsOf(a)) : Continue(a, s) /\ \A y \in Elems(s) : y.op \in Calm
    BY <1>1, <1>3
  <1>4. CASE MemberChanged(a)
    <2> DEFINE x == CreateUserProject(Cur(a).u, Cur(a).g)
    <2>1. At(a, "member_added")
      BY <1>4 DEF MemberChanged, At, Cur, Calm
    <2>2. Cur(a).g \in Groups /\ Cur(a).u \in Users /\ a \in {"api", "sync"}
      BY <2>1, Current, Fields DEF MemberOps, Actors, ProjectsOps
    <2>3. x \in StepsOf(a) /\ x.op \in Calm
      BY <2>2 DEF StepsOf, Steps, ApiOps, SyncOps, CreateUserProject, Reasons, Calm
    <2>4. Continue(a, <<x>>) \/ Continue(a, <<>>)
      BY <1>4, <2>1 DEF MemberChanged, At
    <2> HIDE DEF x
    <2> QED
      BY <1>2, <1>3, <2>3, <2>4
  <1>5. CASE Grant(a)
    <2> DEFINE x == [op |-> "write", u |-> Cur(a).u, row |-> access[Cur(a).u] \cup {Cur(a).by}]
    <2>1. Cur(a).u \in Users /\ Cur(a).by \in Reasons
      BY <1>5, Current, Fields DEF Grant
    <2>2. x \in StepsOf(a) /\ x.op \in Calm
      BY <2>1 DEF StepsOf, Steps, Tables, ProjectsOps, ApiOps, SyncOps, Actors, Calm
    <2>3. Continue(a, <<x>>)
      BY <1>5 DEF Grant
    <2> HIDE DEF x
    <2> QED
      BY <1>2, <2>2, <2>3
  <1>6. CASE Write(a)
    BY <1>3, <1>6 DEF Write, Done
  <1> QED
    BY <1>4, <1>5, <1>6
       DEF UserProjectsStep, Link, Unlink, GrantMembers, RevokeMembers, Revoke, Refresh,
                            At, Cur, Calm

\* The ways in which memberships and rows are left apart.
Bad == {"missed", "orphaned", "interrupted"}
Excused == excuse \cap Bad # {}

\* While the synchronisation runs, requests only write the project's row and
\* send a task.
ExclusiveInv == todo["sync"] # <<>> => \A x \in Elems(todo["api"]) : x.op \in Light

\* The user is being activated.
Activating(u) == [op |-> "set_active", u |-> u] \in Elems(todo["api"])

\* A request adds users to groups only in an activation, which ends with
\* set_active and has no step that fails but these.
ActivationInv ==
    \/ Excused
    \/ /\ OnlyLast(todo["api"], "set_active")
       /\ \A x \in Elems(todo["api"]) : x.op = "add_to_group" => x.bypass = TRUE /\ Activating(x.u)
       /\ \A s, x \in Elems(todo["api"]) : s.op = "set_active" =>
             /\ x.op \in Calm \cup {"set_active", "add_to_group", "catch_all"}
             /\ x.op \in {"set_active", "add_to_group"} => x.u = s.u

\* What the row of a user says of its memberships.
Belongs(u, g) == user[u] # NoRow /\ user[u].active = TRUE /\ g \in user[u].groups

\* The memberships are those of the rows.  A user that is being activated has
\* some of them, and the steps that add the others are still to come.
MatchInv ==
    \/ Excused
    \/ \A u \in Users :
          /\ Activating(u) =>
                /\ user[u] # NoRow /\ user[u].active = FALSE
                /\ \A g \in Groups :
                      /\ u \in members[g] => g \in user[u].groups
                      /\ g \in user[u].groups =>
                            u \in members[g] \/ AddToGroup(u, g, TRUE) \in Elems(todo["api"])
          /\ ~Activating(u) => \A g \in Groups : u \in members[g] <=> Belongs(u, g)

MembershipInv == TypesInv /\ ExclusiveInv /\ ActivationInv /\ MatchInv

\* The synchronisation never overlaps an activation.
LEMMA SyncAlone ==
  ASSUME ExclusiveInv, todo["sync"] # <<>>
  PROVE  /\ \A u : ~Activating(u)
         /\ \A x \in Elems(todo["api"]) : x.op \notin {"set_active", "add_to_group"}
  BY DEF ExclusiveInv, Activating, Light

\* An actor that does not fan out has only light steps.
LEMMA LightPlan ==
  ASSUME ~Overlap, NEW a \in Actors, NEW b \in Actors \ {a}, MayFan(a), PlansInv
  PROVE  /\ \A x \in Elems(todo[b]) : x.op \in Light
         /\ b = "sync" => todo[b] = <<>>
  <1>1. todo[b] \in Seq(StepsOf(b)) /\ \A i \in 1 .. Len(todo[b]) : todo[b][i].op \in Light
    BY DEF MayFan, Fanning, PlansInv
  <1>2. ASSUME b = "sync", todo[b] # <<>>
        PROVE  FALSE
    <2>1. 1 \in 1 .. Len(todo[b]) /\ todo[b][1] \in StepsOf(b)
      BY <1>1, <1>2
    <2> QED
      BY <1>1, <1>2, <2>1 DEF StepsOf, SyncOps, Ends, Light
  <1> QED
    BY <1>1, <1>2 DEF Elems

\* Neither the requests' plan, nor the memberships and what rows say of them
\* have changed.
LEMMA MatchUntouched ==
  ASSUME ActivationInv, MatchInv, todo'["api"] = todo["api"], excuse \subseteq excuse',
         members' = members,
         \A u \in Users : /\ user'[u] = NoRow <=> user[u] = NoRow
                          /\ user[u] # NoRow => /\ user'[u].active = user[u].active
                                                /\ user'[u].groups = user[u].groups
  PROVE  ActivationInv' /\ MatchInv'
  <1>1. CASE Excused
    BY <1>1 DEF Excused, ActivationInv, MatchInv
  <1>2. CASE ~Excused
    <2>1. ActivationInv'
      BY <1>2 DEF ActivationInv, Activating
    <2>2. \A u \in Users, g \in Groups : Belongs(u, g)' <=> Belongs(u, g)
      BY DEF Belongs
    <2>3. \A u \in Users : Activating(u)' <=> Activating(u)
      BY DEF Activating
    <2>4. MatchInv'
      BY <1>2, <2>2, <2>3 DEF MatchInv
    <2> QED
      BY <2>1, <2>4
  <1> QED
    BY <1>1, <1>2

\* A step of the synchronisation changes a row and the memberships together.
LEMMA SyncMatches ==
  ASSUME MembershipInv, DirectoryStep("sync")
  PROVE  ActivationInv' /\ MatchInv'
  <1> DEFINE Row == [enabled : BOOLEAN, active : BOOLEAN, groups : SUBSET Groups]
             c == Cur("sync")
  <1>1. /\ todo["sync"] # <<>> /\ todo'["api"] = todo["api"]
        /\ Tables /\ Tables'
    BY DirectoryTypes DEF MembershipInv, TypesInv, Actors
  <1>2. ASSUME NEW op, At("sync", op)
        PROVE  c \in StepsOf("sync") /\ c \in Steps /\ c.op = op
    BY <1>2, Current DEF MembershipInv, TypesInv, Actors
  <1>3. /\ \A u : ~Activating(u) /\ ~Activating(u)'
        /\ \A x \in Elems(todo["api"]) : x.op \notin {"set_active", "add_to_group"}
    BY <1>1, SyncAlone DEF MembershipInv, Activating
  <1>4. ActivationInv'
    <2>1. OnlyLast(todo'["api"], "set_active")
      BY <1>1, <1>3 DEF OnlyLast, Elems
    <2> QED
      BY <1>1, <1>3, <2>1 DEF ActivationInv
  <1> SUFFICES MatchInv'
    BY <1>4
  <1>5. ASSUME excuse' = excuse, ~Excused => \A u \in Users,
               g \in Groups : u \in members'[g] <=> Belongs(u, g)'
        PROVE  MatchInv'
    BY <1>3, <1>5 DEF MatchInv, Excused
  <1>6. ~Excused => \A u \in Users, g \in Groups : u \in members[g] <=> Belongs(u, g)
    BY <1>3 DEF MembershipInv, MatchInv
  <1>7. ASSUME user' = user, members' = members, excuse \subseteq excuse'
        PROVE  MatchInv'
    BY <1>1, <1>7, MatchUntouched DEF MembershipInv
  <1>8. ASSUME UNCHANGED tables, excuse \subseteq excuse'
        PROVE  MatchInv'
    BY <1>7, <1>8 DEF tables
  <1>9. ASSUME NEW u \in Users, user[u] # NoRow, NEW G \in SUBSET Groups,
               user' = [user EXCEPT ![u].groups = G]
        PROVE  /\ \A v \in Users : v # u => user'[v] = user[v]
               /\ user'[u] # NoRow /\ user'[u].active = user[u].active /\ user'[u].groups = G
               /\ user[u].active \in BOOLEAN
    <2>1. user[u] \in Row
      BY <1>1, <1>9 DEF Tables
    <2>2. user'[u] = [user[u] EXCEPT !.groups = G] /\ \A v \in Users : v # u => user'[v] = user[v]
      BY <1>1, <1>9 DEF Tables
    <2>3. user'[u] \in Row /\ user'[u].active = user[u].active /\ user'[u].groups = G
      BY <2>1, <2>2
    <2> QED
      BY <2>1, <2>2, <2>3, MembershipParameters
  <1>10. ASSUME NEW u \in Users, NEW g \in Groups, user[u] # NoRow, Leave("sync", u, g)
         PROVE  MatchInv'
    <2>1. /\ user' = [user EXCEPT ![u].groups = user[u].groups \ {g}]
          /\ user[u].groups \ {g} \in SUBSET Groups
          /\ members' = [members EXCEPT ![g] = @ \ {u}] /\ excuse' = excuse
      BY <1>1, <1>10 DEF Leave, Tables
    <2>2. /\ \A v \in Users : v # u => user'[v] = user[v]
          /\ user'[u] # NoRow /\ user'[u].active = user[u].active
          /\ user'[u].groups = user[u].groups \ {g}
      BY <1>9, <1>10, <2>1
    <2>3. members'[g] = members[g] \ {u} /\ \A h \in Groups : h # g => members'[h] = members[h]
      BY <1>1, <2>1 DEF Tables
    <2>4. ASSUME ~Excused, NEW v \in Users, NEW h \in Groups
          PROVE  v \in members'[h] <=> Belongs(v, h)'
      <3>1. v \in members[h] <=> Belongs(v, h)
        BY <1>6, <2>4
      <3>2. CASE v # u
        BY <2>2, <2>3, <3>1, <3>2 DEF Belongs
      <3>3. CASE v = u /\ h = g
        BY <2>2, <2>3, <3>3 DEF Belongs
      <3>4. CASE v = u /\ h # g
        BY <1>10, <2>2, <2>3, <3>1, <3>4 DEF Belongs
      <3> QED
        BY <3>2, <3>3, <3>4
    <2> QED
      BY <1>5, <2>1, <2>4
  <1>11. CASE AddUsersToGroup("sync")
    <2> DEFINE u == c.u
               g == c.g
    <2>1. u \in Users /\ g \in Groups /\ c.bypass = FALSE
      BY <1>2, <1>11, Fields DEF AddUsersToGroup, StepsOf
    <2>2. CASE group[g] # "enabled" \/ user[u] = NoRow \/ ~user[u].enabled
      <3>1. UNCHANGED tables /\ excuse \subseteq excuse'
        BY <1>11, <2>2 DEF AddUsersToGroup
      <3> QED
        BY <1>8, <3>1
    <2>3. CASE ~(group[g] # "enabled" \/ user[u] = NoRow \/ ~user[u].enabled)
      <3>1. /\ user[u] # NoRow /\ user' = [user EXCEPT ![u].groups = user[u].groups \cup {g}]
            /\ excuse' = excuse
            /\ user[u].active => members' = [members EXCEPT ![g] = @ \cup {u}]
            /\ ~user[u].active => members' = members
        BY <1>1, <1>11, <2>1, <2>3 DEF AddUsersToGroup, Tables
      <3>2. user[u].groups \cup {g} \in SUBSET Groups
        BY <1>1, <2>1, <3>1 DEF Tables
      <3> HIDE DEF u, g
      <3>3. /\ \A v \in Users : v # u => user'[v] = user[v]
            /\ user'[u] # NoRow /\ user'[u].active = user[u].active
            /\ user'[u].groups = user[u].groups \cup {g} /\ user[u].active \in BOOLEAN
        BY <1>9, <2>1, <3>1, <3>2
      <3>4. CASE user[u].active = TRUE
        <4>1. /\ members'[g] = members[g] \cup {u}
              /\ \A h \in Groups : h # g => members'[h] = members[h]
          BY <1>1, <2>1, <3>1, <3>4 DEF Tables
        <4>2. ASSUME ~Excused, NEW v \in Users, NEW h \in Groups
              PROVE  v \in members'[h] <=> Belongs(v, h)'
          <5>1. v \in members[h] <=> Belongs(v, h)
            BY <1>6, <4>2
          <5>2. CASE v # u
            BY <3>3, <4>1, <5>1, <5>2 DEF Belongs
          <5>3. CASE v = u /\ h = g
            BY <3>3, <3>4, <4>1, <5>3 DEF Belongs
          <5>4. CASE v = u /\ h # g
            BY <3>1, <3>3, <4>1, <5>1, <5>4 DEF Belongs
          <5> QED
            BY <5>2, <5>3, <5>4
        <4> QED
          BY <1>5, <3>1, <4>2
      <3>5. CASE user[u].active = FALSE
        <4>1. members' = members
          BY <3>1, <3>5
        <4>2. ASSUME ~Excused, NEW v \in Users, NEW h \in Groups
              PROVE  v \in members'[h] <=> Belongs(v, h)'
          BY <1>6, <3>1, <3>3, <3>5, <4>1, <4>2 DEF Belongs
        <4> QED
          BY <1>5, <3>1, <4>2
      <3> QED
        BY <3>3, <3>4, <3>5
    <2> QED
      BY <2>2, <2>3
  <1>12. CASE RemoveFromGroup("sync")
    <2> DEFINE u == c.u
               g == c.g
    <2>1. u \in Users /\ g \in Groups /\ c \in Elems(todo["sync"]) /\ c.op = "remove_from_group"
      BY <1>12, Current, Fields
         DEF RemoveFromGroup, MemberOps, MembershipInv, TypesInv, Actors
    <2>2. user[u] # NoRow
      BY <2>1 DEF MembershipInv, TypesInv, SyncInv, Needy
    <2>3. CASE /\ UNCHANGED <<members, excuse>>
               /\ user' = IF user[u].active THEN user ELSE [user EXCEPT ![u].groups = @ \ {g}]
      <3>1. CASE user[u].active
        BY <1>7, <2>3, <3>1
      <3>2. CASE ~user[u].active
        <4>1. /\ user' = [user EXCEPT ![u].groups = user[u].groups \ {g}]
              /\ user[u].groups \ {g} \in SUBSET Groups /\ user[u].active = FALSE
          BY <1>1, <2>1, <2>2, <2>3, <3>2 DEF Tables
        <4> HIDE DEF u, g
        <4>2. /\ \A v \in Users : v # u => user'[v] = user[v]
              /\ user'[u].active = FALSE
          BY <1>9, <2>1, <2>2, <4>1
        <4>3. ASSUME ~Excused, NEW v \in Users, NEW h \in Groups
              PROVE  v \in members'[h] <=> Belongs(v, h)'
          BY <1>6, <2>3, <4>1, <4>2, <4>3 DEF Belongs
        <4> QED
          BY <1>5, <2>3, <4>3
      <3> QED
        BY <3>1, <3>2
    <2>4. CASE UNCHANGED <<tables, excuse>>
      BY <1>8, <2>4
    <2>5. CASE Leave("sync", u, g)
      BY <1>10, <2>1, <2>2, <2>5
    <2> QED
      BY <1>12, <2>3, <2>4, <2>5 DEF RemoveFromGroup
  <1>13. CASE ForceRemove("sync")
    <2>1. c.u \in Users /\ c.g \in Groups
      BY <1>2, <1>13, Fields DEF ForceRemove, MemberOps
    <2>2. CASE user[c.u] = NoRow
      BY <1>8, <1>13, <2>2 DEF ForceRemove
    <2>3. CASE user[c.u] # NoRow
      BY <1>10, <1>13, <2>1, <2>3 DEF ForceRemove
    <2> QED
      BY <2>2, <2>3
  <1>14. CASE CreateUser("sync")
    <2> DEFINE u == c.u
               row == [enabled |-> TRUE, active |-> FALSE, groups |-> c.groups]
    <2>1. u \in Users /\ excuse' = excuse
      BY <1>2, <1>14, Fields DEF CreateUser
    <2>2. CASE UNCHANGED tables
      BY <1>8, <2>1, <2>2
    <2>3. CASE user[u] = NoRow /\ user' = [user EXCEPT ![u] = row] /\ members' = members
      <3>1. user'[u].active = FALSE /\ \A v \in Users : v # u => user'[v] = user[v]
        BY <1>1, <2>1, <2>3 DEF Tables
      <3> HIDE DEF u
      <3>2. ASSUME ~Excused, NEW v \in Users, NEW h \in Groups
            PROVE  v \in members'[h] <=> Belongs(v, h)'
        BY <1>6, <2>3, <3>1, <3>2 DEF Belongs
      <3> QED
        BY <1>5, <2>1, <3>2
    <2> QED
      BY <1>14, <2>2, <2>3 DEF CreateUser
  <1>15. CASE DeleteUser("sync")
    <2> DEFINE u == c.u
               row == user[u]
               left == {g \in row.groups : group[g] = "enabled"}
               crossed == left \cup {g \in row.groups : group[g] = "none" /\ ~row.active}
    <2>1. u \in Users /\ excuse' = excuse
      BY <1>2, <1>15, Fields DEF DeleteUser, UserOps
    <2>2. CASE UNCHANGED <<user, members>>
      BY <1>7, <2>1, <2>2
    <2>3. CASE /\ row # NoRow
               /\ members' = [g \in Groups |-> IF g \in left THEN members[g] \ {u} ELSE members[g]]
               /\ user' = [user EXCEPT ![u].groups = @ \ crossed]
      <3>1. /\ user' = [user EXCEPT ![u].groups = row.groups \ crossed]
            /\ row.groups \ crossed \in SUBSET Groups /\ row.active \in BOOLEAN
        BY <1>1, <2>1, <2>3 DEF Tables
      <3>2. row.active = TRUE => \A g \in Groups : g \in crossed <=> g \in left
        OBVIOUS
      <3>3. left \subseteq row.groups
        OBVIOUS
      <3> HIDE DEF u, left, crossed
      <3>4. /\ \A v \in Users : v # u => user'[v] = user[v]
            /\ user'[u] # NoRow /\ user'[u].active = user[u].active
            /\ user'[u].groups = user[u].groups \ crossed
        BY <1>9, <2>1, <2>3, <3>1
      <3>5. ASSUME ~Excused, NEW v \in Users, NEW h \in Groups
            PROVE  v \in members'[h] <=> Belongs(v, h)'
        <4>1. CASE v = u
          <5>1. CASE row.active = TRUE
            BY <1>6, <2>3, <3>2, <3>3, <3>4, <3>5, <4>1, <5>1 DEF Belongs
          <5>2. CASE row.active = FALSE
            BY <1>6, <2>3, <3>4, <3>5, <4>1, <5>2 DEF Belongs
          <5> QED
            BY <3>1, <5>1, <5>2
        <4>2. CASE v # u
          BY <1>6, <2>3, <3>4, <3>5, <4>2 DEF Belongs
        <4> QED
          BY <4>1, <4>2
      <3> QED
        BY <1>5, <2>1, <3>5
    <2> QED
      BY <1>15, <2>2, <2>3 DEF DeleteUser
  <1>16. CASE DropUser("sync")
    <2>1. c.u \in Users
      BY <1>2, <1>16, Fields DEF DropUser, UserOps
    <2>2. user' = [user EXCEPT ![c.u] = NoRow] /\ members' = members
      BY <1>16 DEF DropUser
    <2>3. CASE \E g \in Groups : c.u \in members[g]
      <3>1. "orphaned" \in excuse'
        BY <1>16, <2>3 DEF DropUser
      <3> QED
        BY <3>1 DEF MatchInv, Excused, Bad
    <2>4. CASE ~ \E g \in Groups : c.u \in members[g]
      <3>1. excuse' = excuse
        BY <1>16, <2>4 DEF DropUser
      <3>2. user'[c.u] = NoRow /\ \A v \in Users : v # c.u => user'[v] = user[v]
        BY <1>1, <2>1, <2>2 DEF Tables
      <3>3. ASSUME ~Excused, NEW v \in Users, NEW h \in Groups
            PROVE  v \in members'[h] <=> Belongs(v, h)'
        BY <1>6, <2>2, <2>4, <3>2, <3>3 DEF Belongs
      <3> QED
        BY <1>5, <3>1, <3>3
    <2> QED
      BY <2>3, <2>4
  <1>17. CASE \/ RequestHome("sync") \/ CreateGroup("sync") \/ DeleteGroup("sync") \/ RemoveProject("sync")
              \/ DropGroup("sync") \/ SyncAllGroups("sync") \/ SyncAllUsers("sync") \/ CompareUser("sync")
              \/ Synced("sync")
    <2>1. user' = user /\ members' = members /\ excuse' = excuse
      BY <1>17
         DEF RequestHome, CreateGroup, DeleteGroup, RemoveProject, DropGroup,
             SyncAllGroups,
                   SyncAllUsers, CompareUser, Synced, tables
    <2> QED
      BY <1>7, <2>1
  <1> QED
    BY <1>4, <1>11, <1>12, <1>13, <1>14, <1>15, <1>16, <1>17 DEF DirectoryStep

\* No user was being activated, and none is now.
LEMMA NoneActivated ==
  ASSUME MatchInv, excuse \subseteq excuse', members' = members, user' = user,
         \A x \in Elems(todo["api"]) : x.op # "set_active",
         \A x \in Elems(todo'["api"]) : x.op \notin {"set_active", "add_to_group"}
  PROVE  ActivationInv' /\ MatchInv'
  <1>1. \A u : ~Activating(u) /\ ~Activating(u)'
    BY DEF Activating
  <1>2. OnlyLast(todo'["api"], "set_active")
    BY DEF OnlyLast, Elems
  <1>3. ActivationInv'
    BY <1>2 DEF ActivationInv
  <1>4. CASE Excused
    BY <1>3, <1>4 DEF Excused, MatchInv
  <1>5. CASE ~Excused
    <2>1. \A u \in Users, g \in Groups : Belongs(u, g)' <=> Belongs(u, g)
      BY DEF Belongs
    <2> QED
      BY <1>1, <1>3, <1>5, <2>1 DEF MatchInv
  <1> QED
    BY <1>4, <1>5

\* A step that is not one of an activation.
LEMMA NoActivation ==
  ASSUME ActivationInv, ~Excused, NEW c \in Elems(todo["api"]),
         c.op \notin Calm \cup {"set_active", "add_to_group", "catch_all"}
  PROVE  \A x \in Elems(todo["api"]) : x.op \notin {"set_active", "add_to_group"}
  <1>1. \A x \in Elems(todo["api"]) : x.op # "set_active"
    BY DEF ActivationInv
  <1>2. \A x \in Elems(todo["api"]) : x.op # "add_to_group"
    BY <1>1 DEF ActivationInv, Activating
  <1> QED
    BY <1>1, <1>2

\* Once excused, always excused.
LEMMA StaysExcused ==
  ASSUME Excused, excuse \subseteq excuse'
  PROVE  ActivationInv' /\ MatchInv'
  BY DEF Excused, ActivationInv, MatchInv

\* An activation goes on: it has the steps it had, and calm ones.
LEMMA ActivationKept ==
  ASSUME ActivationInv, ~Excused, OnlyLast(todo'["api"], "set_active"),
         \A x \in Elems(todo'["api"]) : x \in Elems(todo["api"]) \/ x.op \in Calm,
         \A x \in Elems(todo["api"]) : x.op = "set_active" => x \in Elems(todo'["api"])
  PROVE  ActivationInv' /\ \A u : Activating(u)' <=> Activating(u)
  <1>1. \A u : Activating(u)' <=> Activating(u)
    BY DEF Activating, Calm
  <1>2. \A x \in Elems(todo'["api"]) : x.op = "add_to_group" => x.bypass = TRUE /\ Activating(x.u)'
    BY <1>1 DEF ActivationInv, Calm
  <1>3. \A s, x \in Elems(todo'["api"]) : s.op = "set_active" =>
           /\ x.op \in Calm \cup {"set_active", "add_to_group", "catch_all"}
           /\ x.op \in {"set_active", "add_to_group"} => x.u = s.u
    BY DEF ActivationInv, Calm
  <1> QED
    BY <1>1, <1>2, <1>3 DEF ActivationInv

\* add_users_to_group in an activation.
LEMMA JoinMatches ==
  ASSUME MembershipInv, AddUsersToGroup("api")
  PROVE  ActivationInv' /\ MatchInv'
  <1> DEFINE Row == [enabled : BOOLEAN, active : BOOLEAN, groups : SUBSET Groups]
             c == Cur("api")
  <1>1. /\ c \in Elems(todo["api"]) /\ c \in Steps /\ c.op = "add_to_group"
        /\ c.u \in Users /\ c.g \in Groups
        /\ todo["api"] # <<>> /\ Tables
    BY Current, Fields DEF AddUsersToGroup, MembershipInv, TypesInv, Actors
  <1>2. PICK u \in Users, g \in Groups : u = c.u /\ g = c.g
    BY <1>1
  <1> DEFINE x == MemberAdded(g, u)
  <1> DEFINE refused == group[g] # "enabled" \/ user[u] = NoRow \/ ~user[u].enabled
             kind == CASE "api" = "api" -> {"missed"} [] Creating("api", u) -> {"unhoused"} [] OTHER -> {}
  <1>3. /\ refused => excuse' = excuse \cup kind
        /\ ~refused => excuse' = excuse
    BY <1>2 DEF AddUsersToGroup
  <1>4. kind = {"missed"}
    <2>1. \A i \in DOMAIN todo["api"] : todo["api"][i] \in StepsOf("api")
      BY DEF MembershipInv, TypesInv, PlansInv, Actors
    <2>2. ~Creating("api", u)
      BY <2>1 DEF Creating, StepsOf, ApiOps, AccessOps, Ends
    <2> QED
      BY <2>2
  <1> HIDE DEF kind
  <1>5. CASE Excused
    <2>1. excuse \subseteq excuse'
      BY <1>3, <1>4
    <2> QED
      BY <1>5, <2>1, StaysExcused
  <1>6. CASE refused
    <2>1. "missed" \in excuse'
      BY <1>3, <1>4, <1>6
    <2> QED
      BY <2>1 DEF Excused, Bad, ActivationInv, MatchInv
  <1>7. CASE ~Excused /\ ~refused
    <2>1. c.bypass = TRUE /\ Activating(u)
      BY <1>1, <1>7, <1>2 DEF MembershipInv, ActivationInv
    <2>2. /\ user[u] # NoRow /\ user' = [user EXCEPT ![u].groups = user[u].groups \cup {g}]
          /\ members' = [members EXCEPT ![g] = @ \cup {u}]
          /\ Continue("api", <<x>>) /\ excuse' = excuse
      BY <1>1, <1>7, <1>2, <2>1 DEF AddUsersToGroup, Tables
    <2>3. x \in StepsOf("api") /\ x.op = "member_added"
      BY <1>1 DEF MemberAdded, StepsOf, Steps, MemberOps, ApiOps
    <2> HIDE DEF x
    <2> DEFINE s == <<x>>
    <2>4. s \in Seq(StepsOf("api")) /\ Elems(s) = {x} /\ Continue("api", s)
      BY <2>2, <2>3, Singles
    <2> HIDE DEF s
    <2>5. /\ Elems(todo["api"]) = {c} \cup Elems(Tail(todo["api"]))
          /\ Elems(todo'["api"]) \subseteq Elems(s) \cup Elems(Tail(todo["api"]))
          /\ \A y \in Elems(s) \cup Elems(Tail(todo["api"])) : y.op \in Ends \/ y \in Elems(todo'["api"])
          /\ \A op : OnlyLast(todo["api"], op) /\ (\A y \in Elems(s) : y.op # op) => OnlyLast(todo'["api"], op)
      BY <1>1, <2>4, Advance DEF MembershipInv, TypesInv, Actors
    <2>6. OnlyLast(todo'["api"], "set_active")
      BY <1>7, <2>3, <2>4, <2>5 DEF MembershipInv, ActivationInv
    <2>7. \A y \in Elems(todo'["api"]) : y \in Elems(todo["api"]) \/ y.op \in Calm
      BY <2>3, <2>4, <2>5 DEF Calm
    <2>8. \A y \in Elems(todo["api"]) : y.op \in {"set_active", "add_to_group"} /\ y # c => y \in Elems(todo'["api"])
      BY <2>5 DEF Ends
    <2>9. ActivationInv' /\ \A v : Activating(v)' <=> Activating(v)
      BY <1>1, <1>7, <2>6, <2>7, <2>8, ActivationKept DEF MembershipInv
    <2>10. user[u] \in Row /\ user[u].groups \subseteq Groups
      BY <1>1, <2>2 DEF Tables
    <2> HIDE DEF c
    <2>11. /\ \A v \in Users : v # u => user'[v] = user[v]
           /\ user'[u] # NoRow /\ user'[u].active = user[u].active
           /\ user'[u].groups = user[u].groups \cup {g}
      <3>1. /\ user'[u] = [user[u] EXCEPT !.groups = user[u].groups \cup {g}]
            /\ \A v \in Users : v # u => user'[v] = user[v]
        BY <1>1, <2>2 DEF Tables
      <3>2. user'[u] \in Row
        BY <1>1, <2>10, <3>1
      <3> QED
        BY <2>10, <3>1, <3>2, MembershipParameters
    <2>12. members'[g] = members[g] \cup {u} /\ \A h \in Groups : h # g => members'[h] = members[h]
      BY <1>1, <2>2 DEF Tables
    <2>13. /\ user[u].active = FALSE
           /\ \A h \in Groups :
                 /\ u \in members[h] => h \in user[u].groups
                 /\ h \in user[u].groups =>
                       u \in members[h] \/ AddToGroup(u, h, TRUE) \in Elems(todo["api"])
      BY <1>1, <1>7, <2>1 DEF MembershipInv, MatchInv
    <2>14. ASSUME NEW h \in Groups
           PROVE  /\ u \in members'[h] => h \in user'[u].groups
                  /\ h \in user'[u].groups =>
                        u \in members'[h] \/ AddToGroup(u, h, TRUE) \in Elems(todo'["api"])
      <3>1. CASE h = g
        BY <2>11, <2>12, <3>1
      <3>2. CASE h # g
        <4> DEFINE y == AddToGroup(u, h, TRUE)
        <4>1. y.op = "add_to_group" /\ y.g = h
          BY DEF AddToGroup
        <4> HIDE DEF y
        <4>2. y # c
          BY <1>2, <3>2, <4>1
        <4>3. y \in Elems(todo["api"]) => y \in Elems(todo'["api"])
          BY <2>8, <4>1, <4>2
        <4>4. u \in members'[h] <=> u \in members[h]
          BY <2>12, <3>2
        <4>5. h \in user'[u].groups <=> h \in user[u].groups
          BY <2>11, <3>2
        <4>6. h \in user[u].groups => u \in members[h] \/ y \in Elems(todo["api"])
          BY <2>13 DEF y
        <4> QED
          BY <2>13, <4>3, <4>4, <4>5, <4>6 DEF y
      <3> QED
        BY <3>1, <3>2
    <2>15. ASSUME NEW v \in Users, v # u
           PROVE  ~Activating(v)' /\ \A h \in Groups : v \in members'[h] <=> Belongs(v, h)'
      <3>1. ~Activating(v)
        BY <1>1, <1>7, <1>2, <2>1, <2>15 DEF MembershipInv, ActivationInv, Activating
      <3>2. \A h \in Groups : v \in members[h] <=> Belongs(v, h)
        BY <1>7, <3>1 DEF MembershipInv, MatchInv
      <3>3. \A h \in Groups : v \in members'[h] <=> v \in members[h]
        BY <2>12, <2>15
      <3>4. \A h \in Groups : Belongs(v, h)' <=> Belongs(v, h)
        BY <2>11, <2>15 DEF Belongs
      <3> QED
        BY <2>9, <3>1, <3>2, <3>3, <3>4
    <2>16. Activating(u)'
      BY <2>1, <2>9
    <2>17. user'[u] # NoRow /\ user'[u].active = FALSE
      BY <2>11, <2>13
    <2>18. ASSUME NEW v \in Users
           PROVE  /\ Activating(v)' =>
                        /\ user'[v] # NoRow /\ user'[v].active = FALSE
                        /\ \A h \in Groups :
                              /\ v \in members'[h] => h \in user'[v].groups
                              /\ h \in user'[v].groups =>
                                    v \in members'[h] \/ AddToGroup(v, h, TRUE) \in Elems(todo'["api"])
                  /\ ~Activating(v)' => \A h \in Groups : v \in members'[h] <=> Belongs(v, h)'
      <3>1. CASE v = u
        BY <2>14, <2>16, <2>17, <3>1
      <3>2. CASE v # u
        BY <2>15, <3>2
      <3> QED
        BY <3>1, <3>2
    <2>19. MatchInv'
      BY <2>18 DEF MatchInv
    <2> QED
      BY <2>9, <2>19
  <1> QED
    BY <1>7, <1>5, <1>6

\* The requests' plan gets no step that is not light.
LEMMA StaysAlone ==
  ASSUME ExclusiveInv, todo'["sync"] # <<>> => todo["sync"] # <<>>,
         \A x \in Elems(todo'["api"]) : x \in Elems(todo["api"]) \/ x.op \in Light
  PROVE  ExclusiveInv'
  BY DEF ExclusiveInv

\* A step of user_projects is not taken by a request during a synchronisation,
\* and an activation goes on after it.
LEMMA AccessMatches ==
  ASSUME MembershipInv, NEW a \in Actors, UserProjectsStep(a)
  PROVE  ExclusiveInv' /\ ActivationInv' /\ MatchInv'
  <1>1. /\ UNCHANGED <<user, members, excuse>>
        /\ todo[a] # <<>> /\ Cur(a).op \in AccessOps
        /\ \A b \in Actors : b # a => todo'[b] = todo[b]
        /\ \A x \in Elems(todo'[a]) : x \in Elems(Tail(todo[a])) \/ x.op \in AccessOps
        /\ Elems(todo[a]) = {Cur(a)} \cup Elems(Tail(todo[a]))
        /\ Tables /\ PlansInv
    BY UserProjectsTypes DEF MembershipInv, TypesInv
  <1>2. CASE a # "api"
    <2>1. todo'["api"] = todo["api"]
      BY <1>1, <1>2 DEF Actors
    <2>2. todo'["sync"] # <<>> => todo["sync"] # <<>>
      BY <1>1 DEF Actors
    <2>3. ExclusiveInv'
      BY <2>1, <2>2, StaysAlone DEF MembershipInv
    <2> QED
      BY <1>1, <2>1, <2>3, MatchUntouched DEF MembershipInv
  <1>3. CASE a = "api"
    <2> DEFINE c == Cur("api")
    <2>1. /\ c \in Elems(todo["api"]) /\ c.op \in AccessOps /\ todo'["sync"] = todo["sync"]
          /\ todo["api"] # <<>> /\ "api" \in Actors
          /\ \A x \in Elems(todo'["api"]) : x \in Elems(todo["api"]) \/ x.op \in AccessOps
      BY <1>1, <1>3 DEF Actors
    <2>2. ExclusiveInv'
      BY <2>1 DEF MembershipInv, ExclusiveInv, AccessOps, Light
    <2>3. CASE Excused
      BY <1>1, <2>2, <2>3, StaysExcused
    <2>4. CASE ~Excused /\ c.op \notin Calm
      <3>1. c.op \notin Calm \cup {"set_active", "add_to_group", "catch_all"}
        BY <2>1, <2>4 DEF AccessOps
      <3>2. \A x \in Elems(todo["api"]) : x.op \notin {"set_active", "add_to_group"}
        BY <2>1, <2>4, <3>1, NoActivation DEF MembershipInv
      <3>3. \A x \in Elems(todo'["api"]) : x.op \notin {"set_active", "add_to_group"}
        BY <2>1, <3>2 DEF AccessOps
      <3> QED
        BY <1>1, <2>2, <3>2, <3>3, NoneActivated DEF MembershipInv
    <2>5. CASE ~Excused /\ c.op \in Calm
      <3>1. PICK s \in Seq(StepsOf("api")) : Continue("api", s) /\ \A x \in Elems(s) : x.op \in Calm
        BY <1>1, <1>3, <2>5, CalmStep
      <3>2. /\ Elems(todo["api"]) = {c} \cup Elems(Tail(todo["api"]))
            /\ Elems(todo'["api"]) \subseteq Elems(s) \cup Elems(Tail(todo["api"]))
            /\ \A y \in Elems(s) \cup Elems(Tail(todo["api"])) : y.op \in Ends \/ y \in Elems(todo'["api"])
            /\ \A op : OnlyLast(todo["api"], op) /\ (\A y \in Elems(s) : y.op # op) => OnlyLast(todo'["api"], op)
        BY <1>1, <2>1, <3>1, Advance
      <3> HIDE DEF c
      <3>3. OnlyLast(todo'["api"], "set_active")
        BY <2>5, <3>1, <3>2 DEF MembershipInv, ActivationInv, Calm
      <3>4. \A y \in Elems(todo'["api"]) : y \in Elems(todo["api"]) \/ y.op \in Calm
        BY <3>1, <3>2
      <3>5. \A y \in Elems(todo["api"]) : y.op \in {"set_active", "add_to_group"} => y \in Elems(todo'["api"])
        BY <2>5, <3>2 DEF Ends, Calm
      <3>6. ActivationInv' /\ \A v : Activating(v)' <=> Activating(v)
        BY <2>5, <3>3, <3>4, <3>5, ActivationKept DEF MembershipInv
      <3>7. \A u \in Users, g \in Groups :
               AddToGroup(u, g, TRUE) \in Elems(todo["api"]) => AddToGroup(u, g, TRUE) \in Elems(todo'["api"])
        BY <3>5 DEF AddToGroup
      <3>8. \A u \in Users, g \in Groups : Belongs(u, g)' <=> Belongs(u, g)
        BY <1>1 DEF Belongs
      <3>9. MatchInv'
        BY <1>1, <2>5, <3>6, <3>7, <3>8 DEF MembershipInv, MatchInv
      <3> QED
        BY <2>2, <3>6, <3>9
    <2> QED
      BY <2>3, <2>4, <2>5
  <1> QED
    BY <1>2, <1>3

\* The step of a request that leaves memberships and users alone and is not one
\* of an activation.
LEMMA Unrelated ==
  ASSUME MembershipInv, NEW c \in Elems(todo["api"]), c.op \in {"store", "send",
         "drop_project"},
         user' = user, members' = members, excuse \subseteq excuse', todo'["sync"] = todo["sync"],
         \A x \in Elems(todo'["api"]) : x \in Elems(todo["api"]) \/ x.op = "send"
  PROVE  ExclusiveInv' /\ ActivationInv' /\ MatchInv'
  <1>1. ExclusiveInv'
    BY StaysAlone DEF MembershipInv, Light
  <1>2. CASE Excused
    BY <1>1, <1>2, StaysExcused
  <1>3. CASE ~Excused
    <2>1. c.op \notin Calm \cup {"set_active", "add_to_group", "catch_all"}
      BY DEF Calm
    <2>2. \A x \in Elems(todo["api"]) : x.op \notin {"set_active", "add_to_group"}
      BY <1>3, <2>1, NoActivation DEF MembershipInv
    <2>3. \A x \in Elems(todo'["api"]) : x.op \notin {"set_active", "add_to_group"}
      BY <2>2
    <2> QED
      BY <1>1, <2>2, <2>3, NoneActivated DEF MembershipInv
  <1> QED
    BY <1>2, <1>3

\* The steps that write the project's row and send its tasks.
LEMMA StoreMatches ==
  ASSUME MembershipInv, Store \/ Send \/ DropProject
  PROVE  ExclusiveInv' /\ ActivationInv' /\ MatchInv'
  <1> DEFINE c == Cur("api")
             s == [i \in DOMAIN c.send |-> [op |-> "send", task |-> c.send[i]]]
  <1>1. PlansInv /\ "api" \in Actors
    BY DEF MembershipInv, TypesInv, Actors
  <1>2. /\ c \in Elems(todo["api"]) /\ c \in Steps
        /\ c.op \in {"store", "send", "drop_project"} /\ todo["api"] # <<>>
    BY <1>1, Current DEF Store, Send, DropProject
  <1>3. ASSUME NEW p \in Seq(StepsOf("api")), Continue("api", p),
               \A x \in Elems(p) : x.op = "send"
        PROVE  /\ todo'["sync"] = todo["sync"]
               /\ \A x \in Elems(todo'["api"]) : x \in Elems(todo["api"]) \/ x.op = "send"
    <2>1. /\ \A b \in Actors : b # "api" => todo'[b] = todo[b]
          /\ Elems(todo["api"]) = {Cur("api")} \cup Elems(Tail(todo["api"]))
          /\ Elems(todo'["api"]) \subseteq Elems(p) \cup Elems(Tail(todo["api"]))
      BY <1>1, <1>2, <1>3, Advance
    <2> QED
      BY <1>3, <2>1 DEF Actors
  <1>4. ASSUME RaiseOther("api")
        PROVE  /\ todo'["sync"] = todo["sync"]
               /\ \A x \in Elems(todo'["api"]) : x \in Elems(todo["api"]) \/ x.op = "send"
    <2>1. /\ \A b \in Actors : b # "api" => todo'[b] = todo[b]
          /\ Elems(todo["api"]) = {Cur("api")} \cup Elems(Tail(todo["api"]))
          /\ Elems(todo'["api"]) \subseteq Elems(Tail(todo["api"]))
      BY <1>1, <1>2, <1>4, Escape DEF RaiseOther
    <2> QED
      BY <2>1 DEF Actors
  <1>5. <<>> \in Seq(StepsOf("api")) /\ Elems(<<>>) = {}
    BY Singles
  <1>6. ASSUME Continue("api", <<>>)
        PROVE  /\ todo'["sync"] = todo["sync"]
               /\ \A x \in Elems(todo'["api"]) : x \in Elems(todo["api"]) \/ x.op = "send"
    BY <1>3, <1>5, <1>6
  <1>7. user' = user /\ members' = members /\ excuse \subseteq excuse'
    BY DEF Store, Send, DropProject, tables
  <1>8. CASE Store
    <2>1. c.op = "store"
      BY <1>8 DEF Store, At, Cur
    <2>2. c.send \in Seq(Tasks)
      BY <1>2, <2>1, Fields
    <2>3. s \in Seq(StepsOf("api")) /\ \A x \in Elems(s) : x.op = "send"
      <3> HIDE DEF c
      <3> DEFINE m == c.send
      <3>1. m \in Seq(Tasks) /\ s = [i \in DOMAIN m |-> [op |-> "send", task |-> m[i]]]
        BY <2>2
      <3> HIDE DEF m, s
      <3> QED
        BY <3>1, Sendings
    <2>4. RaiseOther("api") \/ Continue("api", s) \/ Continue("api", <<>>)
      BY <1>8 DEF Store
    <2> HIDE DEF s
    <2>5. /\ todo'["sync"] = todo["sync"]
          /\ \A x \in Elems(todo'["api"]) : x \in Elems(todo["api"]) \/ x.op = "send"
      BY <1>3, <1>4, <1>6, <2>3, <2>4
    <2> HIDE DEF c
    <2> QED
      BY <1>2, <1>7, <2>5, Unrelated
  <1>9. CASE Send \/ DropProject
    <2>1. /\ todo'["sync"] = todo["sync"]
          /\ \A x \in Elems(todo'["api"]) : x \in Elems(todo["api"]) \/ x.op = "send"
      BY <1>6, <1>9 DEF Send, DropProject, Done
    <2> HIDE DEF c
    <2> QED
      BY <1>2, <1>7, <2>1, Unrelated
  <1> QED
    BY <1>8, <1>9

\* set_active is the last step of an activation: the user joined its groups.
LEMMA ActiveMatches ==
  ASSUME MembershipInv, SetActive
  PROVE  ExclusiveInv' /\ ActivationInv' /\ MatchInv'
  <1> DEFINE Row == [enabled : BOOLEAN, active : BOOLEAN, groups : SUBSET Groups]
             c == Cur("api")
  <1>1. /\ c \in Elems(todo["api"]) /\ c \in Steps /\ c.op = "set_active" /\ c.u \in Users
        /\ todo["api"] # <<>> /\ Tables /\ PlansInv /\ "api" \in Actors
    BY Current, Fields DEF SetActive, MembershipInv, TypesInv, Actors, UserOps
  <1>2. PICK u \in Users : u = c.u
    BY <1>1
  <1>3. /\ user[u] = NoRow => user' = user
        /\ user[u] # NoRow => user' = [user EXCEPT ![u].active = TRUE]
        /\ members' = members /\ excuse' = excuse /\ Continue("api", <<>>)
    BY <1>2 DEF SetActive, Done
  <1>4. <<>> \in Seq(StepsOf("api")) /\ Elems(<<>>) = {}
    BY Singles
  <1>5. /\ \A b \in Actors : b # "api" => todo'[b] = todo[b]
        /\ Elems(todo["api"]) = {c} \cup Elems(Tail(todo["api"]))
        /\ Elems(todo'["api"]) \subseteq Elems(<<>>) \cup Elems(Tail(todo["api"]))
        /\ Len(todo["api"]) = 1 => todo'["api"] = <<>>
    BY <1>1, <1>3, <1>4, Advance
  <1>6. ExclusiveInv'
    <2>1. /\ todo'["sync"] = todo["sync"]
          /\ \A x \in Elems(todo'["api"]) : x \in Elems(todo["api"])
      BY <1>4, <1>5 DEF Actors
    <2> QED
      BY <2>1, StaysAlone DEF MembershipInv
  <1>7. CASE Excused
    BY <1>3, <1>6, <1>7, StaysExcused
  <1>8. CASE ~Excused
    <2>1. Len(todo["api"]) = 1
      <3>1. OnlyLast(todo["api"], "set_active")
        BY <1>8 DEF MembershipInv, ActivationInv
      <3>2. todo["api"] \in Seq(StepsOf("api"))
        BY <1>1 DEF PlansInv
      <3>3. 1 \in 1 .. Len(todo["api"]) /\ todo["api"][1].op = "set_active"
        BY <1>1, <3>2 DEF Cur
      <3> QED
        BY <3>1, <3>3 DEF OnlyLast
    <2>2. todo["api"] = <<c>> /\ todo'["api"] = <<>>
      <3>1. todo["api"] \in Seq(StepsOf("api"))
        BY <1>1 DEF PlansInv
      <3> QED
        BY <1>5, <2>1, <3>1 DEF Cur
    <2>3. Elems(todo["api"]) = {c} /\ Elems(todo'["api"]) = {}
      BY <2>2, Singles
    <2>4. Activating(u)
      BY <1>1, <1>2 DEF Activating, Steps, GroupOps, UserOps, MemberOps, PlainOps, Ends
    <2>5. \A v \in Users : v # u => ~Activating(v)
      BY <1>2, <2>3 DEF Activating
    <2>6. /\ user[u] # NoRow /\ user[u].active = FALSE
          /\ \A g \in Groups :
                /\ u \in members[g] => g \in user[u].groups
                /\ g \in user[u].groups =>
                      u \in members[g] \/ AddToGroup(u, g, TRUE) \in Elems(todo["api"])
      BY <1>8, <2>4 DEF MembershipInv, MatchInv
    <2>7. \A g \in Groups : u \in members[g] <=> g \in user[u].groups
      <3>1. \A g \in Groups : AddToGroup(u, g, TRUE) \notin Elems(todo["api"])
        BY <1>1, <2>3 DEF AddToGroup
      <3> QED
        BY <2>6, <3>1
    <2>8. user[u] \in Row
      BY <1>1, <2>6 DEF Tables
    <2>9. /\ user'[u] = [user[u] EXCEPT !.active = TRUE]
          /\ \A v \in Users : v # u => user'[v] = user[v]
      BY <1>1, <1>3, <2>6 DEF Tables
    <2>10. user'[u] \in Row /\ user'[u].active = TRUE /\ user'[u].groups = user[u].groups
      BY <2>8, <2>9
    <2>11. user'[u] # NoRow
      BY <2>10, MembershipParameters
    <2>12. \A v : ~Activating(v)'
      BY <2>3 DEF Activating
    <2>13. ASSUME NEW v \in Users, NEW g \in Groups
           PROVE  v \in members'[g] <=> Belongs(v, g)'
      <3>1. CASE v = u
        BY <1>3, <2>7, <2>10, <2>11, <3>1 DEF Belongs
      <3>2. CASE v # u
        <4>1. v \in members[g] <=> Belongs(v, g)
          BY <1>8, <2>5, <3>2 DEF MembershipInv, MatchInv
        <4> QED
          BY <1>3, <2>9, <3>2, <4>1 DEF Belongs
      <3> QED
        BY <3>1, <3>2
    <2>14. MatchInv'
      BY <2>12, <2>13 DEF MatchInv
    <2>15. ActivationInv'
      BY <2>2, <2>3 DEF ActivationInv, OnlyLast
    <2> QED
      BY <1>6, <2>14, <2>15
  <1> QED
    BY <1>7, <1>8

\* A request begins that leaves memberships and users alone, with a light plan
\* or while there is no synchronisation.
LEMMA PlanMatches ==
  ASSUME MembershipInv, Idle("api"), NEW s, Plan(s), user' = user, members' = members,
         excuse \subseteq excuse',
         \A x \in Elems(s) : x.op \notin {"set_active", "add_to_group"},
         (\A x \in Elems(s) : x.op \in Light) \/ todo["sync"] = <<>>
  PROVE  ExclusiveInv' /\ ActivationInv' /\ MatchInv'
  <1>1. todo'["api"] = s /\ todo'["sync"] = todo["sync"]
    BY DEF Plan, MembershipInv, TypesInv, PlansInv, Actors
  <1>2. Elems(todo["api"]) = {}
    BY Singles DEF Idle
  <1>3. ExclusiveInv'
    BY <1>1 DEF ExclusiveInv
  <1> QED
    BY <1>1, <1>2, <1>3, NoneActivated DEF MembershipInv

\* activate_user: the user has no membership yet, and its plan joins all the
\* groups its row notes.
LEMMA ActivateMatches ==
  ASSUME MembershipInv, ~Overlap, NEW u \in Users, ActivateUser(u)
  PROVE  ExclusiveInv' /\ ActivationInv' /\ MatchInv'
  <1> DEFINE G == user[u].groups
             f == [g \in G |-> AddToGroup(u, g, TRUE)]
             p == Tried(f)
             x == [op |-> "set_active", u |-> u]
             l == <<x>>
             e == [op |-> "catch_all"]
  <1>1. /\ Idle("api") /\ MayFan("api") /\ user[u] # NoRow /\ ~user[u].active /\ Plan(p \o l)
        /\ user' = user /\ members' = members /\ excuse' = excuse
    BY DEF ActivateUser, Call, tables
  <1>2. G \subseteq Groups /\ user[u].active = FALSE /\ PlansInv
    BY <1>1 DEF MembershipInv, TypesInv, Tables
  <1>3. todo["sync"] = <<>>
    BY <1>1, <1>2, LightPlan DEF Actors
  <1>4. todo'["api"] = p \o l /\ todo'["sync"] = <<>>
    BY <1>1, <1>2, <1>3 DEF Plan, PlansInv, Actors
  <1>5. ExclusiveInv'
    BY <1>4 DEF ExclusiveInv
  <1>6. Elems(todo["api"]) = {}
    BY <1>1, Singles DEF Idle
  <1>7. CASE Excused
    BY <1>1, <1>5, <1>7, StaysExcused
  <1>8. CASE ~Excused
    <2>1. f \in [G -> Steps] /\ x \in Steps /\ e \in Steps /\ p = Tried(f)
      BY <1>2 DEF Steps, AddToGroup, UserOps, PlainOps, Ends
    <2>2. G \in (SUBSET Users) \cup (SUBSET Groups)
      BY <1>2
    <2>3. \A g \in G : f[g] = AddToGroup(u, g, TRUE)
      OBVIOUS
    <2> HIDE DEF f, p, G
    <2>4. /\ p \in Seq(Steps)
          /\ \A y \in Elems(p) : (\E g \in G : y = f[g]) \/ y = e
          /\ \A g \in G : f[g] \in Elems(p)
      BY <2>1, <2>2, TriedFan
    <2>5. /\ x.op = "set_active" /\ x.u = u /\ e.op = "catch_all"
      OBVIOUS
    <2>6. \A g \in G : f[g].op = "add_to_group" /\ f[g].u = u /\ f[g].bypass = TRUE
      <3>1. ASSUME NEW g \in G, NEW y, y = AddToGroup(u, g, TRUE)
            PROVE  y.op = "add_to_group" /\ y.u = u /\ y.bypass = TRUE
        BY <3>1 DEF AddToGroup
      <3>2. ASSUME NEW g \in G
            PROVE  f[g].op = "add_to_group" /\ f[g].u = u /\ f[g].bypass = TRUE
        <4> DEFINE y == f[g]
        <4>1. y = AddToGroup(u, g, TRUE)
          BY <2>3
        <4> HIDE DEF y
        <4>2. y.op = "add_to_group" /\ y.u = u /\ y.bypass = TRUE
          BY <3>1, <4>1
        <4> QED
          BY <4>2 DEF y
      <3> QED
        BY <3>2
    <2>7. \A v : Activating(v)' <=> [op |-> "set_active", u |-> v] \in Elems(p \o l)
      BY <1>4 DEF Activating
    <2>8. \A v : [op |-> "set_active", u |-> v] = x => v = u
      OBVIOUS
    <2> HIDE DEF x, e
    <2>9. l \in Seq(Steps) /\ Elems(l) = {x} /\ Len(l) = 1
      BY <2>1, Singles
    <2> HIDE DEF l
    <2>10. \A y \in Elems(p) : \/ y.op = "add_to_group" /\ y.u = u /\ y.bypass = TRUE
                               \/ y.op = "catch_all"
      <3> SUFFICES ASSUME NEW y \in Elems(p)
                   PROVE  \/ y.op = "add_to_group" /\ y.u = u /\ y.bypass = TRUE
                          \/ y.op = "catch_all"
        OBVIOUS
      <3>1. (\E g \in G : y = f[g]) \/ y = e
        BY <2>4
      <3> QED
        BY <2>5, <2>6, <3>1
    <2>11. Elems(p \o l) = Elems(p) \cup {x} /\ OnlyLast(p \o l, "set_active")
      <3>1. \A y \in Elems(p) : y.op # "set_active"
        BY <2>10
      <3> QED
        BY <2>4, <2>9, <3>1, ElemsOf, Closed
    <2>12. Activating(u)' /\ \A v : Activating(v)' => v = u
      <3>1. Activating(u)'
        BY <2>7, <2>11 DEF x
      <3>2. ASSUME NEW v, Activating(v)'
            PROVE  v = u
        <4> DEFINE y == [op |-> "set_active", u |-> v]
        <4>1. y \in Elems(p \o l) /\ y.op = "set_active"
          BY <2>7, <3>2
        <4>2. y \notin Elems(p)
          BY <2>10, <4>1
        <4>3. y = x
          BY <2>11, <4>1, <4>2
        <4> QED
          BY <2>8, <4>3
      <3> QED
        BY <3>1, <3>2
    <2>13. ActivationInv'
      <3>1. \A y \in Elems(todo'["api"]) : y.op = "add_to_group" => y.bypass = TRUE /\ Activating(y.u)'
        BY <1>4, <2>5, <2>10, <2>11, <2>12
      <3>2. \A s, y \in Elems(todo'["api"]) : s.op = "set_active" =>
               /\ y.op \in Calm \cup {"set_active", "add_to_group", "catch_all"}
               /\ y.op \in {"set_active", "add_to_group"} => y.u = s.u
        BY <1>4, <2>5, <2>10, <2>11
      <3> QED
        BY <1>4, <2>11, <3>1, <3>2 DEF ActivationInv
    <2>14. \A v \in Users, g \in Groups : v \in members[g] <=> Belongs(v, g)
      <3>1. \A v : ~Activating(v)
        BY <1>6 DEF Activating
      <3> QED
        BY <1>8, <3>1 DEF MembershipInv, MatchInv
    <2>15. ASSUME NEW g \in Groups
           PROVE  /\ u \notin members'[g]
                  /\ g \in user'[u].groups => AddToGroup(u, g, TRUE) \in Elems(todo'["api"])
      <3>1. u \notin members'[g]
        BY <1>1, <1>2, <2>14 DEF Belongs
      <3>2. user'[u].groups = G
        BY <1>1 DEF G
      <3> QED
        BY <1>4, <2>3, <2>4, <2>11, <3>1, <3>2
    <2>16. \A v \in Users, g \in Groups : Belongs(v, g)' <=> Belongs(v, g)
      BY <1>1 DEF Belongs
    <2>17. ASSUME NEW v \in Users
           PROVE  /\ Activating(v)' =>
                        /\ user'[v] # NoRow /\ user'[v].active = FALSE
                        /\ \A h \in Groups :
                              /\ v \in members'[h] => h \in user'[v].groups
                              /\ h \in user'[v].groups =>
                                    v \in members'[h] \/ AddToGroup(v, h, TRUE) \in Elems(todo'["api"])
                  /\ ~Activating(v)' => \A h \in Groups : v \in members'[h] <=> Belongs(v, h)'
      <3>1. CASE v = u
        BY <1>1, <1>2, <2>12, <2>15, <3>1
      <3>2. CASE v # u
        BY <1>1, <2>12, <2>14, <2>16, <3>2
      <3> QED
        BY <3>1, <3>2
    <2>18. MatchInv'
      BY <2>17 DEF MatchInv
    <2> QED
      BY <1>5, <2>13, <2>18
  <1> QED
    BY <1>7, <1>8

\* Requests keep the invariant of memberships.
LEMMA RequestMatches ==
  ASSUME MembershipInv, ~Overlap, Request
  PROVE  ExclusiveInv' /\ ActivationInv' /\ MatchInv'
  <1> DEFINE Row == [enabled : BOOLEAN, active : BOOLEAN, groups : SUBSET Groups]
  <1>1. Tables /\ PlansInv
    BY DEF MembershipInv, TypesInv
  <1>2. ASSUME UNCHANGED <<todo, members, excuse>>,
               \A u \in Users : /\ user'[u] = NoRow <=> user[u] = NoRow
                                /\ user[u] # NoRow => /\ user'[u].active = user[u].active
                                                      /\ user'[u].groups = user[u].groups
        PROVE  ExclusiveInv' /\ ActivationInv' /\ MatchInv'
    BY <1>2, StaysAlone, MatchUntouched DEF MembershipInv
  <1>3. ASSUME NEW x, x.op = "store", Idle("api"), Plan(<<x>>), user' = user,
               members' = members,
               excuse \subseteq excuse'
        PROVE  ExclusiveInv' /\ ActivationInv' /\ MatchInv'
    <2> DEFINE s == <<x>>
    <2>1. Elems(s) = {x} /\ Plan(s)
      BY <1>3, Singles
    <2> HIDE DEF s
    <2>2. \A y \in Elems(s) : y.op \notin {"set_active", "add_to_group"} /\ y.op \in Light
      BY <1>3, <2>1 DEF Light
    <2> QED
      BY <1>3, <2>1, <2>2, PlanMatches
  <1>4. CASE \E G \in GroupChoices, U \in UserChoices : CreateProject(G, U)
    <2> DEFINE x == SetState("enabled")
    <2>1. /\ x.op = "store" /\ Idle("api") /\ Plan(<<x>>) /\ user' = user
          /\ members' = members /\ excuse' = excuse
      BY <1>4 DEF CreateProject, Call, SetState
    <2> HIDE DEF x
    <2> QED
      BY <1>3, <2>1
  <1>5. CASE \E G \in GroupChoices, U \in UserChoices : UpdateProject(G, U)
    <2>1. PICK G \in GroupChoices, U \in UserChoices : UpdateProject(G, U)
      BY <1>5
    <2>2. Idle("api") /\ user' = user /\ members' = members /\ excuse \subseteq excuse'
      BY <2>1 DEF UpdateProject, Call, tables
    <2>3. \E send : Plan(<<[op |-> "store", groups |-> G, users |-> U, send |-> send]>>)
      BY <2>1 DEF UpdateProject
    <2>4. PICK send : Plan(<<[op |-> "store", groups |-> G, users |-> U, send |-> send]>>)
      BY <2>3
    <2> DEFINE x == [op |-> "store", groups |-> G, users |-> U, send |-> send]
    <2>5. x.op = "store" /\ Plan(<<x>>)
      BY <2>4
    <2> HIDE DEF x
    <2> QED
      BY <1>3, <2>2, <2>5
  <1>6. CASE EnableProject \/ DisableProject
    <2>1. PICK v \in {"enabled", "disabled"} : Plan(<<SetState(v)>>)
      BY <1>6 DEF EnableProject, DisableProject
    <2> DEFINE x == SetState(v)
    <2>2. /\ x.op = "store" /\ Idle("api") /\ Plan(<<x>>) /\ user' = user
          /\ members' = members /\ excuse' = excuse
      BY <1>6, <2>1 DEF EnableProject, DisableProject, Call, SetState, tables
    <2> HIDE DEF x
    <2> QED
      BY <1>3, <2>2
  <1>7. CASE DeleteProject
    <2> DEFINE f == [g \in links |-> GroupRemoved(g)]
               x == [op |-> "drop_project"]
               p == ForEach(f)
               l == <<x>>
    <2>1. /\ Idle("api") /\ MayFan("api") /\ Plan(p \o l)
          /\ user' = user /\ members' = members /\ excuse' = excuse
      BY <1>7 DEF DeleteProject, Call, tables
    <2>2. todo["sync"] = <<>>
      BY <1>1, <2>1, LightPlan DEF Actors
    <2>3. /\ f \in [links -> Steps] /\ x \in Steps /\ p = ForEach(f)
          /\ links \in (SUBSET Users) \cup (SUBSET Groups)
          /\ x.op = "drop_project" /\ \A g \in links : f[g].op = "unlink"
      BY <1>1 DEF Tables, GroupRemoved, Steps, GroupOps, PlainOps
    <2> HIDE DEF f, p, x
    <2>4. p \in Seq(Steps) /\ \A y \in Elems(p) : \E g \in links : y = f[g]
      BY <2>3, Fan
    <2>5. l \in Seq(Steps) /\ Elems(l) = {x}
      BY <2>3, Singles
    <2> HIDE DEF l
    <2>6. Elems(p \o l) = Elems(p) \cup {x}
      BY <2>4, <2>5, ElemsOf
    <2>7. \A y \in Elems(p \o l) : y.op \notin {"set_active", "add_to_group"}
      BY <2>3, <2>4, <2>6
    <2> QED
      BY <2>1, <2>2, <2>7, PlanMatches
  <1>8. CASE \E u \in Users : ActivateUser(u)
    BY <1>8, ActivateMatches
  <1>9. CASE \E u \in Users : EnableUser(u) \/ DisableUser(u)
    <2>1. PICK u \in Users, v \in BOOLEAN :
             user[u] # NoRow /\ user' = [user EXCEPT ![u].enabled = v]
      BY <1>9 DEF EnableUser, DisableUser
    <2>2. UNCHANGED <<todo, members, excuse>>
      BY <1>9 DEF EnableUser, DisableUser
    <2>3. user[u] \in Row
      BY <1>1, <2>1 DEF Tables
    <2>4. user'[u] = [user[u] EXCEPT !.enabled = v] /\ \A w \in Users : w # u => user'[w] = user[w]
      BY <1>1, <2>1 DEF Tables
    <2>5. user'[u] \in Row /\ user'[u].active = user[u].active /\ user'[u].groups = user[u].groups
      BY <2>3, <2>4
    <2>6. user'[u] # NoRow
      BY <2>5, MembershipParameters
    <2> QED
      BY <1>2, <2>1, <2>2, <2>4, <2>5, <2>6
  <1>10. CASE \E g \in Groups : EnableGroup(g) \/ DisableGroup(g)
    <2>1. UNCHANGED <<todo, members, excuse, user>>
      BY <1>10 DEF EnableGroup, DisableGroup
    <2> QED
      BY <1>2, <2>1
  <1> QED
    BY <1>4, <1>5, <1>6, <1>7, <1>8, <1>9, <1>10 DEF Request

\* So do the steps of plans and tasks.
LEMMA ProgressMatches ==
  ASSUME MembershipInv, Progress
  PROVE  ExclusiveInv' /\ ActivationInv' /\ MatchInv'
  <1>1. Tables /\ Others /\ PlansInv /\ SyncInv /\ QueueInv
    BY DEF MembershipInv, TypesInv
  <1>2. CASE \E a \in Actors : UserProjectsStep(a)
    BY <1>2, AccessMatches
  <1>3. CASE \E a \in Actors : DirectoryStep(a)
    <2>1. PICK a \in Actors : DirectoryStep(a)
      BY <1>3
    <2>2. /\ todo[a] # <<>> /\ a \in {"api", "sync"} /\ (a = "api" => AddUsersToGroup(a))
          /\ \A b \in Actors : b # a => todo'[b] = todo[b]
      BY <1>1, <2>1, DirectoryTypes
    <2>3. CASE a = "sync"
      <3>1. todo["sync"] # <<>> /\ todo'["api"] = todo["api"]
        BY <2>2, <2>3 DEF Actors
      <3>2. ExclusiveInv'
        BY <3>1, StaysAlone DEF MembershipInv
      <3> QED
        BY <2>1, <2>3, <3>2, SyncMatches
    <2>4. CASE a = "api"
      <3>1. Cur("api") \in Elems(todo["api"]) /\ Cur("api").op = "add_to_group"
        BY <1>1, <2>2, <2>4, Current DEF AddUsersToGroup
      <3>2. todo["sync"] = <<>> /\ todo'["sync"] = todo["sync"]
        BY <2>2, <2>4, <3>1 DEF MembershipInv, ExclusiveInv, Light, Actors
      <3>3. ExclusiveInv'
        BY <3>2 DEF ExclusiveInv
      <3> QED
        BY <2>2, <2>4, <3>3, JoinMatches
    <2> QED
      BY <2>2, <2>3, <2>4
  <1>4. CASE Store \/ Send \/ DropProject
    BY <1>4, StoreMatches
  <1>5. CASE SetActive
    BY <1>5, ActiveMatches
  <1>6. ASSUME user' = user, members' = members, excuse \subseteq excuse',
               todo'["api"] = todo["api"], todo'["sync"] = todo["sync"]
        PROVE  ExclusiveInv' /\ ActivationInv' /\ MatchInv'
    BY <1>6, StaysAlone, MatchUntouched DEF MembershipInv
  <1>7. CASE StartTask \/ DeadLetter
    <2>1. user' = user /\ members' = members /\ excuse \subseteq excuse'
      BY <1>7 DEF StartTask, DeadLetter, tables
    <2>2. todo'["api"] = todo["api"] /\ todo'["sync"] = todo["sync"]
      BY <1>1, <1>7 DEF StartTask, DeadLetter, PlansInv, Actors
    <2> QED
      BY <1>6, <2>1, <2>2
  <1>8. CASE DeleteMessage
    <2>1. user' = user /\ members' = members /\ excuse \subseteq excuse'
      BY <1>8 DEF DeleteMessage, tables
    <2>2. todo'["api"] = todo["api"] /\ todo'["sync"] = todo["sync"]
      BY <1>1, <1>8 DEF DeleteMessage, Done, Continue, PlansInv, Actors
    <2> QED
      BY <1>6, <2>1, <2>2
  <1> QED
    BY <1>2, <1>3, <1>4, <1>5, <1>7, <1>8 DEF Progress, Step

\* In a deployed cluster the active users are the members of the groups it has.
LEMMA InitMatches ==
  ASSUME Init
  PROVE  MembershipInv
  <1>1. TypesInv
    BY InitTypes
  <1>2. todo["api"] = <<>> /\ todo["sync"] = <<>> /\ excuse = {}
    BY DEF Init, Actors
  <1>3. Elems(todo["api"]) = {}
    BY <1>2, Singles
  <1>4. ExclusiveInv /\ ActivationInv
    BY <1>2, <1>3 DEF ExclusiveInv, ActivationInv, OnlyLast
  <1>5. PICK here \in {Users, ActiveUsers}, G \in {Groups, OldGroups} :
           /\ user = [u \in Users |-> IF u \in here
                                      THEN [enabled |-> TRUE, active |-> u \in ActiveUsers, groups |-> G]
                                      ELSE NoRow]
           /\ members = [g \in Groups |-> IF g \in G THEN ActiveUsers ELSE {}]
    BY DEF Init
  <1>6. ASSUME NEW u \in Users, NEW g \in Groups
        PROVE  u \in members[g] <=> Belongs(u, g)
    <2>1. ActiveUsers \subseteq Users /\ G \subseteq Groups
      BY AccessParameters
    <2>2. u \in members[g] <=> g \in G /\ u \in ActiveUsers
      BY <1>5
    <2>3. CASE u \notin here
      BY <1>5, <2>1, <2>2, <2>3 DEF Belongs
    <2>4. CASE u \in here
      <3> DEFINE r == [enabled |-> TRUE, active |-> u \in ActiveUsers, groups |-> G]
      <3>1. user[u] = r
        BY <1>5, <2>4
      <3>2. r \in [enabled : BOOLEAN, active : BOOLEAN, groups : SUBSET Groups]
        BY <2>1
      <3>3. user[u] # NoRow
        BY <3>1, <3>2, MembershipParameters
      <3>4. user[u].groups = G
        BY <3>1
      <3>5. user[u].active = TRUE <=> u \in ActiveUsers
        <4>1. (u \in ActiveUsers) \in BOOLEAN
          OBVIOUS
        <4>2. CASE u \in ActiveUsers
          <5>1. user[u] = [enabled |-> TRUE, active |-> TRUE, groups |-> G]
            BY <3>1, <4>2, Zenon
          <5> QED
            BY <4>2, <5>1
        <4>3. CASE u \notin ActiveUsers
          <5>1. (u \in ActiveUsers) = FALSE
            BY <4>1, <4>3
          <5>2. user[u] = [enabled |-> TRUE, active |-> FALSE, groups |-> G]
            BY <3>1, <5>1, Zenon
          <5> QED
            BY <4>3, <5>2
        <4> QED
          BY <4>2, <4>3
      <3> QED
        BY <2>2, <3>3, <3>4, <3>5 DEF Belongs
    <2> QED
      BY <2>3, <2>4
  <1>7. MatchInv
    BY <1>3, <1>6 DEF MatchInv, Activating
  <1> QED
    BY <1>1, <1>4, <1>7 DEF MembershipInv

\* The invariant of memberships is inductive when fan-outs do not interleave.
LEMMA NextMatches ==
  ASSUME MembershipInv, ~Overlap, [Next]_vars
  PROVE  MembershipInv'
  <1>1. TypesInv'
    BY NextTypes DEF MembershipInv
  <1> SUFFICES ExclusiveInv' /\ ActivationInv' /\ MatchInv'
    BY <1>1 DEF MembershipInv
  <1>2. PlansInv
    BY DEF MembershipInv, TypesInv
  <1>3. ASSUME user' = user, members' = members, excuse' = excuse, todo' = todo
        PROVE  ExclusiveInv' /\ ActivationInv' /\ MatchInv'
    BY <1>3, StaysAlone, MatchUntouched DEF MembershipInv
  <1>4. CASE Request
    BY <1>4, RequestMatches
  <1>5. CASE Progress
    BY <1>5, ProgressMatches
  <1>6. CASE Forget
    BY <1>3, <1>6 DEF Forget, tables
  <1>7. CASE ChangeDirectory
    <2>1. user' = user /\ members' = members /\ excuse' = excuse /\ todo' = todo
      BY <1>7 DEF ChangeDirectory, DirectoryChange, tables
    <2> QED
      BY <1>3, <2>1
  <1>8. CASE StartSync
    <2>1. /\ MayFan("sync") /\ user' = user /\ members' = members /\ excuse' = excuse
          /\ todo' = [todo EXCEPT !["sync"] = <<[op |-> "sync_groups"]>>]
      BY <1>8 DEF StartSync, tables
    <2>2. todo'["api"] = todo["api"]
      BY <1>2, <2>1 DEF PlansInv, Actors
    <2>3. \A x \in Elems(todo["api"]) : x.op \in Light
      BY <1>2, <2>1, LightPlan DEF Actors
    <2>4. ExclusiveInv'
      BY <2>2, <2>3 DEF ExclusiveInv
    <2> QED
      BY <2>1, <2>2, <2>4, MatchUntouched DEF MembershipInv
  <1>9. CASE Crash
    <2>1. /\ user' = user /\ members' = members /\ todo' = [a \in Actors |-> <<>>]
          /\ (excuse' = excuse /\ Idle("api")) \/ "interrupted" \in excuse'
      BY <1>9 DEF Crash, tables
    <2>2. todo'["api"] = <<>> /\ todo'["sync"] = <<>>
      BY <2>1 DEF Actors
    <2>3. ExclusiveInv'
      BY <2>2 DEF ExclusiveInv
    <2>4. CASE "interrupted" \in excuse'
      BY <2>3, <2>4 DEF Excused, Bad, ActivationInv, MatchInv
    <2>5. CASE excuse' = excuse /\ Idle("api")
      <3>1. todo'["api"] = todo["api"]
        BY <2>2, <2>5 DEF Idle
      <3> QED
        BY <2>1, <2>3, <2>5, <3>1, MatchUntouched DEF MembershipInv
    <2> QED
      BY <2>1, <2>4, <2>5
  <1>10. CASE UNCHANGED vars
    BY <1>3, <1>10 DEF vars, tables
  <1> QED
    BY <1>4, <1>5, <1>6, <1>7, <1>8, <1>9, <1>10 DEF Next, Finished

\* When the fan-outs of requests, tasks and the synchronisation do not interleave,
\* whenever nothing is under way an active user is a member of exactly the groups
\* its row notes and nobody else is a member of anything (add_users_to_group,
\* remove_users_from_group, activate_user, delete_user).  The exceptions are those
\* the history names: a group an activation could not join, the memberships of a
\* deleted user in disabled groups, and a crash in the middle of a request or of
\* the synchronisation.
THEOREM MembershipsMatch ==
  ASSUME ~Overlap
  PROVE  Spec => []MembershipsMatchRows
  <1>1. Init => MembershipInv
    BY InitMatches
  <1>2. MembershipInv /\ [Next]_vars => MembershipInv'
    BY NextMatches
  <1>3. MembershipInv => MembershipsMatchRows
    <2> SUFFICES ASSUME MembershipInv, Rest, excuse \cap {"missed", "orphaned", "interrupted"} = {},
                        NEW g \in Known, NEW u \in Users
                 PROVE  u \in members[g] <=> u \in Rows /\ user[u].active /\ g \in user[u].groups
      BY DEF MembershipsMatchRows
    <2>1. Elems(todo["api"]) = {} /\ ~Excused /\ g \in Groups
      BY Singles DEF Rest, Idle, Actors, Excused, Bad, Known
    <2>2. u \in members[g] <=> Belongs(u, g)
      BY <2>1 DEF MembershipInv, MatchInv, Activating
    <2>3. user[u] # NoRow => user[u].active \in BOOLEAN
      BY DEF MembershipInv, TypesInv, Tables
    <2> QED
      BY <2>2, <2>3 DEF Belongs, Rows
  <1> QED
    BY <1>1, <1>2, <1>3, PTL DEF Spec

-----------------------------------------------------------------------------
(* What an exception skips *)

\* The steps of a synchronisation that may raise or lead to one that does, and
\* those it must not lose.
Lossy == {"create_group", "delete_group", "force_remove", "remove_project", "unlink",
          "revoke_members", "create_user", "delete_user", "add_to_group", "remove_from_group",
          "member_removed", "revoke"}
Precious == {"create_group", "delete_group", "drop_group", "sync_users", "create_user",
             "delete_user", "drop_user", "compare", "synced", "add_to_group",
             "remove_from_group", "request_home"}

Home(u) == [op |-> "request_home", u |-> u]

\* A step that may raise is in another try block than the later steps that must
\* not be lost, but for those of the same user's creation or deletion.
Apart(p) ==
    \A i, j \in 1 .. Len(p) : i < j /\ p[i].op \in Lossy /\ p[j].op \in Precious =>
        \/ \E k \in i .. j : p[k].op \in Ends
        \/ /\ p[i].op = "add_to_group" /\ p[j].op \in {"add_to_group", "request_home"}
           /\ \E k \in j .. Len(p) : p[k] = Home(p[i].u)
        \/ p[i].op \in {"member_removed", "revoke"} /\ p[j].op = "drop_user" /\ p[j].u = p[i].u

\* Arithmetic of indices.
LEMMA Shifted ==
  ASSUME NEW m \in Nat, NEW a \in Nat, NEW b \in Nat, b = a - m
  PROVE  /\ \A i \in 1 .. b : i + m \in 1 .. a
         /\ \A i, j \in 1 .. b : i < j => i + m < j + m
         /\ \A i, j \in 1 .. b : \A k \in (i + m) .. (j + m) : k - m \in i .. j /\ (k - m) + m = k
         /\ \A j \in 1 .. b : \A k \in (j + m) .. a : k - m \in j .. b /\ (k - m) + m = k
         /\ \A i, j \in 1 .. b : i .. j \subseteq 1 .. b
         /\ \A j \in 1 .. b : j .. b \subseteq 1 .. b
  OBVIOUS

LEMMA Joined ==
  ASSUME NEW L \in Nat, L >= 1, NEW N \in Nat, NEW M \in Nat, M = N + (L - 1)
  PROVE  /\ \A k \in 2 .. L : k - 1 + N \in 1 .. M /\ k - 1 + N > N
         /\ \A j \in 1 .. M : j > N => \E h \in 2 .. L : h - 1 + N = j
         /\ \A f, h \in 2 .. L : f - 1 + N < h - 1 + N => f < h
         /\ \A f, h \in 2 .. L : \A k \in f .. h : k \in 2 .. L /\ k - 1 + N \in (f - 1 + N) .. (h - 1 + N)
         /\ \A h \in 2 .. L : \A k \in h .. L : k \in 2 .. L /\ k - 1 + N \in (h - 1 + N) .. M
         /\ \A h \in 2 .. L : \A i \in 1 .. N : \A k \in 2 .. h : k \in 2 .. L /\ k - 1 + N \in i .. (h - 1 + N)
  <1>1. \A j \in 1 .. M : j > N => j - N + 1 \in 2 .. L /\ (j - N + 1) - 1 + N = j
    OBVIOUS
  <1> QED
    BY <1>1

\* So it is in the rest of a plan.
LEMMA ApartRest ==
  ASSUME NEW p, NEW r, NEW m \in Nat, Len(p) \in Nat, Len(r) \in Nat, Len(r) = Len(p) - m,
         \A i \in 1 .. Len(r) : r[i] = p[i + m], Apart(p)
  PROVE  Apart(r)
  <1>1. SUFFICES ASSUME NEW i \in 1 .. Len(r), NEW j \in 1 .. Len(r), i < j,
                        r[i].op \in Lossy, r[j].op \in Precious
                 PROVE  \/ \E k \in i .. j : r[k].op \in Ends
                        \/ /\ r[i].op = "add_to_group" /\ r[j].op \in {"add_to_group", "request_home"}
                           /\ \E k \in j .. Len(r) : r[k] = Home(r[i].u)
                        \/ /\ r[i].op \in {"member_removed", "revoke"} /\ r[j].op = "drop_user"
                           /\ r[j].u = r[i].u
    BY DEF Apart
  <1>2. /\ i + m \in 1 .. Len(p) /\ j + m \in 1 .. Len(p) /\ i + m < j + m
        /\ r[i] = p[i + m] /\ r[j] = p[j + m]
    <2>1. /\ \A h \in 1 .. Len(r) : h + m \in 1 .. Len(p)
          /\ \A h, l \in 1 .. Len(r) : h < l => h + m < l + m
      BY Shifted
    <2> QED
      BY <1>1, <2>1
  <1>3. \/ \E k \in (i + m) .. (j + m) : p[k].op \in Ends
        \/ /\ r[i].op = "add_to_group" /\ r[j].op \in {"add_to_group", "request_home"}
           /\ \E k \in (j + m) .. Len(p) : p[k] = Home(r[i].u)
        \/ r[i].op \in {"member_removed", "revoke"} /\ r[j].op = "drop_user" /\ r[j].u = r[i].u
    <2> DEFINE f == i + m
               h == j + m
    <2>1. f \in 1 .. Len(p) /\ h \in 1 .. Len(p) /\ f < h /\ r[i] = p[f] /\ r[j] = p[h]
      BY <1>2
    <2> HIDE DEF f, h
    <2>2. \/ \E k \in f .. h : p[k].op \in Ends
          \/ /\ p[f].op = "add_to_group" /\ p[h].op \in {"add_to_group", "request_home"}
             /\ \E k \in h .. Len(p) : p[k] = Home(p[f].u)
          \/ p[f].op \in {"member_removed", "revoke"} /\ p[h].op = "drop_user" /\ p[h].u = p[f].u
      BY <1>1, <2>1 DEF Apart
    <2> QED
      BY <2>1, <2>2 DEF f, h
  <1>4. ASSUME NEW k \in (i + m) .. (j + m), p[k].op \in Ends
        PROVE  \E h \in i .. j : r[h].op \in Ends
    <2>1. k - m \in i .. j /\ k - m \in 1 .. Len(r) /\ (k - m) + m = k
      BY <1>1, <1>4
    <2> QED
      BY <1>4, <2>1
  <1>5. ASSUME NEW k \in (j + m) .. Len(p), p[k] = Home(r[i].u)
        PROVE  \E h \in j .. Len(r) : r[h] = Home(r[i].u)
    <2>1. k - m \in j .. Len(r) /\ k - m \in 1 .. Len(r) /\ (k - m) + m = k
      BY <1>1, <1>5
    <2> QED
      BY <1>5, <2>1
  <1> QED
    BY <1>3, <1>4, <1>5

\* Home directories are requested before users are compared.
HomesFirst(p) == \A i, j \in 1 .. Len(p) : i < j /\ p[i].op = "compare" => p[j].op # "request_home"

\* So it is in the rest of a plan.
LEMMA HomesFirstRest ==
  ASSUME NEW p, NEW r, Len(p) \in Nat, Len(r) \in Nat, NEW m \in Nat, Len(r) = Len(p) - m,
         \A i \in 1 .. Len(r) : r[i] = p[i + m], HomesFirst(p)
  PROVE  HomesFirst(r)
  <1>1. ASSUME NEW i \in 1 .. Len(r), NEW j \in 1 .. Len(r), i < j, r[i].op = "compare"
        PROVE  r[j].op # "request_home"
    <2>1. i + m \in 1 .. Len(p) /\ j + m \in 1 .. Len(p) /\ i + m < j + m
      BY <1>1
    <2>2. r[i] = p[i + m] /\ r[j] = p[j + m]
      BY <1>1
    <2> QED
      BY <1>1, <2>1, <2>2 DEF HomesFirst
  <1> QED
    BY <1>1 DEF HomesFirst

\* And in one that goes on with steps that compare nobody.
LEMMA ContinuedHomesFirst ==
  ASSUME NEW S, NEW t \in Seq(S), t # <<>>, NEW s \in Seq(S), NEW r, r = Remaining(s \o Tail(t)),
         HomesFirst(t), \A x \in Elems(s) : x.op # "compare"
  PROVE  HomesFirst(r)
  <1> DEFINE u == Tail(t)
             w == s \o u
             n == Len(s)
  <1>1. /\ u \in Seq(S) /\ Len(u) = Len(t) - 1 /\ Len(t) \in Nat /\ Len(t) >= 1
        /\ \A i \in 1 .. Len(u) : u[i] = t[i + 1]
    OBVIOUS
  <1>2. /\ w \in Seq(S) /\ Len(w) = Len(s) + Len(u) /\ Len(s) \in Nat /\ Len(w) \in Nat
        /\ \A i \in 1 .. Len(s) : w[i] = s[i]
        /\ \A i \in 1 .. Len(u) : w[i + Len(s)] = u[i]
    BY <1>1
  <1>3. r = Remaining(w) /\ w \in Seq(S)
    BY <1>2
  <1> HIDE DEF w, u
  <1>4. r \in Seq(S) /\ Shortened(r, w)
    BY <1>3, Remains
  <1>5. PICK m \in 0 .. Len(w) : Len(r) = Len(w) - m /\ \A i \in 1 .. Len(r) : r[i] = w[i + m]
    BY <1>4 DEF Shortened
  <1> SUFFICES HomesFirst(w)
    <2>1. /\ Len(w) \in Nat /\ Len(r) \in Nat /\ m \in Nat /\ Len(r) = Len(w) - m
          /\ \A i \in 1 .. Len(r) : r[i] = w[i + m]
      BY <1>2, <1>4, <1>5
    <2> QED
      BY <2>1, HomesFirstRest
  <1>6. ASSUME NEW i \in 1 .. Len(w), NEW j \in 1 .. Len(w), i < j, w[i].op = "compare"
        PROVE  w[j].op # "request_home"
    <2>1. ~(i \in 1 .. n)
      BY <1>2, <1>6 DEF Elems
    <2>2. ASSUME NEW k \in 1 .. Len(w), k > n
          PROVE  w[k] = t[k - n + 1] /\ k - n + 1 \in 1 .. Len(t)
      <3> DEFINE h == k - n
      <3>1. h \in 1 .. Len(u) /\ h + n = k /\ h + 1 = k - n + 1 /\ h + 1 \in 1 .. Len(t)
        BY <1>1, <1>2, <2>2
      <3> HIDE DEF h
      <3>2. w[h + n] = u[h] /\ u[h] = t[h + 1]
        BY <1>1, <1>2, <3>1
      <3> QED
        BY <3>1, <3>2
    <2>3. i > n /\ j > n
      BY <1>2, <1>6, <2>1
    <2>4. i - n + 1 < j - n + 1
      BY <1>2, <1>6
    <2> QED
      BY <1>6, <2>2, <2>3, <2>4 DEF HomesFirst
  <1> QED
    BY <1>6 DEF HomesFirst

\* An exception skips what follows in the same try block, and nothing else.
LEMMA RaisedApart ==
  ASSUME NEW S, NEW t \in Seq(S), t # <<>>, NEW I, I = {i \in 1 .. Len(t) : t[i].op \in Ends}, NEW r,
         I = {} => r = <<>>, I # {} => r = Remaining(SubSeq(t, Min(I) + 1, Len(t)))
  PROVE  /\ Apart(t) => Apart(r)
         /\ HomesFirst(t) => HomesFirst(r)
         /\ \A j \in 1 .. Len(t) : \/ t[j] \in Elems(r)
                                   \/ t[j].op \in Ends
                                   \/ \A k \in 1 .. j : t[k].op \notin Ends
  <1>1. CASE I = {}
    <2>1. r = <<>> /\ \A k \in 1 .. Len(t) : t[k].op \notin Ends
      BY <1>1
    <2>2. Apart(r) /\ HomesFirst(r)
      BY <2>1 DEF Apart, HomesFirst
    <2> QED
      BY <2>1, <2>2
  <1>2. CASE I # {}
    <2> DEFINE m == Min(I)
               w == SubSeq(t, m + 1, Len(t))
    <2>0. r = Remaining(w)
      BY <1>2
    <2>1. m \in I /\ \A x \in I : m <= x
      <3>1. I \in SUBSET Nat
        OBVIOUS
      <3> QED
        BY <1>2, <3>1, LeastOne
    <2> HIDE DEF m
    <2>2. m \in 1 .. Len(t) /\ Len(t) \in Nat
      BY <2>1
    <2>3. w \in Seq(S) /\ Len(w) = Len(t) - m /\ \A i \in 1 .. Len(w) : w[i] = t[i + m]
      BY <2>2
    <2>4. r = Remaining(w) /\ w \in Seq(S)
      BY <2>0, <2>3
    <2> HIDE DEF w
    <2>5. r \in Seq(S) /\ Shortened(r, w)
      BY <2>4, Remains
    <2>6. PICK n \in 0 .. Len(w) : /\ Len(r) = Len(w) - n /\ \A i \in 1 .. Len(r) : r[i] = w[i + n]
                                   /\ \A i \in 1 .. n : w[i].op \in Ends
      BY <2>5 DEF Shortened
    <2>7. Len(w) \in Nat /\ Len(r) \in Nat
      BY <2>4, <2>5
    <2>8. /\ m + n \in Nat /\ Len(r) = Len(t) - (m + n)
          /\ \A i \in 1 .. Len(r) : r[i] = t[i + (m + n)]
      <3>1. m + n \in Nat /\ Len(r) = Len(t) - (m + n)
        BY <2>2, <2>3, <2>6, <2>7
      <3>2. ASSUME NEW i \in 1 .. Len(r)
            PROVE  r[i] = t[i + (m + n)]
        <4>1. i + n \in 1 .. Len(w) /\ (i + n) + m = i + (m + n)
          BY <2>2, <2>6, <2>7
        <4> QED
          BY <2>3, <2>6, <4>1
      <3> QED
        BY <3>1, <3>2
    <2>9. (Apart(t) => Apart(r)) /\ (HomesFirst(t) => HomesFirst(r))
      <3> DEFINE h == m + n
      <3>1. h \in Nat /\ Len(r) = Len(t) - h /\ \A i \in 1 .. Len(r) : r[i] = t[i + h]
        BY <2>8
      <3> HIDE DEF h
      <3> QED
        BY <2>2, <2>7, <3>1, ApartRest, HomesFirstRest
    <2>10. ASSUME NEW j \in 1 .. Len(t), t[j].op \notin Ends, NEW k \in 1 .. j, t[k].op \in Ends
           PROVE  t[j] \in Elems(r)
      <3>1. m <= k /\ m < j
        <4>1. k \in I /\ j \notin I /\ m \in I
          BY <2>1, <2>10
        <4> QED
          BY <2>1, <2>2, <4>1
      <3>2. j - m \in 1 .. Len(w) /\ (j - m) + m = j
        BY <2>2, <2>3, <3>1
      <3>3. w[j - m] = t[j]
        BY <2>3, <3>2
      <3>4. ~(j - m \in 1 .. n)
        BY <2>6, <2>10, <3>3
      <3>5. j - m - n \in 1 .. Len(r) /\ (j - m - n) + n = j - m
        BY <2>2, <2>6, <2>7, <3>2, <3>4
      <3>6. r[j - m - n] = t[j]
        BY <2>6, <3>3, <3>5
      <3> QED
        BY <3>5, <3>6 DEF Elems
    <2> QED
      BY <2>9, <2>10
  <1> QED
    BY <1>1, <1>2

\* What an exception in a plan skips.
LEMMA Skips ==
  ASSUME PlansInv, NEW a \in Actors, todo[a] # <<>>, RaiseSoca(a)
  PROVE  /\ Apart(todo[a]) => Apart(todo'[a])
         /\ HomesFirst(todo[a]) => HomesFirst(todo'[a])
         /\ \A j \in 1 .. Len(todo[a]) : \/ todo[a][j] \in Elems(todo'[a])
                                         \/ todo[a][j].op \in Ends
                                         \/ \A k \in 1 .. j : todo[a][k].op \notin Ends
  <1> DEFINE t == todo[a]
             I == {i \in 1 .. Len(t) : t[i].op \in Ends}
             caught == IF I # {} THEN Min(I) ELSE 0
             r == IF caught = 0 THEN <<>> ELSE Remaining(SubSeq(t, caught + 1, Len(t)))
  <1>1. t \in Seq(StepsOf(a)) /\ t # <<>>
    BY DEF PlansInv
  <1>2. todo' = [todo EXCEPT ![a] = r]
    BY DEF RaiseSoca, Raise, SelectInSeq, Ends
  <1>3. todo'[a] = r
    <2> HIDE DEF r
    <2> QED
      BY <1>2 DEF PlansInv
  <1>4. I = {} => r = <<>>
    OBVIOUS
  <1>5. I # {} => r = Remaining(SubSeq(t, Min(I) + 1, Len(t)))
    <2>1. SUFFICES ASSUME I # {}
                   PROVE  caught # 0
      OBVIOUS
    <2>2. I \in SUBSET Nat /\ 0 \notin I
      OBVIOUS
    <2> HIDE DEF I
    <2>3. Min(I) \in I
      BY <2>1, <2>2, LeastOne
    <2> QED
      BY <2>1, <2>2, <2>3
  <1>6. I = {i \in 1 .. Len(t) : t[i].op \in Ends}
    OBVIOUS
  <1> HIDE DEF I, r, t
  <1>7. /\ Apart(t) => Apart(r)
        /\ HomesFirst(t) => HomesFirst(r)
        /\ \A j \in 1 .. Len(t) : \/ t[j] \in Elems(r)
                                  \/ t[j].op \in Ends
                                  \/ \A k \in 1 .. j : t[k].op \notin Ends
    BY <1>1, <1>4, <1>5, <1>6, RaisedApart
  <1> QED
    BY <1>3, <1>7 DEF t

\* Without a try block an exception ends the plan.
LEMMA Uncaught ==
  ASSUME PlansInv, NEW a \in Actors, NEW C, Raise(a, C), \A x \in Elems(todo[a]) : x.op \notin C
  PROVE  todo'[a] = <<>>
  <1>1. {i \in 1 .. Len(todo[a]) : todo[a][i].op \in C} = {}
    BY DEF Elems
  <1>2. todo' = [todo EXCEPT ![a] = <<>>]
    BY <1>1 DEF Raise, SelectInSeq
  <1> QED
    BY <1>2 DEF PlansInv

\* A step whose exception skips no more than that of the step it comes from.
Follows(x, c) ==
    /\ c.op \in Lossy
    /\ \/ c.op \notin {"add_to_group", "member_removed", "revoke"}
       \/ c.op = "member_removed" /\ x.op = "revoke" /\ x.u = c.u

\* The steps that come first may be in try blocks of their own.
Enclosed(s, c) ==
    \A i \in 1 .. Len(s) : s[i].op \in Lossy =>
        (\E k \in i .. Len(s) : s[k].op \in Ends) \/ Follows(s[i], c)

\* A plan that goes on with such steps.
LEMMA ContinuedApart ==
  ASSUME NEW S, NEW t \in Seq(S), t # <<>>, NEW s \in Seq(S), NEW r, r = Remaining(s \o Tail(t)),
         Apart(t), Apart(s), Enclosed(s, t[1])
  PROVE  Apart(r)
  <1> DEFINE u == Tail(t)
             w == s \o u
  <1>1. /\ u \in Seq(S) /\ Len(u) = Len(t) - 1 /\ Len(t) \in Nat /\ Len(t) >= 1
        /\ \A i \in 1 .. Len(u) : u[i] = t[i + 1]
    OBVIOUS
  <1>2. /\ w \in Seq(S) /\ Len(w) = Len(s) + Len(u) /\ Len(s) \in Nat /\ Len(w) \in Nat
        /\ \A i \in 1 .. Len(s) : w[i] = s[i]
        /\ \A i \in 1 .. Len(u) : w[i + Len(s)] = u[i]
    BY <1>1
  <1>3. r = Remaining(w) /\ w \in Seq(S)
    BY <1>2
  <1> HIDE DEF w, u
  <1>4. r \in Seq(S) /\ Shortened(r, w)
    BY <1>3, Remains
  <1>5. PICK n \in 0 .. Len(w) : Len(r) = Len(w) - n /\ \A i \in 1 .. Len(r) : r[i] = w[i + n]
    BY <1>4 DEF Shortened
  <1> SUFFICES Apart(w)
    <2>1. /\ Len(w) \in Nat /\ Len(r) \in Nat /\ n \in Nat /\ Len(r) = Len(w) - n
          /\ \A i \in 1 .. Len(r) : r[i] = w[i + n]
      BY <1>2, <1>4, <1>5
    <2> QED
      BY <2>1, ApartRest
  <1> DEFINE N == Len(s)
             L == Len(t)
             M == Len(w)
             at(k) == k - 1 + N
  <1>6. L \in Nat /\ L >= 1 /\ N \in Nat /\ M \in Nat /\ M = N + (L - 1)
    BY <1>1, <1>2
  <1>7. ASSUME NEW k \in 2 .. L
        PROVE  w[at(k)] = t[k]
    <2> DEFINE h == k - 1
    <2>1. h \in 1 .. Len(u) /\ h + 1 = k /\ h + N = at(k)
      BY <1>1, <1>6
    <2> HIDE DEF h
    <2>2. w[h + N] = u[h] /\ u[h] = t[h + 1]
      BY <1>1, <1>2, <2>1
    <2> QED
      BY <2>1, <2>2
  <1> HIDE DEF N, L, M
  <1>12. /\ \A k \in 2 .. L : at(k) \in 1 .. M /\ at(k) > N
         /\ \A j \in 1 .. M : j > N => \E h \in 2 .. L : at(h) = j
         /\ \A f, h \in 2 .. L : at(f) < at(h) => f < h
         /\ \A f, h \in 2 .. L : \A k \in f .. h : k \in 2 .. L /\ at(k) \in at(f) .. at(h)
         /\ \A h \in 2 .. L : \A k \in h .. L : k \in 2 .. L /\ at(k) \in at(h) .. M
         /\ \A h \in 2 .. L : \A i \in 1 .. N : \A k \in 2 .. h : k \in 2 .. L /\ at(k) \in i .. at(h)
    BY <1>6, Joined
  <1>13. \A k \in 2 .. L : k \in 1 .. L /\ 1 < k
    OBVIOUS
  <1>14. 1 \in 1 .. L
    BY <1>6
  <1> HIDE DEF at
  <1>8. SUFFICES ASSUME NEW i \in 1 .. M, NEW j \in 1 .. M, i < j,
                        w[i].op \in Lossy, w[j].op \in Precious
                 PROVE  \/ \E k \in i .. j : w[k].op \in Ends
                        \/ /\ w[i].op = "add_to_group" /\ w[j].op \in {"add_to_group", "request_home"}
                           /\ \E k \in j .. M : w[k] = Home(w[i].u)
                        \/ /\ w[i].op \in {"member_removed", "revoke"} /\ w[j].op = "drop_user"
                           /\ w[j].u = w[i].u
    BY DEF Apart, M
  <1>9. CASE j <= N
    <2>1. i \in 1 .. N /\ j \in 1 .. N /\ w[i] = s[i] /\ w[j] = s[j]
      BY <1>2, <1>6, <1>8, <1>9 DEF N
    <2>2. (\A k \in i .. j : k \in 1 .. N) /\ (\A k \in j .. N : k \in 1 .. N /\ k \in j .. M)
      BY <1>6, <2>1
    <2>3. \A k \in 1 .. N : w[k] = s[k]
      BY <1>2 DEF N
    <2>4. \/ \E k \in i .. j : s[k].op \in Ends
          \/ /\ s[i].op = "add_to_group" /\ s[j].op \in {"add_to_group", "request_home"}
             /\ \E k \in j .. N : s[k] = Home(s[i].u)
          \/ s[i].op \in {"member_removed", "revoke"} /\ s[j].op = "drop_user" /\ s[j].u = s[i].u
      BY <1>8, <2>1 DEF Apart, N
    <2> QED
      BY <2>1, <2>2, <2>3, <2>4
  <1>10. CASE i <= N /\ j > N
    <2>1. i \in 1 .. N /\ w[i] = s[i] /\ \A k \in 1 .. N : w[k] = s[k]
      BY <1>2, <1>6, <1>10 DEF N
    <2>2. CASE \E k \in i .. N : s[k].op \in Ends
      <3>1. PICK k \in i .. N : s[k].op \in Ends
        BY <2>2
      <3>2. k \in i .. j /\ k \in 1 .. N
        BY <1>6, <1>10, <2>1
      <3> QED
        BY <2>1, <3>1, <3>2
    <2>3. CASE Follows(s[i], t[1])
      <3>1. PICK h \in 2 .. L : at(h) = j
        BY <1>10, <1>12
      <3>2. h \in 1 .. L /\ 1 < h /\ w[j] = t[h]
        BY <1>7, <1>13, <3>1
      <3>3. \/ \E k \in 1 .. h : t[k].op \in Ends
            \/ /\ t[1].op = "add_to_group" /\ t[h].op \in {"add_to_group", "request_home"}
               /\ \E k \in h .. L : t[k] = Home(t[1].u)
            \/ t[1].op \in {"member_removed", "revoke"} /\ t[h].op = "drop_user" /\ t[h].u = t[1].u
        BY <1>8, <1>14, <2>3, <3>2 DEF Apart, Follows, L
      <3>4. ASSUME NEW k \in 1 .. h, t[k].op \in Ends
            PROVE  \E l \in i .. j : w[l].op \in Ends
        <4>1. k # 1
          BY <2>3, <3>4 DEF Follows, Lossy, Ends
        <4>2. k \in 2 .. h
          BY <3>1, <4>1
        <4>3. k \in 2 .. L /\ at(k) \in i .. j
          BY <1>12, <2>1, <3>1, <4>2
        <4> QED
          BY <1>7, <3>4, <4>3
      <3> QED
        BY <2>1, <2>3, <3>2, <3>3, <3>4 DEF Follows
    <2> QED
      BY <2>1, <2>2, <2>3, <1>8 DEF Enclosed, N
  <1>11. CASE i > N
    <2>0. j > N
      BY <1>6, <1>8, <1>11
    <2>1. PICK f \in 2 .. L : at(f) = i
      BY <1>11, <1>12
    <2>2. PICK h \in 2 .. L : at(h) = j
      BY <1>12, <2>0
    <2>3. f \in 1 .. L /\ h \in 1 .. L /\ f < h /\ w[i] = t[f] /\ w[j] = t[h]
      BY <1>7, <1>8, <1>12, <1>13, <2>1, <2>2
    <2>4. \/ \E k \in f .. h : t[k].op \in Ends
          \/ /\ t[f].op = "add_to_group" /\ t[h].op \in {"add_to_group", "request_home"}
             /\ \E k \in h .. L : t[k] = Home(t[f].u)
          \/ t[f].op \in {"member_removed", "revoke"} /\ t[h].op = "drop_user" /\ t[h].u = t[f].u
      BY <1>8, <2>3 DEF Apart, L
    <2>5. \A k \in f .. h : at(k) \in i .. j /\ w[at(k)] = t[k]
      BY <1>7, <1>12, <2>1, <2>2
    <2>6. \A k \in h .. L : at(k) \in j .. M /\ w[at(k)] = t[k]
      BY <1>7, <1>12, <2>2
    <2> QED
      BY <2>3, <2>4, <2>5, <2>6
  <1> QED
    BY <1>6, <1>9, <1>10, <1>11

\* Every step that may raise is in a try block of its own.
Caught(s) == \A i \in 1 .. Len(s) : s[i].op \in Lossy => i + 1 \in 1 .. Len(s) /\ s[i + 1].op \in Ends

\* Such plans, and those without steps that must not be lost.
LEMMA Blocks ==
  ASSUME NEW S, NEW s \in Seq(S)
  PROVE  /\ Caught(s) => Apart(s) /\ \A c : Enclosed(s, c)
         /\ (\A x \in Elems(s) : x.op \notin Lossy) => Caught(s)
         /\ (\A x \in Elems(s) : x.op \notin Precious) => Apart(s)
         /\ \A c : (\A x \in Elems(s) : x.op \in Lossy => Follows(x, c)) => Enclosed(s, c)
         /\ Len(s) \in {0, 1} => Apart(s)
  <1>0. Len(s) \in Nat
    OBVIOUS
  <1>1. ASSUME Caught(s)
        PROVE  Apart(s) /\ \A c : Enclosed(s, c)
    <2>1. ASSUME NEW i \in 1 .. Len(s), NEW j \in 1 .. Len(s), i < j, s[i].op \in Lossy
          PROVE  \E k \in i .. j : s[k].op \in Ends
      <3>1. i + 1 \in i .. j
        BY <1>0, <2>1
      <3> QED
        BY <1>1, <2>1, <3>1 DEF Caught
    <2>2. ASSUME NEW i \in 1 .. Len(s), s[i].op \in Lossy
          PROVE  \E k \in i .. Len(s) : s[k].op \in Ends
      <3>1. i + 1 \in i .. Len(s)
        BY <1>0, <1>1, <2>2 DEF Caught
      <3> QED
        BY <1>1, <2>2, <3>1 DEF Caught
    <2> QED
      BY <2>1, <2>2 DEF Apart, Enclosed
  <1>2. ASSUME \A x \in Elems(s) : x.op \notin Lossy
        PROVE  Caught(s)
    BY <1>2 DEF Caught, Elems
  <1>3. ASSUME \A x \in Elems(s) : x.op \notin Precious
        PROVE  Apart(s)
    BY <1>3 DEF Apart, Elems
  <1>4. ASSUME NEW c, \A x \in Elems(s) : x.op \in Lossy => Follows(x, c)
        PROVE  Enclosed(s, c)
    BY <1>4 DEF Enclosed, Elems
  <1>5. ASSUME Len(s) \in {0, 1}
        PROVE  Apart(s)
    <2>1. \A n \in {0, 1} : \A i, j \in 1 .. n : ~(i < j)
      OBVIOUS
    <2> QED
      BY <1>5, <2>1 DEF Apart
  <1> QED
    BY <1>1, <1>2, <1>3, <1>4, <1>5

\* One plan after another.
LEMMA Concat ==
  ASSUME NEW S, NEW s \in Seq(S), NEW t \in Seq(S), NEW w, w = s \o t
  PROVE  /\ w \in Seq(S) /\ Len(w) = Len(s) + Len(t) /\ Len(s) \in Nat /\ Len(t) \in Nat
         /\ \A i \in 1 .. Len(s) : w[i] = s[i]
         /\ \A i \in 1 .. Len(w) : i \in 1 .. Len(s) \/ (i - Len(s) \in 1 .. Len(t) /\ w[i] = t[i - Len(s)])
         /\ \A i \in 1 .. Len(t) : w[i + Len(s)] = t[i]
  <1>1. /\ w \in Seq(S) /\ Len(w) = Len(s) + Len(t) /\ Len(s) \in Nat /\ Len(t) \in Nat
        /\ \A i \in 1 .. Len(s) : w[i] = s[i]
        /\ \A i \in 1 .. Len(t) : w[i + Len(s)] = t[i]
    OBVIOUS
  <1>2. ASSUME NEW i \in 1 .. Len(w), ~(i \in 1 .. Len(s))
        PROVE  i - Len(s) \in 1 .. Len(t) /\ w[i] = t[i - Len(s)]
    <2>1. i - Len(s) \in 1 .. Len(t) /\ (i - Len(s)) + Len(s) = i
      BY <1>1, <1>2
    <2> QED
      BY <1>1, <2>1
  <1> QED
    BY <1>1, <1>2

\* Try blocks one after another.
LEMMA CaughtConcat ==
  ASSUME NEW S, NEW s \in Seq(S), NEW t \in Seq(S), Caught(s), Caught(t)
  PROVE  Caught(s \o t)
  <1> DEFINE w == s \o t
  <1>0. w = s \o t
    OBVIOUS
  <1> HIDE DEF w
  <1>1. /\ w \in Seq(S) /\ Len(w) = Len(s) + Len(t) /\ Len(s) \in Nat /\ Len(t) \in Nat
        /\ \A i \in 1 .. Len(s) : w[i] = s[i]
        /\ \A i \in 1 .. Len(w) : i \in 1 .. Len(s) \/ (i - Len(s) \in 1 .. Len(t) /\ w[i] = t[i - Len(s)])
        /\ \A i \in 1 .. Len(t) : w[i + Len(s)] = t[i]
    BY <1>0, Concat
  <1>2. ASSUME NEW i \in 1 .. Len(w), w[i].op \in Lossy
        PROVE  i + 1 \in 1 .. Len(w) /\ w[i + 1].op \in Ends
    <2>1. CASE i \in 1 .. Len(s)
      <3>1. i + 1 \in 1 .. Len(s) /\ s[i + 1].op \in Ends
        BY <1>1, <1>2, <2>1 DEF Caught
      <3> QED
        BY <1>1, <3>1
    <2>2. CASE ~(i \in 1 .. Len(s))
      <3> DEFINE j == i - Len(s)
      <3>1. j \in 1 .. Len(t) /\ w[i] = t[j] /\ (j + 1) + Len(s) = i + 1
        BY <1>1, <2>2
      <3> HIDE DEF j
      <3>2. j + 1 \in 1 .. Len(t) /\ t[j + 1].op \in Ends
        BY <1>2, <3>1 DEF Caught
      <3>3. w[(j + 1) + Len(s)] = t[j + 1]
        BY <1>1, <3>2
      <3>4. (j + 1) + Len(s) \in 1 .. Len(w)
        BY <1>1, <3>2
      <3> QED
        BY <3>1, <3>2, <3>3, <3>4
    <2> QED
      BY <2>1, <2>2
  <1> QED
    BY <1>0, <1>2 DEF Caught

\* Tried makes a try block of every step.
LEMMA TriedCaught ==
  ASSUME NEW f, IsFiniteSet(DOMAIN f), NEW s, s = Tried(f)
  PROVE  Caught(s)
  <1> DEFINE o == SetToSeq(DOMAIN f)
             n == Len(o)
             next == [op |-> "catch_all"]
  <1>1. n \in Nat
    BY Listed, Zenon
  <1>2. s = [i \in 1 .. 2 * n |-> IF i % 2 = 1 THEN f[o[(i + 1) \div 2]] ELSE next]
    BY DEF ForEachThen, Tried
  <1>3. next.op \in Ends /\ next.op \notin Lossy
    BY DEF Ends, Lossy
  <1> HIDE DEF o, n, next
  <1>4. /\ s = [i \in 1 .. 2 * n |-> s[i]]
        /\ \A i \in 1 .. 2 * n : s[i] = IF i % 2 = 1 THEN f[o[(i + 1) \div 2]] ELSE next
    BY <1>2
  <1>5. Len(s) = 2 * n
    BY <1>1, <1>4, Halves, Enumerated
  <1>6. ASSUME NEW i \in 1 .. 2 * n, i % 2 = 1
        PROVE  i + 1 \in 1 .. 2 * n /\ (i + 1) % 2 # 1
    BY <1>1, <1>6
  <1>7. ASSUME NEW i \in 1 .. Len(s), s[i].op \in Lossy
        PROVE  i + 1 \in 1 .. Len(s) /\ s[i + 1].op \in Ends
    <2>1. i % 2 = 1
      BY <1>3, <1>4, <1>5, <1>7
    <2>2. i + 1 \in 1 .. 2 * n /\ (i + 1) % 2 # 1
      BY <1>5, <1>6, <2>1
    <2> QED
      BY <1>3, <1>4, <1>5, <2>2
  <1> QED
    BY <1>7 DEF Caught

\* The plan of delete_group: steps before the first try block ends, then others.
LEMMA BeforeCatch ==
  ASSUME NEW S, NEW s \in Seq(S), NEW t \in Seq(S), t # <<>>, t[1].op \in Ends, Caught(t),
         \A x \in Elems(s) : x.op \notin Precious
  PROVE  Apart(s \o t) /\ \A c : Enclosed(s \o t, c)
  <1> DEFINE w == s \o t
  <1>0. w = s \o t
    OBVIOUS
  <1> HIDE DEF w
  <1>1. /\ w \in Seq(S) /\ Len(w) = Len(s) + Len(t) /\ Len(s) \in Nat /\ Len(t) \in Nat
        /\ \A i \in 1 .. Len(s) : w[i] = s[i]
        /\ \A i \in 1 .. Len(w) : i \in 1 .. Len(s) \/ (i - Len(s) \in 1 .. Len(t) /\ w[i] = t[i - Len(s)])
        /\ \A i \in 1 .. Len(t) : w[i + Len(s)] = t[i]
    BY <1>0, Concat
  <1> DEFINE m == Len(s) + 1
  <1>2. 1 \in 1 .. Len(t) /\ m \in 1 .. Len(w) /\ 1 + Len(s) = m
    BY <1>1
  <1>3. w[m].op \in Ends
    BY <1>1, <1>2
  <1>4. ASSUME NEW i \in 1 .. Len(w), w[i].op \in Lossy
        PROVE  i \in 1 .. Len(s) \/ (i + 1 \in 1 .. Len(w) /\ w[i + 1].op \in Ends)
    <2>1. SUFFICES ASSUME ~(i \in 1 .. Len(s))
                   PROVE  i + 1 \in 1 .. Len(w) /\ w[i + 1].op \in Ends
      OBVIOUS
    <2> DEFINE j == i - Len(s)
    <2>2. j \in 1 .. Len(t) /\ w[i] = t[j] /\ (j + 1) + Len(s) = i + 1
      BY <1>1, <2>1
    <2> HIDE DEF j
    <2>3. j + 1 \in 1 .. Len(t) /\ t[j + 1].op \in Ends
      BY <1>4, <2>2 DEF Caught
    <2>4. w[(j + 1) + Len(s)] = t[j + 1]
      BY <1>1, <2>3
    <2>5. (j + 1) + Len(s) \in 1 .. Len(w)
      BY <1>1, <2>3
    <2> QED
      BY <2>2, <2>3, <2>4, <2>5
  <1>5. ASSUME NEW i \in 1 .. Len(w), NEW j \in 1 .. Len(w), i < j, w[i].op \in Lossy, w[j].op \in Precious
        PROVE  \E k \in i .. j : w[k].op \in Ends
    <2>1. CASE i \in 1 .. Len(s)
      <3>1. ~(j \in 1 .. Len(s))
        BY <1>1, <1>5 DEF Elems
      <3>2. m \in i .. j
        BY <1>1, <1>5, <2>1, <3>1
      <3> HIDE DEF m
      <3> QED
        BY <1>3, <3>2
    <2>2. CASE ~(i \in 1 .. Len(s))
      <3>1. i + 1 \in i .. j
        BY <1>1, <1>5
      <3> QED
        BY <1>4, <1>5, <2>2, <3>1
    <2> QED
      BY <2>1, <2>2
  <1>6. ASSUME NEW i \in 1 .. Len(w), w[i].op \in Lossy
        PROVE  \E k \in i .. Len(w) : w[k].op \in Ends
    <2>1. CASE i \in 1 .. Len(s)
      <3>1. m \in i .. Len(w)
        BY <1>1, <1>2, <2>1
      <3> HIDE DEF m
      <3> QED
        BY <1>3, <3>1
    <2>2. CASE ~(i \in 1 .. Len(s))
      <3>1. i + 1 \in 1 .. Len(w) /\ w[i + 1].op \in Ends
        BY <1>4, <1>6, <2>2
      <3>2. i + 1 \in i .. Len(w)
        BY <1>1, <3>1
      <3> QED
        BY <3>1, <3>2
    <2> QED
      BY <2>1, <2>2
  <1> QED
    BY <1>0, <1>5, <1>6 DEF Apart, Enclosed

\* The plans of create_user and delete_user: the last step must not be lost.
LEMMA ApartLast ==
  ASSUME NEW S, NEW s \in Seq(S), NEW l \in S,
         \/ l.op = "request_home" /\ \A x \in Elems(s) : x.op = "add_to_group" /\ Home(x.u) = l
         \/ l.op = "drop_user" /\ \A x \in Elems(s) : x.op = "member_removed" /\ x.u = l.u
  PROVE  Apart(s \o <<l>>)
  <1> DEFINE w == s \o <<l>>
  <1>0. w = s \o <<l>> /\ <<l>> \in Seq(S) /\ Len(<<l>>) = 1 /\ <<l>>[1] = l
    OBVIOUS
  <1> HIDE DEF w
  <1>1. /\ Len(w) = Len(s) + 1 /\ Len(s) \in Nat
        /\ \A i \in 1 .. Len(s) : w[i] = s[i]
        /\ w[1 + Len(s)] = l
    <2>1. /\ Len(w) = Len(s) + Len(<<l>>) /\ Len(s) \in Nat
          /\ \A i \in 1 .. Len(s) : w[i] = s[i]
          /\ \A i \in 1 .. Len(<<l>>) : w[i + Len(s)] = <<l>>[i]
      BY <1>0, Concat
    <2> QED
      BY <1>0, <2>1
  <1> DEFINE m == Len(w)
  <1>2. m \in Nat /\ w[m] = l /\ \A j \in 1 .. m : m \in j .. m
    BY <1>1
  <1>3. ASSUME NEW i \in 1 .. m, i < m
        PROVE  w[i] \in Elems(s)
    <2>1. i \in 1 .. Len(s)
      BY <1>1, <1>3
    <2> QED
      BY <1>1, <2>1 DEF Elems
  <1>4. \A i, j \in 1 .. m : i < j => i < m /\ (j < m \/ j = m)
    BY <1>2
  <1> HIDE DEF m
  <1>5. CASE l.op = "request_home" /\ \A x \in Elems(s) : x.op = "add_to_group" /\ Home(x.u) = l
    <2>1. ASSUME NEW i \in 1 .. m, NEW j \in 1 .. m, i < j
          PROVE  /\ w[i].op = "add_to_group" /\ w[j].op \in {"add_to_group", "request_home"}
                 /\ \E k \in j .. m : w[k] = Home(w[i].u)
      <3>1. i < m /\ (j < m \/ j = m)
        BY <1>4, <2>1
      <3>2. w[i] \in Elems(s) /\ (w[j] \in Elems(s) \/ w[j] = l)
        BY <1>2, <1>3, <3>1
      <3>3. w[i].op = "add_to_group" /\ w[j].op \in {"add_to_group", "request_home"}
        BY <1>5, <3>2
      <3>4. m \in j .. m /\ w[m] = Home(w[i].u)
        BY <1>2, <1>5, <3>2
      <3> QED
        BY <3>3, <3>4
    <2>2. \A i, j \in 1 .. Len(w) : i < j =>
              /\ w[i].op = "add_to_group" /\ w[j].op \in {"add_to_group", "request_home"}
              /\ \E k \in j .. Len(w) : w[k] = Home(w[i].u)
      BY <2>1 DEF m
    <2>3. Apart(w)
      BY <2>2, Zenon DEF Apart
    <2> QED
      BY <1>0, <2>3
  <1>6. CASE l.op = "drop_user" /\ \A x \in Elems(s) : x.op = "member_removed" /\ x.u = l.u
    <2>1. ASSUME NEW i \in 1 .. m, NEW j \in 1 .. m, i < j, w[j].op \in Precious
          PROVE  w[i].op = "member_removed" /\ w[j].op = "drop_user" /\ w[j].u = w[i].u
      BY <1>2, <1>3, <1>4, <1>6, <2>1 DEF Precious
    <2> QED
      BY <1>0, <2>1 DEF Apart, m
  <1> QED
    BY <1>5, <1>6

-----------------------------------------------------------------------------
(* The mirror of the directory *)

\* The steps that the synchronisation still has to do.
Pending == Elems(todo["sync"])

\* The steps that come before the users are compared, and those that need the
\* project's row.
GroupPhase == {"sync_groups", "sync_users", "create_group", "delete_group", "drop_group",
               "force_remove"}
Undoing == {"revoke", "unlink", "revoke_members"}

\* The plan of a synchronisation.
ShapeInv ==
    /\ Apart(todo["sync"]) /\ OnlyLast(todo["sync"], "synced") /\ HomesFirst(todo["sync"])
    /\ \A x, y \in Pending : x.op = "synced" => y.op \notin GroupPhase
    /\ \A x \in Pending : x.op \in Undoing => Exists

\* A synchronisation is running, and nothing disturbs it.
Live == synced = "running" /\ excuse = {}

\* The steps about groups are those the directory calls for, and every group
\* that differs has one.
GroupsDue ==
    /\ \A x \in Pending :
          /\ x.op = "create_group" => x.g \in ad.groups
          /\ x.op \in {"delete_group", "drop_group"} => x.g \notin ad.groups
          /\ x.op = "sync_users" => x.groups = ad.groups
    /\ faults = 0 => \A g \in Groups :
          /\ g \in ad.groups /\ group[g] = "none" => [op |-> "create_group", g |-> g] \in Pending
          /\ g \notin ad.groups /\ group[g] # "none" =>
                \/ [op |-> "delete_group", g |-> g] \in Pending
                \/ [op |-> "drop_group", g |-> g] \in Pending
GroupsInv == Live /\ (\E x \in Pending : x.op \in {"sync_users", "synced"}) => GroupsDue

\* A step about a user is what the directory calls for.
Due(x) ==
    /\ x.op = "create_user" => ad.of[x.u] # NoRow /\ x.groups = ad.of[x.u]
    /\ x.op \in Leaving => ad.of[x.u] = NoRow
    /\ x.op = "add_to_group" => ad.of[x.u] # NoRow /\ x.g \in ad.of[x.u]
    /\ x.op = "compare" => /\ ad.of[x.u] # NoRow /\ x.added \subseteq ad.of[x.u]
                           /\ \A g \in x.removed : group[g] # "none" => g \notin ad.of[x.u]
                           /\ x.found <=> x.u \notin ad.renamed
    /\ x.op = "remove_from_group" => /\ ad.of[x.u] # NoRow
                                     /\ group[x.g] # "none" => x.g \notin ad.of[x.u]

\* A user who has a group too many, or one too few that it can get, has a step
\* about it.
Differs(u, g) ==
    /\ g \in user[u].groups /\ g \notin ad.of[u] =>
          \/ [op |-> "remove_from_group", u |-> u, g |-> g] \in Pending
          \/ \E x \in Pending : x.op = "compare" /\ x.u = u /\ g \in x.removed
    /\ g \notin user[u].groups /\ g \in ad.of[u] /\ u \notin ad.renamed =>
          \/ AddToGroup(u, g, FALSE) \in Pending
          \/ \E x \in Pending : x.op = "compare" /\ x.u = u /\ g \in x.added

UserDue(u) ==
    /\ faults = 0 /\ u \notin ad.renamed /\ ad.of[u] # NoRow /\ user[u] = NoRow =>
          [op |-> "create_user", u |-> u, groups |-> ad.of[u]] \in Pending
    /\ ad.of[u] = NoRow /\ user[u] # NoRow =>
          \/ [op |-> "delete_user", u |-> u] \in Pending
          \/ [op |-> "drop_user", u |-> u] \in Pending
    /\ ad.of[u] # NoRow /\ user[u] # NoRow /\ user[u].enabled = TRUE =>
          \A g \in Groups : group[g] = "enabled" => Differs(u, g)

UsersInv ==
    Live /\ (\E x \in Pending : x.op = "synced") =>
        (\A x \in Pending : Due(x)) /\ (\A u \in Users : UserDue(u))

\* A user's home directory was requested, or will be.
HomesInv == excuse = {} => \A u \in Users : user[u] # NoRow => u \in homes \/ Home(u) \in Pending

\* What a step of the synchronisation leaves of the steps it must not lose.
Kept ==
    \A y \in Pending : y.op \in Precious =>
        \/ y = Cur("sync") \/ y \in Pending'
        \/ y.op = "drop_user" /\ user[y.u] = NoRow

\* The synchronisation goes on with these steps.
LEMMA SyncContinues ==
  ASSUME PlansInv, ShapeInv, todo["sync"] # <<>>, NEW s \in Seq(StepsOf("sync")),
         Continue("sync", s), Apart(s), Enclosed(s, Cur("sync")), Exists => Exists',
         \A x \in Elems(s) : /\ x.op \notin {"synced", "compare"}
                             /\ x.op \in GroupPhase => Cur("sync").op \in GroupPhase
                             /\ x.op \in Undoing => Exists
  PROVE  /\ ShapeInv' /\ Kept /\ Cur("sync") \in Pending
         /\ \A x \in Pending' : x \in Elems(s) \/ x \in Pending
         /\ \A x \in Elems(s) : x \in Pending' \/ x.op \in Ends
         /\ \A b \in Actors : b # "sync" => todo'[b] = todo[b]
  <1> DEFINE t == todo["sync"]
             T == Elems(Tail(t))
  <1>1. "sync" \in Actors /\ t \in Seq(StepsOf("sync")) /\ t # <<>> /\ Cur("sync") = t[1]
    BY DEF Actors, PlansInv, Cur
  <1>2. /\ Elems(t) = {Cur("sync")} \cup T
        /\ Elems(todo'["sync"]) \subseteq Elems(s) \cup T
        /\ \A x \in Elems(s) \cup T : x.op \in Ends \/ x \in Elems(todo'["sync"])
        /\ \A op : OnlyLast(t, op) /\ (\A x \in Elems(s) : x.op # op) => OnlyLast(todo'["sync"], op)
        /\ \A b \in Actors : b # "sync" => todo'[b] = todo[b]
    BY <1>1, Advance
  <1>3. todo'["sync"] = Remaining(s \o Tail(t))
    BY <1>1 DEF Continue, PlansInv
  <1> HIDE DEF t, T
  <1>4. Apart(t)
    BY DEF ShapeInv, t
  <1>5. Apart(todo'["sync"])
    BY <1>1, <1>3, <1>4, ContinuedApart
  <1>6. Pending = {Cur("sync")} \cup T /\ Pending' = Elems(todo'["sync"])
    BY <1>2 DEF Pending, t
  <1>7. OnlyLast(todo'["sync"], "synced") /\ HomesFirst(todo'["sync"])
    <2>1. HomesFirst(t)
      BY DEF ShapeInv, t
    <2>2. HomesFirst(todo'["sync"])
      BY <1>1, <1>3, <2>1, ContinuedHomesFirst
    <2> QED
      BY <1>2, <2>2 DEF ShapeInv, t
  <1>8. ASSUME NEW x \in Pending', NEW y \in Pending', x.op = "synced"
        PROVE  y.op \notin GroupPhase
    BY <1>2, <1>6, <1>8 DEF ShapeInv
  <1>9. ASSUME NEW x \in Pending', x.op \in Undoing
        PROVE  Exists'
    BY <1>2, <1>6, <1>9 DEF ShapeInv
  <1>10. ShapeInv'
    BY <1>5, <1>7, <1>8, <1>9 DEF ShapeInv
  <1>11. Kept
    BY <1>2, <1>6 DEF Kept, Precious, Ends
  <1> QED
    BY <1>2, <1>6, <1>10, <1>11

\* A step of the synchronisation raises.
LEMMA SyncRaises ==
  ASSUME PlansInv, ShapeInv, todo["sync"] # <<>>, RaiseSoca("sync"), Exists => Exists',
         Cur("sync").op \in Lossy
  PROVE  /\ ShapeInv' /\ Cur("sync") \in Pending /\ Pending' \subseteq Pending
         /\ \A y \in Pending : y.op \in Precious =>
               \/ y = Cur("sync") \/ y \in Pending'
               \/ Cur("sync").op = "add_to_group" /\ Home(Cur("sync").u) \in Pending
               \/ /\ Cur("sync").op \in {"member_removed", "revoke"}
                  /\ y.op = "drop_user" /\ y.u = Cur("sync").u
         /\ \A b \in Actors : b # "sync" => todo'[b] = todo[b]
  <1> DEFINE t == todo["sync"]
  <1>1. "sync" \in Actors /\ t \in Seq(StepsOf("sync")) /\ t # <<>> /\ Cur("sync") = t[1]
    BY DEF Actors, PlansInv, Cur
  <1>2. /\ Elems(t) = {Cur("sync")} \cup Elems(Tail(t))
        /\ Elems(todo'["sync"]) \subseteq Elems(Tail(t))
        /\ \A op : OnlyLast(t, op) => OnlyLast(todo'["sync"], op)
        /\ \A b \in Actors : b # "sync" => todo'[b] = todo[b]
    BY <1>1, Escape DEF RaiseSoca
  <1>3. /\ Apart(t) => Apart(todo'["sync"])
        /\ HomesFirst(t) => HomesFirst(todo'["sync"])
        /\ \A j \in 1 .. Len(t) : \/ t[j] \in Elems(todo'["sync"])
                                  \/ t[j].op \in Ends
                                  \/ \A k \in 1 .. j : t[k].op \notin Ends
    BY <1>1, Skips
  <1> HIDE DEF t
  <1>4. Pending = Elems(t) /\ Pending' = Elems(todo'["sync"])
    BY DEF Pending, t
  <1>5. Apart(t) /\ OnlyLast(t, "synced") /\ HomesFirst(t)
    BY DEF ShapeInv, t
  <1>6. ASSUME NEW x \in Pending', NEW y \in Pending', x.op = "synced"
        PROVE  y.op \notin GroupPhase
    BY <1>2, <1>4, <1>6 DEF ShapeInv
  <1>7. ASSUME NEW x \in Pending', x.op \in Undoing
        PROVE  Exists'
    BY <1>2, <1>4, <1>7 DEF ShapeInv
  <1>8. ShapeInv'
    BY <1>2, <1>3, <1>5, <1>6, <1>7 DEF ShapeInv
  <1>9. ASSUME NEW y \in Pending, y.op \in Precious, y # Cur("sync"), y \notin Pending'
        PROVE  \/ Cur("sync").op = "add_to_group" /\ Home(Cur("sync").u) \in Pending
               \/ /\ Cur("sync").op \in {"member_removed", "revoke"}
                  /\ y.op = "drop_user" /\ y.u = Cur("sync").u
    <2>1. PICK j \in 1 .. Len(t) : y = t[j]
      BY <1>4 DEF Elems
    <2>2. Len(t) \in Nat /\ 1 \in 1 .. Len(t) /\ 1 < j
      BY <1>1, <1>9, <2>1
    <2>3. \A k \in 1 .. j : t[k].op \notin Ends
      BY <1>3, <1>4, <1>9, <2>1 DEF Precious, Ends
    <2>4. \/ /\ t[1].op = "add_to_group"
             /\ \E k \in j .. Len(t) : t[k] = Home(t[1].u)
          \/ t[1].op \in {"member_removed", "revoke"} /\ t[j].op = "drop_user" /\ t[j].u = t[1].u
      BY <1>1, <1>5, <1>9, <2>1, <2>2, <2>3 DEF Apart
    <2>5. \A k \in j .. Len(t) : t[k] \in Elems(t)
      <3>1. \A k \in j .. Len(t) : k \in 1 .. Len(t)
        BY <2>2
      <3> QED
        BY <3>1 DEF Elems
    <2> QED
      BY <1>1, <1>4, <2>1, <2>4, <2>5
  <1> QED
    BY <1>2, <1>4, <1>8, <1>9

\* The steps about groups stay.
LEMMA GroupsKept ==
  ASSUME GroupsInv, Kept, UNCHANGED <<group, ad, synced>>, faults' = 0 => faults = 0, excuse \subseteq excuse', NEW N,
         \A x \in Pending' : x \in N \/ x \in Pending,
         \A x \in N : x.op \notin {"create_group", "delete_group", "drop_group", "sync_users", "synced"},
         Cur("sync").op \notin {"create_group", "delete_group", "drop_group"}
  PROVE  GroupsInv'
  <1>1. SUFFICES ASSUME Live', NEW y \in Pending', y.op \in {"sync_users", "synced"}
                 PROVE  GroupsDue'
    BY DEF GroupsInv
  <1>2. Live /\ y \in Pending
    BY <1>1 DEF Live
  <1>3. GroupsDue
    BY <1>1, <1>2 DEF GroupsInv
  <1>4. ASSUME NEW x \in Pending'
        PROVE  /\ x.op = "create_group" => x.g \in ad'.groups
               /\ x.op \in {"delete_group", "drop_group"} => x.g \notin ad'.groups
               /\ x.op = "sync_users" => x.groups = ad'.groups
    BY <1>3 DEF GroupsDue
  <1>5. ASSUME NEW op \in {"create_group", "delete_group", "drop_group"}, NEW g \in Groups,
               [op |-> op, g |-> g] \in Pending
        PROVE  [op |-> op, g |-> g] \in Pending'
    BY <1>5 DEF Kept, Precious
  <1> QED
    BY <1>3, <1>4, <1>5 DEF GroupsDue

\* The steps about users stay.
UserPhase == {"create_user", "delete_user", "drop_user", "add_to_group", "compare",
              "remove_from_group"}

LEMMA UsersKept ==
  ASSUME UsersInv, Kept, UNCHANGED <<user, group, ad, synced>>, faults' = 0 => faults = 0, excuse \subseteq excuse', NEW N,
         \A x \in Pending' : x \in N \/ x \in Pending,
         \A x \in N : x.op \notin UserPhase \cup {"synced"},
         Cur("sync").op \notin UserPhase
  PROVE  UsersInv'
  <1>1. SUFFICES ASSUME Live', NEW y \in Pending', y.op = "synced"
                 PROVE  (\A x \in Pending' : Due(x)') /\ (\A u \in Users : UserDue(u)')
    BY DEF UsersInv
  <1>2. Live /\ y \in Pending
    BY <1>1 DEF Live
  <1>3. (\A x \in Pending : Due(x)) /\ (\A u \in Users : UserDue(u))
    BY <1>1, <1>2 DEF UsersInv
  <1>4. ASSUME NEW x \in Pending'
        PROVE  Due(x)'
    <2>1. CASE x \in Pending
      BY <1>3, <2>1 DEF Due
    <2>2. CASE x \in N
      BY <2>2 DEF Due, UserPhase, Leaving
    <2> QED
      BY <2>1, <2>2
  <1>5. ASSUME NEW x \in Pending, x.op \in UserPhase
        PROVE  x \in Pending' \/ (x.op = "drop_user" /\ user[x.u] = NoRow)
    BY <1>5 DEF Kept, Precious, UserPhase
  <1>6. ASSUME NEW u \in Users
        PROVE  UserDue(u)'
    <2>1. faults' = 0 /\ u \notin ad.renamed /\ ad.of[u] # NoRow /\ user[u] = NoRow =>
             [op |-> "create_user", u |-> u, groups |-> ad.of[u]] \in Pending'
      BY <1>3, <1>5 DEF UserDue, UserPhase
    <2>2. ad.of[u] = NoRow /\ user[u] # NoRow =>
             \/ [op |-> "delete_user", u |-> u] \in Pending'
             \/ [op |-> "drop_user", u |-> u] \in Pending'
      BY <1>3, <1>5 DEF UserDue, UserPhase
    <2>3. ASSUME ad.of[u] # NoRow /\ user[u] # NoRow /\ user[u].enabled = TRUE, NEW g \in Groups,
                 group[g] = "enabled"
          PROVE  Differs(u, g)'
      <3>1. Differs(u, g)
        BY <1>3, <2>3 DEF UserDue
      <3> QED
        BY <1>5, <3>1 DEF Differs, UserPhase, AddToGroup
    <2> QED
      BY <2>1, <2>2, <2>3 DEF UserDue
  <1> QED
    BY <1>4, <1>6

\* Users are not compared as long as there are steps about groups.
LEMMA UsersVoid ==
  ASSUME ShapeInv, Cur("sync") \in Pending, Cur("sync").op \in GroupPhase, NEW N,
         \A x \in Pending' : x \in N \/ x \in Pending, \A x \in N : x.op # "synced"
  PROVE  UsersInv'
  <1>1. \A x \in Pending' : x.op # "synced"
    BY DEF ShapeInv
  <1> QED
    BY <1>1 DEF UsersInv

\* The home directories stay requested.
LEMMA HomesKept ==
  ASSUME HomesInv, Kept, homes \subseteq homes', excuse \subseteq excuse',
         \A u \in Users : user'[u] # NoRow => user[u] # NoRow,
         Cur("sync").op # "request_home"
  PROVE  HomesInv'
  <1>1. ASSUME NEW u \in Users, Home(u) \in Pending
        PROVE  Home(u) \in Pending'
    BY <1>1 DEF Kept, Home, Precious
  <1> QED
    BY <1>1 DEF HomesInv

-----------------------------------------------------------------------------
(* Requests, tasks and links *)

\* The executor carries out a project task while requests are light.
TaskInv == todo["projects"] # <<>> => \A x \in Elems(todo["api"]) : x.op \in Light

\* The links of a project that does not exist are gone, and nothing makes new
\* ones; a deletion removes them all before the project.
Deleting == {"unlink", "revoke_members", "revoke", "write", "drop_project"}
LinksInv ==
    /\ ~Exists => links = {} /\ \A x \in Elems(todo["projects"]) : x.op \notin {"link", "refresh"}
    /\ OnlyLast(todo["api"], "drop_project")
    /\ [op |-> "drop_project"] \in Elems(todo["api"]) =>
          /\ \A x \in Elems(todo["api"]) : x.op \in Deleting
          /\ \A g \in links : GroupRemoved(g) \in Elems(todo["api"])

\* Users belong to groups of the directory.
AdInv == \A u \in Users : ad.of[u] # NoRow => ad.of[u] \subseteq ad.groups

\* Activations and synchronisations do not count as undisturbed for each other.
QuietInv ==
    /\ \A x \in Elems(todo["api"]) : x.op = "add_to_group" => synced = "no"
    /\ synced = "yes" => todo["sync"] = <<>>

MirrorInv == ShapeInv /\ GroupsInv /\ UsersInv /\ HomesInv

\* Steps that a plan may go on with whatever the synchronisation is doing.
Neutral(x) ==
    /\ x.op \notin UserPhase \cup GroupPhase \cup {"synced", "compare"}
    /\ x.op \in Undoing => Exists

\* The synchronisation does a step that is neither about groups nor users.
LEMMA NeutralStep ==
  ASSUME TypesInv, MirrorInv, todo["sync"] # <<>>, NEW s \in Seq(StepsOf("sync")),
         Continue("sync", s), Apart(s), Enclosed(s, Cur("sync")), Exists => Exists',
         \A x \in Elems(s) : Neutral(x),
         UNCHANGED <<user, group, ad, homes, faults, synced>>, excuse \subseteq excuse',
         Cur("sync").op \notin UserPhase \cup {"create_group", "delete_group", "drop_group", "request_home"}
  PROVE  MirrorInv'
  <1>1. /\ ShapeInv' /\ Kept /\ Cur("sync") \in Pending
        /\ \A x \in Pending' : x \in Elems(s) \/ x \in Pending
    BY SyncContinues DEF TypesInv, MirrorInv, Neutral, UserPhase
  <1>2. \A x \in Elems(s) :
           x.op \notin {"create_group", "delete_group", "drop_group", "sync_users", "synced"}
    BY DEF Neutral, GroupPhase
  <1>3. GroupsInv'
    BY <1>1, <1>2, GroupsKept DEF MirrorInv
  <1>4. UsersInv'
    BY <1>1, UsersKept DEF MirrorInv, Neutral
  <1>5. HomesInv'
    BY <1>1, HomesKept DEF MirrorInv
  <1> QED
    BY <1>1, <1>3, <1>4, <1>5 DEF MirrorInv

\* So it is with one more step, or with none.
LEMMA NeutralSteps ==
  ASSUME TypesInv, MirrorInv, todo["sync"] # <<>>, Exists => Exists',
         UNCHANGED <<user, group, ad, homes, faults, synced>>, excuse \subseteq excuse',
         Cur("sync").op \notin UserPhase \cup {"create_group", "delete_group", "drop_group", "request_home"}
  PROVE  /\ Done("sync") => MirrorInv'
         /\ \A x \in StepsOf("sync") :
               /\ Continue("sync", <<x>>) /\ Neutral(x)
               /\ x.op \in Lossy => Follows(x, Cur("sync"))
               => MirrorInv'
  <1>1. ASSUME Continue("sync", <<>>)
        PROVE  MirrorInv'
    <2>1. <<>> \in Seq(StepsOf("sync")) /\ Elems(<<>>) = {}
      BY Singles
    <2>2. Apart(<<>>) /\ Enclosed(<<>>, Cur("sync"))
      BY <2>1, Blocks
    <2> QED
      BY <1>1, <2>1, <2>2, NeutralStep
  <1>2. ASSUME NEW x \in StepsOf("sync"), Continue("sync", <<x>>), Neutral(x),
               x.op \in Lossy => Follows(x, Cur("sync"))
        PROVE  MirrorInv'
    <2>1. <<x>> \in Seq(StepsOf("sync")) /\ Elems(<<x>>) = {x} /\ Len(<<x>>) = 1
      BY Singles
    <2>2. Apart(<<x>>) /\ Enclosed(<<x>>, Cur("sync"))
      BY <1>2, <2>1, Blocks
    <2> QED
      BY <1>2, <2>1, <2>2, NeutralStep
  <1> QED
    BY <1>1, <1>2 DEF Done

\* Links and access are brought up to date in a synchronisation.
LEMMA AccessMirrors ==
  ASSUME TypesInv, LinksInv, MirrorInv, UserProjectsStep("sync"), UNCHANGED directoryVars
  PROVE  MirrorInv'
  <1> DEFINE c == Cur("sync")
             S == StepsOf("sync")
  <1>0. "sync" \in Actors
    BY DEF Actors
  <1>1. /\ UNCHANGED <<user, group, members, project, excuse>> /\ todo["sync"] # <<>>
        /\ c.op \in AccessOps
    BY <1>0, UserProjectsTypes DEF TypesInv
  <1>2. /\ UNCHANGED <<user, group, ad, homes, faults, synced>> /\ excuse \subseteq excuse'
        /\ (Exists => Exists')
        /\ c.op \notin UserPhase \cup {"create_group", "delete_group", "drop_group", "request_home"}
    BY <1>1 DEF directoryVars, Exists, AccessOps, UserPhase
  <1>3. ASSUME NEW op, At("sync", op)
        PROVE  c \in S /\ c \in Steps /\ c.op = op /\ op \in SyncOps /\ c \in Pending
    BY <1>0, <1>3, Current DEF TypesInv, Pending
  <1>4. /\ Done("sync") => MirrorInv'
        /\ \A x \in S : /\ Continue("sync", <<x>>) /\ Neutral(x)
                        /\ x.op \in Lossy => Follows(x, c)
                        => MirrorInv'
    BY <1>1, <1>2, NeutralSteps
  <1>5. CASE MemberChanged("sync") /\ At("sync", "member_added")
    <2> DEFINE x == CreateUserProject(c.u, c.g)
    <2>1. c.u \in Users /\ c.g \in Groups
      BY <1>3, <1>5, Fields DEF MemberOps
    <2>2. x \in S /\ Neutral(x) /\ x.op \notin Lossy
      BY <2>1
         DEF CreateUserProject, StepsOf, Steps, SyncOps, Reasons, Neutral, UserPhase, GroupPhase,
             Undoing, Lossy
    <2>3. Continue("sync", <<x>>) \/ Done("sync")
      BY <1>5 DEF MemberChanged, At, Done
    <2> HIDE DEF x
    <2> QED
      BY <1>4, <2>2, <2>3
  <1>6. CASE MemberChanged("sync") /\ ~At("sync", "member_added")
    <2> DEFINE x == DeleteUserProject(c.u, c.g)
    <2>1. At("sync", "member_removed")
      BY <1>6 DEF MemberChanged
    <2>2. c.u \in Users /\ c.g \in Groups /\ c.op = "member_removed"
      BY <1>3, <2>1, Fields DEF MemberOps
    <2>3. x \in S /\ Follows(x, c)
      BY <2>2
         DEF DeleteUserProject, StepsOf, Steps, SyncOps, Reasons, Follows, Lossy
    <2>4. Done("sync") \/ (Continue("sync", <<x>>) /\ c.g \in links)
      BY <1>6 DEF MemberChanged, Done
    <2>5. c.g \in links => Neutral(x)
      BY DEF LinksInv, Neutral, UserPhase, GroupPhase, DeleteUserProject
    <2> HIDE DEF x
    <2> QED
      BY <1>4, <2>3, <2>4, <2>5
  <1>7. CASE Unlink("sync")
    <2> DEFINE x == [op |-> "revoke_members", g |-> c.g]
    <2>1. c.g \in Groups /\ c.op = "unlink" /\ c \in Pending
      BY <1>3, <1>7, Fields DEF Unlink, GroupOps
    <2>2. x \in S /\ Follows(x, c)
      BY <2>1 DEF StepsOf, Steps, SyncOps, GroupOps, Follows, Lossy
    <2>3. Neutral(x)
      BY <2>1 DEF MirrorInv, ShapeInv, Undoing, Neutral, UserPhase, GroupPhase
    <2>4. Continue("sync", <<x>>)
      BY <1>7 DEF Unlink
    <2> HIDE DEF x
    <2> QED
      BY <1>4, <2>2, <2>3, <2>4
  <1>8. CASE RevokeMembers("sync")
    <2> DEFINE g == c.g
               f == [u \in members[g] |-> DeleteUserProject(u, g)]
               s == ForEach(f)
    <2>1. g \in Groups /\ c.op = "revoke_members" /\ c \in Pending /\ members[g] \subseteq Users
      BY <1>3, <1>8, Fields DEF RevokeMembers, GroupOps, TypesInv, Tables
    <2>2. f \in [members[g] -> S]
      BY <2>1 DEF DeleteUserProject, StepsOf, Steps, SyncOps, Reasons
    <2>3. \A u \in members[g] : f[u].op = "revoke"
      BY DEF DeleteUserProject
    <2>4. Continue("sync", s)
      BY <1>8 DEF RevokeMembers
    <2>5. s = ForEach(f)
      OBVIOUS
    <2> HIDE DEF f, s
    <2>6. s \in Seq(S) /\ \A x \in Elems(s) : x.op = "revoke"
      BY <2>1, <2>2, <2>3, <2>5, Fan
    <2>7. Exists
      BY <2>1 DEF MirrorInv, ShapeInv, Undoing
    <2>8. \A x \in Elems(s) : Neutral(x) /\ x.op \notin Precious /\ Follows(x, c)
      BY <2>1, <2>6, <2>7 DEF Neutral, UserPhase, GroupPhase, Precious, Follows, Lossy
    <2>9. Apart(s) /\ Enclosed(s, c)
      BY <2>6, <2>8, Blocks
    <2> QED
      BY <1>1, <1>2, <2>4, <2>6, <2>8, <2>9, NeutralStep
  <1>9. CASE Grant("sync")
    <2> DEFINE x == [op |-> "write", u |-> c.u, row |-> access[c.u] \cup {c.by}]
    <2>1. c.u \in Users /\ c.by \in Reasons
      BY <1>3, <1>9, Fields DEF Grant
    <2>2. x \in S /\ Neutral(x) /\ x.op \notin Lossy
      BY <2>1
         DEF StepsOf, Steps, SyncOps, TypesInv, Tables, Neutral, UserPhase, GroupPhase, Undoing, Lossy
    <2>3. Continue("sync", <<x>>)
      BY <1>9 DEF Grant
    <2> HIDE DEF x
    <2> QED
      BY <1>4, <2>2, <2>3
  <1>10. CASE Revoke("sync")
    <2> DEFINE x == [op |-> "write", u |-> c.u, row |-> access[c.u] \ {c.by}]
    <2>1. c.u \in Users /\ c.by \in Reasons /\ c.op = "revoke" /\ c \in Pending
      BY <1>3, <1>10, Fields DEF Revoke
    <2>2. x \in S /\ Neutral(x) /\ x.op \notin Lossy
      BY <2>1
         DEF StepsOf, Steps, SyncOps, TypesInv, Tables, Neutral, UserPhase, GroupPhase, Undoing, Lossy
    <2>3. Exists
      BY <2>1 DEF MirrorInv, ShapeInv, Undoing
    <2>4. Continue("sync", <<x>>) \/ Done("sync") \/ (RaiseSoca("sync") /\ user[c.u] = NoRow)
      BY <1>10, <2>3 DEF Revoke, Done
    <2> HIDE DEF x
    <2>5. ASSUME RaiseSoca("sync"), user[c.u] = NoRow
          PROVE  MirrorInv'
      <3>1. /\ ShapeInv' /\ Cur("sync") \in Pending /\ Pending' \subseteq Pending
            /\ \A y \in Pending : y.op \in Precious =>
                  y = c \/ y \in Pending' \/ (y.op = "drop_user" /\ y.u = c.u)
        <4>1. c.op \in Lossy
          BY <2>1 DEF Lossy
        <4> QED
          BY <1>1, <1>2, <2>1, <2>5, <4>1, SyncRaises DEF TypesInv, MirrorInv
      <3>2. Kept
        BY <2>5, <3>1 DEF Kept
      <3> DEFINE none == {}
      <3>3. /\ \A y \in Pending' : y \in none \/ y \in Pending
            /\ \A y \in none : y.op \notin {"create_group", "delete_group", "drop_group", "sync_users",
                                          "synced"}
            /\ \A y \in none : y.op \notin UserPhase \cup {"synced"}
        BY <3>1
      <3> HIDE DEF none
      <3>4. GroupsInv'
        BY <1>2, <2>1, <3>2, <3>3, GroupsKept DEF MirrorInv
      <3>5. UsersInv'
        BY <1>2, <3>2, <3>3, UsersKept DEF MirrorInv
      <3>6. HomesInv'
        BY <1>2, <3>2, HomesKept DEF MirrorInv
      <3> QED
        BY <3>1, <3>4, <3>5, <3>6 DEF MirrorInv
    <2> QED
      BY <1>4, <2>2, <2>4, <2>5
  <1>11. CASE Write("sync")
    BY <1>4, <1>11 DEF Write
  <1>12. ~(Link("sync") \/ GrantMembers("sync") \/ Refresh("sync"))
    BY <1>3 DEF Link, GrantMembers, Refresh, SyncOps, Ends
  <1> QED
    BY <1>5, <1>6, <1>7, <1>8, <1>9, <1>10, <1>11, <1>12 DEF UserProjectsStep

-----------------------------------------------------------------------------
(* Steps about users *)

\* Who is not concerned keeps the steps it has.
LEMMA OthersDue ==
  ASSUME Kept, NEW u \in Users, UserDue(u), Cur("sync").u # u, user'[u] = user[u],
         UNCHANGED <<group, ad>>, faults' = 0 => faults = 0
  PROVE  UserDue(u)'
  <1>1. ASSUME NEW x \in Pending, x.op \in UserPhase, x.u = u
        PROVE  x \in Pending' \/ (x.op = "drop_user" /\ user[u] = NoRow)
    BY <1>1 DEF Kept, Precious, UserPhase
  <1>2. faults' = 0 /\ u \notin ad.renamed /\ ad.of[u] # NoRow /\ user[u] = NoRow =>
           [op |-> "create_user", u |-> u, groups |-> ad.of[u]] \in Pending'
    BY <1>1 DEF UserDue, UserPhase
  <1>3. ad.of[u] = NoRow /\ user[u] # NoRow =>
           \/ [op |-> "delete_user", u |-> u] \in Pending'
           \/ [op |-> "drop_user", u |-> u] \in Pending'
    BY <1>1 DEF UserDue, UserPhase
  <1>4. ASSUME ad.of[u] # NoRow /\ user[u] # NoRow /\ user[u].enabled = TRUE, NEW g \in Groups,
               group[g] = "enabled"
        PROVE  Differs(u, g)'
    <2>1. Differs(u, g)
      BY <1>4 DEF UserDue
    <2> QED
      BY <1>1, <2>1 DEF Differs, UserPhase, AddToGroup
  <1> QED
    BY <1>2, <1>3, <1>4 DEF UserDue

\* A step about one user, if it leaves this user with the steps it needs.
LEMMA UserStep ==
  ASSUME MirrorInv, ShapeInv', Cur("sync") \in Pending, Cur("sync").op \in UserPhase,
         NEW w \in Users, w = Cur("sync").u,
         UNCHANGED <<group, ad, synced, homes>>, excuse \subseteq excuse',
         excuse' = {} => Kept, faults' = 0 => faults = 0,
         \A v \in Users : v # w => user'[v] = user[v],
         NEW N, \A x \in Pending' : x \in N \/ x \in Pending,
         \A x \in N : x.op \notin GroupPhase \cup {"synced", "compare"},
         user'[w] # NoRow => user[w] # NoRow \/ Home(w) \in Pending',
         excuse' = {} /\ Due(Cur("sync")) /\ UserDue(w) => (\A x \in N : Due(x)') /\ UserDue(w)'
  PROVE  MirrorInv'
  <1> DEFINE c == Cur("sync")
  <1>0. CASE excuse' # {}
    BY <1>0 DEF MirrorInv, GroupsInv, UsersInv, HomesInv, Live
  <1> SUFFICES ASSUME excuse' = {}
               PROVE  MirrorInv'
    BY <1>0
  <1>1. /\ c.op \notin {"create_group", "delete_group", "drop_group", "request_home"}
        /\ \A x \in N :
              x.op \notin {"create_group", "delete_group", "drop_group", "sync_users", "synced"}
    BY DEF UserPhase, GroupPhase
  <1>2. GroupsInv'
    BY <1>1, GroupsKept DEF MirrorInv
  <1>3. UsersInv'
    <2>1. SUFFICES ASSUME Live', NEW y \in Pending', y.op = "synced"
                   PROVE  (\A x \in Pending' : Due(x)') /\ (\A u \in Users : UserDue(u)')
      BY DEF UsersInv
    <2>2. Live /\ y \in Pending
      BY <2>1 DEF Live
    <2>3. (\A x \in Pending : Due(x)) /\ (\A u \in Users : UserDue(u))
      BY <2>1, <2>2 DEF MirrorInv, UsersInv
    <2>4. (\A x \in N : Due(x)') /\ UserDue(w)'
      BY <2>3
    <2>5. ASSUME NEW x \in Pending
          PROVE  Due(x)'
      BY <2>3, <2>5 DEF Due
    <2>6. ASSUME NEW u \in Users, u # w
          PROVE  UserDue(u)'
      BY <2>3, <2>6, OthersDue
    <2> QED
      BY <2>4, <2>5, <2>6
  <1>4. HomesInv'
    <2>1. ASSUME NEW u \in Users, Home(u) \in Pending
          PROVE  Home(u) \in Pending'
      BY <1>1, <2>1 DEF Kept, Home, Precious
    <2> QED
      BY <2>1 DEF HomesInv, MirrorInv
  <1> QED
    BY <1>2, <1>3, <1>4 DEF MirrorInv

\* A row gets other groups.
LEMMA Regrouped ==
  ASSUME Tables, NEW u \in Users, user[u] # NoRow, NEW G \in SUBSET Groups,
         user' = [user EXCEPT ![u].groups = G]
  PROVE  /\ \A v \in Users : v # u => user'[v] = user[v]
         /\ user'[u] # NoRow /\ user'[u].active = user[u].active /\ user'[u].enabled = user[u].enabled
         /\ user'[u].groups = G
  <1> DEFINE Row == [enabled : BOOLEAN, active : BOOLEAN, groups : SUBSET Groups]
  <1>1. user[u] \in Row
    BY DEF Tables
  <1>2. user'[u] = [user[u] EXCEPT !.groups = G] /\ \A v \in Users : v # u => user'[v] = user[v]
    BY DEF Tables
  <1>3. /\ user'[u] \in Row /\ user'[u].active = user[u].active
        /\ user'[u].enabled = user[u].enabled /\ user'[u].groups = G
    BY <1>1, <1>2
  <1> QED
    BY <1>1, <1>2, <1>3, MembershipParameters

\* The steps of a user but the current one.
LEMMA Remainder ==
  ASSUME Kept, NEW u \in Users
  PROVE  /\ Cur("sync").op # "create_user" /\ [op |-> "create_user", u |-> u, groups |-> ad.of[u]] \in Pending
               => [op |-> "create_user", u |-> u, groups |-> ad.of[u]] \in Pending'
         /\ /\ Cur("sync").op \notin Leaving /\ user[u] # NoRow
            /\ \/ [op |-> "delete_user", u |-> u] \in Pending
               \/ [op |-> "drop_user", u |-> u] \in Pending
            => \/ [op |-> "delete_user", u |-> u] \in Pending'
               \/ [op |-> "drop_user", u |-> u] \in Pending'
         /\ \A y \in Pending : y.op \in {"compare", "remove_from_group", "add_to_group"} =>
               y \in Pending' \/ y = Cur("sync")
  BY DEF Kept, Precious, Leaving

\* A difference is no larger than it was, and its steps are still to come.
LEMMA DiffersKept ==
  ASSUME NEW u \in Users, NEW g \in Groups, Differs(u, g), UNCHANGED ad,
         g \in user'[u].groups => g \in user[u].groups \/ g \in ad.of[u],
         g \notin user'[u].groups => g \notin user[u].groups \/ g \notin ad.of[u],
         \A y \in Pending : y.op \in {"compare", "remove_from_group", "add_to_group"} =>
            y \in Pending' \/ (y.op # "compare" /\ y.g # g)
  PROVE  Differs(u, g)'
  <1>1. ASSUME g \in user'[u].groups, g \notin ad'.of[u]
        PROVE  \/ [op |-> "remove_from_group", u |-> u, g |-> g] \in Pending'
               \/ \E x \in Pending' : x.op = "compare" /\ x.u = u /\ g \in x.removed
    <2>1. g \in user[u].groups /\ g \notin ad.of[u]
      BY <1>1
    <2>2. \/ [op |-> "remove_from_group", u |-> u, g |-> g] \in Pending
          \/ \E x \in Pending : x.op = "compare" /\ x.u = u /\ g \in x.removed
      BY <2>1 DEF Differs
    <2> QED
      BY <2>2
  <1>2. ASSUME g \notin user'[u].groups, g \in ad'.of[u], u \notin ad'.renamed
        PROVE  \/ AddToGroup(u, g, FALSE) \in Pending'
               \/ \E x \in Pending' : x.op = "compare" /\ x.u = u /\ g \in x.added
    <2>1. g \notin user[u].groups /\ g \in ad.of[u] /\ u \notin ad.renamed
      BY <1>2
    <2>2. \/ AddToGroup(u, g, FALSE) \in Pending
          \/ \E x \in Pending : x.op = "compare" /\ x.u = u /\ g \in x.added
      BY <2>1 DEF Differs
    <2>3. AddToGroup(u, g, FALSE).op = "add_to_group" /\ AddToGroup(u, g, FALSE).g = g
      BY DEF AddToGroup
    <2> QED
      BY <2>2, <2>3
  <1> QED
    BY <1>1, <1>2 DEF Differs

\* The synchronisation adds a user to a group.
LEMMA JoinMirrors ==
  ASSUME TypesInv, MirrorInv, AddUsersToGroup("sync")
  PROVE  MirrorInv'
  <1> DEFINE c == Cur("sync")
             S == StepsOf("sync")
  <1>1. /\ "sync" \in Actors /\ todo["sync"] # <<>> /\ c \in S /\ c \in Steps
        /\ c.op = "add_to_group" /\ c \in Pending
    BY Current DEF AddUsersToGroup, TypesInv, Actors, Pending
  <1>2. PICK u \in Users, g \in Groups : u = c.u /\ g = c.g /\ c.bypass = FALSE
    BY <1>1, Fields DEF StepsOf
  <1> DEFINE Hindered == group[g] # "enabled" \/ user[u] = NoRow \/ ~user[u].enabled
  <1>4. UNCHANGED <<ad, homes, synced, faults>> /\ UNCHANGED <<group, project>>
    <2>1. CASE Hindered
      BY <1>2, <2>1 DEF AddUsersToGroup, directoryVars, tables
    <2>2. CASE ~Hindered
      BY <1>2, <2>2 DEF AddUsersToGroup, directoryVars
    <2> QED
      BY <2>1, <2>2
  <1>5. (Exists => Exists') /\ c.op \in Lossy /\ c.op \in UserPhase
    BY <1>1, <1>4 DEF Exists, Lossy, UserPhase
  <1>6. CASE Hindered
    <2>1. RaiseSoca("sync") /\ user' = user
      BY <1>2, <1>6 DEF AddUsersToGroup, tables
    <2>2. excuse' = excuse \cup (IF Creating("sync", u) THEN {"unhoused"} ELSE {})
      BY <1>2, <1>6 DEF AddUsersToGroup
    <2>3. /\ ShapeInv' /\ Pending' \subseteq Pending
          /\ \A y \in Pending : y.op \in Precious =>
                y = c \/ y \in Pending' \/ Home(u) \in Pending
      BY <1>1, <1>2, <1>5, <2>1, SyncRaises DEF TypesInv, MirrorInv
    <2>4. Home(u) \in Pending => Creating("sync", u)
      <3>1. todo["sync"] \in Seq(S)
        BY <1>1 DEF TypesInv, PlansInv
      <3>2. DOMAIN todo["sync"] = 1 .. Len(todo["sync"])
        BY <3>1
      <3> QED
        BY <3>2 DEF Pending, Elems, Home, Creating
    <2>5. excuse' = {} => Kept
      BY <2>2, <2>3, <2>4 DEF Kept
    <2> DEFINE none == {}
    <2>6. /\ \A x \in Pending' : x \in none \/ x \in Pending
          /\ \A x \in none : x.op \notin GroupPhase \cup {"synced", "compare"} /\ Due(x)'
      BY <2>3
    <2> HIDE DEF none
    <2>7. ASSUME excuse' = {}, UserDue(u)
          PROVE  UserDue(u)'
      <3>1. Kept
        BY <2>5, <2>7
      <3>2. ASSUME ad.of[u] # NoRow, user[u] # NoRow, user[u].enabled = TRUE, NEW h \in Groups,
                   group[h] = "enabled"
            PROVE  Differs(u, h)'
        <4>1. Differs(u, h) /\ h # g
          BY <1>6, <2>7, <3>2 DEF UserDue
        <4>2. \A y \in Pending : y.op \in {"compare", "remove_from_group", "add_to_group"} =>
                 y \in Pending' \/ y = c
          BY <1>2, <3>1, Remainder
        <4> QED
          BY <1>1, <1>2, <1>4, <2>1, <4>1, <4>2, DiffersKept
      <3> QED
        BY <1>1, <1>2, <1>4, <2>1, <2>7, <3>1, <3>2, Remainder DEF UserDue, Leaving
    <2> QED
      BY <1>1, <1>2, <1>4, <1>5, <2>1, <2>2, <2>3, <2>5, <2>6, <2>7, UserStep
  <1>7. CASE ~Hindered
    <2> DEFINE x == MemberAdded(g, u)
    <2>1. /\ user[u] # NoRow /\ user' = [user EXCEPT ![u].groups = user[u].groups \cup {g}]
          /\ excuse' = excuse /\ (Continue("sync", <<x>>) \/ Continue("sync", <<>>))
      <3>1. /\ user[u] # NoRow /\ user' = [user EXCEPT ![u].groups = @ \cup {g}]
            /\ excuse' = excuse /\ (Continue("sync", <<x>>) \/ Continue("sync", <<>>))
        BY <1>2, <1>7 DEF AddUsersToGroup, Done
      <3> QED
        BY <1>2, <3>1 DEF TypesInv, Tables
    <2>2. user[u].groups \cup {g} \in SUBSET Groups
      BY <1>2, <2>1 DEF TypesInv, Tables
    <2>3. /\ \A v \in Users : v # u => user'[v] = user[v]
          /\ user'[u] # NoRow /\ user'[u].enabled = user[u].enabled
          /\ user'[u].groups = user[u].groups \cup {g}
      <3>1. PICK G \in SUBSET Groups : G = user[u].groups \cup {g}
        BY <2>2
      <3>2. user' = [user EXCEPT ![u].groups = G] /\ Tables
        BY <2>1, <3>1 DEF TypesInv
      <3> QED
        BY <2>1, <3>1, <3>2, Regrouped
    <2>4. x \in S /\ x.op = "member_added"
      BY <1>2 DEF MemberAdded, StepsOf, Steps, MemberOps, SyncOps
    <2> HIDE DEF x
    <2>5. PICK s \in Seq(S) : /\ Continue("sync", s) /\ Apart(s) /\ Enclosed(s, c)
                              /\ \A y \in Elems(s) : y.op = "member_added"
      <3>1. <<x>> \in Seq(S) /\ Elems(<<x>>) = {x} /\ <<>> \in Seq(S) /\ Elems(<<>>) = {}
        BY <2>4, Singles
      <3>2. \A s \in {<<x>>, <<>>} : \A y \in Elems(s) : y.op = "member_added"
        BY <2>4, <3>1
      <3>3. \A s \in {<<x>>, <<>>} : Apart(s) /\ Enclosed(s, c)
        <4>1. ASSUME NEW s \in {<<x>>, <<>>}
              PROVE  s \in Seq(S) /\ \A y \in Elems(s) : y.op \notin Lossy /\ y.op \notin Precious
          BY <3>1, <3>2 DEF Lossy, Precious
        <4> QED
          BY <4>1, Blocks
      <3> QED
        BY <2>1, <3>1, <3>2, <3>3
    <2>6. /\ ShapeInv' /\ Kept
          /\ \A y \in Pending' : y \in Elems(s) \/ y \in Pending
      <3>1. \A y \in Elems(s) : y.op # "synced" /\ y.op \notin GroupPhase /\ y.op \notin Undoing
        BY <2>5 DEF GroupPhase, Undoing
      <3> QED
        BY <1>1, <1>5, <2>5, <3>1, SyncContinues DEF TypesInv, MirrorInv
    <2>7. \A y \in Elems(s) : y.op \notin GroupPhase \cup {"synced", "compare"} /\ Due(y)'
      BY <2>5 DEF GroupPhase, Due, Leaving
    <2>8. ASSUME Due(c), UserDue(u)
          PROVE  UserDue(u)'
      <3>1. ad.of[u] # NoRow /\ g \in ad.of[u]
        BY <1>1, <1>2, <2>8 DEF Due
      <3>2. ASSUME user[u].enabled = TRUE, NEW h \in Groups, group[h] = "enabled"
            PROVE  Differs(u, h)'
        <4>1. Differs(u, h)
          BY <2>1, <2>8, <3>1, <3>2 DEF UserDue
        <4>2. \A y \in Pending : y.op \in {"compare", "remove_from_group", "add_to_group"} =>
                 y \in Pending' \/ y = c
          BY <1>2, <2>6, Remainder
        <4>3. CASE h = g
          <5>1. h \in user'[u].groups /\ h \in ad'.of[u]
            BY <1>4, <2>3, <3>1, <4>3
          <5> QED
            BY <5>1 DEF Differs
        <4>4. CASE h # g
          BY <1>1, <1>2, <1>4, <2>3, <4>1, <4>2, <4>4, DiffersKept
        <4> QED
          BY <4>3, <4>4
      <3> QED
        BY <1>4, <2>3, <3>1, <3>2 DEF UserDue
    <2> QED
      BY <1>1, <1>2, <1>4, <1>5, <2>1, <2>3, <2>6, <2>7, <2>8, UserStep
  <1> QED
    BY <1>6, <1>7

\* The synchronisation goes on with one more step, or with none.
LEMMA SyncSteps ==
  ASSUME PlansInv, ShapeInv, todo["sync"] # <<>>, Exists => Exists'
  PROVE  /\ Done("sync") => ShapeInv' /\ Kept /\ Cur("sync") \in Pending /\ Pending' \subseteq Pending
         /\ \A x \in StepsOf("sync") :
               /\ Continue("sync", <<x>>)
               /\ x.op \in Lossy => Follows(x, Cur("sync"))
               /\ x.op \notin GroupPhase \cup {"synced", "compare"}
               /\ x.op \in Undoing => Exists
               => /\ ShapeInv' /\ Kept /\ Cur("sync") \in Pending
                  /\ \A y \in Pending' : y = x \/ y \in Pending
                  /\ x \in Pending' \/ x.op \in Ends
  <1>1. ASSUME Continue("sync", <<>>)
        PROVE  ShapeInv' /\ Kept /\ Cur("sync") \in Pending /\ Pending' \subseteq Pending
    <2> DEFINE s == <<>>
    <2>1. s \in Seq(StepsOf("sync")) /\ Elems(s) = {} /\ Len(s) = 0
      BY Singles
    <2>2. Continue("sync", s)
      BY <1>1
    <2> HIDE DEF s
    <2>3. Apart(s) /\ Enclosed(s, Cur("sync"))
      BY <2>1, Blocks
    <2>4. /\ ShapeInv' /\ Kept /\ Cur("sync") \in Pending
          /\ \A y \in Pending' : y \in Elems(s) \/ y \in Pending
      BY <2>1, <2>2, <2>3, SyncContinues
    <2> QED
      BY <2>1, <2>4
  <1>2. ASSUME NEW x \in StepsOf("sync"), Continue("sync", <<x>>),
               x.op \in Lossy => Follows(x, Cur("sync")), x.op \notin GroupPhase \cup {"synced", "compare"},
               x.op \in Undoing => Exists
        PROVE  /\ ShapeInv' /\ Kept /\ Cur("sync") \in Pending
               /\ \A y \in Pending' : y = x \/ y \in Pending
               /\ x \in Pending' \/ x.op \in Ends
    <2> DEFINE s == <<x>>
    <2>1. s \in Seq(StepsOf("sync")) /\ Elems(s) = {x} /\ Len(s) = 1
      BY Singles
    <2>2. Continue("sync", s)
      BY <1>2
    <2> HIDE DEF s
    <2>3. Apart(s) /\ Enclosed(s, Cur("sync"))
      BY <1>2, <2>1, Blocks
    <2>4. /\ ShapeInv' /\ Kept /\ Cur("sync") \in Pending
          /\ \A y \in Pending' : y \in Elems(s) \/ y \in Pending
          /\ \A y \in Elems(s) : y \in Pending' \/ y.op \in Ends
      BY <1>2, <2>1, <2>2, <2>3, SyncContinues
    <2> QED
      BY <2>1, <2>4
  <1> QED
    BY <1>1, <1>2 DEF Done

\* The synchronisation removes a user from a group.
LEMMA PartMirrors ==
  ASSUME TypesInv, MirrorInv, RemoveFromGroup("sync")
  PROVE  MirrorInv'
  <1> DEFINE c == Cur("sync")
             S == StepsOf("sync")
  <1>1. /\ "sync" \in Actors /\ todo["sync"] # <<>> /\ c \in S /\ c \in Steps
        /\ c.op = "remove_from_group" /\ c \in Pending
    BY Current DEF RemoveFromGroup, TypesInv, Actors, Pending
  <1>2. PICK u \in Users, g \in Groups : u = c.u /\ g = c.g
    BY <1>1, Fields DEF MemberOps
  <1>3. user[u] # NoRow
    BY <1>1, <1>2 DEF TypesInv, SyncInv, Needy, Pending
  <1>4. /\ UNCHANGED <<ad, homes, synced, faults>> /\ UNCHANGED <<group, project, excuse>>
        /\ RaiseSoca("sync") \/ Leave("sync", u, g)
        /\ \/ user' = user /\ ~(group[g] = "enabled" /\ user[u].enabled = TRUE)
           \/ user' = [user EXCEPT ![u].groups = @ \ {g}]
    BY <1>2 DEF RemoveFromGroup, directoryVars, tables, Leave
  <1>5. /\ \A v \in Users : v # u => user'[v] = user[v]
        /\ user'[u] # NoRow /\ user'[u].enabled = user[u].enabled
        /\ \A h \in Groups \ {g} : h \in user'[u].groups <=> h \in user[u].groups
        /\ group[g] = "enabled" /\ user[u].enabled = TRUE => g \notin user'[u].groups
    <2>1. CASE user' = user /\ ~(group[g] = "enabled" /\ user[u].enabled = TRUE)
      BY <1>3, <2>1
    <2>2. CASE user' = [user EXCEPT ![u].groups = @ \ {g}]
      <3>1. PICK G \in SUBSET Groups : G = user[u].groups \ {g}
        BY <1>3 DEF TypesInv, Tables
      <3>2. user' = [user EXCEPT ![u].groups = G] /\ Tables
        BY <2>2, <3>1 DEF TypesInv, Tables
      <3>3. /\ \A v \in Users : v # u => user'[v] = user[v]
            /\ user'[u] # NoRow /\ user'[u].enabled = user[u].enabled /\ user'[u].groups = G
        BY <1>3, <3>2, Regrouped
      <3> QED
        BY <3>1, <3>3
    <2> QED
      BY <1>4, <2>1, <2>2
  <1>6. (Exists => Exists') /\ c.op \in Lossy /\ c.op \in UserPhase
    BY <1>1, <1>4 DEF Exists, Lossy, UserPhase
  <1>7. /\ ShapeInv' /\ Kept
        /\ \A y \in Pending' : y = MemberRemoved(g, u) \/ y \in Pending
    <2>1. CASE RaiseSoca("sync")
      <3>1. /\ ShapeInv' /\ Pending' \subseteq Pending
            /\ \A y \in Pending : y.op \in Precious => y = c \/ y \in Pending'
        BY <1>1, <1>6, <2>1, SyncRaises DEF TypesInv, MirrorInv
      <3>2. Kept
        BY <3>1 DEF Kept
      <3> QED
        BY <3>1, <3>2
    <2>2. CASE Leave("sync", u, g)
      <3> DEFINE x == MemberRemoved(g, u)
      <3>1. x \in S /\ x.op = "member_removed"
        BY DEF MemberRemoved, StepsOf, Steps, MemberOps, SyncOps
      <3>2. Continue("sync", <<x>>)
        BY <2>2 DEF Leave
      <3> HIDE DEF x
      <3>3. /\ Follows(x, c) /\ x.op \notin GroupPhase \cup {"synced", "compare"} /\ x.op \notin Undoing
        BY <1>1, <3>1 DEF Follows, Lossy, GroupPhase, Undoing
      <3>4. /\ ShapeInv' /\ Kept /\ \A y \in Pending' : y = x \/ y \in Pending
        BY <1>1, <1>6, <3>1, <3>2, <3>3, SyncSteps DEF TypesInv, MirrorInv
      <3> QED
        BY <3>4 DEF x
    <2> QED
      BY <1>4, <2>1, <2>2
  <1> DEFINE N == {MemberRemoved(g, u)}
  <1>8. \A x \in Pending' : x \in N \/ x \in Pending
    BY <1>7
  <1>9. \A x \in N : x.op \notin GroupPhase \cup {"synced", "compare"} /\ Due(x)'
    BY DEF GroupPhase, Due, Leaving, MemberRemoved
  <1> HIDE DEF N
  <1>10. ASSUME Due(c), UserDue(u)
         PROVE  UserDue(u)'
    <2>1. ad.of[u] # NoRow /\ (group[g] # "none" => g \notin ad.of[u])
      BY <1>1, <1>2, <1>10 DEF Due
    <2>2. ASSUME user[u].enabled = TRUE, NEW h \in Groups, group[h] = "enabled"
          PROVE  Differs(u, h)'
      <3>1. Differs(u, h)
        BY <1>3, <1>10, <2>1, <2>2 DEF UserDue
      <3>2. \A y \in Pending : y.op \in {"compare", "remove_from_group", "add_to_group"} =>
               y \in Pending' \/ y = c
        BY <1>2, <1>7, Remainder
      <3>3. CASE h = g
        <4>1. h \notin user'[u].groups /\ h \notin ad'.of[u]
          BY <1>4, <1>5, <2>1, <2>2, <3>3
        <4> QED
          BY <4>1 DEF Differs
      <3>4. CASE h # g
        BY <1>1, <1>2, <1>4, <1>5, <3>1, <3>2, <3>4, DiffersKept
      <3> QED
        BY <3>3, <3>4
    <2> QED
      BY <1>4, <1>5, <2>1, <2>2 DEF UserDue
  <1> QED
    BY <1>1, <1>2, <1>3, <1>4, <1>5, <1>6, <1>7, <1>8, <1>9, <1>10, UserStep

\* The synchronisation takes a member of a deleted group out of it.
LEMMA ForceMirrors ==
  ASSUME TypesInv, MirrorInv, ForceRemove("sync")
  PROVE  MirrorInv'
  <1> DEFINE c == Cur("sync")
             S == StepsOf("sync")
  <1>1. /\ "sync" \in Actors /\ todo["sync"] # <<>> /\ c \in S /\ c \in Steps
        /\ c.op = "force_remove" /\ c \in Pending
    BY Current DEF ForceRemove, TypesInv, Actors, Pending
  <1>2. PICK u \in Users, g \in Groups : u = c.u /\ g = c.g
    BY <1>1, Fields DEF MemberOps
  <1>3. /\ UNCHANGED <<ad, homes, synced, faults>> /\ UNCHANGED <<group, project, excuse>>
        /\ \/ Done("sync") /\ user' = user
           \/ user[u] # NoRow /\ Leave("sync", u, g)
    BY <1>2 DEF ForceRemove, directoryVars, tables, Leave
  <1>4. \A v \in Users : user'[v] # NoRow => user[v] # NoRow
    <2>1. CASE user' = user
      BY <2>1
    <2>2. CASE user[u] # NoRow /\ Leave("sync", u, g)
      <3>1. \A v \in Users : v # u => user'[v] = user[v]
        BY <2>2 DEF Leave, TypesInv, Tables
      <3> QED
        BY <2>2, <3>1
    <2> QED
      BY <1>3, <2>1, <2>2
  <1>5. (Exists => Exists') /\ c.op \in Lossy
    BY <1>1, <1>3 DEF Exists, Lossy
  <1>6. /\ ShapeInv' /\ Kept
        /\ \A y \in Pending' : y = MemberRemoved(g, u) \/ y \in Pending
    <2>1. CASE Done("sync")
      <3>1. ShapeInv' /\ Kept /\ Pending' \subseteq Pending
        BY <1>1, <1>5, <2>1, SyncSteps DEF TypesInv, MirrorInv
      <3> QED
        BY <3>1
    <2>2. CASE Leave("sync", u, g)
      <3> DEFINE x == MemberRemoved(g, u)
      <3>1. x \in S /\ x.op = "member_removed"
        BY DEF MemberRemoved, StepsOf, Steps, MemberOps, SyncOps
      <3>2. Continue("sync", <<x>>)
        BY <2>2 DEF Leave
      <3> HIDE DEF x
      <3>3. /\ Follows(x, c) /\ x.op \notin GroupPhase \cup {"synced", "compare"} /\ x.op \notin Undoing
        BY <1>1, <3>1 DEF Follows, Lossy, GroupPhase, Undoing
      <3>4. /\ ShapeInv' /\ Kept /\ \A y \in Pending' : y = x \/ y \in Pending
        BY <1>1, <1>5, <3>1, <3>2, <3>3, SyncSteps DEF TypesInv, MirrorInv
      <3> QED
        BY <3>4 DEF x
    <2> QED
      BY <1>3, <2>1, <2>2
  <1> DEFINE N == {MemberRemoved(g, u)}
  <1>7. \A x \in Pending' : x \in N \/ x \in Pending
    BY <1>6
  <1>8. \A x \in N : x.op = "member_removed"
    BY DEF MemberRemoved
  <1> HIDE DEF N
  <1>9. GroupsInv'
    BY <1>1, <1>3, <1>6, <1>7, <1>8, GroupsKept DEF MirrorInv
  <1>10. UsersInv'
    BY <1>1, <1>7, <1>8, UsersVoid DEF MirrorInv, GroupPhase
  <1>11. HomesInv'
    BY <1>1, <1>3, <1>4, <1>6, HomesKept DEF MirrorInv
  <1> QED
    BY <1>6, <1>9, <1>10, <1>11 DEF MirrorInv

\* The home directory of a new user is requested.
LEMMA HomeMirrors ==
  ASSUME TypesInv, MirrorInv, RequestHome("sync")
  PROVE  MirrorInv'
  <1> DEFINE c == Cur("sync")
  <1>1. /\ "sync" \in Actors /\ todo["sync"] # <<>> /\ c.op = "request_home"
    BY Current DEF RequestHome, TypesInv, Actors
  <1>2. /\ homes' = homes \cup {c.u} /\ Done("sync") /\ UNCHANGED <<ad, synced, faults>>
        /\ UNCHANGED <<user, group, project, excuse>>
    BY DEF RequestHome, tables
  <1>3. ShapeInv' /\ Kept /\ Pending' \subseteq Pending
    BY <1>1, <1>2, SyncSteps DEF TypesInv, MirrorInv, Exists
  <1> DEFINE N == {}
  <1>4. /\ \A x \in Pending' : x \in N \/ x \in Pending
        /\ \A x \in N : x.op \notin {"create_group", "delete_group", "drop_group", "sync_users", "synced"}
        /\ \A x \in N : x.op \notin UserPhase \cup {"synced"}
    BY <1>3
  <1> HIDE DEF N
  <1>5. GroupsInv'
    BY <1>1, <1>2, <1>3, <1>4, GroupsKept DEF MirrorInv
  <1>6. UsersInv'
    BY <1>1, <1>2, <1>3, <1>4, UsersKept DEF MirrorInv, UserPhase
  <1>7. HomesInv'
    <2>1. ASSUME NEW u \in Users, Home(u) \in Pending
          PROVE  u \in homes' \/ Home(u) \in Pending'
      BY <1>2, <1>3, <2>1 DEF Kept, Home, Precious
    <2> QED
      BY <1>2, <2>1 DEF MirrorInv, HomesInv
  <1> QED
    BY <1>3, <1>5, <1>6, <1>7 DEF MirrorInv

\* The synchronisation creates a user.
LEMMA CreateMirrors ==
  ASSUME TypesInv, MirrorInv, CreateUser("sync")
  PROVE  MirrorInv'
  <1> DEFINE c == Cur("sync")
             S == StepsOf("sync")
  <1>1. /\ "sync" \in Actors /\ todo["sync"] # <<>> /\ c \in S /\ c \in Steps
        /\ c.op = "create_user" /\ c \in Pending
    BY Current DEF CreateUser, TypesInv, Actors, Pending
  <1>2. PICK u \in Users, G \in SUBSET Groups : u = c.u /\ G = c.groups
    BY <1>1, Fields
  <1> DEFINE row == [enabled |-> TRUE, active |-> FALSE, groups |-> G]
             f == [g \in G |-> AddToGroup(u, g, FALSE)]
             p == ForEach(f)
             s == p \o <<Home(u)>>
             Expected == ad.of[u] # NoRow /\ u \notin ad.renamed
  <1>3. /\ UNCHANGED <<ad, homes, synced>> /\ UNCHANGED <<group, project, excuse>>
        /\ faults' = 0 => faults = 0
        /\ \/ RaiseSoca("sync") /\ user' = user /\ (Expected /\ faults' = 0 => user[u] # NoRow)
           \/ /\ user' = [user EXCEPT ![u] = row] /\ Continue("sync", s)
              /\ ad.of[u] # NoRow /\ user[u] = NoRow
    <2>1. faults \in Nat /\ faults + 1 # 0
      BY AccessParameters DEF TypesInv, Others
    <2> QED
      BY <1>2, <2>1 DEF CreateUser, tables, Home
  <1>4. (Exists => Exists') /\ c.op \in Lossy /\ c.op \in UserPhase
    BY <1>1, <1>3 DEF Exists, Lossy, UserPhase
  <1>5. CASE RaiseSoca("sync") /\ user' = user /\ (Expected /\ faults' = 0 => user[u] # NoRow)
    <2>1. /\ ShapeInv' /\ Pending' \subseteq Pending
          /\ \A y \in Pending : y.op \in Precious => y = c \/ y \in Pending'
      BY <1>1, <1>4, <1>5, SyncRaises DEF TypesInv, MirrorInv
    <2>2. Kept
      BY <2>1 DEF Kept
    <2> DEFINE none == {}
    <2>3. /\ \A x \in Pending' : x \in none \/ x \in Pending
          /\ \A x \in none : x.op \notin GroupPhase \cup {"synced", "compare"} /\ Due(x)'
      BY <2>1
    <2> HIDE DEF none
    <2>4. ASSUME UserDue(u)
          PROVE  UserDue(u)'
      <3>1. ASSUME ad.of[u] # NoRow, user[u] # NoRow, user[u].enabled = TRUE, NEW h \in Groups,
                   group[h] = "enabled"
            PROVE  Differs(u, h)'
        <4>1. Differs(u, h)
          BY <2>4, <3>1 DEF UserDue
        <4>2. \A y \in Pending : y.op \in {"compare", "remove_from_group", "add_to_group"} => y \in Pending'
          BY <1>1, <2>2, Remainder
        <4> QED
          BY <1>3, <1>5, <4>1, <4>2, DiffersKept
      <3> QED
        BY <1>1, <1>3, <1>5, <2>2, <2>4, <3>1, Remainder DEF UserDue, Leaving
    <2> QED
      BY <1>1, <1>2, <1>3, <1>4, <1>5, <2>1, <2>2, <2>3, <2>4, UserStep
  <1>6. CASE /\ user' = [user EXCEPT ![u] = row] /\ Continue("sync", s)
             /\ ad.of[u] # NoRow /\ user[u] = NoRow
    <2>1. /\ f \in [G -> S] /\ (\A g \in G : f[g].op = "add_to_group" /\ f[g].u = u /\ f[g].g = g)
          /\ Home(u) \in S /\ Home(u).op = "request_home"
      BY DEF AddToGroup, StepsOf, Steps, SyncOps, UserOps, Home
    <2>2. /\ user'[u] = row /\ row # NoRow /\ row.groups = G
          /\ \A v \in Users : v # u => user'[v] = user[v]
      BY <1>6, MembershipParameters DEF TypesInv, Tables
    <2>3. p = ForEach(f) /\ s = p \o <<Home(u)>>
      OBVIOUS
    <2> HIDE DEF row, f, p, s
    <2>4. p \in Seq(S) /\ \A x \in Elems(p) : x.op = "add_to_group" /\ x.u = u /\ x.g \in G
      <3>0. G \in (SUBSET Users) \cup (SUBSET Groups) /\ f \in [G -> S] /\ p = ForEach(f)
        BY <2>1, <2>3
      <3>1. p \in Seq(S) /\ \A x \in Elems(p) : \E g \in G : x = f[g]
        BY <3>0, Fan
      <3> QED
        BY <2>1, <3>1
    <2>5. s \in Seq(S) /\ Elems(s) = Elems(p) \cup {Home(u)}
      <3> DEFINE l == <<Home(u)>>
      <3>1. l \in Seq(S) /\ Elems(l) = {Home(u)} /\ s = p \o l
        BY <2>1, <2>3, Singles
      <3> HIDE DEF l
      <3> QED
        BY <2>4, <3>1, ElemsOf
    <2>6. Apart(s)
      <3>1. \A x \in Elems(p) : x.op = "add_to_group" /\ Home(x.u) = Home(u)
        BY <2>4
      <3> QED
        BY <2>1, <2>3, <2>4, <3>1, ApartLast
    <2>7. Enclosed(s, c)
      <3>1. \A x \in Elems(s) : x.op \in Lossy => Follows(x, c)
        BY <1>1, <1>4 DEF Follows
      <3> QED
        BY <2>5, <3>1, Blocks
    <2>8. \A x \in Elems(s) : x.op \notin GroupPhase \cup {"synced", "compare"} /\ x.op \notin Undoing
      BY <2>1, <2>4, <2>5 DEF GroupPhase, Undoing
    <2>9. /\ ShapeInv' /\ Kept
          /\ \A x \in Pending' : x \in Elems(s) \/ x \in Pending
          /\ \A x \in Elems(s) : x \in Pending' \/ x.op \in Ends
      BY <1>1, <1>4, <1>6, <2>5, <2>6, <2>7, <2>8, SyncContinues DEF TypesInv, MirrorInv
    <2>10. Home(u) \in Pending'
      BY <2>1, <2>5, <2>9 DEF Ends
    <2>11. ASSUME Due(c), UserDue(u)
           PROVE  (\A x \in Elems(s) : Due(x)') /\ UserDue(u)'
      <3>1. ad.of[u] # NoRow /\ G = ad.of[u]
        BY <1>1, <1>2, <2>11 DEF Due
      <3>2. \A x \in Elems(s) : Due(x)'
        BY <1>3, <2>1, <2>4, <2>5, <3>1 DEF Due, Leaving
      <3>3. UserDue(u)'
        BY <1>3, <2>2, <3>1 DEF UserDue, Differs
      <3> QED
        BY <3>2, <3>3
    <2> QED
      BY <1>1, <1>2, <1>3, <1>4, <2>2, <2>8, <2>9, <2>10, <2>11, UserStep
  <1> QED
    BY <1>3, <1>5, <1>6

\* The synchronisation deletes a user.
LEMMA DeleteMirrors ==
  ASSUME TypesInv, MirrorInv, DeleteUser("sync")
  PROVE  MirrorInv'
  <1> DEFINE c == Cur("sync")
             S == StepsOf("sync")
  <1>1. /\ "sync" \in Actors /\ todo["sync"] # <<>> /\ c \in S /\ c \in Steps
        /\ c.op = "delete_user" /\ c \in Pending
    BY Current DEF DeleteUser, TypesInv, Actors, Pending
  <1>2. PICK u \in Users : u = c.u
    BY <1>1, Fields DEF UserOps
  <1> DEFINE row == user[u]
             left == {g \in row.groups : group[g] = "enabled"}
             crossed == left \cup {g \in row.groups : group[g] = "none" /\ ~row.active}
             f == [g \in row.groups |-> MemberRemoved(g, u)]
             x == [op |-> "drop_user", u |-> u]
             p == ForEach(f)
             s == p \o <<x>>
  <1>3. /\ UNCHANGED <<ad, homes, synced, faults>> /\ UNCHANGED <<group, project, excuse>>
        /\ \/ row = NoRow /\ Done("sync") /\ user' = user
           \/ /\ row # NoRow /\ user' = [user EXCEPT ![u].groups = @ \ crossed]
              /\ Continue("sync", s)
           \/ row # NoRow /\ Continue("sync", <<x>>) /\ user' = user
    BY <1>2 DEF DeleteUser, directoryVars
  <1>4. (Exists => Exists') /\ c.op \in Lossy /\ c.op \in UserPhase
    BY <1>1, <1>3 DEF Exists, Lossy, UserPhase
  <1>5. CASE row = NoRow /\ Done("sync") /\ user' = user
    <2>1. ShapeInv' /\ Kept /\ Pending' \subseteq Pending
      BY <1>1, <1>4, <1>5, SyncSteps DEF TypesInv, MirrorInv
    <2> DEFINE none == {}
    <2>2. /\ \A y \in Pending' : y \in none \/ y \in Pending
          /\ \A y \in none : y.op \notin GroupPhase \cup {"synced", "compare"} /\ Due(y)'
      BY <2>1
    <2> HIDE DEF none
    <2>3. Due(c) => UserDue(u)'
      BY <1>1, <1>2, <1>3, <1>5 DEF Due, Leaving, UserDue
    <2> QED
      BY <1>1, <1>2, <1>3, <1>4, <1>5, <2>1, <2>2, <2>3, UserStep
  <1>6. x \in S /\ x.op = "drop_user" /\ x.u = u
    BY DEF StepsOf, Steps, SyncOps, UserOps
  <1>7. ASSUME row # NoRow, NEW r \in Seq(S), Continue("sync", r), Apart(r),
               x \in Elems(r), \A y \in Elems(r) : y = x \/ y.op = "member_removed",
               user'[u] # NoRow, \A v \in Users : v # u => user'[v] = user[v]
        PROVE  MirrorInv'
    <2> HIDE DEF x, row
    <2>1. \A y \in Elems(r) : y.op \notin GroupPhase \cup {"synced", "compare"} /\ y.op \notin Undoing
      BY <1>6, <1>7 DEF GroupPhase, Undoing
    <2>2. Enclosed(r, c)
      <3>1. \A y \in Elems(r) : y.op \in Lossy => Follows(y, c)
        BY <1>1, <1>4 DEF Follows
      <3> QED
        BY <1>7, <3>1, Blocks
    <2>3. /\ ShapeInv' /\ Kept
          /\ \A y \in Pending' : y \in Elems(r) \/ y \in Pending
          /\ \A y \in Elems(r) : y \in Pending' \/ y.op \in Ends
      BY <1>1, <1>4, <1>7, <2>1, <2>2, SyncContinues DEF TypesInv, MirrorInv
    <2>4. [op |-> "drop_user", u |-> u] \in Pending'
      BY <1>6, <1>7, <2>3 DEF Ends, x
    <2>5. ASSUME Due(c)
          PROVE  (\A y \in Elems(r) : Due(y)') /\ UserDue(u)'
      <3>1. ad.of[u] = NoRow
        BY <1>1, <1>2, <2>5 DEF Due, Leaving
      <3>2. ASSUME NEW y \in Elems(r)
            PROVE  Due(y)'
        <4>1. (y.op = "drop_user" /\ y.u = u) \/ y.op = "member_removed"
          BY <1>6, <1>7
        <4> QED
          BY <1>3, <3>1, <4>1 DEF Due, Leaving
      <3>3. UserDue(u)'
        BY <1>3, <2>4, <3>1 DEF UserDue
      <3> QED
        BY <3>2, <3>3
    <2> QED
      BY <1>1, <1>2, <1>3, <1>4, <1>7, <2>1, <2>3, <2>5, UserStep DEF row
  <1>8. CASE row # NoRow /\ Continue("sync", <<x>>) /\ user' = user
    <2> HIDE DEF x
    <2> DEFINE r == <<x>>
    <2>1. r \in Seq(S) /\ Elems(r) = {x} /\ Len(r) = 1 /\ Continue("sync", r)
      BY <1>6, <1>8, Singles
    <2> HIDE DEF r
    <2>2. Apart(r)
      BY <2>1, Blocks
    <2> QED
      BY <1>7, <1>8, <2>1, <2>2
  <1>9. CASE /\ row # NoRow /\ user' = [user EXCEPT ![u].groups = @ \ crossed]
             /\ Continue("sync", s)
    <2>1. /\ row.groups \in SUBSET Groups /\ f \in [row.groups -> S]
          /\ \A g \in row.groups : f[g].op = "member_removed" /\ f[g].u = u
      BY <1>9 DEF TypesInv, Tables, MemberRemoved, StepsOf, Steps, SyncOps, MemberOps
    <2>2. user'[u] # NoRow /\ \A v \in Users : v # u => user'[v] = user[v]
      <3>1. PICK G \in SUBSET Groups : G = user[u].groups \ crossed
        BY <2>1
      <3>2. user' = [user EXCEPT ![u].groups = G] /\ Tables
        BY <1>9, <3>1 DEF TypesInv, Tables
      <3> QED
        BY <1>9, <3>2, Regrouped
    <2>3. p = ForEach(f) /\ s = p \o <<x>> /\ Continue("sync", s)
      BY <1>9
    <2> HIDE DEF f, x, p, s
    <2>4. p \in Seq(S) /\ \A y \in Elems(p) : y.op = "member_removed" /\ y.u = u
      <3> DEFINE D == row.groups
      <3>1. /\ D \subseteq Groups /\ f \in [D -> S] /\ p = ForEach(f)
            /\ \A g \in D : f[g].op = "member_removed" /\ f[g].u = u
        BY <2>1, <2>3
      <3> HIDE DEF D
      <3>2. p \in Seq(S) /\ \A y \in Elems(p) : \E g \in D : y = f[g]
        BY <3>1, Fan
      <3> QED
        BY <3>1, <3>2
    <2>5. s \in Seq(S) /\ Elems(s) = Elems(p) \cup {x}
      <3> DEFINE l == <<x>>
      <3>1. l \in Seq(S) /\ Elems(l) = {x} /\ s = p \o l
        BY <1>6, <2>3, Singles
      <3> HIDE DEF l
      <3> QED
        BY <2>4, <3>1, ElemsOf
    <2>6. Apart(s)
      BY <1>6, <2>3, <2>4, ApartLast
    <2> QED
      BY <1>7, <1>9, <2>2, <2>3, <2>4, <2>5, <2>6
  <1> QED
    BY <1>3, <1>5, <1>8, <1>9

\* The synchronisation drops a user's row.
LEMMA DropMirrors ==
  ASSUME TypesInv, MirrorInv, DropUser("sync")
  PROVE  MirrorInv'
  <1> DEFINE c == Cur("sync")
  <1>1. /\ "sync" \in Actors /\ todo["sync"] # <<>> /\ c \in Steps
        /\ c.op = "drop_user" /\ c \in Pending
    BY Current DEF DropUser, TypesInv, Actors, Pending
  <1>2. PICK u \in Users : u = c.u
    BY <1>1, Fields DEF UserOps
  <1>3. /\ UNCHANGED <<ad, homes, synced, faults>> /\ UNCHANGED <<group, project>>
        /\ user' = [user EXCEPT ![u] = NoRow] /\ excuse \subseteq excuse' /\ Done("sync")
    BY <1>2 DEF DropUser, directoryVars
  <1>4. user'[u] = NoRow /\ \A v \in Users : v # u => user'[v] = user[v]
    BY <1>3 DEF TypesInv, Tables
  <1>5. ShapeInv' /\ Kept /\ Pending' \subseteq Pending
    BY <1>1, <1>3, SyncSteps DEF TypesInv, MirrorInv, Exists
  <1> DEFINE none == {}
  <1>6. /\ \A y \in Pending' : y \in none \/ y \in Pending
        /\ \A y \in none : y.op \notin GroupPhase \cup {"synced", "compare"} /\ Due(y)'
    BY <1>5
  <1> HIDE DEF none
  <1>7. Due(c) => UserDue(u)'
    BY <1>1, <1>2, <1>3, <1>4 DEF Due, Leaving, UserDue
  <1> QED
    BY <1>1, <1>2, <1>3, <1>4, <1>5, <1>6, <1>7, UserStep DEF UserPhase

\* The synchronisation creates a group.
LEMMA CreateGroupMirrors ==
  ASSUME TypesInv, MirrorInv, CreateGroup("sync")
  PROVE  MirrorInv'
  <1> DEFINE c == Cur("sync")
  <1>1. /\ "sync" \in Actors /\ todo["sync"] # <<>> /\ c \in Steps
        /\ c.op = "create_group" /\ c \in Pending
    BY Current DEF CreateGroup, TypesInv, Actors, Pending
  <1>2. PICK g \in Groups : g = c.g
    BY <1>1, Fields DEF GroupOps
  <1>3. /\ UNCHANGED <<user, project, excuse, ad, homes, synced>>
        /\ \/ /\ g \in ad.groups /\ group' = [group EXCEPT ![g] = "enabled"]
              /\ Done("sync") /\ faults' = faults
           \/ /\ RaiseSoca("sync") /\ group' = group
              /\ faults' = faults + 1 \/ (g \notin ad.groups /\ faults' = faults)
    BY <1>2 DEF CreateGroup
  <1>4. /\ ShapeInv' /\ Kept /\ Pending' \subseteq Pending
    <2>1. c.op \in Lossy /\ (Exists => Exists')
      BY <1>1, <1>3 DEF Lossy, Exists
    <2>2. CASE Done("sync")
      BY <1>1, <2>1, <2>2, SyncSteps DEF TypesInv, MirrorInv
    <2>3. CASE RaiseSoca("sync")
      <3>1. /\ ShapeInv' /\ Pending' \subseteq Pending
            /\ \A y \in Pending : y.op \in Precious => y = c \/ y \in Pending'
        BY <1>1, <2>1, <2>3, SyncRaises DEF TypesInv, MirrorInv
      <3> QED
        BY <3>1 DEF Kept
    <2> QED
      BY <1>3, <2>2, <2>3
  <1>5. GroupsInv'
    <2>1. SUFFICES ASSUME Live', NEW y \in Pending', y.op \in {"sync_users", "synced"}
                   PROVE  GroupsDue'
      BY DEF GroupsInv
    <2>2. GroupsDue
      BY <1>3, <1>4, <2>1 DEF MirrorInv, GroupsInv, Live
    <2>3. g \in ad.groups
      BY <1>1, <1>2, <2>2 DEF GroupsDue
    <2>4. \A x \in Pending' :
             /\ x.op = "create_group" => x.g \in ad'.groups
             /\ x.op \in {"delete_group", "drop_group"} => x.g \notin ad'.groups
             /\ x.op = "sync_users" => x.groups = ad'.groups
      BY <1>3, <1>4, <2>2 DEF GroupsDue
    <2>5. ASSUME faults' = 0, NEW h \in Groups
          PROVE  /\ h \in ad'.groups /\ group'[h] = "none" =>
                       [op |-> "create_group", g |-> h] \in Pending'
                 /\ h \notin ad'.groups /\ group'[h] # "none" =>
                       \/ [op |-> "delete_group", g |-> h] \in Pending'
                       \/ [op |-> "drop_group", g |-> h] \in Pending'
      <3>0. faults \in Nat /\ faults + 1 # faults /\ faults + 1 # 0
        BY AccessParameters DEF TypesInv, Others
      <3>1. faults' = faults
        BY <1>3, <2>5, <3>0
      <3>2. group' = [group EXCEPT ![g] = "enabled"]
        BY <1>3, <2>3, <3>0, <3>1
      <3>3. group'[g] = "enabled" /\ (h # g => group'[h] = group[h])
        BY <3>2 DEF TypesInv, Tables
      <3>4. \A op \in {"create_group", "delete_group", "drop_group"} :
               h # g /\ [op |-> op, g |-> h] \in Pending => [op |-> op, g |-> h] \in Pending'
        BY <1>2, <1>4 DEF Kept, Precious
      <3> QED
        BY <1>3, <2>2, <2>3, <2>5, <3>1, <3>3, <3>4 DEF GroupsDue
    <2> QED
      BY <2>4, <2>5 DEF GroupsDue
  <1> DEFINE none == {}
  <1>6. (\A x \in Pending' : x \in none \/ x \in Pending) /\ (\A x \in none : x.op # "synced")
    BY <1>4
  <1> HIDE DEF none
  <1>7. UsersInv'
    BY <1>1, <1>6, UsersVoid DEF MirrorInv, GroupPhase
  <1>8. HomesInv'
    BY <1>1, <1>3, <1>4, HomesKept DEF MirrorInv
  <1> QED
    BY <1>4, <1>5, <1>7, <1>8 DEF MirrorInv

\* The synchronisation drops a group's row.
LEMMA DropGroupMirrors ==
  ASSUME TypesInv, MirrorInv, DropGroup("sync")
  PROVE  MirrorInv'
  <1> DEFINE c == Cur("sync")
  <1>1. /\ "sync" \in Actors /\ todo["sync"] # <<>> /\ c \in Steps
        /\ c.op = "drop_group" /\ c \in Pending
    BY Current DEF DropGroup, TypesInv, Actors, Pending
  <1>2. PICK g \in Groups : g = c.g
    BY <1>1, Fields DEF GroupOps
  <1>3. /\ UNCHANGED <<user, project, excuse, ad, homes, synced, faults>>
        /\ group' = [group EXCEPT ![g] = "none"] /\ Done("sync")
    BY <1>2 DEF DropGroup, directoryVars
  <1>4. ShapeInv' /\ Kept /\ Pending' \subseteq Pending
    BY <1>1, <1>3, SyncSteps DEF TypesInv, MirrorInv, Exists
  <1>5. GroupsInv'
    <2>1. SUFFICES ASSUME Live', NEW y \in Pending', y.op \in {"sync_users", "synced"}
                   PROVE  GroupsDue'
      BY DEF GroupsInv
    <2>2. GroupsDue
      BY <1>3, <1>4, <2>1 DEF MirrorInv, GroupsInv, Live
    <2>3. g \notin ad.groups
      BY <1>1, <1>2, <2>2 DEF GroupsDue
    <2>4. \A x \in Pending' :
             /\ x.op = "create_group" => x.g \in ad'.groups
             /\ x.op \in {"delete_group", "drop_group"} => x.g \notin ad'.groups
             /\ x.op = "sync_users" => x.groups = ad'.groups
      BY <1>3, <1>4, <2>2 DEF GroupsDue
    <2>5. ASSUME faults' = 0, NEW h \in Groups
          PROVE  /\ h \in ad'.groups /\ group'[h] = "none" =>
                       [op |-> "create_group", g |-> h] \in Pending'
                 /\ h \notin ad'.groups /\ group'[h] # "none" =>
                       \/ [op |-> "delete_group", g |-> h] \in Pending'
                       \/ [op |-> "drop_group", g |-> h] \in Pending'
      <3>1. group'[g] = "none" /\ (h # g => group'[h] = group[h])
        BY <1>3 DEF TypesInv, Tables
      <3>2. \A op \in {"create_group", "delete_group", "drop_group"} :
               h # g /\ [op |-> op, g |-> h] \in Pending => [op |-> op, g |-> h] \in Pending'
        BY <1>2, <1>4 DEF Kept, Precious
      <3> QED
        BY <1>3, <2>2, <2>3, <2>5, <3>1, <3>2 DEF GroupsDue
    <2> QED
      BY <2>4, <2>5 DEF GroupsDue
  <1> DEFINE none == {}
  <1>6. (\A x \in Pending' : x \in none \/ x \in Pending) /\ (\A x \in none : x.op # "synced")
    BY <1>4
  <1> HIDE DEF none
  <1>7. UsersInv'
    BY <1>1, <1>6, UsersVoid DEF MirrorInv, GroupPhase
  <1>8. HomesInv'
    BY <1>1, <1>3, <1>4, HomesKept DEF MirrorInv
  <1> QED
    BY <1>4, <1>5, <1>7, <1>8 DEF MirrorInv

\* The plan of delete_group, the first part of which is joined to the rest.
LEMMA DeletionPlan ==
  ASSUME NEW S, NEW p \in Seq(S), NEW e \in S, NEW x \in S, NEW y \in S
  PROVE  p \o <<e>> \o <<x>> \o <<e>> \o <<y>> = p \o (<<e>> \o <<x>> \o <<e>> \o <<y>>)
  <1>1. \A k, l, m \in Seq(S) : (k \o l) \o m = k \o (l \o m)
    OBVIOUS
  <1> DEFINE C == <<e>>
             X == <<x>>
             Y == <<y>>
  <1>2. C \in Seq(S) /\ X \in Seq(S) /\ Y \in Seq(S)
    BY Singles
  <1> HIDE DEF C, X, Y
  <1> DEFINE V == C \o X
             W == V \o C
  <1>3. V \in Seq(S) /\ W \in Seq(S) /\ V = C \o X /\ W = V \o C
    BY <1>2
  <1> HIDE DEF V, W
  <1>4. (p \o C) \o X = p \o (C \o X)
    BY <1>1, <1>2, Zenon
  <1>5. V \in Seq(S) /\ W \in Seq(S)
    BY <1>3
  <1>6. (p \o V) \o C = p \o (V \o C)
    BY <1>1, <1>2, <1>5, Zenon
  <1>7. (p \o W) \o Y = p \o (W \o Y)
    BY <1>1, <1>2, <1>5, Zenon
  <1> QED
    BY <1>3, <1>4, <1>6, <1>7 DEF C, X, Y

\* The synchronisation begins to delete a group.
LEMMA DeleteGroupMirrors ==
  ASSUME TypesInv, MirrorInv, DeleteGroup("sync")
  PROVE  MirrorInv'
  <1> DEFINE c == Cur("sync")
             S == StepsOf("sync")
             e == [op |-> "catch"]
  <1>1. /\ "sync" \in Actors /\ todo["sync"] # <<>> /\ c \in Steps
        /\ c.op = "delete_group" /\ c \in Pending
    BY Current DEF DeleteGroup, TypesInv, Actors, Pending
  <1>2. PICK g \in Groups : g = c.g
    BY <1>1, Fields DEF GroupOps
  <1> DEFINE D == members[g]
             f == [u \in D |-> [op |-> "force_remove", u |-> u, g |-> g]]
             x == [op |-> "remove_project", g |-> g]
             y == [op |-> "drop_group", g |-> g]
             p == ForEach(f)
             q == <<e>> \o <<x>> \o <<e>> \o <<y>>
             s == p \o q
  <1>3. UNCHANGED <<tables, excuse>> /\ UNCHANGED directoryVars
    BY DEF DeleteGroup
  <1>4. Continue("sync", p \o Catch \o <<x>> \o Catch \o <<y>>)
    BY <1>2 DEF DeleteGroup
  <1>5. /\ D \subseteq Users /\ f \in [D -> S] /\ (\A u \in D : f[u].op = "force_remove")
        /\ e \in S /\ x \in S /\ y \in S
    BY <1>2
       DEF TypesInv, Tables, StepsOf, Steps, SyncOps, MemberOps, GroupOps, PlainOps, Ends
  <1>6. p = ForEach(f) /\ s = p \o q /\ e.op = "catch" /\ x.op = "remove_project" /\ y.op = "drop_group"
    OBVIOUS
  <1>7. [op |-> "drop_group", g |-> g] = y /\ y.g = g
    OBVIOUS
  <1> HIDE DEF D, f, e, x, y, p, s, q
  <1>8. p \in Seq(S) /\ \A z \in Elems(p) : z.op = "force_remove"
    <2>1. D \in (SUBSET Users) \cup (SUBSET Groups)
      BY <1>5
    <2>2. f \in [D -> S] /\ p = ForEach(f) /\ \A u \in D : f[u].op = "force_remove"
      BY <1>5, <1>6
    <2>3. p \in Seq(S)
      BY <2>1, <2>2, Fan
    <2>4. Elems(p) = {f[u] : u \in D}
      <3>1. IsFiniteSet(D)
        BY <2>1, Finite
      <3> QED
        BY <2>2, <3>1, EachStep
    <2> QED
      BY <2>2, <2>3, <2>4
  <1>9. /\ q \in Seq(S) /\ Elems(q) = {e, x, y} /\ q # <<>> /\ Caught(q) /\ q[1].op \in Ends
    <2>1. /\ q \in Seq(S) /\ Len(q) = 4
          /\ q[1] = e /\ q[2] = x /\ q[3] = e /\ q[4] = y
      BY <1>5 DEF q
    <2>2. 1 .. 4 = {1, 2, 3, 4}
      OBVIOUS
    <2>3. Elems(q) = {e, x, y}
      BY <2>1, <2>2 DEF Elems
    <2>4. Caught(q)
      <3>1. e.op \notin Lossy /\ y.op \notin Lossy /\ e.op \in Ends
        BY <1>6 DEF Lossy, Ends
      <3>2. \A i \in 1 .. Len(q) : i = 1 \/ i = 2 \/ i = 3 \/ i = 4
        BY <2>1
      <3>3. \A i \in 1 .. Len(q) : q[i].op \in Lossy => i = 2
        BY <2>1, <3>1, <3>2
      <3> HIDE DEF q
      <3>4. 3 \in 1 .. Len(q) /\ 2 + 1 = 3 /\ q[3].op \in Ends
        BY <2>1, <3>1
      <3> QED
        BY <3>3, <3>4 DEF Caught
    <2>5. q # <<>>
      <3> HIDE DEF q
      <3>1. Len(<<>>) # 4
        OBVIOUS
      <3> QED
        BY <2>1, <3>1
    <2> QED
      BY <1>6, <2>1, <2>3, <2>4, <2>5 DEF Ends
  <1>10. Continue("sync", s)
    <2>1. Continue("sync", p \o <<e>> \o <<x>> \o <<e>> \o <<y>>)
      BY <1>4 DEF Catch, e
    <2>2. p \o <<e>> \o <<x>> \o <<e>> \o <<y>> = p \o q
      BY <1>5, <1>8, DeletionPlan DEF q
    <2> QED
      BY <1>6, <2>1, <2>2
  <1>11. s \in Seq(S) /\ Elems(s) = Elems(p) \cup {e, x, y}
    BY <1>6, <1>8, <1>9, ElemsOf
  <1>12. Apart(s) /\ Enclosed(s, c)
    <2>1. \A z \in Elems(p) : z.op \notin Precious
      BY <1>8 DEF Precious
    <2> QED
      BY <1>6, <1>8, <1>9, <2>1, BeforeCatch
  <1>13. \A z \in Elems(s) : z.op \in {"force_remove", "catch", "remove_project"} \/ z = y
    BY <1>6, <1>8, <1>11
  <1>14. /\ ShapeInv' /\ Kept
         /\ \A z \in Pending' : z \in Elems(s) \/ z \in Pending
         /\ \A z \in Elems(s) : z \in Pending' \/ z.op \in Ends
    <2>1. Exists => Exists'
      BY <1>3 DEF tables, Exists
    <2>2. \A z \in Elems(s) : z.op \notin {"synced", "compare"} /\ z.op \notin Undoing
      BY <1>6, <1>13 DEF Undoing
    <2>3. c.op \in GroupPhase
      BY <1>1 DEF GroupPhase
    <2> QED
      BY <1>1, <1>10, <1>11, <1>12, <2>1, <2>2, <2>3, SyncContinues DEF TypesInv, MirrorInv
  <1>15. y \in Pending'
    BY <1>6, <1>11, <1>14 DEF Ends
  <1>16. GroupsInv'
    <2>1. SUFFICES ASSUME Live', NEW z \in Pending', z.op \in {"sync_users", "synced"}
                   PROVE  GroupsDue'
      BY DEF GroupsInv
    <2>2. GroupsDue
      <3>1. z \in Pending
        BY <1>6, <1>13, <1>14, <2>1
      <3> QED
        BY <1>3, <2>1, <3>1 DEF MirrorInv, GroupsInv, Live, directoryVars
    <2>3. g \notin ad.groups
      BY <1>1, <1>2, <2>2 DEF GroupsDue
    <2>4. ASSUME NEW v \in Pending'
          PROVE  /\ v.op = "create_group" => v.g \in ad'.groups
                 /\ v.op \in {"delete_group", "drop_group"} => v.g \notin ad'.groups
                 /\ v.op = "sync_users" => v.groups = ad'.groups
      <3>1. CASE v \in Pending
        BY <1>3, <2>2, <3>1 DEF GroupsDue, directoryVars
      <3>2. CASE v \in Elems(s)
        BY <1>3, <1>6, <1>7, <1>13, <2>3, <3>2 DEF directoryVars
      <3> QED
        BY <1>14, <3>1, <3>2
    <2>5. ASSUME faults' = 0, NEW h \in Groups
          PROVE  /\ h \in ad'.groups /\ group'[h] = "none" =>
                       [op |-> "create_group", g |-> h] \in Pending'
                 /\ h \notin ad'.groups /\ group'[h] # "none" =>
                       \/ [op |-> "delete_group", g |-> h] \in Pending'
                       \/ [op |-> "drop_group", g |-> h] \in Pending'
      <3>1. \A op \in {"create_group", "delete_group", "drop_group"} :
               h # g /\ [op |-> op, g |-> h] \in Pending => [op |-> op, g |-> h] \in Pending'
        BY <1>2, <1>14 DEF Kept, Precious
      <3> QED
        BY <1>3, <1>7, <1>15, <2>2, <2>3, <2>5, <3>1 DEF GroupsDue, directoryVars, tables
    <2> QED
      BY <2>4, <2>5 DEF GroupsDue
  <1>17. UsersInv'
    <2>1. \A z \in Elems(s) : z.op # "synced"
      BY <1>6, <1>13
    <2> QED
      BY <1>1, <1>14, <2>1, UsersVoid DEF MirrorInv, GroupPhase
  <1>18. HomesInv'
    BY <1>1, <1>3, <1>14, HomesKept DEF MirrorInv, tables, directoryVars
  <1> QED
    BY <1>14, <1>16, <1>17, <1>18 DEF MirrorInv

\* The synchronisation takes a deleted group from the project.
LEMMA RemoveMirrors ==
  ASSUME TypesInv, LinksInv, MirrorInv, RemoveProject("sync")
  PROVE  MirrorInv'
  <1> DEFINE c == Cur("sync")
             x == GroupRemoved(c.g)
  <1>1. /\ "sync" \in Actors /\ todo["sync"] # <<>> /\ c \in Steps /\ c.op = "remove_project"
    BY Current DEF RemoveProject, TypesInv, Actors
  <1>2. c.g \in Groups
    BY <1>1, Fields DEF GroupOps
  <1>3. /\ UNCHANGED <<user, group, excuse, ad, homes, synced, faults>>
        /\ project' = project \/ project' = [project EXCEPT !.groups = @ \ {c.g}]
        /\ Done("sync") \/ (Exists /\ Continue("sync", <<x>>))
    BY DEF RemoveProject, LinksInv, directoryVars
  <1>4. Exists => Exists'
    BY <1>3 DEF Exists, TypesInv, Tables
  <1>5. x \in StepsOf("sync") /\ x.op = "unlink"
    BY <1>2 DEF GroupRemoved, StepsOf, Steps, SyncOps, GroupOps
  <1> HIDE DEF x
  <1>6. (Exists => Neutral(x)) /\ Follows(x, c)
    BY <1>1, <1>5 DEF Neutral, UserPhase, GroupPhase, Follows, Lossy
  <1>7. c.op \notin UserPhase \cup {"create_group", "delete_group", "drop_group", "request_home"}
    BY <1>1 DEF UserPhase
  <1> QED
    BY <1>1, <1>3, <1>4, <1>5, <1>6, <1>7, NeutralSteps

-----------------------------------------------------------------------------
(* What a synchronisation reads at once *)

\* The step that is only the last is the only one when it is carried out.
LEMMA Alone ==
  ASSUME PlansInv, NEW op, At("sync", op), OnlyLast(todo["sync"], op)
  PROVE  /\ "sync" \in Actors /\ todo["sync"] \in Seq(StepsOf("sync")) /\ todo["sync"] # <<>>
         /\ Len(todo["sync"]) = 1 /\ Pending = {Cur("sync")} /\ Elems(Tail(todo["sync"])) = {}
         /\ Cur("sync") \in Steps /\ Cur("sync").op = op
  <1> DEFINE t == todo["sync"]
             v == Tail(t)
  <1>1. "sync" \in Actors
    BY DEF Actors
  <1>2. /\ t \in Seq(StepsOf("sync")) /\ t # <<>> /\ Cur("sync") = t[1] /\ t[1].op = op
        /\ Cur("sync") \in Steps
    BY <1>1, Current DEF Cur
  <1> HIDE DEF t
  <1>3. 1 \in 1 .. Len(t)
    BY <1>2
  <1>4. OnlyLast(t, op)
    BY DEF t
  <1>5. Len(t) = 1
    BY <1>2, <1>3, <1>4 DEF OnlyLast
  <1>6. Len(v) = 0
    BY <1>2, <1>5
  <1> HIDE DEF v
  <1>7. Elems(v) = {} /\ Elems(t) = {t[1]}
    BY <1>5, <1>6 DEF Elems
  <1> QED
    BY <1>1, <1>2, <1>5, <1>7 DEF t, v, Pending

\* It goes on with the plan it has made of what it read.
LEMMA Anew ==
  ASSUME PlansInv, ShapeInv, NEW op, At("sync", op), OnlyLast(todo["sync"], op),
         NEW s \in Seq(StepsOf("sync")), Continue("sync", s), Caught(s)
  PROVE  /\ Pending' \subseteq Elems(s)
         /\ \A x \in Elems(s) : x \in Pending' \/ x.op \in Ends
         /\ Apart(todo'["sync"])
         /\ \A o : OnlyLast(s, o) => OnlyLast(todo'["sync"], o)
  <1> DEFINE t == todo["sync"]
  <1>1. /\ "sync" \in Actors /\ t \in Seq(StepsOf("sync")) /\ t # <<>>
        /\ Len(t) = 1 /\ Elems(Tail(t)) = {}
    BY Alone
  <1>2. /\ Elems(todo'["sync"]) \subseteq Elems(s) \cup Elems(Tail(t))
        /\ \A x \in Elems(s) \cup Elems(Tail(t)) : x.op \in Ends \/ x \in Elems(todo'["sync"])
        /\ \A o : OnlyLast(s, o) => OnlyLast(todo'["sync"], o)
    BY <1>1, Advance
  <1>3. todo'["sync"] = Remaining(s \o Tail(t))
    BY <1>1 DEF Continue, PlansInv
  <1>4. Apart(s) /\ Enclosed(s, t[1])
    BY Blocks
  <1>5. Apart(t)
    BY DEF ShapeInv
  <1> HIDE DEF t
  <1>6. Apart(todo'["sync"])
    BY <1>1, <1>3, <1>4, <1>5, ContinuedApart
  <1> QED
    BY <1>1, <1>2, <1>6 DEF Pending

\* No home directory is still to be requested then.
LEMMA HomesRead ==
  ASSUME HomesInv, UNCHANGED <<user, homes, excuse>>, \A x \in Pending : x.op # "request_home"
  PROVE  HomesInv'
  BY DEF HomesInv, Home

\* Steps in try blocks of their own.
LEMMA Tries ==
  ASSUME NEW S, [op |-> "catch_all"] \in S, NEW D \in (SUBSET Users) \cup (SUBSET Groups),
         NEW f \in [D -> S], NEW s, s = Tried(f)
  PROVE  /\ s \in Seq(S) /\ Caught(s)
         /\ {f[d] : d \in D} \subseteq Elems(s)
         /\ \A x \in Elems(s) : x \in {f[d] : d \in D} \/ x.op = "catch_all"
  <1> DEFINE c == [op |-> "catch_all"]
  <1>1. s = ForEachThen(f, c) /\ c \in S
    BY DEF Tried
  <1>2. DOMAIN f = D /\ IsFiniteSet(DOMAIN f)
    BY Finite
  <1>3. Caught(s)
    BY <1>2, TriedCaught
  <1> HIDE DEF c
  <1>4. /\ Elems(s) \subseteq {f[x] : x \in D} \cup {c}
        /\ {f[x] : x \in D} \subseteq Elems(s)
        /\ s \in Seq(Elems(s))
    BY <1>1, <1>2, EachStepThen
  <1>5. {f[x] : x \in D} \subseteq S
    OBVIOUS
  <1>6. s \in Seq(S)
    BY <1>1, <1>4, <1>5, Retyped
  <1> QED
    BY <1>3, <1>4, <1>6 DEF c

\* The synchronisation compares the groups.
LEMMA GroupsReadMirrors ==
  ASSUME TypesInv, MirrorInv, SyncAllGroups("sync")
  PROVE  MirrorInv'
  <1> DEFINE c == Cur("sync")
             S == StepsOf("sync")
             A == ad.groups \ Known
             B == Known \ ad.groups
             e == [g \in A |-> [op |-> "create_group", g |-> g]]
             f == [g \in B |-> [op |-> "delete_group", g |-> g]]
             x == [op |-> "sync_users", groups |-> ad.groups]
             l == <<x>>
             p == Tried(e)
             q == Tried(f)
             r == p \o q
             s == r \o l
  <1>1. At("sync", "sync_groups") /\ OnlyLast(todo["sync"], "sync_groups")
    BY DEF SyncAllGroups, TypesInv, SyncInv, Reading
  <1>2. /\ "sync" \in Actors /\ todo["sync"] # <<>> /\ Pending = {c}
        /\ c.op = "sync_groups"
    BY <1>1, Alone DEF TypesInv
  <1>3. A \subseteq Groups /\ B \subseteq Groups /\ ad.groups \subseteq Groups
    BY DEF Known, TypesInv, Others
  <1>4. Continue("sync", s) /\ UNCHANGED <<tables, excuse>> /\ UNCHANGED directoryVars
    BY DEF SyncAllGroups
  <1>5. e \in [A -> S] /\ f \in [B -> S] /\ [op |-> "catch_all"] \in S
    BY <1>3 DEF StepsOf, Steps, GroupOps, PlainOps, SyncOps, Ends
  <1>6. x \in S /\ x.op = "sync_users" /\ x.groups = ad.groups
    BY <1>3 DEF StepsOf, Steps, SyncOps
  <1>7. /\ \A g \in A : e[g] = [op |-> "create_group", g |-> g]
        /\ \A g \in B : f[g] = [op |-> "delete_group", g |-> g]
        /\ DOMAIN e = A /\ DOMAIN f = B
    OBVIOUS
  <1>8. p = Tried(e) /\ q = Tried(f) /\ r = p \o q /\ s = r \o l
    OBVIOUS
  <1> HIDE DEF x
  <1>9. l \in Seq(S) /\ Elems(l) = {x}
    BY <1>6, Singles
  <1>10. /\ \A g \in Groups : g \in A <=> g \in ad.groups /\ group[g] = "none"
         /\ \A g \in Groups : g \in B <=> g \notin ad.groups /\ group[g] # "none"
    BY <1>3 DEF Known
  <1> HIDE DEF A, B, e, f, l, p, q, r, s, S
  <1>11. /\ p \in Seq(S) /\ Caught(p)
        /\ {e[g] : g \in A} \subseteq Elems(p)
        /\ \A z \in Elems(p) : z \in {e[g] : g \in A} \/ z.op = "catch_all"
    <2>1. A \in (SUBSET Users) \cup (SUBSET Groups)
      BY <1>3
    <2>2. e \in [A -> S] /\ p = Tried(e) /\ [op |-> "catch_all"] \in S
      BY <1>5, <1>8
    <2>3. p \in Seq(S)
      BY <2>1, <2>2, Tries
    <2>4. Caught(p)
      BY <2>1, <2>2, Tries
    <2>5. {e[g] : g \in A} \subseteq Elems(p)
      BY <2>1, <2>2, Tries
    <2>6. \A z \in Elems(p) : z \in {e[g] : g \in A} \/ z.op = "catch_all"
      BY <2>1, <2>2, Tries
    <2> QED
      BY <2>3, <2>4, <2>5, <2>6
  <1>12. /\ q \in Seq(S) /\ Caught(q)
        /\ {f[g] : g \in B} \subseteq Elems(q)
        /\ \A z \in Elems(q) : z \in {f[g] : g \in B} \/ z.op = "catch_all"
    <2>1. B \in (SUBSET Users) \cup (SUBSET Groups)
      BY <1>3
    <2>2. f \in [B -> S] /\ q = Tried(f) /\ [op |-> "catch_all"] \in S
      BY <1>5, <1>8
    <2>3. q \in Seq(S)
      BY <2>1, <2>2, Tries
    <2>4. Caught(q)
      BY <2>1, <2>2, Tries
    <2>5. {f[g] : g \in B} \subseteq Elems(q)
      BY <2>1, <2>2, Tries
    <2>6. \A z \in Elems(q) : z \in {f[g] : g \in B} \/ z.op = "catch_all"
      BY <2>1, <2>2, Tries
    <2> QED
      BY <2>3, <2>4, <2>5, <2>6
  <1>13. r \in Seq(S) /\ Elems(r) = Elems(p) \cup Elems(q)
    <2>1. p \in Seq(S) /\ q \in Seq(S) /\ r = p \o q
      BY <1>8, <1>11, <1>12
    <2> QED
      BY <2>1, ElemsOf
  <1>14. s \in Seq(S) /\ Elems(s) = Elems(p) \cup Elems(q) \cup {x}
    <2>1. r \in Seq(S) /\ l \in Seq(S) /\ s = r \o l
      BY <1>8, <1>9, <1>13
    <2>2. s \in Seq(S) /\ Elems(s) = Elems(r) \cup Elems(l)
      BY <2>1, ElemsOf
    <2> QED
      BY <1>9, <1>13, <2>2
  <1>15. Caught(s)
    <2>3. Caught(r)
      BY <1>8, <1>11, <1>12, CaughtConcat
    <2>4. Caught(l)
      <3>1. \A z \in Elems(l) : z.op \notin Lossy
        BY <1>6, <1>9 DEF Lossy
      <3> QED
        BY <1>9, <3>1, Blocks
    <2> QED
      BY <1>8, <1>9, <1>13, <2>3, <2>4, CaughtConcat
  <1>16. /\ Pending' \subseteq Elems(s) /\ Apart(todo'["sync"])
         /\ \A z \in Elems(s) : z \in Pending' \/ z.op \in Ends
    BY <1>1, <1>4, <1>14, <1>15, Anew DEF TypesInv, MirrorInv, S
  <1>17. ASSUME NEW z \in Pending'
         PROVE  \/ \E g \in A : z = [op |-> "create_group", g |-> g]
                \/ \E g \in B : z = [op |-> "delete_group", g |-> g]
                \/ z.op = "catch_all" \/ z = x
    BY <1>7, <1>11, <1>12, <1>14, <1>16
  <1>18. \A z \in Pending' : z.op \notin {"synced", "compare"} /\ z.op \notin Undoing
    BY <1>6, <1>17 DEF Undoing
  <1>19. ShapeInv'
    <2>1. OnlyLast(todo'["sync"], "synced") /\ HomesFirst(todo'["sync"])
      BY <1>18 DEF OnlyLast, HomesFirst, Pending, Elems
    <2> QED
      BY <1>16, <1>18, <2>1 DEF ShapeInv
  <1>20. GroupsDue'
    <2>1. ASSUME NEW z \in Pending'
          PROVE  /\ z.op = "create_group" => z.g \in ad'.groups
                 /\ z.op \in {"delete_group", "drop_group"} => z.g \notin ad'.groups
                 /\ z.op = "sync_users" => z.groups = ad'.groups
      BY <1>3, <1>4, <1>6, <1>10, <1>17 DEF directoryVars
    <2>2. ASSUME NEW g \in Groups
          PROVE  /\ g \in A => [op |-> "create_group", g |-> g] \in Pending'
                 /\ g \in B => [op |-> "delete_group", g |-> g] \in Pending'
      <3>1. g \in A => e[g] \in Pending'
        BY <1>7, <1>11, <1>14, <1>16 DEF Ends
      <3>2. g \in B => f[g] \in Pending'
        BY <1>7, <1>12, <1>14, <1>16 DEF Ends
      <3> QED
        BY <1>7, <3>1, <3>2
    <2> QED
      BY <1>4, <1>10, <2>1, <2>2 DEF GroupsDue, tables, directoryVars
  <1>21. UsersInv'
    BY <1>18 DEF UsersInv
  <1>22. HomesInv'
    BY <1>2, <1>4, HomesRead DEF MirrorInv, tables, directoryVars
  <1> QED
    BY <1>19, <1>20, <1>21, <1>22 DEF MirrorInv, GroupsInv

\* The synchronisation compares the users.
LEMMA UsersReadMirrors ==
  ASSUME TypesInv, AdInv, MirrorInv, SyncAllUsers("sync")
  PROVE  MirrorInv'
  <1> DEFINE c == Cur("sync")
             S == StepsOf("sync")
             G == c.groups
             here == {u \in Users : ad.of[u] # NoRow}
             A == here \ Rows
             B == Rows \ here
             C == here \cap Rows
             e == [u \in A |-> [op |-> "create_user", u |-> u, groups |-> ad.of[u] \cap G]]
             f == [u \in B |-> [op |-> "delete_user", u |-> u]]
             theirs(u) == (ad.of[u] \cap G) \ (G \ Known)
             h == [u \in C |-> Compare(u, theirs(u))]
             x == [op |-> "synced"]
             l == <<x>>
             p == Tried(e)
             q == Tried(f)
             r == ForEach(h)
             s == p \o q \o r \o l
  <1>1. At("sync", "sync_users") /\ OnlyLast(todo["sync"], "sync_users")
    BY DEF SyncAllUsers, TypesInv, SyncInv, Reading
  <1>2. /\ "sync" \in Actors /\ todo["sync"] # <<>> /\ Pending = {c}
        /\ c \in Steps /\ c.op = "sync_users"
    BY <1>1, Alone DEF TypesInv
  <1>3. /\ A \subseteq Users /\ B \subseteq Users /\ C \subseteq Users /\ G \subseteq Groups
        /\ \A u \in C : user[u].groups \subseteq Groups
        /\ \A u \in here : ad.of[u] \subseteq Groups
    BY <1>2, Fields DEF Rows, TypesInv, Tables, Others
  <1>4. Continue("sync", s) /\ UNCHANGED <<tables, excuse>> /\ UNCHANGED directoryVars
    BY DEF SyncAllUsers, InDirectory
  <1>5. e \in [A -> S] /\ f \in [B -> S] /\ [op |-> "catch_all"] \in S
    BY <1>3 DEF StepsOf, Steps, UserOps, PlainOps, SyncOps, Ends
  <1>6. h \in [C -> S]
    <2>1. ASSUME NEW u \in C
          PROVE  Compare(u, theirs(u)) \in S
      <3>1. (u \notin ad.renamed) \in BOOLEAN
        OBVIOUS
      <3> QED
        BY <1>3, <2>1, <3>1 DEF Compare, StepsOf, Steps, SyncOps
    <2> HIDE DEF C, S, theirs
    <2> QED
      BY <2>1
  <1>7. x \in S /\ x.op = "synced"
    BY DEF StepsOf, Steps, SyncOps, PlainOps
  <1>8. /\ \A u \in A : e[u] = [op |-> "create_user", u |-> u, groups |-> ad.of[u] \cap G]
        /\ \A u \in B : f[u] = [op |-> "delete_user", u |-> u]
        /\ \A u \in C : /\ h[u].op = "compare" /\ h[u].u = u
                        /\ h[u].added = theirs(u) \ user[u].groups
                        /\ h[u].removed = user[u].groups \ theirs(u)
                        /\ h[u].found <=> u \notin ad.renamed
        /\ \A u \in A : e[u].op = "create_user" /\ e[u].u = u /\ e[u].groups = ad.of[u] \cap G
        /\ \A u \in B : f[u].op = "delete_user" /\ f[u].u = u
    BY DEF Compare
  <1>9. p = Tried(e) /\ q = Tried(f) /\ r = ForEach(h) /\ s = p \o q \o r \o l
    OBVIOUS
  <1> HIDE DEF x
  <1>10. l \in Seq(S) /\ Elems(l) = {x} /\ Len(l) = 1
    BY <1>7, Singles
  <1>11. /\ \A u \in Users : u \in A <=> ad.of[u] # NoRow /\ user[u] = NoRow
         /\ \A u \in Users : u \in B <=> ad.of[u] = NoRow /\ user[u] # NoRow
         /\ \A u \in Users : u \in C <=> ad.of[u] # NoRow /\ user[u] # NoRow
    BY DEF Rows
  <1> HIDE DEF A, B, C, e, f, h, l, p, q, r, s, S, here
  <1>12. /\ p \in Seq(S) /\ Caught(p)
         /\ {e[u] : u \in A} \subseteq Elems(p)
         /\ \A z \in Elems(p) : z \in {e[u] : u \in A} \/ z.op = "catch_all"
    <2>1. A \in (SUBSET Users) \cup (SUBSET Groups)
      BY <1>3
    <2>2. e \in [A -> S] /\ p = Tried(e) /\ [op |-> "catch_all"] \in S
      BY <1>5, <1>9
    <2>3. p \in Seq(S)
      BY <2>1, <2>2, Tries
    <2>4. Caught(p)
      BY <2>1, <2>2, Tries
    <2>5. {e[u] : u \in A} \subseteq Elems(p)
      BY <2>1, <2>2, Tries
    <2>6. \A z \in Elems(p) : z \in {e[u] : u \in A} \/ z.op = "catch_all"
      BY <2>1, <2>2, Tries
    <2> QED
      BY <2>3, <2>4, <2>5, <2>6
  <1>13. /\ q \in Seq(S) /\ Caught(q)
         /\ {f[u] : u \in B} \subseteq Elems(q)
         /\ \A z \in Elems(q) : z \in {f[u] : u \in B} \/ z.op = "catch_all"
    <2>1. B \in (SUBSET Users) \cup (SUBSET Groups)
      BY <1>3
    <2>2. f \in [B -> S] /\ q = Tried(f) /\ [op |-> "catch_all"] \in S
      BY <1>5, <1>9
    <2>3. q \in Seq(S)
      BY <2>1, <2>2, Tries
    <2>4. Caught(q)
      BY <2>1, <2>2, Tries
    <2>5. {f[u] : u \in B} \subseteq Elems(q)
      BY <2>1, <2>2, Tries
    <2>6. \A z \in Elems(q) : z \in {f[u] : u \in B} \/ z.op = "catch_all"
      BY <2>1, <2>2, Tries
    <2> QED
      BY <2>3, <2>4, <2>5, <2>6
  <1>14. r \in Seq(S) /\ Elems(r) = {h[u] : u \in C}
    <2>1. C \in (SUBSET Users) \cup (SUBSET Groups)
      BY <1>3
    <2>2. h \in [C -> S] /\ r = ForEach(h) /\ DOMAIN h = C
      BY <1>6, <1>9
    <2>3. r \in Seq(S)
      BY <2>1, <2>2, Fan
    <2>4. IsFiniteSet(DOMAIN h)
      BY <2>1, <2>2, Finite
    <2>5. Elems(r) = {h[u] : u \in DOMAIN h}
      BY <2>2, <2>4, EachStep
    <2> QED
      BY <2>2, <2>3, <2>5
  <1>15. \A z \in Elems(r) : z.op = "compare"
    BY <1>8, <1>14
  <1> DEFINE m == p \o q
             n == m \o r
  <1>16. m = p \o q /\ n = m \o r /\ s = n \o l
    BY <1>9
  <1> HIDE DEF m, n
  <1>17. m \in Seq(S) /\ Elems(m) = Elems(p) \cup Elems(q) /\ Caught(m)
    <2>1. p \in Seq(S) /\ q \in Seq(S) /\ m = p \o q /\ Caught(p) /\ Caught(q)
      BY <1>12, <1>13, <1>16
    <2>2. m \in Seq(S) /\ Elems(m) = Elems(p) \cup Elems(q)
      BY <2>1, ElemsOf
    <2>3. Caught(m)
      BY <2>1, CaughtConcat
    <2> QED
      BY <2>2, <2>3
  <1>18. n \in Seq(S) /\ Elems(n) = Elems(m) \cup Elems(r) /\ Caught(n)
    <2>1. Caught(r)
      <3>1. \A z \in Elems(r) : z.op \notin Lossy
        BY <1>15 DEF Lossy
      <3> QED
        BY <1>14, <3>1, Blocks
    <2>2. m \in Seq(S) /\ r \in Seq(S) /\ n = m \o r /\ Caught(m) /\ Caught(r)
      BY <1>14, <1>16, <1>17, <2>1
    <2>3. n \in Seq(S) /\ Elems(n) = Elems(m) \cup Elems(r)
      BY <2>2, ElemsOf
    <2>4. Caught(n)
      BY <2>2, CaughtConcat
    <2> QED
      BY <2>3, <2>4
  <1>19. s \in Seq(S) /\ Elems(s) = Elems(n) \cup {x} /\ Caught(s)
    <2>1. Caught(l)
      <3>1. \A z \in Elems(l) : z.op \notin Lossy
        BY <1>7, <1>10 DEF Lossy
      <3> QED
        BY <1>10, <3>1, Blocks
    <2>2. n \in Seq(S) /\ l \in Seq(S) /\ s = n \o l /\ Caught(n) /\ Caught(l)
      BY <1>10, <1>16, <1>18, <2>1
    <2>3. s \in Seq(S) /\ Elems(s) = Elems(n) \cup Elems(l)
      BY <2>2, ElemsOf
    <2>4. Caught(s)
      BY <2>2, CaughtConcat
    <2> QED
      BY <1>10, <2>3, <2>4
  <1>20. /\ Pending' \subseteq Elems(s) /\ Apart(todo'["sync"])
         /\ \A z \in Elems(s) : z \in Pending' \/ z.op \in Ends
         /\ \A o : OnlyLast(s, o) => OnlyLast(todo'["sync"], o)
    BY <1>1, <1>4, <1>19, Anew DEF TypesInv, MirrorInv, S
  <1>21. \A z \in Elems(n) : z.op \in {"create_user", "delete_user", "compare", "catch_all"}
    <2>1. \A z \in Elems(p) : z.op \in {"create_user", "catch_all"}
      BY <1>8, <1>12
    <2>2. \A z \in Elems(q) : z.op \in {"delete_user", "catch_all"}
      BY <1>8, <1>13
    <2> QED
      BY <1>15, <1>17, <1>18, <2>1, <2>2
  <1>22. ShapeInv'
    <2>1. \A z \in Elems(n) : z.op # "synced"
      BY <1>21
    <2>2. OnlyLast(n \o l, "synced")
      BY <1>10, <1>18, <2>1, Closed
    <2>3. \A z \in Pending' : z.op \notin GroupPhase /\ z.op \notin Undoing /\ z.op # "request_home"
      BY <1>7, <1>19, <1>20, <1>21 DEF GroupPhase, Undoing
    <2>4. HomesFirst(todo'["sync"])
      BY <2>3 DEF HomesFirst, Pending, Elems
    <2> QED
      BY <1>16, <1>20, <2>2, <2>3, <2>4 DEF ShapeInv
  <1>23. HomesInv'
    BY <1>2, <1>4, HomesRead DEF MirrorInv, tables, directoryVars
  <1>24. SUFFICES ASSUME Live
                  PROVE  GroupsInv' /\ UsersInv'
    BY <1>4, <1>22, <1>23 DEF MirrorInv, GroupsInv, UsersInv, Live, directoryVars
  <1>25. GroupsDue /\ G = ad.groups
    BY <1>2, <1>24 DEF MirrorInv, GroupsInv, GroupsDue
  <1>26. GroupsDue'
    <2>1. \A z \in Pending' : z.op \notin {"create_group", "delete_group", "drop_group", "sync_users"}
      BY <1>7, <1>19, <1>20, <1>21
    <2>2. ASSUME faults = 0, NEW g \in Groups
          PROVE  ~(g \in ad.groups /\ group[g] = "none") /\ ~(g \notin ad.groups /\ group[g] # "none")
      BY <1>2, <1>25, <2>2 DEF GroupsDue
    <2> QED
      BY <1>4, <2>1, <2>2 DEF GroupsDue, tables, directoryVars
  <1>27. \A u \in Users : ad.of[u] # NoRow => ad.of[u] \cap G = ad.of[u]
    BY <1>25 DEF AdInv
  <1>28. ASSUME NEW u \in C
         PROVE  /\ h[u].added \subseteq ad.of[u]
                /\ \A g \in h[u].removed : group[g] # "none" => g \notin ad.of[u]
                /\ \A g \in Groups : group[g] # "none" =>
                      /\ g \in user[u].groups /\ g \notin ad.of[u] => g \in h[u].removed
                      /\ g \notin user[u].groups /\ g \in ad.of[u] => g \in h[u].added
    <2>1. u \in Users /\ ad.of[u] # NoRow
      BY <1>3, <1>11
    <2>2. /\ h[u].added = theirs(u) \ user[u].groups
          /\ h[u].removed = user[u].groups \ theirs(u)
          /\ user[u].groups \subseteq Groups
      BY <1>3, <1>8
    <2>3. \A g \in Groups : group[g] # "none" => (g \in theirs(u) <=> g \in ad.of[u])
      BY <1>27, <2>1 DEF Known
    <2>4. theirs(u) \subseteq ad.of[u]
      OBVIOUS
    <2> HIDE DEF theirs
    <2> QED
      BY <2>2, <2>3, <2>4
  <1>29. ASSUME NEW z \in Pending'
         PROVE  Due(z)'
    <2>1. CASE z \in {e[u] : u \in A}
      <3>1. PICK u \in A : z = e[u]
        BY <2>1
      <3>2. u \in Users /\ ad.of[u] # NoRow /\ z.u = u /\ z.op = "create_user" /\ z.groups = ad.of[u]
        BY <1>3, <1>8, <1>11, <1>27, <3>1
      <3> QED
        BY <1>4, <3>2 DEF Due, Leaving, directoryVars
    <2>2. CASE z \in {f[u] : u \in B}
      <3>1. PICK u \in B : z = f[u]
        BY <2>2
      <3>2. u \in Users /\ ad.of[u] = NoRow /\ z.u = u /\ z.op = "delete_user"
        BY <1>3, <1>8, <1>11, <3>1
      <3> QED
        BY <1>4, <3>2 DEF Due, Leaving, directoryVars
    <2>3. CASE z \in {h[u] : u \in C}
      <3>1. PICK u \in C : z = h[u]
        BY <2>3
      <3>2. /\ u \in Users /\ ad.of[u] # NoRow /\ z.u = u /\ z.op = "compare"
            /\ z.found <=> u \notin ad.renamed
        BY <1>3, <1>8, <1>11, <3>1
      <3>3. z.added \subseteq ad.of[u] /\ \A g \in z.removed : group[g] # "none" => g \notin ad.of[u]
        BY <1>28, <3>1
      <3> QED
        BY <1>4, <3>2, <3>3 DEF Due, Leaving, directoryVars, tables
    <2>4. CASE z.op \in {"catch_all", "synced"}
      BY <2>4 DEF Due, Leaving
    <2> QED
      BY <1>7, <1>12, <1>13, <1>14, <1>17, <1>18, <1>19, <1>20, <2>1, <2>2, <2>3, <2>4
  <1>30. /\ \A u \in A : e[u] \in Pending'
         /\ \A u \in B : f[u] \in Pending'
         /\ \A u \in C : h[u] \in Pending'
    <2>1. \A u \in A : e[u] \in Elems(s) /\ e[u].op \notin Ends
      BY <1>8, <1>12, <1>17, <1>18, <1>19 DEF Ends
    <2>2. \A u \in B : f[u] \in Elems(s) /\ f[u].op \notin Ends
      BY <1>8, <1>13, <1>17, <1>18, <1>19 DEF Ends
    <2>3. \A u \in C : h[u] \in Elems(s) /\ h[u].op \notin Ends
      BY <1>8, <1>14, <1>18, <1>19 DEF Ends
    <2> QED
      BY <1>20, <2>1, <2>2, <2>3
  <1>31. ASSUME NEW u \in Users
         PROVE  UserDue(u)'
    <2>1. faults' = 0 /\ u \notin ad.renamed /\ ad.of[u] # NoRow /\ user[u] = NoRow =>
             [op |-> "create_user", u |-> u, groups |-> ad.of[u]] \in Pending'
      BY <1>8, <1>11, <1>27, <1>30
    <2>2. ad.of[u] = NoRow /\ user[u] # NoRow => [op |-> "delete_user", u |-> u] \in Pending'
      BY <1>8, <1>11, <1>30
    <2>3. ASSUME ad.of[u] # NoRow /\ user[u] # NoRow, NEW g \in Groups, group[g] = "enabled"
          PROVE  Differs(u, g)'
      <3>1. u \in C
        BY <1>11, <2>3
      <3>2. h[u] \in Pending' /\ h[u].op = "compare" /\ h[u].u = u
        BY <1>8, <1>30, <3>1
      <3>3. /\ g \in user[u].groups /\ g \notin ad.of[u] => g \in h[u].removed
            /\ g \notin user[u].groups /\ g \in ad.of[u] => g \in h[u].added
        BY <1>28, <2>3, <3>1
      <3> QED
        BY <1>4, <3>2, <3>3 DEF Differs, tables, directoryVars
    <2> QED
      BY <1>4, <2>1, <2>2, <2>3 DEF UserDue, tables, directoryVars
  <1> QED
    BY <1>26, <1>29, <1>31 DEF GroupsInv, UsersInv

\* The synchronisation works on the differences of a user it finds.
LEMMA FoundMirrors ==
  ASSUME TypesInv, MirrorInv, CompareUser("sync"), Cur("sync").found
  PROVE  MirrorInv'
  <1> DEFINE c == Cur("sync")
             S == StepsOf("sync")
  <1>1. /\ "sync" \in Actors /\ todo["sync"] # <<>> /\ c \in S /\ c \in Steps
        /\ c.op = "compare" /\ c \in Pending
    BY Current DEF CompareUser, TypesInv, Actors, Pending
  <1>2. PICK u \in Users : u = c.u
    BY <1>1, Fields
  <1> DEFINE A == c.added
             B == c.removed
             e == [g \in A |-> AddToGroup(u, g, FALSE)]
             f == [g \in B |-> [op |-> "remove_from_group", u |-> u, g |-> g]]
             p == Tried(e)
             q == Tried(f)
             s == p \o q
  <1>3. A \subseteq Groups /\ B \subseteq Groups
    BY <1>1, Fields
  <1>4. user[u] # NoRow
    BY <1>1, <1>2 DEF TypesInv, SyncInv, Needy, Pending
  <1>5. Continue("sync", s) /\ UNCHANGED <<tables, excuse>> /\ UNCHANGED directoryVars
    BY <1>2 DEF CompareUser, directoryVars
  <1>6. e \in [A -> S] /\ f \in [B -> S] /\ [op |-> "catch_all"] \in S
    BY <1>3 DEF AddToGroup, StepsOf, Steps, MemberOps, PlainOps, SyncOps, Ends
  <1>7. /\ \A g \in A : e[g].op = "add_to_group" /\ e[g].u = u /\ e[g].g = g
        /\ \A g \in B : f[g].op = "remove_from_group" /\ f[g].u = u /\ f[g].g = g
        /\ \A g \in A : e[g] = AddToGroup(u, g, FALSE)
        /\ \A g \in B : f[g] = [op |-> "remove_from_group", u |-> u, g |-> g]
    BY DEF AddToGroup
  <1>8. p = Tried(e) /\ q = Tried(f) /\ s = p \o q
    OBVIOUS
  <1> HIDE DEF A, B, e, f, p, q, s, S
  <1>9. /\ p \in Seq(S) /\ Caught(p)
        /\ {e[g] : g \in A} \subseteq Elems(p)
        /\ \A z \in Elems(p) : z \in {e[g] : g \in A} \/ z.op = "catch_all"
    <2>1. A \in (SUBSET Users) \cup (SUBSET Groups)
      BY <1>3
    <2>2. e \in [A -> S] /\ p = Tried(e) /\ [op |-> "catch_all"] \in S
      BY <1>6, <1>8
    <2>3. p \in Seq(S)
      BY <2>1, <2>2, Tries
    <2>4. Caught(p)
      BY <2>1, <2>2, Tries
    <2>5. {e[g] : g \in A} \subseteq Elems(p)
      BY <2>1, <2>2, Tries
    <2>6. \A z \in Elems(p) : z \in {e[g] : g \in A} \/ z.op = "catch_all"
      BY <2>1, <2>2, Tries
    <2> QED
      BY <2>3, <2>4, <2>5, <2>6
  <1>10. /\ q \in Seq(S) /\ Caught(q)
         /\ {f[g] : g \in B} \subseteq Elems(q)
         /\ \A z \in Elems(q) : z \in {f[g] : g \in B} \/ z.op = "catch_all"
    <2>1. B \in (SUBSET Users) \cup (SUBSET Groups)
      BY <1>3
    <2>2. f \in [B -> S] /\ q = Tried(f) /\ [op |-> "catch_all"] \in S
      BY <1>6, <1>8
    <2>3. q \in Seq(S)
      BY <2>1, <2>2, Tries
    <2>4. Caught(q)
      BY <2>1, <2>2, Tries
    <2>5. {f[g] : g \in B} \subseteq Elems(q)
      BY <2>1, <2>2, Tries
    <2>6. \A z \in Elems(q) : z \in {f[g] : g \in B} \/ z.op = "catch_all"
      BY <2>1, <2>2, Tries
    <2> QED
      BY <2>3, <2>4, <2>5, <2>6
  <1>11. s \in Seq(S) /\ Elems(s) = Elems(p) \cup Elems(q) /\ Caught(s)
    <2>1. p \in Seq(S) /\ q \in Seq(S) /\ s = p \o q /\ Caught(p) /\ Caught(q)
      BY <1>8, <1>9, <1>10
    <2>2. s \in Seq(S) /\ Elems(s) = Elems(p) \cup Elems(q)
      BY <2>1, ElemsOf
    <2>3. Caught(s)
      BY <2>1, CaughtConcat
    <2> QED
      BY <2>2, <2>3
  <1>12. ASSUME NEW z \in Elems(s)
         PROVE  \/ z.op = "add_to_group" /\ z.u = u /\ z.g \in A
                \/ z.op = "remove_from_group" /\ z.u = u /\ z.g \in B
                \/ z.op = "catch_all"
    BY <1>7, <1>9, <1>10, <1>11
  <1>13. /\ ShapeInv' /\ Kept
         /\ \A z \in Pending' : z \in Elems(s) \/ z \in Pending
         /\ \A z \in Elems(s) : z \in Pending' \/ z.op \in Ends
    <2>1. Apart(s) /\ Enclosed(s, c)
      BY <1>11, Blocks
    <2>2. \A z \in Elems(s) : z.op \notin {"synced", "compare"} \cup GroupPhase \cup Undoing
      BY <1>12 DEF GroupPhase, Undoing
    <2>3. Exists => Exists'
      BY <1>5 DEF tables, Exists
    <2> QED
      BY <1>1, <1>5, <1>11, <2>1, <2>2, <2>3, SyncContinues DEF TypesInv, MirrorInv, S
  <1>14. /\ \A g \in A : AddToGroup(u, g, FALSE) \in Pending'
         /\ \A g \in B : [op |-> "remove_from_group", u |-> u, g |-> g] \in Pending'
    <2>1. \A g \in A : e[g] \in Pending'
      BY <1>7, <1>9, <1>11, <1>13 DEF Ends
    <2>2. \A g \in B : f[g] \in Pending'
      BY <1>7, <1>10, <1>11, <1>13 DEF Ends
    <2>3. \A g \in A : AddToGroup(u, g, FALSE) \in Pending'
      <3>1. \A g \in A : e[g] = AddToGroup(u, g, FALSE)
        BY <1>7
      <3> QED
        BY <2>1, <3>1, Zenon
    <2>4. \A g \in B : [op |-> "remove_from_group", u |-> u, g |-> g] \in Pending'
      <3>1. \A g \in B : f[g] = [op |-> "remove_from_group", u |-> u, g |-> g]
        BY <1>7
      <3> QED
        BY <2>2, <3>1, Zenon
    <2> QED
      BY <2>3, <2>4
  <1>15. /\ user' = user /\ UNCHANGED <<group, ad, faults, synced, homes>> /\ excuse' = excuse
         /\ c.op \in UserPhase
    BY <1>1, <1>5 DEF tables, directoryVars, UserPhase
  <1>16. \A z \in Elems(s) : z.op \notin GroupPhase \cup {"synced", "compare"}
    BY <1>12 DEF GroupPhase
  <1>17. ASSUME Due(c), UserDue(u)
         PROVE  (\A z \in Elems(s) : Due(z)') /\ UserDue(u)'
    <2>1. /\ ad.of[u] # NoRow /\ A \subseteq ad.of[u]
          /\ \A g \in B : group[g] # "none" => g \notin ad.of[u]
      BY <1>1, <1>2, <1>17 DEF Due, A, B
    <2>2. ASSUME NEW z \in Elems(s)
          PROVE  Due(z)'
      <3>1. CASE z.op = "add_to_group" /\ z.u = u /\ z.g \in A
        BY <1>15, <2>1, <3>1 DEF Due, Leaving
      <3>2. CASE z.op = "remove_from_group" /\ z.u = u /\ z.g \in B
        BY <1>15, <2>1, <3>2 DEF Due, Leaving
      <3>3. CASE z.op = "catch_all"
        BY <3>3 DEF Due, Leaving
      <3> QED
        BY <1>12, <3>1, <3>2, <3>3
    <2>3. ASSUME user[u].enabled = TRUE, NEW g \in Groups, group[g] = "enabled"
          PROVE  Differs(u, g)'
      <3>1. Differs(u, g)
        BY <1>4, <1>17, <2>1, <2>3 DEF UserDue
      <3>2. \A y \in Pending : y.op \in {"compare", "remove_from_group", "add_to_group"} =>
               y \in Pending' \/ y = c
        BY <1>2, <1>13, Remainder
      <3>3. ASSUME g \in user[u].groups, g \notin ad.of[u]
            PROVE  \/ [op |-> "remove_from_group", u |-> u, g |-> g] \in Pending'
                   \/ \E x \in Pending' : x.op = "compare" /\ x.u = u /\ g \in x.removed
        <4>1. CASE [op |-> "remove_from_group", u |-> u, g |-> g] \in Pending
          BY <1>1, <3>2, <4>1
        <4>2. CASE \E x \in Pending : x.op = "compare" /\ x.u = u /\ g \in x.removed
          <5>1. PICK x \in Pending : x.op = "compare" /\ x.u = u /\ g \in x.removed
            BY <4>2
          <5>2. x \in Pending' \/ x = c
            BY <3>2, <5>1
          <5>3. x = c => g \in B
            BY <5>1 DEF B
          <5> QED
            BY <1>14, <5>1, <5>2, <5>3
        <4> QED
          BY <3>1, <3>3, <4>1, <4>2 DEF Differs
      <3>4. ASSUME g \notin user[u].groups, g \in ad.of[u], u \notin ad.renamed
            PROVE  \/ AddToGroup(u, g, FALSE) \in Pending'
                   \/ \E x \in Pending' : x.op = "compare" /\ x.u = u /\ g \in x.added
        <4>1. CASE AddToGroup(u, g, FALSE) \in Pending
          <5>1. AddToGroup(u, g, FALSE).op = "add_to_group"
            BY DEF AddToGroup
          <5> QED
            BY <1>1, <3>2, <4>1, <5>1
        <4>2. CASE \E x \in Pending : x.op = "compare" /\ x.u = u /\ g \in x.added
          <5>1. PICK x \in Pending : x.op = "compare" /\ x.u = u /\ g \in x.added
            BY <4>2
          <5>2. x \in Pending' \/ x = c
            BY <3>2, <5>1
          <5>3. x = c => g \in A
            BY <5>1 DEF A
          <5> QED
            BY <1>14, <5>1, <5>2, <5>3
        <4> QED
          BY <3>1, <3>4, <4>1, <4>2 DEF Differs
      <3> QED
        BY <1>15, <3>3, <3>4 DEF Differs
    <2> QED
      BY <1>4, <1>15, <2>1, <2>2, <2>3 DEF UserDue
  <1> DEFINE N == Elems(s)
  <1>18. /\ \A z \in Pending' : z \in N \/ z \in Pending
         /\ \A z \in N : z.op \notin GroupPhase \cup {"synced", "compare"}
         /\ Due(c) /\ UserDue(u) => (\A z \in N : Due(z)') /\ UserDue(u)'
    BY <1>13, <1>16, <1>17
  <1> HIDE DEF N
  <1> QED
    BY <1>1, <1>2, <1>4, <1>13, <1>15, <1>18, UserStep

\* It has nothing to do for a user it does not find and who left no group.
LEMMA SkippedMirrors ==
  ASSUME TypesInv, MirrorInv, At("sync", "compare"), Done("sync"),
         ~Cur("sync").found, Cur("sync").removed = {},
         UNCHANGED <<tables, excuse, ad, homes, synced, faults>>
  PROVE  MirrorInv'
  <1> DEFINE c == Cur("sync")
  <1>1. /\ "sync" \in Actors /\ todo["sync"] # <<>> /\ c \in Steps
        /\ c.op = "compare" /\ c \in Pending
    BY Current DEF TypesInv, Actors, Pending
  <1>2. PICK u \in Users : u = c.u
    BY <1>1, Fields
  <1>3. user[u] # NoRow
    BY <1>1, <1>2 DEF TypesInv, SyncInv, Needy, Pending
  <1>4. ShapeInv' /\ Kept /\ Pending' \subseteq Pending
    <2>1. Exists => Exists'
      BY DEF tables, Exists
    <2> QED
      BY <1>1, <2>1, SyncSteps DEF TypesInv, MirrorInv
  <1>5. c.op \in UserPhase /\ UNCHANGED <<user, group>>
    BY <1>1 DEF UserPhase, tables
  <1>6. ASSUME Due(c), UserDue(u)
        PROVE  UserDue(u)'
    <2>1. ad.of[u] # NoRow /\ u \in ad.renamed
      BY <1>1, <1>2, <1>6 DEF Due
    <2>2. ASSUME user[u].enabled = TRUE, NEW g \in Groups, group[g] = "enabled"
          PROVE  Differs(u, g)'
      <3>1. Differs(u, g)
        BY <1>3, <1>6, <2>1, <2>2 DEF UserDue
      <3>2. \A y \in Pending : y.op \in {"compare", "remove_from_group"} => y \in Pending' \/ y = c
        BY <1>2, <1>4, Remainder
      <3>3. ASSUME g \in user[u].groups, g \notin ad.of[u]
            PROVE  \/ [op |-> "remove_from_group", u |-> u, g |-> g] \in Pending'
                   \/ \E x \in Pending' : x.op = "compare" /\ x.u = u /\ g \in x.removed
        BY <1>1, <3>1, <3>2, <3>3 DEF Differs
      <3> QED
        BY <1>5, <2>1, <3>3 DEF Differs
    <2> QED
      BY <1>3, <1>5, <2>1, <2>2 DEF UserDue
  <1> DEFINE N == {}
  <1>7. /\ \A z \in Pending' : z \in N \/ z \in Pending
        /\ \A z \in N : z.op \notin GroupPhase \cup {"synced", "compare"}
        /\ Due(c) /\ UserDue(u) => (\A z \in N : Due(z)') /\ UserDue(u)'
    BY <1>4, <1>6
  <1> HIDE DEF N
  <1> QED
    BY <1>1, <1>2, <1>3, <1>4, <1>5, <1>7, UserStep

\* It ends at a user it does not find and who left a group.
LEMMA AbortedMirrors ==
  ASSUME TypesInv, MirrorInv, At("sync", "compare"), Raise("sync", {}), synced' = "no",
         UNCHANGED <<tables, excuse, ad, homes, faults>>
  PROVE  MirrorInv'
  <1> DEFINE t == todo["sync"]
  <1>1. "sync" \in Actors /\ t \in Seq(StepsOf("sync")) /\ t # <<>> /\ t[1].op = "compare"
    BY DEF TypesInv, PlansInv, Actors, At, Cur
  <1>2. todo'["sync"] = <<>>
    BY <1>1, Uncaught DEF TypesInv
  <1>3. Pending' = {} /\ Len(todo'["sync"]) = 0
    BY <1>2 DEF Pending, Elems
  <1>4. ShapeInv'
    BY <1>3 DEF ShapeInv, Apart, OnlyLast, HomesFirst
  <1>5. GroupsInv' /\ UsersInv'
    BY <1>3 DEF GroupsInv, UsersInv
  <1>6. \A x \in Pending : x.op # "request_home"
    <2> SUFFICES ASSUME NEW j \in 1 .. Len(t)
                 PROVE  t[j].op # "request_home"
      BY DEF Pending, Elems
    <2>1. HomesFirst(t) /\ 1 \in 1 .. Len(t) /\ Len(t) \in Nat
      BY <1>1 DEF MirrorInv, ShapeInv
    <2>2. CASE j = 1
      BY <1>1, <2>2
    <2>3. CASE j # 1
      BY <1>1, <2>1, <2>3 DEF HomesFirst
    <2> QED
      BY <2>2, <2>3
  <1>7. HomesInv'
    BY <1>6, HomesRead DEF MirrorInv, tables
  <1> QED
    BY <1>4, <1>5, <1>7 DEF MirrorInv

LEMMA CompareMirrors ==
  ASSUME TypesInv, MirrorInv, CompareUser("sync")
  PROVE  MirrorInv'
  <1>1. At("sync", "compare") /\ UNCHANGED <<tables, excuse, ad, homes, faults>>
    BY DEF CompareUser
  <1>2. CASE Cur("sync").found
    BY <1>2, FoundMirrors
  <1>3. CASE ~Cur("sync").found /\ Cur("sync").removed = {}
    BY <1>1, <1>3, SkippedMirrors DEF CompareUser
  <1>4. CASE ~Cur("sync").found /\ Cur("sync").removed # {}
    BY <1>1, <1>4, AbortedMirrors DEF CompareUser
  <1> QED
    BY <1>2, <1>3, <1>4

-----------------------------------------------------------------------------
(* The end of a synchronisation *)

\* The rows of enabled users and groups say what the directory says, but for
\* the users whose names differ.
Mirrored ==
    /\ Rows \subseteq InDirectory /\ Rows \subseteq homes
    /\ faults = 0 => InDirectory \subseteq Rows \cup ad.renamed /\ Known = ad.groups
    /\ \A u \in Rows, g \in Known :
          user[u].enabled /\ group[g] = "enabled" =>
              /\ g \in user[u].groups => g \in ad.of[u]
              /\ g \in ad.of[u] => g \in user[u].groups \/ u \in ad.renamed

\* So it is until something disturbs the synchronisation.
MirroredInv == synced = "yes" /\ excuse = {} => Mirrored

\* What was to be done is done.
LEMMA SyncedMirrors ==
  ASSUME TypesInv, QuietInv, MirrorInv, Synced("sync")
  PROVE  MirrorInv' /\ MirroredInv' /\ QuietInv'
  <1> DEFINE c == Cur("sync")
  <1>1. At("sync", "synced") /\ OnlyLast(todo["sync"], "synced")
    BY DEF Synced, MirrorInv, ShapeInv
  <1>2. /\ "sync" \in Actors /\ todo["sync"] # <<>> /\ Len(todo["sync"]) = 1
        /\ Pending = {c} /\ c.op = "synced"
    BY <1>1, Alone DEF TypesInv
  <1>3. todo'["sync"] = <<>> /\ \A b \in Actors : b # "sync" => todo'[b] = todo[b]
    <2> DEFINE s == <<>>
    <2>1. s \in Seq(StepsOf("sync")) /\ s = <<>>
      BY Singles
    <2>2. Continue("sync", s)
      BY DEF Synced, Done
    <2> HIDE DEF s
    <2> QED
      BY <1>2, <2>1, <2>2, Advance DEF TypesInv
  <1>4. Pending' = {} /\ Len(todo'["sync"]) = 0
    BY <1>3 DEF Pending, Elems
  <1>5. UNCHANGED <<tables, excuse, ad, homes, faults>>
    BY DEF Synced
  <1>6. MirrorInv'
    <2>1. ShapeInv'
      BY <1>4 DEF ShapeInv, Apart, OnlyLast, HomesFirst
    <2>2. GroupsInv' /\ UsersInv'
      BY <1>4 DEF GroupsInv, UsersInv
    <2>3. HomesInv'
      BY <1>2, <1>5, HomesRead DEF MirrorInv, tables
    <2> QED
      BY <2>1, <2>2, <2>3 DEF MirrorInv
  <1>7. synced' = IF synced = "running" THEN "yes" ELSE synced
    BY DEF Synced
  <1>8. QuietInv'
    <2>1. todo'["api"] = todo["api"]
      BY <1>3 DEF Actors
    <2> QED
      BY <1>3, <1>7, <2>1 DEF QuietInv
  <1>9. MirroredInv'
    <2>1. SUFFICES ASSUME synced' = "yes", excuse' = {}
                   PROVE  Mirrored'
      BY DEF MirroredInv
    <2>2. Live
      BY <1>2, <1>5, <1>7, <2>1 DEF QuietInv, Live
    <2>3. GroupsDue /\ \A u \in Users : UserDue(u)
      BY <1>2, <2>2 DEF MirrorInv, GroupsInv, UsersInv
    <2>4. HomesInv /\ excuse = {}
      BY <2>2 DEF MirrorInv, Live
    <2>5. ASSUME NEW u \in Users
          PROVE  /\ user[u] # NoRow => ad.of[u] # NoRow /\ u \in homes
                 /\ faults = 0 /\ u \notin ad.renamed /\ ad.of[u] # NoRow => user[u] # NoRow
                 /\ user[u] # NoRow /\ user[u].enabled = TRUE =>
                       \A g \in Groups : group[g] = "enabled" =>
                           /\ g \in user[u].groups => g \in ad.of[u]
                           /\ g \in ad.of[u] => g \in user[u].groups \/ u \in ad.renamed
      <3>1. /\ user[u] # NoRow => ad.of[u] # NoRow
            /\ faults = 0 /\ u \notin ad.renamed /\ ad.of[u] # NoRow => user[u] # NoRow
        BY <1>2, <2>3 DEF UserDue
      <3>2. user[u] # NoRow => u \in homes
        BY <1>2, <2>4 DEF HomesInv, Home
      <3>3. ASSUME user[u] # NoRow, user[u].enabled = TRUE, NEW g \in Groups, group[g] = "enabled"
            PROVE  /\ g \in user[u].groups => g \in ad.of[u]
                   /\ g \in ad.of[u] => g \in user[u].groups \/ u \in ad.renamed
        <4>1. Differs(u, g)
          BY <2>3, <3>1, <3>3 DEF UserDue
        <4> QED
          BY <1>2, <4>1 DEF Differs, AddToGroup
      <3> QED
        BY <3>1, <3>2, <3>3
    <2>6. faults = 0 => \A g \in Groups : g \in ad.groups <=> group[g] # "none"
      BY <1>2, <2>3 DEF GroupsDue
    <2>7. ad.groups \subseteq Groups
      BY DEF TypesInv, Others
    <2>8. Rows \subseteq InDirectory /\ Rows \subseteq homes
      BY <2>5 DEF Rows, InDirectory
    <2>9. faults = 0 => InDirectory \subseteq Rows \cup ad.renamed /\ Known = ad.groups
      BY <2>5, <2>6, <2>7 DEF Known, Rows, InDirectory
    <2>10. ASSUME NEW u \in Rows, NEW g \in Known, user[u].enabled, group[g] = "enabled"
           PROVE  /\ g \in user[u].groups => g \in ad.of[u]
                  /\ g \in ad.of[u] => g \in user[u].groups \/ u \in ad.renamed
      <3>1. user[u].enabled = TRUE
        BY <2>10 DEF TypesInv, Tables, Rows
      <3> QED
        BY <2>5, <2>10, <3>1 DEF Rows, Known
    <2>11. Mirrored
      BY <2>8, <2>9, <2>10 DEF Mirrored
    <2> QED
      BY <1>5, <2>11 DEF Mirrored, Rows, Known, InDirectory, tables
  <1> QED
    BY <1>6, <1>8, <1>9

-----------------------------------------------------------------------------
(* The links of a project *)

\* Only a refresh leads to links, and a deletion only to what it consists of.
Lawful(x, c) ==
    /\ x.op \in {"link", "refresh"} => c.op = "refresh" /\ Exists
    /\ c.op \in Deleting => x.op \in Deleting /\ x.op # "drop_project"

\* What a step of UserProjectsDAO leads to.
LEMMA AccessStep ==
  ASSUME Tables, PlansInv, NEW a \in Actors, UserProjectsStep(a)
  PROVE  /\ \/ RaiseSoca(a) \/ RaiseOther(a)
            \/ \E s \in Seq(StepsOf(a)) : Continue(a, s) /\ \A x \in Elems(s) : Lawful(x, Cur(a))
         /\ Cur(a).op \notin {"link", "unlink"} => links' = links
         /\ Cur(a).op = "unlink" => links' = links \ {Cur(a).g}
  <1> DEFINE Goal == \E s \in Seq(StepsOf(a)) : Continue(a, s) /\ \A x \in Elems(s) : Lawful(x, Cur(a))
  <1>1. ASSUME NEW x \in StepsOf(a), Continue(a, <<x>>), Lawful(x, Cur(a))
        PROVE  Goal
    <2>1. <<x>> \in Seq(StepsOf(a)) /\ Elems(<<x>>) = {x}
      BY Singles
    <2> QED
      BY <1>1, <2>1
  <1>2. ASSUME Continue(a, <<>>)
        PROVE  Goal
    <2>1. <<>> \in Seq(StepsOf(a)) /\ Elems(<<>>) = {}
      BY Singles
    <2> QED
      BY <1>2, <2>1
  <1>3. ASSUME NEW D \in SUBSET Users, NEW f \in [D -> StepsOf(a)], Continue(a, ForEach(f)),
               \A d \in D : Lawful(f[d], Cur(a))
        PROVE  Goal
    <2> DEFINE s == ForEach(f)
    <2>1. D \in (SUBSET Users) \cup (SUBSET Groups) /\ s = ForEach(f) /\ Continue(a, s)
      BY <1>3
    <2> HIDE DEF s
    <2>2. s \in Seq(StepsOf(a)) /\ \A x \in Elems(s) : \E d \in D : x = f[d]
      BY <2>1, Fan
    <2>3. \A x \in Elems(s) : Lawful(x, Cur(a))
      BY <1>3, <2>2
    <2> QED
      BY <2>1, <2>2, <2>3
  <1> HIDE DEF Goal
  <1> SUFFICES /\ RaiseSoca(a) \/ RaiseOther(a) \/ Goal
               /\ Cur(a).op \notin {"link", "unlink"} => links' = links
               /\ Cur(a).op = "unlink" => links' = links \ {Cur(a).g}
    BY DEF Goal
  <1>4. CASE Link(a)
    <2> DEFINE x == [op |-> "grant_members", g |-> Cur(a).g]
    <2>1. a = "projects" /\ Cur(a).g \in Groups /\ Cur(a).op = "link"
      BY <1>4, Current, Fields DEF Link, ApiOps, SyncOps, Ends, Actors, GroupOps
    <2>2. x \in StepsOf(a) /\ Lawful(x, Cur(a))
      BY <2>1 DEF StepsOf, Steps, GroupOps, ProjectsOps, Lawful, Deleting
    <2>3. Continue(a, <<x>>)
      BY <1>4 DEF Link
    <2> HIDE DEF x
    <2> QED
      BY <1>1, <2>1, <2>2, <2>3
  <1>5. CASE Unlink(a)
    <2> DEFINE x == [op |-> "revoke_members", g |-> Cur(a).g]
    <2>1. Cur(a).g \in Groups /\ Cur(a).op = "unlink"
      BY <1>5, Current, Fields DEF Unlink, GroupOps
    <2>2. x \in StepsOf(a) /\ Lawful(x, Cur(a))
      BY <2>1
         DEF StepsOf, Steps, GroupOps, ProjectsOps, ApiOps, SyncOps, Actors, Lawful, Deleting
    <2>3. Continue(a, <<x>>) /\ links' = links \ {Cur(a).g}
      BY <1>5 DEF Unlink
    <2> HIDE DEF x
    <2> QED
      BY <1>1, <2>1, <2>2, <2>3
  <1>6. CASE GrantMembers(a)
    <2>1. a = "projects" /\ Cur(a).g \in Groups /\ Cur(a).op = "grant_members"
      BY <1>6, Current, Fields DEF GrantMembers, ApiOps, SyncOps, Ends, Actors, GroupOps
    <2> DEFINE D == members[Cur(a).g]
               f == [u \in D |-> CreateUserProject(u, Cur(a).g)]
    <2>2. D \in SUBSET Users /\ Continue(a, ForEach(f)) /\ links' = links
      BY <1>6, <2>1 DEF GrantMembers, Tables, tables
    <2>3. f \in [D -> StepsOf(a)] /\ \A u \in D : f[u].op = "grant"
      BY <2>1, <2>2 DEF StepsOf, Steps, ProjectsOps, CreateUserProject, Reasons
    <2>4. \A u \in D : Lawful(f[u], Cur(a))
      BY <2>1, <2>3 DEF Lawful, Deleting
    <2> HIDE DEF D, f
    <2> QED
      BY <1>3, <2>1, <2>2, <2>3, <2>4
  <1>7. CASE RevokeMembers(a)
    <2>1. Cur(a).g \in Groups /\ Cur(a).op = "revoke_members"
      BY <1>7, Current, Fields DEF RevokeMembers, GroupOps
    <2> DEFINE D == members[Cur(a).g]
               f == [u \in D |-> DeleteUserProject(u, Cur(a).g)]
    <2>2. D \in SUBSET Users /\ Continue(a, ForEach(f)) /\ links' = links
      BY <1>7, <2>1 DEF RevokeMembers, Tables, tables
    <2>3. f \in [D -> StepsOf(a)] /\ \A u \in D : f[u].op = "revoke"
      BY <2>1, <2>2
         DEF StepsOf, Steps, ProjectsOps, ApiOps, SyncOps, Actors, DeleteUserProject, Reasons
    <2>4. \A u \in D : Lawful(f[u], Cur(a))
      BY <2>1, <2>3 DEF Lawful, Deleting
    <2> HIDE DEF D, f
    <2> QED
      BY <1>3, <2>1, <2>2, <2>3, <2>4
  <1>8. CASE MemberChanged(a)
    <2> DEFINE x == CreateUserProject(Cur(a).u, Cur(a).g)
               y == DeleteUserProject(Cur(a).u, Cur(a).g)
    <2>1. At(a, "member_added") \/ At(a, "member_removed")
      BY <1>8 DEF MemberChanged
    <2>2. /\ Cur(a).g \in Groups /\ Cur(a).u \in Users
          /\ Cur(a).op \in {"member_added", "member_removed"}
          /\ a \in {"api", "sync"} /\ (At(a, "member_removed") => a = "sync")
      BY <2>1, Current, Fields DEF MemberOps, Actors, ProjectsOps, ApiOps
    <2>3. /\ x \in StepsOf(a) /\ Lawful(x, Cur(a))
          /\ a = "sync" => y \in StepsOf(a) /\ Lawful(y, Cur(a))
      BY <2>2
         DEF StepsOf, Steps, ApiOps, SyncOps, CreateUserProject, DeleteUserProject,
             Reasons, Lawful, Deleting
    <2>4. /\ \/ Continue(a, <<x>>) \/ Continue(a, <<>>) \/ (a = "sync" /\ Continue(a, <<y>>))
          /\ links' = links
      BY <1>8, <2>2 DEF MemberChanged, tables
    <2> HIDE DEF x, y
    <2> QED
      BY <1>1, <1>2, <2>2, <2>3, <2>4
  <1>9. CASE Grant(a)
    <2> DEFINE x == [op |-> "write", u |-> Cur(a).u, row |-> access[Cur(a).u] \cup {Cur(a).by}]
    <2>1. Cur(a).u \in Users /\ Cur(a).by \in Reasons /\ Cur(a).op = "grant"
      BY <1>9, Current, Fields DEF Grant
    <2>2. x \in StepsOf(a) /\ Lawful(x, Cur(a))
      BY <2>1 DEF StepsOf, Steps, Tables, ProjectsOps, ApiOps, SyncOps, Actors, Lawful, Deleting
    <2>3. Continue(a, <<x>>) /\ links' = links
      BY <1>9 DEF Grant, tables
    <2> HIDE DEF x
    <2> QED
      BY <1>1, <2>1, <2>2, <2>3
  <1>10. CASE Revoke(a)
    <2> DEFINE x == [op |-> "write", u |-> Cur(a).u, row |-> access[Cur(a).u] \ {Cur(a).by}]
    <2>1. Cur(a).u \in Users /\ Cur(a).by \in Reasons /\ Cur(a).op = "revoke"
      BY <1>10, Current, Fields DEF Revoke
    <2>2. x \in StepsOf(a) /\ Lawful(x, Cur(a))
      BY <2>1 DEF StepsOf, Steps, Tables, ProjectsOps, ApiOps, SyncOps, Actors, Lawful, Deleting
    <2>3. /\ RaiseSoca(a) \/ Continue(a, <<>>) \/ Continue(a, <<x>>)
          /\ links' = links
      BY <1>10 DEF Revoke, tables
    <2> HIDE DEF x
    <2> QED
      BY <1>1, <1>2, <2>1, <2>2, <2>3
  <1>11. CASE Write(a)
    BY <1>2, <1>11 DEF Write, Done, At, Cur
  <1>12. CASE Refresh(a)
    <2>1. a = "projects" /\ Cur(a).op = "refresh"
      BY <1>12, Current DEF Refresh, ApiOps, SyncOps, Ends, Actors
    <2>2. /\ RaiseOther(a) \/ (Exists /\ Continue(a, ProjectEnabled))
          /\ links' = links
      BY <1>12 DEF Refresh, tables
    <2>3. ProjectEnabled \in Seq(StepsOf(a))
      BY <2>1, Projected
    <2>4. Exists => \A x \in Elems(ProjectEnabled) : Lawful(x, Cur(a))
      BY <2>1 DEF Lawful, Deleting
    <2> QED
      BY <2>1, <2>2, <2>3, <2>4 DEF Goal
  <1> QED
    BY <1>4, <1>5, <1>6, <1>7, <1>8, <1>9, <1>10, <1>11, <1>12 DEF UserProjectsStep

\* While a task is under way, the requests stay light.
LEMMA TaskKept ==
  ASSUME TaskInv, todo'["projects"] # <<>> => todo["projects"] # <<>>,
         \/ \A x \in Elems(todo'["api"]) : x \in Elems(todo["api"]) \/ x.op \in Light
         \/ \E x \in Elems(todo["api"]) : x.op \notin Light
  PROVE  TaskInv'
  BY DEF TaskInv

\* A step that has nothing to do with a deletion of the project.
LEMMA NoDeletion ==
  ASSUME LinksInv, links' \subseteq links, Exists => Exists',
         OnlyLast(todo'["api"], "drop_project"),
         [op |-> "drop_project"] \notin Elems(todo'["api"]),
         \A x \in Elems(todo'["projects"]) :
            x \in Elems(todo["projects"]) \/ x.op \notin {"link", "refresh"}
  PROVE  LinksInv'
  BY DEF LinksInv

\* A step of another actor than the requests.
LEMMA LinksUntouched ==
  ASSUME LinksInv, links' = links, Exists => Exists', todo'["api"] = todo["api"],
         \A x \in Elems(todo'["projects"]) :
            x \in Elems(todo["projects"]) \/ x.op \notin {"link", "refresh"}
  PROVE  LinksInv'
  BY DEF LinksInv

\* The steps of UserProjectsDAO.
LEMMA AccessLinks ==
  ASSUME MembershipInv, TaskInv, LinksInv, NEW a \in Actors, UserProjectsStep(a)
  PROVE  TaskInv' /\ LinksInv'
  <1> DEFINE c == Cur(a)
             drop == [op |-> "drop_project"]
  <1>1. Tables /\ PlansInv
    BY DEF MembershipInv, TypesInv
  <1>2. /\ UNCHANGED <<user, group, members, project, excuse>>
        /\ todo[a] # <<>> /\ c.op \in AccessOps
        /\ \A b \in Actors : b # a => todo'[b] = todo[b]
        /\ \A x \in Elems(todo'[a]) : x \in Elems(Tail(todo[a])) \/ x.op \in AccessOps
        /\ Elems(todo[a]) = {c} \cup Elems(Tail(todo[a]))
        /\ \A op : op \notin AccessOps /\ OnlyLast(todo[a], op) => OnlyLast(todo'[a], op)
        /\ c.op \notin {"revoke", "refresh"} =>
              \A x \in Elems(Tail(todo[a])) : x.op \in Ends \/ x \in Elems(todo'[a])
    BY <1>1, UserProjectsTypes
  <1>3. /\ c \in Elems(todo[a]) /\ c \in Steps /\ c \in StepsOf(a)
        /\ c.op \notin Light
    <2>1. c \in StepsOf(a)
      BY <1>1, <1>2 DEF PlansInv, Cur
    <2> QED
      BY <1>2, <2>1 DEF StepsOf, AccessOps, Light
  <1>4. /\ \/ RaiseSoca(a) \/ RaiseOther(a)
           \/ \E s \in Seq(StepsOf(a)) : Continue(a, s) /\ \A x \in Elems(s) : Lawful(x, c)
        /\ c.op \notin {"link", "unlink"} => links' = links
        /\ c.op = "unlink" => links' = links \ {c.g}
    BY <1>1, AccessStep
  <1>5. Exists' <=> Exists
    BY <1>2 DEF Exists
  <1> HIDE DEF c
  <1>6. TaskInv'
    <2>1. CASE a = "api"
      BY <1>2, <1>3, <2>1, TaskKept DEF Actors
    <2>2. CASE a # "api"
      <3>1. todo'["api"] = todo["api"] /\ (todo'["projects"] # <<>> => todo["projects"] # <<>>)
        BY <1>2, <2>2 DEF Actors
      <3> QED
        BY <3>1, TaskKept
    <2> QED
      BY <2>1, <2>2
  <1>7. \A x \in Elems(todo'[a]) :
           \/ x \in Elems(Tail(todo[a]))
           \/ Lawful(x, c)
    <2>1. CASE RaiseSoca(a) \/ RaiseOther(a)
      BY <1>1, <1>2, <2>1, Escape DEF RaiseSoca, RaiseOther
    <2>2. CASE \E s \in Seq(StepsOf(a)) : Continue(a, s) /\ \A x \in Elems(s) : Lawful(x, c)
      <3>1. PICK s \in Seq(StepsOf(a)) : Continue(a, s) /\ \A x \in Elems(s) : Lawful(x, c)
        BY <2>2
      <3>2. Elems(todo'[a]) \subseteq Elems(s) \cup Elems(Tail(todo[a]))
        BY <1>1, <1>2, <3>1, Advance
      <3> QED
        BY <3>1, <3>2
    <2> QED
      BY <1>4, <2>1, <2>2
  <1>8. CASE a = "projects"
    <2>1. todo["projects"] # <<>> /\ todo'["api"] = todo["api"]
      BY <1>2, <1>8 DEF Actors
    <2>2. drop \notin Elems(todo["api"])
      BY <2>1 DEF TaskInv, Light
    <2>3. CASE ~Exists
      <3>1. links = {} /\ c.op \notin {"link", "refresh"}
        BY <1>3, <1>8, <2>3 DEF LinksInv
      <3>2. links' = {}
        BY <1>4, <3>1
      <3>3. \A x \in Elems(todo'["projects"]) : x.op \notin {"link", "refresh"}
        BY <1>2, <1>7, <1>8, <2>3, <3>1 DEF LinksInv, Lawful
      <3> QED
        BY <1>6, <2>1, <2>2, <3>2, <3>3 DEF LinksInv
    <2>4. CASE Exists
      BY <1>5, <1>6, <2>1, <2>2, <2>4 DEF LinksInv
    <2> QED
      BY <2>3, <2>4
  <1>9. CASE a = "sync"
    <2>1. /\ todo["sync"] # <<>> /\ todo'["api"] = todo["api"]
          /\ todo'["projects"] = todo["projects"]
      BY <1>2, <1>9 DEF Actors
    <2>2. drop \notin Elems(todo'["api"]) /\ OnlyLast(todo'["api"], "drop_project")
      BY <2>1 DEF MembershipInv, ExclusiveInv, LinksInv, Light
    <2>3. c.op # "link"
      BY <1>3, <1>9 DEF StepsOf, SyncOps, Ends
    <2>4. links' \subseteq links
      BY <1>4, <2>3
    <2> QED
      BY <1>5, <1>6, <2>1, <2>2, <2>4, NoDeletion
  <1>10. CASE a = "api"
    <2>1. todo'["projects"] = todo["projects"]
      BY <1>2, <1>10 DEF Actors
    <2>2. c.op # "link"
      BY <1>3, <1>10 DEF StepsOf, ApiOps
    <2>3. links' \subseteq links
      BY <1>4, <2>2
    <2>4. OnlyLast(todo'["api"], "drop_project")
      BY <1>2, <1>10 DEF LinksInv, AccessOps
    <2>5. CASE drop \notin Elems(todo'["api"])
      BY <1>5, <1>6, <2>1, <2>3, <2>4, <2>5, NoDeletion
    <2>6. CASE drop \in Elems(todo'["api"])
      <3>1. drop \in Elems(todo["api"])
        BY <1>2, <1>10, <2>6 DEF AccessOps
      <3>2. /\ \A x \in Elems(todo["api"]) : x.op \in Deleting
            /\ \A g \in links : GroupRemoved(g) \in Elems(todo["api"])
        BY <3>1 DEF LinksInv
      <3>3. c.op \in Deleting
        BY <1>3, <1>10, <3>2
      <3>4. \A x \in Elems(todo'["api"]) : x.op \in Deleting
        BY <1>2, <1>7, <1>10, <3>2, <3>3 DEF Lawful
      <3>5. \A x \in Elems(Tail(todo["api"])) : x \in Elems(todo'["api"])
        <4>1. CASE RaiseSoca("api") \/ RaiseOther("api")
          <5>1. PICK C \in {{"catch", "catch_all"}, {"catch_all"}} : Raise("api", C)
            BY <4>1 DEF RaiseSoca, RaiseOther
          <5>2. \A x \in Elems(todo["api"]) : x.op \notin C
            BY <3>2 DEF Deleting
          <5>3. todo'["api"] = <<>>
            BY <1>1, <1>10, <5>1, <5>2, Uncaught
          <5> QED
            BY <2>6, <5>3, Singles
        <4>2. CASE \E s \in Seq(StepsOf("api")) : Continue("api", s)
          <5>1. PICK s \in Seq(StepsOf("api")) : Continue("api", s)
            BY <4>2
          <5>2. \A x \in Elems(s) \cup Elems(Tail(todo["api"])) : x.op \in Ends \/ x \in Elems(todo'["api"])
            BY <1>1, <1>2, <1>10, <5>1, Advance
          <5>3. \A x \in Elems(Tail(todo["api"])) : x.op \notin Ends
            BY <1>2, <1>10, <3>2 DEF Deleting, Ends
          <5> QED
            BY <5>2, <5>3
        <4> QED
          BY <1>4, <1>10, <4>1, <4>2
      <3>6. ASSUME NEW g \in links'
            PROVE  GroupRemoved(g) \in Elems(todo'["api"])
        <4>1. g \in links /\ GroupRemoved(g) \in Elems(todo["api"])
          BY <2>3, <3>2, <3>6
        <4>2. c # GroupRemoved(g)
          <5>1. SUFFICES ASSUME c = GroupRemoved(g)
                         PROVE  FALSE
            OBVIOUS
          <5>2. c.op = "unlink" /\ c.g = g
            BY <5>1 DEF GroupRemoved
          <5> QED
            BY <1>1, <1>4, <1>10, <2>2, <3>6, <5>2
        <4>3. GroupRemoved(g) \in Elems(Tail(todo["api"]))
          BY <1>2, <1>10, <4>1, <4>2
        <4> QED
          BY <3>5, <4>3
      <3>7. ~Exists' => links' = {} /\ \A x \in Elems(todo'["projects"]) : x.op \notin {"link", "refresh"}
        BY <1>5, <2>1, <2>3 DEF LinksInv
      <3> QED
        BY <1>6, <2>4, <3>4, <3>6, <3>7 DEF LinksInv
    <2> QED
      BY <2>5, <2>6
  <1> QED
    BY <1>8, <1>9, <1>10 DEF Actors

-----------------------------------------------------------------------------
(* The invariant of the mirror *)

\* A synchronisation mirrors the directory while nothing disturbs it.
SyncedInv == TaskInv /\ LinksInv /\ AdInv /\ QuietInv /\ MirrorInv /\ MirroredInv

\* A step that leaves the synchronisation alone, or disturbs it.
LEMMA Aside ==
  ASSUME MirrorInv, MirroredInv, todo'["sync"] = todo["sync"], homes' = homes,
         excuse \subseteq excuse', Exists => Exists' \/ Pending = {},
         \A u \in Users : user'[u] # NoRow => user[u] # NoRow,
         \/ synced' = "no"
         \/ /\ UNCHANGED <<ad, faults, synced, group>>
            /\ \A u \in Users : /\ user'[u] = NoRow <=> user[u] = NoRow
                                /\ user[u] # NoRow => /\ user'[u].enabled = user[u].enabled
                                                      /\ user'[u].groups = user[u].groups
  PROVE  MirrorInv' /\ MirroredInv'
  <1>1. Pending' = Pending
    BY DEF Pending
  <1>2. ShapeInv'
    BY <1>1 DEF MirrorInv, ShapeInv
  <1>3. HomesInv'
    BY <1>1 DEF MirrorInv, HomesInv
  <1>4. CASE synced' = "no"
    BY <1>2, <1>3, <1>4 DEF MirrorInv, MirroredInv, GroupsInv, UsersInv, Live
  <1>5. CASE /\ UNCHANGED <<ad, faults, synced, group>>
             /\ \A u \in Users : /\ user'[u] = NoRow <=> user[u] = NoRow
                                 /\ user[u] # NoRow => /\ user'[u].enabled = user[u].enabled
                                                       /\ user'[u].groups = user[u].groups
    <2>1. excuse' = {} => excuse = {}
      OBVIOUS
    <2>2. GroupsInv'
      BY <1>1, <1>5, <2>1 DEF MirrorInv, GroupsInv, GroupsDue, Live
    <2>3. UsersInv'
      <3>1. SUFFICES ASSUME synced' = "running", excuse' = {}, \E x \in Pending' : x.op = "synced"
                     PROVE  (\A x \in Pending' : Due(x)') /\ (\A u \in Users : UserDue(u)')
        BY DEF UsersInv, Live
      <3>2. (\A x \in Pending : Due(x)) /\ (\A u \in Users : UserDue(u))
        BY <1>1, <1>5, <2>1, <3>1 DEF MirrorInv, UsersInv, Live
      <3>3. \A x \in Pending' : Due(x)'
        BY <1>1, <1>5, <3>2 DEF Due
      <3>4. ASSUME NEW u \in Users
            PROVE  UserDue(u)'
        <4>1. ASSUME NEW g \in Groups, user[u] # NoRow, Differs(u, g)
              PROVE  Differs(u, g)'
          BY <1>1, <1>5, <4>1 DEF Differs
        <4>2. UserDue(u)
          BY <3>2
        <4> QED
          BY <1>1, <1>5, <4>1, <4>2 DEF UserDue
      <3> QED
        BY <3>3, <3>4
    <2>4. MirroredInv'
      <3>1. SUFFICES ASSUME synced' = "yes", excuse' = {}
                     PROVE  Mirrored'
        BY DEF MirroredInv
      <3>2. Mirrored
        BY <1>5, <2>1, <3>1 DEF MirroredInv
      <3>3. Rows' = Rows /\ Known' = Known
        BY <1>5 DEF Rows, Known
      <3>4. \A u \in Rows : user'[u].enabled = user[u].enabled /\ user'[u].groups = user[u].groups
        BY <1>5 DEF Rows
      <3>5. (Rows \subseteq InDirectory /\ Rows \subseteq homes)'
        BY <1>5, <3>2, <3>3 DEF Mirrored, InDirectory
      <3>6. (faults = 0 => InDirectory \subseteq Rows \cup ad.renamed /\ Known = ad.groups)'
        BY <1>5, <3>2, <3>3 DEF Mirrored, InDirectory
      <3>7. ASSUME NEW u \in Rows, NEW g \in Known, user'[u].enabled, group'[g] = "enabled"
            PROVE  /\ g \in user'[u].groups => g \in ad'.of[u]
                   /\ g \in ad'.of[u] => g \in user'[u].groups \/ u \in ad'.renamed
        <4>1. user[u].enabled /\ group[g] = "enabled" /\ user'[u].groups = user[u].groups
              /\ ad' = ad
          BY <1>5, <3>4, <3>7
        <4>2. /\ g \in user[u].groups => g \in ad.of[u]
              /\ g \in ad.of[u] => g \in user[u].groups \/ u \in ad.renamed
          BY <3>2, <4>1 DEF Mirrored
        <4> QED
          BY <4>1, <4>2
      <3> QED
        BY <3>3, <3>5, <3>6, <3>7 DEF Mirrored
    <2> QED
      BY <1>2, <1>3, <2>2, <2>3, <2>4 DEF MirrorInv
  <1> QED
    BY <1>4, <1>5

\* A request begins, with a light plan or while no task is under way.
LEMMA PlanMirrors ==
  ASSUME MembershipInv, SyncedInv, Idle("api"), NEW p, Plan(p),
         UNCHANGED <<user, group, links, ad, homes, faults>>, excuse \subseteq excuse',
         synced' \in {synced, "no"}, Exists => Exists',
         OnlyLast(p, "drop_project"),
         [op |-> "drop_project"] \in Elems(p) =>
            /\ \A x \in Elems(p) : x.op \in Deleting
            /\ \A g \in links : GroupRemoved(g) \in Elems(p),
         \A x \in Elems(p) : x.op = "add_to_group" => synced' = "no",
         (\A x \in Elems(p) : x.op \in Light) \/ todo["projects"] = <<>>
  PROVE  SyncedInv'
  <1>1. /\ todo'["api"] = p /\ todo'["sync"] = todo["sync"]
        /\ todo'["projects"] = todo["projects"]
    BY DEF Plan, MembershipInv, TypesInv, PlansInv, Actors
  <1>2. TaskInv'
    BY <1>1 DEF TaskInv
  <1>3. LinksInv'
    BY <1>1 DEF SyncedInv, LinksInv
  <1>4. AdInv'
    BY DEF SyncedInv, AdInv
  <1>5. QuietInv'
    BY <1>1 DEF SyncedInv, QuietInv
  <1>6. MirrorInv' /\ MirroredInv'
    BY <1>1, Aside DEF SyncedInv
  <1> QED
    BY <1>2, <1>3, <1>4, <1>5, <1>6 DEF SyncedInv

\* Requests that fan out wait for the task.
LEMMA NoTask ==
  ASSUME PlansInv, ~Overlap, MayFan("api")
  PROVE  todo["projects"] = <<>>
  <1>1. \A x \in Elems(todo["projects"]) : x.op \in Light
    BY LightPlan DEF Actors
  <1>2. todo["projects"] \in Seq(StepsOf("projects"))
    BY DEF PlansInv, Actors
  <1>3. SUFFICES ASSUME todo["projects"] # <<>>
                 PROVE  FALSE
    OBVIOUS
  <1>4. todo["projects"][1] \in Elems(todo["projects"]) /\ todo["projects"][1] \in StepsOf("projects")
    <2> DEFINE t == todo["projects"]
    <2>1. 1 \in 1 .. Len(t) /\ t[1] \in StepsOf("projects")
      BY <1>2, <1>3
    <2> QED
      BY <2>1 DEF Elems
  <1> QED
    BY <1>1, <1>4 DEF StepsOf, ProjectsOps, Light

\* Requests keep the invariant of the mirror.
LEMMA RequestMirrors ==
  ASSUME MembershipInv, SyncedInv, ~Overlap, Request
  PROVE  SyncedInv'
  <1> DEFINE Row == [enabled : BOOLEAN, active : BOOLEAN, groups : SUBSET Groups]
             drop == [op |-> "drop_project"]
  <1>1. Tables /\ PlansInv
    BY DEF MembershipInv, TypesInv
  <1>2. ASSUME todo' = todo, UNCHANGED <<links, project, ad, homes, faults, excuse>>,
               synced' = "no", \A u \in Users : user'[u] # NoRow => user[u] # NoRow
        PROVE  SyncedInv'
    <2>1. Exists' <=> Exists
      BY <1>2 DEF Exists
    <2>2. TaskInv' /\ LinksInv'
      BY <1>2, <2>1 DEF SyncedInv, TaskInv, LinksInv
    <2>3. AdInv' /\ QuietInv'
      BY <1>2 DEF SyncedInv, AdInv, QuietInv
    <2>4. MirrorInv' /\ MirroredInv'
      BY <1>2, <2>1, Aside DEF SyncedInv
    <2> QED
      BY <2>2, <2>3, <2>4 DEF SyncedInv
  <1>3. ASSUME NEW x, x.op = "store", Idle("api"), Plan(<<x>>),
               UNCHANGED <<user, group, links, ad, homes, faults, synced>>,
               excuse \subseteq excuse', Exists => Exists'
        PROVE  SyncedInv'
    <2> DEFINE p == <<x>>
    <2>1. Elems(p) = {x} /\ Plan(p)
      BY <1>3, Singles
    <2>2. OnlyLast(p, "drop_project")
      BY <1>3 DEF OnlyLast
    <2> HIDE DEF p
    <2>3. /\ drop \notin Elems(p) /\ (\A y \in Elems(p) : y.op \in Light)
          /\ \A y \in Elems(p) : y.op # "add_to_group"
      BY <1>3, <2>1 DEF Light
    <2> QED
      BY <1>3, <2>1, <2>2, <2>3, PlanMirrors
  <1>4. CASE \E G \in GroupChoices, U \in UserChoices : CreateProject(G, U)
    <2> DEFINE x == SetState("enabled")
    <2>1. /\ x.op = "store" /\ Idle("api") /\ Plan(<<x>>)
          /\ UNCHANGED <<user, group, links, ad, homes, faults, synced>> /\ excuse' = excuse
          /\ project'.state = "disabled"
      BY <1>4 DEF CreateProject, Call, SetState, Undisturbed
    <2>2. Exists'
      BY <2>1 DEF Exists
    <2> HIDE DEF x
    <2> QED
      BY <1>3, <2>1, <2>2
  <1>5. CASE \E G \in GroupChoices, U \in UserChoices : UpdateProject(G, U)
    <2>1. PICK G \in GroupChoices, U \in UserChoices : UpdateProject(G, U)
      BY <1>5
    <2>2. /\ Idle("api") /\ excuse \subseteq excuse'
          /\ UNCHANGED <<user, group, links, ad, homes, faults, synced, project>>
      BY <2>1 DEF UpdateProject, Call, Undisturbed, tables
    <2>3. \E send : Plan(<<[op |-> "store", groups |-> G, users |-> U, send |-> send]>>)
      BY <2>1 DEF UpdateProject
    <2>4. PICK send : Plan(<<[op |-> "store", groups |-> G, users |-> U, send |-> send]>>)
      BY <2>3
    <2> DEFINE x == [op |-> "store", groups |-> G, users |-> U, send |-> send]
    <2>5. x.op = "store" /\ Plan(<<x>>)
      BY <2>4
    <2>6. Exists => Exists'
      BY <2>2 DEF Exists
    <2> HIDE DEF x
    <2> QED
      BY <1>3, <2>2, <2>5, <2>6
  <1>6. CASE EnableProject \/ DisableProject
    <2>1. PICK v \in {"enabled", "disabled"} : Plan(<<SetState(v)>>)
      BY <1>6 DEF EnableProject, DisableProject
    <2> DEFINE x == SetState(v)
    <2>2. /\ x.op = "store" /\ Idle("api") /\ Plan(<<x>>) /\ excuse' = excuse
          /\ UNCHANGED <<user, group, links, ad, homes, faults, synced, project>>
      BY <1>6, <2>1 DEF EnableProject, DisableProject, Call, SetState, Undisturbed, tables
    <2>3. Exists => Exists'
      BY <2>2 DEF Exists
    <2> HIDE DEF x
    <2> QED
      BY <1>3, <2>2, <2>3
  <1>7. CASE DeleteProject
    <2> DEFINE f == [g \in links |-> GroupRemoved(g)]
               p == ForEach(f)
               l == <<drop>>
               w == p \o l
    <2>1. /\ Idle("api") /\ MayFan("api") /\ Plan(w) /\ excuse' = excuse
          /\ UNCHANGED <<user, group, links, ad, homes, faults, synced, project>>
      BY <1>7 DEF DeleteProject, Call, Undisturbed, tables
    <2>2. todo["projects"] = <<>>
      BY <1>1, <2>1, NoTask
    <2>3. /\ f \in [links -> Steps] /\ drop \in Steps /\ p = ForEach(f)
          /\ links \in (SUBSET Users) \cup (SUBSET Groups)
          /\ \A g \in links : f[g] = GroupRemoved(g)
          /\ drop.op = "drop_project" /\ \A g \in links : f[g].op = "unlink"
      BY <1>1 DEF Tables, GroupRemoved, Steps, GroupOps, PlainOps
    <2> HIDE DEF f, p, drop
    <2>4. /\ p \in Seq(Steps) /\ \A y \in Elems(p) : \E g \in links : y = f[g]
          /\ \A g \in links : f[g] \in Elems(p)
      <3>1. /\ f \in [links -> Steps] /\ p = ForEach(f)
            /\ links \in (SUBSET Users) \cup (SUBSET Groups)
        BY <2>3
      <3>2. p \in Seq(Steps)
        BY <3>1, Fan
      <3>3. \A y \in Elems(p) : \E g \in links : y = f[g]
        BY <3>1, Fan
      <3>4. \A g \in links : f[g] \in Elems(p)
        BY <3>1, Fan
      <3> QED
        BY <3>2, <3>3, <3>4
    <2>5. l \in Seq(Steps) /\ Elems(l) = {drop} /\ Len(l) = 1
      BY <2>3, Singles
    <2> HIDE DEF l
    <2>6. Elems(w) = Elems(p) \cup {drop}
      BY <2>4, <2>5, ElemsOf
    <2>7. \A y \in Elems(p) : y.op = "unlink"
      BY <2>3, <2>4
    <2>8. OnlyLast(w, "drop_project")
      BY <2>4, <2>5, <2>7, Closed
    <2>9. \A y \in Elems(w) : y.op \in Deleting /\ y.op # "add_to_group"
      BY <2>3, <2>6, <2>7 DEF Deleting
    <2>10. \A g \in links : GroupRemoved(g) \in Elems(w)
      BY <2>3, <2>4, <2>6
    <2>11. Exists => Exists'
      BY <2>1 DEF Exists
    <2> HIDE DEF w
    <2> QED
      BY <2>1, <2>2, <2>8, <2>9, <2>10, <2>11, PlanMirrors DEF drop
  <1>8. CASE \E u \in Users : ActivateUser(u)
    <2>1. PICK u \in Users : ActivateUser(u)
      BY <1>8
    <2> DEFINE D == user[u].groups
               f == [g \in D |-> AddToGroup(u, g, TRUE)]
               p == Tried(f)
               x == [op |-> "set_active", u |-> u]
               l == <<x>>
               w == p \o l
    <2>2. /\ Idle("api") /\ MayFan("api") /\ Plan(w) /\ excuse' = excuse /\ synced' = "no"
          /\ UNCHANGED <<user, group, links, ad, homes, faults, project>> /\ user[u] # NoRow
      BY <2>1 DEF ActivateUser, Call, Disturbed, tables
    <2>3. todo["projects"] = <<>>
      BY <1>1, <2>2, NoTask
    <2>4. D \in SUBSET Groups
      BY <1>1, <2>2 DEF Tables
    <2>5. /\ f \in [D -> Steps] /\ x \in Steps /\ x.op = "set_active"
          /\ [op |-> "catch_all"] \in Steps
          /\ D \in (SUBSET Users) \cup (SUBSET Groups) /\ p = Tried(f)
          /\ \A g \in D : f[g].op = "add_to_group"
      BY <2>4 DEF Steps, AddToGroup, UserOps, PlainOps, Ends
    <2> HIDE DEF D, f, p, x
    <2>6. /\ p \in Seq(Steps)
          /\ \A y \in Elems(p) : (\E g \in D : y = f[g]) \/ y = [op |-> "catch_all"]
      <3>1. /\ f \in [D -> Steps] /\ p = Tried(f) /\ [op |-> "catch_all"] \in Steps
            /\ D \in (SUBSET Users) \cup (SUBSET Groups)
        BY <2>5
      <3>2. p \in Seq(Steps)
        BY <3>1, TriedFan
      <3>3. \A y \in Elems(p) : (\E g \in D : y = f[g]) \/ y = [op |-> "catch_all"]
        BY <3>1, TriedFan
      <3> QED
        BY <3>2, <3>3
    <2>7. l \in Seq(Steps) /\ Elems(l) = {x}
      BY <2>5, Singles
    <2> HIDE DEF l
    <2>8. Elems(w) = Elems(p) \cup {x}
      BY <2>6, <2>7, ElemsOf
    <2>9. \A y \in Elems(w) : y.op # "drop_project"
      BY <2>5, <2>6, <2>8
    <2> HIDE DEF w
    <2>10. OnlyLast(w, "drop_project")
      BY <2>9 DEF OnlyLast, Elems
    <2>12. drop \notin Elems(w)
      BY <2>9
    <2>11. Exists => Exists'
      BY <2>2 DEF Exists
    <2> QED
      BY <2>2, <2>3, <2>10, <2>11, <2>12, PlanMirrors
  <1>9. CASE \E u \in Users : EnableUser(u) \/ DisableUser(u)
    <2>1. PICK u \in Users, v \in BOOLEAN :
             user[u] # NoRow /\ user' = [user EXCEPT ![u].enabled = v]
      BY <1>9 DEF EnableUser, DisableUser
    <2>2. todo' = todo /\ UNCHANGED <<links, project, ad, homes, faults, excuse>> /\ synced' = "no"
      BY <1>9 DEF EnableUser, DisableUser, Call, Disturbed
    <2>3. \A w \in Users : w # u => user'[w] = user[w]
      BY <1>1, <2>1 DEF Tables
    <2> QED
      BY <1>2, <2>1, <2>2, <2>3
  <1>10. CASE \E g \in Groups : EnableGroup(g) \/ DisableGroup(g)
    <2>1. todo' = todo /\ UNCHANGED <<links, project, ad, homes, faults, excuse, user>> /\ synced' = "no"
      BY <1>10 DEF EnableGroup, DisableGroup, Call, Disturbed
    <2> QED
      BY <1>2, <2>1
  <1> QED
    BY <1>4, <1>5, <1>6, <1>7, <1>8, <1>9, <1>10 DEF Request

\* The steps of the synchronisation.
LEMMA SyncMirrors ==
  ASSUME MembershipInv, SyncedInv, DirectoryStep("sync")
  PROVE  SyncedInv'
  <1>1. Tables /\ Others /\ PlansInv /\ SyncInv /\ TypesInv
    BY DEF MembershipInv, TypesInv
  <1>2. /\ todo["sync"] # <<>>
        /\ todo'["api"] = todo["api"] /\ todo'["projects"] = todo["projects"]
    <2>1. /\ todo["sync"] # <<>> /\ \A b \in Actors : b # "sync" => todo'[b] = todo[b]
      BY <1>1, DirectoryTypes DEF Actors
    <2> QED
      BY <2>1 DEF Actors
  <1>3. ad' = ad /\ links' = links
    BY DEF DirectoryStep, AddUsersToGroup, RemoveFromGroup, ForceRemove, CreateUser, RequestHome,
           DeleteUser, DropUser, CreateGroup, DeleteGroup, RemoveProject, DropGroup, SyncAllGroups,
           SyncAllUsers, CompareUser, Synced, Leave, directoryVars, tables
  <1>4. Exists => Exists'
    <2>1. CASE RemoveProject("sync")
      <3>1. project' = project \/ project' = [project EXCEPT !.groups = @ \ {Cur("sync").g}]
        BY <2>1 DEF RemoveProject
      <3>2. project'.state = project.state
        BY <1>1, <3>1 DEF Tables
      <3> QED
        BY <3>2 DEF Exists
    <2>2. CASE ~RemoveProject("sync")
      <3>1. project' = project
        BY <2>2
           DEF DirectoryStep, AddUsersToGroup, RemoveFromGroup, ForceRemove, CreateUser, RequestHome,
               DeleteUser, DropUser, CreateGroup, DeleteGroup, DropGroup, SyncAllGroups,
               SyncAllUsers, CompareUser, Synced, Leave, tables
      <3> QED
        BY <3>1 DEF Exists
    <2> QED
      BY <2>1, <2>2
  <1>5. TaskInv' /\ LinksInv'
    BY <1>2, <1>3, <1>4, TaskKept, LinksUntouched DEF SyncedInv
  <1>6. AdInv'
    BY <1>3 DEF SyncedInv, AdInv
  <1>7. CASE Synced("sync")
    BY <1>1, <1>5, <1>6, <1>7, SyncedMirrors DEF SyncedInv
  <1>8. CASE ~Synced("sync")
    <2>1. synced' \in {synced, "no"} /\ synced # "yes"
      <3>1. synced' \in {synced, "no"}
        BY <1>8
           DEF DirectoryStep, AddUsersToGroup, RemoveFromGroup, ForceRemove, CreateUser, RequestHome,
               DeleteUser, DropUser, CreateGroup, DeleteGroup, RemoveProject, DropGroup,
               SyncAllGroups, SyncAllUsers, CompareUser, directoryVars
      <3> QED
        BY <1>2, <3>1 DEF SyncedInv, QuietInv
    <2>2. QuietInv' /\ MirroredInv'
      BY <1>2, <2>1 DEF SyncedInv, QuietInv, MirroredInv
    <2>3. MirrorInv /\ LinksInv /\ AdInv
      BY DEF SyncedInv
    <2>4. AddUsersToGroup("sync") => MirrorInv'
      BY <1>1, <2>3, JoinMirrors
    <2>5. RemoveFromGroup("sync") => MirrorInv'
      BY <1>1, <2>3, PartMirrors
    <2>6. ForceRemove("sync") => MirrorInv'
      BY <1>1, <2>3, ForceMirrors
    <2>7. CreateUser("sync") => MirrorInv'
      BY <1>1, <2>3, CreateMirrors
    <2>8. RequestHome("sync") => MirrorInv'
      BY <1>1, <2>3, HomeMirrors
    <2>9. DeleteUser("sync") => MirrorInv'
      BY <1>1, <2>3, DeleteMirrors
    <2>10. DropUser("sync") => MirrorInv'
      BY <1>1, <2>3, DropMirrors
    <2>11. CreateGroup("sync") => MirrorInv'
      BY <1>1, <2>3, CreateGroupMirrors
    <2>12. DeleteGroup("sync") => MirrorInv'
      BY <1>1, <2>3, DeleteGroupMirrors
    <2>13. RemoveProject("sync") => MirrorInv'
      BY <1>1, <2>3, RemoveMirrors
    <2>14. DropGroup("sync") => MirrorInv'
      BY <1>1, <2>3, DropGroupMirrors
    <2>15. SyncAllGroups("sync") => MirrorInv'
      BY <1>1, <2>3, GroupsReadMirrors
    <2>16. SyncAllUsers("sync") => MirrorInv'
      BY <1>1, <2>3, UsersReadMirrors
    <2>17. CompareUser("sync") => MirrorInv'
      BY <1>1, <2>3, CompareMirrors
    <2>18. MirrorInv'
      BY <1>8, <2>4, <2>5, <2>6, <2>7, <2>8, <2>9, <2>10,
         <2>11, <2>12, <2>13, <2>14, <2>15, <2>16, <2>17 DEF DirectoryStep
    <2> QED
      BY <1>5, <1>6, <2>2, <2>18 DEF SyncedInv
  <1> QED
    BY <1>7, <1>8

\* An activation disturbs the synchronisation until its last step.
LEMMA ActivationMirrors ==
  ASSUME MembershipInv, SyncedInv, AddUsersToGroup("api")
  PROVE  SyncedInv'
  <1> DEFINE c == Cur("api")
             drop == [op |-> "drop_project"]
  <1>1. Tables /\ Others /\ PlansInv /\ SyncInv /\ "api" \in Actors
    BY DEF MembershipInv, TypesInv, Actors
  <1>2. /\ c \in Elems(todo["api"]) /\ c.op = "add_to_group" /\ todo["api"] # <<>>
        /\ c.u \in Users /\ c.g \in Groups
    BY <1>1, Current, Fields DEF AddUsersToGroup
  <1>3. synced = "no"
    BY <1>2 DEF SyncedInv, QuietInv
  <1>4. /\ todo'["sync"] = todo["sync"] /\ todo'["projects"] = todo["projects"]
        /\ UNCHANGED <<project, links, ad, homes, synced, faults>> /\ excuse \subseteq excuse'
    <2>1. \A b \in Actors : b # "api" => todo'[b] = todo[b]
      BY <1>1, DirectoryTypes DEF DirectoryStep
    <2> QED
      BY <2>1 DEF Actors, AddUsersToGroup, directoryVars, tables
  <1>5. /\ OnlyLast(todo'["api"], "drop_project")
        /\ \A x \in Elems(todo'["api"]) : x \in Elems(todo["api"]) \/ x.op = "member_added"
    <2> DEFINE x == MemberAdded(c.g, c.u)
               s == <<x>>
               none == <<>>
    <2>1. x \in StepsOf("api") /\ x.op = "member_added"
      BY <1>2 DEF MemberAdded, StepsOf, Steps, MemberOps, ApiOps
    <2>2. RaiseSoca("api") \/ Continue("api", s) \/ Continue("api", none)
      BY DEF AddUsersToGroup, Done
    <2> HIDE DEF x
    <2>3. s \in Seq(StepsOf("api")) /\ Elems(s) = {x}
      BY <2>1, Singles
    <2>4. none \in Seq(StepsOf("api")) /\ Elems(none) = {}
      BY Singles
    <2>5. OnlyLast(todo["api"], "drop_project")
      BY DEF SyncedInv, LinksInv
    <2> HIDE DEF s, none, c
    <2>6. CASE RaiseSoca("api")
      BY <1>1, <1>2, <2>5, <2>6, Escape DEF RaiseSoca
    <2>7. CASE Continue("api", s)
      BY <1>1, <1>2, <2>1, <2>3, <2>5, <2>7, Advance
    <2>8. CASE Continue("api", none)
      BY <1>1, <1>2, <2>4, <2>5, <2>8, Advance
    <2> QED
      BY <2>2, <2>6, <2>7, <2>8
  <1> HIDE DEF c
  <1>6. TaskInv'
    BY <1>2, <1>4, TaskKept DEF SyncedInv, Light
  <1>7. Exists' <=> Exists
    BY <1>4 DEF Exists
  <1>8. LinksInv'
    <2>1. drop \notin Elems(todo["api"])
      BY <1>2 DEF SyncedInv, LinksInv, Deleting
    <2>2. drop \notin Elems(todo'["api"])
      BY <1>5, <2>1
    <2> QED
      BY <1>4, <1>5, <1>7, <2>2, NoDeletion DEF SyncedInv
  <1>9. AdInv' /\ QuietInv'
    BY <1>3, <1>4, <1>5 DEF SyncedInv, AdInv, QuietInv
  <1>10. \A u \in Users : user'[u] # NoRow => user[u] # NoRow
    <2>1. \/ user' = user
          \/ user[c.u] # NoRow /\ user' = [user EXCEPT ![c.u].groups = @ \cup {c.g}]
      BY DEF AddUsersToGroup, tables, c
    <2> QED
      BY <1>1, <1>2, <2>1 DEF Tables
  <1>11. MirrorInv' /\ MirroredInv'
    BY <1>3, <1>4, <1>7, <1>10, Aside DEF SyncedInv
  <1> QED
    BY <1>6, <1>8, <1>9, <1>11 DEF SyncedInv

\* The steps that write the project's row, send its tasks and end an activation.
LEMMA StoreMirrors ==
  ASSUME MembershipInv, SyncedInv, Store \/ Send \/ DropProject \/ SetActive
  PROVE  SyncedInv'
  <1> DEFINE Row == [enabled : BOOLEAN, active : BOOLEAN, groups : SUBSET Groups]
             c == Cur("api")
             drop == [op |-> "drop_project"]
             Sent == /\ todo'["sync"] = todo["sync"] /\ todo'["projects"] = todo["projects"]
                     /\ OnlyLast(todo'["api"], "drop_project")
                     /\ \A x \in Elems(todo'["api"]) :
                           x \in Elems(Tail(todo["api"])) \/ x.op = "send"
  <1>1. Tables /\ PlansInv /\ "api" \in Actors
    BY DEF MembershipInv, TypesInv, Actors
  <1>2. /\ c \in Elems(todo["api"]) /\ c \in Steps
        /\ c.op \in {"store", "send", "drop_project", "set_active"} /\ todo["api"] # <<>>
    BY <1>1, Current DEF Store, Send, DropProject, SetActive
  <1>3. Elems(todo["api"]) = {c} \cup Elems(Tail(todo["api"])) /\ todo["api"] \in Seq(StepsOf("api"))
    <2> DEFINE t == todo["api"]
    <2>1. t \in Seq(StepsOf("api")) /\ t # <<>>
      BY <1>1, <1>2 DEF PlansInv
    <2> HIDE DEF t
    <2> DEFINE none == <<>>
               r == Remaining(none \o Tail(t))
    <2>2. none \in Seq(StepsOf("api")) /\ r = Remaining(none \o Tail(t))
      BY Singles
    <2> HIDE DEF none, r
    <2>3. Elems(t) = {t[1]} \cup Elems(Tail(t))
      BY <2>1, <2>2, Continued
    <2> QED
      BY <2>1, <2>3 DEF t, Cur
  <1>4. OnlyLast(todo["api"], "drop_project")
    BY DEF SyncedInv, LinksInv
  <1> HIDE DEF c
  <1>5. ASSUME NEW p \in Seq(StepsOf("api")), Continue("api", p), \A x \in Elems(p) : x.op = "send"
        PROVE  Sent
    <2>1. /\ \A b \in Actors : b # "api" => todo'[b] = todo[b]
          /\ Elems(todo'["api"]) \subseteq Elems(p) \cup Elems(Tail(todo["api"]))
          /\ OnlyLast(todo'["api"], "drop_project")
      BY <1>1, <1>2, <1>4, <1>5, Advance
    <2> QED
      BY <1>5, <2>1 DEF Actors
  <1>6. ASSUME RaiseOther("api")
        PROVE  Sent
    <2>1. /\ \A b \in Actors : b # "api" => todo'[b] = todo[b]
          /\ Elems(todo'["api"]) \subseteq Elems(Tail(todo["api"]))
          /\ OnlyLast(todo'["api"], "drop_project")
      BY <1>1, <1>2, <1>4, <1>6, Escape DEF RaiseOther
    <2> QED
      BY <2>1 DEF Actors
  <1>7. ASSUME Continue("api", <<>>)
        PROVE  Sent
    <2>1. <<>> \in Seq(StepsOf("api")) /\ Elems(<<>>) = {}
      BY Singles
    <2> QED
      BY <1>5, <1>7, <2>1
  <1>8. Sent
    <2>1. CASE Store
      <3> DEFINE m == c.send
                 s == [i \in DOMAIN m |-> [op |-> "send", task |-> m[i]]]
      <3>1. c.op = "store"
        BY <2>1 DEF Store, At, Cur, c
      <3>2. m \in Seq(Tasks)
        BY <1>2, <3>1, Fields
      <3>3. s = [i \in DOMAIN m |-> [op |-> "send", task |-> m[i]]]
        OBVIOUS
      <3>4. RaiseOther("api") \/ Continue("api", s) \/ Continue("api", <<>>)
        BY <2>1 DEF Store, c
      <3> HIDE DEF m, s
      <3>5. s \in Seq(StepsOf("api")) /\ \A x \in Elems(s) : x.op = "send"
        BY <3>2, <3>3, Sendings
      <3> HIDE DEF Sent
      <3> QED
        BY <1>5, <1>6, <1>7, <3>4, <3>5
    <2>2. CASE Send \/ DropProject \/ SetActive
      BY <1>7, <2>2 DEF Send, DropProject, SetActive, Done
    <2> QED
      BY <2>1, <2>2
  <1>9. links' = links /\ UNCHANGED <<group, ad, homes, faults, synced>> /\ excuse \subseteq excuse'
    BY DEF Store, Send, DropProject, SetActive, tables, directoryVars
  <1>10. ASSUME NEW u \in Users
         PROVE  /\ user'[u] = NoRow <=> user[u] = NoRow
                /\ user[u] # NoRow => /\ user'[u].enabled = user[u].enabled
                                      /\ user'[u].groups = user[u].groups
    <2>1. CASE user' = user
      BY <2>1
    <2>2. CASE SetActive /\ user' # user
      <3>1. PICK v \in Users : user[v] # NoRow /\ user' = [user EXCEPT ![v].active = TRUE]
        <4>1. c.op = "set_active" /\ c.u \in Users
          BY <1>1, <1>2, <2>2, Current, Fields DEF SetActive, UserOps, c
        <4> QED
          BY <2>2, <4>1 DEF SetActive, c
      <3>2. user[v] \in Row
        BY <1>1, <3>1 DEF Tables
      <3>3. /\ user'[v] = [user[v] EXCEPT !.active = TRUE]
            /\ \A w \in Users : w # v => user'[w] = user[w]
        BY <1>1, <3>1 DEF Tables
      <3>4. /\ user'[v] \in Row /\ user'[v].enabled = user[v].enabled
            /\ user'[v].groups = user[v].groups
        BY <3>2, <3>3
      <3>5. user'[v] # NoRow
        BY <3>4, MembershipParameters
      <3> QED
        BY <3>1, <3>3, <3>4, <3>5
    <2>3. user' = user \/ SetActive
      BY DEF Store, Send, DropProject, tables
    <2> QED
      BY <2>1, <2>2, <2>3
  <1>11. TaskInv'
    BY <1>3, <1>8, TaskKept DEF SyncedInv, Light
  <1>12. AdInv' /\ QuietInv'
    <2>1. \A x \in Elems(todo'["api"]) : x.op = "add_to_group" => x \in Elems(todo["api"])
      BY <1>3, <1>8
    <2> QED
      BY <1>8, <1>9, <2>1 DEF SyncedInv, AdInv, QuietInv
  <1>13. CASE Store \/ Send \/ SetActive
    <2>1. Exists => Exists'
      <3>1. CASE Store
        <4>1. c.op = "store" /\ ("state" \in DOMAIN c => c.state \in {"enabled", "disabled"})
          BY <1>2, <3>1, Fields DEF Store, At, Cur, c
        <4>2. Exists => project'.state \in {"enabled", "disabled"}
          BY <1>1, <3>1, <4>1 DEF Store, Tables, Exists, c
        <4> QED
          BY <4>2 DEF Exists
      <3>2. CASE Send \/ SetActive
        BY <3>2 DEF Send, SetActive, tables, Exists
      <3> QED
        BY <1>13, <3>1, <3>2
    <2>2. c.op \in {"store", "send", "set_active"}
      BY <1>13 DEF Store, Send, SetActive, At, Cur, c
    <2>3. drop \notin Elems(todo["api"])
      BY <1>2, <2>2 DEF SyncedInv, LinksInv, Deleting
    <2>4. drop \notin Elems(todo'["api"])
      BY <1>3, <1>8, <2>3
    <2>5. LinksInv'
      BY <1>8, <1>9, <2>1, <2>4, NoDeletion DEF SyncedInv
    <2>6. MirrorInv' /\ MirroredInv'
      BY <1>8, <1>9, <1>10, <2>1, Aside DEF SyncedInv
    <2> QED
      BY <1>11, <1>12, <2>5, <2>6 DEF SyncedInv
  <1>14. CASE DropProject
    <2>1. c.op = "drop_project" /\ c = drop
      <3>1. c.op = "drop_project"
        BY <1>14 DEF DropProject, At, Cur, c
      <3> QED
        BY <1>2, <3>1 DEF Steps, GroupOps, UserOps, MemberOps, PlainOps, Ends
    <2>2. todo["api"] = <<c>>
      <3> DEFINE t == todo["api"]
      <3>1. t \in Seq(StepsOf("api")) /\ t # <<>> /\ t[1] = c /\ OnlyLast(t, "drop_project")
        BY <1>2, <1>3, <1>4 DEF c, Cur
      <3> HIDE DEF t
      <3>2. 1 \in 1 .. Len(t)
        BY <3>1
      <3>3. Len(t) = 1
        BY <2>1, <3>1, <3>2 DEF OnlyLast
      <3> QED
        BY <3>1, <3>3 DEF t
    <2>3. Elems(todo["api"]) = {drop} /\ Elems(Tail(todo["api"])) = {}
      <3>1. Len(Tail(todo["api"])) = 0
        BY <2>2
      <3>2. Elems(Tail(todo["api"])) = {}
        BY <3>1 DEF Elems
      <3> QED
        BY <1>3, <2>1, <3>2
    <2>4. links = {}
      BY <2>3 DEF SyncedInv, LinksInv, GroupRemoved
    <2>5. todo["projects"] = <<>> /\ todo["sync"] = <<>>
      BY <2>3 DEF SyncedInv, TaskInv, MembershipInv, ExclusiveInv, Light
    <2>6. Elems(todo'["projects"]) = {} /\ drop \notin Elems(todo'["api"]) /\ Pending = {}
      <3>1. Elems(todo'["projects"]) = {} /\ Pending = {}
        BY <1>8, <2>5, Singles DEF Pending
      <3> QED
        BY <1>8, <2>3, <3>1
    <2>7. LinksInv'
      BY <1>8, <1>9, <2>4, <2>6 DEF LinksInv
    <2>8. MirrorInv' /\ MirroredInv'
      BY <1>8, <1>9, <1>10, <2>6, Aside DEF SyncedInv
    <2> QED
      BY <1>11, <1>12, <2>7, <2>8 DEF SyncedInv
  <1> QED
    BY <1>13, <1>14

\* So do the steps of plans and tasks.
LEMMA ProgressMirrors ==
  ASSUME MembershipInv, SyncedInv, ~Overlap, Progress
  PROVE  SyncedInv'
  <1>1. Tables /\ Others /\ PlansInv /\ SyncInv /\ TypesInv
    BY DEF MembershipInv, TypesInv
  <1>2. CASE \E a \in Actors : UserProjectsStep(a) /\ UNCHANGED <<directoryVars, queueVars, events>>
    <2>1. PICK a \in Actors : UserProjectsStep(a) /\ UNCHANGED directoryVars
      BY <1>2
    <2>2. UNCHANGED <<ad, homes, synced, faults>>
      BY <2>1 DEF directoryVars
    <2>3. /\ UNCHANGED <<user, group, project, excuse>> /\ todo[a] # <<>>
          /\ \A b \in Actors : b # a => todo'[b] = todo[b]
          /\ \A x \in Elems(todo'[a]) : x \in Elems(Tail(todo[a])) \/ x.op \in AccessOps
          /\ Elems(todo[a]) = {Cur(a)} \cup Elems(Tail(todo[a]))
      BY <1>1, <2>1, UserProjectsTypes
    <2>4. TaskInv' /\ LinksInv'
      BY <2>1, AccessLinks DEF SyncedInv
    <2>5. AdInv'
      BY <2>2 DEF SyncedInv, AdInv
    <2>6. CASE a = "sync"
      <3>1. todo["sync"] # <<>> /\ todo'["api"] = todo["api"]
        BY <2>3, <2>6 DEF Actors
      <3>2. QuietInv' /\ MirroredInv'
        BY <2>2, <3>1 DEF SyncedInv, QuietInv, MirroredInv
      <3>3. MirrorInv'
        BY <1>1, <2>1, <2>6, AccessMirrors DEF SyncedInv
      <3> QED
        BY <2>4, <2>5, <3>2, <3>3 DEF SyncedInv
    <2>7. CASE a # "sync"
      <3>1. todo'["sync"] = todo["sync"]
        BY <2>3, <2>7 DEF Actors
      <3>2. \A x \in Elems(todo'["api"]) : x.op = "add_to_group" => x \in Elems(todo["api"])
        <4>1. CASE a = "api"
          BY <2>3, <4>1 DEF AccessOps
        <4>2. CASE a # "api"
          <5>1. todo'["api"] = todo["api"]
            BY <2>3, <4>2 DEF Actors
          <5> QED
            BY <5>1
        <4> QED
          BY <4>1, <4>2
      <3>3. QuietInv'
        BY <2>2, <3>1, <3>2 DEF SyncedInv, QuietInv
      <3>4. Exists' <=> Exists
        BY <2>3 DEF Exists
      <3>5. MirrorInv' /\ MirroredInv'
        BY <2>2, <2>3, <3>1, <3>4, Aside DEF SyncedInv
      <3> QED
        BY <2>4, <2>5, <3>3, <3>5 DEF SyncedInv
    <2> QED
      BY <2>6, <2>7
  <1>3. CASE \E a \in Actors : DirectoryStep(a)
    <2>1. PICK a \in Actors : DirectoryStep(a)
      BY <1>3
    <2>2. a \in {"api", "sync"} /\ (a = "api" => AddUsersToGroup(a))
      BY <1>1, <2>1, DirectoryTypes
    <2>3. CASE a = "sync"
      BY <2>1, <2>3, SyncMirrors
    <2>4. CASE a = "api"
      BY <2>2, <2>4, ActivationMirrors
    <2> QED
      BY <2>2, <2>3, <2>4
  <1>4. CASE Store \/ Send \/ DropProject \/ SetActive
    BY <1>4, StoreMirrors
  <1>5. ASSUME UNCHANGED <<user, group, project, links, ad, homes, synced, faults>>,
               excuse \subseteq excuse', todo'["api"] = todo["api"], todo'["sync"] = todo["sync"],
               TaskInv', LinksInv'
        PROVE  SyncedInv'
    <2>1. AdInv' /\ QuietInv'
      BY <1>5 DEF SyncedInv, AdInv, QuietInv
    <2>2. Exists' <=> Exists
      BY <1>5 DEF Exists
    <2>3. MirrorInv' /\ MirroredInv'
      BY <1>5, <2>2, Aside DEF SyncedInv
    <2> QED
      BY <1>5, <2>1, <2>3 DEF SyncedInv
  <1>6. CASE StartTask
    <2>1. /\ UNCHANGED <<user, group, project, links, ad, homes, synced, faults>>
          /\ excuse \subseteq excuse' /\ MayFan("projects")
      BY <1>6 DEF StartTask, tables, directoryVars
    <2>2. /\ todo'["api"] = todo["api"] /\ todo'["sync"] = todo["sync"]
          /\ ~Exists => todo'["projects"] = <<>>
      BY <1>1, <1>6 DEF StartTask, PlansInv, Actors, Unreadable
    <2>3. \A x \in Elems(todo["api"]) : x.op \in Light
      BY <1>1, <2>1, LightPlan DEF Actors
    <2>4. TaskInv'
      BY <2>2, <2>3 DEF TaskInv
    <2>5. Exists' <=> Exists
      BY <2>1 DEF Exists
    <2>6. ~Exists => Elems(todo'["projects"]) = {}
      BY <2>2, Singles
    <2>7. LinksInv'
      BY <2>1, <2>2, <2>5, <2>6 DEF SyncedInv, LinksInv
    <2> QED
      BY <1>5, <2>1, <2>2, <2>4, <2>7
  <1>7. CASE DeleteMessage
    <2> DEFINE none == <<>>
    <2>1. none \in Seq(StepsOf("projects")) /\ Elems(none) = {}
      BY Singles
    <2>2. /\ UNCHANGED <<user, group, project, links, ad, homes, synced, faults, excuse>>
          /\ Continue("projects", none) /\ todo["projects"] # <<>>
      BY <1>7 DEF DeleteMessage, Done, tables, directoryVars, At
    <2> HIDE DEF none
    <2>3. /\ todo'["api"] = todo["api"] /\ todo'["sync"] = todo["sync"]
          /\ \A x \in Elems(todo'["projects"]) : x \in Elems(todo["projects"])
      <3>1. /\ \A b \in Actors : b # "projects" => todo'[b] = todo[b]
            /\ Elems(todo["projects"]) = {Cur("projects")} \cup Elems(Tail(todo["projects"]))
            /\ Elems(todo'["projects"]) \subseteq Elems(none) \cup Elems(Tail(todo["projects"]))
        BY <1>1, <2>1, <2>2, Advance DEF Actors
      <3> QED
        BY <2>1, <3>1 DEF Actors
    <2>4. Exists' <=> Exists
      BY <2>2 DEF Exists
    <2>5. TaskInv' /\ LinksInv'
      BY <2>2, <2>3, <2>4, TaskKept, LinksUntouched DEF SyncedInv
    <2> QED
      BY <1>5, <2>2, <2>3, <2>5
  <1>8. CASE DeadLetter
    <2>1. /\ UNCHANGED <<user, group, project, links, ad, homes, synced, faults, todo>>
          /\ excuse \subseteq excuse'
      BY <1>8 DEF DeadLetter, tables, directoryVars
    <2>2. Exists' <=> Exists
      BY <2>1 DEF Exists
    <2>3. TaskInv' /\ LinksInv'
      BY <2>1, <2>2, TaskKept, LinksUntouched DEF SyncedInv
    <2> QED
      BY <1>5, <2>1, <2>3
  <1> QED
    BY <1>2, <1>3, <1>4, <1>6, <1>7, <1>8 DEF Progress, Step

\* The directory has no memberships of groups that it does not have.
LEMMA DirectoryKept ==
  ASSUME Others, AdInv, NEW new \in DirectoryChanges, ad' = new
  PROVE  AdInv'
  <1>1. /\ ad \in [groups : SUBSET Groups, of : [Users -> {NoRow} \cup SUBSET Groups],
                  renamed : SUBSET Users]
        /\ ad.of \in [Users -> {NoRow} \cup SUBSET Groups]
    BY DEF Others
  <1>2. ASSUME NEW u \in Users, NEW v, v # NoRow => v \subseteq ad.groups,
               ad'.groups = ad.groups, ad'.of = [ad.of EXCEPT ![u] = v]
        PROVE  AdInv'
    <2>1. ad'.of[u] = v /\ \A w \in Users : w # u => ad'.of[w] = ad.of[w]
      BY <1>1, <1>2
    <2> QED
      BY <1>1, <1>2, <2>1 DEF AdInv
  <1>3. CASE new \in UserChanges
    <2>1. PICK u \in Users : \/ new = [ad EXCEPT !.of[u] = NoRow, !.renamed = @ \ {u}]
                             \/ new = [ad EXCEPT !.of[u] = {}]
                             \/ new = [ad EXCEPT !.renamed = @ \cup {u}]
                             \/ new = [ad EXCEPT !.renamed = @ \ {u}]
      BY <1>3 DEF UserChanges, InDirectory
    <2>2. CASE new = [ad EXCEPT !.of[u] = NoRow, !.renamed = @ \ {u}]
      <3>1. ad'.groups = ad.groups /\ ad'.of = [ad.of EXCEPT ![u] = NoRow]
        BY <1>1, <2>2
      <3> QED
        BY <1>2, <3>1
    <2>3. CASE new = [ad EXCEPT !.of[u] = {}]
      <3>1. ad'.groups = ad.groups /\ ad'.of = [ad.of EXCEPT ![u] = {}]
        BY <1>1, <2>3
      <3> QED
        BY <1>2, <3>1
    <2>4. CASE new = [ad EXCEPT !.renamed = @ \cup {u}] \/ new = [ad EXCEPT !.renamed = @ \ {u}]
      <3>1. ad'.groups = ad.groups /\ ad'.of = ad.of
        BY <1>1, <2>4
      <3> QED
        BY <3>1 DEF AdInv
    <2> QED
      BY <2>1, <2>2, <2>3, <2>4
  <1>4. CASE new \in MembershipChanges
    <2>1. PICK u \in Users, g \in ad.groups :
                 ad.of[u] # NoRow /\ new = [ad EXCEPT !.of[u] = IF g \in @ THEN @ \ {g} ELSE @ \cup {g}]
      BY <1>4 DEF MembershipChanges, InDirectory
    <2> DEFINE v == IF g \in ad.of[u] THEN ad.of[u] \ {g} ELSE ad.of[u] \cup {g}
    <2>2. ad'.groups = ad.groups /\ ad'.of = [ad.of EXCEPT ![u] = v]
      BY <1>1, <2>1
    <2>3. v \subseteq ad.groups
      BY <2>1 DEF AdInv
    <2>4. PICK w : w = v
      OBVIOUS
    <2> QED
      BY <1>2, <2>2, <2>3, <2>4
  <1>5. CASE new \in GroupChanges
    <2>1. PICK g \in Groups :
             \/ new = [ad EXCEPT !.groups = @ \cup {g}]
             \/ new = [ad EXCEPT !.groups = @ \ {g},
                                 !.of = [u \in Users |-> IF u \in InDirectory THEN @[u] \ {g} ELSE NoRow]]
      BY <1>5 DEF GroupChanges
    <2>2. CASE new = [ad EXCEPT !.groups = @ \cup {g}]
      <3>1. ad'.groups = ad.groups \cup {g} /\ ad'.of = ad.of
        BY <1>1, <2>2
      <3> QED
        BY <3>1 DEF AdInv
    <2>3. CASE new = [ad EXCEPT !.groups = @ \ {g},
                                !.of = [u \in Users |-> IF u \in InDirectory THEN @[u] \ {g} ELSE NoRow]]
      <3>1. /\ ad'.groups = ad.groups \ {g}
            /\ \A u \in Users : ad'.of[u] = IF ad.of[u] # NoRow THEN ad.of[u] \ {g} ELSE NoRow
        BY <1>1, <2>3 DEF InDirectory
      <3> QED
        BY <3>1 DEF AdInv
    <2> QED
      BY <2>1, <2>2, <2>3
  <1> QED
    BY <1>3, <1>4, <1>5 DEF DirectoryChanges

\* A deployed cluster has the directory's rows, or is yet to be synchronised.
LEMMA InitMirrors ==
  ASSUME Init
  PROVE  SyncedInv
  <1> DEFINE Row == [enabled : BOOLEAN, active : BOOLEAN, groups : SUBSET Groups]
  <1>1. /\ \A a \in Actors : todo[a] = <<>>
        /\ excuse = {} /\ ad = [groups |-> Groups, of |-> [u \in Users |-> Groups], renamed |-> {}]
    BY DEF Init
  <1>2. todo["api"] = <<>> /\ todo["projects"] = <<>> /\ todo["sync"] = <<>>
    BY <1>1 DEF Actors
  <1>3. /\ Elems(todo["api"]) = {} /\ Elems(todo["projects"]) = {} /\ Pending = {}
        /\ \A op : OnlyLast(todo["api"], op) /\ OnlyLast(todo["sync"], op)
        /\ Apart(todo["sync"]) /\ HomesFirst(todo["sync"])
    BY <1>2, Singles DEF Pending, OnlyLast, Apart, HomesFirst
  <1>4. PICK here \in {Users, ActiveUsers}, G \in {Groups, OldGroups} :
           /\ group = [g \in Groups |-> IF g \in G THEN "enabled" ELSE "none"]
           /\ user = [u \in Users |-> IF u \in here
                                      THEN [enabled |-> TRUE, active |-> u \in ActiveUsers, groups |-> G]
                                      ELSE NoRow]
           /\ homes = here
           /\ synced = IF here = Users /\ G = Groups THEN "yes" ELSE "no"
           /\ \/ /\ project = [state |-> "none", groups |-> {}, users |-> Unset]
                 /\ links = {}
              \/ /\ project \in [state : {"enabled"}, groups : {G}, users : UserChoices]
                 /\ links = G
    BY DEF Init
  <1>5. /\ ad.groups = Groups /\ \A u \in Users : ad.of[u] = Groups
        /\ \A u \in Users : u \notin here => user[u] = NoRow
    BY <1>1, <1>4
  <1>6. TaskInv /\ QuietInv
    BY <1>2, <1>3 DEF TaskInv, QuietInv
  <1>7. AdInv
    BY <1>5 DEF AdInv
  <1>8. LinksInv
    <2>1. ~Exists => links = {}
      BY <1>4 DEF Exists
    <2> QED
      BY <1>3, <2>1 DEF LinksInv
  <1>9. MirrorInv
    <2>1. ShapeInv /\ GroupsInv /\ UsersInv
      BY <1>3 DEF ShapeInv, GroupsInv, UsersInv
    <2>2. HomesInv
      BY <1>4, <1>5 DEF HomesInv
    <2> QED
      BY <2>1, <2>2 DEF MirrorInv
  <1>10. MirroredInv
    <2>1. SUFFICES ASSUME synced = "yes"
                   PROVE  Mirrored
      BY DEF MirroredInv
    <2>2. here = Users /\ G = Groups
      BY <1>4, <2>1
    <2>3. ASSUME NEW u \in Users
          PROVE  user[u] # NoRow /\ user[u].groups = Groups
      <3> DEFINE r == [enabled |-> TRUE, active |-> u \in ActiveUsers, groups |-> G]
      <3>1. user[u] = r
        BY <1>4, <2>2
      <3>2. r \in Row
        BY <2>2
      <3>3. r # NoRow
        BY <3>2, MembershipParameters
      <3>4. r.groups = Groups
        BY <2>2
      <3> QED
        BY <3>1, <3>3, <3>4
    <2>4. Groups # NoRow
      BY MembershipParameters
    <2>5. Rows = Users /\ InDirectory = Users
      BY <1>5, <2>3, <2>4 DEF Rows, InDirectory
    <2>6. Known = ad.groups
      BY <1>4, <1>5, <2>2 DEF Known
    <2>7. \A u \in Rows, g \in Known : g \in user[u].groups <=> g \in ad.of[u]
      BY <1>5, <2>3, <2>5
    <2>8. Rows \subseteq homes
      BY <1>4, <2>2, <2>5
    <2> QED
      BY <2>5, <2>6, <2>7, <2>8 DEF Mirrored
  <1> QED
    BY <1>6, <1>7, <1>8, <1>9, <1>10 DEF SyncedInv

\* The invariant of the mirror is inductive when fan-outs do not interleave.
LEMMA NextMirrors ==
  ASSUME MembershipInv, SyncedInv, ~Overlap, [Next]_vars
  PROVE  SyncedInv'
  <1>1. Tables /\ Others /\ PlansInv
    BY DEF MembershipInv, TypesInv
  <1>2. ASSUME UNCHANGED <<user, group, project, links, homes, excuse, todo>>, AdInv',
               synced' = "no" \/ UNCHANGED <<ad, synced, faults>>
        PROVE  SyncedInv'
    <2>1. Exists' <=> Exists
      BY <1>2 DEF Exists
    <2>2. TaskInv' /\ LinksInv'
      BY <1>2, <2>1, TaskKept, LinksUntouched DEF SyncedInv
    <2>3. QuietInv'
      BY <1>2 DEF SyncedInv, QuietInv
    <2>4. MirrorInv' /\ MirroredInv'
      BY <1>2, <2>1, Aside DEF SyncedInv
    <2> QED
      BY <1>2, <2>2, <2>3, <2>4 DEF SyncedInv
  <1>3. ASSUME UNCHANGED <<user, group, project, links, homes, excuse, todo, ad, synced, faults>>
        PROVE  SyncedInv'
    <2>1. AdInv'
      BY <1>3 DEF SyncedInv, AdInv
    <2> QED
      BY <1>2, <1>3, <2>1
  <1>4. CASE Request
    BY <1>4, RequestMirrors
  <1>5. CASE Progress
    BY <1>5, ProgressMirrors
  <1>6. CASE Forget
    BY <1>3, <1>6 DEF Forget, tables, directoryVars
  <1>7. CASE ChangeDirectory
    <2>1. PICK new \in DirectoryChanges : DirectoryChange(new)
      BY <1>7 DEF ChangeDirectory
    <2>2. /\ UNCHANGED <<user, group, project, links, homes, excuse, todo>>
          /\ synced' = "no" /\ ad' = new
      BY <2>1 DEF DirectoryChange, tables
    <2>3. AdInv'
      BY <1>1, <2>2, DirectoryKept DEF SyncedInv
    <2> QED
      BY <1>2, <2>2, <2>3
  <1>8. CASE StartSync
    <2> DEFINE x == [op |-> "sync_groups"]
               s == <<x>>
    <2>1. /\ UNCHANGED <<user, group, project, links, excuse, ad, homes, faults>>
          /\ MayFan("sync") /\ Idle("sync") /\ synced' = "running"
          /\ todo' = [todo EXCEPT !["sync"] = s]
      BY <1>8 DEF StartSync, tables
    <2>2. x \in StepsOf("sync") /\ x.op = "sync_groups"
      BY DEF StepsOf, Steps, PlainOps, SyncOps
    <2> HIDE DEF x
    <2>3. s \in Seq(StepsOf("sync")) /\ Elems(s) = {x} /\ Len(s) = 1
      BY <2>2, Singles
    <2> HIDE DEF s
    <2>4. /\ todo'["sync"] = s /\ todo'["api"] = todo["api"]
          /\ todo'["projects"] = todo["projects"]
      BY <1>1, <2>1 DEF PlansInv, Actors
    <2>5. \A y \in Elems(todo["api"]) : y.op \in Light
      BY <1>1, <2>1, LightPlan DEF Actors
    <2>6. Exists' <=> Exists
      BY <2>1 DEF Exists
    <2>7. TaskInv' /\ LinksInv'
      BY <2>1, <2>4, <2>6, TaskKept, LinksUntouched DEF SyncedInv
    <2>8. AdInv'
      BY <2>1 DEF SyncedInv, AdInv
    <2>9. QuietInv'
      BY <2>1, <2>4, <2>5 DEF QuietInv, Light
    <2>10. Pending' = {x} /\ Pending = {}
      BY <2>1, <2>3, <2>4, Singles DEF Pending, Idle
    <2>11. ShapeInv'
      <3>1. Apart(s) /\ OnlyLast(s, "synced") /\ HomesFirst(s)
        BY <2>3, Blocks DEF OnlyLast, HomesFirst
      <3> QED
        BY <2>2, <2>4, <2>10, <3>1 DEF ShapeInv, Undoing
    <2>12. GroupsInv' /\ UsersInv'
      BY <2>2, <2>10 DEF GroupsInv, UsersInv
    <2>13. HomesInv'
      BY <2>1, <2>10 DEF SyncedInv, MirrorInv, HomesInv
    <2>14. MirroredInv'
      BY <2>1 DEF MirroredInv
    <2> QED
      BY <2>7, <2>8, <2>9, <2>11, <2>12, <2>13, <2>14 DEF SyncedInv, MirrorInv
  <1>9. CASE Crash
    <2>1. /\ UNCHANGED <<user, group, project, links, ad, homes>> /\ synced' = "no"
          /\ todo' = [a \in Actors |-> <<>>]
          /\ (excuse' = excuse /\ Idle("sync")) \/ "interrupted" \in excuse'
      BY <1>9 DEF Crash, tables
    <2>2. todo'["api"] = <<>> /\ todo'["projects"] = <<>> /\ todo'["sync"] = <<>>
      BY <2>1 DEF Actors
    <2>3. /\ Elems(todo'["api"]) = {} /\ Elems(todo'["projects"]) = {} /\ Pending' = {}
          /\ OnlyLast(todo'["api"], "drop_project") /\ OnlyLast(todo'["sync"], "synced")
          /\ Apart(todo'["sync"]) /\ HomesFirst(todo'["sync"])
      BY <2>2, Singles DEF Pending, OnlyLast, Apart, HomesFirst
    <2>4. TaskInv' /\ AdInv' /\ QuietInv'
      BY <2>1, <2>2, <2>3 DEF SyncedInv, TaskInv, AdInv, QuietInv
    <2>5. Exists' <=> Exists
      BY <2>1 DEF Exists
    <2>6. LinksInv'
      BY <2>1, <2>3, <2>5 DEF SyncedInv, LinksInv
    <2>7. ShapeInv' /\ GroupsInv' /\ UsersInv' /\ MirroredInv'
      BY <2>1, <2>3 DEF ShapeInv, GroupsInv, UsersInv, MirroredInv
    <2>8. HomesInv'
      <3>1. CASE "interrupted" \in excuse'
        BY <3>1 DEF HomesInv
      <3>2. CASE excuse' = excuse /\ Idle("sync")
        <4>1. Pending = {}
          BY <3>2, Singles DEF Pending, Idle
        <4> QED
          BY <2>1, <3>2, <4>1 DEF SyncedInv, MirrorInv, HomesInv
      <3> QED
        BY <2>1, <3>1, <3>2
    <2> QED
      BY <2>4, <2>6, <2>7, <2>8 DEF SyncedInv, MirrorInv
  <1>10. CASE UNCHANGED vars
    BY <1>3, <1>10 DEF vars, tables, directoryVars
  <1> QED
    BY <1>4, <1>5, <1>6, <1>7, <1>8, <1>9, <1>10 DEF Next, Finished

\* When the fan-outs of requests, tasks and the synchronisation do not interleave,
\* a synchronisation that nothing disturbed leaves the cluster's users, groups and
\* memberships as the directory has them, for the users and groups that are
\* enabled, and every user with a row has had a home directory requested
\* (ADSyncService, create_user, delete_user, add_users_to_group,
\* remove_users_from_group, create_group, delete_group).  The exceptions are a user
\* whose common name is not its account name, which is neither created nor added to
\* groups, and a user or group whose creation failed, so that rows and groups are
\* complete only if none did.  The failure of one user or group is no reason for
\* another to be left out: every difference is in a try block of its own.
THEOREM DirectoryMirrored ==
  ASSUME ~Overlap
  PROVE  Spec => []DirectoryIsMirrored
  <1> DEFINE I == MembershipInv /\ SyncedInv
  <1>1. Init => I
    BY InitMatches, InitMirrors
  <1>2. I /\ [Next]_vars => I'
    BY NextMatches, NextMirrors
  <1>3. I => DirectoryIsMirrored
    BY DEF DirectoryIsMirrored, SyncedInv, MirroredInv, Mirrored
  <1> QED
    BY <1>1, <1>2, <1>3, PTL DEF Spec
=============================================================================
