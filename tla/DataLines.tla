------------------------------ MODULE DataLines ------------------------------
(***************************************************************************)
(* Lines of frames on their way from a sender to a receiver, and lemmas     *)
(* about them.  A frame has a type; a Data frame is numbered by its sender, *)
(* from 1.  A line is a sequence of frames, of which the receiver takes the *)
(* first; its channels (a NATS subject, a callback's hand, a Go channel)    *)
(* are its pieces, one behind the other.                                    *)
(***************************************************************************)
EXTENDS Naturals, Sequences, SequenceTheorems, TLAPS

\* The frames of F are numbered.
Numbers(F) == \A f \in F : f.n \in Nat

\* The Data numbered m is in the line, before position i.
DataBefore(L, i, m) == \E j \in 1..Len(L) : j < i /\ L[j].type = "Data" /\ L[j].n = m

\* A line of the Data after the first a, of top that were sent: in order, and whoever is
\* in it has in front of him all that come before; a frame of a type in last has them all.
Ordered(L, a, top, last) ==
  /\ a <= top
  /\ \A i \in 1..Len(L) : L[i].type = "Data" => a < L[i].n /\ L[i].n <= top
  /\ \A i, j \in 1..Len(L) :
       i < j /\ L[i].type = "Data" /\ L[j].type = "Data" => L[i].n < L[j].n
  /\ \A i \in 1..Len(L) :
       L[i].type = "Data" => \A m \in (a + 1)..(L[i].n - 1) : DataBefore(L, i, m)
  /\ \A i \in 1..Len(L) :
       L[i].type \in last => \A m \in (a + 1)..top : DataBefore(L, i, m)

\* None of them is missing from the line.
Whole(L, a, top) == \A m \in (a + 1)..top : DataBefore(L, Len(L) + 1, m)

\* So are those of a line of them.
LEMMA Numbered ==
  ASSUME NEW F, Numbers(F), NEW L \in Seq(F), NEW i \in 1..Len(L)
  PROVE  L[i] \in F /\ L[i].n \in Nat
<1>1. L[i] \in F
  OBVIOUS
<1> QED
  BY <1>1 DEF Numbers

\* A line that gets longer.
LEMMA OrderedAppend ==
  ASSUME NEW F, Numbers(F), NEW last, "Data" \notin last, NEW L \in Seq(F), NEW f \in F,
         NEW a \in Nat, NEW top \in Nat, Ordered(L, a, top, last), Whole(L, a, top)
  PROVE  /\ f.type # "Data" => Ordered(Append(L, f), a, top, last) /\ Whole(Append(L, f), a, top)
         /\ f.type = "Data" /\ f.n = top + 1 /\ (\A i \in 1..Len(L) : L[i].type \notin last) =>
              Ordered(Append(L, f), a, top + 1, last) /\ Whole(Append(L, f), a, top + 1)
<1> DEFINE M == Append(L, f)
<1>1. /\ M \in Seq(F) /\ Len(L) \in Nat /\ Len(M) = Len(L) + 1 /\ M[Len(L) + 1] = f
      /\ \A i \in 1..Len(L) : i \in 1..Len(M) /\ M[i] = L[i]
      /\ \A i \in 1..Len(M) : i \in 1..Len(L) \/ i = Len(L) + 1
  BY AppendProperties
<1> HIDE DEF M
<1>n. (\A i \in 1..Len(L) : L[i].n \in Nat) /\ (\A i \in 1..Len(M) : M[i].n \in Nat)
  BY <1>1, Numbered
<1>2. \A m, i : DataBefore(L, i, m) => DataBefore(M, i, m)
  BY <1>1 DEF DataBefore
<1>3. \A m : DataBefore(L, Len(L) + 1, m) => DataBefore(M, Len(M) + 1, m)
  <2> SUFFICES ASSUME NEW m, DataBefore(L, Len(L) + 1, m) PROVE DataBefore(M, Len(M) + 1, m)
    OBVIOUS
  <2>1. PICK j \in 1..Len(L) : L[j].type = "Data" /\ L[j].n = m
    BY DEF DataBefore
  <2> QED
    BY <1>1, <2>1 DEF DataBefore
<1>4. ASSUME f.type # "Data"
      PROVE  Ordered(M, a, top, last) /\ Whole(M, a, top)
  <2>1. Whole(M, a, top)
    BY <1>3 DEF Whole
  <2>2. /\ a <= top
        /\ \A i \in 1..Len(M) : M[i].type = "Data" => i \in 1..Len(L) /\ M[i] = L[i]
    BY <1>1, <1>4 DEF Ordered
  <2>3. /\ \A i \in 1..Len(M) : M[i].type = "Data" => a < M[i].n /\ M[i].n <= top
        /\ \A i, j \in 1..Len(M) :
             i < j /\ M[i].type = "Data" /\ M[j].type = "Data" => M[i].n < M[j].n
        /\ \A i \in 1..Len(M) :
             M[i].type = "Data" => \A m \in (a + 1)..(M[i].n - 1) : DataBefore(M, i, m)
    BY <1>2, <2>2 DEF Ordered
  <2>4. ASSUME NEW i \in 1..Len(M), M[i].type \in last, NEW m \in (a + 1)..top
        PROVE  DataBefore(M, i, m)
    <3>1. CASE i \in 1..Len(L)
      BY <1>1, <1>2, <2>4, <3>1 DEF Ordered
    <3>2. CASE i = Len(L) + 1
      BY <1>2, <3>2 DEF Whole
    <3> QED
      BY <1>1, <3>1, <3>2
  <2> QED
    BY <2>1, <2>2, <2>3, <2>4 DEF Ordered
<1>5. ASSUME f.type = "Data", f.n = top + 1, \A i \in 1..Len(L) : L[i].type \notin last
      PROVE  Ordered(M, a, top + 1, last) /\ Whole(M, a, top + 1)
  <2>1. Whole(M, a, top + 1)
    <3> SUFFICES ASSUME NEW m \in (a + 1)..(top + 1) PROVE DataBefore(M, Len(M) + 1, m)
      BY DEF Whole
    <3>1. CASE m = top + 1
      <4>1. Len(L) + 1 \in 1..Len(M) /\ Len(L) + 1 < Len(M) + 1
        BY <1>1
      <4> QED
        BY <1>1, <1>5, <3>1, <4>1 DEF DataBefore
    <3>2. CASE m # top + 1
      <4>1. m \in (a + 1)..top
        BY <3>2
      <4> QED
        BY <1>3, <4>1 DEF Whole
    <3> QED
      BY <3>1, <3>2
  <2>2. \A i \in 1..Len(M) : M[i].type \notin last
    BY <1>1, <1>5
  <2>3. a <= top + 1 /\ \A i \in 1..Len(M) : M[i].type = "Data" => a < M[i].n /\ M[i].n <= top + 1
    <3>1. a <= top /\ \A i \in 1..Len(L) : L[i].type = "Data" => a < L[i].n /\ L[i].n <= top
      BY DEF Ordered
    <3>2. \A i \in 1..Len(L) : L[i].type = "Data" => a < L[i].n /\ L[i].n <= top + 1
      BY <1>n, <3>1
    <3>3. a < M[Len(L) + 1].n /\ M[Len(L) + 1].n <= top + 1
      BY <1>1, <1>5, <3>1
    <3> QED
      BY <1>1, <3>1, <3>2, <3>3
  <2>4. ASSUME NEW i \in 1..Len(M), NEW j \in 1..Len(M), i < j, M[i].type = "Data", M[j].type = "Data"
        PROVE  M[i].n < M[j].n
    <3>1. i \in 1..Len(L) /\ M[i] = L[i] /\ L[i].n <= top /\ L[i].n \in Nat
      BY <1>1, <1>n, <2>4 DEF Ordered
    <3>2. CASE j \in 1..Len(L)
      <4>1. M[j] = L[j]
        BY <1>1, <3>2
      <4> QED
        BY <2>4, <3>1, <3>2, <4>1 DEF Ordered
    <3>3. CASE j = Len(L) + 1
      BY <1>1, <1>5, <3>1, <3>3
    <3> QED
      BY <1>1, <3>2, <3>3
  <2>5. ASSUME NEW i \in 1..Len(M), M[i].type = "Data", NEW m \in (a + 1)..(M[i].n - 1)
        PROVE  DataBefore(M, i, m)
    <3>1. CASE i \in 1..Len(L)
      BY <1>1, <1>2, <2>5, <3>1 DEF Ordered
    <3>2. CASE i = Len(L) + 1
      <4>1. m \in (a + 1)..top
        BY <1>1, <1>5, <3>2
      <4> QED
        BY <1>2, <3>2, <4>1 DEF Whole
    <3> QED
      BY <1>1, <3>1, <3>2
  <2> QED
    BY <2>1, <2>2, <2>3, <2>4, <2>5 DEF Ordered
<1> QED
  BY <1>4, <1>5 DEF M

\* A line that loses its first.
LEMMA OrderedTail ==
  ASSUME NEW F, Numbers(F), NEW last, NEW L \in Seq(F), L # <<>>, NEW a \in Nat, NEW top \in Nat, Ordered(L, a, top, last)
  PROVE  /\ Head(L).type # "Data" =>
              Ordered(Tail(L), a, top, last) /\ (Whole(L, a, top) => Whole(Tail(L), a, top))
         /\ Head(L).type = "Data" =>
              /\ Head(L).n = a + 1
              /\ Ordered(Tail(L), a + 1, top, last) /\ (Whole(L, a, top) => Whole(Tail(L), a + 1, top))
         /\ Head(L).type \in last => a = top
<1> DEFINE T == Tail(L)
<1>1. /\ T \in Seq(F) /\ Len(L) \in Nat \ {0} /\ Len(T) = Len(L) - 1 /\ L[1] = Head(L)
      /\ \A i \in 1..Len(T) : i + 1 \in 1..Len(L) /\ T[i] = L[i + 1]
  BY HeadTailProperties
<1> HIDE DEF T
<1>n. (\A i \in 1..Len(L) : L[i].n \in Nat) /\ (\A i \in 1..Len(T) : T[i].n \in Nat)
  BY <1>1, Numbered
<1>2. ASSUME NEW i \in 1..(Len(T) + 1), NEW m, DataBefore(L, i + 1, m),
             ~(L[1].type = "Data" /\ L[1].n = m)
      PROVE  DataBefore(T, i, m)
  <2>1. PICK j \in 1..Len(L) : j < i + 1 /\ L[j].type = "Data" /\ L[j].n = m
    BY <1>2 DEF DataBefore
  <2>2. j - 1 \in 1..Len(T) /\ j - 1 < i /\ T[j - 1] = L[j]
    BY <1>1, <1>2, <2>1
  <2> QED
    BY <2>1, <2>2 DEF DataBefore
<1>t. \A i, j \in 1..Len(T) : i < j /\ T[i].type = "Data" /\ T[j].type = "Data" => T[i].n < T[j].n
  <2> SUFFICES ASSUME NEW i \in 1..Len(T), NEW j \in 1..Len(T), i < j,
                      T[i].type = "Data", T[j].type = "Data"
               PROVE  T[i].n < T[j].n
    OBVIOUS
  <2>1. i + 1 \in 1..Len(L) /\ j + 1 \in 1..Len(L) /\ i + 1 < j + 1
        /\ T[i] = L[i + 1] /\ T[j] = L[j + 1]
    BY <1>1
  <2> QED
    BY <2>1 DEF Ordered
<1>3. \A m : ~DataBefore(L, 1, m)
  BY DEF DataBefore
<1>4. ASSUME Head(L).type # "Data"
      PROVE  Ordered(T, a, top, last) /\ (Whole(L, a, top) => Whole(T, a, top))
  <2>1. \A i \in 1..(Len(T) + 1) : \A m : DataBefore(L, i + 1, m) => DataBefore(T, i, m)
    BY <1>1, <1>2, <1>4
  <2>2. \A i \in 1..Len(T) : i \in 1..(Len(T) + 1) /\ i + 1 \in 1..Len(L) /\ T[i] = L[i + 1]
    BY <1>1
  <2>d. /\ a <= top
        /\ \A i \in 1..Len(T) : T[i].type = "Data" => a < T[i].n /\ T[i].n <= top
        /\ \A i \in 1..Len(T) :
             T[i].type = "Data" => \A m \in (a + 1)..(T[i].n - 1) : DataBefore(T, i, m)
        /\ \A i \in 1..Len(T) : T[i].type \in last => \A m \in (a + 1)..top : DataBefore(T, i, m)
    BY <2>1, <2>2 DEF Ordered
  <2>3. Ordered(T, a, top, last)
    BY <1>t, <2>d DEF Ordered
  <2>4. Len(T) + 1 \in 1..(Len(T) + 1) /\ (Len(T) + 1) + 1 = Len(L) + 1
    BY <1>1
  <2>5. Whole(L, a, top) => Whole(T, a, top)
    BY <2>1, <2>4 DEF Whole
  <2> QED
    BY <2>3, <2>5
<1>5. ASSUME Head(L).type = "Data"
      PROVE  /\ Head(L).n = a + 1
             /\ Ordered(T, a + 1, top, last) /\ (Whole(L, a, top) => Whole(T, a + 1, top))
  <2>1. 1 \in 1..Len(L) /\ a < L[1].n /\ L[1].n <= top /\ L[1].type = "Data"
    BY <1>1, <1>5 DEF Ordered
  <2>2. L[1].n = a + 1
    <3>1. a + 1 \in (a + 1)..(L[1].n - 1) => DataBefore(L, 1, a + 1)
      BY <2>1 DEF Ordered
    <3> QED
      BY <1>1, <1>3, <1>n, <2>1, <3>1
  <2>3. \A i \in 1..(Len(T) + 1) : \A m : m # a + 1 /\ DataBefore(L, i + 1, m) => DataBefore(T, i, m)
    BY <1>2, <2>2
  <2>4. \A i \in 1..Len(T) : /\ i \in 1..(Len(T) + 1) /\ i + 1 \in 1..Len(L) /\ T[i] = L[i + 1]
                             /\ 1 < i + 1 /\ T[i].n \in Nat
    BY <1>1, <1>n
  <2>5. a + 1 <= top /\ \A i \in 1..Len(T) : T[i].type = "Data" => a + 1 < T[i].n /\ T[i].n <= top
    BY <2>1, <2>2, <2>4 DEF Ordered
  <2>7. ASSUME NEW i \in 1..Len(T), T[i].type = "Data", NEW m \in ((a + 1) + 1)..(T[i].n - 1)
        PROVE  DataBefore(T, i, m)
    <3>1. m \in (a + 1)..(L[i + 1].n - 1) /\ m # a + 1
      BY <2>4, <2>7
    <3> QED
      BY <2>3, <2>4, <2>7, <3>1 DEF Ordered
  <2>8. ASSUME NEW i \in 1..Len(T), T[i].type \in last, NEW m \in ((a + 1) + 1)..top
        PROVE  DataBefore(T, i, m)
    <3>1. m \in (a + 1)..top /\ m # a + 1
      OBVIOUS
    <3> QED
      BY <2>3, <2>4, <2>8, <3>1 DEF Ordered
  <2>9. ASSUME Whole(L, a, top), NEW m \in ((a + 1) + 1)..top
        PROVE  DataBefore(T, Len(T) + 1, m)
    <3>1. m \in (a + 1)..top /\ m # a + 1 /\ Len(T) + 1 \in 1..(Len(T) + 1)
          /\ (Len(T) + 1) + 1 = Len(L) + 1
      BY <1>1
    <3> QED
      BY <2>3, <2>9, <3>1 DEF Whole
  <2>10. Ordered(T, a + 1, top, last)
    BY <1>t, <2>5, <2>7, <2>8 DEF Ordered
  <2> QED
    BY <1>1, <2>2, <2>9, <2>10 DEF Whole
<1>6. ASSUME Head(L).type \in last
      PROVE  a = top
  <2>1. 1 \in 1..Len(L) /\ a <= top /\ (a + 1 \in (a + 1)..top => DataBefore(L, 1, a + 1))
    BY <1>1, <1>6 DEF Ordered
  <2> QED
    BY <1>3, <2>1
<1> QED
  BY <1>4, <1>5, <1>6 DEF T

\* A line that is cut: what stays has in front of it what it had.
LEMMA OrderedPrefix ==
  ASSUME NEW F, NEW last, NEW P \in Seq(F), NEW Q \in Seq(F), NEW a \in Nat, NEW top \in Nat,
         Ordered(P \o Q, a, top, last)
  PROVE  Ordered(P, a, top, last)
<1> DEFINE L == P \o Q
<1>1. /\ Len(P) \in Nat /\ Len(L) \in Nat
      /\ \A i \in 1..Len(P) : i \in 1..Len(L) /\ L[i] = P[i]
  BY ConcatProperties
<1>2. Ordered(L, a, top, last)
  OBVIOUS
<1> HIDE DEF L
<1>3. \A i \in 1..Len(P) : \A m : DataBefore(L, i, m) => DataBefore(P, i, m)
  <2> SUFFICES ASSUME NEW i \in 1..Len(P), NEW m, DataBefore(L, i, m) PROVE DataBefore(P, i, m)
    OBVIOUS
  <2>1. PICK j \in 1..Len(L) : j < i /\ L[j].type = "Data" /\ L[j].n = m
    BY DEF DataBefore
  <2>2. j \in 1..Len(P)
    BY <1>1, <2>1
  <2> QED
    BY <1>1, <2>1, <2>2 DEF DataBefore
<1>4. /\ a <= top
      /\ \A i \in 1..Len(P) : P[i].type = "Data" => a < P[i].n /\ P[i].n <= top
      /\ \A i, j \in 1..Len(P) :
           i < j /\ P[i].type = "Data" /\ P[j].type = "Data" => P[i].n < P[j].n
  BY <1>1, <1>2 DEF Ordered
<1>5. /\ \A i \in 1..Len(P) :
           P[i].type = "Data" => \A m \in (a + 1)..(P[i].n - 1) : DataBefore(P, i, m)
      /\ \A i \in 1..Len(P) :
           P[i].type \in last => \A m \in (a + 1)..top : DataBefore(P, i, m)
  BY <1>1, <1>2, <1>3 DEF Ordered
<1> QED
  BY <1>4, <1>5 DEF Ordered

\* How two sequences, one behind the other, lose, pass on and get an element.
LEMMA Joined ==
  ASSUME NEW S, NEW A \in Seq(S), NEW B \in Seq(S), NEW f \in S
  PROVE  /\ A # <<>> => Tail(A \o B) = Tail(A) \o B /\ Head(A \o B) = Head(A) /\ A \o B # <<>>
         /\ B # <<>> => Append(A, Head(B)) \o Tail(B) = A \o B
         /\ A \o Append(B, f) = Append(A \o B, f)
<1>0. A \o B \in Seq(S) /\ Len(A \o B) = Len(A) + Len(B) /\ Len(A) \in Nat /\ Len(B) \in Nat
      /\ \A i \in 1..(Len(A) + Len(B)) : (A \o B)[i] = IF i <= Len(A) THEN A[i] ELSE B[i - Len(A)]
  BY ConcatProperties
<1>1. ASSUME A # <<>>
      PROVE  Tail(A \o B) = Tail(A) \o B /\ Head(A \o B) = Head(A) /\ A \o B # <<>>
  <2>1. Tail(A) \in Seq(S) /\ Len(Tail(A)) = Len(A) - 1 /\ Len(A) >= 1 /\ Head(A) = A[1]
        /\ \A i \in 1..Len(Tail(A)) : Tail(A)[i] = A[i + 1]
    BY <1>1, HeadTailProperties
  <2>2. A \o B # <<>>
    BY <1>0, <2>1
  <2>3. Tail(A \o B) \in Seq(S) /\ Len(Tail(A \o B)) = Len(A) + Len(B) - 1
        /\ Head(A \o B) = (A \o B)[1]
        /\ \A i \in 1..Len(Tail(A \o B)) : Tail(A \o B)[i] = (A \o B)[i + 1]
    BY <1>0, <2>2, HeadTailProperties
  <2>4. Tail(A) \o B \in Seq(S) /\ Len(Tail(A) \o B) = Len(A) - 1 + Len(B)
        /\ \A i \in 1..(Len(A) - 1 + Len(B)) :
             (Tail(A) \o B)[i] = IF i <= Len(A) - 1 THEN Tail(A)[i] ELSE B[i - (Len(A) - 1)]
    BY <2>1, ConcatProperties
  <2>5. Len(Tail(A \o B)) = Len(Tail(A) \o B)
    BY <1>0, <2>3, <2>4
  <2>6. \A i \in 1..Len(Tail(A \o B)) : Tail(A \o B)[i] = (Tail(A) \o B)[i]
    BY <1>0, <2>1, <2>3, <2>4
  <2>7. Tail(A \o B) = Tail(A) \o B
    BY <2>3, <2>4, <2>5, <2>6, SeqEqual
  <2> QED
    BY <1>0, <2>1, <2>2, <2>3, <2>7
<1>2. ASSUME B # <<>>
      PROVE  Append(A, Head(B)) \o Tail(B) = A \o B
  <2>1. Tail(B) \in Seq(S) /\ Len(Tail(B)) = Len(B) - 1 /\ Len(B) >= 1 /\ Head(B) = B[1]
        /\ Head(B) \in S /\ \A i \in 1..Len(Tail(B)) : Tail(B)[i] = B[i + 1]
    BY <1>2, HeadTailProperties
  <2>2. Append(A, Head(B)) \in Seq(S) /\ Len(Append(A, Head(B))) = Len(A) + 1
        /\ (\A i \in 1..Len(A) : Append(A, Head(B))[i] = A[i])
        /\ Append(A, Head(B))[Len(A) + 1] = Head(B)
    BY <2>1, AppendProperties
  <2>3. PICK A1 \in Seq(S) : A1 = Append(A, Head(B))
    BY <2>2
  <2>4. PICK B1 \in Seq(S) : B1 = Tail(B)
    BY <2>1
  <2>5. A1 \o B1 \in Seq(S) /\ Len(A1 \o B1) = Len(A) + Len(B)
        /\ \A i \in 1..(Len(A) + Len(B)) :
             (A1 \o B1)[i] = IF i <= Len(A) + 1 THEN A1[i] ELSE B1[i - (Len(A) + 1)]
    BY <1>0, <2>1, <2>2, <2>3, <2>4, ConcatProperties
  <2>6. \A i \in 1..(Len(A) + Len(B)) : (A1 \o B1)[i] = (A \o B)[i]
    BY <1>0, <2>1, <2>2, <2>3, <2>4, <2>5
  <2>7. A1 \o B1 = A \o B
    BY <1>0, <2>5, <2>6, SeqEqual
  <2> QED
    BY <2>3, <2>4, <2>7
<1>3. A \o Append(B, f) = Append(A \o B, f)
  <2>1. PICK B1 \in Seq(S) : B1 = Append(B, f)
    BY AppendProperties
  <2>2. Len(B1) = Len(B) + 1 /\ (\A i \in 1..Len(B) : B1[i] = B[i]) /\ B1[Len(B) + 1] = f
    BY <2>1, AppendProperties
  <2>3. PICK C \in Seq(S) : C = A \o B
    BY <1>0
  <2>4. Append(C, f) \in Seq(S) /\ Len(Append(C, f)) = Len(A) + Len(B) + 1
        /\ (\A i \in 1..(Len(A) + Len(B)) : Append(C, f)[i] = C[i])
        /\ Append(C, f)[Len(A) + Len(B) + 1] = f
    BY <1>0, <2>3, AppendProperties
  <2>5. A \o B1 \in Seq(S) /\ Len(A \o B1) = Len(A) + Len(B) + 1
        /\ \A i \in 1..(Len(A) + Len(B) + 1) :
             (A \o B1)[i] = IF i <= Len(A) THEN A[i] ELSE B1[i - Len(A)]
    BY <1>0, <2>2, ConcatProperties
  <2>6. \A i \in 1..(Len(A) + Len(B) + 1) : (A \o B1)[i] = Append(C, f)[i]
    <3>1. PICK a \in Nat : a = Len(A)
      BY <1>0
    <3>2. PICK b \in Nat : b = Len(B)
      BY <1>0
    <3>3. /\ \A i \in 1..(a + b) : Append(C, f)[i] = IF i <= a THEN A[i] ELSE B[i - a]
          /\ Append(C, f)[a + b + 1] = f /\ B1[b + 1] = f /\ \A i \in 1..b : B1[i] = B[i]
          /\ \A i \in 1..(a + b + 1) : (A \o B1)[i] = IF i <= a THEN A[i] ELSE B1[i - a]
      BY <1>0, <2>2, <2>3, <2>4, <2>5, <3>1, <3>2
    <3>4. \A i \in 1..(a + b + 1) : \/ i \in 1..(a + b) /\ i > a /\ i - a \in 1..b
                                    \/ i \in 1..(a + b) /\ i <= a
                                    \/ i = a + b + 1 /\ i - a = b + 1 /\ ~(i <= a)
      OBVIOUS
    <3>5. \A i \in 1..(a + b + 1) : (A \o B1)[i] = Append(C, f)[i]
      BY <3>3, <3>4
    <3> QED
      BY <3>1, <3>2, <3>5
  <2>7. A \o B1 = Append(C, f)
    BY <2>4, <2>5, <2>6, SeqEqual
  <2> QED
    BY <2>1, <2>3, <2>7
<1> QED
  BY <1>1, <1>2, <1>3

\* More is to come, and nobody in the line said that it is the end.
LEMMA OrderedHigher ==
  ASSUME NEW F, Numbers(F), NEW last, NEW L \in Seq(F), NEW a \in Nat, NEW top \in Nat, Ordered(L, a, top, last),
         \A i \in 1..Len(L) : L[i].type \notin last
  PROVE  Ordered(L, a, top + 1, last)
<1>1. \A i \in 1..Len(L) : L[i].n \in Nat
  BY Numbered
<1>2. a <= top + 1 /\ \A i \in 1..Len(L) : L[i].type = "Data" => a < L[i].n /\ L[i].n <= top + 1
  BY <1>1 DEF Ordered
<1> QED
  BY <1>2 DEF Ordered

\* The empty line, when all that was sent has been taken.
LEMMA OrderedEmpty ==
  ASSUME NEW last, NEW a \in Nat
  PROVE  Ordered(<<>>, a, a, last) /\ Whole(<<>>, a, a)
BY DEF Ordered, Whole

\* A frame in the line that counts for nothing goes.
LEMMA OrderedDrop ==
  ASSUME NEW F, Numbers(F), NEW last, NEW P \in Seq(F), NEW Q \in Seq(F), Q # <<>>,
         Head(Q).type # "Data", NEW a \in Nat, NEW top \in Nat, Ordered(P \o Q, a, top, last)
  PROVE  /\ Ordered(P \o Tail(Q), a, top, last)
         /\ Whole(P \o Q, a, top) => Whole(P \o Tail(Q), a, top)
         /\ \A i \in 1..Len(P \o Tail(Q)) : \E j \in 1..Len(P \o Q) : (P \o Tail(Q))[i] = (P \o Q)[j]
<1>1. PICK T \in Seq(F) : T = Tail(Q)
  BY HeadTailProperties
<1>2. PICK p \in Nat, q \in Nat : p = Len(P) /\ Len(Q) = q + 1 /\ Len(T) = q
  BY <1>1, LenProperties, HeadTailProperties
<1>3. \A i \in 1..q : T[i] = Q[i + 1]
  BY <1>1, <1>2, HeadTailProperties
<1>4. PICK L \in Seq(F) : L = P \o Q
  BY ConcatProperties
<1>5. PICK M \in Seq(F) : M = P \o T
  BY ConcatProperties
<1>6. /\ Len(L) = p + q + 1 /\ Len(M) = p + q
      /\ \A i \in 1..(p + q + 1) : L[i] = IF i <= p THEN P[i] ELSE Q[i - p]
      /\ \A i \in 1..(p + q) : M[i] = IF i <= p THEN P[i] ELSE T[i - p]
  <2>1. Len(L) = p + q + 1 /\ \A i \in 1..(p + q + 1) : L[i] = IF i <= p THEN P[i] ELSE Q[i - p]
    <3>1. PICK b \in Nat : b = Len(Q)
      BY <1>2
    <3>2. Len(L) = p + b /\ \A i \in 1..(p + b) : L[i] = IF i <= p THEN P[i] ELSE Q[i - p]
      BY <1>2, <1>4, <3>1, ConcatProperties
    <3>3. p + b = p + q + 1
      BY <1>2, <3>1
    <3> QED
      BY <3>2, <3>3
  <2>2. Len(M) = p + q /\ \A i \in 1..(p + q) : M[i] = IF i <= p THEN P[i] ELSE T[i - p]
    BY <1>2, <1>5, ConcatProperties
  <2> QED
    BY <2>1, <2>2
<1> DEFINE up(i) == IF i <= p THEN i ELSE i + 1
<1>7. \A i \in 1..Len(M) : up(i) \in 1..Len(L) /\ M[i] = L[up(i)]
  <2> SUFFICES ASSUME NEW i \in 1..(p + q) PROVE up(i) \in 1..(p + q + 1) /\ M[i] = L[up(i)]
    BY <1>6
  <2>1. CASE i <= p
    BY <1>6, <2>1
  <2>2. CASE ~(i <= p)
    <3>1. i - p \in 1..q /\ i + 1 \in 1..(p + q + 1) /\ ~(i + 1 <= p) /\ (i + 1) - p = (i - p) + 1
      BY <2>2
    <3>2. M[i] = T[i - p] /\ L[i + 1] = Q[(i - p) + 1]
      BY <1>6, <2>2, <3>1
    <3> QED
      BY <1>3, <2>2, <3>1, <3>2
  <2> QED
    BY <2>1, <2>2
<1>8. L[p + 1].type # "Data"
  <2>1. p + 1 \in 1..(p + q + 1) /\ ~(p + 1 <= p) /\ (p + 1) - p = 1
    OBVIOUS
  <2>2. L[p + 1] = Q[1]
    BY <1>6, <2>1
  <2>3. Q[1] = Head(Q)
    BY HeadTailProperties
  <2> QED
    BY <2>2, <2>3
<1>9. \A i, j \in 1..(Len(M) + 1) : i < j => up(i) < up(j)
  <2> SUFFICES ASSUME NEW i \in 1..(p + q + 1), NEW j \in 1..(p + q + 1), i < j PROVE up(i) < up(j)
    BY <1>6
  <2> QED
    OBVIOUS
<1>10. ASSUME NEW i \in 1..(Len(M) + 1), NEW m, DataBefore(L, up(i), m)
       PROVE  DataBefore(M, i, m)
  <2>1. PICK j \in 1..Len(L) : j < up(i) /\ L[j].type = "Data" /\ L[j].n = m
    BY <1>10 DEF DataBefore
  <2>2. j # p + 1
    BY <1>8, <2>1
  <2>3. PICK k \in 1..Len(M) : up(k) = j /\ k < i
    <3>1. CASE j <= p
      <4>1. j \in 1..Len(M) /\ up(j) = j /\ (i <= p => j < i) /\ (~(i <= p) => j < i)
        BY <1>6, <2>1, <3>1
      <4> QED
        BY <4>1
    <3>2. CASE j > p
      <4>1. j - 1 \in 1..Len(M) /\ ~(j - 1 <= p) /\ (j - 1) + 1 = j /\ j - 1 < i
        BY <1>6, <2>1, <2>2, <3>2
      <4> QED
        BY <4>1
    <3> QED
      BY <3>1, <3>2
  <2>4. M[k] = L[j]
    BY <1>7, <2>3
  <2> QED
    BY <2>1, <2>3, <2>4 DEF DataBefore
<1>11. Len(M) + 1 \in 1..(Len(M) + 1) /\ \A i \in 1..Len(M) : i \in 1..(Len(M) + 1)
  BY <1>6
<1> HIDE DEF up
<1>o. Ordered(L, a, top, last)
  BY <1>4
<1>13. /\ a <= top
       /\ \A i \in 1..Len(M) : M[i].type = "Data" => a < M[i].n /\ M[i].n <= top
  BY <1>o, <1>7 DEF Ordered
<1>14. ASSUME NEW i \in 1..Len(M), NEW j \in 1..Len(M), i < j, M[i].type = "Data", M[j].type = "Data"
       PROVE  M[i].n < M[j].n
  <2>1. up(i) \in 1..Len(L) /\ up(j) \in 1..Len(L) /\ up(i) < up(j)
    BY <1>7, <1>9, <1>11, <1>14
  <2>2. M[i] = L[up(i)] /\ M[j] = L[up(j)]
    BY <1>7
  <2> QED
    BY <1>o, <1>14, <2>1, <2>2 DEF Ordered
<1>15. ASSUME NEW i \in 1..Len(M), M[i].type = "Data", NEW m \in (a + 1)..(M[i].n - 1)
       PROVE  DataBefore(M, i, m)
  <2>1. DataBefore(L, up(i), m)
    BY <1>o, <1>7, <1>15 DEF Ordered
  <2> QED
    BY <1>10, <1>11, <2>1
<1>16. ASSUME NEW i \in 1..Len(M), M[i].type \in last, NEW m \in (a + 1)..top
       PROVE  DataBefore(M, i, m)
  <2>1. DataBefore(L, up(i), m)
    BY <1>o, <1>7, <1>16 DEF Ordered
  <2> QED
    BY <1>10, <1>11, <2>1
<1>17. Ordered(M, a, top, last)
  BY <1>13, <1>14, <1>15, <1>16 DEF Ordered
<1>18. ASSUME Whole(L, a, top), NEW m \in (a + 1)..top
       PROVE  DataBefore(M, Len(M) + 1, m)
  <2>1. PICK j \in 1..Len(L) : L[j].type = "Data" /\ L[j].n = m
    BY <1>18 DEF Whole, DataBefore
  <2>2. DataBefore(L, up(Len(M) + 1), m)
    <3>1. j < up(Len(M) + 1)
      <4>1. CASE q = 0
        <5>1. up(Len(M) + 1) = p + 1 + 1 
          BY <1>6, <4>1 DEF up
        <5> QED
          BY <1>6, <4>1, <5>1
      <4>2. CASE q # 0
        <5>1. up(Len(M) + 1) = p + q + 2
          BY <1>6, <4>2 DEF up
        <5> QED
          BY <1>6, <5>1
      <4> QED
        BY <4>1, <4>2
    <3> QED
      BY <2>1, <3>1 DEF DataBefore
  <2> QED
    BY <1>10, <1>11, <2>2
<1>19. Whole(L, a, top) => Whole(M, a, top)
  BY <1>18 DEF Whole
<1> QED
  BY <1>1, <1>4, <1>5, <1>7, <1>17, <1>19
=============================================================================
