-------------------------- MODULE DocumentsProofs --------------------------
(***************************************************************************)
(* Proofs about Documents and Names, for documents of any size, any keys   *)
(* and any expressions.                                                    *)
(***************************************************************************)
EXTENDS Documents, SequenceTheorems, WellFoundedInduction, TLAPS

-----------------------------------------------------------------------------
(* Names: activity names and pointers can be read back. *)

\* What holds of some number holds of a least one.
LEMMA LeastNumber ==
  ASSUME NEW T \in SUBSET Nat, T # {}
  PROVE  \E n \in T : \A m \in T : n =< m
<1>1. PICK n \in T : \A m \in T : ~ (<<m, n>> \in OpToRel(<, Nat))
  BY NatLessThanWellFounded, WFMin
<1>2. \A m \in T : ~ (m < n)
  BY <1>1 DEF OpToRel
<1> QED
  BY <1>2

-----------------------------------------------------------------------------
(* FlattenSeq *)

\* f is the concatenations of the first sequences of s, up to the n-th.
Flattens(f, s, n) ==
  f = [i \in 1 .. n |-> IF i = 1 THEN s[i] ELSE f[i - 1] \o s[i]]

LEMMA FlattensExists ==
  ASSUME NEW s, NEW n \in Nat
  PROVE  \E f : Flattens(f, s, n)
<1> DEFINE Bad == {k \in Nat : ~ \E f : Flattens(f, s, k)}
<1>1. SUFFICES ASSUME Bad # {}
               PROVE  FALSE
  OBVIOUS
<1>2. PICK k \in Bad : \A m \in Bad : k =< m
  <2> HIDE DEF Bad
  <2> QED BY <1>1, LeastNumber DEF Bad
<1>3. k # 0
  <2> DEFINE f == [i \in 1 .. 0 |-> s[i]]
  <2>1. Flattens(f, s, 0)
    BY DEF Flattens
  <2> QED BY <2>1
<1>4. k - 1 \in Nat /\ k - 1 \notin Bad
  BY <1>2, <1>3
<1>5. PICK f : Flattens(f, s, k - 1)
  BY <1>4
<1> DEFINE g == [i \in 1 .. k |-> IF i = 1 THEN s[i] ELSE f[i - 1] \o s[i]]
<1>6. \A i \in 1 .. k - 1 : g[i] = f[i]
  <2>1. \A i \in 1 .. k - 1 : f[i] = IF i = 1 THEN s[i] ELSE f[i - 1] \o s[i]
    BY <1>5 DEF Flattens
  <2>2. \A i \in 1 .. k - 1 : i \in 1 .. k
    BY <1>4
  <2> QED BY <2>1, <2>2
<1>7. g = [i \in 1 .. k |-> IF i = 1 THEN s[i] ELSE g[i - 1] \o s[i]]
  <2> HIDE DEF g
  <2>1. \A i \in 1 .. k : i # 1 => i - 1 \in 1 .. k - 1
    BY <1>4
  <2>2. g = [i \in 1 .. k |-> IF i = 1 THEN s[i] ELSE f[i - 1] \o s[i]]
    BY DEF g
  <2> QED BY <1>6, <2>1, <2>2
<1>8. Flattens(g, s, k)
  BY <1>7 DEF Flattens
<1> QED
  BY <1>8

LEMMA FlattenIs ==
  ASSUME NEW S, NEW s \in Seq(S), s # <<>>
  PROVE  \E f : Flattens(f, s, Len(s)) /\ FlattenSeq(s) = f[Len(s)]
<1>1. Len(s) \in Nat /\ Len(s) # 0
  OBVIOUS
<1>2. \E f : Flattens(f, s, Len(s))
  BY <1>1, FlattensExists
<1> QED
  BY <1>1, <1>2 DEF Flattens, FlattenSeq

LEMMA FlattenEmpty == FlattenSeq(<<>>) = <<>>
  BY DEF FlattenSeq

LEMMA FlattenAppend ==
  ASSUME NEW S, NEW s \in Seq(Seq(S)), NEW x \in Seq(S)
  PROVE  FlattenSeq(Append(s, x)) = FlattenSeq(s) \o x
<1> DEFINE n == Len(s)
           t == Append(s, x)
<1>1. /\ t \in Seq(Seq(S)) /\ t # <<>> /\ Len(t) = n + 1 /\ n \in Nat
      /\ \A i \in 1 .. n : t[i] = s[i]
      /\ t[n + 1] = x
  BY AppendProperties
<1> HIDE DEF t
<1>2. PICK g : Flattens(g, t, n + 1) /\ FlattenSeq(t) = g[n + 1]
  BY <1>1, FlattenIs
<1>3. g[n + 1] = IF n + 1 = 1 THEN x ELSE g[n] \o x
  <2>1. \A i \in 1 .. n + 1 : g[i] = IF i = 1 THEN t[i] ELSE g[i - 1] \o t[i]
    BY <1>2 DEF Flattens
  <2>2. n + 1 \in 1 .. n + 1 /\ (n + 1) - 1 = n
    BY <1>1
  <2> QED BY <1>1, <2>1, <2>2
<1>4. CASE s = <<>>
  BY <1>1, <1>2, <1>3, <1>4, FlattenEmpty, ConcatEmptySeq DEF t
<1>5. CASE s # <<>>
  <2>1. n # 0
    BY <1>5
  <2>2. PICK f : Flattens(f, s, n) /\ FlattenSeq(s) = f[n]
    BY <1>5, FlattenIs
  <2>3. n =< n + 1 /\ n + 1 \in Nat /\ n \in 1 .. n /\ \A i \in 1 .. n : s[i] = t[i]
    BY <1>1, <2>1
  <2>4. \A i \in 1 .. n : f[i] = g[i]
    <3> DEFINE Bad == {i \in 1 .. n : f[i] # g[i]}
    <3>1. SUFFICES ASSUME Bad # {}
                   PROVE  FALSE
      OBVIOUS
    <3>2. PICK k \in Bad : \A i \in Bad : k =< i
      <4>1. Bad \subseteq Nat
        BY <1>1
      <4> HIDE DEF Bad
      <4> QED BY <3>1, <4>1, LeastNumber
    <3>3. k \in 1 .. n /\ k \in 1 .. n + 1 /\ f[k] # g[k] /\ s[k] = t[k]
      BY <2>3, <3>2
    <3>4. k # 1 => k - 1 \in 1 .. n /\ f[k - 1] = g[k - 1]
      BY <2>3, <3>2, <3>3
    <3>5. /\ f[k] = IF k = 1 THEN s[k] ELSE f[k - 1] \o s[k]
          /\ g[k] = IF k = 1 THEN t[k] ELSE g[k - 1] \o t[k]
      BY <1>2, <2>2, <3>3 DEF Flattens
    <3> QED BY <3>3, <3>4, <3>5
  <2>5. g[n + 1] = f[n] \o x
    <3>1. n + 1 # 1
      BY <1>1, <2>1
    <3> QED BY <1>3, <2>3, <2>4, <3>1
  <2> QED BY <1>2, <2>2, <2>5 DEF t
<1> QED
  BY <1>4, <1>5

LEMMA FlattenType ==
  ASSUME NEW S, NEW s \in Seq(Seq(S))
  PROVE  FlattenSeq(s) \in Seq(S)
<1> DEFINE Bad == {k \in Nat : \E u \in Seq(Seq(S)) :
                                 Len(u) = k /\ FlattenSeq(u) \notin Seq(S)}
<1>1. SUFFICES ASSUME Bad # {}
               PROVE  FALSE
  BY LenProperties
<1>2. PICK k \in Bad : \A m \in Bad : k =< m
  <2>1. Bad \subseteq Nat
    OBVIOUS
  <2> HIDE DEF Bad
  <2> QED BY <1>1, <2>1, LeastNumber
<1>3. PICK u \in Seq(Seq(S)) : Len(u) = k /\ FlattenSeq(u) \notin Seq(S)
  BY <1>2
<1>4. u # <<>>
  BY <1>3, FlattenEmpty
<1>5. PICK v \in Seq(Seq(S)), x \in Seq(S) : u = Append(v, x)
  BY <1>4, SequenceEmptyOrAppend
<1>6. Len(v) \in Nat /\ Len(v) < k
  BY <1>3, <1>5, AppendProperties
<1>7. FlattenSeq(v) \in Seq(S)
  BY <1>2, <1>6
<1> QED
  BY <1>3, <1>5, <1>7, FlattenAppend, ConcatProperties

LEMMA FlattenCons ==
  ASSUME NEW S, NEW s \in Seq(Seq(S)), NEW x \in Seq(S)
  PROVE  FlattenSeq(<<x>> \o s) = x \o FlattenSeq(s)
<1> DEFINE Bad == {k \in Nat : \E u \in Seq(Seq(S)) :
                     Len(u) = k /\ FlattenSeq(<<x>> \o u) # x \o FlattenSeq(u)}
<1>1. SUFFICES ASSUME Bad # {}
               PROVE  FALSE
  BY LenProperties
<1>2. PICK k \in Bad : \A m \in Bad : k =< m
  <2>1. Bad \subseteq Nat
    OBVIOUS
  <2> HIDE DEF Bad
  <2> QED BY <1>1, <2>1, LeastNumber
<1>3. PICK u \in Seq(Seq(S)) : Len(u) = k /\ FlattenSeq(<<x>> \o u) # x \o FlattenSeq(u)
  BY <1>2
<1>4. <<x>> \in Seq(Seq(S)) /\ <<>> \in Seq(Seq(S)) /\ <<>> \in Seq(S)
  OBVIOUS
<1>5. CASE u = <<>>
  <2>1. <<x>> \o u = Append(<<>>, x)
    BY <1>4, <1>5, ConcatEmptySeq
  <2>2. FlattenSeq(<<x>> \o u) = <<>> \o x
    BY <1>4, <2>1, FlattenAppend, FlattenEmpty
  <2> QED BY <1>3, <1>5, <2>2, FlattenEmpty, ConcatEmptySeq
<1>6. CASE u # <<>>
  <2>1. PICK v \in Seq(Seq(S)), y \in Seq(S) : u = Append(v, y)
    BY <1>6, SequenceEmptyOrAppend
  <2>2. Len(v) \in Nat /\ Len(v) < k
    BY <1>3, <2>1, AppendProperties
  <2>3. FlattenSeq(<<x>> \o v) = x \o FlattenSeq(v)
    <3>1. Len(v) \notin Bad
      <4> HIDE DEF Bad
      <4>1. k \in Nat
        BY <1>3
      <4> QED BY <1>2, <2>2, <4>1
    <3> QED BY <2>2, <3>1
  <2>4. <<x>> \o v \in Seq(Seq(S))
    BY <1>4, ConcatProperties
  <2>5. <<x>> \o u = Append(<<x>> \o v, y)
    <3>1. /\ u = v \o <<y>> /\ <<y>> \in Seq(Seq(S))
          /\ Append(<<x>> \o v, y) = (<<x>> \o v) \o <<y>>
      BY <2>1, <2>4, AppendIsConcat
    <3>2. (<<x>> \o v) \o <<y>> = <<x>> \o (v \o <<y>>)
      BY <1>4, <3>1, ConcatAssociative
    <3> QED BY <3>1, <3>2
  <2>6. FlattenSeq(<<x>> \o u) = (x \o FlattenSeq(v)) \o y
    BY <2>3, <2>4, <2>5, FlattenAppend
  <2>7. FlattenSeq(u) = FlattenSeq(v) \o y /\ FlattenSeq(v) \in Seq(S)
    BY <2>1, FlattenAppend, FlattenType
  <2>8. (x \o FlattenSeq(v)) \o y = x \o (FlattenSeq(v) \o y)
    <3> DEFINE w == FlattenSeq(v)
    <3>1. x \in Seq(S) /\ w \in Seq(S) /\ y \in Seq(S)
      BY <2>1, <2>7
    <3> HIDE DEF w, Bad
    <3>2. (x \o w) \o y = x \o (w \o y)
      BY <3>1, ConcatAssociative
    <3> QED BY <3>2 DEF w
  <2> QED BY <1>3, <2>6, <2>7, <2>8
<1> QED
  BY <1>5, <1>6

LEMMA IsACons ==
  ASSUME NEW S, NEW s \in Seq(S), Len(s) # 0
  PROVE  \E c \in S, t \in Seq(S) : s = Cons(c, t)
<1>1. Head(s) \in S /\ Tail(s) \in Seq(S) /\ s # <<>>
  BY HeadTailProperties, EmptySeq
<1>2. s = <<Head(s)>> \o Tail(s)
  BY <1>1
<1> DEFINE c == Head(s)
           t == Tail(s)
<1>3. c \in S /\ t \in Seq(S) /\ s = <<c>> \o t
  BY <1>1, <1>2
<1> HIDE DEF c, t
<1> QED
  BY <1>3 DEF Cons

-----------------------------------------------------------------------------
(* Codes. Every element of s is written as code gives it. *)

IsCode(S, C, code) == code \in [C -> Seq(S)]
Coded(code, s) == FlattenSeq([i \in DOMAIN s |-> code[s[i]]])

LEMMA CodedEmpty ==
  ASSUME NEW code
  PROVE  Coded(code, <<>>) = <<>>
<1>1. [i \in DOMAIN <<>> |-> code[<<>>[i]]] = <<>>
  OBVIOUS
<1> QED
  BY <1>1, FlattenEmpty DEF Coded

LEMMA CodedType ==
  ASSUME NEW S, NEW C, NEW code, IsCode(S, C, code), NEW s \in Seq(C)
  PROVE  Coded(code, s) \in Seq(S)
<1> DEFINE u == [i \in DOMAIN s |-> code[s[i]]]
<1>1. u \in Seq(Seq(S))
  <2>1. \A i \in 1 .. Len(s) : code[s[i]] \in Seq(S)
    BY ElementOfSeq DEF IsCode
  <2> QED BY <2>1, LenProperties
<1> HIDE DEF u
<1>2. FlattenSeq(u) \in Seq(S)
  BY <1>1, FlattenType
<1> QED
  BY <1>2 DEF Coded, u

LEMMA CodedCons ==
  ASSUME NEW S, NEW C, NEW code, IsCode(S, C, code), NEW s \in Seq(C), NEW c \in C
  PROVE  Coded(code, Cons(c, s)) = code[c] \o Coded(code, s)
<1> DEFINE u == [i \in DOMAIN s |-> code[s[i]]]
           t == <<c>> \o s
           v == [i \in DOMAIN t |-> code[t[i]]]
           x == code[c]
<1>0. x \in Seq(S)
  BY DEF IsCode
<1>1. /\ u \in Seq(Seq(S)) /\ Len(u) = Len(s) /\ Len(s) \in Nat /\ x \in Seq(S)
      /\ \A i \in 1 .. Len(s) : u[i] = code[s[i]]
  <2>1. \A i \in 1 .. Len(s) : code[s[i]] \in Seq(S)
    BY ElementOfSeq DEF IsCode
  <2>2. Len(s) \in Nat /\ DOMAIN s = 1 .. Len(s)
    BY LenProperties
  <2>3. u \in Seq(Seq(S)) /\ DOMAIN u = 1 .. Len(s)
    BY <2>1, <2>2
  <2>4. Len(u) = Len(s)
    <3> HIDE DEF u
    <3> QED BY <2>2, <2>3
  <2>5. \A i \in 1 .. Len(s) : u[i] = code[s[i]]
    BY <2>2
  <2> QED BY <1>0, <2>2, <2>3, <2>4, <2>5
<1>2. /\ t \in Seq(C) /\ Len(t) = Len(s) + 1 /\ t[1] = c
      /\ \A i \in 1 .. Len(s) : t[i + 1] = s[i]
  OBVIOUS
<1>3. v = <<x>> \o u
  <2>1. v \in Seq(Seq(S)) /\ Len(v) = Len(s) + 1
    <3>1. \A i \in 1 .. Len(t) : code[t[i]] \in Seq(S)
      BY <1>2, ElementOfSeq DEF IsCode
    <3> QED BY <1>2, <3>1, LenProperties
  <2>2. <<x>> \o u \in Seq(Seq(S)) /\ Len(<<x>> \o u) = Len(s) + 1
    BY <1>1
  <2>3. \A i \in 1 .. Len(s) + 1 : v[i] = (<<x>> \o u)[i]
    <3>1. SUFFICES ASSUME NEW i \in 1 .. Len(s) + 1
                   PROVE  v[i] = (<<x>> \o u)[i]
      OBVIOUS
    <3>2. CASE i = 1
      BY <1>1, <1>2, <3>2
    <3>3. CASE i # 1
      <4>1. i - 1 \in 1 .. Len(s) /\ i = (i - 1) + 1 /\ i \in 1 .. Len(t)
        BY <1>1, <1>2, <3>3
      <4>2. t[i] = s[i - 1]
        BY <1>2, <4>1
      <4> QED BY <1>1, <4>1, <4>2
    <3> QED BY <3>2, <3>3
  <2> HIDE DEF v, u, x
  <2> QED BY <2>1, <2>2, <2>3, SeqEqual
<1> HIDE DEF u, v, x
<1>4. FlattenSeq(v) = x \o FlattenSeq(u)
  BY <1>1, <1>3, FlattenCons
<1> QED
  BY <1>4 DEF Coded, Cons, u, v, x

\* s is c and then t, and x follows what is coded.
Unwound(S, code, s, x, c, t) ==
  /\ s = Cons(c, t) /\ Len(s) = 1 + Len(t)
  /\ Coded(code, s) \o x = code[c] \o (Coded(code, t) \o x)
  /\ Coded(code, t) \o x \in Seq(S)

LEMMA CodedStarts ==
  ASSUME NEW S, NEW C, NEW code, IsCode(S, C, code), NEW s \in Seq(C), Len(s) # 0,
         NEW x \in Seq(S)
  PROVE  \E c \in C, t \in Seq(C) : Unwound(S, code, s, x, c, t)
<1>1. PICK c \in C, t \in Seq(C) : s = Cons(c, t)
  BY IsACons
<1> DEFINE a == code[c]
           b == Coded(code, t)
<1>2. c \in C /\ t \in Seq(C)
  BY <1>1
<1>3. a \in Seq(S) /\ b \in Seq(S) /\ x \in Seq(S)
  BY <1>2, CodedType DEF IsCode
<1>4. Coded(code, Cons(c, t)) = a \o b
  BY <1>2, CodedCons
<1>5. Len(s) = 1 + Len(t)
  BY <1>1 DEF Cons
<1> HIDE DEF a, b
<1>6. (a \o b) \o x = a \o (b \o x)
  BY <1>3, ConcatAssociative
<1>7. b \o x \in Seq(S)
  BY <1>3, ConcatProperties
<1>8. Coded(code, s) \o x = a \o (b \o x)
  BY <1>1, <1>4, <1>6
<1> QED
  BY <1>1, <1>2, <1>5, <1>7, <1>8 DEF Unwound, a, b

-----------------------------------------------------------------------------
(* A code that is read back. *)

\* No code is empty or starts with the separator, and none starts another.
ReadsBack(S, C, code, sep) ==
  /\ IsCode(S, C, code) /\ sep \in S
  /\ \A c \in C : code[c] # <<>> /\ code[c][1] # sep
  /\ \A c, d \in C : \A u, v \in Seq(S) : code[c] \o u = code[d] \o v => c = d

\* x is nothing, or goes on with a separator.
GoesOn(x, sep) == x # <<>> => x[1] = sep

\* What starts with a code neither ends nor goes on with a separator.
LEMMA CodeIsNoEnd ==
  ASSUME NEW S, NEW C, NEW code, NEW sep, ReadsBack(S, C, code, sep),
         NEW c \in C, NEW u \in Seq(S), NEW x \in Seq(S), GoesOn(x, sep)
  PROVE  code[c] \o u # x
<1> DEFINE w == code[c]
<1>1. w \in Seq(S) /\ w # <<>> /\ w[1] # sep
  BY DEF ReadsBack, IsCode
<1> HIDE DEF w
<1>2. Len(w) \in Nat \ {0} /\ Len(u) \in Nat
  BY <1>1, EmptySeq, LenProperties
<1>3. Len(w \o u) # 0 /\ (w \o u)[1] = w[1]
  BY <1>1, <1>2, ConcatProperties
<1>4. w \o u # <<>>
  BY <1>3
<1>5. w \o u # x
  BY <1>1, <1>3, <1>4 DEF GoesOn
<1> QED
  BY <1>5 DEF w

\* s and then x reads as t and then y.
ReadsAs(code, s, x, t, y) == Coded(code, s) \o x = Coded(code, t) \o y

LEMMA CodedIsReadBack ==
  ASSUME NEW S, NEW C, NEW code, NEW sep, ReadsBack(S, C, code, sep),
         NEW s \in Seq(C), NEW t \in Seq(C), NEW x \in Seq(S), NEW y \in Seq(S),
         GoesOn(x, sep), GoesOn(y, sep), ReadsAs(code, s, x, t, y)
  PROVE  s = t /\ x = y
<1> DEFINE Wrong(u, v) == ReadsAs(code, u, x, v, y) /\ ~ (u = v /\ x = y)
           Bad == {k \in Nat : \E u, v \in Seq(C) : Len(u) = k /\ Wrong(u, v)}
<1> HIDE DEF Wrong
<1>1. SUFFICES ASSUME Bad # {}
               PROVE  FALSE
  BY LenProperties DEF Wrong
<1>2. PICK k \in Bad : \A m \in Bad : k =< m
  <2>1. Bad \subseteq Nat
    OBVIOUS
  <2> HIDE DEF Bad
  <2> QED BY <1>1, <2>1, LeastNumber
<1>3. PICK u, v \in Seq(C) : k \in Nat /\ Len(u) = k /\ Wrong(u, v)
  BY <1>2
<1>4. IsCode(S, C, code)
  BY DEF ReadsBack
<1>5. CASE Len(u) = 0 /\ Len(v) = 0
  <2>1. u = <<>> /\ v = <<>>
    BY <1>3, <1>5, EmptySeq
  <2>2. Coded(code, u) \o x = x /\ Coded(code, v) \o y = y
    BY <2>1, CodedEmpty, ConcatEmptySeq
  <2> QED BY <1>3, <2>1, <2>2 DEF Wrong, ReadsAs
<1>6. CASE Len(u) = 0 /\ Len(v) # 0
  <2>1. PICK d \in C, q \in Seq(C) : Unwound(S, code, v, y, d, q)
    BY <1>3, <1>4, <1>6, CodedStarts
  <2>2. code[d] \o (Coded(code, q) \o y) # x
    BY <2>1, CodeIsNoEnd DEF Unwound
  <2>3. u = <<>>
    BY <1>3, <1>6, EmptySeq
  <2>4. Coded(code, u) \o x = x
    BY <2>3, CodedEmpty, ConcatEmptySeq
  <2> QED BY <1>3, <2>1, <2>2, <2>4 DEF Wrong, ReadsAs, Unwound
<1>7. CASE Len(u) # 0 /\ Len(v) = 0
  <2>1. PICK c \in C, p \in Seq(C) : Unwound(S, code, u, x, c, p)
    BY <1>3, <1>4, <1>7, CodedStarts
  <2>2. code[c] \o (Coded(code, p) \o x) # y
    BY <2>1, CodeIsNoEnd DEF Unwound
  <2>3. v = <<>>
    BY <1>3, <1>7, EmptySeq
  <2>4. Coded(code, v) \o y = y
    BY <2>3, CodedEmpty, ConcatEmptySeq
  <2> QED BY <1>3, <2>1, <2>2, <2>4 DEF Wrong, ReadsAs, Unwound
<1>8. CASE Len(u) # 0 /\ Len(v) # 0
  <2>1. PICK c \in C, p \in Seq(C) : Unwound(S, code, u, x, c, p)
    BY <1>3, <1>4, <1>8, CodedStarts
  <2>2. PICK d \in C, q \in Seq(C) : Unwound(S, code, v, y, d, q)
    BY <1>3, <1>4, <1>8, CodedStarts
  <2> DEFINE P == Coded(code, p) \o x
             Q == Coded(code, q) \o y
  <2>3. code[c] \o P = code[d] \o Q /\ P \in Seq(S) /\ Q \in Seq(S)
    BY <1>3, <2>1, <2>2 DEF Wrong, ReadsAs, Unwound
  <2> HIDE DEF P, Q, Bad
  <2>4. c = d /\ code[c] \in Seq(S)
    BY <2>1, <2>2, <2>3 DEF ReadsBack, IsCode
  <2>5. P = Q
    BY <2>3, <2>4, ConcatSimplifications
  <2>6. Wrong(p, q)
    BY <1>3, <2>1, <2>2, <2>4, <2>5 DEF Wrong, ReadsAs, Unwound, P, Q
  <2>7. Len(p) \in Nat /\ Len(p) < k
    BY <1>3, <2>1, LenProperties DEF Unwound
  <2>8. Len(p) \in Bad
    BY <2>1, <2>2, <2>6, <2>7 DEF Bad
  <2> QED BY <1>2, <1>3, <2>7, <2>8
<1> QED
  BY <1>5, <1>6, <1>7, <1>8

-----------------------------------------------------------------------------
(* Paths. Every key is coded, after a separator. *)

Separated(C, code, sep) == [w \in Seq(C) |-> <<sep>> \o Coded(code, w)]

LEMMA SeparatedIs ==
  ASSUME NEW S, NEW C, NEW code, NEW sep, ReadsBack(S, C, code, sep)
  PROVE  /\ IsCode(S, Seq(C), Separated(C, code, sep))
         /\ \A w \in Seq(C) : Separated(C, code, sep)[w] = <<sep>> \o Coded(code, w)
<1>1. IsCode(S, C, code) /\ <<sep>> \in Seq(S)
  BY DEF ReadsBack
<1>2. ASSUME NEW w \in Seq(C)
      PROVE  <<sep>> \o Coded(code, w) \in Seq(S)
  <2>1. Coded(code, w) \in Seq(S)
    BY <1>1, CodedType
  <2> QED BY <1>1, <2>1, ConcatProperties
<1> QED
  BY <1>2 DEF Separated, IsCode

\* A path is its first key, after a separator, and a path again.
PathUnwound(C, code, sep, p, w, q) ==
  /\ p = Cons(w, q) /\ Len(p) = 1 + Len(q)
  /\ Coded(Separated(C, code, sep), p)
       = <<sep>> \o (Coded(code, w) \o Coded(Separated(C, code, sep), q))

LEMMA PathStarts ==
  ASSUME NEW S, NEW C, NEW code, NEW sep, ReadsBack(S, C, code, sep),
         NEW p \in Seq(Seq(C)), Len(p) # 0
  PROVE  \E w \in Seq(C), q \in Seq(Seq(C)) : PathUnwound(C, code, sep, p, w, q)
<1> DEFINE D == Separated(C, code, sep)
<1>1. IsCode(S, Seq(C), D) /\ IsCode(S, C, code) /\ <<sep>> \in Seq(S)
  <2>1. IsCode(S, C, code) /\ <<sep>> \in Seq(S)
    BY DEF ReadsBack
  <2> QED BY <2>1, SeparatedIs
<1>2. PICK w \in Seq(C), q \in Seq(Seq(C)) : p = Cons(w, q)
  BY IsACons
<1>3. w \in Seq(C) /\ q \in Seq(Seq(C))
  BY <1>2
<1>4. D[w] = <<sep>> \o Coded(code, w)
  BY <1>3, SeparatedIs
<1> HIDE DEF D
<1>5. Coded(D, Cons(w, q)) = D[w] \o Coded(D, q)
  BY <1>1, <1>3, CodedCons
<1> DEFINE a == Coded(code, w)
           b == Coded(D, q)
           o == <<sep>>
<1>6. o \in Seq(S) /\ a \in Seq(S) /\ b \in Seq(S)
  BY <1>1, <1>3, CodedType
<1> HIDE DEF a, b, o
<1>7. (o \o a) \o b = o \o (a \o b)
  BY <1>6, ConcatAssociative
<1>8. Len(p) = 1 + Len(q)
  BY <1>2 DEF Cons
<1>9. Coded(D, p) = o \o (a \o b)
  BY <1>2, <1>4, <1>5, <1>7 DEF a, b, o
<1> QED
  BY <1>2, <1>3, <1>8, <1>9 DEF PathUnwound, D, a, b, o

LEMMA PathGoesOn ==
  ASSUME NEW S, NEW C, NEW code, NEW sep, ReadsBack(S, C, code, sep),
         NEW p \in Seq(Seq(C))
  PROVE  /\ Coded(Separated(C, code, sep), p) \in Seq(S)
         /\ GoesOn(Coded(Separated(C, code, sep), p), sep)
<1> DEFINE D == Separated(C, code, sep)
<1>1. IsCode(S, Seq(C), D) /\ IsCode(S, C, code) /\ sep \in S
  BY SeparatedIs DEF ReadsBack
<1> HIDE DEF D
<1>2. Coded(D, p) \in Seq(S)
  BY <1>1, CodedType
<1>3. CASE Len(p) = 0
  <2>1. p = <<>>
    BY <1>3, EmptySeq
  <2> QED BY <1>2, <2>1, CodedEmpty DEF GoesOn, D
<1>4. CASE Len(p) # 0
  <2>1. PICK w \in Seq(C), q \in Seq(Seq(C)) : PathUnwound(C, code, sep, p, w, q)
    BY <1>4, PathStarts
  <2> DEFINE r == Coded(code, w) \o Coded(D, q)
  <2>2. r \in Seq(S)
    <3>1. Coded(code, w) \in Seq(S) /\ Coded(D, q) \in Seq(S)
      BY <1>1, <2>1, CodedType
    <3> QED BY <3>1, ConcatProperties
  <2> HIDE DEF r
  <2>3. (<<sep>> \o r)[1] = sep
    BY <1>1, <2>2
  <2>4. Coded(D, p) = <<sep>> \o r
    BY <2>1 DEF PathUnwound, D, r
  <2> QED BY <1>2, <2>3, <2>4 DEF GoesOn, D
<1> QED
  BY <1>3, <1>4

\* Different paths are written differently.
LEMMA PathIsReadBack ==
  ASSUME NEW S, NEW C, NEW code, NEW sep, ReadsBack(S, C, code, sep),
         NEW p \in Seq(Seq(C)), NEW q \in Seq(Seq(C)),
         Coded(Separated(C, code, sep), p) = Coded(Separated(C, code, sep), q)
  PROVE  p = q
<1> DEFINE D == Separated(C, code, sep)
           Wrong(u, v) == Coded(D, u) = Coded(D, v) /\ u # v
           Bad == {k \in Nat : \E u, v \in Seq(Seq(C)) : Len(u) = k /\ Wrong(u, v)}
<1> HIDE DEF Wrong, D
<1>1. SUFFICES ASSUME Bad # {}
               PROVE  FALSE
  BY LenProperties DEF Wrong, D
<1>2. PICK k \in Bad : \A m \in Bad : k =< m
  <2>1. Bad \subseteq Nat
    OBVIOUS
  <2> HIDE DEF Bad
  <2> QED BY <1>1, <2>1, LeastNumber
<1>3. PICK u, v \in Seq(Seq(C)) : k \in Nat /\ Len(u) = k /\ Wrong(u, v)
  BY <1>2
<1>4. \A w \in Seq(C) : Coded(code, w) \in Seq(S)
  <2>1. IsCode(S, C, code)
    BY DEF ReadsBack
  <2> QED BY <2>1, CodedType
<1>5. <<sep>> \in Seq(S)
  BY DEF ReadsBack
<1>6. CASE Len(u) = 0 /\ Len(v) = 0
  BY <1>3, <1>6, EmptySeq DEF Wrong
<1>7. ASSUME NEW a \in Seq(Seq(C)), NEW b \in Seq(Seq(C)), Len(a) = 0, Len(b) # 0,
             Coded(D, a) = Coded(D, b)
      PROVE  FALSE
  <2>1. PICK w \in Seq(C), r \in Seq(Seq(C)) : PathUnwound(C, code, sep, b, w, r)
    BY <1>7, PathStarts
  <2> DEFINE x == Coded(code, w) \o Coded(D, r)
  <2>2. x \in Seq(S)
    <3>1. Coded(code, w) \in Seq(S) /\ Coded(D, r) \in Seq(S)
      BY <1>4, <2>1, PathGoesOn DEF D
    <3> QED BY <3>1, ConcatProperties
  <2>3. Coded(D, b) = <<sep>> \o x
    BY <2>1 DEF PathUnwound, D
  <2> HIDE DEF x
  <2>4. <<sep>> \o x # <<>>
    BY <1>5, <2>2
  <2>5. a = <<>>
    BY <1>7, EmptySeq
  <2> QED BY <1>7, <2>3, <2>4, <2>5, CodedEmpty
<1>8. CASE Len(u) # 0 /\ Len(v) # 0
  <2>1. PICK w \in Seq(C), r \in Seq(Seq(C)) : PathUnwound(C, code, sep, u, w, r)
    BY <1>3, <1>8, PathStarts
  <2>2. PICK z \in Seq(C), t \in Seq(Seq(C)) : PathUnwound(C, code, sep, v, z, t)
    BY <1>3, <1>8, PathStarts
  <2> DEFINE R == Coded(D, r)
             T == Coded(D, t)
             W == Coded(code, w)
             Z == Coded(code, z)
  <2>3. W \in Seq(S) /\ Z \in Seq(S) /\ w \in Seq(C) /\ z \in Seq(C)
    BY <1>4, <2>1, <2>2
  <2>4. R \in Seq(S) /\ GoesOn(R, sep)
    BY <2>1, PathGoesOn DEF D
  <2>5. T \in Seq(S) /\ GoesOn(T, sep)
    BY <2>2, PathGoesOn DEF D
  <2>6. <<sep>> \o (W \o R) = <<sep>> \o (Z \o T)
    BY <1>3, <2>1, <2>2 DEF PathUnwound, Wrong, D
  <2> HIDE DEF R, T, Bad
  <2>7. W \o R = Z \o T
    <3> HIDE DEF W, Z
    <3>1. W \o R \in Seq(S) /\ Z \o T \in Seq(S)
      BY <2>3, <2>4, <2>5, ConcatProperties
    <3> QED BY <1>5, <2>6, <3>1, ConcatSimplifications
  <2>8. w = z /\ R = T
    <3>1. w \in Seq(C) /\ z \in Seq(C)
      BY <2>1, <2>2
    <3>2. ReadsAs(code, w, R, z, T)
      BY <2>7 DEF ReadsAs
    <3> HIDE DEF W, Z
    <3> QED BY <2>4, <2>5, <3>1, <3>2, CodedIsReadBack
  <2>9. Wrong(r, t)
    BY <1>3, <2>1, <2>2, <2>8 DEF Wrong, PathUnwound, R, T
  <2>10. Len(r) \in Nat /\ Len(r) < k
    BY <1>3, <2>1, LenProperties DEF PathUnwound
  <2>11. Len(r) \in Bad
    BY <2>1, <2>2, <2>9, <2>10 DEF Bad
  <2> QED BY <1>2, <1>3, <2>10, <2>11
<1> QED
  BY <1>3, <1>6, <1>7, <1>8 DEF Wrong

-----------------------------------------------------------------------------
(* The names of activities *)

NameCode(Sign) == [c \in Sign |-> IF c \in {"\\", "."} THEN <<"\\", c>> ELSE <<c>>]

LEMMA NameCodeReadsBack ==
  ASSUME NEW Sign
  PROVE  ReadsBack(Sign \cup {"\\", "."}, Sign, NameCode(Sign), ".")
<1> DEFINE S == Sign \cup {"\\", "."}
           code == NameCode(Sign)
<1>1. \A c \in Sign : /\ c \in {"\\", "."} => code[c] = <<"\\", c>>
                      /\ c \notin {"\\", "."} => code[c] = <<c>>
  BY DEF NameCode
<1>2. IsCode(S, Sign, code)
  <2>1. \A c \in Sign : <<"\\", c>> \in Seq(S) /\ <<c>> \in Seq(S)
    OBVIOUS
  <2> QED BY <2>1 DEF IsCode, NameCode
<1>3. \A c \in Sign : code[c] # <<>> /\ code[c][1] # "."
  <2> HIDE DEF code
  <2>1. ASSUME NEW c \in Sign, c \in {"\\", "."}
        PROVE  code[c] # <<>> /\ code[c][1] # "."
    BY <1>1, <2>1
  <2>2. ASSUME NEW c \in Sign, c \notin {"\\", "."}
        PROVE  code[c] # <<>> /\ code[c][1] # "."
    BY <1>1, <2>2
  <2> QED BY <2>1, <2>2
<1>4. ASSUME NEW c \in Sign, NEW d \in Sign, NEW u \in Seq(S), NEW v \in Seq(S),
             code[c] \o u = code[d] \o v
      PROVE  c = d
  <2> HIDE DEF code
  <2>1. ASSUME NEW e \in Sign, NEW w \in Seq(S)
        PROVE  /\ e \in {"\\", "."} => (code[e] \o w)[1] = "\\" /\ (code[e] \o w)[2] = e
               /\ e \notin {"\\", "."} => (code[e] \o w)[1] = e
    <3>1. CASE e \in {"\\", "."}
      <4>1. code[e] = <<"\\", e>> /\ <<"\\", e>> \in Seq(S)
        BY <1>1, <3>1
      <4>2. (<<"\\", e>> \o w)[1] = "\\" /\ (<<"\\", e>> \o w)[2] = e
        BY <4>1
      <4> QED BY <3>1, <4>1, <4>2
    <3>2. CASE e \notin {"\\", "."}
      <4>1. code[e] = <<e>> /\ <<e>> \in Seq(S)
        BY <1>1, <3>2
      <4>2. (<<e>> \o w)[1] = e
        BY <4>1
      <4> QED BY <3>2, <4>1, <4>2
    <3> QED BY <3>1, <3>2
  <2> DEFINE x == code[c] \o u
             y == code[d] \o v
  <2>2. /\ c \in {"\\", "."} => x[1] = "\\" /\ x[2] = c
        /\ c \notin {"\\", "."} => x[1] = c
    BY <2>1
  <2>3. /\ d \in {"\\", "."} => y[1] = "\\" /\ y[2] = d
        /\ d \notin {"\\", "."} => y[1] = d
    BY <2>1
  <2>4. x = y
    BY <1>4
  <2> HIDE DEF x, y
  <2> QED BY <2>2, <2>3, <2>4
<1> QED
  BY <1>2, <1>3, <1>4 DEF ReadsBack

LEMMA EscapeIsCoded ==
  ASSUME NEW Sign, NEW w \in Seq(Sign)
  PROVE  EscapeActivityNameSegment(w) = Coded(NameCode(Sign), w)
<1>1. \A i \in DOMAIN w : w[i] \in Sign
  BY LenProperties, ElementOfSeq
<1>2. [i \in DOMAIN w |-> IF w[i] \in {"\\", "."} THEN <<"\\", w[i]>> ELSE <<w[i]>>]
        = [i \in DOMAIN w |-> NameCode(Sign)[w[i]]]
  BY <1>1 DEF NameCode
<1> QED
  BY <1>2 DEF EscapeActivityNameSegment, Coded

\* The name of a task's activity is its type, and then its path.
LEMMA NameIsCoded ==
  ASSUME NEW Sign, NEW t \in Seq(Sign), NEW p \in Seq(Seq(Sign))
  PROVE  PerTaskActivityName(t, p)
           = Coded(NameCode(Sign), t) \o Coded(Separated(Sign, NameCode(Sign), "."), p)
<1> DEFINE S == Sign \cup {"\\", "."}
           code == NameCode(Sign)
           D == Separated(Sign, code, ".")
           segments == Cons(t, p)
           x == Coded(code, t)
           u == [i \in DOMAIN p |-> D[p[i]]]
           v == [i \in DOMAIN segments |->
                   (IF i = 1 THEN <<>> ELSE <<".">>) \o EscapeActivityNameSegment(segments[i])]
<1>1. ReadsBack(S, Sign, code, ".")
  BY NameCodeReadsBack
<1>2. /\ IsCode(S, Sign, code) /\ IsCode(S, Seq(Sign), D)
      /\ \A w \in Seq(Sign) : D[w] = <<".">> \o Coded(code, w)
  <2>1. IsCode(S, Sign, code)
    BY <1>1 DEF ReadsBack
  <2> QED BY <1>1, <2>1, SeparatedIs
<1> HIDE DEF D, code
<1>3. x \in Seq(S)
  BY <1>2, CodedType
<1>4. /\ u \in Seq(Seq(S)) /\ Len(u) = Len(p) /\ Len(p) \in Nat
      /\ \A i \in 1 .. Len(p) : u[i] = D[p[i]] /\ p[i] \in Seq(Sign)
  <2>1. \A i \in 1 .. Len(p) : p[i] \in Seq(Sign) /\ D[p[i]] \in Seq(S)
    BY <1>2, ElementOfSeq DEF IsCode
  <2>2. Len(p) \in Nat /\ DOMAIN p = 1 .. Len(p)
    BY LenProperties
  <2>3. u \in Seq(Seq(S)) /\ DOMAIN u = 1 .. Len(p)
    BY <2>1, <2>2
  <2>4. Len(u) = Len(p)
    <3> HIDE DEF u
    <3> QED BY <2>2, <2>3
  <2>5. \A i \in 1 .. Len(p) : u[i] = D[p[i]]
    BY <2>2
  <2> QED BY <2>1, <2>2, <2>3, <2>4, <2>5
<1>5. /\ segments = <<t>> \o p
      /\ segments \in Seq(Seq(Sign)) /\ Len(segments) = Len(p) + 1
      /\ segments[1] = t /\ \A i \in 1 .. Len(p) : segments[i + 1] = p[i]
  BY DEF Cons
<1> HIDE DEF u, segments
<1>6. DOMAIN segments = 1 .. Len(p) + 1
  BY <1>5, LenProperties
<1>7. v = [i \in 1 .. Len(p) + 1 |-> IF i = 1 THEN x ELSE u[i - 1]]
  <2>1. ASSUME NEW i \in 1 .. Len(p) + 1
        PROVE  (IF i = 1 THEN <<>> ELSE <<".">>) \o EscapeActivityNameSegment(segments[i])
                 = IF i = 1 THEN x ELSE u[i - 1]
    <3>1. CASE i = 1
      <4>1. EscapeActivityNameSegment(segments[1]) = x
        BY <1>5, EscapeIsCoded DEF code
      <4>2. <<>> \o x = x
        BY <1>3, ConcatEmptySeq
      <4> QED BY <3>1, <4>1, <4>2
    <3>2. CASE i # 1
      <4>1. i - 1 \in 1 .. Len(p) /\ i = (i - 1) + 1
        BY <1>4, <3>2
      <4>2. segments[i] = p[i - 1] /\ p[i - 1] \in Seq(Sign)
        BY <1>4, <1>5, <4>1
      <4>3. EscapeActivityNameSegment(segments[i]) = Coded(code, p[i - 1])
        BY <4>2, EscapeIsCoded DEF code
      <4>4. u[i - 1] = <<".">> \o Coded(code, p[i - 1])
        BY <1>2, <1>4, <4>1, <4>2
      <4> QED BY <3>2, <4>3, <4>4
    <3> QED BY <3>1, <3>2
  <2> QED BY <1>6, <2>1
<1>8. v = <<x>> \o u
  <2>1. <<x>> \in Seq(Seq(S)) /\ Len(<<x>>) = 1 /\ <<x>>[1] = x
    BY <1>3
  <2>2. /\ <<x>> \o u \in Seq(Seq(S)) /\ Len(<<x>> \o u) = Len(p) + 1
        /\ \A i \in 1 .. Len(p) + 1 : (<<x>> \o u)[i] = IF i = 1 THEN x ELSE u[i - 1]
    BY <1>3, <1>4
  <2> HIDE DEF x, v
  <2> QED BY <1>7, <2>2, LenProperties
<1> HIDE DEF x, v
<1>9. FlattenSeq(v) = x \o FlattenSeq(u)
  BY <1>3, <1>4, <1>8, FlattenCons
<1>10. PerTaskActivityName(t, p) = FlattenSeq(v)
  BY <1>5 DEF PerTaskActivityName, JoinActivityNameSegments, v
<1> QED
  BY <1>9, <1>10 DEF Coded, D, code, u, x

(***************************************************************************)
(* Tasks with different paths never share the name of an activity, nor do  *)
(* workflows of different types: a name is made of one type and one path   *)
(* only, whatever characters they have, dots and backslashes included      *)
(* (perTaskActivityName, joinActivityNameSegments).                        *)
(***************************************************************************)
THEOREM ActivityNamesAreDistinct ==
  ASSUME NEW Sign, NEW t \in Seq(Sign), NEW u \in Seq(Sign),
         NEW p \in Seq(Seq(Sign)), NEW q \in Seq(Seq(Sign)),
         PerTaskActivityName(t, p) = PerTaskActivityName(u, q)
  PROVE  t = u /\ p = q
<1> DEFINE S == Sign \cup {"\\", "."}
           code == NameCode(Sign)
           P == Coded(Separated(Sign, code, "."), p)
           Q == Coded(Separated(Sign, code, "."), q)
<1>1. ReadsBack(S, Sign, code, ".")
  BY NameCodeReadsBack
<1>2. ReadsAs(code, t, P, u, Q)
  BY NameIsCoded DEF ReadsAs
<1> HIDE DEF code
<1>3. P \in Seq(S) /\ GoesOn(P, ".") /\ Q \in Seq(S) /\ GoesOn(Q, ".")
  BY <1>1, PathGoesOn
<1> HIDE DEF P, Q
<1>4. t = u /\ P = Q
  BY <1>1, <1>2, <1>3, CodedIsReadBack
<1>5. p = q
  BY <1>1, <1>4, PathIsReadBack DEF P, Q
<1> QED
  BY <1>4, <1>5

-----------------------------------------------------------------------------
(* The pointers of inputs *)

PointerCode(Sign) ==
  [c \in Sign |-> CASE c = "~" -> <<"~", "0">> [] c = "/" -> <<"~", "1">> [] OTHER -> <<c>>]

LEMMA PointerCodeReadsBack ==
  ASSUME NEW Sign
  PROVE  ReadsBack(Sign \cup {"~", "/", "0", "1"}, Sign, PointerCode(Sign), "/")
<1> DEFINE S == Sign \cup {"~", "/", "0", "1"}
           code == PointerCode(Sign)
<1>1. \A c \in Sign : /\ c = "~" => code[c] = <<"~", "0">>
                      /\ c = "/" => code[c] = <<"~", "1">>
                      /\ c \notin {"~", "/"} => code[c] = <<c>>
  BY DEF PointerCode
<1> HIDE DEF code
<1>2. IsCode(S, Sign, code)
  <2>1. <<"~", "0">> \in Seq(S) /\ <<"~", "1">> \in Seq(S) /\ \A c \in Sign : <<c>> \in Seq(S)
    OBVIOUS
  <2>2. \A c \in Sign : code[c] \in Seq(S)
    BY <1>1, <2>1
  <2>3. code = [c \in Sign |-> code[c]]
    BY DEF code, PointerCode
  <2> QED BY <2>2, <2>3 DEF IsCode
<1>3. ASSUME NEW c \in Sign
      PROVE  code[c] # <<>> /\ code[c][1] # "/"
  <2>1. CASE c = "~"
    BY <1>1, <2>1
  <2>2. CASE c = "/"
    BY <1>1, <2>2
  <2>3. CASE c \notin {"~", "/"}
    BY <1>1, <2>3
  <2> QED BY <2>1, <2>2, <2>3
<1>4. ASSUME NEW e \in Sign, NEW w \in Seq(S)
      PROVE  /\ e = "~" => (code[e] \o w)[1] = "~" /\ (code[e] \o w)[2] = "0"
             /\ e = "/" => (code[e] \o w)[1] = "~" /\ (code[e] \o w)[2] = "1"
             /\ e \notin {"~", "/"} => (code[e] \o w)[1] = e
  <2>1. (<<"~", "0">> \o w)[1] = "~" /\ (<<"~", "0">> \o w)[2] = "0"
    <3>1. <<"~", "0">> \in Seq(S)
      OBVIOUS
    <3> QED BY <3>1
  <2>2. (<<"~", "1">> \o w)[1] = "~" /\ (<<"~", "1">> \o w)[2] = "1"
    <3>1. <<"~", "1">> \in Seq(S)
      OBVIOUS
    <3> QED BY <3>1
  <2>3. (<<e>> \o w)[1] = e
    <3>1. <<e>> \in Seq(S)
      OBVIOUS
    <3> QED BY <3>1
  <2> QED BY <1>1, <2>1, <2>2, <2>3
<1>5. ASSUME NEW c \in Sign, NEW d \in Sign, NEW u \in Seq(S), NEW v \in Seq(S),
             code[c] \o u = code[d] \o v
      PROVE  c = d
  <2> DEFINE x == code[c] \o u
             y == code[d] \o v
  <2>1. /\ c = "~" => x[1] = "~" /\ x[2] = "0"
        /\ c = "/" => x[1] = "~" /\ x[2] = "1"
        /\ c \notin {"~", "/"} => x[1] = c
    BY <1>4
  <2>2. /\ d = "~" => y[1] = "~" /\ y[2] = "0"
        /\ d = "/" => y[1] = "~" /\ y[2] = "1"
        /\ d \notin {"~", "/"} => y[1] = d
    BY <1>4
  <2>3. x = y
    BY <1>5
  <2> HIDE DEF x, y
  <2> QED BY <2>1, <2>2, <2>3
<1> QED
  BY <1>2, <1>3, <1>5 DEF ReadsBack, code

LEMMA EscapeTokenIsCoded ==
  ASSUME NEW Sign, NEW w \in Seq(Sign)
  PROVE  EscapePointerToken(w) = Coded(PointerCode(Sign), w)
<1>1. \A i \in DOMAIN w : w[i] \in Sign
  BY LenProperties, ElementOfSeq
<1>2. [i \in DOMAIN w |-> CASE w[i] = "~" -> <<"~", "0">>
                            [] w[i] = "/" -> <<"~", "1">>
                            [] OTHER -> <<w[i]>>]
        = [i \in DOMAIN w |-> PointerCode(Sign)[w[i]]]
  BY <1>1 DEF PointerCode
<1> QED
  BY <1>2 DEF EscapePointerToken, Coded

LEMMA PointerIsCoded ==
  ASSUME NEW Sign, NEW p \in Seq(Seq(Sign))
  PROVE  Pointer(p) = Coded(Separated(Sign, PointerCode(Sign), "/"), p)
<1> DEFINE S == Sign \cup {"~", "/", "0", "1"}
           D == Separated(Sign, PointerCode(Sign), "/")
<1>1. \A w \in Seq(Sign) : D[w] = <<"/">> \o EscapePointerToken(w)
  <2> DEFINE code == PointerCode(Sign)
  <2>1. ReadsBack(S, Sign, code, "/")
    BY PointerCodeReadsBack
  <2>2. \A w \in Seq(Sign) : EscapePointerToken(w) = Coded(code, w)
    BY EscapeTokenIsCoded
  <2> HIDE DEF code
  <2>3. \A w \in Seq(Sign) : Separated(Sign, code, "/")[w] = <<"/">> \o Coded(code, w)
    BY <2>1, SeparatedIs
  <2> QED BY <2>2, <2>3 DEF code
<1>2. \A i \in DOMAIN p : p[i] \in Seq(Sign)
  BY LenProperties, ElementOfSeq
<1> HIDE DEF D
<1>3. [i \in DOMAIN p |-> <<"/">> \o EscapePointerToken(p[i])] = [i \in DOMAIN p |-> D[p[i]]]
  BY <1>1, <1>2
<1> QED
  BY <1>3 DEF Pointer, Coded, D

(***************************************************************************)
(* No two places of an activity's inputs share a pointer, so the list of   *)
(* places left for the attempts names each of them and no other            *)
(* (walkInputs, escapePointerToken).                                       *)
(***************************************************************************)
THEOREM PointersAreDistinct ==
  ASSUME NEW Sign, NEW p \in Seq(Seq(Sign)), NEW q \in Seq(Seq(Sign)),
         Pointer(p) = Pointer(q)
  PROVE  p = q
<1> DEFINE S == Sign \cup {"~", "/", "0", "1"}
           code == PointerCode(Sign)
<1>1. ReadsBack(S, Sign, code, "/")
  BY PointerCodeReadsBack
<1>2. Coded(Separated(Sign, code, "/"), p) = Coded(Separated(Sign, code, "/"), q)
  BY PointerIsCoded
<1> HIDE DEF code
<1> QED
  BY <1>1, <1>2, PathIsReadBack

-----------------------------------------------------------------------------
(* Expressions *)

Known == Files \cup Edits

LEMMA CheckIsSound ==
  ASSUME NEW e, IsDeterministic(e), ~Misleads(e)
  PROVE  ~ReadsClock(e)
<1> SUFFICES ASSUME NEW p \in Calls(e), Signature(e[p]) \in ClockBuiltins \ JqDeclaredAt(e, p)
             PROVE  FALSE
  BY DEF ReadsClock
<1> DEFINE name == e[p].name
           scope == DeclaredAt(e, p)
<1>1. name \notin scope
  BY DEF Misleads
<1>2. name \in JqFuncs \/ name \in DOMAIN Clocks
  BY DEF ClockBuiltins, Signatures, Signature
<1>3. ClassifyName(name, scope) = {}
  BY DEF IsDeterministic, Issues
<1>4. name \in scope \cup StateVariables \/ (name \notin JqFuncs /\ name \in DOMAIN Pure)
  BY <1>3 DEF ClassifyName, IsDeterministicBuiltin
<1> QED
  BY <1>1, <1>2, <1>4, BuiltinsAssumption DEF StateVariables, JqFuncs

LEMMA ActivityIsNoticed ==
  ASSUME NEW e, ReadsActivity(e)
  PROVE  ReferencesActivityState(e)
  BY DEF ReadsActivity, ReferencesActivityState

-----------------------------------------------------------------------------
(* The walks over a document *)

LEMMA WalksAreOne ==
  ASSUME NEW t
  PROVE  /\ NormalisedLists(t) = ListsOf(t) /\ BuilderLists(t) = ListsOf(t)
         /\ CollectedLists(t) = ListsOf(t) /\ WalkedLists(t) = ListsOf(t)
  BY DEF NormalisedLists, BuilderLists, CollectedLists, WalkedLists, ListsOf, ContainerKinds

LEMMA WalksReachAll ==
  ASSUME NEW do, IsTree(do)
  PROVE  /\ Reached(do, NormalisedLists) = DOMAIN do /\ Reached(do, BuilderLists) = DOMAIN do
         /\ Reached(do, CollectedLists) = DOMAIN do /\ Reached(do, WalkedLists) = DOMAIN do
<1>1. \A l \in DOMAIN do : \A m \in DOMAIN l : l[m][2] \in ListsOf(Through(do, l, m))
  BY DEF IsTree
<1> QED
  BY <1>1, WalksAreOne DEF Reached

-----------------------------------------------------------------------------
(* Inputs of activities *)

AreInputs(inputs) == \A p \in DOMAIN inputs : p \in Seq(Seq(Char)) /\ IsInput(inputs[p])
Schedules(kind, inputs) == {ResolveActivityInputs(kind, inputs), Unresolved(inputs)}
At(kind, n) == IF kind = "grpc" THEN 0 ELSE n

LEMMA InputIsExpression ==
  ASSUME NEW inputs, AreInputs(inputs), NEW p \in DOMAIN inputs, NEW n
  PROVE  /\ inputs[p].is = "expression" /\ Transport(inputs[p]) = inputs[p]
         /\ EvaluateString(inputs[p], n) = Result(inputs[p], n)
         /\ Result(inputs[p], n).gives = inputs[p].gives /\ Result(inputs[p], n).is = "value"
<1> DEFINE i == inputs[p]
<1>1. i = [is |-> "expression", expr |-> i.expr, gives |-> i.gives]
  BY DEF AreInputs, IsInput, Input
<1> HIDE DEF i
<1>2. i.is = "expression"
  BY <1>1
<1>3. Result(i, n) = [is |-> "value", expr |-> i.expr, gives |-> i.gives, attempt |-> Result(i, n).attempt]
  BY DEF Result
<1>4. EvaluateString(i, n) = Result(i, n) /\ Transport(i) = i
  BY <1>2 DEF EvaluateString, Transport
<1>5. Result(i, n).gives = i.gives /\ Result(i, n).is = "value"
  BY <1>3
<1> QED
  BY <1>2, <1>4, <1>5 DEF i

LEMMA FormattedOnce ==
  ASSUME NEW p, NEW input, NEW n
  PROVE  /\ Formatted(p, Formatted(p, Result(input, n))) = Formatted(p, Result(input, n))
         /\ Formatted(p, Result(input, n)).is = "value"
         /\ input.gives # "inexact" => Transport(Formatted(p, Result(input, n))) = Formatted(p, Result(input, n))
<1> DEFINE r == Result(input, n)
           g == NullAs(p)
           f == [r EXCEPT !.gives = g]
<1>1. r.is = "value" /\ r.gives = input.gives /\ DOMAIN r = {"is", "expr", "gives", "attempt"}
  BY DEF Result
<1>2. g \in {"blank", "nil as text", "nothing"}
  BY DEF NullAs
<1> HIDE DEF r, g
<1>3. f.is = "value" /\ f.gives = g /\ [f EXCEPT !.gives = g] = f
  BY <1>1
<1> HIDE DEF f
<1>4. CASE r.gives # "nothing"
  BY <1>1, <1>4 DEF Formatted, Transport, SurvivesJSON, r
<1>5. CASE r.gives = "nothing"
  <2>1. Formatted(p, r) = f
    BY <1>1, <1>5 DEF Formatted, f, g
  <2>2. Formatted(p, f) = f
    BY <1>3 DEF Formatted, g
  <2>3. Transport(f) = f
    BY <1>2, <1>3 DEF Transport, SurvivesJSON
  <2> QED BY <1>3, <2>1, <2>2, <2>3 DEF r
<1> QED
  BY <1>4, <1>5

LEMMA OnlyDeferredIsLeft ==
  ASSUME NEW kind, NEW inputs, AreInputs(inputs), NEW p \in Seq(Seq(Char)),
         Pointer(p) \in ResolveActivityInputs(kind, inputs).deferred
  PROVE  p \in DOMAIN inputs /\ Evaluated(kind, p) /\ Postponed(kind, inputs[p])
<1>1. PICK q \in DOMAIN inputs : Evaluated(kind, q) /\ Postponed(kind, inputs[q]) /\ Pointer(q) = Pointer(p)
  BY DEF ResolveActivityInputs, Schedule
<1>2. q \in Seq(Seq(Char))
  BY DEF AreInputs
<1>3. q = p
  BY <1>1, <1>2, PointersAreDistinct
<1> QED
  BY <1>1, <1>3

LEMMA DockerArgumentsKeepTheirPlace ==
  ASSUME NEW inputs, AreInputs(inputs), NEW p \in Seq(Seq(Char))
  PROVE  Pointer(ExecArgs \o p) \notin ResolveActivityInputs("docker", inputs).deferred
<1> DEFINE S == Char \cup {"exec", "args"}
           x == ExecArgs \o p
<1> SUFFICES ASSUME Pointer(x) \in ResolveActivityInputs("docker", inputs).deferred
             PROVE  FALSE
  OBVIOUS
<1>1. PICK q \in DOMAIN inputs : Evaluated("docker", q) /\ Pointer(q) = Pointer(x)
  BY DEF ResolveActivityInputs, Schedule
<1>2. q \in Seq(Seq(Char))
  BY DEF AreInputs
<1>3. \A s \in Seq(Seq(Char)) : s \in Seq(Seq(S))
  <2>1. Seq(Char) \subseteq Seq(S)
    OBVIOUS
  <2> HIDE DEF S
  <2> QED BY <2>1
<1>4. x \in Seq(Seq(S)) /\ x[1] = <<"exec">> /\ Len(x) >= 2
  <2>1. ExecArgs \in Seq(Seq(S)) /\ ExecArgs[1] = <<"exec">> /\ Len(ExecArgs) = 2
    BY DEF ExecArgs
  <2>2. p \in Seq(Seq(S))
    BY <1>3
  <2> HIDE DEF S
  <2> DEFINE T == Seq(S)
  <2>3. ExecArgs \in Seq(T) /\ p \in Seq(T)
    BY <2>1, <2>2
  <2> HIDE DEF T
  <2>4. x \in Seq(T) /\ Len(x) = Len(ExecArgs) + Len(p) /\ Len(p) \in Nat
    BY <2>3, ConcatProperties
  <2>5. x[1] = ExecArgs[1]
    <3>1. 1 \in 1 .. (Len(ExecArgs) + Len(p)) /\ 1 <= Len(ExecArgs)
      BY <2>1, <2>4
    <3> QED BY <2>3, <3>1, ConcatProperties
  <2> QED BY <2>1, <2>4, <2>5 DEF T
<1>5. q = x
  <2>1. q \in Seq(Seq(S))
    BY <1>2, <1>3
  <2> HIDE DEF S, x
  <2> QED BY <1>1, <1>4, <2>1, PointersAreDistinct
<1>6. PICK part \in {Image, Arguments, Variables} : IsPrefix(part, x)
  BY <1>1, <1>5 DEF Evaluated, Parts
<1>7. part[1] = x[1]
  <2>1. Len(part) = 1 /\ SubSeq(part, 1, 1)[1] = part[1]
    BY <1>6 DEF Image, Arguments, Variables
  <2>2. SubSeq(x, 1, 1)[1] = x[1]
    <3> HIDE DEF x, S
    <3> QED BY <1>4
  <2> HIDE DEF x, S
  <2> QED BY <1>6, <2>1, <2>2 DEF IsPrefix
<1>8. part[1] \in {<<"image">>, <<"arguments">>, <<"environment">>}
  BY <1>6 DEF Image, Arguments, Variables
<1>9. \A w \in {<<"image">>, <<"arguments">>, <<"environment">>} : w[1] # "exec"
  OBVIOUS
<1> QED
  <2> HIDE DEF x
  <2> QED BY <1>4, <1>7, <1>8, <1>9

\* What an attempt hands on for an input that the workflow has left, or has
\* not looked at.
LEMMA LeftInputIsMeant ==
  ASSUME NEW kind, NEW inputs, AreInputs(inputs), NEW p \in DOMAIN inputs, NEW n,
         NEW plan \in Schedules(kind, inputs), Evaluated(kind, p),
         plan.resolved => Postponed(kind, inputs[p])
  PROVE  HandedOn(kind, plan, p, n) = Meant(kind, inputs, p, n)
<1> DEFINE at == IF DefersActivityState(kind) THEN n ELSE 0
           r == Result(inputs[p], at)
<1>1. /\ EvaluateString(inputs[p], at) = r /\ Transport(inputs[p]) = inputs[p]
  BY InputIsExpression
<1>2. Meant(kind, inputs, p, n) = Formatted(p, r)
  BY DEF Meant, DefersActivityState
<1>3. p \in Seq(Seq(Char))
  BY DEF AreInputs
<1>4. CASE plan = Unresolved(inputs)
  <2>1. ~plan.resolved /\ plan.items[p] = inputs[p]
    BY <1>4 DEF Unresolved, Schedule
  <2> HIDE DEF r
  <2>2. \A place, item : EvaluateDeferredActivityInput(place, item, plan, at) = item
    BY <2>1 DEF EvaluateDeferredActivityInput
  <2>3. \A place, item : EvaluateActivityInput(place, item, plan, at) = EvaluateString(item, at)
    BY <2>1 DEF EvaluateActivityInput
  <2> QED BY <1>1, <1>2, <2>1, <2>2, <2>3 DEF HandedOn, RunExecCommand
<1>5. CASE plan = ResolveActivityInputs(kind, inputs)
  <2>1. plan.resolved
    BY <1>5 DEF ResolveActivityInputs, Schedule
  <2>2. plan.items[p] = inputs[p]
    BY <1>1, <1>5, <2>1 DEF ResolveActivityInputs, Schedule
  <2>3. Pointer(p) \in plan.deferred
    BY <1>5, <2>1 DEF ResolveActivityInputs, Schedule
  <2>4. kind = "docker" => Pointer(ExecArgs \o p) \notin plan.deferred
    BY <1>3, <1>5, DockerArgumentsKeepTheirPlace
  <2> HIDE DEF r
  <2>5. EvaluateDeferredActivityInput(p, inputs[p], plan, at) = r
    BY <1>1, <2>1, <2>3 DEF EvaluateDeferredActivityInput
  <2>6. EvaluateActivityInput(p, inputs[p], plan, at) = r
    BY <2>1, <2>5 DEF EvaluateActivityInput
  <2>7. kind = "docker" => RunExecCommand(p, r, plan, at) = r
    BY <2>1, <2>4 DEF RunExecCommand, EvaluateActivityInput, EvaluateDeferredActivityInput
  <2> QED BY <1>2, <2>2, <2>5, <2>6, <2>7 DEF HandedOn
<1> QED
  BY <1>4, <1>5 DEF Schedules

\* What it hands on for one that the workflow has resolved.
LEMMA ResolvedInputIsMeant ==
  ASSUME NEW kind, NEW inputs, AreInputs(inputs), NEW p \in DOMAIN inputs, NEW n,
         Evaluated(kind, p), ~Postponed(kind, inputs[p])
  PROVE  HandedOn(kind, ResolveActivityInputs(kind, inputs), p, n) = Meant(kind, inputs, p, n)
<1> DEFINE at == IF DefersActivityState(kind) THEN n ELSE 0
           plan == ResolveActivityInputs(kind, inputs)
           f == Formatted(p, Result(inputs[p], 0))
<1>1. inputs[p].gives # "inexact"
  BY InputIsExpression DEF Postponed, SurvivesJSON
<1>2. Formatted(p, f) = f /\ Transport(f) = f
  BY <1>1, FormattedOnce
<1>3. Result(inputs[p], at) = Result(inputs[p], 0)
  BY ActivityIsNoticed DEF Postponed, Result
<1>4. Meant(kind, inputs, p, n) = f
  BY <1>3 DEF Meant, DefersActivityState
<1>5. p \in Seq(Seq(Char))
  BY DEF AreInputs
<1>6. plan.resolved /\ plan.items[p] = Transport(f)
  BY DEF ResolveActivityInputs, Schedule
<1>7. Pointer(p) \notin plan.deferred
  BY <1>5, OnlyDeferredIsLeft
<1>8. kind = "docker" => Pointer(ExecArgs \o p) \notin plan.deferred
  BY <1>5, DockerArgumentsKeepTheirPlace
<1> HIDE DEF f, plan
<1>9. EvaluateDeferredActivityInput(p, f, plan, at) = f /\ EvaluateActivityInput(p, f, plan, at) = f
  BY <1>6, <1>7 DEF EvaluateActivityInput, EvaluateDeferredActivityInput
<1>10. kind = "docker" => RunExecCommand(p, f, plan, at) = f
  BY <1>6, <1>8 DEF RunExecCommand, EvaluateActivityInput, EvaluateDeferredActivityInput
<1> QED
  BY <1>2, <1>4, <1>6, <1>9, <1>10 DEF HandedOn, plan

LEMMA HandedOnIsMeant ==
  ASSUME NEW kind, NEW inputs, AreInputs(inputs), NEW p \in DOMAIN inputs, NEW n,
         NEW plan \in Schedules(kind, inputs)
  PROVE  HandedOn(kind, plan, p, n) = Meant(kind, inputs, p, n)
<1>1. CASE ~Evaluated(kind, p)
  <2>1. Transport(inputs[p]) = inputs[p]
    BY InputIsExpression
  <2>2. plan.items[p] = inputs[p]
    BY <1>1, <2>1 DEF Schedules, ResolveActivityInputs, Unresolved, Schedule
  <2> QED BY <1>1, <2>2 DEF HandedOn, Meant
<1>2. CASE Evaluated(kind, p) /\ (plan.resolved => Postponed(kind, inputs[p]))
  BY <1>2, LeftInputIsMeant
<1>3. CASE Evaluated(kind, p) /\ plan.resolved /\ ~Postponed(kind, inputs[p])
  <2>1. plan = ResolveActivityInputs(kind, inputs)
    BY <1>3 DEF Schedules, Unresolved, Schedule
  <2> QED BY <1>3, <2>1, ResolvedInputIsMeant
<1> QED
  BY <1>1, <1>2, <1>3

LEMMA FailureIsMeant ==
  ASSUME NEW kind, NEW inputs, AreInputs(inputs), NEW n, NEW plan \in Schedules(kind, inputs)
  PROVE  /\ AttemptFails(kind, plan, n) => MeantToFail(kind, inputs, n)
         /\ plan.failed => MeantToFail(kind, inputs, 0)
<1>1. DOMAIN plan.items = DOMAIN inputs
  BY DEF Schedules, ResolveActivityInputs, Unresolved, Schedule
<1>2. AttemptFails(kind, plan, n) => MeantToFail(kind, inputs, n)
  BY <1>1, HandedOnIsMeant DEF AttemptFails, MeantToFail
<1>3. ASSUME plan.failed
      PROVE  MeantToFail(kind, inputs, 0)
  <2>1. plan = ResolveActivityInputs(kind, inputs)
    BY <1>3 DEF Schedules, Unresolved, Schedule
  <2>2. PICK p \in DOMAIN inputs :
          /\ Evaluated(kind, p)
          /\ \/ Formatted(p, Result(inputs[p], 0)).gives = "error"
             \/ NeedsString(p) /\ ~IsString(Formatted(p, Result(inputs[p], 0)))
    BY <1>3, <2>1 DEF ResolveActivityInputs, Schedule
  <2>3. Meant(kind, inputs, p, 0) = Formatted(p, Result(inputs[p], 0))
    BY <2>2 DEF Meant
  <2>4. Meant(kind, inputs, p, 0).is = "value"
    BY <2>3, FormattedOnce
  <2> QED BY <2>2, <2>3, <2>4 DEF MeantToFail
<1> QED
  BY <1>2, <1>3

-----------------------------------------------------------------------------
(* Places *)

\* p is the place for step <<i, k>> from list l.
IsPlace(do, p, l, i, k) ==
  /\ Front(p) = l /\ Last(p) = <<i, k>> /\ Last(p)[1] = i /\ Len(p) = Len(l) + 1 /\ p # <<>>
  /\ TaskAt(do, p) = do[l][i]

LEMMA PlaceIs ==
  ASSUME NEW do, NEW S, NEW l \in Seq(S), NEW i, NEW k
  PROVE  IsPlace(do, Append(l, <<i, k>>), l, i, k)
<1> DEFINE T == S \cup {<<i, k>>}
           p == Append(l, <<i, k>>)
<1>1. l \in Seq(T) /\ <<i, k>> \in T
  OBVIOUS
<1> HIDE DEF T
<1>2. p \in Seq(T) /\ Len(p) = Len(l) + 1 /\ Len(l) \in Nat
  BY <1>1, AppendProperties
<1>3. p[Len(p)] = <<i, k>> /\ SubSeq(p, 1, Len(p) - 1) = l /\ p # <<>>
  <2>1. p[Len(p)] = <<i, k>>
    BY <1>1, <1>2, AppendProperties
  <2>2. SubSeq(p, 1, Len(p) - 1) = l
    BY <1>1, <1>2
  <2>3. p # <<>>
    BY <1>2
  <2> QED BY <2>1, <2>2, <2>3
<1> HIDE DEF p
<1>4. Front(p) = l /\ Last(p) = <<i, k>>
  BY <1>3 DEF Front, Last
<1>5. TaskAt(do, p) = do[l][i]
  <2>1. p[Len(p)][1] = i
    BY <1>3
  <2> QED BY <1>3, <2>1 DEF TaskAt, Through
<1> QED
  BY <1>2, <1>3, <1>4, <1>5 DEF p, IsPlace

LEMMA ListIs ==
  ASSUME NEW do, IsTree(do), NEW l \in DOMAIN do, l # <<>>
  PROVE  \E i \in DOMAIN do[Front(l)] : \E k \in ListsOf(do[Front(l)][i]) :
           /\ Front(l) \in DOMAIN do /\ l = Append(Front(l), <<i, k>>) /\ Last(l) = <<i, k>>
           /\ TaskAt(do, l) = do[Front(l)][i] /\ Len(Front(l)) < Len(l)
<1>1. l \in Seq((Nat \ {0}) \X {1, 2}) /\ Len(l) \in Nat /\ Len(l) # 0
  BY DEF IsTree
<1> DEFINE n == Len(l)
           f == Front(l)
<1>2. n \in DOMAIN l /\ l[n] \in (Nat \ {0}) \X {1, 2}
  BY <1>1
<1>3. f \in DOMAIN do /\ l[n][1] \in DOMAIN do[f] /\ l[n][2] \in ListsOf(Through(do, l, n))
  BY <1>2 DEF IsTree, Front
<1>4. Through(do, l, n) = do[f][l[n][1]] /\ TaskAt(do, l) = do[f][l[n][1]]
  BY DEF Through, TaskAt, Front
<1>5. l = Append(f, l[n]) /\ Len(f) < n
  BY <1>1, <1>2 DEF Front
<1>6. l[n] = <<l[n][1], l[n][2]>> /\ Last(l) = l[n]
  BY <1>2 DEF Last
<1> QED
  BY <1>3, <1>4, <1>5, <1>6

LEMMA ListType ==
  ASSUME NEW do, IsTree(do), NEW l \in DOMAIN do
  PROVE  /\ l \in Seq((Nat \ {0}) \X {1, 2}) /\ Len(do[l]) \in Nat /\ DOMAIN do[l] = 1 .. Len(do[l])
         /\ Range(do[l]) = {do[l][i] : i \in DOMAIN do[l]}
         /\ do[l] = <<>> <=> Len(do[l]) = 0
<1> DEFINE s == do[l]
<1>1. l \in Seq((Nat \ {0}) \X {1, 2}) /\ s \in Seq(Range(s))
  BY DEF IsTree
<1>2. Range(s) = {s[i] : i \in DOMAIN s}
  BY DEF Range
<1> HIDE DEF s
<1>3. Len(s) \in Nat /\ DOMAIN s = 1 .. Len(s) /\ (s = <<>> <=> Len(s) = 0)
  BY <1>1
<1> QED
  BY <1>1, <1>2, <1>3 DEF s

LEMMA TaskIsSomewhere ==
  ASSUME NEW do, IsTree(do)
  PROVE  AllTasks(do) = UNION {{do[l][i] : i \in DOMAIN do[l]} : l \in DOMAIN do}
  BY ListType DEF AllTasks, TasksIn

-----------------------------------------------------------------------------
(* What loading makes of a document *)

LEMMA TaskNormalised ==
  ASSUME NEW t, IsTask(t)
  PROVE  LET u == NormaliseTask(t)
         IN /\ u.key = t.key /\ u.base = t.base /\ u.body = t.body /\ u.inputs = t.inputs /\ u.then = t.then
            /\ u.flaw = t.flaw /\ u.await = t.await /\ u.callee = RenameKey(t.callee, "type", "name")
            /\ u.kind = IF Claims(t) THEN "waitExt" ELSE t.kind
            /\ DOMAIN u = DOMAIN t
  BY DEF IsTask, NormaliseTask

LEMMA TaskPostLoaded ==
  ASSUME NEW t, IsTask(t)
  PROVE  LET n == NormaliseTask(t)
             u == PostLoadTask(n)
         IN /\ u.key = t.key /\ u.base = t.base /\ u.body = t.body /\ u.inputs = t.inputs /\ u.then = t.then
            /\ u.flaw = t.flaw /\ u.callee = n.callee /\ u.kind = n.kind
            /\ u.await = IF t.kind = "script" /\ t.await = "unset" THEN "yes" ELSE t.await
            /\ ListsOf(u) = ListsOf(t) /\ ListsOf(n) = ListsOf(t)
            /\ PostLoadTask(u) = u
<1> DEFINE n == NormaliseTask(t)
           u == PostLoadTask(n)
<1>1. DOMAIN t = {"key", "kind", "base", "body", "inputs", "then", "callee", "await", "flaw"}
  BY DEF IsTask
<1>2. /\ n.key = t.key /\ n.base = t.base /\ n.body = t.body /\ n.inputs = t.inputs /\ n.then = t.then
      /\ n.flaw = t.flaw /\ n.await = t.await /\ n.kind = (IF Claims(t) THEN "waitExt" ELSE t.kind)
      /\ DOMAIN n = DOMAIN t
  BY TaskNormalised
<1>3. Claims(t) => t.kind = "wait"
  BY DEF Claims
<1> HIDE DEF n
<1>4. /\ u.key = n.key /\ u.base = n.base /\ u.body = n.body /\ u.inputs = n.inputs /\ u.then = n.then
      /\ u.flaw = n.flaw /\ u.callee = n.callee /\ u.kind = n.kind
      /\ u.await = IF n.kind = "script" /\ n.await = "unset" THEN "yes" ELSE n.await
      /\ DOMAIN u = DOMAIN t
  BY <1>1, <1>2 DEF PostLoadTask
<1>5. PostLoadTask(u) = u
  <2>1. ~(u.kind = "script" /\ u.await = "unset")
    BY <1>4
  <2>2. u = [x \in DOMAIN u |-> u[x]]
    BY DEF PostLoadTask
  <2> HIDE DEF u
  <2> QED BY <2>1, <2>2 DEF PostLoadTask
<1>6. ListsOf(u) = ListsOf(n) /\ ListsOf(n) = ListsOf(t)
  <2>1. ListsOf(u) = ListsOf(n)
    BY <1>4 DEF ListsOf, ContainerKinds
  <2>2. ListsOf(n) = ListsOf(t)
    BY <1>2, <1>3 DEF ListsOf, ContainerKinds
  <2> QED BY <2>1, <2>2
<1> QED
  BY <1>2, <1>3, <1>4, <1>5, <1>6 DEF n

\* A document with other tasks in its lists, which have the same lists.
Reshaped(do, new) ==
  /\ DOMAIN new = DOMAIN do
  /\ \A l \in DOMAIN do :
       /\ new[l] = [i \in DOMAIN do[l] |-> new[l][i]]
       /\ \A i \in DOMAIN do[l] : ListsOf(new[l][i]) = ListsOf(do[l][i])

LEMMA ReshapedTree ==
  ASSUME NEW do, IsTree(do), NEW new, Reshaped(do, new)
  PROVE  /\ IsTree(new)
         /\ \A l \in DOMAIN do : DOMAIN new[l] = DOMAIN do[l] /\ (new[l] = <<>> <=> do[l] = <<>>)
<1>1. DOMAIN new = DOMAIN do
  BY DEF Reshaped
<1>2. ASSUME NEW l \in DOMAIN do
      PROVE  DOMAIN new[l] = DOMAIN do[l] /\ (new[l] = <<>> <=> do[l] = <<>>) /\ new[l] \in Seq(Range(new[l]))
  <2> DEFINE s == new[l]
             n == Len(do[l])
  <2>1. s = [i \in DOMAIN do[l] |-> s[i]]
    BY DEF Reshaped
  <2>2. n \in Nat /\ DOMAIN do[l] = 1 .. n /\ (do[l] = <<>> <=> n = 0)
    BY ListType
  <2> HIDE DEF s, n
  <2>3. DOMAIN s = 1 .. n
    BY <2>1, <2>2
  <2>4. \A i \in 1 .. n : s[i] \in Range(s)
    BY <2>3 DEF Range
  <2>5. s \in Seq(Range(s)) /\ Len(s) = n
    BY <2>1, <2>2, <2>3, <2>4
  <2> QED BY <2>2, <2>3, <2>5 DEF s
<1>3. ASSUME NEW l \in DOMAIN do, NEW m \in DOMAIN l
      PROVE  ListsOf(Through(new, l, m)) = ListsOf(Through(do, l, m))
  <2>1. SubSeq(l, 1, m - 1) \in DOMAIN do /\ l[m][1] \in DOMAIN do[SubSeq(l, 1, m - 1)]
    BY DEF IsTree
  <2> QED BY <2>1 DEF Reshaped, Through
<1>4. IsTree(new)
  <2>1. <<>> \in DOMAIN new
    BY <1>1 DEF IsTree
  <2>2. \A l \in DOMAIN do : l \in Seq((Nat \ {0}) \X {1, 2})
    BY DEF IsTree
  <2>3. \A l \in DOMAIN do : \A i \in DOMAIN do[l] : \A k \in ListsOf(new[l][i]) : Append(l, <<i, k>>) \in DOMAIN do
    BY DEF IsTree, Reshaped
  <2>4. ASSUME NEW l \in DOMAIN do, NEW m \in DOMAIN l
        PROVE  /\ SubSeq(l, 1, m - 1) \in DOMAIN do /\ l[m][1] \in DOMAIN new[SubSeq(l, 1, m - 1)]
               /\ l[m][2] \in ListsOf(Through(new, l, m))
    <3>1. /\ SubSeq(l, 1, m - 1) \in DOMAIN do /\ l[m][1] \in DOMAIN do[SubSeq(l, 1, m - 1)]
          /\ l[m][2] \in ListsOf(Through(do, l, m))
      BY DEF IsTree
    <3> QED BY <1>2, <1>3, <3>1
  <2> QED BY <1>1, <1>2, <2>1, <2>2, <2>3, <2>4 DEF IsTree
<1> QED
  BY <1>2, <1>4

Loaded(d) == LoadFromBytes(d).workflow
Wf(d) == NormaliseWorkflowDocument(d)

LEMMA NormalisedIs ==
  ASSUME NEW d, IsDocument(d)
  PROVE  /\ Wf(d).do = [l \in DOMAIN d.do |-> [i \in DOMAIN d.do[l] |-> NormaliseTask(d.do[l][i])]]
         /\ Wf(d).names = RenameKey(d.names, "workflowType", "name")
         /\ Wf(d).exprs = d.exprs /\ Wf(d).scheduleInput = d.scheduleInput
         /\ DOMAIN Wf(d) = {"yaml", "conforms", "dsl", "names", "exprs", "scheduleInput", "do"}
<1>1. IsTree(d.do)
  BY DEF IsDocument
<1>2. Changed(d.do, NormalisedLists, NormaliseTask) =
        [l \in DOMAIN d.do |-> [i \in DOMAIN d.do[l] |-> NormaliseTask(d.do[l][i])]]
  BY <1>1, WalksReachAll DEF Changed
<1>3. DOMAIN d = {"yaml", "conforms", "dsl", "names", "exprs", "scheduleInput", "do"}
  BY DEF IsDocument
<1> QED
  BY <1>2, <1>3 DEF Wf, NormaliseWorkflowDocument

LEMMA PostLoadIs ==
  ASSUME NEW do, IsTree(do)
  PROVE  PostLoad(do) = [l \in DOMAIN do |-> [i \in DOMAIN do[l] |-> PostLoadTask(do[l][i])]]
  BY WalksReachAll DEF PostLoad, Changed

LEMMA TaskOfDocument ==
  ASSUME NEW d, IsDocument(d), NEW l \in DOMAIN d.do, NEW i \in DOMAIN d.do[l]
  PROVE  IsTask(d.do[l][i])
<1>1. d.do[l][i] \in AllTasks(d.do)
  BY DEF AllTasks, TasksIn, Range
<1> QED
  BY <1>1 DEF IsDocument

LEMMA LoadedIs ==
  ASSUME NEW d, IsDocument(d)
  PROVE  /\ Reshaped(d.do, Wf(d).do) /\ Reshaped(d.do, Loaded(d).do)
         /\ PostLoad(Wf(d).do) = Loaded(d).do /\ PostLoad(Loaded(d).do) = Loaded(d).do
         /\ \A l \in DOMAIN d.do : \A i \in DOMAIN d.do[l] :
              /\ Wf(d).do[l][i] = NormaliseTask(d.do[l][i])
              /\ Loaded(d).do[l][i] = PostLoadTask(NormaliseTask(d.do[l][i]))
         /\ Loaded(d).names = Wf(d).names /\ Loaded(d).exprs = d.exprs /\ Loaded(d).scheduleInput = d.scheduleInput
<1> DEFINE do == d.do
           w == Wf(d).do
           h == Loaded(d).do
<1>1. IsTree(do)
  BY DEF IsDocument
<1>2. /\ w = [l \in DOMAIN do |-> [i \in DOMAIN do[l] |-> NormaliseTask(do[l][i])]]
      /\ Wf(d).exprs = d.exprs /\ Wf(d).scheduleInput = d.scheduleInput
      /\ DOMAIN Wf(d) = {"yaml", "conforms", "dsl", "names", "exprs", "scheduleInput", "do"}
  BY NormalisedIs
<1>3. /\ h = PostLoad(w) /\ Loaded(d).names = Wf(d).names
      /\ Loaded(d).exprs = d.exprs /\ Loaded(d).scheduleInput = d.scheduleInput
  BY <1>2 DEF Loaded, LoadFromBytes, Wf
<1> HIDE DEF w, h
<1>4. \A l \in DOMAIN do : \A i \in DOMAIN do[l] :
        /\ ListsOf(NormaliseTask(do[l][i])) = ListsOf(do[l][i])
        /\ ListsOf(PostLoadTask(NormaliseTask(do[l][i]))) = ListsOf(do[l][i])
        /\ PostLoadTask(PostLoadTask(NormaliseTask(do[l][i]))) = PostLoadTask(NormaliseTask(do[l][i]))
  BY TaskOfDocument, TaskPostLoaded
<1> HIDE DEF do
<1>5. Reshaped(do, w)
  BY <1>2, <1>4 DEF Reshaped
<1>6. IsTree(w)
  BY <1>1, <1>5, ReshapedTree
<1>7. h = [l \in DOMAIN do |-> [i \in DOMAIN do[l] |-> PostLoadTask(NormaliseTask(do[l][i]))]]
  <2>1. h = [l \in DOMAIN w |-> [i \in DOMAIN w[l] |-> PostLoadTask(w[l][i])]]
    BY <1>3, <1>6, PostLoadIs
  <2> QED BY <1>2, <2>1
<1>8. Reshaped(do, h)
  BY <1>4, <1>7 DEF Reshaped
<1>9. PostLoad(h) = h
  <2>1. IsTree(h)
    BY <1>1, <1>8, ReshapedTree
  <2>2. PostLoad(h) = [l \in DOMAIN h |-> [i \in DOMAIN h[l] |-> PostLoadTask(h[l][i])]]
    BY <2>1, PostLoadIs
  <2>3. PostLoad(h) = [l \in DOMAIN do |-> [i \in DOMAIN do[l] |-> PostLoadTask(PostLoadTask(NormaliseTask(do[l][i])))]]
    BY <1>7, <2>2
  <2> QED BY <1>4, <1>7, <2>3
<1>10. \A l \in DOMAIN do : \A i \in DOMAIN do[l] :
         w[l][i] = NormaliseTask(do[l][i]) /\ h[l][i] = PostLoadTask(NormaliseTask(do[l][i]))
  BY <1>2, <1>7
<1> QED
  BY <1>3, <1>5, <1>8, <1>9, <1>10 DEF w, h, do

-----------------------------------------------------------------------------
(* What a reader holds *)

ExpressionErrors == {"invalid expression", "not deterministic"}
Errors == ExpressionErrors \cup {"post-load", "task", "yaml", "model", "dsl", "schema"}

LEMMA ErrorsAre ==
  ASSUME NEW d
  PROVE  /\ Prepare(d) \in {"none", "post-load", "task"} \cup ExpressionErrors
         /\ LoadFromBytes(d).error \in (Errors \ {"schema"}) \cup {"none"}
         /\ ValidateBytes(d) \in Errors \cup {"none"}
<1>1. \A w : Prepare(w) \in {"none", "post-load", "task"} \cup ExpressionErrors
  <2>1. \A w : ValidateWorkflowDeterminism(w) \in {"none"} \cup ExpressionErrors
    BY DEF ValidateWorkflowDeterminism, ExpressionErrors
  <2> QED BY <2>1 DEF Prepare
<1>2. LoadFromBytes(d).error \in (Errors \ {"schema"}) \cup {"none"}
  BY <1>1 DEF LoadFromBytes, Errors, ExpressionErrors
<1>3. ValidateBytes(d) \in Errors \cup {"none"}
  BY <1>2 DEF ValidateBytes, Errors
<1> QED
  BY <1>1, <1>2, <1>3

\* The reader holds what the loader makes of one of the documents, the checked
\* one if the file was left alone.
Holds == \E d \in Known : LoadFromBytes(d).error = "none" /\ held = Loaded(d) /\ (file = bytes => d = file)

ReadInv ==
  /\ file \in Known
  /\ stage \in {"check", "load", "inspect", "build", "serve", "done"}
  /\ stage # "check" => bytes \in Known
  /\ stage \in {"check", "load", "inspect", "build"} => verdict = "none"
  /\ (stage \in {"inspect", "build", "serve"} \/ verdict = "valid") => Holds
  /\ verdict = "valid" => stage = "done" /\ warned = NestedDoWarnings(held)
  /\ stage = "serve" <=> verdict = "built"
  /\ stage = "serve" => Prepare(held) = "none" /\ worker = Build(held.do, WorkflowType(held))

LEMMA ReadInvInit ==
  ASSUME Init
  PROVE  ReadInv
  BY DEF Init, ReadInv, Known

LEMMA ReadInvNext ==
  ASSUME ReadInv, [Next]_vars
  PROVE  ReadInv'
<1> USE DEF ReadInv
<1>1. CASE Check
  <2>1. ValidateBytes(file) # "none" => ValidateBytes(file) \in Errors
    BY ErrorsAre
  <2>2. CASE validate /\ ValidateBytes(file) # "none"
    <3>1. verdict' \in Errors /\ stage' = "done" /\ file' = file /\ bytes' = file
      BY <1>1, <2>1, <2>2 DEF Check, Reject
    <3> QED BY <3>1 DEF Errors, ExpressionErrors
  <2>3. CASE ~(validate /\ ValidateBytes(file) # "none")
    <3>1. verdict' = "none" /\ stage' = "load" /\ file' = file /\ bytes' = file
      BY <1>1, <2>3 DEF Check
    <3> QED BY <3>1
  <2> QED BY <2>2, <2>3
<1>2. CASE Load
  <2> DEFINE d == IF reader = "mcp" THEN bytes ELSE file
             loaded == LoadFromBytes(d)
             error == IF loaded.error = "none" /\ reader = "run" /\ WorkflowType(loaded.workflow) = <<>>
                      THEN "no workflow type" ELSE loaded.error
  <2>1. d \in Known /\ (file = bytes => d = file) /\ file' = file /\ bytes' = bytes
    BY <1>2 DEF Load
  <2>2. error \in Errors \cup {"none", "no workflow type"}
    BY ErrorsAre
  <2>3. CASE error # "none"
    <3>1. verdict' = error /\ stage' = "done"
      BY <1>2, <2>3 DEF Load, Reject
    <3> QED BY <1>2, <2>1, <2>2, <2>3, <3>1 DEF Errors, ExpressionErrors, Load
  <2>4. CASE error = "none"
    <3>1. held' = loaded.workflow /\ stage' = "inspect" /\ verdict' = verdict /\ loaded.error = "none"
      BY <1>2, <2>4 DEF Load
    <3>2. Holds'
      <4> HIDE DEF d
      <4> QED BY <2>1, <3>1 DEF Holds, Loaded
    <3> QED BY <1>2, <2>1, <3>1, <3>2 DEF Load
  <2> QED BY <2>3, <2>4
<1>3. CASE Inspect
  <2>1. Holds /\ UNCHANGED <<file, bytes, held>>
    BY <1>3 DEF Inspect
  <2>2. Holds'
    BY <2>1 DEF Holds
  <2>3. \/ verdict' = "struct" /\ stage' = "done"
        \/ stage' = "build" /\ verdict' = verdict
        \/ stage' = "done" /\ verdict' = "valid" /\ warned' = NestedDoWarnings(held)
    BY <1>3 DEF Inspect, Reject
  <2> QED BY <1>3, <2>1, <2>2, <2>3 DEF Inspect
<1>4. CASE BuildWorker
  <2> DEFINE new == NewWorkflow(held)
  <2>1. Holds /\ UNCHANGED <<file, bytes, held>>
    BY <1>4 DEF BuildWorker
  <2>2. Holds'
    BY <2>1 DEF Holds
  <2>3. new.error \in Errors \cup {"none", "clash"}
    BY ErrorsAre DEF NewWorkflow, Errors
  <2>4. new.error = "none" => Prepare(held) = "none" /\ new.built = Build(held.do, WorkflowType(held))
    BY DEF NewWorkflow
  <2>5. \/ verdict' = new.error /\ stage' = "done" /\ new.error # "none"
        \/ worker' = new.built /\ verdict' = "built" /\ stage' = "serve" /\ new.error = "none"
    BY <1>4 DEF BuildWorker, Reject
  <2> HIDE DEF new
  <2> QED BY <1>4, <2>1, <2>2, <2>3, <2>4, <2>5 DEF BuildWorker, Errors, ExpressionErrors
<1>5. CASE Edit
  <2>1. file' \in Known /\ stage = "load" /\ UNCHANGED <<stage, bytes, verdict>>
    BY <1>5 DEF Edit, Known
  <2> QED BY <2>1
<1>6. CASE UNCHANGED reading
  <2>1. Holds' <=> Holds
    BY <1>6 DEF reading, Holds
  <2> QED BY <1>6, <2>1 DEF reading
<1> QED
  BY <1>1, <1>2, <1>3, <1>4, <1>5, <1>6 DEF Next, Choose, Evaluate, Tick, Attempt, vars

LEMMA ReadInvHolds == Spec => []ReadInv
<1>1. Init => ReadInv
  BY ReadInvInit
<1>2. ReadInv /\ [Next]_vars => ReadInv'
  BY ReadInvNext
<1> QED
  BY <1>1, <1>2, PTL DEF Spec

LEMMA HeldTask ==
  ASSUME Holds
  PROVE  \E d \in Known :
           /\ IsDocument(d) /\ IsTree(d.do) /\ IsTree(held.do) /\ held = Loaded(d) /\ LoadFromBytes(d).error = "none"
           /\ \A t \in AllTasks(held.do) : \E s \in AllTasks(d.do) : IsTask(s) /\ t = PostLoadTask(NormaliseTask(s))
<1>1. PICK d \in Known : LoadFromBytes(d).error = "none" /\ held = Loaded(d)
  BY DEF Holds
<1>2. IsDocument(d)
  BY DocumentsAssumption DEF Known
<1>3. IsTree(d.do)
  BY <1>2 DEF IsDocument
<1>4. Reshaped(d.do, Loaded(d).do)
  BY <1>2, LoadedIs
<1>5. IsTree(held.do)
  BY <1>1, <1>3, <1>4, ReshapedTree
<1>6. ASSUME NEW t \in AllTasks(held.do)
      PROVE  \E s \in AllTasks(d.do) : IsTask(s) /\ t = PostLoadTask(NormaliseTask(s))
  <2>1. PICK l \in DOMAIN held.do : \E i \in DOMAIN held.do[l] : t = held.do[l][i]
    BY <1>5, TaskIsSomewhere
  <2>2. PICK i \in DOMAIN held.do[l] : t = held.do[l][i]
    BY <2>1
  <2>3. l \in DOMAIN d.do /\ i \in DOMAIN d.do[l]
    <3>1. l \in DOMAIN d.do
      BY <1>1, <1>4 DEF Reshaped
    <3> QED BY <1>1, <1>3, <1>4, <2>2, <3>1, ReshapedTree
  <2>4. t = PostLoadTask(NormaliseTask(d.do[l][i]))
    BY <1>1, <1>2, <2>2, <2>3, LoadedIs
  <2>5. d.do[l][i] \in AllTasks(d.do)
    BY <1>3, <2>3, TaskIsSomewhere
  <2>6. IsTask(d.do[l][i])
    BY <1>2, <2>3, TaskOfDocument
  <2> QED BY <2>4, <2>5, <2>6
<1> QED
  BY <1>1, <1>2, <1>3, <1>5, <1>6

-----------------------------------------------------------------------------
(* Attempts of activities *)

\* An activity has been scheduled with what its inputs were, and the output is
\* that of its last attempt.
AttemptInv ==
  LET t == site.task
  IN /\ attempt \in Nat
     /\ site = Nothing => attempt = 0
     /\ attempt = 0 => output = Nothing
     /\ site.is = "activity" =>
          /\ AreInputs(t.inputs) /\ schedule \in Schedules(t.kind, t.inputs)
          /\ attempt > 0 =>
               IF AttemptFails(t.kind, schedule, attempt) THEN output = Nothing
               ELSE output = [is |-> "output",
                              of |-> [p \in DOMAIN t.inputs |-> HandedOn(t.kind, schedule, p, attempt)]]

LEMMA AttemptInvNext ==
  ASSUME ReadInv, AttemptInv, [Next]_vars
  PROVE  AttemptInv'
<1>1. CASE Choose
  <2>1. stage = "serve" /\ site = Nothing /\ UNCHANGED <<attempt, output>>
    BY <1>1 DEF Choose
  <2>2. attempt = 0 /\ output = Nothing
    BY <2>1 DEF AttemptInv
  <2>3. PICK t \in AllTasks(held.do) :
          \/ \E e \in EvaluatedIn(t) : site' = [is |-> "expression", task |-> t, expr |-> e] /\ UNCHANGED schedule
          \/ /\ t.kind \in ActivityKinds
             /\ site' = [is |-> "activity", task |-> t]
             /\ schedule' \in {ResolveActivityInputs(t.kind, t.inputs), Unresolved(t.inputs)}
    BY <1>1 DEF Choose
  <2>4. CASE \E e \in EvaluatedIn(t) : site' = [is |-> "expression", task |-> t, expr |-> e]
    <3>1. site'.is = "expression" /\ site' # Nothing
      BY <2>4 DEF Nothing
    <3> QED BY <2>1, <2>2, <3>1 DEF AttemptInv
  <2>5. CASE /\ site' = [is |-> "activity", task |-> t]
             /\ schedule' \in {ResolveActivityInputs(t.kind, t.inputs), Unresolved(t.inputs)}
    <3>1. AreInputs(t.inputs)
      <4>1. Holds
        BY <2>1 DEF ReadInv
      <4>2. PICK s : IsTask(s) /\ t = PostLoadTask(NormaliseTask(s))
        BY <2>3, <4>1, HeldTask
      <4>3. t.inputs = s.inputs
        BY <4>2, TaskPostLoaded
      <4> QED BY <4>2, <4>3 DEF IsTask, AreInputs
    <3>2. site'.task = t /\ site' # Nothing
      BY <2>5 DEF Nothing
    <3> QED BY <2>1, <2>2, <2>5, <3>1, <3>2 DEF AttemptInv, Schedules
  <2> QED BY <2>3, <2>4, <2>5
<1>2. CASE Evaluate \/ Tick
  <2>1. site.is = "expression" /\ site # Nothing /\ UNCHANGED <<site, schedule, output>>
    BY <1>2 DEF Evaluate, Tick, Nothing
  <2>2. attempt' \in {attempt, attempt + 1} /\ (attempt' = 0 => attempt = 0)
    BY <1>2 DEF Evaluate, Tick, AttemptInv
  <2> QED BY <2>1, <2>2 DEF AttemptInv
<1>3. CASE Attempt
  <2>1. site.is = "activity" /\ UNCHANGED <<site, schedule>> /\ attempt' = attempt + 1
    BY <1>3 DEF Attempt
  <2>2. attempt \in Nat /\ attempt' \in Nat /\ attempt' # 0 /\ site # Nothing
    BY <2>1 DEF AttemptInv, Nothing
  <2>3. IF AttemptFails(site.task.kind, schedule, attempt + 1) THEN output' = Nothing
        ELSE output' = [is |-> "output",
                        of |-> [p \in DOMAIN site.task.inputs |-> HandedOn(site.task.kind, schedule, p, attempt + 1)]]
    BY <1>3 DEF Attempt
  <2> QED BY <2>1, <2>2, <2>3 DEF AttemptInv
<1>4. CASE UNCHANGED serving
  BY <1>4 DEF serving, AttemptInv
<1> QED
  BY <1>1, <1>2, <1>3, <1>4 DEF Next, vars, Check, Load, Inspect, BuildWorker, Edit

LEMMA AttemptInvIsEnough ==
  ASSUME AttemptInv
  PROVE  InputsAreMeant
<1> DEFINE t == site.task
<1> SUFFICES ASSUME site.is = "activity"
             PROVE  /\ schedule.failed => MeantToFail(t.kind, t.inputs, 0)
                    /\ (attempt > 0 /\ output = Nothing) => MeantToFail(t.kind, t.inputs, attempt)
                    /\ output # Nothing =>
                         \A p \in DOMAIN t.inputs : output.of[p] = Meant(t.kind, t.inputs, p, attempt)
  BY DEF InputsAreMeant
<1>1. AreInputs(t.inputs) /\ schedule \in Schedules(t.kind, t.inputs)
  BY DEF AttemptInv
<1>2. schedule.failed => MeantToFail(t.kind, t.inputs, 0)
  BY <1>1, FailureIsMeant
<1>3. CASE attempt = 0
  BY <1>2, <1>3 DEF AttemptInv
<1>4. CASE attempt > 0 /\ AttemptFails(t.kind, schedule, attempt)
  <2>1. output = Nothing
    BY <1>4 DEF AttemptInv
  <2>2. MeantToFail(t.kind, t.inputs, attempt)
    BY <1>1, <1>4, FailureIsMeant
  <2> QED BY <1>2, <2>1, <2>2
<1>5. CASE attempt > 0 /\ ~AttemptFails(t.kind, schedule, attempt)
  <2>1. output = [is |-> "output", of |-> [p \in DOMAIN t.inputs |-> HandedOn(t.kind, schedule, p, attempt)]]
    BY <1>5 DEF AttemptInv
  <2>2. \A p \in DOMAIN t.inputs : HandedOn(t.kind, schedule, p, attempt) = Meant(t.kind, t.inputs, p, attempt)
    BY <1>1, HandedOnIsMeant
  <2>3. output # Nothing /\ \A p \in DOMAIN t.inputs : output.of[p] = HandedOn(t.kind, schedule, p, attempt)
    BY <2>1 DEF Nothing
  <2> HIDE DEF t
  <2> QED BY <1>2, <2>2, <2>3
<1> QED
  BY <1>3, <1>4, <1>5 DEF AttemptInv

\* Every attempt of an activity hands on what the inputs of its task mean in
\* that attempt, and it fails only if that is what they mean, for any document
\* and any keys, also if the schedule was made by a worker that resolved no
\* inputs (activity_inputs.go:50).
THEOREM ActivityInputsAreMeant == Spec => []InputsAreMeant
<1>1. Init => AttemptInv
  BY DEF Init, AttemptInv, Nothing
<1>2. ReadInv /\ AttemptInv /\ [Next]_vars => AttemptInv'
  BY AttemptInvNext
<1>3. AttemptInv => InputsAreMeant
  BY AttemptInvIsEnough
<1> QED
  BY <1>1, <1>2, <1>3, ReadInvHolds, PTL DEF Spec

-----------------------------------------------------------------------------
(* Replays *)

LEMMA DeterminismIs ==
  ASSUME NEW doc, IsTree(doc.do)
  PROVE  /\ ValidateWorkflowDeterminism(doc) = "none" <=> SoundExpressions(doc)
         /\ ValidateWorkflowDeterminism(doc) \in {"none"} \cup ExpressionErrors
<1> DEFINE refs == CollectExpressions(doc)
<1>1. Reached(doc.do, CollectedLists) = DOMAIN doc.do
  BY WalksReachAll
<1>2. refs = Ref(doc.exprs, FALSE) \cup Ref(doc.scheduleInput, TRUE)
               \cup UNION {CollectTaskItem(t) : t \in AllTasks(doc.do)}
  BY <1>1 DEF CollectExpressions, AllTasks
<1> HIDE DEF refs
<1>3. ValidateWorkflowDeterminism(doc) = "none" <=>
        \A r \in refs : Compiles(r.expr) /\ (r.allows \/ IsDeterministic(r.expr))
  BY DEF ValidateWorkflowDeterminism, refs
<1> DEFINE Good(r) == Compiles(r.expr) /\ (r.allows \/ IsDeterministic(r.expr))
<1>4. \A exprs : (\A r \in Ref(exprs, FALSE) : Good(r)) <=> \A e \in exprs : Compiles(e) /\ IsDeterministic(e)
  <2> TAKE exprs
  <2>1. ASSUME \A r \in Ref(exprs, FALSE) : Good(r), NEW e \in exprs
        PROVE  Compiles(e) /\ IsDeterministic(e)
    <3> DEFINE r == [expr |-> e, allows |-> FALSE]
    <3>1. r \in Ref(exprs, FALSE) /\ r.expr = e /\ r.allows = FALSE
      BY DEF Ref
    <3> HIDE DEF r
    <3> QED BY <2>1, <3>1
  <2> QED BY <2>1 DEF Ref
<1>5. \A exprs : (\A r \in Ref(exprs, TRUE) : Good(r)) <=> \A e \in exprs : Compiles(e)
  <2> TAKE exprs
  <2>1. ASSUME \A r \in Ref(exprs, TRUE) : Good(r), NEW e \in exprs
        PROVE  Compiles(e)
    <3> DEFINE r == [expr |-> e, allows |-> TRUE]
    <3>1. r \in Ref(exprs, TRUE) /\ r.expr = e
      BY DEF Ref
    <3> HIDE DEF r
    <3> QED BY <2>1, <3>1
  <2> QED BY <2>1 DEF Ref
<1>6. \A t : (\A r \in CollectTaskItem(t) : Good(r)) <=>
               /\ \A e \in t.base : Compiles(e) /\ IsDeterministic(e)
               /\ \A e \in BodyExpressions(t) : Compiles(e) /\ (t.kind = "set" \/ IsDeterministic(e))
  <2> TAKE t
  <2> HIDE DEF Good
  <2>1. (\A r \in CollectTaskItem(t) : Good(r)) <=>
          (\A r \in Ref(t.base, FALSE) : Good(r)) /\ (\A r \in Ref(BodyExpressions(t), t.kind = "set") : Good(r))
    BY DEF CollectTaskItem
  <2>2. CASE t.kind = "set"
    <3>1. (t.kind = "set") = TRUE
      BY <2>2
    <3> QED BY <1>4, <1>5, <2>1, <2>2, <3>1
  <2>3. CASE t.kind # "set"
    <3>1. (t.kind = "set") = FALSE
      BY <2>3
    <3> QED BY <1>4, <2>1, <2>3, <3>1
  <2> QED BY <2>2, <2>3
<1>7. (\A r \in refs : Good(r)) <=> SoundExpressions(doc)
  <2> HIDE DEF Good
  <2>1. (\A r \in refs : Good(r)) <=>
          /\ \A r \in Ref(doc.exprs, FALSE) : Good(r)
          /\ \A r \in Ref(doc.scheduleInput, TRUE) : Good(r)
          /\ \A t \in AllTasks(doc.do) : \A r \in CollectTaskItem(t) : Good(r)
    BY <1>2
  <2> QED BY <1>4, <1>5, <1>6, <2>1 DEF SoundExpressions
<1> QED
  BY <1>3, <1>7 DEF ValidateWorkflowDeterminism, ExpressionErrors

\* A value is that of the first evaluation: the one of an expression that does
\* not read the clock, or the one that was recorded.
ReplayInv ==
  /\ history # Nothing => history = [is |-> "value", of |-> history.of]
  /\ site = Nothing => value = Nothing /\ history = Nothing
  /\ site.is = "expression" =>
       /\ Compiles(site.expr)
       /\ InSideEffect => value = history
       /\ ~InSideEffect =>
            ~ReadsClock(site.expr) /\ (value = Nothing \/ value = [is |-> "value", of |-> <<"same">>])

LEMMA EvaluatedIsSound ==
  ASSUME ReadInv, stage = "serve", NoneMisleads, NEW t \in AllTasks(held.do), NEW e \in EvaluatedIn(t)
  PROVE  Compiles(e) /\ ((t.kind = "set" /\ e \in t.body) \/ ~ReadsClock(e))
<1>1. Holds /\ Prepare(held) = "none"
  BY DEF ReadInv
<1>2. PICK d \in Known :
        /\ IsTree(held.do)
        /\ \A u \in AllTasks(held.do) : \E s \in AllTasks(d.do) : IsTask(s) /\ u = PostLoadTask(NormaliseTask(s))
  BY <1>1, HeldTask
<1>3. PICK s \in AllTasks(d.do) : IsTask(s) /\ t = PostLoadTask(NormaliseTask(s))
  BY <1>2
<1>4. /\ t.base = s.base /\ t.body = s.body /\ t.inputs = s.inputs
      /\ t.kind = IF Claims(s) THEN "waitExt" ELSE s.kind
  BY <1>3, TaskPostLoaded, TaskNormalised
<1>5. ValidateWorkflowDeterminism(held) = "none"
  BY <1>1 DEF Prepare
<1>6. SoundExpressions(held)
  BY <1>2, <1>5, DeterminismIs
<1>7. e \in t.base \cup BodyExpressions(t)
  BY DEF EvaluatedIn, ResolveAtOnce, BodyExpressions
<1>8. ~Misleads(e)
  BY <1>3, <1>4, <1>7 DEF NoneMisleads, Known, BodyExpressions
<1>9. Compiles(e)
  BY <1>6, <1>7 DEF SoundExpressions
<1>10. t.kind = "set" => DOMAIN t.inputs = {}
  BY <1>3, <1>4 DEF IsTask, ActivityKinds
<1>11. (t.kind = "set" /\ e \in t.body) \/ IsDeterministic(e)
  BY <1>6, <1>7, <1>10 DEF SoundExpressions, BodyExpressions
<1> QED
  BY <1>8, <1>9, <1>11, CheckIsSound

LEMMA ReplayInvNext ==
  ASSUME ReadInv, ReplayInv, NoneMisleads, [Next]_vars
  PROVE  /\ ReplayInv'
         /\ value' # value => value = Nothing /\ value'.of # <<"fails">>
<1>1. CASE Choose
  <2>1. stage = "serve" /\ site = Nothing /\ UNCHANGED <<value, history>>
    BY <1>1 DEF Choose
  <2>2. value = Nothing /\ history = Nothing
    BY <2>1 DEF ReplayInv
  <2>3. PICK t \in AllTasks(held.do) :
          \/ \E e \in EvaluatedIn(t) : site' = [is |-> "expression", task |-> t, expr |-> e]
          \/ site' = [is |-> "activity", task |-> t]
    BY <1>1 DEF Choose
  <2>4. ASSUME NEW e \in EvaluatedIn(t), site' = [is |-> "expression", task |-> t, expr |-> e]
        PROVE  ReplayInv'
    <3>1. Compiles(e) /\ ((t.kind = "set" /\ e \in t.body) \/ ~ReadsClock(e))
      BY <2>1, EvaluatedIsSound
    <3>2. site'.expr = e /\ site'.task = t /\ site' # Nothing
      BY <2>4 DEF Nothing
    <3> QED BY <2>1, <2>2, <3>1, <3>2 DEF ReplayInv, InSideEffect
  <2>5. ASSUME site' = [is |-> "activity", task |-> t]
        PROVE  ReplayInv'
    <3>1. site'.is = "activity" /\ site' # Nothing
      BY <2>5 DEF Nothing
    <3> QED BY <2>1, <2>2, <3>1 DEF ReplayInv
  <2> QED BY <2>1, <2>3, <2>4, <2>5
<1>2. CASE Evaluate
  <2>1. site.is = "expression" /\ site' = site /\ site # Nothing
    BY <1>2 DEF Evaluate, Nothing
  <2>2. value' = [is |-> "value", of |-> IF InSideEffect /\ history # Nothing THEN history.of ELSE Now(site.expr)]
    BY <1>2 DEF Evaluate
  <2>3. value' = [is |-> "value", of |-> value'.of]
    BY <2>2
  <2>4. Compiles(site.expr) /\ (InSideEffect' <=> InSideEffect)
    BY <2>1 DEF ReplayInv, InSideEffect
  <2>5. CASE InSideEffect /\ history # Nothing
    <3>1. value' = history /\ value = history
      BY <2>1, <2>2, <2>5 DEF ReplayInv
    <3>2. history' = value'
      BY <1>2, <2>5 DEF Evaluate
    <3> QED BY <2>1, <2>4, <2>5, <3>1, <3>2 DEF ReplayInv
  <2>6. CASE InSideEffect /\ history = Nothing
    <3>1. value = Nothing /\ history' = value'
      BY <1>2, <2>1, <2>6 DEF Evaluate, ReplayInv
    <3>2. value'.of # <<"fails">>
      BY <2>2, <2>4, <2>6 DEF Now
    <3> QED BY <2>1, <2>3, <2>4, <2>6, <3>1, <3>2 DEF ReplayInv
  <2>7. CASE ~InSideEffect
    <3>1. ~ReadsClock(site.expr) /\ (value = Nothing \/ value = [is |-> "value", of |-> <<"same">>])
      BY <2>1, <2>7 DEF ReplayInv
    <3>2. value' = [is |-> "value", of |-> <<"same">>]
      BY <2>2, <2>4, <2>7, <3>1 DEF Now
    <3>3. history' = history
      BY <1>2, <2>7 DEF Evaluate
    <3> QED BY <2>1, <2>4, <2>7, <3>1, <3>2, <3>3 DEF ReplayInv
  <2> QED BY <2>5, <2>6, <2>7
<1>3. CASE UNCHANGED <<site, history, value>>
  BY <1>3 DEF ReplayInv, InSideEffect
<1>4. CASE Check \/ Load \/ Inspect \/ BuildWorker \/ Edit \/ Tick \/ Attempt \/ UNCHANGED vars
  BY <1>3, <1>4 DEF Check, Load, Inspect, BuildWorker, Edit, Tick, Attempt, vars, serving
<1> QED
  BY <1>1, <1>2, <1>4 DEF Next

\* If no expression misleads the check, nothing that a workflow evaluates
\* changes in a replay or fails to compile, even if the file was edited after
\* its check or not checked: the build looks at the expressions of what it was
\* given (workflow_builder.go:86, do.go:475).
THEOREM ReplaysAreSafe ==
  ASSUME NoneMisleads
  PROVE  Spec => ReplaySafe
<1>1. Init => ReplayInv
  BY DEF Init, ReplayInv, Nothing
<1>2. ReadInv /\ ReplayInv /\ [Next]_vars => ReplayInv'
  BY ReplayInvNext
<1>3. ReadInv /\ ReplayInv /\ [Next]_vars => [value' # value => value = Nothing /\ value'.of # <<"fails">>]_vars
  BY ReplayInvNext
<1> QED
  BY <1>1, <1>2, <1>3, ReadInvHolds, PTL DEF Spec, ReplaySafe

-----------------------------------------------------------------------------
(* Do tasks and the workflows that they are registered as *)

LEMMA DoListsAre ==
  ASSUME NEW do, IsTree(do)
  PROVE  DoLists(do) = {l \in DOMAIN do : ~IsBranches(do, l)}
  BY WalksReachAll DEF DoLists

LEMMA PlaceOfTask ==
  ASSUME NEW do, IsTree(do), NEW lists \in SUBSET DOMAIN do, NEW p \in Places(do, lists)
  PROVE  \E i \in DOMAIN do[Front(p)] :
           /\ Front(p) \in lists /\ p = Append(Front(p), <<i, 0>>) /\ Last(p) = <<i, 0>> /\ Last(p)[1] = i
           /\ TaskAt(do, p) = do[Front(p)][i]
<1>1. PICK l \in lists : \E i \in DOMAIN do[l] : p = Append(l, <<i, 0>>)
  BY DEF Places
<1>2. PICK i \in DOMAIN do[l] : p = Append(l, <<i, 0>>)
  BY <1>1
<1>3. l \in Seq((Nat \ {0}) \X {1, 2})
  BY ListType
<1>4. Front(p) = l /\ Last(p) = <<i, 0>> /\ TaskAt(do, p) = do[l][i]
  <2>1. IsPlace(do, Append(l, <<i, 0>>), l, i, 0)
    BY <1>3, PlaceIs
  <2> QED BY <1>2, <2>1 DEF IsPlace
<1>5. Last(p)[1] = i
  BY <1>4
<1>6. i \in DOMAIN do[Front(p)] /\ p = Append(Front(p), <<i, 0>>) /\ TaskAt(do, p) = do[Front(p)][i]
  BY <1>2, <1>4
<1> QED
  BY <1>1, <1>4, <1>5, <1>6

\* The child list of a do task that is not executed where it is, or that a
\* switch names, is registered under the key of the task.
LEMMA RedirectsAreRegistered ==
  ASSUME NEW do, IsTree(do), NEW type, NEW p \in Places(do, DoLists(do)), TaskAt(do, p).kind = "do",
         ChildRegisters(do[Front(p)], Last(p)[1], Front(p) = <<>>)
  PROVE  [name |-> TaskAt(do, p).key, place |-> Append(Front(p), <<Last(p)[1], 1>>)] \in Workflows(do, type)
<1>0. PICK l : l = Front(p)
  OBVIOUS
<1>1. l \in DOMAIN do /\ ~IsBranches(do, l)
  BY <1>0, DoListsAre, PlaceOfTask
<1>2. PICK i \in DOMAIN do[l] : Last(p)[1] = i /\ TaskAt(do, p) = do[l][i]
  BY <1>0, DoListsAre, PlaceOfTask
<1> DEFINE c == Append(l, <<i, 1>>)
           opts == Opts(do, c, type)
<1>3. l \in Seq((Nat \ {0}) \X {1, 2})
  BY <1>1, ListType
<1>4. Front(c) = l /\ Last(c) = <<i, 1>> /\ c # <<>> /\ TaskAt(do, c) = do[l][i]
  <2>1. IsPlace(do, Append(l, <<i, 1>>), l, i, 1)
    BY <1>3, PlaceIs
  <2> QED BY <2>1 DEF IsPlace
<1>5. do[l][i].kind = "do"
  BY <1>2
<1>6. c \in DOMAIN do
  <2>1. 1 \in ListsOf(do[l][i])
    BY <1>5 DEF ListsOf, ContainerKinds
  <2> QED BY <1>1, <2>1 DEF IsTree
<1> HIDE DEF c
<1>7. c \in DoLists(do)
  BY <1>4, <1>5, <1>6, DoListsAre DEF IsBranches
<1>8. opts = Scope(do[l][i].key, TRUE)
  <2>1. ChildRegisters(do[l], i, l = <<>>) = TRUE
    BY <1>0, <1>2 DEF ChildRegisters, MultipleWorkflows, HasNoDo, Added
  <2>2. SetChildOpts(do, c) = Scope(do[l][i].key, ChildRegisters(do[l], i, l = <<>>))
    BY <1>4 DEF SetChildOpts
  <2> QED BY <1>1, <1>4, <1>5, <2>1, <2>2 DEF Opts
<1>9. Registers(do[c], opts) /\ opts.name = do[l][i].key
  BY <1>8 DEF Registers, Scope
<1> HIDE DEF opts
<1>10. [name |-> opts.name, place |-> c] \in Workflows(do, type)
  BY <1>7, <1>9 DEF Workflows, opts
<1> QED
  BY <1>0, <1>2, <1>9, <1>10 DEF c

LEMMA NoListIsLostNow ==
  ASSUME ReadInv
  PROVE  NoListIsLost
<1> DEFINE do == held.do
           registered(p) ==
             [name |-> TaskAt(do, p).key, place |-> Append(Front(p), <<Last(p)[1], 1>>)] \in worker.claims
<1>1. stage = "serve" \/ verdict = "valid" => IsTree(do)
  BY HeldTask DEF ReadInv
<1>2. ASSUME stage = "serve"
      PROVE  /\ \A p \in Places(do, {l \in DOMAIN do : ~IsBranches(do, l)}) :
                  (TaskAt(do, p).kind = "do" /\ TaskAt(do, p).key \in SwitchTargets(do[Front(p)])) => registered(p)
             /\ \A p \in worker.left : registered(p)
  <2>1. IsTree(do) /\ worker = Build(do, WorkflowType(held))
    BY <1>1, <1>2 DEF ReadInv
  <2> HIDE DEF do
  <2>2. worker.claims = Workflows(do, WorkflowType(held)) /\ worker.left = Left(do)
    BY <2>1 DEF Build, Built
  <2>3. {l \in DOMAIN do : ~IsBranches(do, l)} = DoLists(do) /\ DoLists(do) \in SUBSET DOMAIN do
    BY <2>1, DoListsAre
  <2>4. ASSUME NEW p \in Places(do, DoLists(do)), TaskAt(do, p).kind = "do",
               TaskAt(do, p).key \in SwitchTargets(do[Front(p)])
        PROVE  registered(p)
    <3>1. TaskAt(do, p) = do[Front(p)][Last(p)[1]]
      BY <2>1, <2>3, PlaceOfTask
    <3>2. ChildRegisters(do[Front(p)], Last(p)[1], Front(p) = <<>>)
      BY <2>4, <3>1 DEF ChildRegisters
    <3> QED BY <2>1, <2>2, <2>4, <3>2, RedirectsAreRegistered
  <2>5. ASSUME NEW p \in worker.left
        PROVE  registered(p)
    <3>1. p \in Places(do, DoLists(do)) /\ ~Added(do[Front(p)], Last(p)[1])
      BY <2>2, <2>5 DEF Left
    <3>2. TaskAt(do, p) = do[Front(p)][Last(p)[1]]
      BY <2>1, <2>3, <3>1, PlaceOfTask
    <3>3. TaskAt(do, p).kind = "do" /\ ChildRegisters(do[Front(p)], Last(p)[1], Front(p) = <<>>)
      BY <3>1, <3>2 DEF Added, ChildRegisters
    <3> QED BY <2>1, <2>2, <3>1, <3>3, RedirectsAreRegistered
  <2> QED BY <2>3, <2>4, <2>5
<1>3. ASSUME verdict = "valid", NEW p \in NewWorkflow(held).built.left
      PROVE  p \in warned \/ TaskAt(do, p).key \in Targets(do)
  <2>1. IsTree(do) /\ warned = NestedDoWarnings(held)
    BY <1>1, <1>3 DEF ReadInv
  <2> HIDE DEF do
  <2>2. p \in Left(do)
    BY <1>3 DEF NewWorkflow, NothingBuilt, Built, Build, do
  <2>3. p \in Places(do, DoLists(do)) /\ ~Added(do[Front(p)], Last(p)[1])
    BY <2>2 DEF Left
  <2>4. DoLists(do) \in SUBSET DOMAIN do /\ \A l \in DoLists(do) : ~IsBranches(do, l)
    BY <2>1, DoListsAre
  <2>5. PICK i \in DOMAIN do[Front(p)] :
          Front(p) \in DoLists(do) /\ Last(p)[1] = i /\ TaskAt(do, p) = do[Front(p)][i]
    BY <2>1, <2>3, <2>4, PlaceOfTask
  <2>6. do[Front(p)][i].kind = "do" /\ HasNoDo(do[Front(p)])
    <3> DEFINE list == do[Front(p)]
    <3>1. DOMAIN list = 1 .. Len(list) /\ Len(list) \in Nat
      BY <2>1, <2>4, <2>5, ListType
    <3>2. list[i].kind = "do" /\ \E j \in 1 .. (i - 1) : list[j].kind # "do"
      BY <2>3, <2>5 DEF Added
    <3>3. \A j \in 1 .. (i - 1) : j \in DOMAIN list
      BY <3>1
    <3> QED BY <3>2, <3>3 DEF HasNoDo, Range
  <2>7. p \in Places(do, DOMAIN do)
    BY <2>3, <2>4 DEF Places
  <2>8. p \in Candidates(do)
    BY <2>1, <2>4, <2>5, <2>6, <2>7, WalksReachAll DEF Candidates
  <2> QED BY <2>1, <2>8 DEF NestedDoWarnings, do
<1> QED
  BY <1>2, <1>3 DEF NoListIsLost

\* Every do task that a switch of its list names is registered under its own
\* name, and so is every do task that no list executes; the warnings name
\* those that no switch does (task_builder_do.go:133, nested_do.go:42).
THEOREM ListsAreNotLost == Spec => []NoListIsLost
<1>1. ReadInv => NoListIsLost
  BY NoListIsLostNow
<1> QED
  BY <1>1, ReadInvHolds, PTL

-----------------------------------------------------------------------------
(* Verdicts *)

\* What loading keeps of the tasks of a document.
Similar(do, new) ==
  /\ Reshaped(do, new)
  /\ \A l \in DOMAIN do : \A i \in DOMAIN do[l] :
       LET t == do[l][i]
           u == new[l][i]
       IN /\ u.base = t.base /\ u.body = t.body /\ u.inputs = t.inputs /\ u.flaw = t.flaw
          /\ u.kind = "set" <=> t.kind = "set"
          /\ u.kind = "try" <=> t.kind = "try"
          /\ u.kind = "script" <=> t.kind = "script"
          /\ u.kind = "workflow" <=> t.kind = "workflow"

LEMMA LoadedIsSimilar ==
  ASSUME NEW d, IsDocument(d)
  PROVE  Similar(d.do, Wf(d).do) /\ Similar(d.do, Loaded(d).do)
<1>1. ASSUME NEW l \in DOMAIN d.do, NEW i \in DOMAIN d.do[l]
      PROVE  LET t == d.do[l][i]
                 n == NormaliseTask(t)
                 u == PostLoadTask(n)
             IN /\ u.base = t.base /\ u.body = t.body /\ u.inputs = t.inputs /\ u.flaw = t.flaw /\ u.kind = n.kind
                /\ n.base = t.base /\ n.body = t.body /\ n.inputs = t.inputs /\ n.flaw = t.flaw
                /\ n.kind = "set" <=> t.kind = "set"
                /\ n.kind = "try" <=> t.kind = "try"
                /\ n.kind = "script" <=> t.kind = "script"
                /\ n.kind = "workflow" <=> t.kind = "workflow"
  <2> DEFINE t == d.do[l][i]
  <2>1. IsTask(t)
    BY TaskOfDocument
  <2> HIDE DEF t
  <2>2. Claims(t) => t.kind = "wait"
    BY DEF Claims
  <2> QED BY <2>1, <2>2, TaskNormalised, TaskPostLoaded DEF t
<1>2. /\ Reshaped(d.do, Wf(d).do) /\ Reshaped(d.do, Loaded(d).do)
      /\ \A l \in DOMAIN d.do : \A i \in DOMAIN d.do[l] :
           /\ Wf(d).do[l][i] = NormaliseTask(d.do[l][i])
           /\ Loaded(d).do[l][i] = PostLoadTask(NormaliseTask(d.do[l][i]))
  BY LoadedIs
<1>3. Similar(d.do, Wf(d).do)
  BY <1>1, <1>2 DEF Similar
<1>4. Similar(d.do, Loaded(d).do)
  BY <1>1, <1>2 DEF Similar
<1> QED
  BY <1>3, <1>4

LEMMA SimilarTree ==
  ASSUME NEW do, IsTree(do), NEW new, Similar(do, new)
  PROVE  /\ IsTree(new) /\ DOMAIN new = DOMAIN do
         /\ \A l \in DOMAIN do : DOMAIN new[l] = DOMAIN do[l] /\ (new[l] = <<>> <=> do[l] = <<>>)
<1>1. Reshaped(do, new)
  BY DEF Similar
<1> QED
  BY <1>1, ReshapedTree DEF Reshaped

\* A task without a builder, or a try task without one of its lists.
LacksBuilder(do) == \E l \in DOMAIN do : \E i \in DOMAIN do[l] : do[l][i].flaw = "call"
LacksTry(do) ==
  \E l \in DOMAIN do : \E i \in DOMAIN do[l] :
    do[l][i].kind = "try" /\ \E k \in {1, 2} : do[Append(l, <<i, k>>)] = <<>>

LEMMA PostLoadFailsIf ==
  ASSUME NEW do, IsTree(do)
  PROVE  PostLoadFails(do) <=> LacksBuilder(do) \/ LacksTry(do)
<1>1. Reached(do, BuilderLists) = DOMAIN do
  BY WalksReachAll
<1>2. \A l \in DOMAIN do : \A i : IsPlace(do, Append(l, <<i, 0>>), l, i, 0)
  BY ListType, PlaceIs
<1>3. ASSUME NEW l \in DOMAIN do, NEW i
      PROVE  LET p == Append(l, <<i, 0>>)
             IN BuilderFails(do, p) <=>
                  do[l][i].flaw = "call" \/ (do[l][i].kind = "try" /\ \E k \in {1, 2} : do[Append(l, <<i, k>>)] = <<>>)
  <2> DEFINE p == Append(l, <<i, 0>>)
  <2>1. Front(p) = l /\ Last(p)[1] = i /\ TaskAt(do, p) = do[l][i]
    BY <1>2 DEF IsPlace
  <2> HIDE DEF p
  <2> QED BY <2>1 DEF BuilderFails, p
<1>4. PostLoadFails(do) <=> \E l \in DOMAIN do : \E i \in DOMAIN do[l] : BuilderFails(do, Append(l, <<i, 0>>))
  <2>1. PostLoadFails(do) <=> \E p \in Places(do, DOMAIN do) : BuilderFails(do, p)
    BY <1>1 DEF PostLoadFails
  <2>2. \A p : p \in Places(do, DOMAIN do) <=> \E l \in DOMAIN do : \E i \in DOMAIN do[l] : p = Append(l, <<i, 0>>)
    BY DEF Places
  <2>3. ASSUME NEW p \in Places(do, DOMAIN do), BuilderFails(do, p)
        PROVE  \E l \in DOMAIN do : \E i \in DOMAIN do[l] : BuilderFails(do, Append(l, <<i, 0>>))
    <3>1. PICK l \in DOMAIN do : \E i \in DOMAIN do[l] : p = Append(l, <<i, 0>>)
      BY <2>2, <2>3
    <3>2. PICK i \in DOMAIN do[l] : p = Append(l, <<i, 0>>)
      BY <3>1
    <3>3. BuilderFails(do, Append(l, <<i, 0>>))
      BY <2>3, <3>2
    <3> QED BY <3>3
  <2>4. ASSUME NEW l \in DOMAIN do, NEW i \in DOMAIN do[l], BuilderFails(do, Append(l, <<i, 0>>))
        PROVE  \E p \in Places(do, DOMAIN do) : BuilderFails(do, p)
    <3>1. Append(l, <<i, 0>>) \in Places(do, DOMAIN do)
      BY <2>2
    <3> QED BY <2>4, <3>1
  <2> QED BY <2>1, <2>3, <2>4
<1> QED
  BY <1>3, <1>4 DEF LacksBuilder, LacksTry

LEMMA LacksTryIf ==
  ASSUME NEW do, IsTree(do)
  PROVE  LacksTry(do) <=> \E l \in DOMAIN do : l # <<>> /\ TaskAt(do, l).kind = "try" /\ do[l] = <<>>
<1>1. ASSUME NEW l \in DOMAIN do, NEW i \in DOMAIN do[l], NEW k \in {1, 2}, do[l][i].kind = "try",
             do[Append(l, <<i, k>>)] = <<>>
      PROVE  \E c \in DOMAIN do : c # <<>> /\ TaskAt(do, c).kind = "try" /\ do[c] = <<>>
  <2> DEFINE c == Append(l, <<i, k>>)
  <2>1. IsPlace(do, c, l, i, k)
    BY ListType, PlaceIs
  <2>2. c \in DOMAIN do
    <3>1. k \in ListsOf(do[l][i])
      BY <1>1 DEF ListsOf
    <3> QED BY <3>1 DEF IsTree
  <2> HIDE DEF c
  <2> QED BY <1>1, <2>1, <2>2 DEF IsPlace, c
<1>2. ASSUME NEW c \in DOMAIN do, c # <<>>, TaskAt(do, c).kind = "try", do[c] = <<>>
      PROVE  LacksTry(do)
  <2>1. PICK i \in DOMAIN do[Front(c)] : \E k \in ListsOf(do[Front(c)][i]) :
           Front(c) \in DOMAIN do /\ c = Append(Front(c), <<i, k>>) /\ TaskAt(do, c) = do[Front(c)][i]
    BY <1>2, ListIs
  <2>2. PICK k \in ListsOf(do[Front(c)][i]) :
           Front(c) \in DOMAIN do /\ c = Append(Front(c), <<i, k>>) /\ TaskAt(do, c) = do[Front(c)][i]
    BY <2>1
  <2>3. k \in {1, 2}
    BY <1>2, <2>2 DEF ListsOf
  <2> QED BY <1>2, <2>2, <2>3 DEF LacksTry
<1> QED
  BY <1>1, <1>2 DEF LacksTry

LEMMA SimilarFails ==
  ASSUME NEW do, IsTree(do), NEW new, Similar(do, new)
  PROVE  PostLoadFails(new) <=> PostLoadFails(do)
<1>1. IsTree(new) /\ DOMAIN new = DOMAIN do
  BY SimilarTree
<1>2. \A l \in DOMAIN do : DOMAIN new[l] = DOMAIN do[l] /\ (new[l] = <<>> <=> do[l] = <<>>)
  BY SimilarTree
<1>3. LacksBuilder(new) <=> LacksBuilder(do)
  BY <1>1, <1>2 DEF LacksBuilder, Similar
<1>4. \A l \in DOMAIN do : \A i \in DOMAIN do[l] : do[l][i].kind = "try" =>
         \A k \in {1, 2} : Append(l, <<i, k>>) \in DOMAIN do
  BY DEF IsTree, ListsOf
<1>5. LacksTry(new) <=> LacksTry(do)
  <2>1. \A l \in DOMAIN do : \A i \in DOMAIN do[l] : new[l][i].kind = "try" <=> do[l][i].kind = "try"
    BY DEF Similar
  <2>2. \A l \in DOMAIN do : \A i \in DOMAIN do[l] : do[l][i].kind = "try" =>
          \A k \in {1, 2} : new[Append(l, <<i, k>>)] = <<>> <=> do[Append(l, <<i, k>>)] = <<>>
    BY <1>2, <1>4
  <2> DEFINE Lacks(f, l, i) == f[l][i].kind = "try" /\ \E k \in {1, 2} : f[Append(l, <<i, k>>)] = <<>>
  <2>3. \A l \in DOMAIN do : \A i \in DOMAIN do[l] : Lacks(new, l, i) <=> Lacks(do, l, i)
    BY <2>1, <2>2
  <2>4. LacksTry(new) <=> \E l \in DOMAIN new : \E i \in DOMAIN new[l] : Lacks(new, l, i)
    BY DEF LacksTry
  <2>5. LacksTry(do) <=> \E l \in DOMAIN do : \E i \in DOMAIN do[l] : Lacks(do, l, i)
    BY DEF LacksTry
  <2> HIDE DEF Lacks
  <2> QED BY <1>1, <1>2, <2>3, <2>4, <2>5
<1> QED
  BY <1>1, <1>3, <1>5, PostLoadFailsIf

\* The document has a task that no builder validates.
HasInvalid(do) ==
  \E l \in DOMAIN do : \E i \in DOMAIN do[l] :
    do[l][i].flaw = "validate" \/ (do[l][i].kind = "script" /\ do[l][i].await = "no")
HasStructFlaw(do) ==
  \E l \in DOMAIN do : \E i \in DOMAIN do[l] :
    do[l][i].flaw = "struct" \/ (do[l][i].kind = "workflow" /\ {"type", "name"} \cap DOMAIN do[l][i].callee = {})

LEMMA LoadedTaskFails ==
  ASSUME NEW t, IsTask(t)
  PROVE  LET u == PostLoadTask(NormaliseTask(t))
         IN /\ ValidateFails(u) <=> t.flaw = "validate" \/ (t.kind = "script" /\ t.await = "no")
            /\ u.kind = "workflow" /\ "name" \notin DOMAIN u.callee <=>
                 t.kind = "workflow" /\ {"type", "name"} \cap DOMAIN t.callee = {}
            /\ ~(NormaliseTask(t).kind = "wait" /\ NormaliseTask(t).body # {})
<1> DEFINE n == NormaliseTask(t)
           u == PostLoadTask(n)
<1>1. /\ u.flaw = t.flaw /\ u.kind = n.kind /\ u.callee = n.callee
      /\ u.await = IF t.kind = "script" /\ t.await = "unset" THEN "yes" ELSE t.await
      /\ n.body = t.body
  BY TaskPostLoaded, TaskNormalised
<1>2. n.kind = (IF Claims(t) THEN "waitExt" ELSE t.kind) /\ n.callee = RenameKey(t.callee, "type", "name")
  BY TaskNormalised
<1>3. t.await \in {"unset", "yes", "no"}
  BY DEF IsTask
<1>4. "name" \in DOMAIN RenameKey(t.callee, "type", "name") <=> {"type", "name"} \cap DOMAIN t.callee # {}
  <2>1. CASE "type" \in DOMAIN t.callee
    BY <2>1 DEF RenameKey
  <2>2. CASE "type" \notin DOMAIN t.callee
    BY <2>2 DEF RenameKey
  <2> QED BY <2>1, <2>2
<1> HIDE DEF n, u
<1>5. ~(n.kind = "wait" /\ n.body # {})
  BY <1>1, <1>2 DEF Claims
<1>6. ValidateFails(u) <=> t.flaw = "validate" \/ (t.kind = "script" /\ t.await = "no")
  BY <1>1, <1>2, <1>3 DEF ValidateFails, Claims
<1>7. u.kind = "workflow" <=> t.kind = "workflow"
  BY <1>1, <1>2 DEF Claims
<1> QED
  BY <1>1, <1>2, <1>4, <1>5, <1>6, <1>7 DEF n, u

\* Each failure of the loader and of the builders, and of the SDK's rules, is
\* that of a task of the document as it was written.
LEMMA LoadedFails ==
  ASSUME NEW d, IsDocument(d)
  PROVE  /\ PostLoadFails(Wf(d).do) <=> PostLoadFails(d.do)
         /\ PostLoadFails(Loaded(d).do) <=> PostLoadFails(d.do)
         /\ Invalid(Loaded(d).do) <=> HasInvalid(d.do)
         /\ StructFails(Loaded(d).do) <=> HasStructFlaw(d.do)
         /\ ~UnmarshalFails(Wf(d).do)
<1> DEFINE do == d.do
           w == Wf(d).do
           h == Loaded(d).do
<1>1. IsTree(do) /\ Similar(do, w) /\ Similar(do, h)
  BY LoadedIsSimilar DEF IsDocument
<1>2. /\ IsTree(w) /\ DOMAIN w = DOMAIN do /\ \A l \in DOMAIN do : DOMAIN w[l] = DOMAIN do[l]
      /\ IsTree(h) /\ DOMAIN h = DOMAIN do /\ \A l \in DOMAIN do : DOMAIN h[l] = DOMAIN do[l]
  BY <1>1, SimilarTree
<1>3. /\ \A l \in DOMAIN do : \A i \in DOMAIN do[l] :
            w[l][i] = NormaliseTask(do[l][i]) /\ h[l][i] = PostLoadTask(NormaliseTask(do[l][i])) /\ IsTask(do[l][i])
  BY LoadedIs, TaskOfDocument
<1> HIDE DEF do, w, h
<1>4. (PostLoadFails(w) <=> PostLoadFails(do)) /\ (PostLoadFails(h) <=> PostLoadFails(do))
  BY <1>1, SimilarFails
<1>5. Invalid(h) <=> \E l \in DOMAIN do : \E i \in DOMAIN do[l] : ValidateFails(h[l][i])
  <2>1. Reached(h, BuilderLists) = DOMAIN h
    BY <1>2, WalksReachAll
  <2>2. Invalid(h) <=> \E t \in AllTasks(h) : ValidateFails(t)
    BY <2>1 DEF Invalid, AllTasks
  <2>3. AllTasks(h) = UNION {{h[l][i] : i \in DOMAIN h[l]} : l \in DOMAIN h}
    BY <1>2, TaskIsSomewhere
  <2> QED BY <1>2, <2>2, <2>3
<1>6. Invalid(h) <=> HasInvalid(do)
  <2>1. \A l \in DOMAIN do : \A i \in DOMAIN do[l] : ValidateFails(h[l][i]) <=>
           do[l][i].flaw = "validate" \/ (do[l][i].kind = "script" /\ do[l][i].await = "no")
    BY <1>3, LoadedTaskFails
  <2> QED BY <1>5, <2>1 DEF HasInvalid
<1>7. StructFails(h) <=> \E l \in DOMAIN do : \E i \in DOMAIN do[l] :
                            h[l][i].flaw = "struct" \/ (h[l][i].kind = "workflow" /\ "name" \notin DOMAIN h[l][i].callee)
  <2>1. AllTasks(h) = UNION {{h[l][i] : i \in DOMAIN h[l]} : l \in DOMAIN h}
    BY <1>2, TaskIsSomewhere
  <2> QED BY <1>2, <2>1 DEF StructFails
<1>8. StructFails(h) <=> HasStructFlaw(do)
  <2>1. \A l \in DOMAIN do : \A i \in DOMAIN do[l] :
           /\ h[l][i].kind = "workflow" /\ "name" \notin DOMAIN h[l][i].callee <=>
                do[l][i].kind = "workflow" /\ {"type", "name"} \cap DOMAIN do[l][i].callee = {}
           /\ h[l][i].flaw = do[l][i].flaw
    BY <1>1, <1>3, LoadedTaskFails DEF Similar
  <2> QED BY <1>7, <2>1 DEF HasStructFlaw
<1>9. ~UnmarshalFails(w)
  <2>1. AllTasks(w) = UNION {{w[l][i] : i \in DOMAIN w[l]} : l \in DOMAIN w}
    BY <1>2, TaskIsSomewhere
  <2>2. \A l \in DOMAIN do : \A i \in DOMAIN do[l] : ~(w[l][i].kind = "wait" /\ w[l][i].body # {})
    BY <1>3, LoadedTaskFails
  <2> QED BY <1>2, <2>1, <2>2 DEF UnmarshalFails
<1> QED
  BY <1>4, <1>6, <1>8, <1>9 DEF do, w, h

LEMMA LoadedExpressions ==
  ASSUME NEW d, IsDocument(d)
  PROVE  /\ SoundExpressions(Wf(d)) <=> SoundExpressions(d)
         /\ SoundExpressions(Loaded(d)) <=> SoundExpressions(d)
<1> DEFINE Good(t) == /\ \A e \in t.base : Compiles(e) /\ IsDeterministic(e)
                      /\ \A e \in BodyExpressions(t) : Compiles(e) /\ (t.kind = "set" \/ IsDeterministic(e))
<1>1. ASSUME NEW do, IsTree(do), NEW new, Similar(do, new)
      PROVE  (\A t \in AllTasks(new) : Good(t)) <=> (\A t \in AllTasks(do) : Good(t))
  <2>1. IsTree(new) /\ DOMAIN new = DOMAIN do /\ \A l \in DOMAIN do : DOMAIN new[l] = DOMAIN do[l]
    BY <1>1, SimilarTree
  <2>2. AllTasks(new) = UNION {{new[l][i] : i \in DOMAIN new[l]} : l \in DOMAIN new}
    BY <2>1, TaskIsSomewhere
  <2>3. AllTasks(do) = UNION {{do[l][i] : i \in DOMAIN do[l]} : l \in DOMAIN do}
    BY <1>1, TaskIsSomewhere
  <2>4. \A l \in DOMAIN do : \A i \in DOMAIN do[l] : Good(new[l][i]) <=> Good(do[l][i])
    BY <1>1 DEF Similar, BodyExpressions
  <2> HIDE DEF Good
  <2> QED BY <2>1, <2>2, <2>3, <2>4
<1>2. \A x : SoundExpressions(x) <=> /\ \A e \in x.exprs : Compiles(e) /\ IsDeterministic(e)
                                     /\ \A e \in x.scheduleInput : Compiles(e)
                                     /\ \A t \in AllTasks(x.do) : Good(t)
  BY DEF SoundExpressions
<1> HIDE DEF Good
<1>3. IsTree(d.do) /\ Similar(d.do, Wf(d).do) /\ Similar(d.do, Loaded(d).do)
  BY LoadedIsSimilar DEF IsDocument
<1>4. /\ Wf(d).exprs = d.exprs /\ Wf(d).scheduleInput = d.scheduleInput
      /\ Loaded(d).exprs = d.exprs /\ Loaded(d).scheduleInput = d.scheduleInput
  BY NormalisedIs, LoadedIs
<1> QED
  BY <1>1, <1>2, <1>3, <1>4

LEMMA PreparedIf ==
  ASSUME NEW d, IsDocument(d)
  PROVE  /\ Prepare(Wf(d)) = "none" <=> ~PostLoadFails(d.do) /\ ~HasInvalid(d.do) /\ SoundExpressions(d)
         /\ Prepare(Loaded(d)) = "none" <=> ~PostLoadFails(d.do) /\ ~HasInvalid(d.do) /\ SoundExpressions(d)
         /\ Prepare(Wf(d)) \in ExpressionErrors => ~SoundExpressions(d)
<1>1. /\ IsTree(Wf(d).do) /\ IsTree(Loaded(d).do)
      /\ PostLoad(Wf(d).do) = Loaded(d).do /\ PostLoad(Loaded(d).do) = Loaded(d).do
  <2>1. IsTree(d.do) /\ Similar(d.do, Wf(d).do) /\ Similar(d.do, Loaded(d).do)
    BY LoadedIsSimilar DEF IsDocument
  <2> QED BY <2>1, SimilarTree, LoadedIs
<1>2. ASSUME NEW x \in {Wf(d), Loaded(d)}
      PROVE  /\ Prepare(x) = "none" <=> ~PostLoadFails(d.do) /\ ~HasInvalid(d.do) /\ SoundExpressions(d)
             /\ Prepare(x) \in ExpressionErrors => ~SoundExpressions(d)
  <2>1. /\ PostLoadFails(x.do) <=> PostLoadFails(d.do)
        /\ Invalid(PostLoad(x.do)) <=> HasInvalid(d.do)
        /\ SoundExpressions(x) <=> SoundExpressions(d)
    BY <1>1, LoadedFails, LoadedExpressions
  <2>2. /\ ValidateWorkflowDeterminism(x) = "none" <=> SoundExpressions(x)
        /\ ValidateWorkflowDeterminism(x) \in {"none"} \cup ExpressionErrors
    BY <1>1, DeterminismIs
  <2>3. Prepare(x) = IF PostLoadFails(x.do) THEN "post-load"
                     ELSE IF Invalid(PostLoad(x.do)) THEN "task" ELSE ValidateWorkflowDeterminism(x)
    BY DEF Prepare
  <2> QED BY <2>1, <2>2, <2>3 DEF ExpressionErrors
<1> QED
  BY <1>2

LEMMA LoadErrorIs ==
  ASSUME NEW d, IsDocument(d)
  PROVE  /\ LoadFromBytes(d).error = IF ~d.yaml THEN "yaml" ELSE IF Prepare(Wf(d)) # "none" THEN Prepare(Wf(d))
                                     ELSE IF ~d.dsl THEN "dsl" ELSE "none"
         /\ d.yaml \in BOOLEAN /\ d.conforms \in BOOLEAN /\ d.dsl \in BOOLEAN
<1>1. ~UnmarshalFails(Wf(d).do)
  BY LoadedFails
<1>2. LoadFromBytes(d).error = IF ~d.yaml THEN "yaml" ELSE IF UnmarshalFails(Wf(d).do) THEN "model"
                               ELSE IF Prepare(Wf(d)) # "none" THEN Prepare(Wf(d))
                               ELSE IF ~d.dsl THEN "dsl" ELSE "none"
  BY DEF LoadFromBytes, Wf
<1> QED
  BY <1>1, <1>2 DEF IsDocument

\* What Sound says of tasks and lists.
LEMMA SoundIf ==
  ASSUME NEW d, IsDocument(d)
  PROVE  Sound(d) <=> /\ d.yaml /\ d.conforms /\ d.dsl /\ SoundExpressions(d)
                      /\ ~PostLoadFails(d.do) /\ ~HasInvalid(d.do)
                      /\ ~ \E l \in DOMAIN d.do : \E i \in DOMAIN d.do[l] : d.do[l][i].flaw = "struct"
<1> DEFINE do == d.do
<1>1. IsTree(do)
  BY DEF IsDocument
<1>2. AllTasks(do) = UNION {{do[l][i] : i \in DOMAIN do[l]} : l \in DOMAIN do}
  BY <1>1, TaskIsSomewhere
<1>3. \A l \in DOMAIN do : \A i \in DOMAIN do[l] :
        do[l][i].flaw \in {"none", "call", "validate", "struct"} /\ do[l][i].await \in {"unset", "yes", "no"}
  BY TaskOfDocument DEF IsTask
<1>4. PostLoadFails(do) <=> \/ LacksBuilder(do)
                            \/ \E l \in DOMAIN do : l # <<>> /\ TaskAt(do, l).kind = "try" /\ do[l] = <<>>
  BY <1>1, PostLoadFailsIf, LacksTryIf
<1> DEFINE Good(t) == t.flaw = "none" /\ (t.kind = "script" => t.await # "no")
<1>5. (\A t \in AllTasks(do) : Good(t)) <=>
        /\ ~LacksBuilder(do) /\ ~HasInvalid(do)
        /\ ~ \E l \in DOMAIN do : \E i \in DOMAIN do[l] : do[l][i].flaw = "struct"
  <2>1. (\A t \in AllTasks(do) : Good(t)) <=> \A l \in DOMAIN do : \A i \in DOMAIN do[l] : Good(do[l][i])
    <3> HIDE DEF Good, do
    <3> QED BY <1>2
  <2> HIDE DEF do
  <2> QED BY <1>3, <2>1 DEF LacksBuilder, HasInvalid
<1>6. Sound(d) <=> /\ d.yaml /\ d.conforms /\ d.dsl /\ SoundExpressions(d)
                   /\ \A t \in AllTasks(do) : Good(t)
                   /\ \A l \in DOMAIN do : (l # <<>> /\ TaskAt(do, l).kind = "try") => do[l] # <<>>
  BY DEF Sound
<1> HIDE DEF do, Good
<1> QED
  BY <1>4, <1>5, <1>6 DEF do

LEMMA ConformsHasTypes ==
  ASSUME NEW d, IsDocument(d), d.conforms
  PROVE  /\ WorkflowType(Loaded(d)) # <<>>
         /\ HasStructFlaw(d.do) => \E l \in DOMAIN d.do : \E i \in DOMAIN d.do[l] : d.do[l][i].flaw = "struct"
<1>1. /\ DOMAIN d.names = {"workflowType"} /\ d.names["workflowType"] # <<>>
      /\ \A t \in AllTasks(d.do) : t.kind = "workflow" => DOMAIN t.callee = {"type"}
  BY DEF IsDocument
<1>2. Loaded(d).names = RenameKey(d.names, "workflowType", "name")
  BY NormalisedIs, LoadedIs
<1>3. WorkflowType(Loaded(d)) = d.names["workflowType"]
  BY <1>1, <1>2 DEF WorkflowType, RenameKey
<1>4. \A l \in DOMAIN d.do : \A i \in DOMAIN d.do[l] : d.do[l][i] \in AllTasks(d.do)
  BY TaskIsSomewhere DEF IsDocument
<1> QED
  BY <1>1, <1>3, <1>4 DEF HasStructFlaw

\* What the reader's checks have to do with Sound.
LEMMA CheckedIsSound ==
  ASSUME NEW d, IsDocument(d), ValidateBytes(d) = "none", ~StructFails(Loaded(d).do)
  PROVE  Sound(d)
<1>1. d.yaml /\ d.conforms /\ LoadFromBytes(d).error = "none"
  BY DEF ValidateBytes
<1>2. Prepare(Wf(d)) = "none" /\ d.dsl
  BY <1>1, LoadErrorIs
<1>3. ~HasStructFlaw(d.do)
  BY LoadedFails
<1> QED
  BY <1>1, <1>2, <1>3, PreparedIf, SoundIf DEF HasStructFlaw

LEMMA SoundIsAccepted ==
  ASSUME NEW d, IsDocument(d), Sound(d)
  PROVE  /\ ValidateBytes(d) = "none" /\ LoadFromBytes(d).error = "none" /\ WorkflowType(Loaded(d)) # <<>>
         /\ ~StructFails(Loaded(d).do)
<1>1. /\ d.yaml /\ d.conforms /\ d.dsl /\ SoundExpressions(d)
      /\ ~PostLoadFails(d.do) /\ ~HasInvalid(d.do)
      /\ ~ \E l \in DOMAIN d.do : \E i \in DOMAIN d.do[l] : d.do[l][i].flaw = "struct"
  BY SoundIf
<1>2. Prepare(Wf(d)) = "none"
  BY <1>1, PreparedIf
<1>3. LoadFromBytes(d).error = "none"
  BY <1>1, <1>2, LoadErrorIs
<1>4. ValidateBytes(d) = "none"
  BY <1>1, <1>3 DEF ValidateBytes
<1>5. ~StructFails(Loaded(d).do) /\ WorkflowType(Loaded(d)) # <<>>
  BY <1>1, ConformsHasTypes, LoadedFails
<1> QED
  BY <1>3, <1>4, <1>5

\* What an error says of the document.
LEMMA ErrorIsMeant ==
  ASSUME NEW d, IsDocument(d), NEW error \in {ValidateBytes(d), LoadFromBytes(d).error}
  PROVE  /\ error # "none" => ~Sound(d)
         /\ ValidateBytesStage(error) = "schema" => ~d.conforms
         /\ ValidateBytesStage(error) = "expression" => ~SoundExpressions(d)
<1>1. error # "none" => ~Sound(d)
  BY SoundIsAccepted
<1>2. ValidateBytesStage(error) = "schema" => error = "schema"
  BY DEF ValidateBytesStage
<1>3. ValidateBytesStage(error) = "expression" => error \in ExpressionErrors
  BY DEF ValidateBytesStage, ExpressionErrors
<1>4. LoadFromBytes(d).error # "schema"
  BY ErrorsAre
<1>5. error = "schema" => ~d.conforms
  BY <1>4 DEF ValidateBytes
<1>6. LoadFromBytes(d).error \in ExpressionErrors => ~SoundExpressions(d)
  <2>1. LoadFromBytes(d).error \in ExpressionErrors => Prepare(Wf(d)) \in ExpressionErrors
    BY LoadErrorIs DEF ExpressionErrors
  <2> QED BY <2>1, PreparedIf
<1>7. error \in ExpressionErrors => LoadFromBytes(d).error \in ExpressionErrors
  BY DEF ValidateBytes, ExpressionErrors
<1> QED
  BY <1>1, <1>2, <1>3, <1>5, <1>6, <1>7

\* A document that was loaded can be prepared again.
LEMMA HeldIsPrepared ==
  ASSUME Holds
  PROVE  Prepare(held) = "none"
<1>1. PICK d \in Known : IsDocument(d) /\ held = Loaded(d) /\ LoadFromBytes(d).error = "none"
  BY HeldTask
<1>2. Prepare(Wf(d)) = "none"
  BY <1>1, LoadErrorIs
<1> QED
  BY <1>1, <1>2, PreparedIf

Blames(error) ==
  /\ ~Sound(file)
  /\ ValidateBytesStage(error) = "schema" => ~file.conforms
  /\ ValidateBytesStage(error) = "expression" => ~SoundExpressions(file)

\* What has been checked is known of the document that the reader holds.
VerdictInv ==
  /\ (stage \in {"load", "inspect", "build", "serve"} \/ verdict = "valid") /\ validate => ValidateBytes(bytes) = "none"
  /\ (stage \in {"build", "serve"} \/ verdict = "valid") /\ validate => ~StructFails(held.do)
  /\ (verdict \notin {"none", "valid", "built", "clash"} /\ file = bytes /\ validate) => Blames(verdict)

LEMMA VerdictInvNext ==
  ASSUME ReadInv, VerdictInv, [Next]_vars
  PROVE  VerdictInv'
<1>0. \A d \in Known : IsDocument(d)
  BY DocumentsAssumption DEF Known
<1>1. CASE Check
  <2>1. ValidateBytes(file) # "none" => ValidateBytes(file) \in Errors
    BY ErrorsAre
  <2>2. IsDocument(file)
    BY <1>0 DEF ReadInv
  <2>3. file' = file /\ bytes' = file /\ validate' = validate
    BY <1>1 DEF Check
  <2>4. CASE validate /\ ValidateBytes(file) # "none"
    <3>1. verdict' = ValidateBytes(file) /\ stage' = "done"
      BY <1>1, <2>4 DEF Check, Reject
    <3>3. verdict' # "valid"
      BY <2>1, <2>4, <3>1 DEF Errors, ExpressionErrors
    <3>4. Blames(verdict)'
      BY <2>2, <2>3, <2>4, <3>1, ErrorIsMeant DEF Blames
    <3> QED BY <3>1, <3>3, <3>4 DEF VerdictInv
  <2>5. CASE ~(validate /\ ValidateBytes(file) # "none")
    <3>1. verdict' = "none" /\ stage' = "load"
      BY <1>1, <2>5 DEF Check, ReadInv
    <3> QED BY <2>3, <2>5, <3>1 DEF VerdictInv
  <2> QED BY <2>4, <2>5
<1>2. CASE Load
  <2> DEFINE d == IF reader = "mcp" THEN bytes ELSE file
             loaded == LoadFromBytes(d)
             error == IF loaded.error = "none" /\ reader = "run" /\ WorkflowType(loaded.workflow) = <<>>
                      THEN "no workflow type" ELSE loaded.error
  <2>1. /\ d \in Known /\ (file = bytes => d = file) /\ file' = file /\ bytes' = bytes /\ validate' = validate
        /\ verdict = "none" /\ stage = "load"
    BY <1>2 DEF Load, ReadInv
  <2>2. IsDocument(d)
    BY <1>0, <2>1
  <2>3. error \in Errors \cup {"none", "no workflow type"}
    BY ErrorsAre
  <2>4. CASE error # "none"
    <3>1. verdict' = error /\ stage' = "done"
      BY <1>2, <2>4 DEF Load, Reject
    <3>2. verdict' # "valid"
      BY <2>3, <3>1 DEF Errors, ExpressionErrors
    <3>3. ASSUME file = bytes
          PROVE  Blames(error)
      <4>1. CASE loaded.error = "none"
        <5>1. error = "no workflow type" /\ WorkflowType(Loaded(d)) = <<>>
          BY <2>4, <4>1 DEF Loaded
        <5>2. ~Sound(d)
          <6> HIDE DEF d
          <6>1. ASSUME Sound(d)
                PROVE  WorkflowType(Loaded(d)) # <<>>
            BY <2>2, <6>1, SoundIsAccepted
          <6> QED BY <5>1, <6>1
        <5>3. ValidateBytesStage(error) = "parse"
          BY <5>1 DEF ValidateBytesStage
        <5> QED BY <2>1, <3>3, <5>2, <5>3 DEF Blames
      <4>2. CASE loaded.error # "none"
        <5>1. error = LoadFromBytes(d).error
          BY <4>2
        <5> QED BY <2>1, <2>2, <2>4, <3>3, <5>1, ErrorIsMeant DEF Blames
      <4> QED BY <4>1, <4>2
    <3>4. (file = bytes)' => Blames(verdict)'
      BY <2>1, <3>1, <3>3 DEF Blames
    <3> QED BY <3>1, <3>2, <3>4 DEF VerdictInv
  <2>5. CASE error = "none"
    <3>1. stage' = "inspect" /\ verdict' = verdict
      BY <1>2, <2>5 DEF Load
    <3> QED BY <2>1, <3>1 DEF VerdictInv
  <2> QED BY <2>4, <2>5
<1>3. CASE Inspect
  <2>1. Holds /\ UNCHANGED <<file, bytes, held, validate>> /\ stage = "inspect" /\ verdict = "none"
    BY <1>3 DEF Inspect, ReadInv
  <2>2. CASE validate /\ StructFails(held.do)
    <3>1. verdict' = "struct" /\ stage' = "done"
      BY <1>3, <2>2 DEF Inspect, Reject
    <3>2. ASSUME file = bytes
          PROVE  ~Sound(file)
      <4>1. file \in Known /\ held = Loaded(file)
        BY <2>1, <3>2 DEF Holds
      <4> QED BY <1>0, <2>2, <4>1, SoundIsAccepted
    <3>3. ValidateBytesStage(verdict') = "parse"
      BY <3>1 DEF ValidateBytesStage
    <3> QED BY <2>1, <3>1, <3>2, <3>3 DEF VerdictInv, Blames
  <2>3. CASE ~(validate /\ StructFails(held.do))
    <3>1. (stage' = "build" /\ verdict' = "none") \/ (stage' = "done" /\ verdict' = "valid")
      BY <1>3, <2>1, <2>3 DEF Inspect
    <3> QED BY <2>1, <2>3, <3>1 DEF VerdictInv
  <2> QED BY <2>2, <2>3
<1>4. CASE BuildWorker
  <2>1. Holds /\ UNCHANGED <<file, bytes, held, validate>> /\ stage = "build" /\ verdict = "none"
    BY <1>4 DEF BuildWorker, ReadInv
  <2>2. NewWorkflow(held).error \in {"none", "clash"}
    BY <2>1, HeldIsPrepared DEF NewWorkflow
  <2>3. (verdict' = "clash" /\ stage' = "done") \/ (verdict' = "built" /\ stage' = "serve")
    BY <1>4, <2>2 DEF BuildWorker, Reject
  <2> QED BY <2>1, <2>3 DEF VerdictInv
<1>5. CASE Edit
  <2>1. stage = "load" /\ UNCHANGED <<stage, bytes, held, verdict, validate>>
    BY <1>5 DEF Edit
  <2>2. verdict = "none"
    BY <2>1 DEF ReadInv
  <2> QED BY <2>1, <2>2 DEF VerdictInv
<1>6. CASE UNCHANGED reading
  BY <1>6 DEF reading, VerdictInv, Blames
<1> QED
  BY <1>1, <1>2, <1>3, <1>4, <1>5, <1>6 DEF Next, Choose, Evaluate, Tick, Attempt, vars

LEMMA VerdictInvIsEnough ==
  ASSUME ReadInv, VerdictInv
  PROVE  VerdictIsMeant
<1> SUFFICES ASSUME file = bytes, validate
             PROVE  /\ verdict = "valid" => Sound(file)
                    /\ verdict = "built" => Sound(file)
                    /\ verdict \notin {"none", "valid", "built", "clash"} => ~Sound(file)
                    /\ ValidateBytesStage(verdict) = "schema" => ~file.conforms
                    /\ ValidateBytesStage(verdict) = "expression" => ~SoundExpressions(file)
  BY DEF VerdictIsMeant
<1>1. ASSUME verdict \in {"valid", "built"}
      PROVE  Sound(file)
  <2>1. Holds
    BY <1>1 DEF ReadInv
  <2>2. file \in Known /\ held = Loaded(file)
    BY <2>1 DEF Holds
  <2>3. ValidateBytes(file) = "none" /\ ~StructFails(held.do)
    BY <1>1 DEF VerdictInv, ReadInv
  <2> QED BY <2>2, <2>3, CheckedIsSound, DocumentsAssumption DEF Known
<1>2. verdict \in {"none", "valid", "built", "clash"} => ValidateBytesStage(verdict) = "parse"
  BY DEF ValidateBytesStage
<1>3. verdict \notin {"none", "valid", "built", "clash"} => Blames(verdict)
  BY DEF VerdictInv
<1> QED
  BY <1>1, <1>2, <1>3 DEF Blames

\* However its lists are nested, an unedited document is accepted if and only
\* if it is sound, and a rejection names a stage that is at fault: all walks
\* over a document come to all its lists, and what normalisation and the hooks
\* change is changed alike for the check and the build (loader.go:225,
\* task_builder_try.go:70, expression_determinism.go:276).
THEOREM VerdictsAreMeant == Spec => []VerdictIsMeant
<1>1. Init => VerdictInv
  BY DEF Init, VerdictInv
<1>2. ReadInv /\ VerdictInv /\ [Next]_vars => VerdictInv'
  BY VerdictInvNext
<1>3. ReadInv /\ VerdictInv => VerdictIsMeant
  BY VerdictInvIsEnough
<1> QED
  BY <1>1, <1>2, <1>3, ReadInvHolds, PTL DEF Spec

-----------------------------------------------------------------------------
(* Paths of activities *)

\* The concatenation of the first k sequences of s goes on, after those before
\* the m-th, with the m-th.
SplitsAt(S, s, m, k) ==
  \E r \in Seq(S) :
    /\ FlattenSeq(SubSeq(s, 1, k)) = (FlattenSeq(SubSeq(s, 1, m - 1)) \o s[m]) \o r
    /\ Len(r) >= k - m
    /\ k = m => Len(r) = 0

LEMMA FlattenUpTo ==
  ASSUME NEW S, NEW s \in Seq(Seq(S)), NEW k \in 1 .. Len(s)
  PROVE  /\ FlattenSeq(SubSeq(s, 1, k)) = FlattenSeq(SubSeq(s, 1, k - 1)) \o s[k]
         /\ FlattenSeq(SubSeq(s, 1, k)) \in Seq(S) /\ FlattenSeq(SubSeq(s, 1, k - 1)) \in Seq(S) /\ s[k] \in Seq(S)
<1> DEFINE T == Seq(S)
           a == SubSeq(s, 1, k - 1)
           b == SubSeq(s, 1, k)
<1>1. s[k] \in T /\ s \in Seq(T)
  BY ElementOfSeq
<1> HIDE DEF T
<1>2. a \in Seq(T) /\ b \in Seq(T)
  <2>1. k \in Int /\ k - 1 \in Int /\ \A i \in 1 .. k : s[i] \in T
    BY <1>1
  <2>2. \A i \in 1 .. k - 1 : s[i] \in T
    BY <2>1
  <2> QED BY <2>1, <2>2, SubSeqProperties
<1>3. b = Append(a, s[k])
  <2>1. b = a \o <<s[k]>>
    BY <1>1, SubSeqRecursiveSecond
  <2> HIDE DEF a, b
  <2> QED BY <1>1, <1>2, <2>1, AppendIsConcat
<1> HIDE DEF a, b
<1>4. FlattenSeq(b) = FlattenSeq(a) \o s[k]
  BY <1>1, <1>2, <1>3, FlattenAppend DEF T
<1>5. FlattenSeq(a) \in Seq(S) /\ FlattenSeq(b) \in Seq(S)
  BY <1>2, FlattenType DEF T
<1> QED
  BY <1>1, <1>4, <1>5 DEF a, b, T

LEMMA FlattenSplits ==
  ASSUME NEW S, NEW s \in Seq(Seq(S)), \A n \in DOMAIN s : Len(s[n]) >= 1,
         NEW m \in 1 .. Len(s), NEW k \in m .. Len(s)
  PROVE  SplitsAt(S, s, m, k)
<1> DEFINE Bad == {n \in Nat : n \in m .. Len(s) /\ ~SplitsAt(S, s, m, n)}
<1>1. SUFFICES ASSUME Bad # {}
               PROVE  FALSE
  <2>1. k \in Nat
    OBVIOUS
  <2> QED BY <2>1
<1>2. PICK n \in Bad : \A i \in Bad : n =< i
  <2>1. Bad \in SUBSET Nat
    OBVIOUS
  <2> HIDE DEF Bad
  <2> QED BY <1>1, <2>1, LeastNumber
<1>3. n \in m .. Len(s) /\ n \in 1 .. Len(s) /\ ~SplitsAt(S, s, m, n) /\ n \in Nat /\ m \in Nat
  BY <1>2
<1> DEFINE A == FlattenSeq(SubSeq(s, 1, m - 1))
           F(i) == FlattenSeq(SubSeq(s, 1, i))
<1>4. /\ A \in Seq(S) /\ s[m] \in Seq(S) /\ F(m) = A \o s[m]
      /\ F(n) = F(n - 1) \o s[n] /\ F(n) \in Seq(S) /\ F(n - 1) \in Seq(S) /\ s[n] \in Seq(S)
  BY <1>3, FlattenUpTo
<1> DEFINE X == A \o s[m]
<1>5. X \in Seq(S)
  BY <1>4, ConcatProperties
<1>6. CASE n = m
  <2>1. F(n) = X \o <<>>
    <3>1. F(n) = X
      BY <1>4, <1>6
    <3> HIDE DEF X, F
    <3> QED BY <1>5, <3>1, ConcatEmptySeq
  <2>2. <<>> \in Seq(S) /\ Len(<<>>) >= n - m /\ Len(<<>>) = 0
    BY <1>3, <1>6
  <2>3. SplitsAt(S, s, m, n)
    BY <2>1, <2>2 DEF SplitsAt
  <2> QED BY <1>3, <2>3
<1>7. CASE n # m
  <2>1. n - 1 \in m .. Len(s) /\ n - 1 \in Nat
    BY <1>3, <1>7
  <2>2. SplitsAt(S, s, m, n - 1)
    <3>1. n - 1 \notin Bad
      BY <1>2, <1>3, <2>1
    <3> QED BY <2>1, <3>1
  <2>3. PICK r \in Seq(S) : F(n - 1) = X \o r /\ Len(r) >= (n - 1) - m
    BY <2>2 DEF SplitsAt
  <2> DEFINE q == r \o s[n]
  <2>4. q \in Seq(S) /\ Len(q) = Len(r) + Len(s[n])
    BY <1>4, ConcatProperties
  <2>5. F(n) = X \o q
    <3>1. F(n) = (X \o r) \o s[n]
      BY <1>4, <2>3
    <3> DEFINE y == s[n]
    <3>2. X \in Seq(S) /\ r \in Seq(S) /\ y \in Seq(S)
      BY <1>4, <1>5, <2>3
    <3> HIDE DEF X, F, y, Bad
    <3>3. (X \o r) \o y = X \o (r \o y)
      BY <3>2, ConcatAssociative
    <3> QED BY <3>1, <3>3 DEF y
  <2>6. Len(s[n]) >= 1 /\ Len(s[n]) \in Nat /\ Len(r) \in Nat
    BY <1>3, <1>4
  <2>7. Len(q) >= n - m
    BY <1>3, <2>3, <2>4, <2>6
  <2> HIDE DEF q
  <2>8. SplitsAt(S, s, m, n)
    BY <1>7, <2>4, <2>5, <2>7 DEF SplitsAt
  <2> QED BY <1>3, <2>8
<1> QED
  BY <1>6, <1>7

Associates(S) == \A a, b, c \in Seq(S) : (a \o b) \o c = a \o (b \o c)

LEMMA ConcatAgain ==
  ASSUME NEW S
  PROVE  Associates(S)
<1> SUFFICES ASSUME NEW a \in Seq(S), NEW b \in Seq(S), NEW c \in Seq(S)
             PROVE  (a \o b) \o c = a \o (b \o c)
  BY DEF Associates
<1> QED
  BY ConcatAssociative

SameRests(S) ==
  \A a, x, y, r, q \in Seq(S) : (a \o x) \o r = (a \o y) \o q => x \o r = y \o q

LEMMA SameRest ==
  ASSUME NEW S
  PROVE  SameRests(S)
<1> SUFFICES ASSUME NEW a \in Seq(S), NEW x \in Seq(S), NEW y \in Seq(S), NEW r \in Seq(S), NEW q \in Seq(S),
                    (a \o x) \o r = (a \o y) \o q
             PROVE  x \o r = y \o q
  BY Zenon DEF SameRests
<1>1. Associates(S)
  BY ConcatAgain
<1>2. (a \o x) \o r = a \o (x \o r)
  BY <1>1, Zenon DEF Associates
<1>3. (a \o y) \o q = a \o (y \o q)
  BY <1>1, Zenon DEF Associates
<1>4. x \o r \in Seq(S) /\ y \o q \in Seq(S)
  BY ConcatProperties
<1>5. \A b, c, d \in Seq(S) : b \o c = b \o d => c = d
  BY ConcatSimplifications
<1>6. a \o (x \o r) = a \o (y \o q)
  BY <1>2, <1>3, Zenon
<1> QED
  BY <1>4, <1>5, <1>6, Zenon

\* What Segments gives for a task.
Marks == {"try", "catch"}
Letters == Char \cup Marks
Keys == Seq(Letters)

AreSegments(t, k, x) ==
  /\ x \in Seq(Keys) /\ x[1] = t.key /\ Len(x) \in {1, 2}
  /\ t.kind = "try" /\ k = 1 => Len(x) = 2 /\ x[2] = <<"try">>
  /\ t.kind = "try" /\ k = 2 => Len(x) = 2 /\ x[2] = <<"catch">>
  /\ k = 0 => Len(x) = 1

LEMMA SegmentsAre ==
  ASSUME NEW t, t.key \in Seq(Char), NEW k
  PROVE  AreSegments(t, k, Segments(t, k))
<1>1. t.key \in Keys /\ <<"try">> \in Keys /\ <<"catch">> \in Keys
  BY DEF Keys, Letters, Marks
<1> DEFINE K == Keys
<1> HIDE DEF K
<1>2. \A a \in K : /\ <<a>> \in Seq(K) /\ Len(<<a>>) = 1 /\ <<a>>[1] = a
                   /\ \A b \in K : <<a, b>> \in Seq(K) /\ Len(<<a, b>>) = 2 /\ <<a, b>>[1] = a /\ <<a, b>>[2] = b
  OBVIOUS
<1>3. CASE t.kind = "try" /\ k = 1
  BY <1>1, <1>2, <1>3 DEF Segments, AreSegments, K
<1>4. CASE t.kind = "try" /\ k = 2
  BY <1>1, <1>2, <1>4 DEF Segments, AreSegments, K
<1>5. CASE ~(t.kind = "try" /\ k \in {1, 2})
  BY <1>1, <1>2, <1>5 DEF Segments, AreSegments, K
<1> QED
  BY <1>3, <1>4, <1>5

\* The place of a task: the steps to the list that holds it, and one to itself.
IsTaskPlace(do, p) ==
  /\ p \in Seq((Nat \ {0}) \X {0, 1, 2}) /\ Len(p) # 0
  /\ \A m \in 1 .. Len(p) :
       /\ SubSeq(p, 1, m - 1) \in DOMAIN do /\ p[m][1] \in DOMAIN do[SubSeq(p, 1, m - 1)]
       /\ m = Len(p) => p[m][2] = 0
       /\ m # Len(p) => p[m][2] \in ListsOf(Through(do, p, m))

LEMMA PlaceIsTaskPlace ==
  ASSUME NEW do, IsTree(do), NEW p \in Places(do, DOMAIN do)
  PROVE  IsTaskPlace(do, p)
<1>1. PICK l \in DOMAIN do : \E i \in DOMAIN do[l] : p = Append(l, <<i, 0>>)
  BY DEF Places
<1>2. PICK i \in DOMAIN do[l] : p = Append(l, <<i, 0>>)
  BY <1>1
<1> DEFINE S == (Nat \ {0}) \X {0, 1, 2}
           n == Len(l)
<1>3. l \in Seq((Nat \ {0}) \X {1, 2}) /\ i \in Nat \ {0} /\ n \in Nat
  BY ListType
<1>4. l \in Seq(S) /\ <<i, 0>> \in S
  BY <1>3
<1> HIDE DEF S
<1>5. /\ p \in Seq(S) /\ Len(p) = n + 1
      /\ \A m \in 1 .. n : p[m] = l[m]
      /\ p[n + 1] = <<i, 0>>
  BY <1>2, <1>4, AppendProperties
<1>6. \A m \in 1 .. n + 1 : SubSeq(p, 1, m - 1) = SubSeq(l, 1, m - 1)
  <2> TAKE m \in 1 .. n + 1
  <2> DEFINE a == SubSeq(p, 1, m - 1)
             b == SubSeq(l, 1, m - 1)
  <2>1. m - 1 \in Int /\ \A j \in 1 .. m - 1 : p[j] \in S /\ l[j] \in S /\ p[j] = l[j]
    BY <1>3, <1>4, <1>5
  <2>2. a \in Seq(S) /\ b \in Seq(S) /\ Len(a) = Len(b)
    BY <2>1, SubSeqProperties
  <2>3. \A j \in 1 .. Len(a) : a[j] = b[j]
    <3>1. Len(a) = IF 1 <= m - 1 THEN (m - 1) - 1 + 1 ELSE 0
      BY <2>1, SubSeqProperties
    <3>2. \A j \in 1 .. (m - 1) - 1 + 1 : a[j] = p[1 + j - 1] /\ b[j] = l[1 + j - 1]
      BY <2>1, SubSeqProperties
    <3>3. \A j \in 1 .. Len(a) : j \in 1 .. (m - 1) - 1 + 1 /\ 1 + j - 1 = j /\ j \in 1 .. m - 1
      BY <2>1, <3>1
    <3> QED BY <2>1, <3>2, <3>3
  <2> HIDE DEF a, b
  <2> QED BY <2>2, <2>3, SeqEqual DEF a, b
<1>7. ASSUME NEW m \in 1 .. n + 1
      PROVE  /\ SubSeq(p, 1, m - 1) \in DOMAIN do /\ p[m][1] \in DOMAIN do[SubSeq(p, 1, m - 1)]
             /\ m = n + 1 => p[m][2] = 0
             /\ m # n + 1 => p[m][2] \in ListsOf(Through(do, p, m))
  <2>1. CASE m = n + 1
    <3>1. SubSeq(l, 1, m - 1) = l
      BY <1>3, <2>1, SubSeqFull
    <3>2. p[m][1] = i /\ p[m][2] = 0
      BY <1>5, <2>1
    <3> QED BY <1>2, <1>6, <2>1, <3>1, <3>2
  <2>2. CASE m # n + 1
    <3>1. m \in DOMAIN l /\ p[m] = l[m] /\ SubSeq(p, 1, m - 1) = SubSeq(l, 1, m - 1)
      BY <1>3, <1>5, <1>6, <2>2
    <3>2. /\ SubSeq(l, 1, m - 1) \in DOMAIN do /\ l[m][1] \in DOMAIN do[SubSeq(l, 1, m - 1)]
          /\ l[m][2] \in ListsOf(Through(do, l, m))
      BY <3>1 DEF IsTree
    <3> QED BY <2>2, <3>1, <3>2 DEF Through
  <2> QED BY <2>1, <2>2
<1> QED
  BY <1>3, <1>5, <1>7 DEF IsTaskPlace, S

Segs(do, p) == [m \in DOMAIN p |-> Segments(Through(do, p, m), p[m][2])]
HaveKeys(do) == \A l \in DOMAIN do : \A i \in DOMAIN do[l] : do[l][i].key \in Seq(Char)
OwnKeys(do) == \A l \in DOMAIN do : \A i, j \in DOMAIN do[l] : do[l][i].key = do[l][j].key => i = j

AreSegs(do, p, s) ==
  /\ s \in Seq(Seq(Keys)) /\ Len(s) = Len(p) /\ Len(p) \in Nat /\ FlattenSeq(s) = Path(do, p)
  /\ \A m \in 1 .. Len(p) : s[m] = Segments(Through(do, p, m), p[m][2]) /\ Len(s[m]) >= 1

LEMMA SegsAre ==
  ASSUME NEW do, HaveKeys(do), NEW p, IsTaskPlace(do, p)
  PROVE  AreSegs(do, p, Segs(do, p))
<1> DEFINE n == Len(p)
           s == Segs(do, p)
<1>1. n \in Nat /\ DOMAIN p = 1 .. n
  BY DEF IsTaskPlace
<1>2. \A m \in 1 .. n : Through(do, p, m).key \in Seq(Char)
  BY DEF IsTaskPlace, HaveKeys, Through
<1>3. \A m \in 1 .. n : s[m] = Segments(Through(do, p, m), p[m][2])
  BY <1>1 DEF Segs
<1>4. \A m \in 1 .. n : s[m] \in Seq(Keys) /\ Len(s[m]) >= 1
  <2> TAKE m \in 1 .. n
  <2>1. Through(do, p, m).key \in Seq(Char)
    BY <1>2
  <2>2. Segments(Through(do, p, m), p[m][2]) \in Seq(Keys)
    BY <2>1, SegmentsAre DEF AreSegments
  <2>3. Len(Segments(Through(do, p, m), p[m][2])) \in {1, 2}
    BY <2>1, SegmentsAre DEF AreSegments
  <2>4. Len(Segments(Through(do, p, m), p[m][2])) >= 1
    <3>1. \A g \in {1, 2} : g >= 1
      OBVIOUS
    <3> QED BY <2>3, <3>1, Zenon
  <2> QED BY <1>3, <2>2, <2>4
<1>5. s = [m \in 1 .. n |-> s[m]]
  BY <1>1 DEF Segs
<1> DEFINE K == Seq(Keys)
<1>6. s \in Seq(K) /\ Len(s) = n
  <2> HIDE DEF s, K
  <2>1. \A m \in 1 .. n : s[m] \in K
    BY <1>4 DEF K
  <2> QED BY <1>1, <1>5, <2>1
<1>7. FlattenSeq(s) = Path(do, p)
  BY DEF Segs, Path
<1> QED
  BY <1>1, <1>3, <1>4, <1>6, <1>7 DEF AreSegs

LEMMA StepIsSame ==
  ASSUME NEW do, HaveKeys(do), OwnKeys(do), NEW p, IsTaskPlace(do, p), NEW q, IsTaskPlace(do, q),
         Path(do, p) = Path(do, q), NEW k \in 1 .. Len(p), k \in 1 .. Len(q),
         SubSeq(p, 1, k - 1) = SubSeq(q, 1, k - 1)
  PROVE  p[k] = q[k]
<1> DEFINE s == Segs(do, p)
           z == Segs(do, q)
           l == SubSeq(p, 1, k - 1)
           t == do[l][p[k][1]]
           u == do[l][q[k][1]]
           x == Segments(t, p[k][2])
           y == Segments(u, q[k][2])
           A == FlattenSeq(SubSeq(s, 1, k - 1))
           n == Len(p)
           o == Len(q)
<1>1. /\ s \in Seq(Seq(Keys)) /\ Len(s) = n /\ n \in Nat /\ FlattenSeq(s) = Path(do, p)
      /\ \A m \in 1 .. n : s[m] = Segments(Through(do, p, m), p[m][2]) /\ Len(s[m]) >= 1
  <2>1. AreSegs(do, p, s)
    BY SegsAre
  <2> HIDE DEF s
  <2> QED BY <2>1 DEF AreSegs
<1>2. /\ z \in Seq(Seq(Keys)) /\ Len(z) = o /\ o \in Nat /\ FlattenSeq(z) = Path(do, q)
      /\ \A m \in 1 .. o : z[m] = Segments(Through(do, q, m), q[m][2]) /\ Len(z[m]) >= 1
  <2>1. AreSegs(do, q, z)
    BY SegsAre
  <2> HIDE DEF z
  <2> QED BY <2>1 DEF AreSegs
<1>3. k \in 1 .. n /\ k \in 1 .. o /\ k \in Nat
  BY <1>1
<1>4. s[k] = x /\ z[k] = y
  BY <1>1, <1>2, <1>3 DEF Through
<1>5. /\ l \in DOMAIN do /\ p[k][1] \in DOMAIN do[l] /\ q[k][1] \in DOMAIN do[l]
      /\ k = n => p[k][2] = 0
      /\ k # n => p[k][2] \in ListsOf(t)
      /\ k = o => q[k][2] = 0
      /\ k # o => q[k][2] \in ListsOf(u)
  BY <1>3 DEF IsTaskPlace, Through
<1>12. p[k] = <<p[k][1], p[k][2]>> /\ q[k] = <<q[k][1], q[k][2]>>
  <2>1. p[k] \in (Nat \ {0}) \X {0, 1, 2} /\ q[k] \in (Nat \ {0}) \X {0, 1, 2}
    <3>1. p \in Seq((Nat \ {0}) \X {0, 1, 2}) /\ q \in Seq((Nat \ {0}) \X {0, 1, 2})
      BY DEF IsTaskPlace
    <3> QED BY <1>3, <3>1, ElementOfSeq
  <2> QED BY <2>1
<1>6. t.key \in Seq(Char) /\ u.key \in Seq(Char)
  BY <1>5 DEF HaveKeys
<1>7. A = FlattenSeq(SubSeq(z, 1, k - 1))
  <2> DEFINE a == SubSeq(s, 1, k - 1)
             b == SubSeq(z, 1, k - 1)
  <2>1. k - 1 \in Int /\ \A j \in 1 .. k - 1 : j \in 1 .. n /\ j \in 1 .. o /\ s[j] \in Seq(Keys) /\ z[j] \in Seq(Keys)
    <3>1. k - 1 \in Int /\ \A j \in 1 .. k - 1 : j \in 1 .. n /\ j \in 1 .. o
      BY <1>3
    <3> HIDE DEF s, z
    <3> QED BY <1>1, <1>2, <3>1
  <2>2. /\ a \in Seq(Seq(Keys)) /\ b \in Seq(Seq(Keys))
        /\ Len(a) = IF 1 <= k - 1 THEN k - 1 - 1 + 1 ELSE 0
        /\ Len(b) = IF 1 <= k - 1 THEN k - 1 - 1 + 1 ELSE 0
        /\ \A j \in 1 .. k - 1 - 1 + 1 : a[j] = s[1 + j - 1] /\ b[j] = z[1 + j - 1]
    <3> HIDE DEF s, z
    <3> QED BY <2>1, SubSeqProperties
  <2>3. \A j \in 1 .. k - 1 : s[j] = z[j]
    <3> TAKE j \in 1 .. k - 1
    <3>1. /\ l[j] = p[j] /\ SubSeq(l, 1, j - 1) = SubSeq(p, 1, j - 1)
          /\ l[j] = q[j] /\ SubSeq(l, 1, j - 1) = SubSeq(q, 1, j - 1)
      <4> DEFINE S == (Nat \ {0}) \X {0, 1, 2}
      <4>1. p \in Seq(S) /\ q \in Seq(S) /\ k - 1 \in 1 .. Len(p) /\ k - 1 \in 1 .. Len(q) /\ j \in 1 .. k - 1
        BY <1>3 DEF IsTaskPlace
      <4> HIDE DEF S
      <4>2. \A r \in Seq(S) : k - 1 \in 1 .. Len(r) =>
              SubSeq(r, 1, k - 1)[j] = r[j] /\ SubSeq(SubSeq(r, 1, k - 1), 1, j - 1) = SubSeq(r, 1, j - 1)
        <5> TAKE r \in Seq(S)
        <5> HAVE k - 1 \in 1 .. Len(r)
        <5>1. SubSeq(r, 1, k - 1)[j] = r[j]
          BY <4>1
        <5>2. CASE j = 1
          BY <5>1, <5>2, SubSeqEmpty
        <5>3. CASE j # 1
          <6>1. j - 1 \in 1 .. k - 1 - 1 + 1 /\ 1 \in 1 .. k - 1 - 1 + 1 /\ 1 \in 1 .. Len(r)
            BY <4>1, <5>3
          <6>2. SubSeq(SubSeq(r, 1, k - 1), 1, j - 1) = SubSeq(r, 1 + 1 - 1, 1 + (j - 1) - 1)
            BY <6>1, SubSeqOfSubSeq
          <6>3. 1 + 1 - 1 = 1 /\ 1 + (j - 1) - 1 = j - 1
            BY <4>1
          <6> QED BY <5>1, <6>2, <6>3
        <5> QED BY <5>2, <5>3
      <4> QED BY <4>1, <4>2
    <3>2. p[j] = q[j] /\ Through(do, p, j) = Through(do, q, j)
      BY <3>1 DEF Through
    <3>3. j \in 1 .. n /\ j \in 1 .. o
      BY <2>1
    <3> HIDE DEF s, z
    <3> QED BY <1>1, <1>2, <3>2, <3>3
  <2>4. a = b
    <3>1. \A j \in 1 .. k - 1 : 1 + j - 1 = j /\ j \in 1 .. k - 1 - 1 + 1
      BY <1>3
    <3>2. Len(a) = Len(b) /\ \A j \in 1 .. Len(a) : j \in 1 .. k - 1
      BY <1>3, <2>2
    <3> HIDE DEF a, b, s, z
    <3>3. \A j \in 1 .. Len(a) : a[j] = b[j]
      BY <2>2, <2>3, <3>1, <3>2
    <3> QED BY <2>2, <3>2, <3>3, SeqEqual
  <2> QED BY <2>4
<1>8. PICK r \in Seq(Keys) : Path(do, p) = (A \o x) \o r /\ Len(r) >= n - k /\ (k = n => Len(r) = 0)
  <2> HIDE DEF s, A, x
  <2>1. n \in k .. Len(s) /\ k \in 1 .. Len(s) /\ \A m \in DOMAIN s : Len(s[m]) >= 1
    BY <1>1, <1>3
  <2>2. SplitsAt(Keys, s, k, n)
    BY <1>1, <2>1, FlattenSplits
  <2>3. SubSeq(s, 1, n) = s
    BY <1>1, SubSeqFull
  <2>4. n = k => k = n
    OBVIOUS
  <2> QED BY <1>1, <1>4, <2>2, <2>3, <2>4 DEF SplitsAt, A
<1>9. PICK w \in Seq(Keys) : Path(do, q) = (A \o y) \o w /\ Len(w) >= o - k /\ (k = o => Len(w) = 0)
  <2> HIDE DEF z, A, y
  <2>1. o \in k .. Len(z) /\ k \in 1 .. Len(z) /\ \A m \in DOMAIN z : Len(z[m]) >= 1
    BY <1>2, <1>3
  <2>2. SplitsAt(Keys, z, k, o)
    BY <1>2, <2>1, FlattenSplits
  <2>3. SubSeq(z, 1, o) = z
    BY <1>2, SubSeqFull
  <2>4. o = k => k = o
    OBVIOUS
  <2> QED BY <1>2, <1>4, <1>7, <2>2, <2>3, <2>4 DEF SplitsAt
<1>10. A \in Seq(Keys) /\ x \in Seq(Keys) /\ y \in Seq(Keys)
  <2>1. x \in Seq(Keys) /\ y \in Seq(Keys)
    BY <1>6, SegmentsAre DEF AreSegments
  <2>2. A \in Seq(Keys)
    <3> HIDE DEF s
    <3> QED BY <1>1, <1>3, FlattenUpTo
  <2> QED BY <2>1, <2>2
<1>11. x \o r = y \o w
  <2>1. (A \o x) \o r = (A \o y) \o w
    BY <1>8, <1>9, Zenon
  <2>2. SameRests(Keys)
    BY SameRest
  <2> HIDE DEF A, x, y, s, z, l, t, u, n, o
  <2>3. \A a, b, e, f \in Seq(Keys) : (A \o a) \o e = (A \o b) \o f => a \o e = b \o f
    BY <1>10, <2>2, Zenon DEF SameRests
  <2>4. \A b, e, f \in Seq(Keys) : (A \o x) \o e = (A \o b) \o f => x \o e = b \o f
    BY <1>10, <2>3, Zenon
  <2>5. \A e, f \in Seq(Keys) : (A \o x) \o e = (A \o y) \o f => x \o e = y \o f
    BY <1>10, <2>4, Zenon
  <2> QED BY <2>1, <2>5, Zenon
<1> DEFINE c == p[k][2]
           d == q[k][2]
<1>13. /\ x[1] = t.key /\ Len(x) \in {1, 2} /\ (c = 0 => Len(x) = 1)
       /\ t.kind = "try" /\ c = 1 => Len(x) = 2 /\ x[2] = <<"try">>
       /\ t.kind = "try" /\ c = 2 => Len(x) = 2 /\ x[2] = <<"catch">>
  <2>1. AreSegments(t, c, x)
    BY <1>6, SegmentsAre
  <2> HIDE DEF t, c, x
  <2> QED BY <2>1 DEF AreSegments
<1>14. /\ y[1] = u.key /\ Len(y) \in {1, 2} /\ (d = 0 => Len(y) = 1)
       /\ u.kind = "try" /\ d = 1 => Len(y) = 2 /\ y[2] = <<"try">>
       /\ u.kind = "try" /\ d = 2 => Len(y) = 2 /\ y[2] = <<"catch">>
  <2>1. AreSegments(u, d, y)
    BY <1>6, SegmentsAre
  <2> HIDE DEF u, d, y
  <2> QED BY <2>1 DEF AreSegments
<1>15. /\ Len(x \o r) = Len(x) + Len(r) /\ Len(y \o w) = Len(y) + Len(w)
       /\ Len(r) \in Nat /\ Len(w) \in Nat
       /\ \A i \in 1 .. Len(x) : (x \o r)[i] = x[i]
       /\ \A i \in 1 .. Len(y) : (y \o w)[i] = y[i]
  <2> HIDE DEF x, y
  <2> QED BY <1>10, ConcatProperties
<1>16. p[k][1] = q[k][1]
  <2>1. 1 \in 1 .. Len(x) /\ 1 \in 1 .. Len(y)
    <3> HIDE DEF x, y
    <3> QED BY <1>13, <1>14
  <2>2. x[1] = y[1]
    <3> HIDE DEF x, y, A, s, z, l, t, u, n, o
    <3>1. (x \o r)[1] = (y \o w)[1]
      BY <1>11, Zenon
    <3>2. (x \o r)[1] = x[1]
      BY <1>15, <2>1, Zenon
    <3>3. (y \o w)[1] = y[1]
      BY <1>15, <2>1, Zenon
    <3> QED BY <3>1, <3>2, <3>3, Zenon
  <2>3. t.key = u.key
    <3> HIDE DEF x, y
    <3> QED BY <1>13, <1>14, <2>2
  <2> QED BY <1>5, <2>3 DEF OwnKeys
<1>17. t = u
  BY <1>16
<1>18. c = d
  <2>1. (k = n => c = 0) /\ (k # n => c \in ListsOf(t)) /\ (k = o => d = 0) /\ (k # o => d \in ListsOf(u))
    BY <1>5
  <2>2. ListsOf(t) \subseteq {1, 2} /\ (t.kind # "try" => ListsOf(t) \subseteq {1})
    BY DEF ListsOf, ContainerKinds
  <2>3. Len(x) + Len(r) = Len(y) + Len(w)
    BY <1>11, <1>15, Zenon
  <2>8. n \in Nat /\ o \in Nat /\ n >= k /\ o >= k
    BY <1>1, <1>2, <1>3
  <2>4. x[2] = y[2] \/ Len(x) # 2 \/ Len(y) # 2
    <3> HIDE DEF x, y, A, s, z, l, t, u, n, o, c, d
    <3>1. SUFFICES ASSUME Len(x) = 2, Len(y) = 2
                   PROVE  x[2] = y[2]
      OBVIOUS
    <3>2. 2 \in 1 .. Len(x) /\ 2 \in 1 .. Len(y)
      BY <3>1
    <3>3. (x \o r)[2] = (y \o w)[2]
      BY <1>11, Zenon
    <3>4. (x \o r)[2] = x[2]
      BY <1>15, <3>2, Zenon
    <3>5. (y \o w)[2] = y[2]
      BY <1>15, <3>2, Zenon
    <3> QED BY <3>3, <3>4, <3>5, Zenon
  <2> HIDE DEF x, y, t, u, c, d, n, o
  <2>5. k = n <=> k = o
    <3>1. /\ Len(r) >= n - k /\ (k = n => Len(r) = 0) /\ Len(w) >= o - k /\ (k = o => Len(w) = 0)
      BY <1>8, <1>9
    <3>2. Len(x) \in {1, 2} /\ (c = 0 => Len(x) = 1) /\ Len(y) \in {1, 2} /\ (d = 0 => Len(y) = 1)
      BY <1>13, <1>14
    <3>3. Len(r) \in Nat /\ Len(w) \in Nat
      BY <1>15
    <3>4. (k = n => c = 0) /\ (k = o => d = 0)
      BY <2>1
    <3>5. ASSUME k = n, k # o
          PROVE  FALSE
      <4>1. Len(r) = 0 /\ Len(x) = 1
        BY <3>1, <3>2, <3>4, <3>5
      <4>2. o - k >= 1 /\ o - k \in Int
        BY <1>3, <2>8, <3>5
      <4>3. Len(w) >= 1
        BY <3>1, <3>3, <4>2
      <4>4. Len(y) >= 1
        <5>1. \A g \in {1, 2} : g >= 1
          OBVIOUS
        <5> QED BY <3>2, <5>1, Zenon
      <4> QED BY <2>3, <3>2, <3>3, <4>1, <4>3, <4>4
    <3>6. ASSUME k = o, k # n
          PROVE  FALSE
      <4>1. Len(w) = 0 /\ Len(y) = 1
        BY <3>1, <3>2, <3>4, <3>6
      <4>2. n - k >= 1 /\ n - k \in Int
        BY <1>3, <2>8, <3>6
      <4>3. Len(r) >= 1
        BY <3>1, <3>3, <4>2
      <4>4. Len(x) >= 1
        <5>1. \A g \in {1, 2} : g >= 1
          OBVIOUS
        <5> QED BY <3>2, <5>1, Zenon
      <4> QED BY <2>3, <3>2, <3>3, <4>1, <4>3, <4>4
    <3> QED BY <3>5, <3>6
  <2>6. CASE k = n
    BY <2>1, <2>5, <2>6
  <2>7. CASE k # n
    <3>1. c \in ListsOf(t) /\ d \in ListsOf(t)
      BY <1>17, <2>1, <2>5, <2>7
    <3>2. CASE t.kind # "try"
      BY <2>2, <3>1, <3>2
    <3>3. CASE t.kind = "try"
      <4>1. c \in {1, 2} /\ d \in {1, 2}
        BY <2>2, <3>1
      <4>2. <<"try">> # <<"catch">>
        OBVIOUS
      <4> QED BY <1>13, <1>14, <1>17, <2>4, <3>3, <4>1, <4>2
    <3> QED BY <3>2, <3>3
  <2> QED BY <2>6, <2>7
<1> QED
  BY <1>12, <1>16, <1>18

LEMMA SameStart ==
  ASSUME NEW S, NEW p \in Seq(S), NEW q \in Seq(S), NEW k \in 1 .. Len(p), k \in 1 .. Len(q),
         \A j \in 1 .. k - 1 : p[j] = q[j]
  PROVE  SubSeq(p, 1, k - 1) = SubSeq(q, 1, k - 1)
<1> DEFINE a == SubSeq(p, 1, k - 1)
           b == SubSeq(q, 1, k - 1)
<1>1. k - 1 \in Int /\ \A j \in 1 .. k - 1 : p[j] \in S /\ q[j] \in S
  BY ElementOfSeq
<1>2. a \in Seq(S) /\ b \in Seq(S) /\ Len(a) = Len(b)
  BY <1>1, SubSeqProperties
<1>3. Len(a) = IF 1 <= k - 1 THEN (k - 1) - 1 + 1 ELSE 0
  BY <1>1, SubSeqProperties
<1>4. \A j \in 1 .. (k - 1) - 1 + 1 : a[j] = p[1 + j - 1] /\ b[j] = q[1 + j - 1]
  BY <1>1, SubSeqProperties
<1>5. \A j \in 1 .. Len(a) : j \in 1 .. (k - 1) - 1 + 1 /\ 1 + j - 1 = j /\ j \in 1 .. k - 1
  BY <1>1, <1>3
<1>6. \A j \in 1 .. Len(a) : a[j] = b[j]
  BY <1>4, <1>5
<1> HIDE DEF a, b
<1> QED
  BY <1>2, <1>6, SeqEqual DEF a, b

LEMMA PathIsOwn ==
  ASSUME NEW do, HaveKeys(do), OwnKeys(do), NEW p, IsTaskPlace(do, p), NEW q, IsTaskPlace(do, q),
         Path(do, p) = Path(do, q)
  PROVE  p = q
<1> DEFINE S == (Nat \ {0}) \X {0, 1, 2}
           Bad == {k \in Nat : k \in 1 .. Len(p) /\ k \in 1 .. Len(q) /\ p[k] # q[k]}
<1>1. p \in Seq(S) /\ q \in Seq(S) /\ Len(p) \in Nat /\ Len(q) \in Nat /\ Len(p) # 0 /\ Len(q) # 0
  BY DEF IsTaskPlace
<1> HIDE DEF S
<1>2. Bad = {}
  <2>1. SUFFICES ASSUME Bad # {}
                 PROVE  FALSE
    OBVIOUS
  <2>2. PICK k \in Bad : \A j \in Bad : k =< j
    <3>1. Bad \in SUBSET Nat
      OBVIOUS
    <3> HIDE DEF Bad
    <3> QED BY <2>1, <3>1, LeastNumber
  <2>3. k \in 1 .. Len(p) /\ k \in 1 .. Len(q) /\ p[k] # q[k] /\ k \in Nat
    BY <2>2
  <2>4. \A j \in 1 .. k - 1 : p[j] = q[j]
    <3> SUFFICES ASSUME NEW j \in 1 .. k - 1, p[j] # q[j]
                 PROVE  FALSE
      OBVIOUS
    <3>1. j \in Nat /\ j \in 1 .. Len(p) /\ j \in 1 .. Len(q) /\ ~ (k =< j)
      BY <1>1, <2>3
    <3> QED BY <2>2, <3>1
  <2>5. SubSeq(p, 1, k - 1) = SubSeq(q, 1, k - 1)
    BY <1>1, <2>3, <2>4, SameStart
  <2>6. p[k] = q[k]
    BY <2>3, <2>5, StepIsSame
  <2> QED BY <2>3, <2>6
<1>3. \A k \in 1 .. Len(p) : k \in 1 .. Len(q) => p[k] = q[k]
  BY <1>1, <1>2
<1>4. \A t : 0 \notin ListsOf(t)
  BY DEF ListsOf, ContainerKinds
<1>5. ~ (Len(p) < Len(q))
  <2> SUFFICES ASSUME Len(p) < Len(q)
               PROVE  FALSE
    OBVIOUS
  <2> DEFINE k == Len(p)
  <2>1. k \in 1 .. Len(p) /\ k \in 1 .. Len(q) /\ k # Len(q)
    BY <1>1
  <2>2. p[k][2] = 0 /\ q[k][2] \in ListsOf(Through(do, q, k))
    BY <2>1 DEF IsTaskPlace
  <2> QED BY <1>3, <1>4, <2>1, <2>2
<1>6. ~ (Len(q) < Len(p))
  <2> SUFFICES ASSUME Len(q) < Len(p)
               PROVE  FALSE
    OBVIOUS
  <2> DEFINE k == Len(q)
  <2>1. k \in 1 .. Len(p) /\ k \in 1 .. Len(q) /\ k # Len(p)
    BY <1>1
  <2>2. q[k][2] = 0 /\ p[k][2] \in ListsOf(Through(do, p, k))
    BY <2>1 DEF IsTaskPlace
  <2> QED BY <1>3, <1>4, <2>1, <2>2
<1>7. Len(p) = Len(q)
  BY <1>1, <1>5, <1>6
<1> QED
  BY <1>1, <1>3, <1>7, SeqEqual

LEMMA SegmentsHaveLetters ==
  ASSUME NEW do, HaveKeys(do), NEW p, IsTaskPlace(do, p)
  PROVE  Path(do, p) \in Seq(Keys)
<1>1. AreSegs(do, p, Segs(do, p))
  BY SegsAre
<1> DEFINE s == Segs(do, p)
<1> HIDE DEF s
<1>2. FlattenSeq(s) \in Seq(Keys)
  BY <1>1, FlattenType DEF AreSegs, s
<1> QED
  BY <1>1, <1>2 DEF AreSegs, s

LEMMA TypeHasLetters ==
  ASSUME NEW d, IsDocument(d)
  PROVE  WorkflowType(Loaded(d)) \in Keys
<1>1. Loaded(d).names = RenameKey(d.names, "workflowType", "name")
  <2>1. Loaded(d).names = Wf(d).names
    BY LoadedIs
  <2>2. DOMAIN d = {"yaml", "conforms", "dsl", "names", "exprs", "scheduleInput", "do"}
    BY DEF IsDocument
  <2>3. Wf(d).names = RenameKey(d.names, "workflowType", "name")
    BY <2>2 DEF Wf, NormaliseWorkflowDocument
  <2> QED BY <2>1, <2>3
<1>2. \A n \in DOMAIN d.names : d.names[n] \in Seq(Char)
  BY DEF IsDocument
<1>3. "name" \in DOMAIN Loaded(d).names => Loaded(d).names["name"] \in Seq(Char)
  BY <1>1, <1>2 DEF RenameKey
<1>4. \A w \in Seq(Char) : w \in Keys
  BY DEF Keys, Letters
<1> QED
  BY <1>3, <1>4 DEF WorkflowType, Keys

LEMMA HeldKeys ==
  ASSUME KeysAreUnique, NEW d \in Known, IsDocument(d)
  PROVE  HaveKeys(Loaded(d).do) /\ OwnKeys(Loaded(d).do)
<1> DEFINE do == d.do
           h == Loaded(d).do
<1>1. IsTree(do) /\ Reshaped(do, h)
  BY LoadedIs DEF IsDocument
<1>2. DOMAIN h = DOMAIN do /\ \A l \in DOMAIN do : DOMAIN h[l] = DOMAIN do[l]
  <2> HIDE DEF h, do
  <2> QED BY <1>1, ReshapedTree DEF Reshaped
<1>3. ASSUME NEW l \in DOMAIN do, NEW i \in DOMAIN do[l]
      PROVE  h[l][i].key = do[l][i].key /\ do[l][i].key \in Seq(Char)
  <2>1. IsTask(do[l][i])
    BY TaskOfDocument
  <2>2. h[l][i] = PostLoadTask(NormaliseTask(do[l][i]))
    BY LoadedIs
  <2>3. h[l][i].key = do[l][i].key
    BY <2>1, <2>2, TaskPostLoaded
  <2> QED BY <2>1, <2>3 DEF IsTask
<1>4. ASSUME NEW l \in DOMAIN do, NEW i \in DOMAIN do[l], NEW j \in DOMAIN do[l], do[l][i].key = do[l][j].key
      PROVE  i = j
  BY <1>4 DEF KeysAreUnique, Known, IsInjective
<1> HIDE DEF h, do
<1>5. HaveKeys(h)
  BY <1>2, <1>3 DEF HaveKeys
<1>6. OwnKeys(h)
  BY <1>2, <1>3, <1>4 DEF OwnKeys
<1> QED
  BY <1>5, <1>6 DEF h

LEMMA NameIsOwn ==
  ASSUME NEW do, IsTree(do), HaveKeys(do), OwnKeys(do), NEW type \in Keys,
         NEW p \in Places(do, DOMAIN do), NEW q \in Places(do, DOMAIN do),
         PerTaskActivityName(type, Path(do, p)) = PerTaskActivityName(type, Path(do, q))
  PROVE  p = q
<1>1. IsTaskPlace(do, p) /\ IsTaskPlace(do, q)
  BY PlaceIsTaskPlace
<1>2. Path(do, p) \in Seq(Seq(Letters)) /\ Path(do, q) \in Seq(Seq(Letters)) /\ type \in Seq(Letters)
  BY <1>1, SegmentsHaveLetters DEF Keys
<1>3. Path(do, p) = Path(do, q)
  BY <1>2, ActivityNamesAreDistinct
<1> QED
  BY <1>1, <1>3, PathIsOwn

LEMMA OnlyActivityIsChosen ==
  ASSUME NEW activities, NEW a \in activities, \A b \in activities : b.name = a.name => b = a
  PROVE  RegisterActivityOnce(activities)[a.name] = a.function
<1> DEFINE First(c) == c.name = a.name /\ \A b \in activities : b.name = a.name => b = c \/ Before(c.place, b.place)
<1>1. First(a) /\ \A c \in activities : First(c) => c = a
  OBVIOUS
<1>2. (CHOOSE c \in activities : First(c)) = a
  <2> HIDE DEF First
  <2> QED BY <1>1
<1>3. a.name \in {b.name : b \in activities}
  OBVIOUS
<1> QED
  BY <1>2, <1>3 DEF RegisterActivityOnce

LEMMA DispatchIsOwnNow ==
  ASSUME KeysAreUnique, ReadInv
  PROVE  DispatchIsOwn
<1> DEFINE do == held.do
           type == WorkflowType(held)
           Activity(q) ==
             [name |-> PerTaskActivityName(type, Path(do, q)), function |-> TaskAt(do, q).kind, place |-> q]
<1> SUFFICES ASSUME stage = "serve", NEW p \in Places(do, DOMAIN do), TaskAt(do, p).kind \in ActivityKinds
             PROVE  RegisterActivityOnce(worker.activities)[PerTaskActivityName(type, Path(do, p))] = TaskAt(do, p).kind
  BY DEF DispatchIsOwn
<1>1. Holds /\ worker = Build(do, type)
  BY DEF ReadInv
<1>2. PICK d \in Known : IsDocument(d) /\ IsTree(do) /\ held = Loaded(d)
  BY <1>1, HeldTask
<1>3. HaveKeys(do) /\ OwnKeys(do) /\ type \in Keys
  BY <1>2, HeldKeys, TypeHasLetters
<1>4. worker.activities = {Activity(q) : q \in {q \in Places(do, DOMAIN do) : TaskAt(do, q).kind \in ActivityKinds}}
  <2>1. worker.activities = Activities(do, type)
    BY <1>1 DEF Build, Built
  <2>2. Reached(do, BuilderLists) = DOMAIN do
    BY <1>2, WalksReachAll
  <2> QED BY <2>1, <2>2 DEF Activities
<1>5. Activity(p) \in worker.activities
  BY <1>4
<1>6. \A b \in worker.activities : b.name = Activity(p).name => b = Activity(p)
  <2> SUFFICES ASSUME NEW q \in Places(do, DOMAIN do), Activity(q).name = Activity(p).name
               PROVE  Activity(q) = Activity(p)
    BY <1>4
  <2>1. q = p
    <3> HIDE DEF do, type
    <3> QED BY <1>2, <1>3, NameIsOwn
  <2> QED BY <2>1
<1>7. RegisterActivityOnce(worker.activities)[Activity(p).name] = Activity(p).function
  <2> HIDE DEF Activity
  <2> QED BY <1>5, <1>6, OnlyActivityIsChosen
<1> QED
  BY <1>7

\* Every activity task of a worker is dispatched to the function of its own
\* kind, if the keys of every list are different, as the documentation wants
\* and nothing checks (task_builder.go:103, activity_registration.go:37).
THEOREM DispatchesAreOwn == ASSUME KeysAreUnique PROVE Spec => []DispatchIsOwn
<1>1. ReadInv => DispatchIsOwn
  BY DispatchIsOwnNow
<1> QED
  BY <1>1, ReadInvHolds, PTL
=============================================================================
