------------------------------ MODULE PathProofs ------------------------------
(***************************************************************************)
(* What Guard says of paths, for paths of any length: a path that is not   *)
(* unsafe has one reading, and a plainly written one is not unsafe.        *)
(*                                                                         *)
(* Scan and Written are functions defined by recursion.  The facts about   *)
(* them go by induction on a length, with the property as a set of numbers *)
(* (the library's induction theorems take it as an operator).              *)
(***************************************************************************)
EXTENDS Guard, SequenceTheorems, WellFoundedInduction, TLAPS

(***************************************************************************)
(* Induction and recursion.                                                *)
(***************************************************************************)

\* Every set of numbers has a least one.
LEMMA LeastNumber ==
  ASSUME NEW S \in SUBSET Nat, S # {}
  PROVE  \E n \in S : \A m \in S : n <= m
<1> DEFINE R == OpToRel(<, Nat)
<1>1. IsWellFoundedOn(R, Nat)
  BY NatLessThanWellFounded
<1>2. \A x, y \in Nat : y < x => <<y, x>> \in R
  BY DEF OpToRel
<1> HIDE DEF R
<1>3. PICK x \in S : \A y \in S : <<y, x>> \notin R
  BY <1>1, WFMin
<1>4. ASSUME NEW m \in S PROVE x <= m
  <2>1. ~(m < x)
    BY <1>2, <1>3
  <2> QED BY <2>1
<1> QED BY <1>4

\* What 0 has and passes on to the next number, all numbers have.
LEMMA Induction ==
  ASSUME NEW S, 0 \in S, \A n \in Nat : n \in S => n + 1 \in S
  PROVE  Nat \subseteq S
<1> SUFFICES ASSUME Nat \ S # {} PROVE FALSE
  OBVIOUS
<1>1. PICK n \in Nat \ S : \A m \in Nat \ S : n <= m
  <2> DEFINE T == Nat \ S
  <2>1. T \in SUBSET Nat /\ T # {}
    OBVIOUS
  <2> HIDE DEF T
  <2>2. \E n \in T : \A m \in T : n <= m
    BY <2>1, LeastNumber
  <2> QED BY <2>2 DEF T
<1>2. n # 0 /\ n - 1 \in Nat /\ n - 1 \in S
  BY <1>1
<1> QED BY <1>1, <1>2

\* A property of 0 that goes up step by step to n holds of all numbers to n.
LEMMA InductionUpTo ==
  ASSUME NEW n \in Nat, NEW S, 0 \in S,
         \A k \in 0..(n - 1) : k \in S => k + 1 \in S
  PROVE  0..n \subseteq S
<1> DEFINE T == {k \in Nat : k <= n => k \in S}
<1>1. 0 \in T
  OBVIOUS
<1>2. \A k \in Nat : k \in T => k + 1 \in T
  <2> SUFFICES ASSUME NEW k \in Nat, k \in T, k + 1 <= n PROVE k + 1 \in S
    OBVIOUS
  <2>1. k \in 0..(n - 1) /\ k \in S
    OBVIOUS
  <2> QED BY <2>1
<1> HIDE DEF T
<1>3. Nat \subseteq T
  BY <1>1, <1>2, Induction
<1> QED BY <1>3 DEF T

\* Steps can be iterated, as often as wanted.
LEMMA Iteration ==
  ASSUME NEW State, NEW base \in State, NEW n \in Nat,
         NEW step \in [1..n -> [State -> State]]
  PROVE  \E f \in [0..n -> State] : f[0] = base /\ \A k \in 1..n : f[k] = step[k][f[k - 1]]
<1> DEFINE Good(k, f) == f = [j \in 0..k |-> IF j = 0 THEN base ELSE step[j][f[j - 1]]]
           S == {k \in Nat : \E f \in [0..k -> State] : Good(k, f)}
<1>1. 0 \in S
  <2> DEFINE f == [j \in 0..0 |-> base]
  <2>1. f \in [0..0 -> State] /\ \A j \in 0..0 : j = 0
    OBVIOUS
  <2>2. Good(0, f)
    BY <2>1
  <2> QED BY <2>1, <2>2
<1>2. ASSUME NEW k \in 0..(n - 1), k \in S PROVE k + 1 \in S
  <2>1. PICK f \in [0..k -> State] : Good(k, f)
    BY <1>2
  <2> DEFINE g == [j \in 0..(k + 1) |-> IF j = k + 1 THEN step[k + 1][f[k]] ELSE f[j]]
  <2>2. step[k + 1] \in [State -> State] /\ f[k] \in State
    OBVIOUS
  <2>3. g \in [0..(k + 1) -> State]
    BY <2>2
  <2>4. ASSUME NEW j \in 0..(k + 1)
        PROVE  g[j] = IF j = 0 THEN base ELSE step[j][g[j - 1]]
    <3>1. CASE j = k + 1
      BY <3>1
    <3>2. CASE j # k + 1
      <4>1. j \in 0..k /\ g[j] = f[j] /\ (j # 0 => g[j - 1] = f[j - 1])
        BY <3>2
      <4>2. f[j] = IF j = 0 THEN base ELSE step[j][f[j - 1]]
        BY <2>1, <4>1
      <4> QED BY <4>1, <4>2
    <3> QED BY <3>1, <3>2
  <2>5. Good(k + 1, g)
    <3>1. DOMAIN g = 0..(k + 1)
      OBVIOUS
    <3> HIDE DEF g
    <3> QED BY <2>3, <2>4
  <2>6. \E h \in [0..(k + 1) -> State] : Good(k + 1, h)
    <3> HIDE DEF g, Good
    <3> QED BY <2>3, <2>5
  <2>7. k + 1 \in Nat
    OBVIOUS
  <2> HIDE DEF Good
  <2> QED BY <2>6, <2>7
<1>3. 0..n \subseteq S
  <2> HIDE DEF S
  <2> QED BY <1>1, <1>2, InductionUpTo
<1>4. n \in S
  BY <1>3
<1>5. PICK f \in [0..n -> State] : Good(n, f)
  BY <1>4
<1>6. f[0] = base /\ \A k \in 1..n : f[k] = step[k][f[k - 1]]
  BY <1>5
<1> QED BY <1>6

(***************************************************************************)
(* Scan: what its steps do.                                                *)
(***************************************************************************)

Segment == Seq(Char)
ScanState == [done : Seq(Segment), open : Segment]

LEMMA EnterType ==
  ASSUME NEW done \in Seq(Segment), NEW segment \in Segment
  PROVE  Enter(done, segment) \in Seq(Segment)
<1>1. done # <<>> => Front(done) \in Seq(Segment)
  <2> SUFFICES ASSUME done # <<>> PROVE SubSeq(done, 1, Len(done) - 1) \in Seq(Segment)
    BY DEF Front
  <2>1. Len(done) - 1 \in Int /\ \A i \in 1..(Len(done) - 1) : done[i] \in Segment
    OBVIOUS
  <2> QED BY <2>1, SubSeqProperties
<1>2. Append(done, segment) \in Seq(Segment)
  OBVIOUS
<1> QED BY <1>1, <1>2 DEF Enter

\* The step that Scan makes over one character.
LEMMA ScanStep ==
  ASSUME NEW text \in Path, NEW cuts
  PROVE  /\ Scan(text, cuts) \in [0..Len(text) -> ScanState]
         /\ Scan(text, cuts)[0] = [done |-> <<>>, open |-> <<>>]
         /\ \A n \in 1..Len(text) :
              LET before == Scan(text, cuts)[n - 1]
              IN  Scan(text, cuts)[n] =
                    IF n \in cuts
                    THEN [done |-> Enter(before.done, before.open), open |-> <<>>]
                    ELSE [done |-> before.done, open |-> Append(before.open, text[n])]
<1> DEFINE first == [done |-> <<>>, open |-> <<>>]
           Go(n, before) == IF n \in cuts
                            THEN [done |-> Enter(before.done, before.open), open |-> <<>>]
                            ELSE [done |-> before.done, open |-> Append(before.open, text[n])]
           step == [n \in 1..Len(text) |-> [before \in ScanState |-> Go(n, before)]]
<1>1. first \in ScanState
  BY DEF ScanState, Segment
<1>2. ASSUME NEW n \in 1..Len(text), NEW before \in ScanState
      PROVE  Go(n, before) \in ScanState
  <2>1. /\ before.done \in Seq(Segment) /\ before.open \in Segment
        /\ text[n] \in Char
    <3>1. text \in Seq(Char)
      BY DEF Path, Char
    <3>2. text[n] \in Char
      BY <3>1
    <3> QED BY <3>2 DEF ScanState
  <2>2. Enter(before.done, before.open) \in Seq(Segment)
    BY <2>1, EnterType
  <2>3. Append(before.open, text[n]) \in Segment /\ <<>> \in Segment
    BY <2>1 DEF Segment
  <2> QED BY <2>1, <2>2, <2>3 DEF ScanState
<1>3. step \in [1..Len(text) -> [ScanState -> ScanState]]
  BY <1>2
<1>4. Len(text) \in Nat
  BY DEF Path
<1>5. PICK f \in [0..Len(text) -> ScanState] :
        f[0] = first /\ \A n \in 1..Len(text) : f[n] = step[n][f[n - 1]]
  <2> DEFINE N == Len(text)
             State == ScanState
  <2>1. N \in Nat /\ first \in State /\ step \in [1..N -> [State -> State]]
    BY <1>1, <1>3, <1>4
  <2> HIDE DEF first, step, N, State
  <2>2. \E f \in [0..N -> State] : f[0] = first /\ \A n \in 1..N : f[n] = step[n][f[n - 1]]
    BY <2>1, Iteration
  <2> QED BY <2>2 DEF N, State
<1>6. f = [n \in 0..Len(text) |-> IF n = 0 THEN first ELSE Go(n, f[n - 1])]
  <2>1. ASSUME NEW n \in 0..Len(text), n # 0
        PROVE  step[n][f[n - 1]] = Go(n, f[n - 1])
    <3>1. n \in 1..Len(text) /\ f[n - 1] \in ScanState
      BY <1>4, <2>1
    <3> HIDE DEF Go
    <3> QED BY <3>1
  <2>2. \A n \in 0..Len(text) : n # 0 => n \in 1..Len(text)
    BY <1>4
  <2> HIDE DEF step, Go, first
  <2> QED BY <1>5, <2>1, <2>2
<1> DEFINE s == Scan(text, cuts)
<1>7. s = [n \in 0..Len(text) |-> IF n = 0 THEN first ELSE Go(n, s[n - 1])]
  BY <1>6 DEF Scan
<1> HIDE DEF s
<1>8. \A n \in 1..Len(text) : s[n] = Go(n, s[n - 1])
  <2> HIDE DEF Go, first
  <2> QED BY <1>4, <1>7
<1>9. s[0] = first
  <2> HIDE DEF Go
  <2> QED BY <1>4, <1>7
<1>10. s \in [0..Len(text) -> ScanState]
  <2> DEFINE S == {n \in 0..Len(text) : s[n] \in ScanState}
  <2>1. 0 \in S
    BY <1>1, <1>4, <1>9
  <2>2. ASSUME NEW n \in 0..(Len(text) - 1), n \in S PROVE n + 1 \in S
    <3>1. n + 1 \in 1..Len(text) /\ s[n] \in ScanState /\ (n + 1) - 1 = n
      BY <1>4, <2>2
    <3> HIDE DEF Go
    <3> QED BY <3>1, <1>2, <1>8
  <2>3. 0..Len(text) \subseteq S
    <3> HIDE DEF S
    <3> QED BY <1>4, <2>1, <2>2, InductionUpTo
  <2> QED BY <1>7, <2>3
<1> QED BY <1>8, <1>9, <1>10 DEF s

\* A segment that is neither empty nor dots is kept, an empty one is not.
LEMMA EnterCases ==
  ASSUME NEW done, NEW segment
  PROVE  /\ Enter(done, <<>>) = done
         /\ segment # <<>> /\ segment # <<Dot>> /\ segment # <<Dot, Dot>>
              => Enter(done, segment) = Append(done, segment)
<1>1. <<>> # <<Dot, Dot>>
  OBVIOUS
<1> QED BY <1>1 DEF Enter

(***************************************************************************)
(* A path that is not unsafe has one reading.                              *)
(***************************************************************************)

\* What is left of unsafePath once a path is decoded.
SafePath(path) ==
  /\ path \in Path
  /\ \A i \in DOMAIN path : path[i].depth = 0 /\ path[i].char # "\\"
  /\ \A i \in 1..(Len(path) - 1) : ~(path[i] = Slash /\ path[i + 1] = Slash)
  /\ ~HasDotSegment(path)

LEMMA DecodeType ==
  ASSUME NEW text \in Path
  PROVE  /\ Decode(text) \in Path
         /\ Len(Decode(text)) = Len(text)
         /\ DOMAIN Decode(text) = DOMAIN text
         /\ \A i \in DOMAIN text :
              /\ text[i] \in Char
              /\ Decode(text)[i] = [char |-> text[i].char,
                     depth |-> IF text[i].depth > 0 THEN text[i].depth - 1 ELSE 0]
<1>1. text \in Seq(Char)
  BY DEF Path, Char
<1>2. Len(text) \in Nat /\ DOMAIN text = 1..Len(text) /\ \A i \in DOMAIN text : text[i] \in Char
  BY <1>1
<1> DEFINE Plainer(c) == [char |-> c.char, depth |-> IF c.depth > 0 THEN c.depth - 1 ELSE 0]
           decoded == [i \in 1..Len(text) |-> Plainer(text[i])]
<1>3. \A c \in Char : /\ Plainer(c) \in Char
                       /\ [c EXCEPT !.depth = IF @ > 0 THEN @ - 1 ELSE 0] = Plainer(c)
  BY DEF Char
<1>4. Decode(text) = decoded
  <2>1. \A i \in DOMAIN text :
          [text[i] EXCEPT !.depth = IF @ > 0 THEN @ - 1 ELSE 0] = Plainer(text[i])
    BY <1>2, <1>3
  <2> HIDE DEF Plainer
  <2> QED BY <1>2, <2>1 DEF Decode
<1>5. decoded \in Seq(Char) /\ Len(decoded) = Len(text)
  <2> HIDE DEF Plainer
  <2> QED BY <1>2, <1>3
<1> QED BY <1>2, <1>4, <1>5 DEF Path, Char

\* A path that passes is cut at the same characters whenever it is cut, and is
\* decoded by decoding it once.
LEMMA PassingIsSafe ==
  ASSUME NEW text \in Path, ~UnsafePath(text)
  PROVE  /\ SafePath(Decode(text))
         /\ Decode(Decode(text)) = Decode(text)
         /\ \A cut \in {text, Decode(text)} : \A separators \in {{Slash}, {Slash, Plain("\\")}} :
              Cuts(cut, separators) = Cuts(Decode(text), {Slash})
<1> DEFINE D == Decode(text)
<1>1. /\ D \in Path /\ DOMAIN D = DOMAIN text /\ DOMAIN text = 1..Len(text) /\ Len(text) \in Nat
      /\ Decode(D) \in Path /\ Len(Decode(D)) = Len(D) /\ Len(D) = Len(text)
  BY DecodeType DEF Path
<1>2. ASSUME NEW i \in DOMAIN text
      PROVE  /\ text[i].depth \in Nat /\ D[i].char = text[i].char
             /\ D[i].depth = IF text[i].depth > 0 THEN text[i].depth - 1 ELSE 0
             /\ D[i] = [char |-> text[i].char, depth |-> 0]
             /\ D[i].char # "\\"
             /\ text[i].char = "/" => text[i].depth = 0
             /\ text[i] = [char |-> text[i].char, depth |-> text[i].depth]
  <2>1. text[i] \in Char /\ D[i] = [char |-> text[i].char,
                     depth |-> IF text[i].depth > 0 THEN text[i].depth - 1 ELSE 0]
    BY DecodeType
  <2>2. ~(text[i].depth = 1 /\ text[i].char \in {"/", "\\", "."})
        /\ ~(D[i].depth > 0 \/ D[i].char = "\\")
    BY <1>1 DEF UnsafePath
  <2> HIDE DEF D
  <2> QED BY <2>1, <2>2 DEF Char
<1>3. SafePath(D)
  <2>1. \A i \in 1..(Len(D) - 1) : ~(D[i] = Slash /\ D[i + 1] = Slash)
    BY DEF UnsafePath
  <2>2. ~HasDotSegment(D)
    BY DEF UnsafePath
  <2>3. \A i \in DOMAIN D : D[i].depth = 0 /\ D[i].char # "\\"
    <3> HIDE DEF D
    <3> QED BY <1>1, <1>2
  <2> QED BY <1>1, <2>1, <2>2, <2>3 DEF SafePath
<1>4. Decode(D) = D
  <2>1. \A i \in 1..Len(D) : Decode(D)[i] = D[i]
    <3> SUFFICES ASSUME NEW i \in 1..Len(D) PROVE Decode(D)[i] = D[i]
      OBVIOUS
    <3>1. i \in DOMAIN D /\ i \in DOMAIN text
      BY <1>1
    <3>2. Decode(D)[i] = [char |-> D[i].char, depth |-> IF D[i].depth > 0 THEN D[i].depth - 1 ELSE 0]
      <4> HIDE DEF D
      <4> QED BY <1>1, <3>1, DecodeType
    <3>3. D[i] = [char |-> text[i].char, depth |-> 0]
      BY <1>2, <3>1
    <3> HIDE DEF D
    <3> QED BY <3>2, <3>3
  <2> HIDE DEF D
  <2> QED BY <1>1, <2>1, SeqEqual, Zenon DEF Path
<1>5. ASSUME NEW cut \in {text, D}, NEW separators \in {{Slash}, {Slash, Plain("\\")}}
      PROVE  Cuts(cut, separators) = Cuts(D, {Slash})
  <2>1. ASSUME NEW i \in DOMAIN text
        PROVE  cut[i] \in separators <=> D[i] \in {Slash}
    <3> HIDE DEF D
    <3>1. PICK d : cut[i] = [char |-> text[i].char, depth |-> d] /\ (text[i].char = "/" => d = 0)
      BY <1>2, <1>5, <2>1
    <3>2. text[i].char # "\\"
      BY <1>2
    <3>3. cut[i] = Slash <=> text[i].char = "/"
      BY <3>1 DEF Slash, Plain
    <3>4. D[i] = Slash <=> text[i].char = "/"
      <4>1. D[i] = [char |-> text[i].char, depth |-> 0]
        BY <1>2, <2>1
      <4> QED BY <4>1 DEF Slash, Plain
    <3>5. cut[i] # Plain("\\")
      BY <3>1, <3>2 DEF Plain
    <3> QED BY <3>3, <3>4, <3>5
  <2>2. DOMAIN cut = DOMAIN text /\ DOMAIN D = DOMAIN text
    BY <1>1, <1>5
  <2> HIDE DEF D
  <2> QED BY <2>1, <2>2, Zenon DEF Cuts
<1> QED BY <1>3, <1>4, <1>5

LEMMA OneReading ==
  ASSUME NEW text \in Path, ~UnsafePath(text), NEW reading \in Readings(text)
  PROVE  reading = Reading(Decode(text), Cuts(Decode(text), {Slash}))
BY PassingIsSafe DEF Readings

\* Two paths that begin alike are read alike, as far as they do.
LEMMA ScansAgree ==
  ASSUME NEW text \in Path, NEW other \in Path, NEW cuts, NEW otherCuts,
         Len(other) <= Len(text),
         \A i \in 1..Len(other) : text[i] = other[i] /\ (i \in cuts <=> i \in otherCuts)
  PROVE  \A n \in 0..Len(other) : Scan(text, cuts)[n] = Scan(other, otherCuts)[n]
<1> DEFINE s == Scan(text, cuts)
           t == Scan(other, otherCuts)
           S == {n \in 0..Len(other) : s[n] = t[n]}
<1>1. Len(text) \in Nat /\ Len(other) \in Nat
  BY DEF Path
<1>2. 0 \in S
  BY <1>1, ScanStep
<1>3. ASSUME NEW n \in 0..(Len(other) - 1), n \in S PROVE n + 1 \in S
  <2>1. /\ n + 1 \in 1..Len(other) /\ n + 1 \in 1..Len(text)
        /\ (n + 1) - 1 = n /\ s[n] = t[n]
    BY <1>1, <1>3
  <2> DEFINE Go(before, char, cut) ==
               IF cut THEN [done |-> Enter(before.done, before.open), open |-> <<>>]
               ELSE [done |-> before.done, open |-> Append(before.open, char)]
  <2>2. s[n + 1] = Go(s[n], text[n + 1], n + 1 \in cuts)
    <3>1. \A m \in 1..Len(text) : s[m] = Go(s[m - 1], text[m], m \in cuts)
      BY ScanStep, Zenon
    <3> HIDE DEF s, Go
    <3> QED BY <2>1, <3>1
  <2>3. t[n + 1] = Go(t[n], other[n + 1], n + 1 \in otherCuts)
    <3>1. \A m \in 1..Len(other) : t[m] = Go(t[m - 1], other[m], m \in otherCuts)
      BY ScanStep, Zenon
    <3> HIDE DEF t, Go
    <3> QED BY <2>1, <3>1
  <2>4. text[n + 1] = other[n + 1] /\ (n + 1 \in cuts <=> n + 1 \in otherCuts)
    BY <2>1
  <2>5. s[n + 1] = t[n + 1]
    <3> HIDE DEF s, t
    <3> QED BY <2>1, <2>2, <2>3, <2>4
  <2> QED BY <2>1, <2>5
<1> HIDE DEF S
<1>4. 0..Len(other) \subseteq S
  BY <1>1, <1>2, <1>3, InductionUpTo
<1> QED BY <1>4 DEF S

LEMMA AppendIsLonger ==
  ASSUME NEW S, NEW s \in Seq(S), NEW t \in Seq(S), NEW e \in S,
         s = t \/ IsStrictPrefix(s, t)
  PROVE  IsStrictPrefix(s, Append(t, e))
<1>1. Len(s) <= Len(t) /\ SubSeq(s, 1, Len(s)) = SubSeq(t, 1, Len(s))
  BY DEF IsStrictPrefix, IsPrefix
<1>2. SubSeq(Append(t, e), 1, Len(s)) = SubSeq(t, 1, Len(s))
  BY <1>1
<1>3. Len(Append(t, e)) = Len(t) + 1 /\ Len(s) \in Nat /\ Len(t) \in Nat
  OBVIOUS
<1>4. s # Append(t, e)
  BY <1>1, <1>3
<1> QED BY <1>1, <1>2, <1>3, <1>4 DEF IsStrictPrefix, IsPrefix

\* A segment of a safe path, between a slash and the next or the end: it is not
\* empty unless the path ends there, and never dots.
LEMMA SafeSegment ==
  ASSUME NEW path, SafePath(path),
         NEW start \in 1..Len(path), NEW n \in start..Len(path), path[start] = Slash,
         n < Len(path) => path[n + 1] = Slash
  PROVE  /\ SubSeq(path, start + 1, n) \in Segment
         /\ n < Len(path) => start < n
         /\ start < n => SubSeq(path, start + 1, n) \notin {<<>>, <<Dot>>, <<Dot, Dot>>}
<1> DEFINE segment == SubSeq(path, start + 1, n)
<1>1. path \in Seq(Char)
  BY DEF SafePath, Path, Char
<1>2. Len(path) \in Nat /\ DOMAIN path = 1..Len(path)
  BY <1>1
<1>3. /\ start \in 1..Len(path) /\ path[start] = Slash /\ n \in 1..Len(path)
      /\ n < Len(path) => path[n + 1] = Slash
  BY <1>2
<1>4. /\ segment \in Segment /\ Len(segment) = n - start
      /\ \A i \in 1..(n - start) : segment[i] = path[start + i]
  <2>1. \A i \in (start + 1)..n : path[i] \in Char
    <3>1. \A i \in 1..Len(path) : path[i] \in Char
      BY <1>1
    <3>2. \A i \in (start + 1)..n : i \in 1..Len(path)
      BY <1>2, <1>3
    <3> QED BY <3>1, <3>2
  <2>2. start + 1 \in Int /\ n \in Int
    BY <1>3
  <2>3. /\ segment \in Seq(Char)
        /\ Len(segment) = IF start + 1 <= n THEN n - (start + 1) + 1 ELSE 0
        /\ \A i \in 1..(n - (start + 1) + 1) : segment[i] = path[(start + 1) + i - 1]
    BY <2>1, <2>2, SubSeqProperties
  <2> HIDE DEF segment
  <2> QED BY <1>3, <2>3 DEF Segment
<1> HIDE DEF segment
<1>5. n < Len(path) => start < n
  <2> SUFFICES ASSUME n < Len(path), start = n PROVE FALSE
    BY <1>3
  <2>1. n \in 1..(Len(path) - 1) /\ path[n] = Slash /\ path[n + 1] = Slash
    BY <1>2, <1>3
  <2> QED BY <2>1 DEF SafePath
<1>6. ASSUME NEW m \in {1, 2}, Len(segment) = m, \A i \in 1..m : segment[i] = Dot
      PROVE  FALSE
  <2>1. n = start + m /\ start + 1 \in DOMAIN path
    BY <1>2, <1>3, <1>4, <1>6
  <2>2. \A j \in (start + 1)..((start + 1) + m - 1) : path[j] = Dot
    <3> SUFFICES ASSUME NEW j \in (start + 1)..n PROVE path[j] = Dot
      BY <1>3, <2>1
    <3>1. j - start \in 1..m /\ segment[j - start] = path[start + (j - start)]
      BY <1>3, <1>4, <2>1
    <3> QED BY <1>3, <1>6, <3>1
  <2>3. /\ (start + 1) + m - 1 <= Len(path)
        /\ path[(start + 1) - 1] = Slash
        /\ (start + 1) + m - 1 = Len(path) \/ path[(start + 1) + m] = Slash
    BY <1>2, <1>3, <2>1
  <2>4. HasDotSegment(path)
    BY <2>1, <2>2, <2>3 DEF HasDotSegment
  <2> QED BY <2>4 DEF SafePath
<1>7. start < n => segment # <<>>
  BY <1>3, <1>4, EmptySeq
<1>8. segment # <<Dot>> /\ segment # <<Dot, Dot>>
  BY <1>6
<1> QED BY <1>4, <1>5, <1>7, <1>8 DEF segment

\* The steps of a scan that cuts at slashes.
LEMMA SlashStep ==
  ASSUME NEW path \in Path
  PROVE  LET s == Scan(path, Cuts(path, {Slash}))
         IN  /\ \A n \in 0..Len(path) : s[n].done \in Seq(Segment) /\ s[n].open \in Segment
             /\ s[0].done = <<>> /\ s[0].open = <<>>
             /\ \A n \in 1..Len(path) :
                  /\ path[n] = Slash => /\ s[n].done = Enter(s[n - 1].done, s[n - 1].open)
                                        /\ s[n].open = <<>>
                  /\ path[n] # Slash => /\ s[n].done = s[n - 1].done
                                        /\ s[n].open = Append(s[n - 1].open, path[n])
<1> DEFINE cuts == Cuts(path, {Slash})
           s == Scan(path, cuts)
<1>1. ASSUME NEW n \in 1..Len(path) PROVE n \in cuts <=> path[n] = Slash
  <2>1. DOMAIN path = 1..Len(path)
    BY DEF Path
  <2> QED BY <2>1 DEF Cuts
<1> HIDE DEF cuts
<1>2. s \in [0..Len(path) -> ScanState] /\ s[0] = [done |-> <<>>, open |-> <<>>]
  BY ScanStep
<1>3. ASSUME NEW n \in 1..Len(path)
      PROVE  s[n] = IF n \in cuts
                    THEN [done |-> Enter(s[n - 1].done, s[n - 1].open), open |-> <<>>]
                    ELSE [done |-> s[n - 1].done, open |-> Append(s[n - 1].open, path[n])]
  BY ScanStep
<1> HIDE DEF s
<1>4. \A n \in 0..Len(path) : s[n].done \in Seq(Segment) /\ s[n].open \in Segment
  BY <1>2 DEF ScanState
<1>5. ASSUME NEW n \in 1..Len(path)
      PROVE  /\ path[n] = Slash => /\ s[n].done = Enter(s[n - 1].done, s[n - 1].open)
                                   /\ s[n].open = <<>>
             /\ path[n] # Slash => /\ s[n].done = s[n - 1].done
                                   /\ s[n].open = Append(s[n - 1].open, path[n])
  <2>1. CASE path[n] = Slash
    <3>1. s[n] = [done |-> Enter(s[n - 1].done, s[n - 1].open), open |-> <<>>]
      BY <1>1, <1>3, <2>1
    <3> QED BY <2>1, <3>1
  <2>2. CASE path[n] # Slash
    <3>1. s[n] = [done |-> s[n - 1].done, open |-> Append(s[n - 1].open, path[n])]
      BY <1>1, <1>3, <2>2
    <3> QED BY <2>2, <3>1
  <2> QED BY <2>1, <2>2
<1>6. s[0].done = <<>> /\ s[0].open = <<>>
  BY <1>2
<1> QED BY <1>4, <1>5, <1>6, Zenon DEF s, cuts

\* Beyond a slash a safe path only goes down: what was done there stays.
LEMMA SafeScan ==
  ASSUME NEW path, SafePath(path), NEW k \in 1..Len(path), path[k] = Slash
  PROVE  LET s == Scan(path, Cuts(path, {Slash}))
         IN  \A n \in k..Len(path) : \E start \in k..n :
               /\ path[start] = Slash
               /\ s[n].open = SubSeq(path, start + 1, n)
               /\ start = k => s[n].done = s[k].done
               /\ start > k => IsStrictPrefix(s[k].done, s[n].done)
<1> DEFINE s == Scan(path, Cuts(path, {Slash}))
           Down(n, start) == /\ path[start] = Slash
                             /\ s[n].open = SubSeq(path, start + 1, n)
                             /\ start = k => s[n].done = s[k].done
                             /\ start > k => IsStrictPrefix(s[k].done, s[n].done)
           S == {j \in 0..(Len(path) - k) : \E start \in k..(k + j) : Down(k + j, start)}
<1>1. path \in Path /\ path \in Seq(Char) /\ Len(path) \in Nat /\ Len(path) - k \in Nat
  <2>1. path \in Seq(Char)
    BY DEF SafePath, Path, Char
  <2> QED BY <2>1 DEF SafePath
<1>2. /\ \A n \in 0..Len(path) : s[n].done \in Seq(Segment) /\ s[n].open \in Segment
      /\ \A n \in 1..Len(path) :
           /\ path[n] = Slash => /\ s[n].done = Enter(s[n - 1].done, s[n - 1].open)
                                 /\ s[n].open = <<>>
           /\ path[n] # Slash => /\ s[n].done = s[n - 1].done
                                 /\ s[n].open = Append(s[n - 1].open, path[n])
  BY <1>1, SlashStep
<1> HIDE DEF s
<1>3. Down(k, k)
  <2>1. SubSeq(path, k + 1, k) = <<>>
    BY SubSeqEmpty
  <2>2. s[k].open = <<>>
    BY <1>2
  <2>3. ~(k > k)
    BY <1>1
  <2> QED BY <2>1, <2>2, <2>3, Zenon
<1>4. 0 \in S
  <2>1. k + 0 = k /\ k \in k..(k + 0) /\ 0 \in 0..(Len(path) - k)
    BY <1>1
  <2> HIDE DEF Down
  <2>2. \E start \in k..(k + 0) : Down(k + 0, start)
    BY <1>3, <2>1
  <2> QED BY <2>1, <2>2
<1>5. ASSUME NEW n \in k..(Len(path) - 1), NEW start \in k..n, Down(n, start)
      PROVE  \E next \in k..(n + 1) : Down(n + 1, next)
  <2>1. /\ n \in 0..Len(path) /\ n + 1 \in 1..Len(path) /\ k \in 0..Len(path)
        /\ (n + 1) - 1 = n /\ start \in 1..Len(path) /\ n \in start..Len(path)
    BY <1>1
  <2>2. CASE path[n + 1] = Slash
    <3>1. s[n].open \notin {<<>>, <<Dot>>, <<Dot, Dot>>}
      <4>1. n < Len(path) /\ path[start] = Slash /\ s[n].open = SubSeq(path, start + 1, n)
        BY <1>1, <1>5
      <4>2. start < n => SubSeq(path, start + 1, n) \notin {<<>>, <<Dot>>, <<Dot, Dot>>}
        BY <2>1, <2>2, <4>1, SafeSegment
      <4>3. start < n
        BY <2>1, <2>2, <4>1, SafeSegment
      <4> QED BY <4>1, <4>2, <4>3
    <3>2. s[n + 1].done = Append(s[n].done, s[n].open) /\ s[n + 1].open = <<>>
      <4>1. s[n + 1].done = Enter(s[n].done, s[n].open) /\ s[n + 1].open = <<>>
        BY <1>2, <2>1, <2>2
      <4> QED BY <3>1, <4>1, EnterCases
    <3>3. IsStrictPrefix(s[k].done, s[n + 1].done)
      <4>1. s[k].done = s[n].done \/ IsStrictPrefix(s[k].done, s[n].done)
        BY <1>5
      <4>2. /\ s[k].done \in Seq(Segment) /\ s[n].done \in Seq(Segment)
            /\ s[n].open \in Segment
        BY <1>2, <2>1
      <4> QED BY <3>2, <4>1, <4>2, AppendIsLonger
    <3>4. SubSeq(path, (n + 1) + 1, n + 1) = <<>>
      BY <2>1, SubSeqEmpty
    <3>5. Down(n + 1, n + 1)
      BY <2>1, <2>2, <3>2, <3>3, <3>4
    <3> HIDE DEF Down
    <3> QED BY <2>1, <3>5
  <2>3. CASE path[n + 1] # Slash
    <3>1. s[n + 1].done = s[n].done /\ s[n + 1].open = Append(s[n].open, path[n + 1])
      BY <1>2, <2>1, <2>3
    <3>2. SubSeq(path, start + 1, n + 1) = Append(SubSeq(path, start + 1, n), path[n + 1])
      BY <1>1, <2>1
    <3>3. Down(n + 1, start)
      BY <1>5, <3>1, <3>2
    <3>4. start \in k..(n + 1)
      BY <2>1
    <3> HIDE DEF Down
    <3> QED BY <3>3, <3>4
  <2> QED BY <2>2, <2>3
<1>6. ASSUME NEW j \in 0..((Len(path) - k) - 1), j \in S PROVE j + 1 \in S
  <2> HIDE DEF Down
  <2>1. PICK start \in k..(k + j) : Down(k + j, start)
    BY <1>6
  <2>2. k + j \in k..(Len(path) - 1)
    BY <1>1
  <2>3. \E next \in k..((k + j) + 1) : Down((k + j) + 1, next)
    BY <1>5, <2>1, <2>2
  <2>4. (k + j) + 1 = k + (j + 1) /\ j + 1 \in 0..(Len(path) - k)
    BY <1>1
  <2> QED BY <2>3, <2>4
<1>7. 0..(Len(path) - k) \subseteq S
  <2> HIDE DEF S
  <2> QED BY <1>1, <1>4, <1>6, InductionUpTo
<1>8. ASSUME NEW n \in k..Len(path) PROVE \E start \in k..n : Down(n, start)
  <2>1. n - k \in 0..(Len(path) - k) /\ k + (n - k) = n
    BY <1>1
  <2> HIDE DEF Down
  <2> QED BY <1>7, <2>1
<1> QED BY <1>8 DEF s

\* The reading of a safe path is strictly below each of its slashes but a last.
LEMMA BelowSlash ==
  ASSUME NEW path, SafePath(path), NEW k \in 1..Len(path), path[k] = Slash, k < Len(path)
  PROVE  IsStrictPrefix(Scan(path, Cuts(path, {Slash}))[k].done,
                        Reading(path, Cuts(path, {Slash})))
<1> DEFINE s == Scan(path, Cuts(path, {Slash}))
           N == Len(path)
<1>1. path \in Path /\ N \in Nat /\ k \in 0..N /\ N \in 0..N /\ N \in k..N
  BY DEF SafePath, Path
<1>2. \A n \in 0..N : s[n].done \in Seq(Segment) /\ s[n].open \in Segment
  BY <1>1, SlashStep
<1>3. PICK start \in k..N :
        /\ path[start] = Slash
        /\ s[N].open = SubSeq(path, start + 1, N)
        /\ start = k => s[N].done = s[k].done
        /\ start > k => IsStrictPrefix(s[k].done, s[N].done)
  <2> HIDE DEF N
  <2> QED BY <1>1, SafeScan DEF N
<1>4. Reading(path, Cuts(path, {Slash})) = Enter(s[N].done, s[N].open)
  BY DEF Reading
<1>5. start \in 1..N /\ N \in start..N
  BY <1>1
<1> HIDE DEF s
<1>6. CASE start < N
  <2>1. s[N].open \notin {<<>>, <<Dot>>, <<Dot, Dot>>}
    BY <1>1, <1>3, <1>5, <1>6, SafeSegment
  <2>2. Enter(s[N].done, s[N].open) = Append(s[N].done, s[N].open)
    BY <2>1, EnterCases
  <2>3. s[k].done = s[N].done \/ IsStrictPrefix(s[k].done, s[N].done)
    BY <1>1, <1>3
  <2>4. IsStrictPrefix(s[k].done, Append(s[N].done, s[N].open))
    BY <1>1, <1>2, <2>3, AppendIsLonger
  <2> QED BY <1>4, <2>2, <2>4 DEF s
<1>7. CASE start = N
  <2>1. s[N].open = <<>>
    BY <1>1, <1>3, <1>7, SubSeqEmpty
  <2>2. Enter(s[N].done, s[N].open) = s[N].done
    BY <2>1, EnterCases
  <2>3. start > k
    BY <1>1, <1>7
  <2> QED BY <1>3, <1>4, <2>2, <2>3 DEF s
<1> QED BY <1>1, <1>5, <1>6, <1>7

\* A path that passes and that an entry matches is inside that entry in each of
\* its readings.
LEMMA MatchedIsInside ==
  ASSUME NEW entry \in TableEntry, NEW text \in Path,
         entry.wild => entry.path # <<>> /\ Last(entry.path) = Slash,
         ~UnsafePath(text), EntryMatchesPath(entry, Decode(text))
  PROVE  \A reading \in Readings(text) : Inside(entry, reading)
<1> DEFINE D == Decode(text)
           P == entry.path
<1> SUFFICES Inside(entry, Reading(D, Cuts(D, {Slash})))
  BY OneReading
<1>1. /\ SafePath(D) /\ D \in Path /\ P \in Path
      /\ Len(D) \in Nat /\ Len(P) \in Nat
      /\ DOMAIN D = 1..Len(D) /\ DOMAIN P = 1..Len(P)
  <2>1. SafePath(D) /\ D \in Path
    BY PassingIsSafe DEF SafePath
  <2>2. P \in Path
    BY DEF TableEntry
  <2> HIDE DEF D, P
  <2> QED BY <2>1, <2>2 DEF Path
<1>2. CASE ~entry.wild
  BY <1>2 DEF EntryMatchesPath, Inside, Home
<1>3. CASE entry.wild
  <2> DEFINE k == Len(P)
  <2>1. P # <<>> /\ Last(P) = Slash /\ IsStrictPrefix(P, D)
    BY <1>3 DEF EntryMatchesPath
  <2> HIDE DEF D, P
  <2>2. k \in 1..k /\ P[k] = Slash
    <3>1. k # 0
      BY <1>1, <2>1, EmptySeq DEF Path
    <3> QED BY <1>1, <2>1, <3>1 DEF Last
  <2>3. k < Len(D) /\ \A i \in 1..k : D[i] = P[i]
    <3>1. k <= Len(D) /\ SubSeq(P, 1, k) = SubSeq(D, 1, k) /\ P # D
      BY <2>1 DEF IsStrictPrefix, IsPrefix
    <3>2. \A i \in 1..k : SubSeq(P, 1, k)[i] = P[i] /\ SubSeq(D, 1, k)[i] = D[i]
      BY <1>1, <3>1 DEF Path
    <3>3. \A i \in 1..k : D[i] = P[i]
      BY <3>1, <3>2
    <3>4. k # Len(D)
      BY <1>1, <3>1, <3>3, SeqEqual DEF Path
    <3>5. k \in Nat /\ Len(D) \in Nat /\ k <= Len(D)
      BY <1>1, <3>1
    <3>6. k < Len(D)
      BY <3>4, <3>5
    <3> QED BY <3>3, <3>6
  <2>4. \A i \in 1..k : D[i] = P[i] /\ (i \in Cuts(D, {Slash}) <=> i \in Cuts(P, {Slash}))
    <3>1. \A i \in 1..k : i \in DOMAIN D /\ i \in DOMAIN P
      BY <1>1, <2>3
    <3> QED BY <2>3, <3>1 DEF Cuts
  <2>5. Scan(D, Cuts(D, {Slash}))[k] = Scan(P, Cuts(P, {Slash}))[k]
    <3>1. k \in 0..k /\ k <= Len(D)
      BY <1>1, <2>3
    <3>2. \A n \in 0..k : Scan(D, Cuts(D, {Slash}))[n] = Scan(P, Cuts(P, {Slash}))[n]
      <4> DEFINE cuts == Cuts(D, {Slash})
                 otherCuts == Cuts(P, {Slash})
      <4>1. \A i \in 1..Len(P) : D[i] = P[i] /\ (i \in cuts <=> i \in otherCuts)
        BY <2>4
      <4>2. D \in Path /\ P \in Path /\ Len(P) <= Len(D)
        BY <1>1, <3>1
      <4> HIDE DEF cuts, otherCuts, k
      <4>3. \A n \in 0..Len(P) : Scan(D, cuts)[n] = Scan(P, otherCuts)[n]
        BY <4>1, <4>2, ScansAgree
      <4> QED BY <4>3 DEF cuts, otherCuts, k
    <3> QED BY <3>1, <3>2
  <2>6. Home(entry) = Scan(P, Cuts(P, {Slash}))[k].done
    <3>1. Scan(P, Cuts(P, {Slash}))[k].open = <<>>
      BY <1>1, <2>2, SlashStep
    <3>2. Home(entry) = Enter(Scan(P, Cuts(P, {Slash}))[k].done, Scan(P, Cuts(P, {Slash}))[k].open)
      BY DEF Home, Reading, P
    <3> QED BY <3>1, <3>2, EnterCases
  <2>7. k \in 1..Len(D) /\ D[k] = Slash
    BY <1>1, <2>2, <2>3
  <2>8. IsStrictPrefix(Scan(D, Cuts(D, {Slash}))[k].done, Reading(D, Cuts(D, {Slash})))
    BY <1>1, <2>3, <2>7, BelowSlash
  <2> QED BY <1>3, <2>5, <2>6, <2>8 DEF Inside
<1> QED BY <1>2, <1>3

(***************************************************************************)
(* A plainly written path is not unsafe, and is matched when it is inside. *)
(***************************************************************************)

\* What a reading is made of.
Name == {segment \in Segment : /\ segment \notin {<<>>, <<Dot>>, <<Dot, Dot>>}
                              /\ \A i \in 1..Len(segment) : segment[i] # Slash}

LEMMA EnterNames ==
  ASSUME NEW done \in Seq(Name), NEW segment \in Segment,
         \A i \in 1..Len(segment) : segment[i] # Slash
  PROVE  Enter(done, segment) \in Seq(Name)
<1>1. done # <<>> => Front(done) \in Seq(Name)
  <2> SUFFICES ASSUME done # <<>> PROVE SubSeq(done, 1, Len(done) - 1) \in Seq(Name)
    BY DEF Front
  <2>1. Len(done) - 1 \in Int /\ \A i \in 1..(Len(done) - 1) : done[i] \in Name
    OBVIOUS
  <2> QED BY <2>1, SubSeqProperties
<1>2. segment \notin {<<>>, <<Dot>>, <<Dot, Dot>>} => Append(done, segment) \in Seq(Name)
  <2> SUFFICES ASSUME segment \in Name PROVE Append(done, segment) \in Seq(Name)
    BY DEF Name
  <2> QED OBVIOUS
<1> QED BY <1>1, <1>2 DEF Enter

\* No segment of a reading is empty or dots, or has a slash.
LEMMA ReadingNames ==
  ASSUME NEW path \in Path
  PROVE  Reading(path, Cuts(path, {Slash})) \in Seq(Name)
<1> DEFINE s == Scan(path, Cuts(path, {Slash}))
           Clean(state) == /\ state.done \in Seq(Name)
                           /\ \A i \in 1..Len(state.open) : state.open[i] # Slash
           S == {n \in 0..Len(path) : Clean(s[n])}
<1>1. Len(path) \in Nat
  BY DEF Path
<1>2. /\ \A n \in 0..Len(path) : s[n].done \in Seq(Segment) /\ s[n].open \in Segment
      /\ s[0].done = <<>> /\ s[0].open = <<>>
      /\ \A n \in 1..Len(path) :
           /\ path[n] = Slash => /\ s[n].done = Enter(s[n - 1].done, s[n - 1].open)
                                 /\ s[n].open = <<>>
           /\ path[n] # Slash => /\ s[n].done = s[n - 1].done
                                 /\ s[n].open = Append(s[n - 1].open, path[n])
  BY SlashStep
<1>3. Reading(path, Cuts(path, {Slash})) = Enter(s[Len(path)].done, s[Len(path)].open)
  BY DEF Reading
<1> HIDE DEF s
<1>4. 0 \in S
  <2>1. Len(s[0].open) = 0 /\ s[0].done \in Seq(Name)
    BY <1>2
  <2> QED BY <1>1, <2>1
<1>5. ASSUME NEW n \in 0..(Len(path) - 1), n \in S PROVE n + 1 \in S
  <2>1. /\ n + 1 \in 0..Len(path) /\ n + 1 \in 1..Len(path) /\ (n + 1) - 1 = n
        /\ n \in 0..Len(path)
    BY <1>1
  <2>2. s[n].open \in Segment /\ Clean(s[n])
    BY <1>2, <1>5, <2>1
  <2>3. CASE path[n + 1] = Slash
    <3>1. s[n + 1].done = Enter(s[n].done, s[n].open) /\ s[n + 1].open = <<>>
      BY <1>2, <2>1, <2>3
    <3>2. Enter(s[n].done, s[n].open) \in Seq(Name)
      BY <2>2, EnterNames
    <3>3. Clean(s[n + 1])
      BY <3>1, <3>2
    <3> HIDE DEF Clean
    <3> QED BY <2>1, <3>3
  <2>4. CASE path[n + 1] # Slash
    <3>1. s[n + 1].done = s[n].done /\ s[n + 1].open = Append(s[n].open, path[n + 1])
      BY <1>2, <2>1, <2>4
    <3> DEFINE open == s[n].open
    <3>2. \A i \in 1..Len(Append(open, path[n + 1])) : Append(open, path[n + 1])[i] # Slash
      <4>1. open \in Seq(Char) /\ \A i \in 1..Len(open) : open[i] # Slash
        BY <2>2 DEF Segment
      <4> HIDE DEF open
      <4>2. ASSUME NEW i \in 1..Len(Append(open, path[n + 1]))
            PROVE  Append(open, path[n + 1])[i] # Slash
        <5>1. CASE i = Len(open) + 1
          BY <2>4, <4>1, <5>1
        <5>2. CASE i # Len(open) + 1
          BY <4>1, <5>2
        <5> QED BY <5>1, <5>2
      <4> QED BY <4>2
    <3>3. Clean(s[n + 1])
      BY <2>2, <3>1, <3>2
    <3> HIDE DEF Clean
    <3> QED BY <2>1, <3>3
  <2> QED BY <2>3, <2>4
<1>6. Len(path) \in S
  <2> HIDE DEF S
  <2>1. 0..Len(path) \subseteq S
    BY <1>1, <1>4, <1>5, InductionUpTo
  <2> QED BY <1>1, <2>1
<1> QED BY <1>1, <1>2, <1>3, <1>6, EnterNames

\* Writing one more segment.
LEMMA SlashJoin ==
  ASSUME NEW before \in Path, NEW segment \in Segment
  PROVE  /\ before \o <<Slash>> \o segment \in Path
         /\ before \o <<Slash>> \in Path
         /\ Len(before \o <<Slash>> \o segment) = Len(before) + 1 + Len(segment)
         /\ \A i \in 1..Len(before) : (before \o <<Slash>> \o segment)[i] = before[i]
         /\ (before \o <<Slash>> \o segment)[Len(before) + 1] = Slash
         /\ \A i \in 1..Len(segment) :
              (before \o <<Slash>> \o segment)[Len(before) + 1 + i] = segment[i]
<1>1. before \in Seq(Char) /\ segment \in Seq(Char) /\ Slash \in Char
  <2>1. Slash \in Char
    <3>1. 0 \in Nat
      OBVIOUS
    <3> QED BY <3>1, Zenon DEF Char, Slash, Plain
  <2> QED BY <2>1 DEF Path, Segment, Char
<1>2. <<Slash>> \in Seq(Char) /\ Len(<<Slash>>) = 1 /\ <<Slash>>[1] = Slash
  BY <1>1
<1> DEFINE one == <<Slash>>
<1> HIDE DEF one
<1>3. one \in Seq(Char) /\ Len(one) = 1 /\ one[1] = Slash
  BY <1>2 DEF one
<1> DEFINE left == before \o one
<1>4. /\ left \in Seq(Char) /\ Len(left) = Len(before) + 1
      /\ \A i \in 1..Len(before) : left[i] = before[i]
      /\ left[Len(before) + 1] = Slash
  <2>1. /\ left \in Seq(Char) /\ Len(left) = Len(before) + Len(one)
        /\ \A i \in 1..(Len(before) + Len(one)) :
             left[i] = IF i <= Len(before) THEN before[i] ELSE one[i - Len(before)]
    BY <1>1, <1>3, ConcatProperties
  <2>2. Len(before) \in Nat
    BY <1>1
  <2> HIDE DEF left
  <2>3. Len(before) + 1 - Len(before) = 1 /\ Len(before) + 1 \in 1..(Len(before) + Len(one))
    BY <1>3, <2>2
  <2>4. left[Len(before) + 1] = one[1]
    BY <2>1, <2>2, <2>3
  <2> QED BY <1>3, <2>1, <2>2, <2>4
<1> HIDE DEF left
<1>5. /\ left \o segment \in Seq(Char)
      /\ Len(left \o segment) = Len(before) + 1 + Len(segment)
      /\ \A i \in 1..(Len(before) + 1) : (left \o segment)[i] = left[i]
      /\ \A i \in 1..Len(segment) : (left \o segment)[Len(before) + 1 + i] = segment[i]
  BY <1>1, <1>4
<1>6. Len(before) \in Nat
  BY <1>1
<1>7. /\ \A i \in 1..Len(before) : (left \o segment)[i] = before[i]
      /\ (left \o segment)[Len(before) + 1] = Slash
  BY <1>4, <1>5, <1>6
<1> QED BY <1>4, <1>5, <1>7 DEF Path, Char, left, one

LEMMA WrittenSteps ==
  ASSUME NEW segments \in Seq(Segment)
  PROVE  \E w \in [0..Len(segments) -> Path] :
           /\ w[0] = <<>>
           /\ \A n \in 1..Len(segments) : w[n] = w[n - 1] \o <<Slash>> \o segments[n]
           /\ Written(segments) = w[Len(segments)]
<1> DEFINE N == Len(segments)
           first == <<>>
           Go(n, before) == before \o <<Slash>> \o segments[n]
           step == [n \in 1..N |-> [before \in Path |-> Go(n, before)]]
           Is(f) == f = [n \in 0..N |-> IF n = 0 THEN first ELSE Go(n, f[n - 1])]
<1>1. N \in Nat
  OBVIOUS
<1>2. step \in [1..N -> [Path -> Path]]
  <2>1. \A n \in 1..N : \A before \in Path : Go(n, before) \in Path
    <3> SUFFICES ASSUME NEW n \in 1..N, NEW before \in Path PROVE Go(n, before) \in Path
      OBVIOUS
    <3>1. segments[n] \in Segment
      OBVIOUS
    <3> QED BY <3>1, SlashJoin
  <2> HIDE DEF Go
  <2> QED BY <2>1
<1>3. PICK f \in [0..N -> Path] : f[0] = first /\ \A n \in 1..N : f[n] = step[n][f[n - 1]]
  <2>1. first \in Path
    BY DEF Path
  <2> HIDE DEF first, step, N
  <2> QED BY <1>1, <1>2, <2>1, Iteration
<1>4. Is(f)
  <2>1. ASSUME NEW n \in 0..N, n # 0 PROVE step[n][f[n - 1]] = Go(n, f[n - 1])
    <3>1. n \in 1..N /\ f[n - 1] \in Path
      BY <1>1, <2>1
    <3> HIDE DEF Go
    <3> QED BY <3>1
  <2>2. \A n \in 0..N : n # 0 => n \in 1..N
    BY <1>1
  <2> HIDE DEF step, Go, first
  <2> QED BY <1>3, <2>1, <2>2
<1> DEFINE w == CHOOSE g : Is(g)
<1>5. Is(w)
  BY <1>4
<1>6. Written(segments) = w[N]
  BY DEF Written
<1> HIDE DEF w
<1>7. w[0] = <<>> /\ \A n \in 1..N : w[n] = Go(n, w[n - 1])
  <2> HIDE DEF Go
  <2> QED BY <1>1, <1>5
<1>8. w \in [0..N -> Path]
  <2> DEFINE S == {n \in 0..N : w[n] \in Path}
  <2>1. 0 \in S
    <3>1. <<>> \in Path /\ 0 \in 0..N
      BY <1>1 DEF Path
    <3>2. w[0] \in Path
      BY <1>7, <3>1, Zenon
    <3> QED BY <3>1, <3>2
  <2>2. ASSUME NEW n \in 0..(N - 1), n \in S PROVE n + 1 \in S
    <3>1. n + 1 \in 1..N /\ (n + 1) - 1 = n /\ w[n] \in Path
      BY <1>1, <2>2
    <3>2. segments[n + 1] \in Segment /\ w[n + 1] = Go(n + 1, w[n])
      BY <1>7, <3>1
    <3>3. w[n + 1] \in Path
      BY <3>1, <3>2, SlashJoin
    <3> QED BY <3>1, <3>3
  <2>3. 0..N \subseteq S
    <3> HIDE DEF S, N
    <3> QED BY <1>1, <2>1, <2>2, InductionUpTo
  <2>4. \A n \in 0..N : w[n] \in Path
    BY <2>3
  <2> HIDE DEF Go
  <2> QED BY <1>5, <2>4
<1> QED BY <1>6, <1>7, <1>8

\* A path that unsafePath has nothing to say of and that another segment may
\* be written behind.
Clean(path) ==
  /\ path \in Path
  /\ path # <<>> => path[Len(path)] # Slash
  /\ \A i \in 1..(Len(path) - 1) : ~(path[i] = Slash /\ path[i + 1] = Slash)
  /\ ~HasDotSegment(path)

\* Segments are the same when their characters are.
LEMMA DotsSegment ==
  ASSUME NEW segment \in Name, NEW n \in {1, 2}, Len(segment) = n
  PROVE  \E i \in 1..n : segment[i] # Dot
<1> SUFFICES ASSUME \A i \in 1..n : segment[i] = Dot PROVE FALSE
  OBVIOUS
<1>1. segment \in Seq(Char) /\ segment # <<Dot>> /\ segment # <<Dot, Dot>>
  BY DEF Name, Segment
<1>2. CASE n = 1
  <2>1. segment[1] = Dot /\ Len(segment) = 1
    BY <1>2
  <2> QED BY <1>1, <2>1
<1>3. CASE n = 2
  <2>1. segment[1] = Dot /\ segment[2] = Dot /\ Len(segment) = 2
    BY <1>3
  <2> QED BY <1>1, <2>1
<1> QED BY <1>2, <1>3

LEMMA JoinIsClean ==
  ASSUME NEW before, Clean(before), NEW segment \in Name
  PROVE  Clean(before \o <<Slash>> \o segment)
<1> DEFINE path == before \o <<Slash>> \o segment
           L == Len(before)
           G == Len(segment)
<1>1. /\ before \in Path /\ segment \in Segment /\ L \in Nat /\ G \in Nat
      /\ \A i \in 1..G : segment[i] # Slash
  BY DEF Clean, Path, Name, Segment
<1>2. G # 0
  BY EmptySeq DEF Name, Segment
<1>3. /\ path \in Path /\ Len(path) = L + 1 + G
      /\ \A i \in 1..L : path[i] = before[i]
      /\ path[L + 1] = Slash
      /\ \A i \in 1..G : path[L + 1 + i] = segment[i]
  BY <1>1, SlashJoin
<1>4. L # 0 => before[L] # Slash
  BY <1>1, EmptySeq DEF Clean, Path
<1>5. \A i \in 1..(L - 1) : ~(before[i] = Slash /\ before[i + 1] = Slash)
  BY DEF Clean
<1> DEFINE N == Len(path)
<1>6. N \in Nat /\ N = L + 1 + G /\ DOMAIN path = 1..N /\ DOMAIN before = 1..L
  BY <1>1, <1>3 DEF Path
<1> HIDE DEF path, L, G, N
<1>7. \A i \in (L + 2)..N : path[i] # Slash /\ path[i] = segment[i - L - 1]
  <2> SUFFICES ASSUME NEW i \in (L + 2)..N
               PROVE  path[i] # Slash /\ path[i] = segment[i - L - 1]
    OBVIOUS
  <2>1. i - L - 1 \in 1..G /\ L + 1 + (i - L - 1) = i
    BY <1>1, <1>6
  <2> QED BY <1>1, <1>3, <2>1
<1>8. path[N] # Slash
  <2>1. N \in (L + 2)..N
    BY <1>1, <1>2, <1>6
  <2> QED BY <1>7, <2>1
<1>9. ASSUME NEW i \in 1..(N - 1), path[i] = Slash, path[i + 1] = Slash
      PROVE  FALSE
  <2>1. CASE i < L
    <3>1. i \in 1..L /\ i + 1 \in 1..L /\ i \in 1..(L - 1)
      BY <1>1, <2>1
    <3> QED BY <1>3, <1>5, <1>9, <3>1
  <2>2. CASE i = L
    <3>1. i \in 1..L /\ L # 0
      BY <1>1, <2>2
    <3> QED BY <1>3, <1>4, <1>9, <2>2, <3>1
  <2>3. CASE i > L
    <3>1. i + 1 \in (L + 2)..N
      BY <1>1, <1>6, <2>3
    <3> QED BY <1>7, <1>9, <3>1
  <2> QED BY <1>1, <2>1, <2>2, <2>3
<1>10. ASSUME HasDotSegment(path) PROVE FALSE
  <2>1. PICK i \in 1..N, n \in {1, 2} :
          /\ i + n - 1 <= N
          /\ \A j \in i..(i + n - 1) : path[j] = Dot
          /\ i = 1 \/ path[i - 1] = Slash
          /\ i + n - 1 = N \/ path[i + n] = Slash
    BY <1>6, <1>10, Zenon DEF HasDotSegment, N
  <2>2. Dot # Slash
    BY DEF Dot, Slash, Plain
  <2>3. i \in Nat /\ n \in Nat /\ i + n \in Nat
    BY <1>1, <1>6
  <2>4. CASE i + n - 1 <= L
    <3>1. \A j \in i..(i + n - 1) : before[j] = Dot
      <4>1. \A j \in i..(i + n - 1) : j \in 1..L
        BY <1>1, <2>3, <2>4
      <4> QED BY <1>3, <2>1, <4>1
    <3>2. i = 1 \/ before[i - 1] = Slash
      <4>1. i # 1 => i - 1 \in 1..L
        BY <1>1, <2>3, <2>4
      <4> QED BY <1>3, <2>1, <4>1
    <3>3. i + n - 1 = L \/ before[i + n] = Slash
      <4>1. i + n - 1 # L => i + n \in 1..L /\ i + n - 1 # N
        BY <1>1, <1>6, <2>3, <2>4
      <4> QED BY <1>3, <2>1, <4>1
    <3>4. i \in DOMAIN before
      BY <1>1, <1>6, <2>3, <2>4
    <3>5. HasDotSegment(before)
      BY <2>4, <3>1, <3>2, <3>3, <3>4, Zenon DEF HasDotSegment, L
    <3> QED BY <3>5 DEF Clean
  <2>5. CASE i <= L + 1 /\ L + 1 <= i + n - 1
    <3>1. L + 1 \in i..(i + n - 1)
      BY <1>1, <2>3, <2>5
    <3> QED BY <1>3, <2>1, <2>2, <3>1
  <2>6. CASE i > L + 1
    <3>1. i - 1 = L + 1
      <4>1. i # 1 /\ (i - 1 # L + 1 => i - 1 \in (L + 2)..N)
        BY <1>1, <1>6, <2>3, <2>6
      <4> QED BY <1>7, <2>1, <4>1
    <3>2. i + n - 1 = N
      <4>1. i + n - 1 # N => i + n \in (L + 2)..N
        BY <1>1, <1>6, <2>1, <2>3, <2>6
      <4> QED BY <1>7, <2>1, <4>1
    <3>3. G = n
      BY <1>1, <1>6, <2>3, <3>1, <3>2
    <3>4. ASSUME NEW j \in 1..n PROVE segment[j] = Dot
      <4>1. j \in 1..G /\ L + 1 + j \in i..(i + n - 1)
        BY <1>1, <2>3, <3>1, <3>3
      <4> QED BY <1>3, <2>1, <4>1
    <3> QED BY <2>1, <3>3, <3>4, DotsSegment DEF G
  <2> QED BY <1>1, <2>3, <2>4, <2>5, <2>6
<1> QED BY <1>3, <1>8, <1>9, <1>10 DEF Clean, path, N

LEMMA WrittenIsClean ==
  ASSUME NEW segments \in Seq(Name)
  PROVE  Clean(Written(segments))
<1> DEFINE N == Len(segments)
<1>1. /\ segments \in Seq(Segment) /\ N \in Nat
      /\ \A n \in 1..N : segments[n] \in Name
  BY DEF Name
<1>2. PICK w \in [0..N -> Path] :
        /\ w[0] = <<>>
        /\ \A n \in 1..N : w[n] = w[n - 1] \o <<Slash>> \o segments[n]
        /\ Written(segments) = w[N]
  BY <1>1, WrittenSteps
<1> DEFINE S == {n \in 0..N : Clean(w[n])}
<1>3. 0 \in S
  <2>1. Len(<<>>) = 0 /\ <<>> \in Path
    BY DEF Path
  <2>2. ~HasDotSegment(<<>>)
    BY DEF HasDotSegment
  <2>3. Clean(<<>>)
    BY <2>1, <2>2 DEF Clean
  <2> QED BY <1>1, <1>2, <2>3
<1>4. ASSUME NEW n \in 0..(N - 1), n \in S PROVE n + 1 \in S
  <2>1. n + 1 \in 1..N /\ n + 1 \in 0..N /\ (n + 1) - 1 = n
    BY <1>1
  <2>2. w[n + 1] = w[n] \o <<Slash>> \o segments[n + 1] /\ segments[n + 1] \in Name
    BY <1>1, <1>2, <2>1
  <2>3. Clean(w[n + 1])
    BY <1>4, <2>2, JoinIsClean
  <2> QED BY <2>1, <2>3
<1>5. N \in S
  <2> HIDE DEF S, N
  <2>1. 0..N \subseteq S
    BY <1>1, <1>3, <1>4, InductionUpTo
  <2> QED BY <1>1, <2>1
<1> QED BY <1>2, <1>5

\* What is written of the first segments stands at the head of what is written
\* of all, with a slash behind it.
LEMMA WrittenBelow ==
  ASSUME NEW home \in Seq(Name), NEW segments \in Seq(Name), IsStrictPrefix(home, segments)
  PROVE  IsStrictPrefix(Written(home) \o <<Slash>>, Written(segments))
<1> DEFINE H == Len(home)
           N == Len(segments)
<1>1. /\ home \in Seq(Segment) /\ segments \in Seq(Segment) /\ H \in Nat /\ N \in Nat
      /\ \A n \in 1..N : segments[n] \in Name
  BY DEF Name
<1>2. H < N /\ \A n \in 1..H : home[n] = segments[n]
  <2>1. H <= N /\ SubSeq(home, 1, H) = SubSeq(segments, 1, H) /\ home # segments
    BY DEF IsStrictPrefix, IsPrefix
  <2>2. \A n \in 1..H : SubSeq(home, 1, H)[n] = home[n] /\ SubSeq(segments, 1, H)[n] = segments[n]
    BY <1>1, <2>1
  <2>3. \A n \in 1..H : home[n] = segments[n]
    BY <2>1, <2>2
  <2>4. H # N
    BY <1>1, <2>1, <2>3, SeqEqual
  <2> HIDE DEF H, N
  <2> QED BY <1>1, <2>1, <2>3, <2>4
<1>3. PICK v \in [0..H -> Path] :
        /\ v[0] = <<>>
        /\ \A n \in 1..H : v[n] = v[n - 1] \o <<Slash>> \o home[n]
        /\ Written(home) = v[H]
  BY <1>1, WrittenSteps
<1>4. PICK w \in [0..N -> Path] :
        /\ w[0] = <<>>
        /\ \A n \in 1..N : w[n] = w[n - 1] \o <<Slash>> \o segments[n]
        /\ Written(segments) = w[N]
  BY <1>1, WrittenSteps
<1> HIDE DEF H, N
<1>5. v[H] = w[H]
  <2> DEFINE S == {n \in 0..H : v[n] = w[n]}
  <2>1. 0 \in S
    BY <1>1, <1>3, <1>4
  <2>2. ASSUME NEW n \in 0..(H - 1), n \in S PROVE n + 1 \in S
    <3>1. n + 1 \in 1..H /\ n + 1 \in 0..H /\ n + 1 \in 1..N /\ (n + 1) - 1 = n
      BY <1>1, <1>2
    <3>2. /\ v[n + 1] = v[n] \o <<Slash>> \o home[n + 1]
          /\ w[n + 1] = w[n] \o <<Slash>> \o segments[n + 1]
          /\ home[n + 1] = segments[n + 1] /\ v[n] = w[n]
      BY <1>2, <1>3, <1>4, <2>2, <3>1
    <3> QED BY <3>1, <3>2
  <2> HIDE DEF S
  <2>3. H \in S
    <3>1. 0..H \subseteq S
      BY <1>1, <2>1, <2>2, InductionUpTo
    <3> QED BY <1>1, <3>1
  <2> QED BY <2>3 DEF S
<1> DEFINE folder == v[H] \o <<Slash>>
           Below(path) == folder \in Path /\ IsStrictPrefix(folder, path)
\* More characters behind it change nothing.
<1>6. ASSUME NEW before \in Path, NEW segment \in Name,
             before = v[H] \/ Below(before)
      PROVE  Below(before \o <<Slash>> \o segment)
  <2> DEFINE path == before \o <<Slash>> \o segment
             L == Len(before)
             F == Len(folder)
  <2>1. /\ segment \in Segment /\ Len(segment) \in Nat \ {0} /\ L \in Nat
        /\ v[H] \in Path /\ H \in 0..H
    BY <1>1, EmptySeq DEF Name, Segment, Path
  <2>2. /\ path \in Path /\ before \o <<Slash>> \in Path
        /\ Len(path) = L + 1 + Len(segment)
        /\ \A i \in 1..L : path[i] = before[i]
        /\ path[L + 1] = Slash
    BY <2>1, SlashJoin
  <2>3. folder \in Path /\ F \in Nat
    <3>1. <<>> \in Segment
      BY DEF Segment
    <3> QED BY <2>1, <3>1, SlashJoin DEF Path
  <2>4. F <= L + 1 /\ \A i \in 1..F : path[i] = folder[i]
    <3>1. CASE before = v[H]
      <4>1. folder = before \o <<Slash>> /\ before \in Seq(Char) /\ folder \in Seq(Char)
        BY <2>3, <3>1 DEF Path
      <4>2. F = L + 1 /\ (\A i \in 1..L : folder[i] = before[i]) /\ folder[L + 1] = Slash
        <5> HIDE DEF folder
        <5> QED BY <4>1
      <4> HIDE DEF path, F, L, folder
      <4>3. F <= L + 1 /\ \A i \in 1..F : i \in 1..L \/ i = L + 1
        BY <2>1, <4>2
      <4>4. path[L + 1] = folder[L + 1] /\ \A i \in 1..L : path[i] = folder[i]
        BY <2>2, <4>2
      <4> QED BY <4>3, <4>4
    <3>2. CASE Below(before)
      <4> HIDE DEF folder, path
      <4>1. F <= L /\ SubSeq(folder, 1, F) = SubSeq(before, 1, F)
        BY <3>2 DEF IsStrictPrefix, IsPrefix
      <4>2. \A i \in 1..F : SubSeq(folder, 1, F)[i] = folder[i] /\ SubSeq(before, 1, F)[i] = before[i]
        BY <2>1, <2>3, <4>1 DEF Path
      <4> HIDE DEF F, L
      <4> QED BY <2>1, <2>2, <2>3, <4>1, <4>2
    <3> QED BY <1>6, <3>1, <3>2
  <2> HIDE DEF folder, path
  <2>5. F <= Len(path) /\ F # Len(path)
    BY <2>1, <2>2, <2>3, <2>4
  <2>6. SubSeq(folder, 1, F) = SubSeq(path, 1, F)
    <3>1. SubSeq(folder, 1, F) = [i \in 1..F |-> folder[i]] /\ SubSeq(path, 1, F) = [i \in 1..F |-> path[i]]
      BY <2>2, <2>3, <2>5 DEF Path
    <3> QED BY <2>4, <3>1
  <2>7. folder # path
    BY <2>5
  <2> QED BY <2>3, <2>5, <2>6, <2>7 DEF IsStrictPrefix, IsPrefix, path
<1>7. ASSUME NEW n \in H..(N - 1), w[n] = v[H] \/ Below(w[n]) PROVE Below(w[n + 1])
  <2>1. n + 1 \in 1..N /\ n \in 0..N /\ (n + 1) - 1 = n
    BY <1>1
  <2>2. w[n + 1] = w[n] \o <<Slash>> \o segments[n + 1] /\ segments[n + 1] \in Name /\ w[n] \in Path
    BY <1>1, <1>4, <2>1
  <2> HIDE DEF Below
  <2> QED BY <1>6, <1>7, <2>2
<1>8. Below(w[N])
  <2> HIDE DEF Below
  <2> DEFINE S == {j \in 0..(N - H - 1) : Below(w[H + 1 + j])}
  <2>1. 0 \in S
    <3>1. H \in H..(N - 1) /\ H + 1 + 0 = H + 1 /\ 0 \in 0..(N - H - 1)
      BY <1>1, <1>2
    <3> QED BY <1>5, <1>7, <3>1
  <2>2. ASSUME NEW j \in 0..((N - H - 1) - 1), j \in S PROVE j + 1 \in S
    <3>1. /\ H + 1 + j \in H..(N - 1) /\ (H + 1 + j) + 1 = H + 1 + (j + 1)
          /\ j + 1 \in 0..(N - H - 1)
      BY <1>1, <1>2
    <3> QED BY <1>7, <2>2, <3>1
  <2> HIDE DEF S
  <2>3. N - H - 1 \in S
    <3>1. N - H - 1 \in Nat
      BY <1>1, <1>2
    <3>2. 0..(N - H - 1) \subseteq S
      BY <2>1, <2>2, <3>1, InductionUpTo
    <3> QED BY <3>1, <3>2
  <2>4. H + 1 + (N - H - 1) = N
    BY <1>1
  <2> QED BY <2>3, <2>4 DEF S
<1> QED BY <1>3, <1>4, <1>8

\* A plainly written path is not unsafe, and is read as it is written.
LEMMA CanonicalIsSafe ==
  ASSUME NEW text \in Path, Canonical(text)
  PROVE  /\ ~UnsafePath(text) /\ Decode(text) = text
         /\ Reading(text, Cuts(text, {Slash})) \in Readings(text)
<1>1. Decode(text) = text
  <2>1. ASSUME NEW i \in 1..Len(text) PROVE Decode(text)[i] = text[i]
    <3>1. text[i] \in Char /\ i \in DOMAIN text
      BY DEF Path
    <3>2. text[i].depth = 0
      BY <3>1 DEF Canonical
    <3>3. Decode(text)[i] = [char |-> text[i].char, depth |-> 0]
      BY <3>1, <3>2, DecodeType
    <3> QED BY <3>1, <3>2, <3>3 DEF Char
  <2>2. Decode(text) \in Path /\ Len(Decode(text)) = Len(text)
    BY DecodeType
  <2> QED BY <2>1, <2>2, SeqEqual, Zenon DEF Path
<1>2. Clean(text)
  <2>1. text = Written(Reading(text, Cuts(text, {Slash})))
    BY DEF Canonical
  <2>2. Reading(text, Cuts(text, {Slash})) \in Seq(Name)
    BY ReadingNames
  <2> QED BY <2>1, <2>2, WrittenIsClean
<1>3. ~UnsafePath(text)
  <2>1. \A i \in DOMAIN text : text[i].depth = 0 /\ text[i].char # "\\"
    BY DEF Canonical
  <2>2. \A i \in 1..(Len(text) - 1) : ~(text[i] = Slash /\ text[i + 1] = Slash)
    BY <1>2 DEF Clean
  <2>3. ~HasDotSegment(text)
    BY <1>2 DEF Clean
  <2> QED BY <1>1, <2>1, <2>2, <2>3 DEF UnsafePath
<1>4. Reading(text, Cuts(text, {Slash})) \in Readings(text)
  BY <1>1 DEF Readings
<1> QED BY <1>1, <1>3, <1>4

\* A plainly written path that is inside a plainly written entry is one that the
\* entry matches.
LEMMA InsideIsMatched ==
  ASSUME NEW entry \in TableEntry, NEW text \in Path, Canonical(text),
         entry.path = IF entry.wild THEN Written(Home(entry)) \o <<Slash>>
                                    ELSE Written(Home(entry)),
         \A reading \in Readings(text) : Inside(entry, reading)
  PROVE  EntryMatchesPath(entry, Decode(text))
<1> DEFINE reading == Reading(text, Cuts(text, {Slash}))
<1>1. Inside(entry, reading) /\ Decode(text) = text
  BY CanonicalIsSafe
<1>2. text = Written(reading)
  BY DEF Canonical
<1>3. reading \in Seq(Name) /\ Home(entry) \in Seq(Name)
  <2>1. entry.path \in Path
    BY DEF TableEntry
  <2> QED BY <2>1, ReadingNames DEF Home
<1> HIDE DEF reading
<1>4. CASE entry.wild
  <2>1. IsStrictPrefix(Home(entry), reading) /\ entry.path = Written(Home(entry)) \o <<Slash>>
    BY <1>1, <1>4 DEF Inside
  <2>2. IsStrictPrefix(entry.path, text)
    BY <1>2, <1>3, <2>1, WrittenBelow
  <2> QED BY <1>1, <1>4, <2>2 DEF EntryMatchesPath
<1>5. CASE ~entry.wild
  <2>1. reading = Home(entry) /\ entry.path = Written(Home(entry))
    BY <1>1, <1>5 DEF Inside
  <2> QED BY <1>1, <1>2, <1>5, <2>1 DEF EntryMatchesPath
<1> QED BY <1>4, <1>5
==============================================================================
