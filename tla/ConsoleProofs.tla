---------------------------- MODULE ConsoleProofs ----------------------------
(***************************************************************************)
(* Proofs about Console: for any tests, any replies, any losses and any    *)
(* reads, the output of a command is what was printed for it.              *)
(*                                                                         *)
(* What the machine prints for the current command, its Segment, is at any *)
(* time in three parts: the characters received, the reads in the queue,   *)
(* and what the terminal still holds (Flow).  Recv has cut the first part  *)
(* into its lines (Cut), and Expect's buffer is the end of it (Received).  *)
(* A prompt's end is the last character of a segment, so when Run matches  *)
(* the prompt all of the segment is received, and the machine waits for    *)
(* the next line (Segments, PromptFound).  It cannot be further than that: *)
(* the newline of a command is heard once, for it is only sent again while *)
(* nothing of the segment ends a line (Ready, Unsent).                     *)
(*                                                                         *)
(* A test is refused for a reason: the list of lines is at any time some   *)
(* lines that the loop put in and the rest of what the test asks for       *)
(* (Expanding), and, if there is a session for the test, what was put in   *)
(* leads from the environment at hand to another that can be reached, and  *)
(* leaves the kernel only when nothing is left to do.                      *)
(*                                                                         *)
(* A verdict is deserved: the list that was made is a session, in which    *)
(* each command belongs to the environment that the ones before it lead to *)
(* (Sessions, Listed).  As long as what is lost is sent again, the machine *)
(* is in that environment (InSession), has run the commands before the     *)
(* current one and is on its way to that one (Ran, OnItsWay), and Expect's *)
(* buffer begins behind the echoes that were matched (Buffered), so that   *)
(* an echo that does not come was lost (NotHeard), and a prompt that does  *)
(* not come is a fault of the machine (NoPrompt).  What the output lines   *)
(* are is known from the first part, and what evaluate makes of them from  *)
(* JudgeIsFair.                                                            *)
(***************************************************************************)
EXTENDS Console, FiniteSetTheorems, WellFoundedInduction, SequenceTheorems, TLAPS

-----------------------------------------------------------------------------
(* Parts of a sequence: what is behind position a, up to position b.       *)

Part(s, a, b) == SubSeq(s, a + 1, b)

LEMMA PartProps ==
  ASSUME NEW S, NEW s \in Seq(S), NEW a \in Nat, NEW b \in Nat, a <= b, b <= Len(s)
  PROVE  /\ Part(s, a, b) \in Seq(S)
         /\ Len(Part(s, a, b)) = b - a
         /\ \A i \in 1..(b - a) : Part(s, a, b)[i] = s[a + i]
<1>1. \A i \in (a + 1)..b : s[i] \in S
  BY LenProperties
<1>2. /\ SubSeq(s, a + 1, b) \in Seq(S)
      /\ Len(SubSeq(s, a + 1, b)) = IF a + 1 <= b THEN b - (a + 1) + 1 ELSE 0
      /\ \A i \in 1..(b - (a + 1) + 1) : SubSeq(s, a + 1, b)[i] = s[(a + 1) + i - 1]
  BY <1>1, SubSeqProperties
<1> QED
  BY <1>2 DEF Part

LEMMA PartLen ==
  ASSUME NEW S, NEW s \in Seq(S), NEW a \in Nat, NEW b \in Nat, a <= b, b <= Len(s)
  PROVE  Len(Part(s, a, b)) = b - a
  BY PartProps

LEMMA PartAt ==
  ASSUME NEW S, NEW s \in Seq(S), NEW a \in Nat, NEW b \in Nat, a <= b, b <= Len(s),
         NEW i \in 1..(b - a)
  PROVE  Part(s, a, b)[i] = s[a + i]
  BY PartProps

LEMMA PartIs ==
  ASSUME NEW S, NEW s \in Seq(S), NEW a \in Nat, NEW b \in Nat, a <= b, b <= Len(s),
         NEW t \in Seq(S), Len(t) = b - a, \A i \in 1..(b - a) : t[i] = s[a + i]
  PROVE  t = Part(s, a, b)
<1>1. /\ Part(s, a, b) \in Seq(S)
      /\ Len(Part(s, a, b)) = b - a
      /\ \A i \in 1..(b - a) : Part(s, a, b)[i] = s[a + i]
  BY PartProps
<1> QED
  BY <1>1, SeqEqual

LEMMA PartEmpty ==
  ASSUME NEW s, NEW a \in Nat
  PROVE  Part(s, a, a) = <<>>
  BY SubSeqEmpty DEF Part

LEMMA PartFull ==
  ASSUME NEW S, NEW s \in Seq(S)
  PROVE  Part(s, 0, Len(s)) = s
  BY SubSeqFull DEF Part

LEMMA PartOfPart ==
  ASSUME NEW S, NEW s \in Seq(S), NEW a \in Nat, NEW b \in Nat, a <= b, b <= Len(s),
         NEW c \in Nat, NEW d \in Nat, c <= d, d <= b - a
  PROVE  Part(Part(s, a, b), c, d) = Part(s, a + c, a + d)
<1>1. PICK u \in Seq(S) : u = Part(s, a, b)
  BY PartProps
<1>2. Len(u) = b - a
  BY <1>1, PartProps
<1>3. d <= Len(u)
  BY <1>2
<1>4. Part(u, c, d) \in Seq(S) /\ Len(Part(u, c, d)) = d - c
  BY <1>3, PartProps
<1>5. ASSUME NEW i \in 1..(d - c)
      PROVE  Part(u, c, d)[i] = s[(a + c) + i]
  <2>1. Part(u, c, d)[i] = u[c + i]
    BY <1>3, PartProps
  <2>2. c + i \in 1..(b - a)
    OBVIOUS
  <2>3. u[c + i] = s[a + (c + i)]
    <3>1. Part(s, a, b)[c + i] = s[a + (c + i)]
      BY <2>2, PartAt
    <3> QED BY <1>1, <3>1
  <2>4. a + (c + i) = (a + c) + i
    OBVIOUS
  <2> QED BY <2>1, <2>3, <2>4
<1>6. a + c \in Nat /\ a + d \in Nat /\ a + c <= a + d /\ (a + d) - (a + c) = d - c
  OBVIOUS
<1>7. a + d <= Len(s)
  BY LenProperties
<1>8. Part(u, c, d) = Part(s, a + c, a + d)
  <2>1. \A i \in 1..((a + d) - (a + c)) : Part(u, c, d)[i] = s[(a + c) + i]
    BY <1>5, <1>6
  <2>2. Len(Part(u, c, d)) = (a + d) - (a + c)
    BY <1>4, <1>6
  <2>3. Part(u, c, d) \in Seq(S)
    BY <1>4
  <2>4. PICK x \in Nat, y \in Nat : x = a + c /\ y = a + d
    BY <1>6
  <2>5. Part(u, c, d) = Part(s, x, y)
    <3>1. x <= y /\ y <= Len(s) /\ Len(Part(u, c, d)) = y - x
      BY <1>6, <1>7, <2>2, <2>4
    <3>2. \A i \in 1..(y - x) : Part(u, c, d)[i] = s[x + i]
      BY <2>1, <2>4
    <3> QED BY <2>3, <3>1, <3>2, PartIs, Zenon
  <2> QED BY <2>4, <2>5
<1> QED
  BY <1>1, <1>8

LEMMA PartsMeet ==
  ASSUME NEW S, NEW s \in Seq(S), NEW a \in Nat, NEW b \in Nat, NEW c \in Nat,
         a <= b, b <= c, c <= Len(s)
  PROVE  Part(s, a, b) \o Part(s, b, c) = Part(s, a, c)
<1>1. a + 1 \in 1..(Len(s) + 1) /\ b \in (a + 1 - 1)..Len(s) /\ c \in b..Len(s)
  BY LenProperties
<1> QED
  BY <1>1, ConcatAdjacentSubSeq DEF Part

(* What is appended to a sequence leaves its parts as they are.            *)
LEMMA PartOfLonger ==
  ASSUME NEW S, NEW s \in Seq(S), NEW t \in Seq(S), NEW a \in Nat, NEW b \in Nat, a <= b, b <= Len(s)
  PROVE  Part(s \o t, a, b) = Part(s, a, b)
<1>1. Part(s, a, b) \in Seq(S) /\ Len(Part(s, a, b)) = b - a
  BY PartProps
<1>2. /\ s \o t \in Seq(S) /\ Len(s \o t) = Len(s) + Len(t)
      /\ Len(s) \in Nat /\ Len(t) \in Nat
  BY ConcatProperties, LenProperties
<1>3. b <= Len(s \o t)
  BY <1>2
<1>4. ASSUME NEW i \in 1..(b - a)
      PROVE  Part(s, a, b)[i] = (s \o t)[a + i]
  <2>1. a + i \in 1..(Len(s) + Len(t)) /\ a + i <= Len(s)
    BY <1>2
  <2>2. (s \o t)[a + i] = s[a + i]
    BY <2>1, ConcatProperties
  <2> QED BY <2>2, PartProps
<1>5. \A i \in 1..(b - a) : Part(s, a, b)[i] = (s \o t)[a + i]
  BY <1>4
<1>6. PICK u \in Seq(S) : u = Part(s, a, b)
  BY <1>1
<1>7. PICK w \in Seq(S) : w = s \o t
  BY <1>2
<1>8. b <= Len(w) /\ Len(u) = b - a /\ \A i \in 1..(b - a) : u[i] = w[a + i]
  BY <1>1, <1>3, <1>5, <1>6, <1>7
<1>9. u = Part(w, a, b)
  BY <1>8, PartIs
<1> QED
  BY <1>6, <1>7, <1>9

LEMMA RestOfLonger ==
  ASSUME NEW S, NEW s \in Seq(S), NEW t \in Seq(S), NEW a \in Nat, a <= Len(s)
  PROVE  Part(s \o t, a, Len(s \o t)) = Part(s, a, Len(s)) \o t
<1>1. PICK n \in Nat : n = Len(s) /\ n <= Len(s) /\ a <= n
  BY LenProperties
<1>2. PICK k \in Nat : k = Len(t)
  BY LenProperties
<1>3. PICK w \in Seq(S) : w = s \o t /\ Len(w) = n + k
  BY <1>1, <1>2, ConcatProperties
<1>4. PICK u \in Seq(S) : u = Part(s, a, n) /\ Len(u) = n - a
  <2>1. Part(s, a, n) \in Seq(S) /\ Len(Part(s, a, n)) = n - a
    <3>1. a <= n /\ n <= Len(s)
      BY <1>1
    <3> QED BY <3>1, PartProps, Zenon
  <2> QED BY <2>1
<1>5. u \o t \in Seq(S) /\ Len(u \o t) = (n + k) - a
  <2>1. u \o t \in Seq(S) /\ Len(u \o t) = Len(u) + Len(t)
    BY ConcatProperties, Zenon
  <2> QED BY <1>2, <1>4, <2>1
<1>6. ASSUME NEW i \in 1..((n + k) - a)
      PROVE  (u \o t)[i] = w[a + i]
  <2>1. i \in 1..(Len(u) + Len(t)) /\ a + i \in 1..(Len(s) + Len(t))
    BY <1>1, <1>2, <1>4
  <2>2. (u \o t)[i] = IF i <= Len(u) THEN u[i] ELSE t[i - Len(u)]
    BY <2>1, ConcatProperties
  <2>3. (s \o t)[a + i] = IF a + i <= Len(s) THEN s[a + i] ELSE t[a + i - Len(s)]
    BY <2>1, ConcatProperties
  <2>4. CASE i <= n - a
    <3>1. i \in 1..(n - a) /\ a + i <= n
      BY <1>1, <2>4
    <3>2. Part(s, a, n)[i] = s[a + i]
      BY <1>1, <3>1, PartAt, Zenon
    <3> QED BY <1>1, <1>3, <1>4, <2>2, <2>3, <2>4, <3>1, <3>2
  <2>5. CASE ~(i <= n - a)
    <3>1. i - (n - a) = a + i - n /\ ~(a + i <= n)
      BY <2>5
    <3> QED BY <1>1, <1>3, <1>4, <2>2, <2>3, <2>5, <3>1
  <2> QED BY <2>4, <2>5
<1>7. PICK m \in Nat : m = n + k /\ a <= m /\ m = Len(w) /\ m <= Len(w)
  BY <1>1, <1>3
<1>8. u \o t = Part(w, a, m)
  <2>1. Len(u \o t) = m - a /\ \A i \in 1..(m - a) : (u \o t)[i] = w[a + i]
    BY <1>5, <1>6, <1>7
  <2> QED BY <1>5, <1>7, <2>1, PartIs, Zenon
<1> QED
  BY <1>1, <1>3, <1>4, <1>7, <1>8

-----------------------------------------------------------------------------
(* Numbers: the least and the largest of a set, and what holds up to n.    *)

LEMMA Smallest ==
  ASSUME NEW K, K \subseteq Nat, K # {}
  PROVE  \E k \in K : \A j \in K : k <= j
<1> DEFINE R == {p \in Nat \X Nat : p[1] < p[2]}
<1>1. IsWellFoundedOn(R, Nat)
  BY NatLessThanWellFounded DEF OpToRel
<1>2. PICK k \in K : \A j \in K : <<j, k>> \notin R
  <2> HIDE DEF R
  <2> QED BY <1>1, WFMin, Zenon
<1>3. \A j \in K : k <= j
  <2> TAKE j \in K
  <2>1. ~(j < k)
    BY <1>2
  <2> QED BY <2>1
<1> QED
  BY <1>3

LEMMA MinIsLeast ==
  ASSUME NEW K, K \subseteq Nat, K # {}
  PROVE  Min(K) \in K
<1>1. \E k \in K : \A j \in K : k <= j
  BY Smallest
<1> QED
  BY <1>1, Zenon DEF Min

LEMMA MaxIsLargest ==
  ASSUME NEW n \in Nat, NEW K, K \subseteq 0..n, K # {}
  PROVE  Max(K) \in K /\ \A j \in K : Max(K) >= j
<1> DEFINE D == {n - k : k \in K}
<1>1. D \subseteq Nat /\ D # {}
  <2>1. \A k \in K : n - k \in Nat
    OBVIOUS
  <2> QED BY <2>1, Zenon
<1>2. PICK d \in D : \A e \in D : d <= e
  <2> HIDE DEF D
  <2> QED BY <1>1, Smallest
<1>3. PICK k \in K : d = n - k
  OBVIOUS
<1>4. \A j \in K : k >= j
  <2> TAKE j \in K
  <2>1. n - j \in D
    OBVIOUS
  <2>2. d <= n - j
    BY <1>2, <2>1
  <2>3. j \in 0..n /\ k \in 0..n
    OBVIOUS
  <2> QED BY <1>3, <2>2, <2>3
<1> HIDE DEF D
<1>5. \E m \in K : \A j \in K : m >= j
  BY <1>4
<1> QED
  BY <1>5, Zenon DEF Max

LEMMA UpTo ==
  ASSUME NEW n \in Nat, NEW P, 0 \in P, \A m \in 0..(n - 1) : m \in P => m + 1 \in P
  PROVE  n \in P
<1>1. SUFFICES ASSUME n \notin P
               PROVE  FALSE
  OBVIOUS
<1> DEFINE Out == {m \in 0..n : m \notin P}
<1>2. Out \subseteq Nat /\ Out # {}
  BY <1>1
<1>3. PICK m \in Out : \A k \in Out : m <= k
  <2> HIDE DEF Out
  <2> QED BY <1>2, Smallest
<1>4. m # 0 /\ m - 1 \in 0..(n - 1) /\ (m - 1) + 1 = m
  OBVIOUS
<1>5. m - 1 \in P
  BY <1>3, <1>4
<1> QED
  BY <1>4, <1>5

-----------------------------------------------------------------------------
(* The lines of a text, one character after the other.                     *)

(* What Recv has made of a text: its lines, and the start of the next one. *)
IsCut(text, out, line) ==
  /\ Len(out) = Cardinality(LineEnds(text))
  /\ \A i \in LineEnds(text) : out[Number(text, i)] = OutputLine(Before(text, i))
  /\ \A n \in 1..Len(out) : \E i \in LineEnds(text) : Number(text, i) = n
  /\ line = Unfinished(text)

LineStart(text, i) == Max({0} \cup {j \in LineEnds(text) : j < i})

LEMMA LineStartProps ==
  ASSUME NEW S, NEW s \in Seq(S), NEW i \in 1..(Len(s) + 1)
  PROVE  /\ LineStart(s, i) \in Nat /\ LineStart(s, i) <= i - 1 /\ i - 1 \in Nat /\ i - 1 <= Len(s)
         /\ Before(s, i) = Part(s, LineStart(s, i), i - 1)
<1> DEFINE K == {0} \cup {j \in LineEnds(s) : j < i}
<1>1. Len(s) \in Nat /\ DOMAIN s = 1..Len(s)
  BY LenProperties
<1>2. i - 1 \in Nat /\ i - 1 <= Len(s)
  BY <1>1
<1>3. K \subseteq 0..(i - 1) /\ K # {}
  BY <1>1, <1>2 DEF LineEnds
<1>4. Max(K) \in K
  <2> HIDE DEF K
  <2> QED BY <1>2, <1>3, MaxIsLargest, Zenon
<1>5. LineStart(s, i) \in 0..(i - 1)
  BY <1>3, <1>4 DEF LineStart
<1>6. Before(s, i) = Part(s, LineStart(s, i), i - 1)
  BY DEF Before, LineStart, Part
<1> QED
  BY <1>2, <1>5, <1>6

LEMMA LineEndsProps ==
  ASSUME NEW S, NEW s \in Seq(S)
  PROVE  /\ Len(s) \in Nat
         /\ LineEnds(s) \subseteq 1..Len(s)
         /\ IsFiniteSet(LineEnds(s))
         /\ Cardinality(LineEnds(s)) \in Nat
<1>1. Len(s) \in Nat /\ DOMAIN s = 1..Len(s)
  BY LenProperties
<1>2. LineEnds(s) \subseteq 1..Len(s)
  BY <1>1 DEF LineEnds
<1>3. IsFiniteSet(1..Len(s))
  BY <1>1, FS_Interval
<1> QED
  BY <1>1, <1>2, <1>3, FS_Subset, FS_CardinalityType

LEMMA NumberProps ==
  ASSUME NEW S, NEW s \in Seq(S), NEW i \in LineEnds(s)
  PROVE  Number(s, i) \in 1..Cardinality(LineEnds(s))
<1> DEFINE K == {j \in LineEnds(s) : j <= i}
<1>1. IsFiniteSet(LineEnds(s)) /\ LineEnds(s) \subseteq 1..Len(s) /\ Len(s) \in Nat
      /\ Cardinality(LineEnds(s)) \in Nat
  BY LineEndsProps
<1>2. K \subseteq LineEnds(s) /\ i \in K
  BY <1>1
<1> HIDE DEF K
<1>3. IsFiniteSet(K) /\ Cardinality(K) \in Nat /\ Cardinality(K) <= Cardinality(LineEnds(s))
  BY <1>1, <1>2, FS_Subset, FS_CardinalityType
<1>4. Cardinality(K) # 0
  BY <1>2, <1>3, FS_EmptySet
<1>5. Cardinality(K) \in 1..Cardinality(LineEnds(s))
  BY <1>1, <1>3, <1>4
<1> QED
  BY <1>5 DEF Number, K

(* A cut is unique: its lines are those of the reference.                  *)
LEMMA CutIsLines ==
  ASSUME NEW S, NEW s \in Seq(S), NEW T, NEW out \in Seq(T), NEW line, IsCut(s, out, line)
  PROVE  out = LinesOf(s) /\ line = Unfinished(s)
<1> DEFINE n == Cardinality(LineEnds(s))
           At(m) == CHOOSE i \in LineEnds(s) : Number(s, i) = m
<1>1. n \in Nat /\ Len(out) = n
  BY LineEndsProps DEF IsCut
<1>2. out = [m \in 1..n |-> out[m]]
  BY <1>1, LenProperties
<1>3. ASSUME NEW m \in 1..n
      PROVE  out[m] = OutputLine(Before(s, At(m)))
  <2>1. \E i \in LineEnds(s) : Number(s, i) = m
    BY <1>1 DEF IsCut
  <2>2. At(m) \in LineEnds(s) /\ Number(s, At(m)) = m
    BY <2>1, Zenon
  <2> HIDE DEF At
  <2> QED BY <2>2, Zenon DEF IsCut
<1>4. LinesOf(s) = [m \in 1..n |-> OutputLine(Before(s, At(m)))]
  BY DEF LinesOf
<1> HIDE DEF At, n
<1> QED
  BY <1>2, <1>3, <1>4, Zenon DEF IsCut

(* One character more leaves the lines before it as they are.              *)
Continues(t, s, c) == t = Append(s, c)

(* What one more character does to the line ends of a text.                *)
LEMMA LongerText ==
  ASSUME NEW S, NEW s \in Seq(S), NEW c \in S, NEW t \in Seq(S), Continues(t, s, c)
  PROVE  /\ Len(t) = Len(s) + 1 /\ t[Len(s) + 1] = c
         /\ LineEnds(t) = LineEnds(s) \cup (IF c = Newline THEN {Len(s) + 1} ELSE {})
         /\ \A i \in 1..Len(s) : Number(t, i) = Number(s, i)
         /\ \A i \in 1..(Len(s) + 1) : Before(t, i) = Before(s, i)
<1>1. PICK n \in Nat : n = Len(s)
  BY LenProperties
<1>2. /\ t \in Seq(S) /\ Len(t) = n + 1 /\ t[n + 1] = c
      /\ \A i \in 1..n : t[i] = s[i]
  BY <1>1, AppendProperties DEF Continues
<1>3. DOMAIN s = 1..n /\ DOMAIN t = 1..(n + 1)
  BY <1>1, <1>2, LenProperties
<1>4. LineEnds(t) = LineEnds(s) \cup (IF c = Newline THEN {n + 1} ELSE {})
  BY <1>2, <1>3 DEF LineEnds
<1>5. LineEnds(s) \subseteq 1..n
  BY <1>3 DEF LineEnds
<1>6. ASSUME NEW i \in 1..n
      PROVE  Number(t, i) = Number(s, i)
  <2>1. {j \in LineEnds(t) : j <= i} = {j \in LineEnds(s) : j <= i}
    BY <1>4, <1>5
  <2> QED BY <2>1, Zenon DEF Number
<1>7. ASSUME NEW i \in 1..(n + 1)
      PROVE  Before(t, i) = Before(s, i)
  <2>1. {j \in LineEnds(t) : j < i} = {j \in LineEnds(s) : j < i}
    BY <1>4, <1>5
  <2>2. LineStart(t, i) = LineStart(s, i)
    BY <2>1, Zenon DEF LineStart
  <2>3. i \in 1..(Len(s) + 1) /\ i \in 1..(Len(t) + 1)
    BY <1>1, <1>2
  <2>4. PICK a \in Nat, b \in Nat : /\ a = LineStart(s, i) /\ b = i - 1 /\ a <= b /\ b <= Len(s)
                                    /\ Before(s, i) = Part(s, a, b)
    BY <2>3, LineStartProps, Zenon
  <2>5. Before(t, i) = Part(t, a, b)
    BY <1>2, <2>2, <2>3, <2>4, LineStartProps, Zenon
  <2>6. <<c>> \in Seq(S) /\ t = s \o <<c>>
    BY AppendIsConcat DEF Continues
  <2>7. Part(s \o <<c>>, a, b) = Part(s, a, b)
    <3>1. a <= b /\ b <= Len(s) /\ <<c>> \in Seq(S)
      BY <2>4, <2>6
    <3> QED BY <3>1, PartOfLonger, Zenon
  <2> QED BY <2>4, <2>5, <2>6, <2>7, Zenon
<1> QED
  BY <1>1, <1>2, <1>4, <1>6, <1>7

LEMMA TakeOne ==
  ASSUME NEW S, NEW s \in Seq(S), NEW c \in S, NEW T, NEW out \in Seq(T), NEW line \in T,
         OutputLine(line) \in T, IsCut(s, out, line)
  PROVE  LET at == TakeCharacter([lines |-> out, text |-> line], c)
         IN  IsCut(Append(s, c), at.lines, at.text)
<1>0. PICK t \in Seq(S) : Continues(t, s, c)
  BY AppendProperties DEF Continues
<1> DEFINE n == Len(s)
           K == Cardinality(LineEnds(s))
<1>1. /\ t \in Seq(S) /\ Len(t) = n + 1 /\ t[n + 1] = c
      /\ LineEnds(t) = LineEnds(s) \cup (IF c = Newline THEN {n + 1} ELSE {})
      /\ \A i \in 1..n : Number(t, i) = Number(s, i)
      /\ \A i \in 1..(n + 1) : Before(t, i) = Before(s, i)
  BY <1>0, LongerText
<1>2. n \in Nat /\ LineEnds(s) \subseteq 1..n /\ IsFiniteSet(LineEnds(s)) /\ K \in Nat
  BY LineEndsProps
<1>3. Len(out) = K
  BY DEF IsCut
<1>4. \A i \in LineEnds(s) : Number(s, i) \in 1..K
  BY NumberProps
<1>5. \A i \in LineEnds(s) : Before(t, i) = Before(s, i) /\ Number(t, i) = Number(s, i)
  BY <1>1, <1>2
<1>6. CASE c # Newline
  <2>1. LineEnds(t) = LineEnds(s)
    BY <1>1, <1>6
  <2>2. Append(line, c) = Unfinished(t)
    <3>1. PICK a \in Nat, b \in Nat : a = LineStart(s, n + 1) /\ b = n /\ a <= b
                                      /\ Before(s, n + 1) = Part(s, a, b)
      <4>1. n + 1 \in 1..(Len(s) + 1) /\ (n + 1) - 1 = n
        BY <1>2
      <4> QED BY <1>2, <4>1, LineStartProps
    <3>2. PICK e \in Nat : e = n + 1 /\ Before(t, n + 2) = Part(t, a, e)
      <4>1. n + 2 \in 1..(Len(t) + 1) /\ (n + 2) - 1 = n + 1 /\ n + 1 \in Nat
        BY <1>1, <1>2
      <4>2. Before(t, n + 2) = Part(t, LineStart(t, n + 2), n + 1)
        BY <1>1, <4>1, LineStartProps
      <4>3. {j \in LineEnds(t) : j < n + 2} = {j \in LineEnds(s) : j < n + 1}
        BY <1>2, <2>1
      <4>4. LineStart(t, n + 2) = LineStart(s, n + 1)
        BY <4>3, Zenon DEF LineStart
      <4> QED BY <3>1, <4>1, <4>2, <4>4
    <3>3. <<c>> \in Seq(S) /\ t = s \o <<c>>
      BY <1>0, AppendIsConcat DEF Continues
    <3>4. Part(s \o <<c>>, a, Len(s \o <<c>>)) = Part(s, a, Len(s)) \o <<c>>
      <4>1. a <= Len(s)
        BY <3>1
      <4> QED BY <3>3, <4>1, RestOfLonger, Zenon
    <3>5. Part(t, a, e) = line \o <<c>>
      <4>1. line = Before(s, n + 1)
        BY DEF IsCut, Unfinished
      <4> QED BY <1>1, <3>1, <3>2, <3>3, <3>4, <4>1
    <3>6. line \in Seq(S)
      <4>1. Part(s, a, b) \in Seq(S)
        BY <3>1, PartProps
      <4> QED BY <3>1, <4>1 DEF IsCut, Unfinished
    <3>7. line \o <<c>> = Append(line, c)
      BY <3>6, AppendIsConcat
    <3>8. Unfinished(t) = Before(t, n + 2)
      <4>1. Len(t) + 1 = n + 2
        BY <1>1, <1>2
      <4> QED BY <4>1 DEF Unfinished
    <3> QED BY <3>2, <3>5, <3>7, <3>8
  <2>3. IsCut(t, out, Append(line, c))
    <3> HIDE DEF K, n
    <3>1. /\ Len(out) = Cardinality(LineEnds(t))
          /\ \A i \in LineEnds(t) : out[Number(t, i)] = OutputLine(Before(t, i))
          /\ \A m \in 1..Len(out) : \E i \in LineEnds(t) : Number(t, i) = m
      BY <1>5, <2>1, Zenon DEF IsCut
    <3> QED BY <2>2, <3>1, Zenon DEF IsCut
  <2> QED BY <1>0, <1>6, <2>3 DEF TakeCharacter, Continues
<1>7. CASE c = Newline
  <2>1. LineEnds(t) = LineEnds(s) \cup {n + 1}
    BY <1>1, <1>7
  <2>2. n + 1 \notin LineEnds(s)
    BY <1>2
  <2>3. Cardinality(LineEnds(t)) = K + 1
    BY <1>2, <2>1, <2>2, FS_AddElement
  <2>4. Number(t, n + 1) = K + 1
    <3>1. {j \in LineEnds(t) : j <= n + 1} = LineEnds(t)
      BY <1>2, <2>1
    <3> QED BY <2>3, <3>1 DEF Number
  <2>5. Before(t, n + 1) = line
    <3>1. n + 1 \in 1..(n + 1)
      BY <1>2
    <3> QED BY <1>1, <3>1 DEF IsCut, Unfinished
  <2> DEFINE new == Append(out, OutputLine(line))
  <2>6. /\ Len(new) = K + 1 /\ new[K + 1] = OutputLine(line)
        /\ \A i \in 1..K : new[i] = out[i]
    BY <1>3, AppendProperties
  <2>7. Unfinished(t) = <<>>
    <3>1. PICK e \in Nat : e = n + 1
      BY <1>2
    <3>2. n + 2 \in 1..(Len(t) + 1) /\ (n + 2) - 1 = e /\ Len(t) + 1 = n + 2
      BY <1>1, <1>2, <3>1
    <3>3. Before(t, n + 2) = Part(t, LineStart(t, n + 2), e)
      BY <1>1, <3>2, LineStartProps
    <3>4. LineStart(t, n + 2) = e
      <4> DEFINE L == {0} \cup {j \in LineEnds(t) : j < n + 2}
      <4>1. L \subseteq 0..e /\ e \in L /\ L # {}
        BY <1>2, <2>1, <3>1
      <4> HIDE DEF L
      <4>2. Max(L) \in L /\ Max(L) >= e
        BY <4>1, MaxIsLargest
      <4>3. Max(L) \in 0..e
        BY <4>1, <4>2, Zenon
      <4>4. Max(L) = e
        BY <4>2, <4>3
      <4> QED BY <4>4 DEF LineStart, L
    <3> QED BY <3>2, <3>3, <3>4, PartEmpty DEF Unfinished
  <2>8. IsCut(t, new, <<>>)
    <3>1. ASSUME NEW i \in LineEnds(t)
          PROVE  new[Number(t, i)] = OutputLine(Before(t, i))
      <4>1. CASE i = n + 1
        BY <2>4, <2>5, <2>6, <4>1
      <4>2. CASE i \in LineEnds(s)
        BY <1>4, <1>5, <2>6, <4>2 DEF IsCut
      <4> QED BY <2>1, <4>1, <4>2
    <3>2. ASSUME NEW m \in 1..Len(new)
          PROVE  \E i \in LineEnds(t) : Number(t, i) = m
      <4>1. CASE m = K + 1
        BY <2>1, <2>4, <4>1
      <4>2. CASE m # K + 1
        <5>1. m \in 1..Len(out)
          BY <1>2, <1>3, <2>6, <4>2
        <5>2. PICK i \in LineEnds(s) : Number(s, i) = m
          BY <5>1 DEF IsCut
        <5> QED BY <1>5, <2>1, <5>2
      <4> QED BY <4>1, <4>2
    <3> HIDE DEF new, K, n
    <3> QED BY <2>3, <2>6, <2>7, <3>1, <3>2 DEF IsCut
  <2> QED BY <1>0, <1>7, <2>8 DEF TakeCharacter, Continues
<1> QED
  BY <1>6, <1>7

(* A whole read: the recursion has a solution, and follows the text.       *)
Follows(f, at, read, k) ==
  f = [n \in 0..k |-> IF n = 0 THEN at ELSE TakeCharacter(f[n - 1], read[n])]

LEMMA FollowsMore ==
  ASSUME NEW at, NEW read, NEW k \in Nat, NEW f, Follows(f, at, read, k)
  PROVE  \E g : Follows(g, at, read, k + 1)
<1> DEFINE g == [n \in 0..(k + 1) |-> IF n = k + 1 THEN TakeCharacter(f[k], read[k + 1]) ELSE f[n]]
<1>1. ASSUME NEW n \in 0..(k + 1)
      PROVE  g[n] = IF n = 0 THEN at ELSE TakeCharacter(g[n - 1], read[n])
  <2>1. CASE n = k + 1
    <3>1. n # 0 /\ n - 1 = k /\ k \in 0..(k + 1) /\ k # k + 1
      BY <2>1
    <3>2. g[k] = f[k]
      BY <3>1
    <3> QED BY <2>1, <3>1, <3>2
  <2>2. CASE n # k + 1
    <3>1. n \in 0..k
      BY <2>2
    <3>2. f[n] = IF n = 0 THEN at ELSE TakeCharacter(f[n - 1], read[n])
      BY <3>1, Zenon DEF Follows
    <3>3. g[n] = f[n]
      BY <2>2
    <3>4. n # 0 => n - 1 \in 0..(k + 1) /\ n - 1 # k + 1
      BY <3>1
    <3>5. n # 0 => g[n - 1] = f[n - 1]
      BY <3>4
    <3> HIDE DEF g
    <3> QED BY <3>2, <3>3, <3>5
  <2> QED BY <2>1, <2>2
<1>2. g = [n \in 0..(k + 1) |-> g[n]]
  OBVIOUS
<1> HIDE DEF g
<1>3. g = [n \in 0..(k + 1) |-> IF n = 0 THEN at ELSE TakeCharacter(g[n - 1], read[n])]
  BY <1>1, <1>2, Zenon
<1> QED
  BY <1>3, Zenon DEF Follows

LEMMA ReadIsFollowed ==
  ASSUME NEW S, NEW at, NEW read \in Seq(S)
  PROVE  \E f : Follows(f, at, read, Len(read)) /\ TakeRead(at, read) = f[Len(read)]
<1>1. PICK k \in Nat : k = Len(read)
  BY LenProperties
<1> DEFINE P == {n \in Nat : \E f : Follows(f, at, read, n)}
<1>2. 0 \in P
  <2> DEFINE f == [n \in 0..0 |-> at]
  <2>1. f = [n \in 0..0 |-> IF n = 0 THEN at ELSE TakeCharacter(f[n - 1], read[n])]
    OBVIOUS
  <2> HIDE DEF f
  <2> QED BY <2>1, Zenon DEF Follows
<1>3. \A n \in 0..(k - 1) : n \in P => n + 1 \in P
  <2> SUFFICES ASSUME NEW n \in 0..(k - 1), n \in P
               PROVE  n + 1 \in P
    OBVIOUS
  <2>1. n \in Nat /\ n + 1 \in Nat
    OBVIOUS
  <2>2. \E g : Follows(g, at, read, n + 1)
    BY <2>1, FollowsMore
  <2> QED BY <2>1, <2>2
<1>4. k \in P
  <2> HIDE DEF P
  <2> QED BY <1>2, <1>3, UpTo
<1> DEFINE after == CHOOSE f : f = [n \in 0..Len(read) |->
                                      IF n = 0 THEN at ELSE TakeCharacter(f[n - 1], read[n])]
<1>5. Follows(after, at, read, Len(read))
  <2>1. \E f : f = [n \in 0..Len(read) |-> IF n = 0 THEN at ELSE TakeCharacter(f[n - 1], read[n])]
    BY <1>1, <1>4 DEF Follows
  <2> QED BY <2>1, Zenon DEF Follows
<1>6. TakeRead(at, read) = after[Len(read)]
  BY DEF TakeRead
<1> QED
  BY <1>5, <1>6, Zenon

LEMMA OutputLineType ==
  ASSUME NEW S, NEW line \in Seq(S)
  PROVE  OutputLine(line) \in Seq(S)
  BY EmptySeq DEF OutputLine

LEMMA PartNext ==
  ASSUME NEW S, NEW s \in Seq(S), NEW k \in Nat, k < Len(s)
  PROVE  Part(s, 0, k + 1) = Append(Part(s, 0, k), s[k + 1]) /\ s[k + 1] \in S
<1>1. Len(s) \in Nat /\ k + 1 \in 1..Len(s) /\ 1 \in 1..Len(s) /\ k + 1 <= Len(s) /\ k <= Len(s)
  BY LenProperties
<1>2. s[k + 1] \in S
  BY <1>1, ElementOfSeq
<1>3. SubSeq(s, 1, k + 1) = SubSeq(s, 1, (k + 1) - 1) \o <<s[k + 1]>>
  <2>1. k + 1 \in 1..Len(s)
    BY <1>1
  <2> QED BY <1>1, <2>1, SubSeqRecursiveSecond
<1>4. Part(s, 0, k + 1) = Part(s, 0, k) \o <<s[k + 1]>>
  BY <1>3 DEF Part
<1>5. Part(s, 0, k) \in Seq(S)
  BY <1>1, PartProps
<1> QED
  BY <1>2, <1>4, <1>5, AppendIsConcat

Cut(s, at, S) == /\ at \in [lines : Seq(Seq(S)), text : Seq(S)]
                 /\ IsCut(s, at.lines, at.text)

LEMMA TakeOneCut ==
  ASSUME NEW S, NEW s \in Seq(S), NEW c \in S, NEW at, Cut(s, at, S)
  PROVE  Cut(Append(s, c), TakeCharacter(at, c), S)
<1>1. at.lines \in Seq(Seq(S)) /\ at.text \in Seq(S) /\ OutputLine(at.text) \in Seq(S)
  BY OutputLineType DEF Cut
<1>2. at = [lines |-> at.lines, text |-> at.text]
  BY DEF Cut
<1>3. LET new == TakeCharacter([lines |-> at.lines, text |-> at.text], c)
      IN  IsCut(Append(s, c), new.lines, new.text)
  BY <1>1, TakeOne DEF Cut
<1>4. TakeCharacter(at, c) \in [lines : Seq(Seq(S)), text : Seq(S)]
  <2>1. Append(at.lines, OutputLine(at.text)) \in Seq(Seq(S)) /\ Append(at.text, c) \in Seq(S) /\ <<>> \in Seq(S)
    BY <1>1, AppendProperties, EmptySeq
  <2> QED BY <1>1, <1>2, <2>1 DEF TakeCharacter
<1> QED
  BY <1>2, <1>3, <1>4 DEF Cut

(* Recv on a read cuts the longer text as it would have cut it whole.      *)
LEMMA TakeReadCut ==
  ASSUME NEW S, NEW s \in Seq(S), NEW k \in Nat, NEW m \in Nat, k <= m, m <= Len(s),
         NEW at, Cut(Part(s, 0, k), at, S)
  PROVE  Cut(Part(s, 0, m), TakeRead(at, Part(s, k, m)), S)
<1>1. PICK r \in Seq(S) : r = Part(s, k, m)
  BY PartProps
<1>2. Len(r) = m - k /\ \A i \in 1..(m - k) : r[i] = s[k + i]
  BY <1>1, PartProps
<1>3. PICK f : Follows(f, at, r, m - k) /\ TakeRead(at, r) = f[m - k]
  BY <1>2, ReadIsFollowed
<1> DEFINE P == {n \in 0..(m - k) : Cut(Part(s, 0, k + n), f[n], S)}
<1>4. 0 \in P
  <2>1. 0 \in 0..(m - k) /\ k + 0 = k
    OBVIOUS
  <2>2. f[0] = at
    BY <1>3, <2>1 DEF Follows
  <2> QED BY <2>1, <2>2
<1>5. \A n \in 0..((m - k) - 1) : n \in P => n + 1 \in P
  <2> SUFFICES ASSUME NEW n \in 0..((m - k) - 1), n \in P
               PROVE  n + 1 \in P
    OBVIOUS
  <2>1. /\ n + 1 \in 0..(m - k) /\ n + 1 # 0 /\ (n + 1) - 1 = n /\ n + 1 \in 1..(m - k)
        /\ k + n \in Nat /\ k + n <= Len(s) /\ k + n < Len(s)
        /\ (k + n) + 1 = k + (n + 1)
    BY LenProperties
  <2>2. f[n + 1] = TakeCharacter(f[n], r[n + 1])
    BY <1>3, <2>1 DEF Follows
  <2>3. r[n + 1] = s[(k + n) + 1]
    <3>1. n + 1 \in 1..(m - k)
      BY <2>1
    <3>2. r[n + 1] = s[k + (n + 1)]
      BY <1>2, <3>1, Zenon
    <3> QED BY <2>1, <3>2
  <2>4. Part(s, 0, (k + n) + 1) = Append(Part(s, 0, k + n), s[(k + n) + 1]) /\ s[(k + n) + 1] \in S
    BY <2>1, PartNext
  <2>5. Part(s, 0, k + n) \in Seq(S)
    BY <2>1, PartProps
  <2>6. Cut(Part(s, 0, k + n), f[n], S)
    OBVIOUS
  <2> HIDE DEF P
  <2>7. Cut(Append(Part(s, 0, k + n), s[(k + n) + 1]), TakeCharacter(f[n], s[(k + n) + 1]), S)
    BY <2>4, <2>5, <2>6, TakeOneCut
  <2>8. Cut(Part(s, 0, k + (n + 1)), f[n + 1], S)
    BY <2>1, <2>2, <2>3, <2>4, <2>7
  <2> QED BY <2>1, <2>8 DEF P
<1>6. m - k \in P
  <2>1. m - k \in Nat
    OBVIOUS
  <2> HIDE DEF P
  <2> QED BY <1>4, <1>5, <2>1, UpTo
<1>7. k + (m - k) = m
  OBVIOUS
<1> QED
  BY <1>1, <1>3, <1>6, <1>7

-----------------------------------------------------------------------------
(* CommandList: what the list of commands consists of.                     *)

Flattens(f, seqs, k) == f = [i \in 1..k |-> IF i = 1 THEN seqs[i] ELSE f[i - 1] \o seqs[i]]

LEMMA FlattensMore ==
  ASSUME NEW seqs, NEW k \in Nat, NEW f, Flattens(f, seqs, k)
  PROVE  \E g : Flattens(g, seqs, k + 1)
<1> DEFINE g == [i \in 1..(k + 1) |-> IF i = 1 THEN seqs[i]
                                      ELSE IF i = k + 1 THEN f[k] \o seqs[k + 1] ELSE f[i]]
<1>1. ASSUME NEW i \in 1..(k + 1)
      PROVE  g[i] = IF i = 1 THEN seqs[i] ELSE g[i - 1] \o seqs[i]
  <2>1. CASE i = 1
    BY <2>1
  <2>2. CASE i # 1
    <3>1. i - 1 \in 1..k /\ i - 1 \in 1..(k + 1) /\ i - 1 # k + 1
      BY <2>2
    <3>2. g[i - 1] = f[i - 1]
      <4>1. i - 1 = 1 => f[i - 1] = seqs[i - 1]
        BY <3>1 DEF Flattens
      <4> QED BY <3>1, <4>1
    <3>3. CASE i = k + 1
      <4>1. i - 1 = k
        BY <3>3
      <4>2. g[i] = f[k] \o seqs[k + 1]
        BY <2>2, <3>3
      <4> HIDE DEF g
      <4> QED BY <2>2, <3>2, <3>3, <4>1, <4>2
    <3>4. CASE i # k + 1
      <4>1. i \in 1..k
        BY <3>4
      <4>2. f[i] = f[i - 1] \o seqs[i]
        BY <2>2, <4>1 DEF Flattens
      <4>3. g[i] = f[i]
        BY <2>2, <3>4
      <4> HIDE DEF g
      <4> QED BY <2>2, <3>2, <4>2, <4>3
    <3> QED BY <3>3, <3>4
  <2> QED BY <2>1, <2>2
<1>2. g = [i \in 1..(k + 1) |-> g[i]]
  OBVIOUS
<1> HIDE DEF g
<1>3. g = [i \in 1..(k + 1) |-> IF i = 1 THEN seqs[i] ELSE g[i - 1] \o seqs[i]]
  BY <1>1, <1>2, Zenon
<1> QED
  BY <1>3, Zenon DEF Flattens

LEMMA FlattenType ==
  ASSUME NEW S, NEW seqs \in Seq(Seq(S))
  PROVE  FlattenSeq(seqs) \in Seq(S)
<1>1. PICK n \in Nat : n = Len(seqs)
  BY LenProperties
<1>2. CASE n = 0
  <2>1. seqs = <<>>
    BY <1>1, <1>2, EmptySeq
  <2>2. FlattenSeq(seqs) = seqs
    BY <1>1, <1>2 DEF FlattenSeq
  <2> QED BY <2>1, <2>2, EmptySeq
<1>3. CASE n # 0
  <2> DEFINE P == {k \in Nat : \E f : Flattens(f, seqs, k)}
  <2>1. 0 \in P
    <3> DEFINE f == [i \in 1..0 |-> seqs[i]]
    <3>1. f = [i \in 1..0 |-> IF i = 1 THEN seqs[i] ELSE f[i - 1] \o seqs[i]]
      OBVIOUS
    <3> HIDE DEF f
    <3> QED BY <3>1, Zenon DEF Flattens
  <2>2. \A k \in 0..(n - 1) : k \in P => k + 1 \in P
    <3> SUFFICES ASSUME NEW k \in 0..(n - 1), k \in P
                 PROVE  k + 1 \in P
      OBVIOUS
    <3>1. k \in Nat /\ k + 1 \in Nat
      OBVIOUS
    <3>2. \E g : Flattens(g, seqs, k + 1)
      BY <3>1, FlattensMore
    <3> QED BY <3>1, <3>2
  <2>3. n \in P
    <3> HIDE DEF P
    <3> QED BY <2>1, <2>2, UpTo
  <2> DEFINE flat == CHOOSE f : f = [i \in 1..Len(seqs) |-> IF i = 1 THEN seqs[i] ELSE f[i - 1] \o seqs[i]]
  <2>4. Flattens(flat, seqs, Len(seqs))
    <3>1. \E f : f = [i \in 1..Len(seqs) |-> IF i = 1 THEN seqs[i] ELSE f[i - 1] \o seqs[i]]
      BY <1>1, <2>3 DEF Flattens
    <3> QED BY <3>1, Zenon DEF Flattens
  <2>5. FlattenSeq(seqs) = flat[Len(seqs)]
    BY <1>1, <1>3 DEF FlattenSeq
  <2> HIDE DEF flat, P
  <2> DEFINE Q == {k \in Nat : k \in 1..n => flat[k] \in Seq(S)}
  <2>6. 0 \in Q
    OBVIOUS
  <2>7. \A k \in 0..(n - 1) : k \in Q => k + 1 \in Q
    <3> SUFFICES ASSUME NEW k \in 0..(n - 1), k \in Q
                 PROVE  k + 1 \in Q
      OBVIOUS
    <3>1. k + 1 \in Nat /\ k + 1 \in 1..n /\ k + 1 \in 1..Len(seqs) /\ (k + 1) - 1 = k
      BY <1>1
    <3>2. seqs[k + 1] \in Seq(S)
      BY <3>1, ElementOfSeq
    <3>3. flat[k + 1] = IF k + 1 = 1 THEN seqs[k + 1] ELSE flat[(k + 1) - 1] \o seqs[k + 1]
      BY <2>4, <3>1, Zenon DEF Flattens
    <3>4. CASE k = 0
      <4>1. flat[k + 1] = seqs[k + 1]
        BY <3>3, <3>4
      <4>2. flat[k + 1] \in Seq(S)
        BY <3>2, <4>1
      <4> QED BY <3>1, <4>2
    <3>5. CASE k # 0
      <4>1. flat[k] \in Seq(S)
        BY <3>5
      <4>2. flat[k + 1] = flat[k] \o seqs[k + 1]
        <5>1. k + 1 # 1
          BY <3>5
        <5> QED BY <3>1, <3>3, <5>1
      <4>3. flat[k + 1] \in Seq(S)
        BY <3>2, <4>1, <4>2, ConcatProperties
      <4> QED BY <3>1, <4>3
    <3> QED BY <3>4, <3>5
  <2>8. n \in Q
    <3> HIDE DEF Q
    <3> QED BY <2>6, <2>7, UpTo
  <2>9. n \in 1..n
    BY <1>3
  <2> QED BY <1>1, <2>5, <2>8, <2>9
<1> QED
  BY <1>2, <1>3

CommandRecord ==
  [line : [prefix : Prefix \cup {None}, name : Word], type : {"kernel", "user"}, prompt : Word \cup {None}]

ListTypeOK ==
  /\ test \in Tests
  /\ step \in {"check", "loop", "done", "failed", "exceeded"}
  /\ lines \in Seq(CommandLine)
  /\ stack \in Seq(Environment)
  /\ commands \in Seq(CommandRecord)

(* The last command is the one after which there is no prompt to wait for. *)
LastPrompt ==
  step \in {"loop", "done"} =>
    /\ commands # <<>>
    /\ \A i \in 1..(Len(commands) - 1) : commands[i].prompt # None
    /\ commands[Len(commands)].prompt = None <=> stack = <<>>
    /\ step = "done" => stack = <<>>

ListInv == ListTypeOK /\ LastPrompt

LEMMA EnvironmentTypes ==
  /\ KernelConf \in Environment /\ ShellConf \in Environment
  /\ Khu \in [mods : Seq(Nat \cup {Pipe}), line : CommandLine]
  /\ Boot \in CommandRecord
  /\ \A e \in Environment : e.prompt # None /\ EndLine(e) \in CommandLine
<1>1. /\ "$" \in Prefix /\ None \notin Word
      /\ {KernelPrompt, ShellPrompt, "boot", "khu", "modified", "s", "q", "exit"} \subseteq Word
  BY TestsAssumption
<1> QED
  BY <1>1, EmptySeq DEF KernelConf, ShellConf, Environment, CommandLine, Line, Khu, Boot, CommandRecord, EndLine

LEMMA FirstType ==
  ASSUME NEW confs \in Seq(Environment), NEW some \in SUBSET (DOMAIN confs)
  PROVE  FirstOf(confs, some) \in Environment \cup {NoConf}
<1>1. DOMAIN confs = 1..Len(confs) /\ Len(confs) \in Nat
  BY LenProperties
<1>2. ASSUME some # {}
      PROVE  confs[Min(some)] \in Environment
  <2>1. some \subseteq Nat
    BY <1>1
  <2>2. Min(some) \in some
    BY <1>2, <2>1, MinIsLeast, Zenon
  <2> QED BY <1>1, <2>2, ElementOfSeq
<1> QED
  BY <1>2 DEF FirstOf

LEMMA ConfTypes ==
  ASSUME test \in Tests, NEW l
  PROVE  ConfOf(l) \in Environment \cup {NoConf} /\ StartedBy(l) \in Environment \cup {NoConf}
<1>1. Confs \in Seq(Environment)
  BY TestsAssumption DEF Confs
<1>2. AllConfs \in Seq(Environment)
  <2>1. <<ShellConf, KernelConf>> \in Seq(Environment)
    BY EnvironmentTypes
  <2> QED BY <1>1, <2>1, ConcatProperties DEF AllConfs
<1>3. FirstOf(Confs, {i \in DOMAIN Confs : Confs[i].prefix = l.prefix}) \in Environment \cup {NoConf}
  <2>1. {i \in DOMAIN Confs : Confs[i].prefix = l.prefix} \in SUBSET (DOMAIN Confs)
    OBVIOUS
  <2> QED BY <1>1, <2>1, FirstType, Zenon
<1>4. StartedBy(l) \in Environment \cup {NoConf}
  <2>1. {i \in DOMAIN AllConfs : AllConfs[i].start = l} \in SUBSET (DOMAIN AllConfs)
    OBVIOUS
  <2> QED BY <1>2, <2>1, FirstType, Zenon DEF StartedBy
<1> QED
  BY <1>3, <1>4, EnvironmentTypes DEF ConfOf

(* Modifiers are gone from the lines: each is a command line.              *)
LEMMA SimplePrefixesType ==
  ASSUME NEW t \in Tests
  PROVE  SimplePrefixes(t.content) \in Seq(CommandLine)
<1> DEFINE Mods == Nat \cup {Pipe}
           ContentLine == [mods : Seq(Mods), line : CommandLine]
<1>1. \A l \in ContentLine : Simplified(l) \in Seq(ContentLine)
  <2> TAKE l \in ContentLine
  <2>1. CASE l.mods = <<>>
    BY <2>1 DEF Simplified
  <2>2. CASE l.mods # <<>>
    <3> DEFINE inner == [l EXCEPT !.mods = Tail(@)]
    <3>1. Head(l.mods) \in Mods /\ Tail(l.mods) \in Seq(Mods)
      BY <2>2, HeadTailProperties
    <3>2. inner \in ContentLine
      BY <3>1
    <3>3. Simplified(l) = IF Head(l.mods) = Pipe THEN <<Khu, inner, Khu>> ELSE [i \in 1..Head(l.mods) |-> inner]
      BY <2>2 DEF Simplified
    <3>4. Khu \in ContentLine
      BY EnvironmentTypes
    <3> HIDE DEF inner, ContentLine, Mods
    <3>5. <<Khu, inner, Khu>> \in Seq(ContentLine)
      BY <3>2, <3>4
    <3>6. Head(l.mods) # Pipe => [i \in 1..Head(l.mods) |-> inner] \in Seq(ContentLine)
      <4> SUFFICES ASSUME Head(l.mods) # Pipe
                   PROVE  [i \in 1..Head(l.mods) |-> inner] \in Seq(ContentLine)
        OBVIOUS
      <4>1. PICK n \in Nat : n = Head(l.mods)
        BY <3>1 DEF Mods
      <4>2. [i \in 1..n |-> inner] \in Seq(ContentLine)
        BY <3>2
      <4> QED BY <4>1, <4>2
    <3> QED BY <3>3, <3>5, <3>6
  <2> QED BY <2>1, <2>2
<1>2. \A content \in Seq(ContentLine) : DoSimplePrefixes(content) \in Seq(ContentLine)
  <2> TAKE content \in Seq(ContentLine)
  <2> HIDE DEF ContentLine
  <2>1. PICK n \in Nat : n = Len(content) /\ DOMAIN content = 1..n
    BY LenProperties
  <2>2. \A i \in 1..n : Simplified(content[i]) \in Seq(ContentLine)
    <3> TAKE i \in 1..n
    <3>1. content[i] \in ContentLine
      BY <2>1, ElementOfSeq
    <3> QED BY <1>1, <3>1
  <2>3. [i \in DOMAIN content |-> Simplified(content[i])] \in Seq(Seq(ContentLine))
    BY <2>1, <2>2
  <2> QED BY <2>3, FlattenType DEF DoSimplePrefixes
<1>3. t.content \in Seq(ContentLine)
  BY TestsAssumption
<1> DEFINE simple == DoSimplePrefixes(DoSimplePrefixes(t.content))
<1>4. simple \in Seq(ContentLine)
  <2> HIDE DEF ContentLine
  <2> QED BY <1>2, <1>3
<1>5. SimplePrefixes(t.content) = [i \in DOMAIN simple |-> IF simple[i].mods = <<>> THEN simple[i].line
                                                          ELSE Line(None, "modified")]
  BY DEF SimplePrefixes
<1> HIDE DEF simple
<1>6. PICK n \in Nat : n = Len(simple) /\ DOMAIN simple = 1..n
  BY <1>4, LenProperties
<1>7. \A i \in 1..n : simple[i] \in ContentLine
  <2> HIDE DEF ContentLine
  <2> QED BY <1>4, <1>6, ElementOfSeq
<1>8. Line(None, "modified") \in CommandLine
  BY TestsAssumption DEF Line, CommandLine
<1>9. \A i \in 1..n : (IF simple[i].mods = <<>> THEN simple[i].line ELSE Line(None, "modified")) \in CommandLine
  BY <1>7, <1>8
<1>10. [i \in 1..n |-> IF simple[i].mods = <<>> THEN simple[i].line ELSE Line(None, "modified")] \in Seq(CommandLine)
  <2> HIDE DEF ContentLine
  <2> QED BY <1>9
<1> QED
  BY <1>5, <1>6, <1>10

LEMMA ListInitInv == ListInit => ListInv
  BY EmptySeq DEF ListInit, ListInv, ListTypeOK, LastPrompt

LEMMA ListStepInv == ListInv /\ ListNext => ListInv'
<1> SUFFICES ASSUME ListInv, ListNext
             PROVE  ListInv'
  OBVIOUS
<1> USE DEF ListInv, ListTypeOK
<1>1. CASE Check
  <2>1. CASE ConfsValid(Confs)
    <3>1. /\ test' = test /\ step' = "loop" /\ stack' = <<KernelConf>> /\ commands' = <<Boot>>
          /\ lines' = SimplePrefixes(test.content)
      BY <1>1, <2>1 DEF Check
    <3>2. lines' \in Seq(CommandLine)
      BY <3>1, SimplePrefixesType
    <3>3. KernelConf \in Environment /\ Boot \in CommandRecord /\ Boot.prompt # None
      BY EnvironmentTypes, TestsAssumption DEF Boot
    <3>4. stack' \in Seq(Environment) /\ commands' \in Seq(CommandRecord)
      BY <3>1, <3>3
    <3>5. Len(commands') = 1 /\ commands'[1] = Boot /\ stack' # <<>> /\ commands' # <<>>
      BY <3>1
    <3>6. LastPrompt'
      BY <3>1, <3>3, <3>5 DEF LastPrompt
    <3> QED BY <3>1, <3>2, <3>4, <3>6
  <2>2. CASE ~ConfsValid(Confs)
    BY <1>1, <2>2 DEF Check, LastPrompt
  <2> QED BY <2>1, <2>2
<1>2. CASE LoopsExceeded
  BY <1>2 DEF LoopsExceeded, LastPrompt
<1>3. CASE KernelLeft
  BY <1>3 DEF KernelLeft, Loop, LastPrompt
<1>4. CASE CleanUp
  <2>1. Head(stack) \in Environment
    BY <1>4, HeadTailProperties DEF CleanUp
  <2>2. <<EndLine(Head(stack))>> \in Seq(CommandLine)
    BY <2>1, EnvironmentTypes
  <2> QED BY <1>4, <2>2 DEF CleanUp, Loop, LastPrompt
<1>5. CASE BadLine
  BY <1>5 DEF BadLine, Loop, LastPrompt
<1>6. ASSUME NEW l \in Range(lines), ChangeEnvironment(l)
      PROVE  ListInv'
  <2>1. ConfOf(l) \in Environment /\ Current \in Environment
    BY <1>6, ConfTypes, HeadTailProperties DEF ChangeEnvironment, AtLine, Current
  <2>2. ConfOf(l).start \in CommandLine /\ EndLine(Current) \in CommandLine
    BY <2>1, EnvironmentTypes DEF Environment
  <2> DEFINE new == IF ConfOf(l) = KernelConf THEN EndLine(Current) ELSE ConfOf(l).start
  <2>3. lines' = <<new>> \o lines /\ new \in CommandLine
    BY <1>6, <2>2 DEF ChangeEnvironment
  <2> HIDE DEF new
  <2>4. <<new>> \in Seq(CommandLine)
    BY <2>3
  <2>5. lines' \in Seq(CommandLine)
    BY <2>3, <2>4, ConcatProperties
  <2> QED BY <1>6, <2>5 DEF ChangeEnvironment, Loop, LastPrompt
<1>7. ASSUME NEW l \in Range(lines), TakeLine(l)
      PROVE  ListInv'
  <2> DEFINE entered == StartedBy(l)
             in == IF Len(stack') > Len(stack) THEN Head(stack') ELSE Current
             command == [line |-> l,
                         type |-> IF in.prefix # None \/ l.name \in UserNames THEN "user" ELSE "kernel",
                         prompt |-> IF stack' = <<>> THEN None ELSE Head(stack').prompt]
  <2>1. stack # <<>> /\ lines # <<>> /\ l = Head(lines) /\ l.name # None /\ test' = test
        /\ step = "loop" /\ step' = step /\ lines' = Tail(lines) /\ commands' = Append(commands, command)
        /\ stack' = IF l.name = Current.end.name THEN Tail(stack)
                    ELSE IF entered # NoConf THEN <<entered>> \o stack
                    ELSE stack
    BY <1>7 DEF TakeLine, Loop, AtLine, AddCommand
  <2>2. lines' \in Seq(CommandLine) /\ l \in CommandLine /\ Tail(stack) \in Seq(Environment)
    BY <2>1, HeadTailProperties
  <2>3. stack' \in Seq(Environment)
    <3>1. entered # NoConf => <<entered>> \o stack \in Seq(Environment)
      <4> SUFFICES ASSUME entered # NoConf
                   PROVE  <<entered>> \o stack \in Seq(Environment)
        OBVIOUS
      <4>1. entered \in Environment
        BY ConfTypes
      <4> HIDE DEF entered
      <4>2. <<entered>> \in Seq(Environment)
        BY <4>1
      <4> QED BY <4>2, ConcatProperties
    <3> HIDE DEF entered
    <3> QED BY <2>1, <2>2, <3>1
  <2>4. stack' # <<>> => Head(stack') \in Environment /\ Head(stack').prompt \in Word
    <3>1. \A e \in Environment : e.prompt \in Word
      BY DEF Environment
    <3>2. PICK q \in Seq(Environment) : q = stack'
      BY <2>3
    <3>3. q # <<>> => Head(q) \in Environment
      BY HeadTailProperties
    <3> QED BY <3>1, <3>2, <3>3
  <2>5. command \in CommandRecord /\ (command.prompt = None <=> stack' = <<>>)
    <3>1. l \in [prefix : Prefix \cup {None}, name : Word]
      BY <2>1, <2>2 DEF CommandLine
    <3>2. None \notin Word
      BY TestsAssumption
    <3> HIDE DEF in
    <3> QED BY <2>4, <3>1, <3>2 DEF CommandRecord
  <2> HIDE DEF command, entered, in
  <2>6. commands' \in Seq(CommandRecord) /\ Len(commands') = Len(commands) + 1 /\ commands' # <<>>
        /\ commands'[Len(commands) + 1] = command
        /\ \A i \in 1..Len(commands) : commands'[i] = commands[i]
    BY <2>1, <2>5, AppendProperties
  <2>7. LastPrompt'
    <3>1. Len(commands) \in Nat
      BY LenProperties
    <3>2. \A i \in 1..Len(commands) : commands[i].prompt # None
      BY <2>1, <3>1 DEF LastPrompt
    <3> QED BY <2>1, <2>5, <2>6, <3>1, <3>2 DEF LastPrompt
  <2> QED BY <2>1, <2>2, <2>3, <2>6, <2>7
<1> QED
  BY <1>1, <1>2, <1>3, <1>4, <1>5, <1>6, <1>7 DEF ListNext

-----------------------------------------------------------------------------
(* From the machine to Recv: of a text s, k characters are received, the   *)
(* reads in the queue q end at the positions of at, and the rest is t.     *)

Flow(s, q, t, k, at) ==
  /\ k \in 0..Len(s)
  /\ at \in [0..Len(q) -> 0..Len(s)]
  /\ at[0] = k /\ \A i, j \in 0..Len(q) : i <= j => at[i] <= at[j]
  /\ \A i \in 1..Len(q) : q[i] = Part(s, at[i - 1], at[i])
  /\ t = Part(s, at[Len(q)], Len(s))

Flowing(s, q, t, k) == \E at : Flow(s, q, t, k, at)

LEMMA FlowProps ==
  ASSUME NEW S, NEW s \in Seq(S), NEW q \in Seq(Seq(S)), NEW t, NEW k, NEW at, Flow(s, q, t, k, at)
  PROVE  /\ Len(s) \in Nat /\ Len(q) \in Nat /\ k \in Nat /\ k <= Len(s)
         /\ \A i \in 0..Len(q) : at[i] \in Nat /\ at[i] <= Len(s) /\ k <= at[i]
         /\ \A i \in 1..Len(q) : i - 1 \in 0..Len(q) /\ i \in 0..Len(q) /\ at[i - 1] <= at[i]
<1>1. Len(s) \in Nat /\ Len(q) \in Nat
  BY LenProperties
<1>2. k \in 0..Len(s) /\ at \in [0..Len(q) -> 0..Len(s)] /\ at[0] = k
      /\ \A i, j \in 0..Len(q) : i <= j => at[i] <= at[j]
  BY DEF Flow
<1>3. \A i \in 1..Len(q) : i - 1 \in 0..Len(q) /\ i \in 0..Len(q) /\ i - 1 <= i
  BY <1>1
<1>4. 0 \in 0..Len(q)
  BY <1>1
<1>5. ASSUME NEW i \in 0..Len(q)
      PROVE  at[i] \in Nat /\ at[i] <= Len(s) /\ k <= at[i]
  <2>1. at[i] \in 0..Len(s) /\ 0 <= i
    BY <1>1, <1>2
  <2>2. at[0] <= at[i]
    BY <1>2, <1>4, <2>1
  <2> QED BY <1>1, <1>2, <2>1, <2>2
<1>6. ASSUME NEW i \in 1..Len(q)
      PROVE  at[i - 1] <= at[i]
  BY <1>2, <1>3
<1> QED
  BY <1>1, <1>2, <1>3, <1>5, <1>6

(* The machine prints: the rest of the text grows with it.                 *)
LEMMA FlowGrows ==
  ASSUME NEW S, NEW s \in Seq(S), NEW x \in Seq(S), NEW q \in Seq(Seq(S)), NEW t, NEW k, Flowing(s, q, t, k)
  PROVE  Flowing(s \o x, q, t \o x, k)
<1>1. PICK at : Flow(s, q, t, k, at)
  BY DEF Flowing
<1>2. /\ Len(s) \in Nat /\ Len(q) \in Nat /\ k \in Nat /\ k <= Len(s)
      /\ \A i \in 0..Len(q) : at[i] \in Nat /\ at[i] <= Len(s) /\ k <= at[i]
      /\ \A i \in 1..Len(q) : i - 1 \in 0..Len(q) /\ i \in 0..Len(q) /\ at[i - 1] <= at[i]
  BY <1>1, FlowProps
<1>3. s \o x \in Seq(S) /\ Len(s \o x) \in Nat /\ Len(s) <= Len(s \o x)
  BY ConcatProperties, LenProperties
<1>4. k \in 0..Len(s \o x) /\ at \in [0..Len(q) -> 0..Len(s \o x)]
  <2>1. at \in [0..Len(q) -> 0..Len(s)] /\ k \in 0..Len(s)
    BY <1>1 DEF Flow
  <2>2. 0..Len(s) \subseteq 0..Len(s \o x)
    BY <1>2, <1>3
  <2> QED BY <2>1, <2>2
<1>5. ASSUME NEW i \in 1..Len(q)
      PROVE  q[i] = Part(s \o x, at[i - 1], at[i])
  <2>1. q[i] = Part(s, at[i - 1], at[i])
    BY <1>1 DEF Flow
  <2>2. Part(s \o x, at[i - 1], at[i]) = Part(s, at[i - 1], at[i])
    <3>1. at[i - 1] \in Nat /\ at[i] \in Nat /\ at[i - 1] <= at[i] /\ at[i] <= Len(s)
      BY <1>2
    <3> QED BY <3>1, PartOfLonger, Zenon
  <2> QED BY <2>1, <2>2
<1>6. t \o x = Part(s \o x, at[Len(q)], Len(s \o x))
  <2>1. Len(q) \in 0..Len(q)
    BY <1>2
  <2>2. t = Part(s, at[Len(q)], Len(s))
    BY <1>1 DEF Flow
  <2>3. Part(s \o x, at[Len(q)], Len(s \o x)) = Part(s, at[Len(q)], Len(s)) \o x
    BY <1>2, <2>1, RestOfLonger, Zenon
  <2> QED BY <2>2, <2>3
<1>7. at[0] = k /\ \A i, j \in 0..Len(q) : i <= j => at[i] <= at[j]
  BY <1>1 DEF Flow
<1>8. Flow(s \o x, q, t \o x, k, at)
  BY <1>4, <1>5, <1>6, <1>7, Zenon DEF Flow
<1> QED
  BY <1>8 DEF Flowing

(* A read of n characters, of none at the end of the file.                 *)
LEMMA FlowRead ==
  ASSUME NEW S, NEW s \in Seq(S), NEW q \in Seq(Seq(S)), NEW t, NEW k, NEW n \in Nat,
         n <= Len(t), Flowing(s, q, t, k)
  PROVE  Flowing(s, Append(q, SubSeq(t, 1, n)), SubSeq(t, n + 1, Len(t)), k)
<1>1. PICK at : Flow(s, q, t, k, at)
  BY DEF Flowing
<1>2. /\ Len(s) \in Nat /\ Len(q) \in Nat /\ k \in Nat /\ k <= Len(s)
      /\ \A i \in 0..Len(q) : at[i] \in Nat /\ at[i] <= Len(s) /\ k <= at[i]
      /\ \A i \in 1..Len(q) : i - 1 \in 0..Len(q) /\ i \in 0..Len(q) /\ at[i - 1] <= at[i]
  BY <1>1, FlowProps
<1>3. PICK m \in Nat : m = Len(q)
  BY <1>2
<1>4. PICK a \in Nat : a = at[m] /\ a <= Len(s)
  BY <1>2, <1>3
<1>5. t = Part(s, a, Len(s))
  BY <1>1, <1>3, <1>4 DEF Flow
<1>6. Len(t) = Len(s) - a /\ a + n \in Nat /\ a + n <= Len(s)
  <2>1. Len(s) <= Len(s)
    BY <1>2
  <2>2. Len(Part(s, a, Len(s))) = Len(s) - a
    BY <1>2, <1>4, <2>1, PartLen, Zenon
  <2> QED BY <1>2, <1>4, <1>5, <2>2
<1>7. SubSeq(t, 1, n) = Part(s, a, a + n) /\ SubSeq(t, n + 1, Len(t)) = Part(s, a + n, Len(s))
  <2>1. PICK e \in Nat : e = Len(s) /\ a <= e /\ e <= Len(s)
    BY <1>2, <1>4
  <2>2. PICK d \in Nat, z \in Nat : d = e - a /\ d <= e - a /\ n <= d /\ z = 0 /\ z <= n /\ n <= e - a
                                   /\ a + d = e /\ a + z = a
    <3>1. e - a \in Nat /\ e - a <= e - a /\ a + (e - a) = e /\ n <= e - a /\ a + 0 = a /\ 0 <= n
      BY <1>6, <2>1
    <3> QED BY <3>1
  <2>3. Part(Part(s, a, e), z, n) = Part(s, a + z, a + n)
    <3>1. a <= e /\ e <= Len(s) /\ z <= n /\ n <= e - a
      BY <2>1, <2>2
    <3> QED BY <3>1, PartOfPart
  <2>4. Part(Part(s, a, e), n, d) = Part(s, a + n, a + d)
    <3>1. a <= e /\ e <= Len(s) /\ n <= d /\ d <= e - a
      BY <2>1, <2>2
    <3> QED BY <3>1, PartOfPart
  <2>5. Part(t, 0, n) = SubSeq(t, 1, n) /\ Part(t, n, d) = SubSeq(t, n + 1, Len(t))
    <3>1. 0 + 1 = 1 /\ Len(t) = d
      BY <1>6, <2>1, <2>2
    <3> QED BY <3>1 DEF Part
  <2>6. Part(t, z, n) = Part(s, a, a + n) /\ Part(t, n, d) = Part(s, a + n, e)
    BY <1>5, <2>1, <2>2, <2>3, <2>4, Zenon
  <2> QED BY <2>1, <2>2, <2>5, <2>6, Zenon
<1> DEFINE r == Part(s, a, a + n)
           at2 == [i \in 0..(m + 1) |-> IF i = m + 1 THEN a + n ELSE at[i]]
<1>8. r \in Seq(S)
  <2>1. a <= a + n
    OBVIOUS
  <2> QED BY <1>6, <2>1, PartProps, Zenon
<1>9. PICK q2 \in Seq(Seq(S)) : q2 = Append(q, r) /\ Len(q2) = m + 1 /\ q2[m + 1] = r
                                /\ \A i \in 1..m : q2[i] = q[i]
  <2> HIDE DEF r
  <2>1. /\ Append(q, r) \in Seq(Seq(S)) /\ Len(Append(q, r)) = Len(q) + 1
        /\ Append(q, r)[Len(q) + 1] = r /\ \A i \in 1..Len(q) : Append(q, r)[i] = q[i]
    BY <1>8, AppendProperties
  <2> QED BY <1>3, <2>1
<1>10. \A i \in 0..m : at2[i] = at[i] /\ i \in 0..(m + 1) /\ at[i] <= a
  <2> TAKE i \in 0..m
  <2>1. at[i] <= at[m]
    BY <1>1, <1>3 DEF Flow
  <2> QED BY <1>4, <2>1
<1>11. at2[m + 1] = a + n
  OBVIOUS
<1>12. at2 \in [0..(m + 1) -> 0..Len(s)]
  <2>1. \A i \in 0..(m + 1) : i # m + 1 => i \in 0..m
    OBVIOUS
  <2>2. \A i \in 0..m : at[i] \in 0..Len(s)
    BY <1>2, <1>3
  <2> QED BY <1>2, <1>6, <2>1, <2>2
<1>13. at2[0] = k
  BY <1>1, <1>10 DEF Flow
<1> HIDE DEF at2, r
<1>14. ASSUME NEW i \in 0..(m + 1), NEW j \in 0..(m + 1), i <= j
       PROVE  at2[i] <= at2[j]
  <2>1. CASE j = m + 1
    <3>1. CASE i = m + 1
      BY <1>6, <1>11, <2>1, <3>1
    <3>2. CASE i # m + 1
      <4>1. i \in 0..m
        BY <3>2
      <4>2. at2[i] = at[i] /\ at[i] <= a /\ at[i] \in Nat
        BY <1>2, <1>3, <1>10, <4>1
      <4> QED BY <1>4, <1>11, <2>1, <4>2
    <3> QED BY <3>1, <3>2
  <2>2. CASE j # m + 1
    <3>1. i \in 0..m /\ j \in 0..m
      BY <1>14, <2>2
    <3>2. at[i] <= at[j]
      BY <1>1, <1>3, <1>14, <3>1 DEF Flow
    <3> QED BY <1>10, <3>1, <3>2
  <2> QED BY <2>1, <2>2
<1>15. ASSUME NEW i \in 1..(m + 1)
       PROVE  q2[i] = Part(s, at2[i - 1], at2[i])
  <2>1. CASE i = m + 1
    <3>1. i - 1 = m /\ m \in 0..m
      BY <2>1
    <3>2. at2[i - 1] = a
      BY <1>4, <1>10, <3>1
    <3> QED BY <1>9, <1>11, <2>1, <3>2 DEF r
  <2>2. CASE i # m + 1
    <3>1. i \in 1..m /\ i \in 0..m /\ i - 1 \in 0..m
      BY <2>2
    <3>2. q[i] = Part(s, at[i - 1], at[i])
      BY <1>1, <1>3, <3>1 DEF Flow
    <3> QED BY <1>9, <1>10, <3>1, <3>2
  <2> QED BY <2>1, <2>2
<1>16. Flow(s, q2, Part(s, a + n, Len(s)), k, at2)
  <2>1. k \in 0..Len(s)
    BY <1>2
  <2> QED BY <1>9, <1>11, <1>12, <1>13, <1>14, <1>15, <2>1, Zenon DEF Flow
<1> QED
  BY <1>7, <1>9, <1>16, Zenon DEF Flowing, r

(* Recv takes the first read off the queue.                                *)
LEMMA FlowTaken ==
  ASSUME NEW S, NEW s \in Seq(S), NEW q \in Seq(Seq(S)), q # <<>>, NEW t, NEW k, Flowing(s, q, t, k)
  PROVE  /\ k \in Nat
         /\ \E m \in Nat : /\ k <= m /\ m <= Len(s)
                           /\ Head(q) = Part(s, k, m)
                           /\ Flowing(s, Tail(q), t, m)
<1>1. PICK at : Flow(s, q, t, k, at)
  BY DEF Flowing
<1>2. /\ Len(s) \in Nat /\ Len(q) \in Nat /\ k \in Nat /\ k <= Len(s)
      /\ \A i \in 0..Len(q) : at[i] \in Nat /\ at[i] <= Len(s) /\ k <= at[i]
      /\ \A i \in 1..Len(q) : i - 1 \in 0..Len(q) /\ i \in 0..Len(q) /\ at[i - 1] <= at[i]
  BY <1>1, FlowProps
<1>3. Len(q) # 0
  BY EmptySeq
<1>4. PICK n \in Nat : Len(q) = n + 1
  <2>1. Len(q) - 1 \in Nat /\ Len(q) = (Len(q) - 1) + 1
    BY <1>2, <1>3
  <2> QED BY <2>1
<1>5. 1 \in 1..Len(q) /\ 1 \in 0..Len(q) /\ 1 - 1 = 0
  BY <1>4
<1>6. PICK m \in Nat : m = at[1] /\ k <= m /\ m <= Len(s)
  BY <1>2, <1>5
<1>7. Head(q) = Part(s, k, m)
  <2>1. q[1] = Part(s, at[1 - 1], at[1]) /\ at[0] = k
    BY <1>1, <1>5 DEF Flow
  <2>2. Head(q) = q[1]
    BY HeadTailProperties
  <2> QED BY <1>5, <1>6, <2>1, <2>2
<1>8. PICK q2 \in Seq(Seq(S)) : q2 = Tail(q) /\ Len(q2) = n /\ \A i \in 1..n : q2[i] = q[i + 1]
  <2>1. (n + 1) - 1 = n
    OBVIOUS
  <2>2. Tail(q) \in Seq(Seq(S)) /\ Len(Tail(q)) = Len(q) - 1 /\ \A i \in 1..Len(Tail(q)) : Tail(q)[i] = q[i + 1]
    BY HeadTailProperties
  <2> QED BY <1>4, <2>1, <2>2
<1> DEFINE at2 == [i \in 0..n |-> at[i + 1]]
<1>9. \A i \in 0..n : at2[i] = at[i + 1] /\ i + 1 \in 0..(n + 1) /\ at[i + 1] \in 0..Len(s)
  BY <1>2, <1>4
<1>10. at2 \in [0..n -> 0..Len(s)]
  BY <1>9
<1> HIDE DEF at2
<1>11. at2[0] = m
  <2>1. 0 \in 0..n /\ 0 + 1 = 1
    OBVIOUS
  <2> QED BY <1>6, <1>9, <2>1
<1>12. ASSUME NEW i \in 0..n, NEW j \in 0..n, i <= j
       PROVE  at2[i] <= at2[j]
  <2>1. i + 1 \in 0..Len(q) /\ j + 1 \in 0..Len(q) /\ i + 1 <= j + 1
    BY <1>4, <1>12
  <2>2. at[i + 1] <= at[j + 1]
    BY <1>1, <2>1 DEF Flow
  <2> QED BY <1>9, <2>2
<1>13. ASSUME NEW i \in 1..n
       PROVE  q2[i] = Part(s, at2[i - 1], at2[i])
  <2>1. i + 1 \in 1..Len(q) /\ (i + 1) - 1 = i /\ i \in 0..n /\ i - 1 \in 0..n /\ (i - 1) + 1 = i
    BY <1>4
  <2>2. q[i + 1] = Part(s, at[i], at[i + 1])
    BY <1>1, <2>1 DEF Flow
  <2>3. at2[i] = at[i + 1] /\ at2[i - 1] = at[(i - 1) + 1]
    BY <1>9, <2>1, Zenon
  <2> QED BY <1>8, <2>1, <2>2, <2>3
<1>14. t = Part(s, at2[n], Len(s))
  <2>1. n \in 0..n
    OBVIOUS
  <2> QED BY <1>1, <1>4, <1>9, <2>1 DEF Flow
<1>15. Flow(s, q2, t, m, at2)
  <2>1. m \in 0..Len(s)
    BY <1>2, <1>6
  <2> QED BY <1>8, <1>10, <1>11, <1>12, <1>13, <1>14, <2>1, Zenon DEF Flow
<1> QED
  BY <1>2, <1>6, <1>7, <1>8, <1>15, Zenon DEF Flowing

(* When nothing is on its way, everything is received.                     *)
LEMMA FlowEnd ==
  ASSUME NEW S, NEW s \in Seq(S), NEW k, Flowing(s, <<>>, <<>>, k)
  PROVE  k = Len(s)
<1>1. PICK at : Flow(s, <<>>, <<>>, k, at)
  BY DEF Flowing
<1>2. Len(<<>>) = 0 /\ <<>> \in Seq(Seq(S)) /\ 0 \in 0..Len(<<>>)
  OBVIOUS
<1>3. Len(s) \in Nat /\ k \in Nat /\ k <= Len(s)
  BY <1>1, <1>2, FlowProps
<1>4. <<>> = Part(s, k, Len(s))
  BY <1>1, <1>2 DEF Flow
<1>5. Len(Part(s, k, Len(s))) = Len(s) - k
  <2>1. Len(s) <= Len(s)
    BY <1>3
  <2> QED BY <1>3, <2>1, PartLen, Zenon
<1> QED
  BY <1>2, <1>3, <1>4, <1>5

(* When everything is received, the next text can begin.                   *)
LEMMA FlowAnew ==
  ASSUME NEW S, NEW s \in Seq(S), NEW q \in Seq(Seq(S)), NEW t, Flowing(s, q, t, Len(s))
  PROVE  Flowing(<<>>, q, t, 0)
<1>1. PICK at : Flow(s, q, t, Len(s), at)
  BY DEF Flowing
<1>2. PICK e \in Nat : e = Len(s)
  BY LenProperties
<1>3. \A i \in 0..Len(q) : at[i] = e
  <2>1. \A i \in 0..Len(q) : at[i] \in Nat /\ at[i] <= Len(s) /\ Len(s) <= at[i]
    BY <1>1, FlowProps
  <2> QED BY <1>2, <2>1
<1>4. PICK n \in Nat : n = Len(q)
  BY LenProperties
<1>5. \A i \in 1..n : q[i] = <<>>
  <2> TAKE i \in 1..n
  <2>1. i \in 0..Len(q) /\ i - 1 \in 0..Len(q) /\ i \in 1..Len(q)
    BY <1>4
  <2>2. q[i] = Part(s, at[i - 1], at[i])
    BY <1>1, <2>1 DEF Flow
  <2> QED BY <1>3, <2>1, <2>2, PartEmpty
<1>6. t = <<>>
  <2>1. n \in 0..Len(q)
    BY <1>4
  <2>2. t = Part(s, at[n], e)
    BY <1>1, <1>2, <1>4 DEF Flow
  <2> QED BY <1>3, <2>1, <2>2, PartEmpty
<1> DEFINE at2 == [i \in 0..n |-> 0]
<1>7. \A x, y : Part(<<>>, 0, 0) = <<>>
  BY PartEmpty
<1>8. Len(<<>>) = 0
  OBVIOUS
<1>9. /\ at2 \in [0..n -> 0..0] /\ at2[0] = 0 /\ \A i, j \in 0..n : i <= j => at2[i] <= at2[j]
      /\ \A i \in 1..n : at2[i - 1] = 0 /\ at2[i] = 0
      /\ at2[n] = 0
  OBVIOUS
<1> HIDE DEF at2
<1>10. Flow(<<>>, q, t, 0, at2)
  <2>1. 0 \in 0..0
    OBVIOUS
  <2> QED BY <1>4, <1>5, <1>6, <1>7, <1>8, <1>9, <2>1 DEF Flow
<1> QED
  BY <1>10 DEF Flowing

-----------------------------------------------------------------------------
(* What ExpectRegexp finds.                                                *)

LEMMA FirstMatch ==
  ASSUME NEW S, NEW text \in Seq(S), NEW pattern, NEW n \in Nat \ {0}, Len(pattern) = n, Matches(pattern, text)
  PROVE  \E i \in Nat : /\ i + n <= Len(text)
                        /\ SubSeq(text, i + 1, i + n) = pattern
                        /\ AfterMatch(pattern, text) = Part(text, i + n, Len(text))
<1> DEFINE K == {i \in DOMAIN text : MatchesAt(pattern, text, i)}
<1>1. DOMAIN text = 1..Len(text) /\ Len(text) \in Nat
  BY LenProperties
<1>2. K \subseteq Nat /\ K # {}
  BY <1>1 DEF Matches
<1>3. PICK k \in K : \A j \in K : k <= j
  <2> HIDE DEF K
  <2> QED BY <1>2, Smallest
<1> DEFINE Is1(i) == i \in DOMAIN text /\ MatchesAt(pattern, text, i) /\ \A j \in 1..(i - 1) : ~MatchesAt(pattern, text, j)
           first == CHOOSE i \in DOMAIN text : MatchesAt(pattern, text, i)
                      /\ \A j \in 1..(i - 1) : ~MatchesAt(pattern, text, j)
<1>4. \A j \in 1..(k - 1) : ~MatchesAt(pattern, text, j)
  <2> TAKE j \in 1..(k - 1)
  <2>1. j \in DOMAIN text /\ ~(k <= j)
    BY <1>1
  <2> QED BY <1>3, <2>1
<1>5. first \in DOMAIN text /\ MatchesAt(pattern, text, first)
  <2>1. \E i \in DOMAIN text : MatchesAt(pattern, text, i) /\ \A j \in 1..(i - 1) : ~MatchesAt(pattern, text, j)
    BY <1>3, <1>4
  <2> QED BY <2>1, Zenon
<1>6. AfterMatch(pattern, text) = SubSeq(text, first + n, Len(text))
  BY DEF AfterMatch
<1> HIDE DEF first
<1>7. PICK i \in Nat : first = i + 1
  <2>1. first - 1 \in Nat /\ first = (first - 1) + 1
    BY <1>1, <1>5
  <2> QED BY <2>1
<1>8. i + n <= Len(text) /\ SubSeq(text, i + 1, i + n) = pattern
  <2>1. first + n - 1 <= Len(text) /\ SubSeq(text, first, first + n - 1) = pattern
    BY <1>5 DEF MatchesAt
  <2>2. first + n - 1 = i + n
    BY <1>7
  <2> QED BY <1>7, <2>1, <2>2
<1>9. first + n = (i + n) + 1
  BY <1>7
<1> QED
  BY <1>6, <1>8, <1>9 DEF Part

LEMMA NoMatch ==
  ASSUME NEW S, NEW text \in Seq(S), NEW c \in S, ~Matches(<<c>>, text)
  PROVE  \A i \in 1..Len(text) : text[i] # c
<1> SUFFICES ASSUME NEW i \in 1..Len(text), text[i] = c
             PROVE  FALSE
  OBVIOUS
<1>1. DOMAIN text = 1..Len(text) /\ Len(text) \in Nat
  BY LenProperties
<1>2. PICK a \in Nat, b \in Nat : a = i - 1 /\ b = i /\ a <= b /\ b <= Len(text) /\ a + 1 = i
  BY <1>1
<1>3. <<c>> = Part(text, a, b)
  <2>1. b - a = 1
    BY <1>2
  <2>2. <<c>> \in Seq(S) /\ Len(<<c>>) = b - a /\ \A j \in 1..(b - a) : <<c>>[j] = text[a + j]
    BY <1>2, <2>1
  <2>3. a <= b /\ b <= Len(text)
    BY <1>2
  <2> QED BY <2>2, <2>3, PartIs, Zenon
<1>4. SubSeq(text, i, i) = <<c>> /\ i + Len(<<c>>) - 1 = i /\ i <= Len(text)
  <2>1. SubSeq(text, a + 1, b) = <<c>>
    BY <1>3 DEF Part
  <2>2. Len(<<c>>) = 1
    OBVIOUS
  <2>3. i + 1 - 1 = i /\ i <= Len(text)
    BY <1>1
  <2> QED BY <1>2, <2>1, <2>2, <2>3, Zenon
<1>5. MatchesAt(<<c>>, text, i)
  BY <1>4 DEF MatchesAt
<1> QED
  BY <1>1, <1>5 DEF Matches

-----------------------------------------------------------------------------
(* The invariant.                                                          *)

Plain == Word \cup {Newline}
Character == Plain \cup {PromptEnd}

Segment == spoken[counter]      \* what the machine prints for the current command
NextPrompt == Len(spoken) = counter + 1
NoNewline(s) == \A i \in 1..Len(s) : s[i] # Newline

Got(a) == pc = "answered" /\ answer = a
Judged == pc \in {"close", "draining", "done"} /\ counter = Len(commands) /\ rest = <<>>

Unstarted ==
  /\ counter = 1 /\ rest = <<>> /\ answer = "none" /\ partial = <<>>
  /\ buffer = <<>> /\ readStatus = "none" /\ queue = <<>> /\ reader = "none"
  /\ tty = <<>> /\ input = <<>>
  /\ machine = [state |-> "off", envs |-> <<>>, typed |-> <<>>]

Machines == [state : {"booting", "ready", "hung", "down"}, envs : Seq(Environment), typed : Seq(Plain)]
Rests == {<<>>, <<Newline>>} \cup {<<w, Newline>> : w \in Word}

RunTypes ==
  /\ step = "done"
  /\ pc \in {"expect", "waiting", "answered", "top", "send", "close", "draining", "done"}
  /\ counter \in 1..Len(commands)
  /\ rest \in Rests
  /\ answer \in {"none", "match", "timeout", "eof"} /\ readStatus \in {"none", "eof"}
  /\ reader \in {"reading", "ended"}

TextTypes ==
  /\ output \in [1..Len(commands) -> Seq(Seq(Character))] /\ partial \in Seq(Character)
  /\ buffer \in Seq(Character) /\ tty \in Seq(Character) /\ queue \in Seq(Seq(Character))
  /\ spoken \in Seq(Seq(Character))
  /\ input \in Seq(Plain)
  /\ machine \in Machines

(* Where the machine is, seen from the command that Run is at: at most one *)
(* prompt further, and then there is nothing that it could still be told.  *)
Segments ==
  /\ Len(spoken) = counter \/ NextPrompt
  /\ NextPrompt => spoken[counter + 1] = <<>>
  /\ \A i \in 1..(counter - 1) : output[i] = AllLines(spoken[i])
  /\ \A i \in (counter + 1)..Len(commands) : output[i] = <<>>
  /\ \A j \in 1..Len(Segment) : Segment[j] = PromptEnd => j = Len(Segment) /\ NextPrompt

Booting == machine.state = "booting" =>
  /\ pc \in {"expect", "waiting"} /\ counter = 1 /\ ~NextPrompt /\ Segment = <<>>
  /\ input = <<>> /\ rest = <<>> /\ queue = <<>> /\ tty = <<>> /\ buffer = <<>> /\ readStatus = "none"

(* The newline of the command has not been sent, or was not heard.         *)
Unsent == Len(rest) = 2 \/ (rest = <<Newline>> /\ (pc = "send" \/ Got("timeout")))

Ready == machine.state = "ready" =>
  /\ machine.envs # <<>>
  /\ \A i \in 1..Len(input) : input[i] = Newline => i = Len(input)
  /\ NextPrompt \/ pc \in {"top", "close"} => input = <<>>
  /\ Unsent => NoNewline(input) /\ NoNewline(Segment) /\ ~NextPrompt
  /\ rest = <<Newline>> /\ NextPrompt => ~NoNewline(Segment)

Places ==
  /\ pc = "top" => rest = <<>> /\ Segment = <<>> /\ ~NextPrompt
  /\ pc = "send" => rest # <<>>
  /\ pc = "waiting" => ~Matches(Pattern, buffer)
  /\ pc \in {"draining", "done"} => machine.state = "down"
  /\ pc = "answered" => answer # "none"
  /\ Got("timeout") => Silent
  /\ Got("match") /\ rest = <<>> => NextPrompt /\ buffer = <<>> /\ counter < Len(commands)

(* The end of the file is the last thing that is read.                     *)
Ends ==
  /\ reader = "ended" => machine.state = "down" /\ tty = <<>>
  /\ \A i \in 1..Len(queue) : queue[i] = Eof => i = Len(queue) /\ reader = "ended"
  /\ readStatus = "eof" \/ Got("eof") \/ pc = "done" => queue = <<>> /\ reader = "ended"

(* Of the segment, k characters are received, and the buffer begins behind *)
(* b of them.                                                              *)
Received(k, b) ==
  /\ Flowing(Segment, queue, tty, k)
  /\ b \in 0..k /\ buffer = Part(Segment, b, k)
  /\ IF Judged THEN k = Len(Segment) /\ output[counter] = AllLines(Segment)
     ELSE Cut(Part(Segment, 0, k), [lines |-> output[counter], text |-> partial], Character)
  /\ machine.state = "ready" /\ rest = <<Newline>> /\ ~Got("match") => \A i \in 1..b : Segment[i] # Newline
  /\ Got("match") /\ rest = <<>> => k = Len(Segment)

State == RunTypes /\ TextTypes /\ Segments /\ Booting /\ Ready /\ Places /\ Ends

Started == pc # "init" /\ ListInv /\ State /\ \E k, b : Received(k, b)
Inv == (pc = "init" /\ ListInv /\ Unstarted) \/ Started

-----------------------------------------------------------------------------
(* The machine.                                                            *)

LEMMA CharacterTypes ==
  /\ Newline \in Plain /\ PromptEnd \notin Plain /\ Plain \subseteq Character /\ PromptEnd \in Character
  /\ Word \subseteq Plain /\ Newline \notin Word /\ NeverPrinted \notin Character
  /\ Newline \in Character
  BY ConsoleAssumption DEF Plain, Character, Newline, PromptEnd, NeverPrinted

LEMMA SegmentType ==
  ASSUME State
  PROVE  /\ Segment \in Seq(Character) /\ Len(Segment) \in Nat
         /\ counter \in Nat \ {0} /\ Len(spoken) \in Nat /\ Len(commands) \in Nat
         /\ counter <= Len(spoken) /\ counter <= Len(commands)
<1>1. counter \in 1..Len(commands)
  BY DEF State, RunTypes
<1>2. Len(spoken) = counter \/ Len(spoken) = counter + 1
  BY DEF State, Segments, NextPrompt
<1>3. spoken \in Seq(Seq(Character)) /\ Len(spoken) \in Nat
  BY LenProperties DEF State, TextTypes
<1>4. counter \in Int
  BY <1>1
<1>5. counter \in 1..Len(spoken)
  BY <1>1, <1>2, <1>3, <1>4
<1>6. Segment \in Seq(Character)
  BY <1>3, <1>5, ElementOfSeq DEF Segment
<1>7. Len(Segment) \in Nat
  BY <1>6, LenProperties
<1> QED
  BY <1>1, <1>3, <1>5, <1>6, <1>7

LEMMA TextType ==
  ASSUME NEW reply \in Seq(Word)
  PROVE  Text(reply) \in Seq(Plain)
<1>1. PICK n \in Nat : n = Len(reply)
  BY LenProperties
<1>2. \A i \in 1..(2 * n) : i % 2 # 0 => (i + 1) \div 2 \in 1..n
  OBVIOUS
<1>3. \A i \in 1..n : reply[i] \in Word
  BY <1>1, ElementOfSeq
<1>4. \A i \in 1..(2 * n) : (IF i % 2 = 0 THEN Newline ELSE reply[(i + 1) \div 2]) \in Plain
  BY <1>2, <1>3, CharacterTypes
<1>5. 2 * n \in Nat
  OBVIOUS
<1>6. [i \in 1..(2 * n) |-> IF i % 2 = 0 THEN Newline ELSE reply[(i + 1) \div 2]] \in Seq(Plain)
  BY <1>4, <1>5
<1> QED
  BY <1>1, <1>6 DEF Text

(* What it prints goes to the end of its current text; the next one may    *)
(* begin.                                                                  *)
Adds(text, next) ==
  /\ tty' = tty \o text
  /\ spoken' = [spoken EXCEPT ![Len(spoken)] = @ \o text] \o (IF next THEN <<<<>>>> ELSE <<>>)
  /\ \A j \in 1..Len(text) : text[j] = PromptEnd => j = Len(text) /\ next

LEMMA PlainHasNoPrompt ==
  ASSUME NEW s \in Seq(Plain)
  PROVE  s \in Seq(Character) /\ \A j \in 1..Len(s) : s[j] # PromptEnd
<1>1. s \in Seq(Character)
  BY CharacterTypes
<1>2. \A j \in 1..Len(s) : s[j] \in Plain
  BY ElementOfSeq
<1> QED
  BY <1>1, <1>2, CharacterTypes

LEMMA WithPrompt ==
  ASSUME NEW s \in Seq(Plain), NEW p \in Word
  PROVE  /\ s \o Prompt(p) \in Seq(Character)
         /\ \A j \in 1..Len(s \o Prompt(p)) : (s \o Prompt(p))[j] = PromptEnd => j = Len(s \o Prompt(p))
<1>1. PICK e \in Seq(Character) : e = Prompt(p) /\ Len(e) = 2 /\ e[1] = p
  <2>1. <<p, PromptEnd>> \in Seq(Character) /\ Len(<<p, PromptEnd>>) = 2 /\ <<p, PromptEnd>>[1] = p
    BY CharacterTypes
  <2> QED BY <2>1 DEF Prompt
<1>2. s \in Seq(Character) /\ \A j \in 1..Len(s) : s[j] # PromptEnd
  BY PlainHasNoPrompt
<1>3. PICK n \in Nat : n = Len(s)
  BY LenProperties
<1>4. /\ s \o e \in Seq(Character) /\ Len(s \o e) = n + 2
      /\ \A j \in 1..(n + 2) : (s \o e)[j] = IF j <= n THEN s[j] ELSE e[j - n]
  <2>1. /\ s \o e \in Seq(Character) /\ Len(s \o e) = Len(s) + Len(e)
        /\ \A j \in 1..(Len(s) + Len(e)) : (s \o e)[j] = IF j <= Len(s) THEN s[j] ELSE e[j - Len(s)]
    BY <1>2, ConcatProperties
  <2> QED BY <1>1, <1>3, <2>1
<1>5. ASSUME NEW j \in 1..(n + 2), j # n + 2
      PROVE  (s \o e)[j] # PromptEnd
  <2>1. CASE j <= n
    <3>1. j \in 1..Len(s)
      BY <1>3, <2>1
    <3> QED BY <1>2, <1>4, <2>1, <3>1
  <2>2. CASE ~(j <= n)
    <3>1. j - n = 1
      BY <1>5, <2>2
    <3>2. (s \o e)[j] = p
      BY <1>1, <1>4, <2>2, <3>1
    <3> QED BY <3>2, CharacterTypes
  <2> QED BY <2>1, <2>2
<1> QED
  BY <1>1, <1>4, <1>5

LEMMA SpokenOn ==
  ASSUME State, NEW text \in Seq(Character)
  PROVE  /\ [spoken EXCEPT ![Len(spoken)] = @ \o text] \in Seq(Seq(Character))
         /\ Len([spoken EXCEPT ![Len(spoken)] = @ \o text]) = Len(spoken)
         /\ [spoken EXCEPT ![Len(spoken)] = @ \o text][Len(spoken)] = spoken[Len(spoken)] \o text
         /\ \A i \in 1..(Len(spoken) - 1) : [spoken EXCEPT ![Len(spoken)] = @ \o text][i] = spoken[i]
<1>1. spoken \in Seq(Seq(Character))
  BY DEF State, TextTypes
<1>2. PICK n \in Nat : n = Len(spoken) /\ n \in 1..Len(spoken)
  BY SegmentType
<1>3. spoken[n] \in Seq(Character)
  BY <1>1, <1>2, ElementOfSeq
<1>4. spoken[n] \o text \in Seq(Character)
  BY <1>3, ConcatProperties
<1>5. PICK x \in Seq(Character) : x = spoken[n] \o text
  BY <1>4
<1>6. /\ [spoken EXCEPT ![n] = x] \in Seq(Seq(Character))
      /\ Len([spoken EXCEPT ![n] = x]) = Len(spoken)
      /\ \A j \in 1..Len(spoken) : [spoken EXCEPT ![n] = x][j] = IF j = n THEN x ELSE spoken[j]
  BY <1>1, <1>2, ExceptSeq
<1>7. [spoken EXCEPT ![n] = @ \o text] = [spoken EXCEPT ![n] = x]
  BY <1>5
<1>8. \A j \in 1..(n - 1) : j \in 1..n /\ j # n
  OBVIOUS
<1>9. /\ [spoken EXCEPT ![n] = x][n] = x
      /\ \A j \in 1..(n - 1) : [spoken EXCEPT ![n] = x][j] = spoken[j]
  BY <1>2, <1>6, <1>8
<1> QED
  BY <1>2, <1>5, <1>6, <1>7, <1>9

Begins(text, echo) ==
  Len(echo) <= Len(text) /\ \A j \in 1..Len(echo) : j \in 1..Len(text) /\ text[j] = echo[j]

EndsIn(text, p) == /\ Len(text) >= 2
                   /\ text[Len(text) - 1] = p /\ text[Len(text)] = PromptEnd

(* What becomes of the machine when it printed a text.                     *)
Outcome(text, next, length, envs) ==
  \/ /\ next /\ envs # <<>> /\ faulty' = faulty
     /\ machine' = [state |-> "ready", envs |-> envs, typed |-> <<>>]
     /\ Len(text) >= length + 2 /\ EndsIn(text, Head(envs).prompt)
  \/ /\ ~next /\ envs = <<>> /\ faulty' = faulty
     /\ machine' = [state |-> "down", envs |-> envs, typed |-> <<>>]
  \/ ~next /\ faulty' = TRUE /\ \E state \in {"hung", "down"} : machine' = [machine EXCEPT !.state = state]

LEMMA Beginning ==
  ASSUME NEW S, NEW s \in Seq(S), NEW t \in Seq(S)
  PROVE  Begins(s \o t, s) /\ Len(s \o t) = Len(s) + Len(t)
<1>1. /\ Len(s \o t) = Len(s) + Len(t) /\ Len(s) \in Nat /\ Len(t) \in Nat
      /\ \A i \in 1..(Len(s) + Len(t)) : (s \o t)[i] = IF i <= Len(s) THEN s[i] ELSE t[i - Len(s)]
  BY ConcatProperties, LenProperties
<1>2. \A i \in 1..Len(s) : i \in 1..(Len(s) + Len(t)) /\ i <= Len(s)
  BY <1>1
<1> QED
  BY <1>1, <1>2 DEF Begins

LEMMA PrintsMore ==
  ASSUME State, NEW echo \in Seq(Plain), NEW replies, \A r \in replies : r \in Seq(Word),
         NEW envs \in Seq(Environment), Prints(echo, replies, envs)
  PROVE  /\ machine' \in Machines /\ machine'.state \in {"ready", "hung", "down"}
         /\ \E text \in Seq(Character), next \in BOOLEAN :
              Adds(text, next) /\ Begins(text, echo) /\ Outcome(text, next, Len(echo), envs)
<1>1. PICK r \in replies : Prints(echo, {r}, envs)
  BY DEF Prints
<1>2. PICK whole \in Seq(Plain) : whole = Text(r)
  BY TextType
<1>3. echo \o whole \in Seq(Plain) /\ Begins(echo \o whole, echo) /\ Len(echo \o whole) = Len(echo) + Len(whole)
  BY ConcatProperties, Beginning
<1>4. Len(echo) \in Nat /\ Len(whole) \in Nat
  BY LenProperties
<1>5. ASSUME NEW state \in {"hung", "down"}, NEW k \in 0..Len(whole), NEW text,
             text = echo \o SubSeq(whole, 1, k),
             tty' = tty \o text, spoken' = [spoken EXCEPT ![Len(spoken)] = @ \o text],
             machine' = [machine EXCEPT !.state = state], faulty' = TRUE
      PROVE  /\ machine' \in Machines /\ machine'.state = state
             /\ text \in Seq(Character) /\ Adds(text, FALSE) /\ Begins(text, echo)
             /\ Outcome(text, FALSE, Len(echo), envs)
  <2>1. machine' \in Machines /\ machine'.state = state
    <3>1. machine \in Machines
      BY DEF State, TextTypes
    <3> QED BY <1>5, <3>1 DEF Machines
  <2>2. SubSeq(whole, 1, k) \in Seq(Plain)
    <3>1. k \in Nat /\ 0 <= k /\ k <= Len(whole) /\ 0 \in Nat /\ 0 + 1 = 1
      BY <1>4
    <3>2. Part(whole, 0, k) \in Seq(Plain)
      BY <3>1, PartProps, Zenon
    <3> QED BY <3>1, <3>2 DEF Part
  <2>3. text \in Seq(Plain) /\ Begins(text, echo)
    BY <1>5, <2>2, ConcatProperties, Beginning
  <2>4. text \in Seq(Character) /\ \A j \in 1..Len(text) : text[j] # PromptEnd
    BY <2>3, PlainHasNoPrompt
  <2>5. spoken' = [spoken EXCEPT ![Len(spoken)] = @ \o text] \o <<>>
    <3>1. [spoken EXCEPT ![Len(spoken)] = @ \o text] \in Seq(Seq(Character))
      BY <2>4, SpokenOn
    <3> QED BY <1>5, <3>1, ConcatEmptySeq
  <2>6. Adds(text, FALSE)
    BY <1>5, <2>4, <2>5, Zenon DEF Adds
  <2> QED BY <1>5, <2>1, <2>3, <2>4, <2>6 DEF Outcome
<1>6. CASE /\ \E k \in 0..Len(whole), state \in {"hung", "down"} :
                LET text == echo \o SubSeq(whole, 1, k) IN
                /\ tty' = tty \o text
                /\ spoken' = [spoken EXCEPT ![Len(spoken)] = @ \o text]
                /\ machine' = [machine EXCEPT !.state = state]
                /\ faulty' = TRUE
  <2>0. PICK k \in 0..Len(whole), state \in {"hung", "down"} :
            LET printed == echo \o SubSeq(whole, 1, k) IN
            /\ tty' = tty \o printed
            /\ spoken' = [spoken EXCEPT ![Len(spoken)] = @ \o printed]
            /\ machine' = [machine EXCEPT !.state = state]
            /\ faulty' = TRUE
    BY <1>6
  <2>1. PICK text :
            /\ text = echo \o SubSeq(whole, 1, k)
            /\ tty' = tty \o text
            /\ spoken' = [spoken EXCEPT ![Len(spoken)] = @ \o text]
            /\ machine' = [machine EXCEPT !.state = state]
            /\ faulty' = TRUE
    BY <2>0
  <2>2. /\ machine' \in Machines /\ machine'.state = state /\ text \in Seq(Character)
        /\ Adds(text, FALSE) /\ Begins(text, echo) /\ Outcome(text, FALSE, Len(echo), envs)
    BY <1>5, <2>1
  <2> QED BY <2>2
<1>7. ASSUME NEW text, text = echo \o whole \o (IF envs = <<>> THEN <<>> ELSE Prompt(Head(envs).prompt)),
             tty' = tty \o text, faulty' = faulty,
             spoken' = [spoken EXCEPT ![Len(spoken)] = @ \o text] \o (IF envs = <<>> THEN <<>> ELSE <<<<>>>>),
             machine' = [state |-> IF envs = <<>> THEN "down" ELSE "ready", envs |-> envs, typed |-> <<>>]
      PROVE  /\ machine' \in Machines /\ machine'.state \in {"ready", "down"}
             /\ text \in Seq(Character) /\ Adds(text, envs # <<>>) /\ Begins(text, echo)
             /\ Outcome(text, envs # <<>>, Len(echo), envs)
  <2>1. machine' \in Machines /\ machine'.state \in {"ready", "down"}
    BY <1>7, EmptySeq DEF Machines
  <2>2. PICK s \in Seq(Plain) : s = echo \o whole
    BY <1>3
  <2>3. /\ s \in Seq(Character) /\ \A j \in 1..Len(s) : s[j] # PromptEnd
        /\ Begins(s, echo)
    BY <1>3, <2>2, PlainHasNoPrompt
  <2>4. CASE envs = <<>>
    <3>1. text = s
      <4>1. text = s \o <<>>
        BY <1>7, <2>2, <2>4
      <4> QED BY <4>1, ConcatEmptySeq
    <3>2. spoken' = [spoken EXCEPT ![Len(spoken)] = @ \o text] \o <<>>
      BY <1>7, <2>4
    <3>3. Adds(text, FALSE)
      BY <1>7, <2>3, <3>1, <3>2 DEF Adds
    <3>4. Outcome(text, FALSE, Len(echo), envs)
      BY <1>7, <2>4 DEF Outcome
    <3> QED BY <2>1, <2>3, <2>4, <3>1, <3>3, <3>4
  <2>5. CASE envs # <<>>
    <3>1. PICK p \in Word : p = Head(envs).prompt
      <4>1. Head(envs) \in Environment
        BY <2>5, HeadTailProperties
      <4> QED BY <4>1 DEF Environment
    <3>2. text = s \o Prompt(p)
      BY <1>7, <2>2, <2>5, <3>1
    <3>3. /\ text \in Seq(Character)
          /\ \A j \in 1..Len(text) : text[j] = PromptEnd => j = Len(text)
      BY <3>2, WithPrompt
    <3>4. PICK e \in Seq(Character) : e = Prompt(p) /\ Len(e) = 2 /\ e[1] = p /\ e[2] = PromptEnd
      <4>1. /\ <<p, PromptEnd>> \in Seq(Character) /\ Len(<<p, PromptEnd>>) = 2
            /\ <<p, PromptEnd>>[1] = p /\ <<p, PromptEnd>>[2] = PromptEnd
        BY CharacterTypes
      <4> QED BY <4>1 DEF Prompt
    <3>5. PICK n \in Nat, m \in Nat : n = Len(s) /\ m = Len(echo) /\ m <= n
      <4>1. Len(s) \in Nat /\ Len(echo) <= Len(s)
        BY <2>3, LenProperties DEF Begins
      <4> QED BY <1>4, <4>1
    <3>6. /\ Len(s \o e) = n + 2
          /\ \A j \in 1..(n + 2) : (s \o e)[j] = IF j <= n THEN s[j] ELSE e[j - n]
      <4>1. /\ Len(s \o e) = Len(s) + Len(e)
            /\ \A j \in 1..(Len(s) + Len(e)) : (s \o e)[j] = IF j <= Len(s) THEN s[j] ELSE e[j - Len(s)]
        BY <2>3, ConcatProperties
      <4> QED BY <3>4, <3>5, <4>1
    <3>7. text = s \o e /\ Len(text) = n + 2 /\ \A j \in 1..(n + 2) : text[j] = IF j <= n THEN s[j] ELSE e[j - n]
      BY <3>2, <3>4, <3>6
    <3>8. Begins(text, echo)
      <4>1. \A j \in 1..m : j \in 1..n /\ j \in 1..(n + 2) /\ j <= n
        BY <3>5
      <4>2. \A j \in 1..m : s[j] = echo[j]
        BY <2>3, <3>5 DEF Begins
      <4> QED BY <3>5, <3>7, <4>1, <4>2 DEF Begins
    <3>9. EndsIn(text, p) /\ Len(text) >= m + 2
      <4>1. /\ n + 1 \in 1..(n + 2) /\ n + 2 \in 1..(n + 2) /\ ~(n + 1 <= n) /\ ~(n + 2 <= n)
            /\ (n + 1) - n = 1 /\ (n + 2) - n = 2 /\ (n + 2) - 1 = n + 1
        OBVIOUS
      <4>2. text[n + 1] = p /\ text[n + 2] = PromptEnd
        BY <3>4, <3>7, <4>1
      <4> QED BY <3>5, <3>7, <4>1, <4>2 DEF EndsIn
    <3>10. spoken' = [spoken EXCEPT ![Len(spoken)] = @ \o text] \o <<<<>>>>
      BY <1>7, <2>5
    <3>11. Adds(text, TRUE)
      BY <1>7, <3>3, <3>10 DEF Adds
    <3>12. Outcome(text, TRUE, Len(echo), envs)
      BY <1>7, <2>5, <3>1, <3>5, <3>9 DEF Outcome
    <3> QED BY <2>1, <2>5, <3>3, <3>8, <3>11, <3>12
  <2> QED BY <2>4, <2>5
<1>8. CASE LET text == echo \o whole \o (IF envs = <<>> THEN <<>> ELSE Prompt(Head(envs).prompt)) IN
           /\ tty' = tty \o text
           /\ spoken' = [spoken EXCEPT ![Len(spoken)] = @ \o text] \o (IF envs = <<>> THEN <<>> ELSE <<<<>>>>)
           /\ machine' = [state |-> IF envs = <<>> THEN "down" ELSE "ready", envs |-> envs, typed |-> <<>>]
           /\ faulty' = faulty
  <2>1. PICK text : /\ text = echo \o whole \o (IF envs = <<>> THEN <<>> ELSE Prompt(Head(envs).prompt))
                    /\ tty' = tty \o text
                    /\ spoken' = [spoken EXCEPT ![Len(spoken)] = @ \o text] \o (IF envs = <<>> THEN <<>> ELSE <<<<>>>>)
                    /\ machine' = [state |-> IF envs = <<>> THEN "down" ELSE "ready", envs |-> envs, typed |-> <<>>]
                    /\ faulty' = faulty
    BY <1>8
  <2>2. /\ machine' \in Machines /\ machine'.state \in {"ready", "down"}
        /\ text \in Seq(Character) /\ Adds(text, envs # <<>>) /\ Begins(text, echo)
        /\ Outcome(text, envs # <<>>, Len(echo), envs)
    BY <1>7, <2>1
  <2>3. (envs # <<>>) \in BOOLEAN
    OBVIOUS
  <2> QED BY <2>2, <2>3
<1> QED
  BY <1>1, <1>2, <1>6, <1>8 DEF Prints

LEMMA PrintsAdds ==
  ASSUME State, NEW echo \in Seq(Plain), NEW replies, \A r \in replies : r \in Seq(Word),
         NEW envs \in Seq(Environment), Prints(echo, replies, envs)
  PROVE  /\ machine' \in Machines /\ machine'.state \in {"ready", "hung", "down"}
         /\ \E text \in Seq(Character), next \in BOOLEAN :
              /\ Adds(text, next)
              /\ machine'.state = "ready" =>
                   /\ next /\ machine'.envs # <<>>
                   /\ \A j \in 1..Len(echo) : j \in 1..Len(text) /\ text[j] = echo[j]
<1>1. machine' \in Machines /\ machine'.state \in {"ready", "hung", "down"}
  BY PrintsMore
<1>2. PICK text \in Seq(Character), next \in BOOLEAN :
          Adds(text, next) /\ Begins(text, echo) /\ Outcome(text, next, Len(echo), envs)
  BY PrintsMore
<1>3. machine'.state = "ready" => next /\ machine'.envs # <<>>
  <2>1. machine \in Machines
    BY DEF State, TextTypes
  <2>2. CASE \E state \in {"hung", "down"} : machine' = [machine EXCEPT !.state = state]
    <3>1. machine'.state \in {"hung", "down"}
      BY <2>1, <2>2 DEF Machines
    <3> QED BY <3>1
  <2>3. CASE machine' = [state |-> "down", envs |-> envs, typed |-> <<>>]
    BY <2>3
  <2>4. CASE next /\ envs # <<>> /\ machine' = [state |-> "ready", envs |-> envs, typed |-> <<>>]
    BY <2>4
  <2> QED BY <1>2, <2>2, <2>3, <2>4 DEF Outcome
<1> QED
  BY <1>1, <1>2, <1>3 DEF Begins

(* Whatever the machine does, it does it in the current command.           *)
Frame == UNCHANGED <<listVars, run, record, expect, queue, reader>>

Busy == ~NextPrompt /\ (machine.state = "booting" \/ (machine.state = "ready" /\ input # <<>>))

Takes == machine.state = "ready" /\ input # <<>> /\ input' = Tail(input)

Speaks(text, next) ==
  /\ Adds(text, next)
  /\ machine' \in Machines /\ machine'.state \in {"ready", "hung", "down"}
  /\ machine'.state = "ready" =>
       \/ machine.state = "booting" /\ next /\ machine'.envs # <<>>
       \/ Takes /\ Head(input) # Newline /\ ~next /\ machine'.envs # <<>> /\ text = <<Head(input)>>
       \/ Takes /\ Head(input) = Newline /\ next /\ machine'.envs # <<>> /\ ~NoNewline(text)
  /\ machine.state = "booting" => input' = input
  /\ machine.state = "ready" => input' = Tail(input)

LEMMA MachineIsBusy ==
  ASSUME State, Machine
  PROVE  Frame /\ Busy
<1>1. Frame
  BY DEF Machine, Boots, LosesCharacter, Echoes, Executes, Frame
<1>2. machine.state = "booting" \/ (machine.state = "ready" /\ input # <<>>)
  BY DEF Machine, Boots, LosesCharacter, Echoes, Executes, Taken
<1>3. ~NextPrompt
  BY <1>2 DEF State, Booting, Ready
<1> QED
  BY <1>1, <1>2, <1>3 DEF Busy

LEMMA MachineSpeaks ==
  ASSUME State, ListInv, Machine
  PROVE  \/ Takes /\ UNCHANGED <<tty, machine, spoken>>
         \/ \E text \in Seq(Character), next \in BOOLEAN : Speaks(text, next)
<1>0. machine \in Machines /\ input \in Seq(Plain) /\ machine.envs \in Seq(Environment)
  BY DEF State, TextTypes, Machines
<1>1. CASE Boots
  <2>1. machine.state = "booting" /\ input' = input /\ Prints(<<>>, {<<"banner">>}, <<KernelConf>>)
    BY <1>1 DEF Boots
  <2>2. <<>> \in Seq(Plain) /\ <<"banner">> \in Seq(Word) /\ <<KernelConf>> \in Seq(Environment)
    BY ConsoleAssumption, EnvironmentTypes
  <2>3. /\ machine' \in Machines /\ machine'.state \in {"ready", "hung", "down"}
        /\ \E text \in Seq(Character), next \in BOOLEAN :
              Adds(text, next) /\ (machine'.state = "ready" => next /\ machine'.envs # <<>>)
    BY <2>1, <2>2, PrintsAdds
  <2> QED BY <2>1, <2>3 DEF Speaks
<1>2. CASE LosesCharacter
  BY <1>2 DEF LosesCharacter, Taken, Takes
<1>3. CASE Echoes
  <2>1. /\ Takes /\ Head(input) # Newline
        /\ tty' = Append(tty, Head(input))
        /\ spoken' = [spoken EXCEPT ![Len(spoken)] = Append(@, Head(input))]
        /\ machine' = [machine EXCEPT !.typed = Append(@, Head(input))]
    BY <1>3 DEF Echoes, Taken, Takes
  <2>2. PICK c \in Plain : c = Head(input)
    BY <1>0, <2>1, HeadTailProperties DEF Takes
  <2>3. machine' \in Machines /\ machine'.state = machine.state /\ machine'.envs = machine.envs
    <3>1. Append(machine.typed, c) \in Seq(Plain)
      BY <1>0 DEF Machines
    <3> QED BY <1>0, <2>1, <2>2, <3>1 DEF Machines
  <2>4. <<c>> \in Seq(Character) /\ Len(<<c>>) = 1 /\ <<c>>[1] # PromptEnd
    BY CharacterTypes
  <2>5. spoken[Len(spoken)] \in Seq(Character) /\ tty \in Seq(Character)
    <3>1. spoken \in Seq(Seq(Character)) /\ Len(spoken) \in 1..Len(spoken)
      BY SegmentType DEF State, TextTypes
    <3>2. tty \in Seq(Character)
      BY DEF State, TextTypes
    <3> QED BY <3>1, <3>2, ElementOfSeq
  <2>6. tty' = tty \o <<c>>
    BY <2>1, <2>2, <2>5, AppendIsConcat, CharacterTypes
  <2>7. spoken' = [spoken EXCEPT ![Len(spoken)] = @ \o <<c>>] \o <<>>
    <3>1. Append(spoken[Len(spoken)], c) = spoken[Len(spoken)] \o <<c>>
      BY <2>5, AppendIsConcat, CharacterTypes
    <3>2. spoken' = [spoken EXCEPT ![Len(spoken)] = @ \o <<c>>]
      BY <2>1, <2>2, <3>1
    <3>3. [spoken EXCEPT ![Len(spoken)] = @ \o <<c>>] \in Seq(Seq(Character))
      BY <2>4, SpokenOn
    <3> QED BY <3>2, <3>3, ConcatEmptySeq
  <2>8. Adds(<<c>>, FALSE)
    <3>1. \A j \in 1..Len(<<c>>) : <<c>>[j] # PromptEnd
      BY <2>4
    <3> QED BY <2>6, <2>7, <3>1, Zenon DEF Adds
  <2>9. machine.envs # <<>>
    BY <2>1 DEF Takes, State, Ready
  <2>10. Speaks(<<c>>, FALSE)
    BY <2>1, <2>2, <2>3, <2>8, <2>9 DEF Speaks, Takes
  <2> QED BY <2>4, <2>10
<1>4. CASE Executes
  <2>1. Takes /\ Head(input) = Newline
    BY <1>4 DEF Executes, Taken, Takes
  <2>2. PICK envs, replies :
            /\ envs \in Seq(Environment)
            /\ \A r \in replies : r \in Seq(Word)
            /\ Prints(<<Newline>>, replies, envs)
    <3> DEFINE env == Head(machine.envs)
               line == Line(env.prefix, Head(machine.typed))
               entered == StartedBy(line)
    <3>1. /\ Tail(machine.envs) \in Seq(Environment)
          /\ entered # NoConf => <<entered>> \o machine.envs \in Seq(Environment)
      <4>1. machine.envs # <<>>
        BY <2>1 DEF Takes, State, Ready
      <4>2. Tail(machine.envs) \in Seq(Environment)
        BY <1>0, <4>1, HeadTailProperties
      <4>3. test \in Tests
        BY DEF ListInv, ListTypeOK
      <4>4. entered \in Environment \cup {NoConf}
        BY <4>3, ConfTypes
      <4> HIDE DEF entered
      <4>5. entered # NoConf => <<entered>> \in Seq(Environment)
        BY <4>4
      <4> QED BY <1>0, <4>2, <4>5, ConcatProperties
    <3>2. (\A r \in {<<>>} : r \in Seq(Word))
      BY EmptySeq
    <3>3. line.name \in DOMAIN Replies => \A r \in Replies[line.name] : r \in Seq(Word)
      BY ConsoleAssumption
    <3>4. \/ Prints(<<Newline>>, {<<>>}, machine.envs)
          \/ Prints(<<Newline>>, {<<>>}, Tail(machine.envs))
          \/ entered # NoConf /\ Prints(<<Newline>>, {<<>>}, <<entered>> \o machine.envs)
          \/ Prints(<<Newline>>, IF line.name \in DOMAIN Replies THEN Replies[line.name] ELSE {<<>>}, machine.envs)
      BY <1>4, Zenon DEF Executes
    <3> HIDE DEF line, entered
    <3> QED BY <1>0, <3>1, <3>2, <3>3, <3>4
  <2>3. <<Newline>> \in Seq(Plain)
    BY CharacterTypes
  <2>4. /\ machine' \in Machines /\ machine'.state \in {"ready", "hung", "down"}
        /\ \E text \in Seq(Character), next \in BOOLEAN :
              /\ Adds(text, next)
              /\ machine'.state = "ready" =>
                   /\ next /\ machine'.envs # <<>>
                   /\ \A j \in 1..Len(<<Newline>>) : j \in 1..Len(text) /\ text[j] = <<Newline>>[j]
    BY <2>2, <2>3, PrintsAdds
  <2>5. PICK text \in Seq(Character), next \in BOOLEAN :
              /\ Adds(text, next)
              /\ machine'.state = "ready" =>
                   /\ next /\ machine'.envs # <<>>
                   /\ \A j \in 1..Len(<<Newline>>) : j \in 1..Len(text) /\ text[j] = <<Newline>>[j]
    BY <2>4
  <2>6. machine'.state = "ready" => ~NoNewline(text)
    <3>1. 1 \in 1..Len(<<Newline>>) /\ <<Newline>>[1] = Newline
      OBVIOUS
    <3> QED BY <2>5, <3>1 DEF NoNewline
  <2>7. Speaks(text, next)
    BY <2>1, <2>4, <2>5, <2>6 DEF Speaks, Takes
  <2> QED BY <2>7
<1> QED
  BY <1>1, <1>2, <1>3, <1>4 DEF Machine

LEMMA AddsToSegment ==
  ASSUME State, ~NextPrompt, counter' = counter, NEW text \in Seq(Character), NEW next \in BOOLEAN, Adds(text, next)
  PROVE  /\ spoken' \in Seq(Seq(Character))
         /\ Len(spoken') = IF next THEN counter + 1 ELSE counter
         /\ Segment' = Segment \o text
         /\ \A i \in 1..(counter - 1) : spoken'[i] = spoken[i]
         /\ next => spoken'[counter + 1] = <<>>
<1>1. counter \in Nat \ {0} /\ Len(spoken) = counter
  BY SegmentType DEF State, Segments
<1>2. PICK n \in Nat \ {0} : n = counter
  BY <1>1
<1>3. PICK on \in Seq(Seq(Character)) :
         /\ on = [spoken EXCEPT ![Len(spoken)] = @ \o text]
         /\ Len(on) = n /\ on[n] = Segment \o text /\ \A i \in 1..(n - 1) : on[i] = spoken[i]
  BY <1>1, <1>2, SpokenOn DEF Segment
<1>4. spoken' = on \o (IF next THEN <<<<>>>> ELSE <<>>)
  BY <1>3 DEF Adds
<1>5. Segment' = spoken'[n]
  BY <1>2 DEF Segment
<1>6. CASE next
  <2>1. PICK e \in Seq(Seq(Character)) : e = <<<<>>>> /\ Len(e) = 1 /\ e[1] = <<>>
    <3>1. <<<<>>>> \in Seq(Seq(Character)) /\ Len(<<<<>>>>) = 1 /\ <<<<>>>>[1] = <<>>
      BY EmptySeq
    <3> QED BY <3>1
  <2>2. /\ on \o e \in Seq(Seq(Character)) /\ Len(on \o e) = n + 1
        /\ \A i \in 1..(n + 1) : (on \o e)[i] = IF i <= n THEN on[i] ELSE e[i - n]
    <3>1. /\ on \o e \in Seq(Seq(Character)) /\ Len(on \o e) = Len(on) + Len(e)
          /\ \A i \in 1..(Len(on) + Len(e)) : (on \o e)[i] = IF i <= Len(on) THEN on[i] ELSE e[i - Len(on)]
      BY ConcatProperties
    <3> QED BY <1>3, <2>1, <3>1
  <2>3. PICK w \in Seq(Seq(Character)) : w = on \o e /\ w = spoken'
    BY <1>4, <1>6, <2>1, <2>2
  <2>4. /\ Len(w) = n + 1 /\ w[n] = on[n] /\ w[n + 1] = e[1] /\ \A i \in 1..(n - 1) : w[i] = on[i]
    <3>1. n \in 1..(n + 1) /\ n + 1 \in 1..(n + 1) /\ (n + 1) - n = 1 /\ ~(n + 1 <= n)
          /\ \A i \in 1..(n - 1) : i \in 1..(n + 1) /\ i <= n
      OBVIOUS
    <3> QED BY <2>2, <2>3, <3>1
  <2> QED BY <1>2, <1>3, <1>5, <1>6, <2>1, <2>3, <2>4
<1>7. CASE ~next
  <2>1. spoken' = on
    BY <1>4, <1>7, ConcatEmptySeq
  <2> QED BY <1>2, <1>3, <1>5, <1>7, <2>1
<1> QED
  BY <1>6, <1>7

(* Whatever the machine prints, it does it when Run is waiting for it.     *)
LEMMA SpeakingKeepsState ==
  ASSUME State, Frame, Busy, NEW text \in Seq(Character), NEW next \in BOOLEAN, Speaks(text, next)
  PROVE  State'
<1>0. /\ pc' = pc /\ counter' = counter /\ rest' = rest /\ answer' = answer /\ step' = step
      /\ commands' = commands /\ output' = output /\ partial' = partial /\ buffer' = buffer
      /\ readStatus' = readStatus /\ queue' = queue /\ reader' = reader
      /\ Pattern' = Pattern
  BY DEF Frame, listVars, run, record, expect, Pattern, Command
<1>1. Adds(text, next) /\ ~NextPrompt /\ Len(spoken) = counter
  BY DEF Speaks, Busy, State, Segments
<1>2. /\ spoken' \in Seq(Seq(Character))
      /\ Len(spoken') = IF next THEN counter + 1 ELSE counter
      /\ Segment' = Segment \o text
      /\ \A i \in 1..(counter - 1) : spoken'[i] = spoken[i]
      /\ next => spoken'[counter + 1] = <<>>
  BY <1>0, <1>1, AddsToSegment
<1>3. counter \in Nat \ {0} /\ Segment \in Seq(Character)
  BY SegmentType
<1>4. NextPrompt' <=> next
  BY <1>0, <1>2, <1>3 DEF NextPrompt
<1>5. PICK n \in Nat, m \in Nat : n = Len(Segment) /\ m = Len(text)
  BY <1>3, LenProperties
<1>6. /\ Len(Segment') = n + m
      /\ \A i \in 1..(n + m) : Segment'[i] = IF i <= n THEN Segment[i] ELSE text[i - n]
  <2>1. /\ Len(Segment \o text) = Len(Segment) + Len(text)
        /\ \A i \in 1..(Len(Segment) + Len(text)) :
              (Segment \o text)[i] = IF i <= Len(Segment) THEN Segment[i] ELSE text[i - Len(Segment)]
    BY <1>3, ConcatProperties
  <2> QED BY <1>2, <1>5, <2>1
<1>7. RunTypes'
  BY <1>0 DEF State, RunTypes
<1>8. TextTypes'
  <2>1. tty' \in Seq(Character)
    BY <1>1, ConcatProperties DEF Adds, State, TextTypes
  <2>2. input' \in Seq(Plain)
    <3>1. input \in Seq(Plain)
      BY DEF State, TextTypes
    <3>2. input # <<>> => Tail(input) \in Seq(Plain)
      BY <3>1, HeadTailProperties
    <3> QED BY <3>1, <3>2 DEF Busy, Speaks
  <2>3. machine' \in Machines
    BY DEF Speaks
  <2> QED BY <1>0, <1>2, <2>1, <2>2, <2>3 DEF State, TextTypes
<1>9. Segments'
  <2>1. Len(spoken') = counter' \/ NextPrompt'
    BY <1>0, <1>2, <1>4
  <2>2. NextPrompt' => spoken'[counter' + 1] = <<>>
    BY <1>0, <1>2, <1>4
  <2>3. \A i \in 1..(counter' - 1) : output'[i] = AllLines(spoken'[i])
    BY <1>0, <1>2 DEF State, Segments
  <2>4. \A i \in (counter' + 1)..Len(commands') : output'[i] = <<>>
    BY <1>0 DEF State, Segments
  <2>5. ASSUME NEW j \in 1..(n + m), Segment'[j] = PromptEnd
        PROVE  j = n + m /\ next
    <3>1. CASE j <= n
      <4>1. j \in 1..Len(Segment) /\ Segment[j] = PromptEnd
        BY <1>5, <1>6, <2>5, <3>1
      <4> QED BY <1>1, <4>1 DEF State, Segments
    <3>2. CASE ~(j <= n)
      <4>1. j - n \in 1..Len(text) /\ text[j - n] = PromptEnd
        BY <1>5, <1>6, <2>5, <3>2
      <4>2. j - n = m /\ next
        BY <1>1, <1>5, <4>1 DEF Adds
      <4> QED BY <4>2
    <3> QED BY <3>1, <3>2
  <2>6. \A j \in 1..Len(Segment') : Segment'[j] = PromptEnd => j = Len(Segment') /\ NextPrompt'
    BY <1>4, <1>6, <2>5
  <2> QED BY <2>1, <2>2, <2>3, <2>4, <2>6 DEF Segments
<1>10. Booting'
  BY DEF Booting, Speaks
<1>11. Ready'
  <2> SUFFICES ASSUME machine'.state = "ready"
               PROVE  Ready'
    BY DEF Ready
  <2>1. CASE machine.state = "booting" /\ next /\ machine'.envs # <<>>
    <3>1. rest' = <<>> /\ input' = <<>>
      BY <1>0, <2>1 DEF Speaks, State, Booting
    <3>2. ~Unsent' /\ rest' # <<Newline>>
      <4>1. Len(<<>>) # 2 /\ <<>> # <<Newline>>
        OBVIOUS
      <4> QED BY <3>1, <4>1 DEF Unsent
    <3>3. \A i \in 1..Len(input') : input'[i] = Newline => i = Len(input')
      BY <3>1
    <3> QED BY <2>1, <3>1, <3>2, <3>3 DEF Ready
  <2>2. ASSUME Takes
        PROVE  /\ Tail(input) = input' /\ Len(Tail(input)) \in Nat
               /\ Len(input) = Len(Tail(input)) + 1
               /\ \A i \in 1..Len(Tail(input)) : Tail(input)[i] = input[i + 1]
               /\ Head(input) = input[1] /\ input # <<>>
               /\ \A i \in 1..Len(input) : input[i] = Newline => i = Len(input)
               /\ pc \notin {"top", "close"}
               /\ (Unsent => NoNewline(input) /\ NoNewline(Segment))
               /\ (Unsent' <=> Unsent)
    <3>1. input \in Seq(Plain) /\ input # <<>> /\ machine.state = "ready"
      BY <2>2 DEF State, TextTypes, Takes
    <3>2. /\ Tail(input) \in Seq(Plain) /\ Len(Tail(input)) = Len(input) - 1
          /\ \A i \in 1..Len(Tail(input)) : Tail(input)[i] = input[i + 1]
      BY <3>1, HeadTailProperties
    <3>3. Len(Tail(input)) \in Nat /\ Len(input) \in Nat
      BY <3>1, <3>2, LenProperties
    <3>4. Unsent' <=> Unsent
      BY <1>0 DEF Unsent, Got
    <3>5. Len(input) = Len(Tail(input)) + 1 /\ Head(input) = input[1] /\ Tail(input) = input'
      BY <2>2, <3>1, <3>2, <3>3 DEF Takes
    <3>6. /\ \A i \in 1..Len(input) : input[i] = Newline => i = Len(input)
          /\ pc \notin {"top", "close"} /\ (Unsent => NoNewline(input) /\ NoNewline(Segment))
      BY <3>1 DEF State, Ready
    <3> QED BY <3>1, <3>2, <3>3, <3>4, <3>5, <3>6, Zenon
  <2>3. CASE Takes /\ Head(input) # Newline /\ ~next /\ machine'.envs # <<>> /\ text = <<Head(input)>>
    <3>1. \A i \in 1..Len(input') : input'[i] = Newline => i = Len(input')
      <4> SUFFICES ASSUME NEW i \in 1..Len(Tail(input)), Tail(input)[i] = Newline
                   PROVE  i = Len(Tail(input))
        BY <2>2, <2>3
      <4>1. i + 1 \in 1..Len(input) /\ input[i + 1] = Newline
        BY <2>2, <2>3
      <4>2. i + 1 = Len(input)
        BY <2>2, <2>3, <4>1
      <4> QED BY <2>2, <2>3, <4>2
    <3>2. Unsent => NoNewline(input') /\ NoNewline(Segment')
      <4> SUFFICES ASSUME Unsent
                   PROVE  NoNewline(input') /\ NoNewline(Segment')
        OBVIOUS
      <4>1. NoNewline(input) /\ NoNewline(Segment)
        BY <2>2, <2>3
      <4>2. \A i \in 1..Len(Tail(input)) : i + 1 \in 1..Len(input)
        BY <2>2, <2>3
      <4>3. NoNewline(input')
        BY <2>2, <2>3, <4>1, <4>2 DEF NoNewline
      <4>4. m = 1 /\ text[1] # Newline
        <5>1. Len(<<Head(input)>>) = 1 /\ <<Head(input)>>[1] = Head(input)
          OBVIOUS
        <5> QED BY <1>5, <2>3, <5>1
      <4>5. ASSUME NEW i \in 1..(n + m)
            PROVE  Segment'[i] # Newline
        <5>1. CASE i <= n
          BY <1>5, <1>6, <4>1, <5>1 DEF NoNewline
        <5>2. CASE ~(i <= n)
          <6>1. i - n = 1
            BY <4>4, <5>2
          <6> QED BY <1>6, <4>4, <5>2, <6>1
        <5> QED BY <5>1, <5>2
      <4>6. NoNewline(Segment')
        BY <1>6, <4>5 DEF NoNewline
      <4> QED BY <4>3, <4>6
    <3>3. ~NextPrompt' /\ pc' \notin {"top", "close"} /\ (Unsent' <=> Unsent)
      BY <1>0, <1>4, <2>2, <2>3
    <3>4. Unsent' => (NoNewline(input) /\ NoNewline(Segment) /\ ~NextPrompt)'
      BY <3>2, <3>3 DEF NoNewline
    <3> QED BY <2>3, <3>1, <3>3, <3>4 DEF Ready
  <2>4. CASE Takes /\ Head(input) = Newline /\ next /\ machine'.envs # <<>> /\ ~NoNewline(text)
    <3>1. Len(input) = 1
      <4>1. 1 \in 1..Len(input) /\ input[1] = Newline
        BY <2>2, <2>4
      <4> QED BY <2>2, <2>4, <4>1
    <3>2. input' = <<>>
      <4>1. Tail(input) \in Seq(Plain) /\ Len(Tail(input)) = 0
        <5>1. input \in Seq(Plain) /\ input # <<>>
          BY <2>2, <2>4 DEF State, TextTypes
        <5> QED BY <3>1, <2>2, <2>4, <5>1, HeadTailProperties
      <4> QED BY <2>2, <2>4, <4>1, EmptySeq
    <3>3. ~Unsent'
      <4>1. ~NoNewline(input)
        BY <2>2, <2>4, <3>1 DEF NoNewline
      <4> QED BY <2>2, <2>4, <4>1
    <3>4. ~NoNewline(Segment')
      <4>1. PICK i \in 1..m : text[i] = Newline
        BY <1>5, <2>4 DEF NoNewline
      <4>2. n + i \in 1..(n + m) /\ ~(n + i <= n) /\ (n + i) - n = i
        OBVIOUS
      <4>3. Segment'[n + i] = Newline
        BY <1>6, <4>1, <4>2
      <4> QED BY <1>6, <4>2, <4>3 DEF NoNewline
    <3>5. \A i \in 1..Len(input') : input'[i] = Newline => i = Len(input')
      BY <3>2
    <3>6. rest' = <<Newline>> /\ NextPrompt' => ~NoNewline(Segment)'
      BY <3>4 DEF NoNewline
    <3> QED BY <2>4, <3>2, <3>3, <3>5, <3>6 DEF Ready
  <2> QED BY <2>1, <2>3, <2>4 DEF Speaks
<1>12. pc \notin {"top", "close", "draining", "done"} /\ ~Got("timeout") /\ ~Got("eof")
       /\ ~(Got("match") /\ rest = <<>>)
  <2>1. pc \notin {"top", "close"}
    BY DEF Busy, State, Booting, Ready
  <2>2. pc \notin {"draining", "done"}
    BY DEF Busy, State, Places
  <2>3. ~Got("timeout")
    BY DEF Busy, State, Places, Silent
  <2>4. ~Got("eof")
    BY DEF Busy, State, Ends
  <2>5. ~(Got("match") /\ rest = <<>>)
    BY DEF Busy, State, Places
  <2> QED BY <2>1, <2>2, <2>3, <2>4, <2>5
<1>13. Places'
  BY <1>0, <1>12 DEF State, Places, Got
<1>14. Ends'
  <2>1. reader # "ended" /\ readStatus # "eof"
    BY DEF Busy, State, Ends
  <2>2. ~Got("eof")' /\ pc' # "done"
    BY <1>0, <1>12 DEF Got
  <2> QED BY <1>0, <2>1, <2>2 DEF State, Ends
<1> QED
  BY <1>7, <1>8, <1>9, <1>10, <1>11, <1>13, <1>14 DEF State

(* What is printed is neither received nor in the buffer yet.              *)
LEMMA SpeakingKeepsReceived ==
  ASSUME State, Frame, Busy, NEW text \in Seq(Character), NEW next \in BOOLEAN, Speaks(text, next),
         NEW k, NEW b, Received(k, b)
  PROVE  Received(k, b)'
<1>0. /\ pc' = pc /\ counter' = counter /\ rest' = rest /\ answer' = answer
      /\ commands' = commands /\ output' = output /\ partial' = partial /\ buffer' = buffer
      /\ queue' = queue
  BY DEF Frame, listVars, run, record, expect
<1>1. PICK s \in Seq(Character) : s = Segment /\ Flowing(s, queue, tty, k) /\ buffer = Part(s, b, k)
  BY SegmentType DEF Received
<1>2. Segment' = s \o text /\ tty' = tty \o text
  BY <1>0, <1>1, AddsToSegment DEF Speaks, Busy, Adds
<1>3. queue \in Seq(Seq(Character))
  BY DEF State, TextTypes
<1>4. Flowing(Segment', queue', tty', k)
  <2>1. Flowing(s \o text, queue, tty \o text, k)
    BY <1>1, <1>3, FlowGrows, Zenon
  <2> QED BY <1>0, <1>2, <2>1
<1>5. PICK n \in Nat : n = Len(s) /\ k \in 0..n /\ b \in 0..k
  BY <1>1, LenProperties DEF Received, Flowing, Flow
<1>6. k \in Nat /\ b \in Nat /\ 0 \in Nat /\ 0 <= k /\ b <= k /\ k <= Len(s)
  BY <1>5
<1>7. Part(Segment', b, k) = Part(s, b, k) /\ Part(Segment', 0, k) = Part(s, 0, k)
  <2>1. Part(s \o text, b, k) = Part(s, b, k)
    <3>1. k \in Nat /\ b \in Nat /\ b <= k /\ k <= Len(s)
      BY <1>6
    <3> QED BY <3>1, PartOfLonger, Zenon
  <2>2. Part(s \o text, 0, k) = Part(s, 0, k)
    <3>1. k \in Nat /\ 0 \in Nat /\ 0 <= k /\ k <= Len(s)
      BY <1>6
    <3> QED BY <3>1, PartOfLonger, Zenon
  <2> QED BY <1>2, <2>1, <2>2
<1>8. pc \notin {"close", "draining", "done"} /\ ~(Got("match") /\ rest = <<>>)
  BY DEF Busy, State, Booting, Ready, Places
<1>9. ~Judged /\ ~Judged'
  BY <1>0, <1>8 DEF Judged
<1>10. Cut(Part(Segment', 0, k), [lines |-> output'[counter'], text |-> partial'], Character)
  BY <1>0, <1>1, <1>7, <1>9 DEF Received
<1>11. (machine.state = "ready" /\ rest = <<Newline>> /\ ~Got("match") => \A i \in 1..b : Segment[i] # Newline)'
  <2>1. rest = <<Newline>> => machine.state = "ready"
    BY DEF Busy, State, Booting
  <2>2. \A i \in 1..b : Segment'[i] = s[i]
    <3> TAKE i \in 1..b
    <3>1. i \in 1..Len(s) /\ Len(s) \in Nat /\ Len(text) \in Nat
      BY <1>5, LenProperties
    <3>2. i \in 1..(Len(s) + Len(text)) /\ i <= Len(s)
      BY <3>1
    <3> QED BY <1>2, <3>2, ConcatProperties
  <2>3. Got("match")' <=> Got("match")
    BY <1>0 DEF Got
  <2> QED BY <1>0, <1>1, <2>1, <2>2, <2>3 DEF Received
<1>12. ~(Got("match") /\ rest = <<>>)'
  BY <1>0, <1>8 DEF Got
<1> QED
  BY <1>0, <1>1, <1>4, <1>5, <1>7, <1>9, <1>10, <1>11, <1>12 DEF Received

(* A lost character leaves what was printed as it is.                      *)
LEMMA LosingKeeps ==
  ASSUME State, Frame, Busy, Takes, UNCHANGED <<tty, machine, spoken>>, NEW k, NEW b, Received(k, b)
  PROVE  State' /\ Received(k, b)'
<1>0. /\ pc' = pc /\ counter' = counter /\ rest' = rest /\ answer' = answer /\ step' = step
      /\ commands' = commands /\ output' = output /\ partial' = partial /\ buffer' = buffer
      /\ readStatus' = readStatus /\ queue' = queue /\ reader' = reader
      /\ tty' = tty /\ machine' = machine /\ spoken' = spoken /\ test' = test
  BY DEF Frame, listVars, run, record, expect
<1>1. machine.state = "ready" /\ input \in Seq(Plain) /\ input # <<>> /\ input' = Tail(input)
  BY DEF Takes, State, TextTypes
<1>2. /\ Tail(input) \in Seq(Plain) /\ Len(Tail(input)) = Len(input) - 1
      /\ \A i \in 1..Len(Tail(input)) : Tail(input)[i] = input[i + 1]
  BY <1>1, HeadTailProperties
<1>3. PICK n \in Nat : n = Len(Tail(input)) /\ Len(input) = n + 1
  <2>1. Len(Tail(input)) \in Nat /\ Len(input) \in Nat
    BY <1>1, <1>2, LenProperties
  <2>2. Len(input) = Len(Tail(input)) + 1
    BY <1>2, <2>1
  <2> QED BY <2>1, <2>2, Zenon
<1>4. \A i \in 1..n : i + 1 \in 1..(n + 1) /\ input'[i] = input[i + 1]
  BY <1>1, <1>2, <1>3
<1>5. RunTypes' /\ TextTypes'
  BY <1>0, <1>1, <1>2 DEF State, RunTypes, TextTypes
<1>6. (Segment' = Segment) /\ (NextPrompt' <=> NextPrompt) /\ (Unsent' <=> Unsent)
  BY <1>0 DEF Segment, NextPrompt, Unsent, Got
<1>7. Segments' /\ Booting'
  <2>1. Segments'
    BY <1>0, <1>6, Zenon DEF State, Segments
  <2>2. Booting'
    BY <1>0, <1>1 DEF Booting
  <2> QED BY <2>1, <2>2
<1>8. Ready'
  <2>1. machine.envs # <<>> /\ ~NextPrompt /\ pc \notin {"top", "close"}
    BY <1>1 DEF State, Ready
  <2>2. \A i \in 1..n : input'[i] = Newline => i = n
    <3> TAKE i \in 1..n
    <3>1. input[i + 1] = Newline => i + 1 = n + 1
      BY <1>1, <1>3, <1>4 DEF State, Ready
    <3> QED BY <1>4, <3>1
  <2>3. Unsent => NoNewline(input') /\ NoNewline(Segment)
    <3> SUFFICES ASSUME Unsent
                 PROVE  NoNewline(input') /\ NoNewline(Segment)
      OBVIOUS
    <3>1. NoNewline(input) /\ NoNewline(Segment)
      BY <1>1 DEF State, Ready
    <3> QED BY <1>1, <1>3, <1>4, <3>1 DEF NoNewline
  <2>4. Unsent' => NoNewline(input)' /\ NoNewline(Segment)'
    BY <1>6, <2>3 DEF NoNewline
  <2>5. Len(input') = n
    BY <1>1, <1>3
  <2> QED BY <1>0, <1>6, <2>1, <2>2, <2>4, <2>5 DEF Ready
<1>9. Places' /\ Ends'
  <2>1. Pattern' = Pattern
    BY <1>0 DEF Pattern, Command
  <2>2. ~Got("timeout")
    BY DEF Busy, State, Places, Silent
  <2>3. Places'
    BY <1>0, <1>6, <2>1, <2>2 DEF State, Places, Got
  <2>4. Ends'
    BY <1>0 DEF State, Ends, Got
  <2> QED BY <2>3, <2>4
<1>10. Received(k, b)'
  BY <1>0, <1>6 DEF Received, Judged, Got
<1> QED
  BY <1>5, <1>7, <1>8, <1>9, <1>10 DEF State

LEMMA ListStays ==
  ASSUME ListInv, UNCHANGED listVars
  PROVE  ListInv'
  BY DEF ListInv, ListTypeOK, LastPrompt, listVars

LEMMA MachineInv ==
  ASSUME Started, Machine
  PROVE  Started'
<1>1. State /\ ListInv /\ pc # "init"
  BY DEF Started
<1>2. PICK k, b : Received(k, b)
  BY DEF Started
<1>3. Frame /\ Busy
  BY <1>1, MachineIsBusy
<1>4. ListInv' /\ pc' # "init"
  BY <1>1, <1>3, ListStays DEF Frame, run
<1>5. State' /\ Received(k, b)'
  <2>1. CASE Takes /\ UNCHANGED <<tty, machine, spoken>>
    BY <1>1, <1>2, <1>3, <2>1, LosingKeeps
  <2>2. CASE \E text \in Seq(Character), next \in BOOLEAN : Speaks(text, next)
    <3>1. PICK text \in Seq(Character), next \in BOOLEAN : Speaks(text, next)
      BY <2>2
    <3> QED BY <1>1, <1>2, <1>3, <3>1, SpeakingKeepsState, SpeakingKeepsReceived
  <2> QED BY <1>1, <2>1, <2>2, MachineSpeaks
<1> QED
  BY <1>4, <1>5 DEF Started

-----------------------------------------------------------------------------
(* The reader goroutine.                                                   *)

(* It puts what is at the front of the terminal, or the end of the file,   *)
(* into the queue.                                                         *)
LEMMA ReaderKeeps ==
  ASSUME Started, NEW n \in Nat, n <= Len(tty), reader = "reading",
         queue' = Append(queue, SubSeq(tty, 1, n)), tty' = SubSeq(tty, n + 1, Len(tty)),
         UNCHANGED <<listVars, run, record, expect, world>>,
         \/ n # 0 /\ reader' = reader
         \/ n = 0 /\ tty = <<>> /\ tty' = <<>> /\ reader' = "ended" /\ machine.state = "down"
  PROVE  Started'
<1>0. /\ pc' = pc /\ counter' = counter /\ rest' = rest /\ answer' = answer /\ step' = step
      /\ commands' = commands /\ output' = output /\ partial' = partial /\ buffer' = buffer
      /\ readStatus' = readStatus /\ input' = input /\ machine' = machine /\ spoken' = spoken
  BY DEF listVars, run, record, expect, world
<1>1. State /\ ListInv /\ pc # "init"
  BY DEF Started
<1>2. PICK k, b : Received(k, b)
  BY DEF Started
<1>3. PICK s \in Seq(Character) : s = Segment /\ Segment' = s /\ Flowing(s, queue, tty, k)
  BY <1>0, <1>1, <1>2, SegmentType DEF Received, Segment
<1>4. queue \in Seq(Seq(Character)) /\ tty \in Seq(Character)
  BY <1>1 DEF State, TextTypes
<1>5. PICK l \in Nat : l = Len(tty) /\ n <= l /\ n <= Len(tty) /\ l <= Len(tty)
  BY <1>4, LenProperties
<1>6. /\ SubSeq(tty, 1, n) \in Seq(Character) /\ Len(SubSeq(tty, 1, n)) = n
      /\ SubSeq(tty, n + 1, Len(tty)) \in Seq(Character)
  <2>1. n - 0 = n /\ 0 + 1 = 1
    OBVIOUS
  <2>2. Part(tty, 0, n) \in Seq(Character) /\ Len(Part(tty, 0, n)) = n - 0
    <3>1. 0 \in Nat /\ 0 <= n /\ n <= Len(tty)
      OBVIOUS
    <3>2. tty \in Seq(Character)
      BY <1>4
    <3>3. Part(tty, 0, n) \in Seq(Character)
      BY <3>1, <3>2, PartProps, Zenon
    <3>4. Len(Part(tty, 0, n)) = n - 0
      BY <3>1, <3>2, PartLen, Zenon
    <3> QED BY <3>3, <3>4
  <2>3. Part(tty, n, l) \in Seq(Character)
    BY <1>4, <1>5, PartProps, Zenon
  <2> QED BY <1>5, <2>1, <2>2, <2>3 DEF Part
<1>7. PICK r \in Seq(Character) : r = SubSeq(tty, 1, n) /\ (r = <<>> => n = 0)
  <2>1. SubSeq(tty, 1, n) = <<>> => n = 0
    BY <1>6
  <2> QED BY <1>6, <2>1
<1>8. PICK m \in Nat : m = Len(queue) /\ Len(queue') = m + 1 /\ queue' \in Seq(Seq(Character))
                       /\ queue'[m + 1] = r /\ \A i \in 1..m : queue'[i] = queue[i]
  <2>1. /\ Append(queue, r) \in Seq(Seq(Character)) /\ Len(Append(queue, r)) = Len(queue) + 1
        /\ Append(queue, r)[Len(queue) + 1] = r /\ \A i \in 1..Len(queue) : Append(queue, r)[i] = queue[i]
    BY <1>4, AppendProperties
  <2>2. queue' = Append(queue, r) /\ Len(queue) \in Nat
    BY <1>4, <1>7, LenProperties
  <2> QED BY <2>1, <2>2
<1>9. Flowing(Segment', queue', tty', k)
  BY <1>3, <1>4, <1>5, FlowRead, Zenon
<1>10. (NextPrompt' <=> NextPrompt) /\ (Unsent' <=> Unsent) /\ Segment' = Segment /\ Pattern' = Pattern
  BY <1>0, <1>3 DEF NextPrompt, Unsent, Got, Pattern, Command
<1>11. RunTypes' /\ TextTypes'
  BY <1>0, <1>1, <1>6, <1>8 DEF State, RunTypes, TextTypes
<1>12. Segments' /\ Ready'
  BY <1>0, <1>1, <1>10 DEF State, Segments, Ready, NoNewline
<1>13. tty # <<>> \/ machine.state = "down"
  <2>1. n # 0 => tty # <<>>
    BY <1>5
  <2> QED BY <2>1
<1>14. Booting'
  BY <1>0, <1>1, <1>13 DEF State, Booting
<1>15. Places'
  <2>1. ~Got("timeout")
    BY <1>1, <1>13 DEF State, Places, Silent
  <2> QED BY <1>0, <1>1, <1>10, <2>1 DEF State, Places, Got
<1>16. Ends'
  <2>1. /\ \A i \in 1..m : queue[i] # Eof
        /\ readStatus # "eof" /\ ~Got("eof") /\ pc # "done"
    BY <1>1, <1>8 DEF State, Ends
  <2>2. ~Got("eof")'
    BY <1>0, <2>1 DEF Got
  <2>3. \A i \in 1..(m + 1) : queue'[i] = Eof => i = m + 1 /\ reader' = "ended"
    <3> TAKE i \in 1..(m + 1)
    <3>1. CASE i = m + 1
      BY <1>7, <1>8, <3>1 DEF Eof
    <3>2. CASE i # m + 1
      <4>1. i \in 1..m
        BY <3>2
      <4> QED BY <1>8, <2>1, <4>1
    <3> QED BY <3>1, <3>2
  <2>4. reader' = "ended" => machine'.state = "down" /\ tty' = <<>>
    BY <1>0
  <2> QED BY <1>0, <1>8, <2>1, <2>2, <2>3, <2>4 DEF Ends
<1>17. Received(k, b)'
  BY <1>0, <1>2, <1>9, <1>10 DEF Received, Judged, Got
<1>18. ListInv' /\ pc' # "init"
  BY <1>0, <1>1, ListStays
<1> QED
  BY <1>11, <1>12, <1>14, <1>15, <1>16, <1>17, <1>18 DEF State, Started

LEMMA ReaderInv ==
  ASSUME Started, Reader
  PROVE  Started'
<1>1. tty \in Seq(Character)
  BY DEF Started, State, TextTypes
<1>2. ASSUME NEW n \in 1..ReadSize, Read(n)
      PROVE  Started'
  <2>1. n \in Nat /\ n # 0
    BY ConsoleAssumption
  <2> QED BY <1>2, <2>1, ReaderKeeps DEF Read
<1>3. CASE ReadEof
  <2>1. /\ reader = "reading" /\ machine.state = "down" /\ tty = <<>> /\ reader' = "ended" /\ tty' = <<>>
        /\ queue' = Append(queue, <<>>)
        /\ UNCHANGED <<listVars, run, record, expect, world>>
    BY <1>3 DEF ReadEof, Eof
  <2>2. SubSeq(tty, 1, 0) = <<>> /\ SubSeq(tty, 0 + 1, Len(tty)) = <<>> /\ 0 <= Len(tty)
    BY <2>1
  <2> QED BY <2>1, <2>2, ReaderKeeps
<1> QED
  BY <1>2, <1>3 DEF Reader

-----------------------------------------------------------------------------
(* Recv and ExpectRegexp.                                                  *)

LEMMA TakeNothing ==
  ASSUME NEW at
  PROVE  TakeRead(at, <<>>) = at
<1>1. <<>> \in Seq(Nat) /\ Len(<<>>) = 0
  BY EmptySeq
<1>2. PICK f : Follows(f, at, <<>>, 0) /\ TakeRead(at, <<>>) = f[0]
  BY <1>1, ReadIsFollowed
<1>3. 0 \in 0..0
  OBVIOUS
<1>4. f[0] = IF 0 = 0 THEN at ELSE TakeCharacter(f[0 - 1], <<>>[0])
  BY <1>2, <1>3, Zenon DEF Follows
<1> QED
  BY <1>2, <1>4

(* Recv and the buffer go on together, by one read.                        *)
LEMMA RecvTakes ==
  ASSUME State, NEW k, NEW b, Received(k, b), queue # <<>>, Recv(Head(queue))
  PROVE  /\ output' \in [1..Len(commands) -> Seq(Seq(Character))] /\ partial' \in Seq(Character)
         /\ \A i \in 1..Len(commands) : i # counter => output'[i] = output[i]
         /\ \E m \in Nat :
              /\ k <= m /\ m <= Len(Segment) /\ Flowing(Segment, Tail(queue), tty, m)
              /\ b \in 0..m /\ buffer \o Head(queue) = Part(Segment, b, m)
              /\ IF Judged THEN m = Len(Segment) /\ output'[counter] = AllLines(Segment)
                 ELSE Cut(Part(Segment, 0, m), [lines |-> output'[counter], text |-> partial'], Character)
<1> DEFINE at == [lines |-> output[counter], text |-> partial]
           after == TakeRead(at, Head(queue))
<1>1. PICK s \in Seq(Character) : s = Segment /\ Flowing(s, queue, tty, k) /\ buffer = Part(s, b, k)
  BY SegmentType DEF Received
<1>2. /\ queue \in Seq(Seq(Character)) /\ output \in [1..Len(commands) -> Seq(Seq(Character))]
      /\ partial \in Seq(Character) /\ counter \in 1..Len(commands)
  BY DEF State, TextTypes, RunTypes
<1>3. PICK m \in Nat : /\ k \in Nat /\ k <= m /\ m <= Len(s)
                       /\ Head(queue) = Part(s, k, m)
                       /\ Flowing(s, Tail(queue), tty, m)
  BY <1>1, <1>2, FlowTaken
<1>4. b \in 0..m /\ b \in Nat /\ b <= k
  <2>1. b \in 0..k
    BY DEF Received
  <2> QED BY <1>3, <2>1
<1>5. buffer \o Head(queue) = Part(s, b, m)
  <2>1. Part(s, b, k) \o Part(s, k, m) = Part(s, b, m)
    BY <1>3, <1>4, PartsMeet
  <2> QED BY <1>1, <1>3, <2>1
<1>6. output' = [output EXCEPT ![counter] = after.lines] /\ partial' = after.text
  BY DEF Recv
<1>7. CASE Judged
  <2>1. k = Len(s) /\ output[counter] = AllLines(s)
    BY <1>1, <1>7 DEF Received
  <2>2. m = k
    BY <1>3, <2>1
  <2>3. Head(queue) = <<>>
    BY <1>3, <2>2, PartEmpty
  <2>4. after = at
    BY <2>3, TakeNothing
  <2>5. after.lines = output[counter] /\ after.text = partial
    BY <2>4
  <2> HIDE DEF after
  <2>6. output' = output /\ partial' = partial
    BY <1>2, <1>6, <2>5
  <2> QED BY <1>1, <1>2, <1>3, <1>4, <1>5, <1>7, <2>1, <2>2, <2>6
<1>8. CASE ~Judged
  <2>1. Cut(Part(s, 0, k), at, Character)
    BY <1>1, <1>8 DEF Received
  <2> HIDE DEF at
  <2>2. Cut(Part(s, 0, m), after, Character)
    <3>1. Cut(Part(s, 0, m), TakeRead(at, Part(s, k, m)), Character)
      BY <1>3, <2>1, TakeReadCut, Zenon
    <3> QED BY <1>3, <3>1
  <2> HIDE DEF after
  <2>3. /\ after \in [lines : Seq(Seq(Character)), text : Seq(Character)]
        /\ after = [lines |-> after.lines, text |-> after.text]
    BY <2>2 DEF Cut
  <2>4. /\ output' \in [1..Len(commands) -> Seq(Seq(Character))]
        /\ output'[counter] = after.lines /\ partial' = after.text
        /\ \A i \in 1..Len(commands) : i # counter => output'[i] = output[i]
    BY <1>2, <1>6, <2>3
  <2>5. Cut(Part(s, 0, m), [lines |-> output'[counter], text |-> partial'], Character)
    BY <2>2, <2>3, <2>4, Zenon
  <2> QED BY <1>1, <1>3, <1>4, <1>5, <1>8, <2>3, <2>4, <2>5
<1> QED
  BY <1>7, <1>8

(* Where Run waits for a prompt it finds the end of the text, because what *)
(* ends a prompt is nowhere else.                                          *)
LEMMA PromptFound ==
  ASSUME State, ListInv, rest = <<>>, NEW m \in Nat, m <= Len(Segment), NEW b \in 0..m,
         Matches(Pattern, Part(Segment, b, m))
  PROVE  /\ m = Len(Segment) /\ NextPrompt /\ counter < Len(commands)
         /\ AfterMatch(Pattern, Part(Segment, b, m)) = <<>>
<1>1. PICK s \in Seq(Character) : s = Segment
  BY SegmentType
<1>2. PICK t \in Seq(Character) : t = Part(s, b, m) /\ Len(t) = m - b
                                  /\ \A i \in 1..(m - b) : t[i] = s[b + i]
  <2>1. b \in Nat /\ b <= m /\ m <= Len(s)
    BY <1>1
  <2>2. /\ Part(s, b, m) \in Seq(Character) /\ Len(Part(s, b, m)) = m - b
        /\ \A i \in 1..(m - b) : Part(s, b, m)[i] = s[b + i]
    BY <2>1, PartProps
  <2> QED BY <2>2
<1>3. Matches(Pattern, t)
  BY <1>1, <1>2
<1>4. PICK last \in Character, n \in {1, 2} :
         /\ Len(Pattern) = n /\ Pattern[n] = last
         /\ Command.prompt = None => last = NeverPrinted
         /\ Command.prompt # None => n = 2 /\ last = PromptEnd
  <2>1. CASE Command.prompt = None
    <3>1. Pattern = <<NeverPrinted>>
      BY <2>1 DEF Pattern
    <3>2. PICK i \in Nat : i + 1 <= Len(t) /\ SubSeq(t, i + 1, i + 1) = Pattern
      <4>1. Len(Pattern) = 1 /\ 1 \in Nat \ {0}
        BY <3>1
      <4> QED BY <1>3, <4>1, FirstMatch
    <3>3. t[i + 1] = NeverPrinted
      <4>1. i \in Nat /\ i + 1 \in Nat /\ i <= i + 1 /\ (i + 1) - i = 1 /\ 1 \in 1..((i + 1) - i)
        OBVIOUS
      <4>2. Part(t, i, i + 1)[1] = t[i + 1]
        <5>1. i + 1 <= Len(t)
          BY <3>2
        <5> QED BY <4>1, <5>1, PartAt
      <4>3. Part(t, i, i + 1) = <<NeverPrinted>>
        BY <3>1, <3>2 DEF Part
      <4>4. <<NeverPrinted>>[1] = NeverPrinted
        OBVIOUS
      <4> QED BY <4>2, <4>3, <4>4
    <3>4. t[i + 1] \in Character
      <4>1. i + 1 \in 1..Len(t)
        <5>1. i + 1 <= Len(t) /\ Len(t) \in Nat
          BY <3>2, LenProperties
        <5> QED BY <5>1
      <4> QED BY <4>1, ElementOfSeq
    <3> QED BY <3>3, <3>4, CharacterTypes
  <2>2. CASE Command.prompt # None
    <3>1. Pattern = <<Command.prompt, PromptEnd>>
      BY <2>2 DEF Pattern, Prompt
    <3> QED BY <2>2, <3>1, CharacterTypes
  <2> QED BY <2>1, <2>2
<1>5. Command.prompt # None
  BY <1>4, CharacterTypes
<1>6. Len(Pattern) = 2 /\ Pattern[2] = PromptEnd /\ 2 \in Nat \ {0}
  BY <1>4, <1>5
<1>7. PICK i \in Nat : /\ i + 2 <= Len(t) /\ SubSeq(t, i + 1, i + 2) = Pattern
                       /\ AfterMatch(Pattern, t) = Part(t, i + 2, Len(t))
  BY <1>3, <1>6, FirstMatch
<1>8. t[i + 2] = PromptEnd
  <2>1. i + 2 \in Nat /\ i <= i + 2 /\ 2 \in 1..((i + 2) - i)
    OBVIOUS
  <2>2. Part(t, i, i + 2)[2] = t[i + 2]
    <3>1. i + 2 <= Len(t)
      BY <1>7
    <3> QED BY <2>1, <3>1, PartAt
  <2> QED BY <1>6, <1>7, <2>2 DEF Part
<1>9. i + 2 \in 1..(m - b) /\ b + (i + 2) \in 1..Len(s)
  BY <1>1, <1>2, <1>7, SegmentType
<1>10. s[b + (i + 2)] = PromptEnd
  BY <1>2, <1>8, <1>9
<1>11. b + (i + 2) = Len(s) /\ NextPrompt
  BY <1>1, <1>9, <1>10 DEF State, Segments
<1>12. m = Len(s) /\ Len(t) = i + 2
  BY <1>1, <1>2, <1>9, <1>11, SegmentType
<1>13. AfterMatch(Pattern, t) = <<>>
  BY <1>7, <1>12, PartEmpty
<1>14. counter # Len(commands)
  <2>1. commands[Len(commands)].prompt = None
    BY DEF ListInv, LastPrompt, State, RunTypes
  <2> QED BY <1>5, <2>1 DEF Command
<1>15. counter < Len(commands)
  BY <1>14, SegmentType
<1> QED
  BY <1>1, <1>2, <1>11, <1>12, <1>13, <1>15

(* One look into the buffer.                                               *)
Looks(text, status, m, b) ==
  /\ m \in Nat /\ m <= Len(Segment) /\ b \in 0..m
  /\ text = Part(Segment, b, m)
  /\ Look(text, status) /\ status \in {"none", "eof"}
  /\ Flowing(Segment, queue', tty, m)
  /\ Cut(Part(Segment, 0, m), [lines |-> output'[counter], text |-> partial'], Character)
  /\ machine.state = "ready" /\ rest = <<Newline>> => \A i \in 1..b : Segment[i] # Newline
  /\ output' \in [1..Len(commands) -> Seq(Seq(Character))] /\ partial' \in Seq(Character)
  /\ \A i \in 1..Len(commands) : i # counter => output'[i] = output[i]
  /\ queue' \in Seq(Seq(Character))
  /\ \A i \in 1..Len(queue') : queue'[i] = Eof => i = Len(queue') /\ reader = "ended"
  /\ status = "eof" => queue' = <<>> /\ reader = "ended"
  /\ machine.state = "booting" => text = <<>> /\ queue' = <<>> /\ status = "none"

(* Whether ExpectRegexp finds its pattern or not, the buffer stays an end  *)
(* of what was received.                                                   *)
LEMMA LookKeeps ==
  ASSUME Started, pc \in {"expect", "waiting"}, NEW text, NEW status, NEW m, NEW b, Looks(text, status, m, b),
         UNCHANGED <<listVars, counter, rest, reader, tty, world>>
  PROVE  Started'
<1>0. /\ counter' = counter /\ rest' = rest /\ step' = step /\ commands' = commands /\ reader' = reader
      /\ tty' = tty /\ input' = input /\ machine' = machine /\ spoken' = spoken
  BY DEF listVars, world
<1>1. State /\ ListInv
  BY DEF Started
<1>2. /\ m \in Nat /\ m <= Len(Segment) /\ b \in 0..m /\ text = Part(Segment, b, m)
      /\ status \in {"none", "eof"} /\ Look(text, status)
  BY DEF Looks
<1>3. Segment \in Seq(Character) /\ Len(Segment) \in Nat
  BY <1>1, SegmentType
<1>4. text \in Seq(Character)
  <2>1. b \in Nat /\ b <= m
    BY <1>2
  <2> QED BY <1>2, <1>3, <2>1, PartProps, Zenon
<1>5. (NextPrompt' <=> NextPrompt) /\ Segment' = Segment /\ Pattern' = Pattern
  BY <1>0 DEF NextPrompt, Segment, Pattern, Command
<1>6. PICK b2 \in b..m : /\ buffer' = Part(Segment, b2, m)
                         /\ answer' # "match" => b2 = b
  <2>1. CASE Matches(Pattern, text)
    <3>1. answer' = "match" /\ buffer' = AfterMatch(Pattern, text)
      BY <1>2, <2>1 DEF Look
    <3>2. PICK n \in Nat \ {0} : Len(Pattern) = n
      <4>1. Len(<<Head(rest)>>) = 1 /\ Len(<<NeverPrinted>>) = 1 /\ Len(<<Command.prompt, PromptEnd>>) = 2
        OBVIOUS
      <4> QED BY <4>1 DEF Pattern, Prompt
    <3>3. PICK i \in Nat : i + n <= Len(text) /\ AfterMatch(Pattern, text) = Part(text, i + n, Len(text))
      BY <1>4, <2>1, <3>2, FirstMatch
    <3>4. PICK d \in Nat, c \in Nat : d = m - b /\ c = i + n /\ c <= d /\ d <= m - b /\ b + d = m
                                      /\ d = Len(text) /\ b \in Nat /\ b <= m
      <4>1. b \in Nat /\ b <= m /\ m - b \in Nat
        BY <1>2
      <4>2. Len(text) = m - b
        BY <1>2, <1>3, <4>1, PartLen, Zenon
      <4>3. i + n <= m - b /\ i + n \in Nat /\ m - b <= m - b /\ b + (m - b) = m
        <5>1. i + n <= Len(text)
          BY <3>3
        <5>2. m \in Nat
          BY <1>2
        <5>3. m - b <= m - b /\ b + (m - b) = m
          BY <4>1, <5>2
        <5> QED BY <4>2, <5>1, <5>3
      <4> QED BY <4>1, <4>2, <4>3, Zenon
    <3>5. Part(text, c, d) = Part(Segment, b + c, b + d)
      <4>1. b \in Nat /\ b <= m /\ m <= Len(Segment) /\ c <= d /\ d <= m - b
        BY <1>2, <3>4
      <4>2. Part(Part(Segment, b, m), c, d) = Part(Segment, b + c, b + d)
        BY <1>2, <1>3, <4>1, PartOfPart
      <4> QED BY <1>2, <4>2
    <3>6. b + c \in b..m
      BY <1>2, <3>4
    <3> QED BY <3>1, <3>3, <3>4, <3>5, <3>6
  <2>2. CASE ~Matches(Pattern, text)
    <3>1. b \in b..m
      BY <1>2
    <3> QED BY <1>2, <2>2, <3>1 DEF Look
  <2> QED BY <2>1, <2>2
<1>7. /\ pc' \in {"waiting", "answered"}
      /\ answer' \in {"none", "match", "eof"} /\ readStatus' = status
      /\ pc' = "answered" <=> answer' # "none"
      /\ pc' = "waiting" => ~Matches(Pattern, text) /\ buffer' = text
      /\ answer' = "eof" => status = "eof"
  BY <1>2 DEF Look
<1>8. ASSUME Got("match")', rest = <<>>
      PROVE  m = Len(Segment) /\ NextPrompt /\ counter < Len(commands) /\ buffer' = <<>>
  <2>1. Matches(Pattern, text) /\ buffer' = AfterMatch(Pattern, text)
    BY <1>2, <1>8 DEF Look, Got
  <2> QED BY <1>1, <1>2, <1>8, <2>1, PromptFound
<1>9. buffer' \in Seq(Character)
  <2>1. b2 \in Nat /\ b2 <= m
    BY <1>2, <1>6
  <2> QED BY <1>2, <1>3, <1>6, <2>1, PartProps, Zenon
<1>10. RunTypes' /\ TextTypes'
  <2>1. RunTypes'
    BY <1>0, <1>1, <1>2, <1>7 DEF State, RunTypes
  <2>2. TextTypes'
    BY <1>0, <1>1, <1>9 DEF State, TextTypes, Looks
  <2> QED BY <2>1, <2>2
<1>11. Segments'
  <2>1. counter \in 1..Len(commands)
    BY <1>1 DEF State, RunTypes
  <2>2. /\ \A i \in 1..(counter - 1) : output'[i] = output[i]
        /\ \A i \in (counter + 1)..Len(commands) : output'[i] = output[i]
    <3>1. \A i \in 1..(counter - 1) : i \in 1..Len(commands) /\ i # counter
      BY <2>1
    <3>2. \A i \in (counter + 1)..Len(commands) : i \in 1..Len(commands) /\ i # counter
      BY <2>1
    <3> QED BY <3>1, <3>2 DEF Looks
  <2> QED BY <1>0, <1>1, <1>5, <2>2 DEF State, Segments
<1>12. Booting'
  <2> SUFFICES ASSUME machine.state = "booting"
               PROVE  Booting'
    BY <1>0 DEF Booting
  <2>1. text = <<>> /\ queue' = <<>> /\ status = "none"
    BY DEF Looks
  <2>2. ~Matches(Pattern, text)
    BY <2>1 DEF Matches
  <2>3. pc' = "waiting" /\ buffer' = <<>>
    BY <1>2, <2>1, <2>2 DEF Look
  <2> QED BY <1>0, <1>1, <1>5, <1>7, <2>1, <2>3 DEF State, Booting
<1>13. Ready'
  <2>1. Unsent' => Unsent
    BY <1>0, <1>7 DEF Unsent, Got
  <2> QED BY <1>0, <1>1, <1>5, <1>7, <2>1 DEF State, Ready, NoNewline
<1>14. Places'
  <2>1. ~Got("timeout")'
    BY <1>7 DEF Got
  <2>2. pc' = "waiting" => ~Matches(Pattern', buffer')
    BY <1>5, <1>7
  <2> QED BY <1>0, <1>5, <1>7, <1>8, <2>1, <2>2 DEF Places
<1>15. Ends'
  <2>1. readStatus' = "eof" \/ Got("eof")' \/ pc' = "done" => queue' = <<>> /\ reader = "ended"
    BY <1>7 DEF Got, Looks
  <2> QED BY <1>0, <1>1, <2>1 DEF State, Ends, Looks
<1>16. Received(m, b2)'
  <2>1. ~Judged'
    BY <1>7 DEF Judged
  <2>2. b2 \in 0..m
    BY <1>2, <1>6
  <2>3. (machine.state = "ready" /\ rest = <<Newline>> /\ ~Got("match") => \A i \in 1..b2 : Segment[i] # Newline)'
    <3>1. ~Got("match")' => b2 = b
      BY <1>6, <1>7 DEF Got
    <3> QED BY <1>0, <1>5, <3>1 DEF Looks
  <2> QED BY <1>0, <1>5, <1>6, <1>8, <2>1, <2>2, <2>3 DEF Received, Looks
<1>17. ListInv' /\ pc' # "init"
  BY <1>1, <1>7, ListStays
<1> QED
  BY <1>10, <1>11, <1>12, <1>13, <1>14, <1>15, <1>16, <1>17 DEF State, Started

LEMMA QueueTail ==
  ASSUME State, queue # <<>>
  PROVE  /\ Tail(queue) \in Seq(Seq(Character))
         /\ \A i \in 1..Len(Tail(queue)) : Tail(queue)[i] = Eof => i = Len(Tail(queue)) /\ reader = "ended"
         /\ Head(queue) = Eof => Tail(queue) = <<>> /\ reader = "ended"
         /\ Head(queue) \in Seq(Character)
<1>1. queue \in Seq(Seq(Character)) /\ \A i \in 1..Len(queue) : queue[i] = Eof => i = Len(queue) /\ reader = "ended"
  BY DEF State, TextTypes, Ends
<1>2. PICK q \in Seq(Seq(Character)) :
         /\ q = Tail(queue) /\ Len(q) = Len(queue) - 1
         /\ \A i \in 1..Len(q) : q[i] = queue[i + 1]
         /\ Head(queue) \in Seq(Character)
  BY <1>1, HeadTailProperties
<1>3. PICK n \in Nat : n = Len(q)
  BY LenProperties
<1>4. Len(queue) = n + 1
  <2>1. Len(queue) \in Nat
    BY <1>1, LenProperties
  <2> QED BY <1>2, <1>3, <2>1
<1>5. \A i \in 1..n : q[i] = Eof => i = n /\ reader = "ended"
  <2> TAKE i \in 1..n
  <2>1. i + 1 \in 1..Len(queue) /\ q[i] = queue[i + 1]
    BY <1>2, <1>3, <1>4
  <2>2. q[i] = Eof => i + 1 = n + 1 /\ reader = "ended"
    BY <1>1, <1>4, <2>1
  <2> QED BY <2>2
<1>6. Head(queue) = Eof => q = <<>> /\ reader = "ended"
  <2>1. 1 \in 1..Len(queue) /\ Head(queue) = queue[1]
    BY <1>1, <1>4
  <2>2. Head(queue) = Eof => 1 = n + 1 /\ reader = "ended"
    BY <1>1, <1>4, <2>1
  <2> QED BY <1>3, <2>2, EmptySeq
<1> QED
  BY <1>2, <1>3, <1>5, <1>6

LEMMA ReadDataInv ==
  ASSUME Started, ReadData
  PROVE  Started'
<1>1. State
  BY DEF Started
<1>2. PICK k, b : Received(k, b)
  BY DEF Started
<1>3. /\ pc = "waiting" /\ queue # <<>> /\ queue' = Tail(queue) /\ Recv(Head(queue))
      /\ Look(buffer \o Head(queue), IF Head(queue) = Eof THEN "eof" ELSE "none")
      /\ UNCHANGED <<listVars, counter, rest, reader, tty, world>>
  BY DEF ReadData
<1>4. /\ output' \in [1..Len(commands) -> Seq(Seq(Character))] /\ partial' \in Seq(Character)
      /\ \A i \in 1..Len(commands) : i # counter => output'[i] = output[i]
  BY <1>1, <1>2, <1>3, RecvTakes
<1>5. PICK m \in Nat :
         /\ m <= Len(Segment) /\ Flowing(Segment, Tail(queue), tty, m)
         /\ b \in 0..m /\ buffer \o Head(queue) = Part(Segment, b, m)
         /\ IF Judged THEN m = Len(Segment) /\ output'[counter] = AllLines(Segment)
            ELSE Cut(Part(Segment, 0, m), [lines |-> output'[counter], text |-> partial'], Character)
  BY <1>1, <1>2, <1>3, RecvTakes
<1>6. ~Judged
  BY <1>3 DEF Judged
<1>7. machine.state = "ready" /\ rest = <<Newline>> => \A i \in 1..b : Segment[i] # Newline
  BY <1>2, <1>3 DEF Received, Got
<1>8. machine.state # "booting"
  BY <1>1, <1>3 DEF State, Booting
<1> DEFINE text == buffer \o Head(queue)
           status == IF Head(queue) = Eof THEN "eof" ELSE "none"
<1>9. Looks(text, status, m, b)
  <2>1. status \in {"none", "eof"} /\ (status = "eof" => Tail(queue) = <<>> /\ reader = "ended")
    BY <1>1, <1>3, QueueTail
  <2>2. /\ Tail(queue) \in Seq(Seq(Character))
        /\ \A i \in 1..Len(Tail(queue)) : Tail(queue)[i] = Eof => i = Len(Tail(queue)) /\ reader = "ended"
    BY <1>1, <1>3, QueueTail
  <2>3. Look(text, status) /\ text = Part(Segment, b, m)
    BY <1>3, <1>5
  <2> HIDE DEF text, status
  <2> QED BY <1>3, <1>4, <1>5, <1>6, <1>7, <1>8, <2>1, <2>2, <2>3 DEF Looks
<1> QED
  BY <1>3, <1>9, LookKeeps

LEMMA ExpectInv ==
  ASSUME Started, Expect
  PROVE  Started'
<1>1. State /\ ListInv
  BY DEF Started
<1>2. PICK k, b : Received(k, b)
  BY DEF Started
<1>3. /\ pc = "expect"
      /\ UNCHANGED <<listVars, counter, rest, tries, verdict, allCorrect, record, queue, reader, tty, world>>
  BY DEF Expect
<1>4. CASE readStatus = "none"
  <2>1. Look(buffer, readStatus)
    BY <1>4 DEF Expect
  <2>2. k \in Nat /\ k <= Len(Segment)
    BY <1>1, <1>2, SegmentType DEF Received, Flowing, Flow
  <2>3. output' = output /\ partial' = partial /\ queue' = queue
    BY <1>3 DEF record
  <2>4. /\ \A i \in 1..Len(queue) : queue[i] = Eof => i = Len(queue) /\ reader = "ended"
        /\ machine.state = "booting" => buffer = <<>> /\ queue = <<>>
        /\ output \in [1..Len(commands) -> Seq(Seq(Character))] /\ partial \in Seq(Character)
        /\ queue \in Seq(Seq(Character))
    BY <1>1 DEF State, Ends, Booting, TextTypes
  <2>5. /\ Flowing(Segment, queue, tty, k)
        /\ b \in 0..k /\ buffer = Part(Segment, b, k)
        /\ Cut(Part(Segment, 0, k), [lines |-> output[counter], text |-> partial], Character)
        /\ machine.state = "ready" /\ rest = <<Newline>> => \A i \in 1..b : Segment[i] # Newline
    BY <1>2, <1>3 DEF Received, Judged, Got
  <2>6. Looks(buffer, readStatus, k, b)
    BY <1>4, <2>1, <2>2, <2>3, <2>4, <2>5 DEF Looks
  <2> QED BY <1>3, <2>6, LookKeeps
<1>5. CASE readStatus # "none"
  <2>1. readStatus = "eof" /\ answer' = "eof" /\ pc' = "answered" /\ buffer' = buffer /\ readStatus' = readStatus
    BY <1>1, <1>5 DEF Expect, expect, State, RunTypes
  <2>2. /\ counter' = counter /\ rest' = rest /\ step' = step /\ commands' = commands /\ reader' = reader
        /\ output' = output /\ partial' = partial /\ queue' = queue
        /\ tty' = tty /\ input' = input /\ machine' = machine /\ spoken' = spoken
    BY <1>3 DEF listVars, world, record
  <2>3. (NextPrompt' <=> NextPrompt) /\ Segment' = Segment /\ (Unsent' => Unsent)
    BY <2>1, <2>2 DEF NextPrompt, Segment, Unsent, Got
  <2>4. RunTypes' /\ TextTypes'
    BY <1>1, <2>1, <2>2 DEF State, RunTypes, TextTypes
  <2>5. Segments' /\ Booting' /\ Ends'
    BY <1>1, <2>1, <2>2, <2>3 DEF State, Segments, Booting, Ends, Got
  <2>6. Ready'
    BY <1>1, <2>1, <2>2, <2>3 DEF State, Ready, NoNewline
  <2>7. Places'
    BY <2>1 DEF Places, Got
  <2>8. Received(k, b)'
    BY <1>2, <1>3, <2>1, <2>2, <2>3 DEF Received, Judged, Got
  <2>9. ListInv'
    BY <1>1, <1>3, ListStays
  <2> QED BY <2>1, <2>4, <2>5, <2>6, <2>7, <2>8, <2>9 DEF State, Started
<1> QED
  BY <1>4, <1>5

LEMMA TimeOutInv ==
  ASSUME Started, TimeOut
  PROVE  Started'
<1>1. State /\ ListInv
  BY DEF Started
<1>2. PICK k, b : Received(k, b)
  BY DEF Started
<1>3. /\ pc = "waiting" /\ Silent /\ answer' = "timeout" /\ pc' = "answered"
      /\ UNCHANGED <<listVars, counter, rest, record, expect, queue, reader, tty, world>>
  BY DEF TimeOut
<1>4. /\ counter' = counter /\ rest' = rest /\ step' = step /\ commands' = commands /\ reader' = reader
      /\ output' = output /\ partial' = partial /\ queue' = queue
      /\ buffer' = buffer /\ readStatus' = readStatus
      /\ tty' = tty /\ input' = input /\ machine' = machine /\ spoken' = spoken
  BY <1>3 DEF listVars, world, record, expect
<1>5. (NextPrompt' <=> NextPrompt) /\ Segment' = Segment
  BY <1>4 DEF NextPrompt, Segment
<1>6. RunTypes' /\ TextTypes'
  BY <1>1, <1>3, <1>4 DEF State, RunTypes, TextTypes
<1>7. Segments' /\ Ends'
  BY <1>1, <1>3, <1>4, <1>5 DEF State, Segments, Ends, Got
<1>8. Booting'
  BY <1>3, <1>4 DEF Silent, Booting
<1>9. PICK s \in Seq(Character) : s = Segment /\ Len(s) \in Nat
  BY <1>1, SegmentType
<1>10. queue = <<>> /\ tty = <<>>
  BY <1>3 DEF Silent
<1>11. k = Len(s) /\ b \in 0..k /\ buffer = Part(s, b, k)
  <2>1. Flowing(s, <<>>, <<>>, k)
    BY <1>2, <1>9, <1>10 DEF Received
  <2> QED BY <1>2, <1>9, <2>1, FlowEnd DEF Received
<1>12. ASSUME machine.state = "ready", rest = <<Newline>>
       PROVE  input = <<>> /\ NoNewline(s) /\ ~NextPrompt
  <2>1. input = <<>>
    BY <1>3, <1>12 DEF Silent
  <2>2. \A i \in 1..b : s[i] # Newline
    BY <1>2, <1>3, <1>9, <1>12 DEF Received, Got
  <2>3. Pattern = <<Newline>>
    <3>1. <<Newline>> # <<>> /\ Head(<<Newline>>) = Newline
      OBVIOUS
    <3> QED BY <1>12, <3>1 DEF Pattern
  <2>4. ~Matches(<<Newline>>, buffer)
    BY <1>1, <1>3, <2>3 DEF State, Places
  <2>5. b \in Nat /\ b <= k /\ k \in Nat /\ k <= Len(s)
    BY <1>9, <1>11
  <2>6. /\ Len(Part(s, b, k)) = k - b
        /\ \A i \in 1..(k - b) : Part(s, b, k)[i] = s[b + i]
    BY <2>5, PartProps, Zenon
  <2>7. \A i \in 1..(k - b) : s[b + i] # Newline
    <3>1. buffer \in Seq(Character) /\ Newline \in Character
      BY <1>1, CharacterTypes DEF State, TextTypes
    <3>2. \A i \in 1..Len(buffer) : buffer[i] # Newline
      BY <2>4, <3>1, NoMatch
    <3> QED BY <1>11, <2>6, <3>2
  <2>8. NoNewline(s)
    <3> SUFFICES ASSUME NEW i \in 1..k
                 PROVE  s[i] # Newline
      BY <1>11 DEF NoNewline
    <3>1. CASE i <= b
      <4>1. i \in 1..b
        BY <2>5, <3>1
      <4> QED BY <2>2, <4>1
    <3>2. CASE ~(i <= b)
      <4>1. i - b \in 1..(k - b) /\ b + (i - b) = i
        BY <2>5, <3>2
      <4> QED BY <2>7, <4>1
    <3> QED BY <3>1, <3>2
  <2>9. ~NextPrompt
    BY <1>1, <1>9, <1>12, <2>8 DEF State, Ready
  <2> QED BY <2>1, <2>8, <2>9
<1>13. Ready'
  <2> SUFFICES ASSUME machine.state = "ready"
               PROVE  Ready'
    BY <1>4 DEF Ready
  <2>1. input = <<>> /\ NoNewline(input)
    BY <1>3 DEF Silent, NoNewline
  <2>2. Unsent' => Unsent \/ rest = <<Newline>>
    BY <1>4 DEF Unsent
  <2>3. Unsent' => NoNewline(input) /\ NoNewline(Segment) /\ ~NextPrompt
    BY <1>1, <1>9, <1>12, <2>1, <2>2 DEF State, Ready
  <2>4. (Unsent => NoNewline(input) /\ NoNewline(Segment) /\ ~NextPrompt)'
    BY <1>4, <1>5, <2>3 DEF NoNewline
  <2> QED BY <1>1, <1>3, <1>4, <1>5, <2>1, <2>4 DEF State, Ready, NoNewline
<1>14. Places'
  <2>1. Silent'
    BY <1>3, <1>4 DEF Silent
  <2> QED BY <1>3, <2>1 DEF Places, Got
<1>15. Received(k, b)'
  BY <1>2, <1>3, <1>4, <1>5 DEF Received, Judged, Got
<1>16. ListInv' /\ pc' # "init"
  BY <1>1, <1>3, ListStays
<1> QED
  BY <1>6, <1>7, <1>8, <1>13, <1>14, <1>15, <1>16 DEF State, Started

-----------------------------------------------------------------------------
(* Run.                                                                    *)

LEMMA RestCases ==
  ASSUME rest \in Rests, rest # <<>>
  PROVE  \/ rest = <<Newline>> /\ Head(rest) = Newline /\ Tail(rest) = <<>> /\ Len(rest) = 1
         \/ Head(rest) \in Word /\ Tail(rest) = <<Newline>> /\ Len(rest) = 2 /\ rest # <<Newline>>
<1>1. CASE rest = <<Newline>>
  BY <1>1
<1>2. CASE \E w \in Word : rest = <<w, Newline>>
  BY <1>2
<1> QED
  BY <1>1, <1>2 DEF Rests

(* What is answered is the only thing that changes.                        *)
LEMMA WorldStays ==
  ASSUME State, UNCHANGED <<listVars, counter, record, expect, queue, reader, tty, world>>
  PROVE  /\ counter' = counter /\ step' = step /\ commands' = commands /\ reader' = reader
         /\ output' = output /\ partial' = partial /\ queue' = queue
         /\ buffer' = buffer /\ readStatus' = readStatus
         /\ tty' = tty /\ input' = input /\ machine' = machine /\ spoken' = spoken
         /\ (NextPrompt' <=> NextPrompt) /\ Segment' = Segment
         /\ TextTypes' /\ Segments'
<1>1. /\ counter' = counter /\ step' = step /\ commands' = commands /\ reader' = reader
      /\ output' = output /\ partial' = partial /\ queue' = queue
      /\ buffer' = buffer /\ readStatus' = readStatus
      /\ tty' = tty /\ input' = input /\ machine' = machine /\ spoken' = spoken
  BY DEF listVars, world, record, expect
<1>2. (NextPrompt' <=> NextPrompt) /\ Segment' = Segment
  BY <1>1 DEF NextPrompt, Segment
<1>3. TextTypes'
  BY <1>1 DEF State, TextTypes
<1>4. Segments'
  BY <1>1, <1>2 DEF State, Segments
<1> QED
  BY <1>1, <1>2, <1>3, <1>4

LEMMA NoMoreInput ==
  ASSUME State, Got("timeout") \/ Got("eof"), machine.state = "ready"
  PROVE  input = <<>>
  BY DEF State, Places, Ends, Silent

(* A newline that was echoed was executed, and is not sent again.          *)
LEMMA EchoedInv ==
  ASSUME Started, Echoed
  PROVE  Started'
<1>1. State /\ ListInv
  BY DEF Started
<1>2. PICK k, b : Received(k, b)
  BY DEF Started
<1>3. /\ pc = "answered" /\ rest # <<>> /\ answer = "match" /\ rest' = Tail(rest)
      /\ pc' = IF rest' = <<>> THEN "expect" ELSE "send"
      /\ answer' = answer
      /\ UNCHANGED <<listVars, counter, record, expect, queue, reader, tty, world>>
  BY DEF Echoed, Answered
<1>4. /\ counter' = counter /\ step' = step /\ commands' = commands /\ reader' = reader
      /\ output' = output /\ partial' = partial /\ queue' = queue
      /\ buffer' = buffer /\ readStatus' = readStatus
      /\ tty' = tty /\ input' = input /\ machine' = machine /\ spoken' = spoken
      /\ (NextPrompt' <=> NextPrompt) /\ Segment' = Segment
      /\ TextTypes' /\ Segments'
  BY <1>1, <1>3, WorldStays
<1>5. \/ rest = <<Newline>> /\ rest' = <<>>
      \/ Len(rest) = 2 /\ rest' = <<Newline>> /\ rest # <<Newline>>
  BY <1>1, <1>3, RestCases DEF State, RunTypes
<1>6. RunTypes'
  BY <1>1, <1>3, <1>4, <1>5 DEF State, RunTypes, Rests
<1>7. Booting' /\ Ends'
  BY <1>1, <1>3, <1>4 DEF State, Booting, Ends, Got
<1>8. Unsent' => Unsent
  <2>1. Len(<<>>) # 2 /\ Len(<<Newline>>) # 2 /\ <<>> # <<Newline>>
    OBVIOUS
  <2> QED BY <1>5, <2>1 DEF Unsent
<1>9. machine.state = "ready" /\ rest' = <<Newline>> => NoNewline(Segment) /\ ~NextPrompt
  <2>1. rest' = <<Newline>> => Unsent
    <3>1. <<>> # <<Newline>>
      OBVIOUS
    <3> QED BY <1>5, <3>1 DEF Unsent
  <2> QED BY <1>1, <2>1 DEF State, Ready
<1>10. Ready'
  <2>1. (Unsent => NoNewline(input) /\ NoNewline(Segment) /\ ~NextPrompt)' \/ machine'.state # "ready"
    BY <1>1, <1>4, <1>8 DEF State, Ready, NoNewline
  <2> QED BY <1>1, <1>3, <1>4, <1>9, <2>1 DEF State, Ready
<1>11. Places'
  BY <1>3 DEF Places, Got
<1>12. Received(k, b)'
  <2>1. machine.state = "ready" /\ rest' = <<Newline>> => \A i \in 1..b : Segment[i] # Newline
    <3> SUFFICES ASSUME machine.state = "ready", rest' = <<Newline>>, NEW i \in 1..b
                 PROVE  Segment[i] # Newline
      OBVIOUS
    <3>1. i \in 1..Len(Segment)
      <4>1. k \in 0..Len(Segment) /\ b \in 0..k /\ Len(Segment) \in Nat
        BY <1>1, <1>2, SegmentType DEF Received, Flowing, Flow
      <4> QED BY <4>1
    <3> QED BY <1>9, <3>1 DEF NoNewline
  <2>2. ~Judged /\ ~Judged' /\ ~Got("match")'
    BY <1>3 DEF Judged, Got
  <2> QED BY <1>2, <1>4, <2>1, <2>2 DEF Received
<1>13. ListInv' /\ pc' # "init"
  BY <1>1, <1>3, ListStays
<1> QED
  BY <1>4, <1>6, <1>7, <1>10, <1>11, <1>12, <1>13 DEF State, Started

(* A character is sent again only if it was lost, or nobody hears it.      *)
LEMMA NotEchoedInv ==
  ASSUME Started, NotEchoed
  PROVE  Started'
<1>1. State /\ ListInv
  BY DEF Started
<1>2. PICK k, b : Received(k, b)
  BY DEF Started
<1>3. /\ pc = "answered" /\ rest # <<>> /\ answer # "match" /\ rest' = rest /\ answer' = answer
      /\ pc' = "close" \/ (pc' = "send" /\ answer = "timeout")
      /\ UNCHANGED <<listVars, counter, record, expect, queue, reader, tty, world>>
  BY DEF NotEchoed, Answered, Fails
<1>4. /\ counter' = counter /\ step' = step /\ commands' = commands /\ reader' = reader
      /\ output' = output /\ partial' = partial /\ queue' = queue
      /\ buffer' = buffer /\ readStatus' = readStatus
      /\ tty' = tty /\ input' = input /\ machine' = machine /\ spoken' = spoken
      /\ (NextPrompt' <=> NextPrompt) /\ Segment' = Segment
      /\ TextTypes' /\ Segments'
  BY <1>1, <1>3, WorldStays
<1>5. RunTypes'
  BY <1>1, <1>3, <1>4 DEF State, RunTypes
<1>6. Booting' /\ Ends'
  BY <1>1, <1>3, <1>4 DEF State, Booting, Ends, Got
<1>7. Unsent' => Unsent
  BY <1>3 DEF Unsent, Got
<1>8. Got("timeout") \/ Got("eof")
  BY <1>1, <1>3 DEF State, RunTypes, Places, Got
<1>9. Ready'
  <2>1. machine.state = "ready" => input = <<>>
    BY <1>1, <1>8, NoMoreInput
  <2>2. (Unsent => NoNewline(input) /\ NoNewline(Segment) /\ ~NextPrompt)' \/ machine'.state # "ready"
    BY <1>1, <1>4, <1>7 DEF State, Ready, NoNewline
  <2>3. (rest = <<Newline>> /\ NextPrompt => ~NoNewline(Segment))' \/ machine'.state # "ready"
    BY <1>1, <1>3, <1>4 DEF State, Ready, NoNewline
  <2> QED BY <1>1, <1>4, <2>1, <2>2, <2>3 DEF State, Ready
<1>10. Places'
  BY <1>3 DEF Places, Got
<1>11. Received(k, b)'
  BY <1>2, <1>3, <1>4 DEF Received, Judged, Got
<1>12. ListInv' /\ pc' # "init"
  BY <1>1, <1>3, ListStays
<1> QED
  BY <1>4, <1>5, <1>6, <1>9, <1>10, <1>11, <1>12 DEF State, Started

(* What is under way holds no newline but as its last character.           *)
LEMMA SendCharacterInv ==
  ASSUME Started, SendCharacter
  PROVE  Started'
<1>1. State /\ ListInv
  BY DEF Started
<1>2. PICK k, b : Received(k, b)
  BY DEF Started
<1>3. /\ pc = "send" /\ pc' = "expect" /\ input' = Append(input, Head(rest))
      /\ rest # <<>> /\ rest' = rest /\ answer' = answer /\ counter' = counter
      /\ step' = step /\ commands' = commands /\ reader' = reader
      /\ output' = output /\ partial' = partial /\ queue' = queue
      /\ buffer' = buffer /\ readStatus' = readStatus
      /\ tty' = tty /\ machine' = machine /\ spoken' = spoken
      /\ UNCHANGED listVars
  BY <1>1 DEF SendCharacter, listVars, record, expect, State, Places
<1>4. (NextPrompt' <=> NextPrompt) /\ Segment' = Segment
  BY <1>3 DEF NextPrompt, Segment
<1>5. \/ rest = <<Newline>> /\ Head(rest) = Newline
      \/ Head(rest) \in Word /\ Len(rest) = 2 /\ rest # <<Newline>>
  BY <1>1, <1>3, RestCases DEF State, RunTypes
<1>6. PICK c \in Plain : c = Head(rest)
  BY <1>5, CharacterTypes
<1>7. PICK n \in Nat : /\ n = Len(input) /\ input' \in Seq(Plain) /\ Len(input') = n + 1
                       /\ input'[n + 1] = c /\ \A i \in 1..n : input'[i] = input[i]
  <2>1. input \in Seq(Plain)
    BY <1>1 DEF State, TextTypes
  <2>2. /\ Append(input, c) \in Seq(Plain) /\ Len(Append(input, c)) = Len(input) + 1
        /\ Append(input, c)[Len(input) + 1] = c
        /\ \A i \in 1..Len(input) : Append(input, c)[i] = input[i]
    BY <2>1, AppendProperties
  <2> QED BY <1>3, <1>6, <2>1, <2>2, LenProperties
<1>8. RunTypes' /\ TextTypes'
  BY <1>1, <1>3, <1>7 DEF State, RunTypes, TextTypes
<1>9. Segments' /\ Ends'
  BY <1>1, <1>3, <1>4 DEF State, Segments, Ends, Got
<1>10. Booting'
  BY <1>1, <1>3 DEF State, Booting
<1>11. Ready'
  <2> SUFFICES ASSUME machine.state = "ready"
               PROVE  Ready'
    BY <1>3 DEF Ready
  <2>1. Unsent
    BY <1>3, <1>5 DEF Unsent
  <2>2. NoNewline(input) /\ NoNewline(Segment) /\ ~NextPrompt
    BY <1>1, <2>1 DEF State, Ready
  <2>3. \A i \in 1..n : input'[i] # Newline
    BY <1>7, <2>2 DEF NoNewline
  <2>4. \A i \in 1..(n + 1) : input'[i] = Newline => i = n + 1
    <3> TAKE i \in 1..(n + 1)
    <3>1. i # n + 1 => i \in 1..n
      OBVIOUS
    <3> QED BY <2>3, <3>1
  <2>5. Unsent' => NoNewline(input')
    <3> SUFFICES ASSUME Unsent'
                 PROVE  NoNewline(input')
      OBVIOUS
    <3>1. c # Newline
      <4>1. Len(rest) = 2 /\ Len(<<Newline>>) = 1
        BY <1>3 DEF Unsent, Got
      <4>2. rest # <<Newline>>
        BY <4>1
      <4> QED BY <1>5, <1>6, <4>2, CharacterTypes
    <3>2. \A i \in 1..(n + 1) : input'[i] # Newline
      BY <1>7, <2>3, <2>4, <3>1
    <3> QED BY <1>7, <3>2 DEF NoNewline
  <2>6. (Unsent => NoNewline(input) /\ NoNewline(Segment) /\ ~NextPrompt)'
    BY <1>4, <2>2, <2>5 DEF NoNewline
  <2> QED BY <1>1, <1>3, <1>4, <1>7, <2>2, <2>4, <2>6 DEF State, Ready
<1>12. Places'
  BY <1>3 DEF Places, Got
<1>13. Received(k, b)'
  BY <1>2, <1>3, <1>4 DEF Received, Judged, Got
<1>14. ListInv' /\ pc' # "init"
  BY <1>1, <1>3, ListStays
<1> QED
  BY <1>8, <1>9, <1>10, <1>11, <1>12, <1>13, <1>14 DEF State, Started

LEMMA CommandName ==
  ASSUME State, ListInv
  PROVE  Command.line.name \in Word
<1>1. commands \in Seq(CommandRecord) /\ counter \in 1..Len(commands)
  BY DEF ListInv, ListTypeOK, State, RunTypes
<1>2. Command \in CommandRecord
  BY <1>1, ElementOfSeq DEF Command
<1> QED
  BY <1>2 DEF CommandRecord

(* The line is typed at a machine that has nothing left to take.           *)
LEMMA TypeInv ==
  ASSUME Started, Type
  PROVE  Started'
<1>1. State /\ ListInv
  BY DEF Started
<1>2. PICK k, b : Received(k, b)
  BY DEF Started
<1>3. PICK w \in Word : w = Command.line.name
  BY <1>1, CommandName
<1>4. /\ pc = "top" /\ rest = <<>> /\ Segment = <<>> /\ ~NextPrompt
      /\ \/ rest' = <<w, Newline>> /\ pc' = "send" /\ input' = input
         \/ input' = input \o <<w, Newline>> /\ pc' = "expect" /\ rest' = rest
      /\ answer' = answer /\ counter' = counter
      /\ step' = step /\ commands' = commands /\ reader' = reader
      /\ output' = output /\ partial' = partial /\ queue' = queue
      /\ buffer' = buffer /\ readStatus' = readStatus
      /\ tty' = tty /\ machine' = machine /\ spoken' = spoken
      /\ UNCHANGED listVars
  BY <1>1, <1>3 DEF Type, listVars, record, expect, State, Places
<1>5. (NextPrompt' <=> NextPrompt) /\ Segment' = Segment
  BY <1>4 DEF NextPrompt, Segment
<1>6. machine.state # "booting" /\ (machine.state = "ready" => input = <<>>)
  BY <1>1, <1>4 DEF State, Booting, Ready
<1>7. PICK e \in Seq(Plain) : /\ e = <<w, Newline>> /\ Len(e) = 2 /\ e[1] # Newline /\ e[2] = Newline
                              /\ e \in Rests /\ e # <<>>
  <2>1. <<w, Newline>> \in Seq(Plain) /\ Len(<<w, Newline>>) = 2 /\ w # Newline
    BY CharacterTypes
  <2> QED BY <2>1 DEF Rests
<1>8. RunTypes'
  BY <1>1, <1>4, <1>7 DEF State, RunTypes
<1>9. TextTypes'
  <2>1. input \in Seq(Plain) /\ input \o e \in Seq(Plain)
    BY <1>1, ConcatProperties DEF State, TextTypes
  <2>2. input' \in Seq(Plain)
    BY <1>4, <1>7, <2>1
  <2> QED BY <1>1, <1>4, <2>2 DEF State, TextTypes
<1>10. Segments' /\ Ends'
  BY <1>1, <1>4, <1>5 DEF State, Segments, Ends, Got
<1>11. Booting'
  BY <1>4, <1>6 DEF Booting
<1>12. Ready'
  <2> SUFFICES ASSUME machine.state = "ready"
               PROVE  Ready'
    BY <1>4 DEF Ready
  <2>1. machine.envs # <<>> /\ input = <<>> /\ NoNewline(Segment)
    BY <1>1, <1>4, <1>6 DEF State, Ready, NoNewline
  <2>2. CASE rest' = <<w, Newline>> /\ pc' = "send" /\ input' = input
    <3>1. input' = <<>> /\ NoNewline(input') /\ \A i \in 1..Len(input') : input'[i] # Newline
      BY <2>1, <2>2 DEF NoNewline
    <3>2. NoNewline(input)' /\ NoNewline(Segment)' /\ ~NextPrompt'
      BY <1>4, <1>5, <2>1, <3>1 DEF NoNewline
    <3> QED BY <1>4, <2>1, <3>1, <3>2 DEF Ready
  <2>3. CASE input' = input \o <<w, Newline>> /\ pc' = "expect" /\ rest' = rest
    <3>1. input' = e
      BY <1>7, <2>1, <2>3, ConcatEmptySeq
    <3>2. \A i \in 1..Len(input') : input'[i] = Newline => i = Len(input')
      BY <1>7, <3>1
    <3>3. ~Unsent' /\ rest' # <<Newline>>
      <4>1. rest' = <<>> /\ Len(<<>>) # 2 /\ <<>> # <<Newline>>
        BY <1>4, <2>3
      <4> QED BY <4>1 DEF Unsent
    <3> QED BY <1>4, <1>5, <2>1, <2>3, <3>2, <3>3 DEF Ready
  <2> QED BY <1>4, <2>2, <2>3
<1>13. Places'
  <2>1. pc' = "send" => rest' # <<>>
    BY <1>4, <1>7
  <2> QED BY <1>4, <2>1 DEF Places, Got
<1>14. Received(k, b)'
  <2>1. rest' # <<Newline>>
    <3>1. Len(<<Newline>>) = 1 /\ <<>> # <<Newline>>
      OBVIOUS
    <3> QED BY <1>4, <1>7, <3>1
  <2>2. ~Judged /\ ~Judged' /\ ~Got("match")'
    BY <1>4 DEF Judged, Got
  <2> QED BY <1>2, <1>4, <1>5, <2>1, <2>2 DEF Received
<1>15. ListInv' /\ pc' # "init"
  BY <1>1, <1>4, ListStays
<1> QED
  BY <1>8, <1>9, <1>10, <1>11, <1>12, <1>13, <1>14, <1>15 DEF State, Started

LEMMA CloseInv ==
  ASSUME Started, Close
  PROVE  Started'
<1>1. State /\ ListInv
  BY DEF Started
<1>2. PICK k, b : Received(k, b)
  BY DEF Started
<1>3. /\ pc = "close" /\ pc' = "draining" /\ machine' = [machine EXCEPT !.state = "down"]
      /\ rest' = rest /\ answer' = answer /\ counter' = counter
      /\ step' = step /\ commands' = commands /\ reader' = reader
      /\ output' = output /\ partial' = partial /\ queue' = queue
      /\ buffer' = buffer /\ readStatus' = readStatus
      /\ tty' = tty /\ input' = input /\ spoken' = spoken
      /\ UNCHANGED listVars
  BY DEF Close, listVars, record, expect
<1>4. machine' \in Machines /\ machine'.state = "down"
  <2>1. machine \in Machines
    BY <1>1 DEF State, TextTypes
  <2> QED BY <1>3, <2>1 DEF Machines
<1>5. (NextPrompt' <=> NextPrompt) /\ Segment' = Segment
  BY <1>3 DEF NextPrompt, Segment
<1>6. RunTypes' /\ TextTypes'
  BY <1>1, <1>3, <1>4 DEF State, RunTypes, TextTypes
<1>7. Segments' /\ Ends'
  BY <1>1, <1>3, <1>4, <1>5 DEF State, Segments, Ends, Got
<1>8. Booting' /\ Ready' /\ Places'
  BY <1>3, <1>4 DEF Booting, Ready, Places, Got
<1>9. Received(k, b)'
  BY <1>2, <1>3, <1>4, <1>5 DEF Received, Judged, Got
<1>10. ListInv' /\ pc' # "init"
  BY <1>1, <1>3, ListStays
<1> QED
  BY <1>6, <1>7, <1>8, <1>9, <1>10 DEF State, Started

LEMMA DrainedInv ==
  ASSUME Started, Drained
  PROVE  Started'
<1>1. State /\ ListInv
  BY DEF Started
<1>2. PICK k, b : Received(k, b)
  BY DEF Started
<1>3. /\ pc = "draining" /\ queue = <<>> /\ reader = "ended" /\ pc' = "done"
      /\ rest' = rest /\ answer' = answer
      /\ UNCHANGED <<listVars, counter, record, expect, queue, reader, tty, world>>
  BY DEF Drained
<1>4. /\ counter' = counter /\ step' = step /\ commands' = commands /\ reader' = reader
      /\ output' = output /\ partial' = partial /\ queue' = queue
      /\ buffer' = buffer /\ readStatus' = readStatus
      /\ tty' = tty /\ input' = input /\ machine' = machine /\ spoken' = spoken
      /\ (NextPrompt' <=> NextPrompt) /\ Segment' = Segment
      /\ TextTypes' /\ Segments'
  BY <1>1, <1>3, WorldStays
<1>5. machine.state = "down"
  BY <1>1, <1>3 DEF State, Places
<1>6. RunTypes'
  BY <1>1, <1>3, <1>4 DEF State, RunTypes
<1>7. Booting' /\ Ready' /\ Places'
  BY <1>3, <1>4, <1>5 DEF Booting, Ready, Places, Got
<1>8. Ends'
  BY <1>1, <1>3, <1>4 DEF State, Ends, Got
<1>9. Received(k, b)'
  BY <1>2, <1>3, <1>4, <1>5 DEF Received, Judged, Got
<1>10. ListInv' /\ pc' # "init"
  BY <1>1, <1>3, ListStays
<1> QED
  BY <1>4, <1>6, <1>7, <1>8, <1>9, <1>10 DEF State, Started

LEMMA DrainInv ==
  ASSUME Started, Drain
  PROVE  Started'
<1>1. State /\ ListInv
  BY DEF Started
<1>2. PICK k, b : Received(k, b)
  BY DEF Started
<1>3. /\ pc = "draining" /\ pc' = pc /\ queue # <<>> /\ queue' = Tail(queue) /\ Recv(Head(queue))
      /\ buffer' = buffer \o Head(queue)
      /\ readStatus' = IF Head(queue) = Eof THEN "eof" ELSE "none"
      /\ rest' = rest /\ answer' = answer /\ counter' = counter
      /\ step' = step /\ commands' = commands /\ reader' = reader
      /\ tty' = tty /\ input' = input /\ machine' = machine /\ spoken' = spoken
      /\ UNCHANGED listVars
  BY DEF Drain, listVars, run, world
<1>4. machine.state = "down"
  BY <1>1, <1>3 DEF State, Places
<1>5. (NextPrompt' <=> NextPrompt) /\ Segment' = Segment
  BY <1>3 DEF NextPrompt, Segment
<1>6. /\ output' \in [1..Len(commands) -> Seq(Seq(Character))] /\ partial' \in Seq(Character)
      /\ \A i \in 1..Len(commands) : i # counter => output'[i] = output[i]
  BY <1>1, <1>2, <1>3, RecvTakes
<1>7. PICK m \in Nat :
         /\ m <= Len(Segment) /\ Flowing(Segment, Tail(queue), tty, m)
         /\ b \in 0..m /\ buffer \o Head(queue) = Part(Segment, b, m)
         /\ IF Judged THEN m = Len(Segment) /\ output'[counter] = AllLines(Segment)
            ELSE Cut(Part(Segment, 0, m), [lines |-> output'[counter], text |-> partial'], Character)
  BY <1>1, <1>2, <1>3, RecvTakes
<1>8. /\ Tail(queue) \in Seq(Seq(Character))
      /\ \A i \in 1..Len(Tail(queue)) : Tail(queue)[i] = Eof => i = Len(Tail(queue)) /\ reader = "ended"
      /\ Head(queue) = Eof => Tail(queue) = <<>> /\ reader = "ended"
      /\ Head(queue) \in Seq(Character)
  BY <1>1, <1>3, QueueTail
<1>9. RunTypes' /\ TextTypes'
  <2>1. buffer' \in Seq(Character)
    <3>1. buffer \in Seq(Character)
      BY <1>1 DEF State, TextTypes
    <3> QED BY <1>3, <1>8, <3>1, ConcatProperties
  <2>2. RunTypes'
    BY <1>1, <1>3 DEF State, RunTypes
  <2>3. TextTypes'
    BY <1>1, <1>3, <1>6, <1>8, <2>1 DEF State, TextTypes
  <2> QED BY <2>2, <2>3
<1>10. Segments'
  <2>1. counter \in 1..Len(commands)
    BY <1>1 DEF State, RunTypes
  <2>2. /\ \A i \in 1..(counter - 1) : i \in 1..Len(commands) /\ i # counter
        /\ \A i \in (counter + 1)..Len(commands) : i \in 1..Len(commands) /\ i # counter
    BY <2>1
  <2>3. /\ \A i \in 1..(counter - 1) : output'[i] = output[i]
        /\ \A i \in (counter + 1)..Len(commands) : output'[i] = output[i]
    BY <1>6, <2>2
  <2> QED BY <1>1, <1>3, <1>5, <2>3 DEF State, Segments
<1>11. Booting' /\ Ready' /\ Places'
  BY <1>3, <1>4 DEF Booting, Ready, Places, Got
<1>12. Ends'
  BY <1>1, <1>3, <1>4, <1>8 DEF State, Ends, Got
<1>13. Received(m, b)'
  <2>1. (Judged' <=> Judged) /\ ~Got("match")'
    BY <1>3 DEF Judged, Got
  <2>2. machine'.state # "ready"
    BY <1>3, <1>4
  <2> QED BY <1>3, <1>5, <1>7, <2>1, <2>2 DEF Received
<1>14. ListInv' /\ pc' # "init"
  BY <1>1, <1>3, ListStays
<1> QED
  BY <1>9, <1>10, <1>11, <1>12, <1>13, <1>14 DEF State, Started

(* A command is finished when everything printed for it is received.       *)
LEMMA FinishedOutput ==
  ASSUME State, NEW k, NEW b, Received(k, b), ~Judged, k = Len(Segment)
  PROVE  LET out == output[counter] \o (IF partial = <<>> THEN <<>> ELSE <<OutputLine(partial)>>)
         IN  out = AllLines(Segment) /\ out \in Seq(Seq(Character))
<1>1. PICK s \in Seq(Character) : s = Segment /\ Part(s, 0, Len(s)) = s
  BY SegmentType, PartFull
<1>2. /\ output \in [1..Len(commands) -> Seq(Seq(Character))] /\ partial \in Seq(Character)
      /\ counter \in 1..Len(commands)
  BY DEF State, TextTypes, RunTypes
<1>3. PICK lines0 \in Seq(Seq(Character)) : lines0 = output[counter]
  BY <1>2
<1>4. IsCut(s, lines0, partial)
  <2>1. Cut(s, [lines |-> lines0, text |-> partial], Character)
    BY <1>1, <1>3 DEF Received
  <2> QED BY <2>1 DEF Cut
<1>5. lines0 = LinesOf(s) /\ partial = Unfinished(s)
  BY <1>4, CutIsLines
<1>6. OutputLine(partial) \in Seq(Character)
  BY <1>2, OutputLineType
<1>7. PICK l \in Seq(Character) : l = OutputLine(partial)
  BY <1>6
<1>8. (IF partial = <<>> THEN <<>> ELSE <<l>>) \in Seq(Seq(Character))
  BY EmptySeq
<1>9. lines0 \o (IF partial = <<>> THEN <<>> ELSE <<l>>) \in Seq(Seq(Character))
  BY <1>8, ConcatProperties
<1>10. AllLines(s) = lines0 \o (IF partial = <<>> THEN <<>> ELSE <<l>>)
  BY <1>5, <1>7 DEF AllLines
<1> QED
  BY <1>1, <1>3, <1>7, <1>9, <1>10

LEMMA NothingIsCut ==
  /\ Part(<<>>, 0, 0) = <<>> /\ AllLines(<<>>) = <<>>
  /\ Cut(<<>>, [lines |-> <<>>, text |-> <<>>], Character)
<1>1. PICK s \in Seq(Character) : s = <<>> /\ Len(s) = 0
  BY EmptySeq
<1>2. LineEnds(s) = {} /\ Cardinality(LineEnds(s)) = 0
  <2>1. LineEnds(s) \subseteq 1..0
    BY <1>1, LineEndsProps
  <2>2. LineEnds(s) = {}
    BY <2>1
  <2> QED BY <2>2, FS_EmptySet
<1>3. Unfinished(s) = <<>>
  <2>1. PICK a \in Nat, e \in Nat : a = LineStart(s, 1) /\ e = 1 - 1 /\ a <= e /\ Before(s, 1) = Part(s, a, e)
    <3>1. 1 \in 1..(Len(s) + 1)
      BY <1>1
    <3> QED BY <3>1, LineStartProps
  <2>2. a = 0 /\ e = 0
    BY <2>1
  <2>3. Before(s, 1) = <<>>
    BY <2>1, <2>2, PartEmpty
  <2> QED BY <1>1, <2>3 DEF Unfinished
<1>4. IsCut(s, <<>>, <<>>)
  BY <1>2, <1>3 DEF IsCut
<1>5. <<>> \in Seq(Seq(Character)) /\ <<>> \in Seq(Character)
  BY EmptySeq
<1>6. LinesOf(s) = <<>>
  BY <1>4, <1>5, CutIsLines
<1>7. AllLines(s) = <<>>
  BY <1>3, <1>5, <1>6, ConcatEmptySeq DEF AllLines
<1>8. Cut(s, [lines |-> <<>>, text |-> <<>>], Character)
  BY <1>4, <1>5 DEF Cut
<1> QED
  BY <1>1, <1>7, <1>8, PartEmpty

(* The next command begins with nothing received and nothing on its way.   *)
LEMMA PromptedInv ==
  ASSUME Started, Prompted
  PROVE  Started'
<1>1. State /\ ListInv
  BY DEF Started
<1>2. PICK k, b : Received(k, b)
  BY DEF Started
<1>3. /\ pc = "answered" /\ rest = <<>> /\ Command.prompt # None
      /\ rest' = rest /\ answer' = answer
      /\ step' = step /\ commands' = commands /\ reader' = reader
      /\ queue' = queue /\ buffer' = buffer /\ readStatus' = readStatus
      /\ tty' = tty /\ input' = input /\ machine' = machine /\ spoken' = spoken
      /\ UNCHANGED listVars
  BY DEF Prompted, Answered, listVars, expect, world
<1>4. ListInv'
  BY <1>1, <1>3, ListStays
<1>5. machine.state # "booting"
  BY <1>1, <1>3 DEF State, Booting
<1>6. CASE answer # "match"
  <2>1. /\ pc' = "close" /\ counter' = counter /\ output' = output /\ partial' = partial
        /\ UNCHANGED <<listVars, counter, record, expect, queue, reader, tty, world>>
    BY <1>6 DEF Prompted, Fails, record
  <2>2. /\ (NextPrompt' <=> NextPrompt) /\ Segment' = Segment /\ TextTypes' /\ Segments'
    BY <1>1, <2>1, WorldStays
  <2>3. Got("timeout") \/ Got("eof")
    BY <1>1, <1>3, <1>6 DEF State, RunTypes, Places, Got
  <2>4. machine.state = "ready" => input = <<>>
    BY <1>1, <2>3, NoMoreInput
  <2>5. RunTypes' /\ Booting' /\ Ends' /\ Places'
    BY <1>1, <1>3, <1>5, <2>1 DEF State, RunTypes, Booting, Ends, Places, Got
  <2>6. rest' # <<Newline>> /\ ~Unsent'
    <3>1. Len(<<>>) # 2 /\ <<>> # <<Newline>>
      OBVIOUS
    <3> QED BY <1>3, <3>1 DEF Unsent
  <2>7. Ready'
    BY <1>1, <1>3, <2>4, <2>6 DEF State, Ready
  <2>8. counter # Len(commands)
    <3>1. commands[Len(commands)].prompt = None
      BY <1>1 DEF ListInv, LastPrompt, State, RunTypes
    <3> QED BY <1>3, <3>1 DEF Command
  <2>9. Received(k, b)'
    <3>1. ~Judged /\ ~Judged' /\ ~Got("match")'
      BY <1>3, <2>1, <2>8 DEF Judged, Got
    <3> QED BY <1>2, <1>3, <2>1, <2>2, <2>6, <3>1 DEF Received
  <2> QED BY <1>4, <2>1, <2>2, <2>5, <2>7, <2>9 DEF State, Started
<1>7. CASE answer = "match"
  <2>1. Got("match")
    BY <1>3, <1>7 DEF Got
  <2>2. NextPrompt /\ buffer = <<>> /\ counter < Len(commands) /\ k = Len(Segment)
    BY <1>1, <1>2, <1>3, <2>1 DEF State, Places, Received
  <2>3. ~Judged
    BY <1>3 DEF Judged
  <2> DEFINE out == output[counter] \o (IF partial = <<>> THEN <<>> ELSE <<OutputLine(partial)>>)
  <2>4. out = AllLines(Segment) /\ out \in Seq(Seq(Character))
    BY <1>1, <1>2, <2>2, <2>3, FinishedOutput
  <2>5. /\ output' = [output EXCEPT ![counter] = out] /\ counter' = counter + 1 /\ partial' = <<>>
        /\ pc' \in {"close", "top"}
    BY <1>7, <2>2 DEF Prompted, FinishCommand
  <2> HIDE DEF out
  <2>6. counter \in Nat \ {0} /\ counter + 1 \in 1..Len(commands) /\ Len(commands) \in Nat
    BY <1>1, <2>2, SegmentType
  <2>7. /\ output' \in [1..Len(commands) -> Seq(Seq(Character))]
        /\ output'[counter] = AllLines(Segment)
        /\ \A i \in 1..Len(commands) : i # counter => output'[i] = output[i]
    <3>1. output \in [1..Len(commands) -> Seq(Seq(Character))] /\ counter \in 1..Len(commands)
      BY <1>1 DEF State, TextTypes, RunTypes
    <3> QED BY <2>4, <2>5, <3>1
  <2>8. Segment' = <<>> /\ spoken[counter + 1] = <<>>
    BY <1>1, <1>3, <2>2, <2>5 DEF State, Segments, Segment
  <2>9. Len(spoken') = counter' /\ ~NextPrompt'
    BY <1>3, <2>2, <2>5, <2>6 DEF NextPrompt
  <2>10. RunTypes'
    BY <1>1, <1>3, <2>5, <2>6 DEF State, RunTypes
  <2>11. TextTypes'
    BY <1>1, <1>3, <2>5, <2>7, EmptySeq DEF State, TextTypes
  <2>12. Segments'
    <3>1. \A i \in 1..(counter' - 1) : output'[i] = AllLines(spoken'[i])
      <4> SUFFICES ASSUME NEW i \in 1..counter
                   PROVE  output'[i] = AllLines(spoken[i])
        BY <1>3, <2>5, <2>6
      <4>1. CASE i = counter
        BY <2>7, <4>1 DEF Segment
      <4>2. CASE i # counter
        <5>1. i \in 1..(counter - 1) /\ i \in 1..Len(commands)
          BY <2>6, <4>2
        <5>2. output[i] = AllLines(spoken[i])
          BY <1>1, <5>1 DEF State, Segments
        <5> QED BY <2>7, <4>2, <5>1, <5>2
      <4> QED BY <4>1, <4>2
    <3>2. \A i \in (counter' + 1)..Len(commands') : output'[i] = <<>>
      <4> SUFFICES ASSUME NEW i \in (counter + 2)..Len(commands)
                   PROVE  output'[i] = <<>>
        BY <1>3, <2>5, <2>6
      <4>1. i \in (counter + 1)..Len(commands) /\ i \in 1..Len(commands) /\ i # counter
        BY <2>6
      <4>2. output[i] = <<>>
        BY <1>1, <4>1 DEF State, Segments
      <4> QED BY <2>7, <4>1, <4>2
    <3>3. \A j \in 1..Len(Segment') : Segment'[j] = PromptEnd => j = Len(Segment') /\ NextPrompt'
      BY <2>8
    <3> QED BY <2>9, <3>1, <3>2, <3>3 DEF Segments
  <2>13. Booting'
    BY <1>3, <1>5 DEF Booting
  <2>14. Ready'
    <3>1. machine.state = "ready" => machine.envs # <<>> /\ input = <<>>
      BY <1>1, <2>2 DEF State, Ready
    <3>2. rest' # <<Newline>> /\ ~Unsent'
      <4>1. Len(<<>>) # 2 /\ <<>> # <<Newline>>
        OBVIOUS
      <4> QED BY <1>3, <4>1 DEF Unsent
    <3>3. \A i \in 1..Len(<<>>) : <<>>[i] = Newline => i = Len(<<>>)
      OBVIOUS
    <3> QED BY <1>3, <3>1, <3>2, <3>3 DEF Ready
  <2>15. Places'
    BY <1>3, <2>5, <2>8, <2>9 DEF Places, Got
  <2>16. Ends'
    BY <1>1, <1>3, <2>5 DEF State, Ends, Got
  <2>17. Received(0, 0)'
    <3>1. Flowing(<<>>, queue, tty, 0)
      <4>1. Flowing(Segment, queue, tty, Len(Segment)) /\ Segment \in Seq(Character)
        BY <1>1, <1>2, <2>2, SegmentType DEF Received
      <4>2. queue \in Seq(Seq(Character))
        BY <1>1 DEF State, TextTypes
      <4> QED BY <4>1, <4>2, FlowAnew
    <3>2. output'[counter'] = <<>>
      <4>1. counter + 1 \in (counter + 1)..Len(commands) /\ counter + 1 # counter
        BY <2>6
      <4>2. output[counter + 1] = <<>>
        BY <1>1, <4>1 DEF State, Segments
      <4> QED BY <2>5, <2>6, <2>7, <4>1, <4>2
    <3>3. ~Got("match")' /\ Len(<<>>) = 0 /\ 0 \in 0..0 /\ 1..0 = {}
      BY <2>5 DEF Got
    <3> QED BY <1>3, <2>2, <2>5, <2>8, <3>1, <3>2, <3>3, NothingIsCut DEF Received
  <2>18. pc' # "init"
    BY <2>5
  <2> QED BY <1>4, <2>10, <2>11, <2>12, <2>13, <2>14, <2>15, <2>16, <2>17, <2>18 DEF State, Started
<1> QED
  BY <1>6, <1>7

(* The last command ends when nothing more can come.                       *)
LEMMA ShutDownInv ==
  ASSUME Started, ShutDown
  PROVE  Started'
<1>1. State /\ ListInv
  BY DEF Started
<1>2. PICK k, b : Received(k, b)
  BY DEF Started
<1>3. /\ pc = "answered" /\ rest = <<>> /\ Command.prompt = None /\ pc' = "close"
      /\ rest' = rest /\ answer' = answer
      /\ step' = step /\ commands' = commands /\ reader' = reader
      /\ queue' = queue /\ buffer' = buffer /\ readStatus' = readStatus
      /\ tty' = tty /\ input' = input /\ machine' = machine /\ spoken' = spoken
      /\ UNCHANGED listVars
  BY DEF ShutDown, Answered, listVars, expect, world
<1>4. ListInv'
  BY <1>1, <1>3, ListStays
<1>5. machine.state # "booting"
  BY <1>1, <1>3 DEF State, Booting
<1>6. /\ counter \in 1..Len(commands) /\ Len(commands) \in Nat
      /\ \A i \in 1..(Len(commands) - 1) : commands[i].prompt # None
  <2>1. commands \in Seq(CommandRecord) /\ counter \in 1..Len(commands)
        /\ \A i \in 1..(Len(commands) - 1) : commands[i].prompt # None
    BY <1>1 DEF ListInv, ListTypeOK, LastPrompt, State, RunTypes
  <2> QED BY <2>1
<1>7. counter = Len(commands)
  <2>1. counter \notin 1..(Len(commands) - 1)
    BY <1>3, <1>6 DEF Command
  <2> QED BY <1>6, <2>1
<1>8. Got("timeout") \/ Got("eof")
  <2>1. ~Got("match")
    BY <1>1, <1>3, <1>6, <1>7 DEF State, Places
  <2> QED BY <1>1, <1>3, <2>1 DEF State, RunTypes, Places, Got
<1>9. queue = <<>> /\ tty = <<>>
  BY <1>1, <1>8 DEF State, Places, Ends, Silent
<1>10. k = Len(Segment)
  BY <1>1, <1>2, <1>9, FlowEnd, SegmentType DEF Received
<1>11. ~Judged
  BY <1>3 DEF Judged
<1> DEFINE out == output[counter] \o (IF partial = <<>> THEN <<>> ELSE <<OutputLine(partial)>>)
<1>12. out = AllLines(Segment) /\ out \in Seq(Seq(Character))
  BY <1>1, <1>2, <1>10, <1>11, FinishedOutput
<1>13. output' = [output EXCEPT ![counter] = out] /\ counter' = counter /\ partial' = partial
  BY <1>7, <1>6 DEF ShutDown, FinishCommand
<1> HIDE DEF out
<1>14. /\ output' \in [1..Len(commands) -> Seq(Seq(Character))]
       /\ output'[counter] = AllLines(Segment)
       /\ \A i \in 1..Len(commands) : i # counter => output'[i] = output[i]
  <2>1. output \in [1..Len(commands) -> Seq(Seq(Character))]
    BY <1>1 DEF State, TextTypes
  <2> QED BY <1>6, <1>12, <1>13, <2>1
<1>15. (NextPrompt' <=> NextPrompt) /\ Segment' = Segment
  BY <1>3, <1>13 DEF NextPrompt, Segment
<1>16. RunTypes' /\ TextTypes'
  BY <1>1, <1>3, <1>13, <1>14 DEF State, RunTypes, TextTypes
<1>17. Segments'
  <2>1. \A i \in 1..(counter' - 1) : output'[i] = AllLines(spoken'[i])
    <3> SUFFICES ASSUME NEW i \in 1..(counter - 1)
                 PROVE  output'[i] = AllLines(spoken[i])
      BY <1>3, <1>13
    <3>1. i \in 1..Len(commands) /\ i # counter
      BY <1>6
    <3>2. output[i] = AllLines(spoken[i])
      BY <1>1 DEF State, Segments
    <3> QED BY <1>14, <3>1, <3>2
  <2>2. \A i \in (counter' + 1)..Len(commands') : output'[i] = <<>>
    BY <1>3, <1>6, <1>7, <1>13
  <2>3. /\ Len(spoken') = counter' \/ NextPrompt'
        /\ NextPrompt' => spoken'[counter' + 1] = <<>>
        /\ \A j \in 1..Len(Segment') : Segment'[j] = PromptEnd => j = Len(Segment') /\ NextPrompt'
    BY <1>1, <1>3, <1>13, <1>15 DEF State, Segments
  <2> QED BY <2>1, <2>2, <2>3 DEF Segments
<1>18. Booting' /\ Ends' /\ Places'
  BY <1>1, <1>3, <1>5 DEF State, Booting, Ends, Places, Got
<1>19. Ready'
  <2>1. machine.state = "ready" => input = <<>>
    BY <1>1, <1>8, NoMoreInput
  <2>2. rest' # <<Newline>> /\ ~Unsent'
    <3>1. Len(<<>>) # 2 /\ <<>> # <<Newline>>
      OBVIOUS
    <3> QED BY <1>3, <3>1 DEF Unsent
  <2> QED BY <1>1, <1>3, <2>1, <2>2 DEF State, Ready
<1>20. Received(k, b)'
  <2>1. Judged' /\ ~Got("match")' /\ rest' # <<Newline>>
    <3>1. <<>> # <<Newline>>
      OBVIOUS
    <3> QED BY <1>3, <1>7, <1>13, <3>1 DEF Judged, Got
  <2>2. output'[counter'] = AllLines(Segment')
    BY <1>13, <1>14, <1>15
  <2>3. Flowing(Segment', queue', tty', k) /\ b \in 0..k /\ buffer' = Part(Segment', b, k) /\ k = Len(Segment')
    BY <1>2, <1>3, <1>10, <1>15 DEF Received
  <2> QED BY <2>1, <2>2, <2>3 DEF Received
<1> QED
  BY <1>3, <1>4, <1>16, <1>17, <1>18, <1>19, <1>20 DEF State, Started

(* A run that starts has printed and received nothing.                     *)
LEMMA StartInv ==
  ASSUME pc = "init", ListInv, Unstarted, Start
  PROVE  Started'
<1>1. /\ step = "done" /\ pc' = "expect" /\ reader' = "reading" /\ counter' = 1 /\ rest' = <<>>
      /\ answer' = "none" /\ partial' = <<>> /\ buffer' = <<>> /\ readStatus' = "none"
      /\ queue' = <<>> /\ tty' = <<>> /\ input' = <<>>
      /\ step' = step /\ commands' = commands /\ UNCHANGED listVars
      /\ output' = [i \in DOMAIN commands |-> <<>>]
  BY DEF Start, Unstarted, listVars, expect
<1>2. machine' = [state |-> "booting", envs |-> <<>>, typed |-> <<>>]
  BY DEF Start, Unstarted
<1>3. spoken' = <<<<>>>>
  BY DEF Start
<1>4. ListInv'
  BY <1>1, ListStays
<1>5. commands \in Seq(CommandRecord) /\ commands # <<>>
  BY <1>1 DEF ListInv, ListTypeOK, LastPrompt
<1>6. 1 \in 1..Len(commands) /\ DOMAIN commands = 1..Len(commands)
  BY <1>5
<1>7. Segment' = <<>> /\ Len(spoken') = 1 /\ ~NextPrompt'
  BY <1>1, <1>3 DEF Segment, NextPrompt
<1>8. RunTypes'
  BY <1>1, <1>6 DEF RunTypes, Rests
<1>9. \A i \in 1..Len(commands) : output'[i] = <<>>
  BY <1>1, <1>6
<1>10. TextTypes'
  <2>1. output' \in [1..Len(commands) -> Seq(Seq(Character))]
    BY <1>1, <1>6, EmptySeq
  <2>2. spoken' \in Seq(Seq(Character))
    <3>1. <<>> \in Seq(Character)
      BY EmptySeq
    <3> QED BY <1>3, <3>1
  <2>3. machine' \in Machines
    BY <1>2, EmptySeq DEF Machines
  <2> QED BY <1>1, <2>1, <2>2, <2>3, EmptySeq DEF TextTypes
<1>11. Segments'
  <2>1. \A i \in 1..(counter' - 1) : output'[i] = AllLines(spoken'[i])
    BY <1>1
  <2>2. \A i \in (counter' + 1)..Len(commands') : output'[i] = <<>>
    <3>1. \A i \in 2..Len(commands) : i \in 1..Len(commands)
      BY <1>5
    <3> QED BY <1>1, <1>9, <3>1
  <2>3. \A j \in 1..Len(Segment') : Segment'[j] = PromptEnd => j = Len(Segment') /\ NextPrompt'
    BY <1>7
  <2> QED BY <1>1, <1>7, <2>1, <2>2, <2>3 DEF Segments
<1>12. Booting' /\ Ready'
  BY <1>1, <1>2, <1>7 DEF Booting, Ready
<1>13. Places'
  <2>1. ~Got("timeout")' /\ ~Got("match")'
    BY <1>1 DEF Got
  <2> QED BY <1>1, <2>1 DEF Places
<1>14. Ends'
  BY <1>1 DEF Ends, Got
<1>15. Received(0, 0)'
  <2>1. Flowing(<<>>, <<>>, <<>>, 0)
    <3> DEFINE at == [i \in 0..0 |-> 0]
    <3>1. Len(<<>>) = 0 /\ Part(<<>>, 0, 0) = <<>>
      BY PartEmpty
    <3>2. /\ at \in [0..0 -> 0..0] /\ at[0] = 0
          /\ \A i, j \in 0..0 : i <= j => at[i] <= at[j]
      OBVIOUS
    <3>3. 0 \in 0..0 /\ 1..0 = {}
      OBVIOUS
    <3> HIDE DEF at
    <3>4. Flow(<<>>, <<>>, <<>>, 0, at)
      BY <3>1, <3>2, <3>3 DEF Flow
    <3> QED BY <3>4 DEF Flowing
  <2>2. output'[counter'] = <<>>
    BY <1>1, <1>6, <1>9
  <2>3. ~Judged' /\ ~Got("match")' /\ Len(<<>>) = 0 /\ 0 \in 0..0 /\ 1..0 = {}
    BY <1>1 DEF Judged, Got
  <2> QED BY <1>1, <1>7, <2>1, <2>2, <2>3, NothingIsCut DEF Received
<1> QED
  BY <1>1, <1>4, <1>8, <1>10, <1>11, <1>12, <1>13, <1>14, <1>15 DEF State, Started

-----------------------------------------------------------------------------
(* The theorem.                                                            *)

LEMMA InitInv == Init => Inv
<1> SUFFICES ASSUME Init
             PROVE  Inv
  OBVIOUS
<1>1. ListInv
  BY ListInitInv DEF Init
<1> QED
  BY <1>1 DEF Init, Inv, Unstarted

LEMMA MakeListInv ==
  ASSUME Inv, MakeList
  PROVE  Inv'
<1>1. ListInv
  BY DEF Inv, Started
<1>2. ListNext /\ UNCHANGED <<run, record, expect, queue, reader, tty, world>>
  BY DEF MakeList
<1>3. CASE Started
  <2>1. step = "done"
    BY <1>3 DEF Started, State, RunTypes
  <2>2. ~ListNext
    BY <2>1 DEF ListNext, Check, LoopsExceeded, KernelLeft, CleanUp, BadLine, ChangeEnvironment, TakeLine, Loop
  <2> QED BY <1>2, <2>2
<1>4. CASE pc = "init" /\ Unstarted
  <2>1. pc' = "init" /\ Unstarted'
    BY <1>2, <1>4 DEF Unstarted, run, record, expect, world
  <2>2. ListInv'
    BY <1>1, <1>2, ListStepInv
  <2> QED BY <2>1, <2>2 DEF Inv
<1> QED
  BY <1>3, <1>4 DEF Inv

LEMMA RunInv ==
  ASSUME Inv, Run
  PROVE  Inv'
<1>1. CASE pc = "init"
  <2>1. ListInv /\ Unstarted
    BY <1>1 DEF Inv, Started
  <2>2. Start
    BY <1>1 DEF Run, Start, Type, SendCharacter, Expect, ReadData, TimeOut, Echoed, NotEchoed,
                Prompted, ShutDown, Close, Drain, Drained, Answered
  <2>3. Started'
    BY <1>1, <2>1, <2>2, StartInv
  <2> QED BY <2>3 DEF Inv
<1>2. CASE pc # "init"
  <2>1. Started
    BY <1>2 DEF Inv
  <2>2. ~Start
    BY <1>2 DEF Start
  <2>3. CASE Type
    BY <2>1, <2>3, TypeInv DEF Inv
  <2>4. CASE SendCharacter
    BY <2>1, <2>4, SendCharacterInv DEF Inv
  <2>5. CASE Expect
    BY <2>1, <2>5, ExpectInv DEF Inv
  <2>6. CASE ReadData
    BY <2>1, <2>6, ReadDataInv DEF Inv
  <2>7. CASE TimeOut
    BY <2>1, <2>7, TimeOutInv DEF Inv
  <2>8. CASE Echoed
    BY <2>1, <2>8, EchoedInv DEF Inv
  <2>9. CASE NotEchoed
    BY <2>1, <2>9, NotEchoedInv DEF Inv
  <2>10. CASE Prompted
    BY <2>1, <2>10, PromptedInv DEF Inv
  <2>11. CASE ShutDown
    BY <2>1, <2>11, ShutDownInv DEF Inv
  <2>12. CASE Close
    BY <2>1, <2>12, CloseInv DEF Inv
  <2>13. CASE Drain
    BY <2>1, <2>13, DrainInv DEF Inv
  <2>14. CASE Drained
    BY <2>1, <2>14, DrainedInv DEF Inv
  <2> QED
    BY <2>2, <2>3, <2>4, <2>5, <2>6, <2>7, <2>8, <2>9, <2>10, <2>11, <2>12, <2>13, <2>14 DEF Run
<1> QED
  BY <1>1, <1>2

LEMMA EnvironmentInv ==
  ASSUME Inv, Reader \/ Machine
  PROVE  Inv'
<1>1. CASE pc = "init" /\ Unstarted
  <2>1. reader = "none" /\ machine.state = "off"
    BY <1>1 DEF Unstarted
  <2>2. ~Reader
    BY <2>1 DEF Reader, Read, ReadEof
  <2>3. ~Machine
    BY <2>1 DEF Machine, Boots, LosesCharacter, Echoes, Executes, Taken
  <2> QED BY <2>2, <2>3
<1>2. CASE Started
  BY <1>2, ReaderInv, MachineInv DEF Inv
<1> QED
  BY <1>1, <1>2 DEF Inv

LEMMA StutterInv ==
  ASSUME Inv, UNCHANGED vars
  PROVE  Inv'
<1>1. UNCHANGED <<listVars, run, record, expect, queue, reader, tty, world>>
  BY DEF vars
<1>2. ListInv'
  BY <1>1, ListStays DEF Inv, Started
<1>3. CASE pc = "init" /\ Unstarted
  <2>1. pc' = "init" /\ Unstarted'
    BY <1>1, <1>3 DEF Unstarted, run, record, expect, world
  <2> QED BY <1>2, <2>1 DEF Inv
<1>4. CASE Started
  <2>1. State /\ pc # "init"
    BY <1>4 DEF Started
  <2>2. PICK k, b : Received(k, b)
    BY <1>4 DEF Started
  <2>3. /\ pc' = pc /\ rest' = rest /\ answer' = answer
        /\ UNCHANGED <<listVars, counter, record, expect, queue, reader, tty, world>>
    BY <1>1 DEF run
  <2>4. /\ counter' = counter /\ step' = step /\ commands' = commands /\ reader' = reader
        /\ output' = output /\ partial' = partial /\ queue' = queue
        /\ buffer' = buffer /\ readStatus' = readStatus
        /\ tty' = tty /\ input' = input /\ machine' = machine /\ spoken' = spoken
        /\ (NextPrompt' <=> NextPrompt) /\ Segment' = Segment
        /\ TextTypes' /\ Segments'
    BY <2>1, <2>3, WorldStays
  <2>5. RunTypes' /\ Booting' /\ Ready'
    BY <2>1, <2>3, <2>4 DEF State, RunTypes, Booting, Ready, Unsent, Got
  <2>6. Places' /\ Ends'
    BY <2>1, <2>3, <2>4 DEF State, Places, Ends, Got, Silent, Pattern, Command
  <2>7. Received(k, b)'
    BY <2>2, <2>3, <2>4 DEF Received, Judged, Got
  <2> QED BY <1>2, <2>1, <2>3, <2>4, <2>5, <2>6, <2>7 DEF State, Started, Inv
<1> QED
  BY <1>3, <1>4 DEF Inv

LEMMA NextInv == Inv /\ [Next]_vars => Inv'
  BY MakeListInv, RunInv, EnvironmentInv, StutterInv DEF Next

(* At the end nothing is on its way, so all of the segment is cut.         *)
LEMMA WholeAtTheEnd == Inv => OutputIsWhole
<1> SUFFICES ASSUME Inv, pc = "done",
                    NEW i \in DOMAIN spoken, spoken[i] # <<>> \/ i <= counter
             PROVE  output[i] = IF Finished(i) THEN AllLines(spoken[i]) ELSE LinesOf(spoken[i])
  BY DEF OutputIsWhole
<1>1. State /\ Started
  BY DEF Inv, Started
<1>2. PICK k, b : Received(k, b)
  BY <1>1 DEF Started
<1>3. /\ Segment \in Seq(Character) /\ Len(Segment) \in Nat
      /\ counter \in Nat \ {0} /\ Len(spoken) \in Nat /\ Len(commands) \in Nat
      /\ counter <= Len(spoken) /\ counter <= Len(commands)
  BY <1>1, SegmentType
<1>4. i \in 1..Len(spoken) /\ i <= counter
  <2>1. i \in 1..Len(spoken)
    BY <1>1 DEF State, TextTypes
  <2>2. Len(spoken) = counter \/ (Len(spoken) = counter + 1 /\ spoken[counter + 1] = <<>>)
    BY <1>1 DEF State, Segments, NextPrompt
  <2>3. i = counter + 1 => Len(spoken) = counter + 1
    BY <1>3, <2>1, <2>2
  <2>4. i # counter + 1
    BY <1>3, <2>2, <2>3
  <2> QED BY <1>3, <2>1, <2>2, <2>4
<1>5. queue = <<>> /\ tty = <<>>
  BY <1>1 DEF State, Ends
<1>6. k = Len(Segment)
  BY <1>2, <1>3, <1>5, FlowEnd DEF Received
<1>7. CASE i < counter
  <2>1. i \in 1..(counter - 1)
    BY <1>3, <1>4, <1>7
  <2>2. output[i] = AllLines(spoken[i])
    BY <1>1, <2>1 DEF State, Segments
  <2> QED BY <1>7, <2>2 DEF Finished
<1>8. CASE i = counter
  <2>1. Finished(i) <=> Judged
    BY <1>3, <1>8 DEF Finished, Judged
  <2>2. spoken[i] = Segment
    BY <1>8 DEF Segment
  <2>3. CASE Judged
    BY <1>2, <1>8, <2>1, <2>2, <2>3 DEF Received
  <2>4. CASE ~Judged
    <3>1. Part(Segment, 0, k) = Segment
      BY <1>3, <1>6, PartFull
    <3>2. Cut(Segment, [lines |-> output[counter], text |-> partial], Character)
      BY <1>2, <2>4, <3>1 DEF Received
    <3>3. output[counter] \in Seq(Seq(Character)) /\ IsCut(Segment, output[counter], partial)
      BY <3>2 DEF Cut
    <3>4. output[counter] = LinesOf(Segment)
      BY <1>3, <3>3, CutIsLines
    <3> QED BY <1>8, <2>1, <2>2, <2>4, <3>4
  <2> QED BY <2>3, <2>4
<1> QED
  BY <1>3, <1>4, <1>7, <1>8

(* The output of a command is what the machine printed for it, line by     *)
(* line: Recv (logger.go:10) cuts it wherever the newlines are, and        *)
(* neither the reads of the terminal, nor a character that sendCommand     *)
(* (run.go:573) sends again, nor the death of the machine moves a line to  *)
(* another command, loses one or doubles one.                              *)
THEOREM OutputsAreWhole == Spec => []OutputIsWhole
<1>1. Init => Inv
  BY InitInv
<1>2. Inv /\ [Next]_vars => Inv'
  BY NextInv
<1>3. Inv => OutputIsWhole
  BY WholeAtTheEnd
<1> QED
  BY <1>1, <1>2, <1>3, PTL DEF Spec
-----------------------------------------------------------------------------
(* What a list of commands is refused for.                                 *)

Exit == EndLine(KernelConf)
Possible(l) == l.name # None /\ ConfOf(l) # NoConf /\ Enterable(ConfOf(l))

LEMMA AllEnvironments ==
  ASSUME test \in Tests
  PROVE  /\ Confs \in Seq(Environment) /\ AllConfs \in Seq(Environment)
         /\ Range(AllConfs) \subseteq Environment
         /\ KernelConf \in Range(AllConfs) /\ ShellConf \in Range(AllConfs)
         /\ \A i \in DOMAIN Confs : Confs[i] \in Range(AllConfs)
         /\ \A c \in Range(AllConfs) : c = KernelConf \/ c = ShellConf \/ \E i \in DOMAIN Confs : c = Confs[i]
<1>1. PICK confs \in Seq(Environment) : confs = Confs
  BY TestsAssumption DEF Confs
<1>2. PICK sc \in Environment, kc \in Environment : sc = ShellConf /\ kc = KernelConf
  BY EnvironmentTypes
<1>3. PICK n \in Nat : n = Len(confs)
  BY LenProperties
<1>4. PICK all \in Seq(Environment) :
        /\ all = confs \o <<sc, kc>> /\ Len(all) = n + 2
        /\ \A i \in 1..(n + 2) : all[i] = IF i <= n THEN confs[i] ELSE <<sc, kc>>[i - n]
  <2>1. <<sc, kc>> \in Seq(Environment) /\ Len(<<sc, kc>>) = 2
    OBVIOUS
  <2>2. /\ confs \o <<sc, kc>> \in Seq(Environment)
        /\ Len(confs \o <<sc, kc>>) = Len(confs) + 2
        /\ \A i \in 1..(Len(confs) + 2) : (confs \o <<sc, kc>>)[i] = IF i <= Len(confs) THEN confs[i] ELSE <<sc, kc>>[i - Len(confs)]
    BY <2>1, ConcatProperties
  <2> QED BY <1>3, <2>2
<1>5. all = AllConfs
  BY <1>1, <1>2, <1>4 DEF AllConfs
<1>6. DOMAIN confs = 1..n /\ DOMAIN all = 1..(n + 2)
  BY <1>3, <1>4
<1>7. Range(all) = {all[i] : i \in 1..(n + 2)}
  BY <1>6 DEF Range
<1>8. Range(all) \subseteq Environment
  BY <1>6, <1>7
<1>9. all[n + 1] = ShellConf /\ all[n + 2] = KernelConf /\ n + 1 \in 1..(n + 2) /\ n + 2 \in 1..(n + 2)
  <2>1. /\ n + 1 \in 1..(n + 2) /\ n + 2 \in 1..(n + 2) /\ ~(n + 1 <= n) /\ ~(n + 2 <= n)
        /\ (n + 1) - n = 1 /\ (n + 2) - n = 2 /\ <<sc, kc>>[1] = sc /\ <<sc, kc>>[2] = kc
    OBVIOUS
  <2>2. all[n + 1] = <<sc, kc>>[1] /\ all[n + 2] = <<sc, kc>>[2]
    BY <1>4, <2>1
  <2> QED BY <1>2, <2>1, <2>2
<1>10. \A i \in 1..n : i \in 1..(n + 2) /\ all[i] = confs[i]
  BY <1>4
<1>11. \A i \in 1..(n + 2) : i \in 1..n \/ i = n + 1 \/ i = n + 2
  OBVIOUS
<1>12. \A c \in Range(all) : c = KernelConf \/ c = ShellConf \/ \E i \in 1..n : c = confs[i]
  BY <1>7, <1>9, <1>10, <1>11
<1> QED
  BY <1>1, <1>5, <1>6, <1>7, <1>8, <1>9, <1>10, <1>12

LEMMA FirstIs ==
  ASSUME NEW confs \in Seq(Environment), NEW some \in SUBSET (DOMAIN confs), FirstOf(confs, some) # NoConf
  PROVE  \E i \in some : FirstOf(confs, some) = confs[i]
<1>1. some # {} /\ FirstOf(confs, some) = confs[Min(some)]
  BY DEF FirstOf
<1>2. some \subseteq Nat
  BY LenProperties
<1>3. Min(some) \in some
  BY <1>1, <1>2, MinIsLeast, Zenon
<1> QED
  BY <1>1, <1>3

LEMMA FirstExists ==
  ASSUME NEW confs \in Seq(Environment), NEW some \in SUBSET (DOMAIN confs), some # {}
  PROVE  FirstOf(confs, some) # NoConf
<1>1. FirstOf(confs, some) = confs[Min(some)]
  BY DEF FirstOf
<1>2. some \subseteq Nat
  BY LenProperties
<1>3. Min(some) \in some
  BY <1>2, MinIsLeast, Zenon
<1>4. confs[Min(some)] \in Environment
  BY <1>3, ElementOfSeq
<1> QED
  BY <1>1, <1>4, TestsAssumption

(* The environment of a line is one of the test, and has its prefix.       *)
LEMMA ConfOfLine ==
  ASSUME test \in Tests, NEW l, ConfOf(l) # NoConf
  PROVE  ConfOf(l) \in Range(AllConfs) /\ ConfOf(l).prefix = l.prefix
<1>1. KernelConf.prefix = None /\ ShellConf.prefix = "$"
  BY DEF KernelConf, ShellConf
<1> DEFINE some == {i \in DOMAIN Confs : Confs[i].prefix = l.prefix}
<1>2. CASE l.prefix # None /\ l.prefix # "$"
  <2>1. ConfOf(l) = FirstOf(Confs, some)
    BY <1>2 DEF ConfOf
  <2>2. some \in SUBSET (DOMAIN Confs) /\ \A i \in some : i \in DOMAIN Confs /\ Confs[i].prefix = l.prefix
    OBVIOUS
  <2> HIDE DEF some
  <2>3. PICK i \in some : FirstOf(Confs, some) = Confs[i]
    BY <2>1, <2>2, AllEnvironments, FirstIs, Zenon
  <2> QED BY <2>1, <2>2, <2>3, AllEnvironments
<1>3. CASE l.prefix = None
  BY <1>1, <1>3, AllEnvironments DEF ConfOf
<1>4. CASE l.prefix = "$" /\ l.prefix # None
  BY <1>1, <1>4, AllEnvironments DEF ConfOf
<1> QED
  BY <1>2, <1>3, <1>4

(* Valid environments have prefixes of their own.                          *)
LEMMA ConfOfPrefix ==
  ASSUME test \in Tests, ConfsValid(Confs), NEW c \in Range(AllConfs), NEW l, l.prefix = c.prefix
  PROVE  ConfOf(l) = c
<1>1. KernelConf.prefix = None /\ ShellConf.prefix = "$" /\ "$" # None
  BY DEF KernelConf, ShellConf, None
<1>2. CASE c = KernelConf
  BY <1>1, <1>2 DEF ConfOf
<1>3. CASE c = ShellConf
  BY <1>1, <1>3 DEF ConfOf
<1>4. ASSUME NEW i \in DOMAIN Confs, c = Confs[i]
      PROVE  ConfOf(l) = c
  <2> DEFINE some == {j \in DOMAIN Confs : Confs[j].prefix = l.prefix}
  <2>1. l.prefix # None /\ l.prefix # "$"
    BY <1>4 DEF ConfsValid
  <2>2. ConfOf(l) = FirstOf(Confs, some)
    BY <2>1 DEF ConfOf
  <2>3. some \in SUBSET (DOMAIN Confs) /\ i \in some
        /\ \A j \in some : j \in DOMAIN Confs /\ Confs[j].prefix = Confs[i].prefix
    BY <1>4
  <2> HIDE DEF some
  <2>4. FirstOf(Confs, some) # NoConf
    BY <2>3, AllEnvironments, FirstExists, Zenon
  <2>5. PICK j \in some : FirstOf(Confs, some) = Confs[j]
    BY <2>3, <2>4, AllEnvironments, FirstIs, Zenon
  <2>6. DOMAIN Confs = 1..Len(Confs) /\ Len(Confs) \in Nat
    BY AllEnvironments
  <2>7. ~(j < i) /\ ~(i < j)
    <3>1. j < i => j \in 1..(i - 1)
      BY <2>3, <2>6
    <3>2. i < j => i \in 1..(j - 1)
      BY <2>3, <2>6
    <3> QED BY <2>3, <3>1, <3>2 DEF ConfsValid
  <2>8. j = i
    BY <2>3, <2>6, <2>7
  <2> QED BY <1>4, <2>2, <2>5, <2>8
<1> QED
  BY <1>2, <1>3, <1>4, AllEnvironments

LEMMA StarterIs ==
  ASSUME test \in Tests, NEW l, StartedBy(l) # NoConf
  PROVE  StartedBy(l) \in Range(AllConfs) /\ StartedBy(l).start = l
<1> DEFINE some == {i \in DOMAIN AllConfs : AllConfs[i].start = l}
<1>1. StartedBy(l) = FirstOf(AllConfs, some)
  BY DEF StartedBy
<1>2. some \in SUBSET (DOMAIN AllConfs) /\ \A i \in some : i \in DOMAIN AllConfs /\ AllConfs[i].start = l
  OBVIOUS
<1> HIDE DEF some
<1>3. PICK i \in some : FirstOf(AllConfs, some) = AllConfs[i]
  BY <1>1, <1>2, AllEnvironments, FirstIs, Zenon
<1>4. AllConfs[i] \in Range(AllConfs)
  BY <1>2, <1>3 DEF Range
<1> QED
  BY <1>1, <1>2, <1>3, <1>4

LEMMA ValidNames ==
  ASSUME test \in Tests, ConfsValid(Confs), NEW c \in Range(AllConfs)
  PROVE  /\ c.end.name # None
         /\ c # KernelConf => c.prefix # None /\ c.start.name # None
<1>1. None \notin Word /\ {"s", "q", "exit"} \subseteq Word
  BY TestsAssumption
<1>2. CASE c = KernelConf
  BY <1>1, <1>2 DEF KernelConf, Line
<1>3. CASE c = ShellConf
  BY <1>1, <1>3 DEF ShellConf, Line, None
<1>4. ASSUME NEW i \in DOMAIN Confs, c = Confs[i]
      PROVE  c.end.name # None /\ c.prefix # None /\ c.start.name # None
  BY <1>4 DEF ConfsValid
<1> QED
  BY <1>2, <1>3, <1>4, AllEnvironments

(* The environments that can be entered are the least set that holds the   *)
(* kernel's and what is entered from one of its own.                       *)
LEMMA EnterableSet ==
  ASSUME test \in Tests
  PROVE  /\ Enterable(KernelConf)
         /\ \A c \in Range(AllConfs) : Entered(c) /\ Enterable(ConfOf(c.start)) => Enterable(c)
         /\ \A c \in Range(AllConfs) : Enterable(c) =>
              c = KernelConf \/ (Entered(c) /\ Enterable(ConfOf(c.start)))
<1>1. Enterable(KernelConf)
  BY DEF Enterable
<1>2. ASSUME NEW c \in Range(AllConfs), Entered(c), Enterable(ConfOf(c.start))
      PROVE  Enterable(c)
  <2> SUFFICES ASSUME NEW some \in SUBSET Range(AllConfs), KernelConf \in some,
                      \A d \in Range(AllConfs) : Entered(d) /\ ConfOf(d.start) \in some => d \in some
               PROVE  c \in some
    BY DEF Enterable
  <2>1. ConfOf(c.start) \in some
    BY <1>2, Zenon DEF Enterable
  <2> QED BY <1>2, <2>1
<1>3. ASSUME NEW c \in Range(AllConfs), Enterable(c)
      PROVE  c = KernelConf \/ (Entered(c) /\ Enterable(ConfOf(c.start)))
  <2> DEFINE known == {d \in Range(AllConfs) : d = KernelConf \/ (Entered(d) /\ Enterable(ConfOf(d.start)))}
  <2>1. KernelConf \in known /\ known \in SUBSET Range(AllConfs)
    BY AllEnvironments
  <2>2. \A d \in known : Enterable(d)
    BY <1>1, <1>2
  <2>3. \A d \in Range(AllConfs) : Entered(d) /\ ConfOf(d.start) \in known => d \in known
    BY <2>2
  <2>4. c \in known
    <3> HIDE DEF known
    <3> QED BY <1>3, <2>1, <2>3, Zenon DEF Enterable
  <2> QED BY <2>4
<1> QED
  BY <1>1, <1>2, <1>3

(* What a test is, it stays.                                               *)
LEMMA TestStays ==
  ASSUME test' = test
  PROVE  /\ Confs' = Confs /\ Range(AllConfs)' = Range(AllConfs) /\ Asked' = Asked
         /\ (ConfsValid(Confs)' <=> ConfsValid(Confs))
         /\ \A l : ConfOf(l)' = ConfOf(l)
         /\ \A c : Enterable(c)' <=> Enterable(c)
         /\ \A l : Possible(l)' <=> Possible(l)
         /\ Expandable' <=> Expandable
<1>1. Confs' = Confs /\ AllConfs' = AllConfs /\ Asked' = Asked
  BY DEF Confs, AllConfs, Asked
<1>2. Range(AllConfs)' = Range(AllConfs) /\ (ConfsValid(Confs)' <=> ConfsValid(Confs))
  BY <1>1
<1>3. ASSUME NEW l
      PROVE  ConfOf(l)' = ConfOf(l) /\ StartedBy(l)' = StartedBy(l)
  <2>1. {i \in DOMAIN Confs' : Confs'[i].prefix = l.prefix} = {i \in DOMAIN Confs : Confs[i].prefix = l.prefix}
    BY <1>1
  <2>2. {i \in DOMAIN AllConfs' : AllConfs'[i].start = l} = {i \in DOMAIN AllConfs : AllConfs[i].start = l}
    BY <1>1
  <2>3. StartedBy(l)' = StartedBy(l)
    BY <1>1, <2>2, Zenon DEF StartedBy
  <2>4. FirstOf(Confs', {i \in DOMAIN Confs' : Confs'[i].prefix = l.prefix})
          = FirstOf(Confs, {i \in DOMAIN Confs : Confs[i].prefix = l.prefix})
    BY <1>1, <2>1, Zenon
  <2>5. ConfOf(l)' = ConfOf(l)
    BY <2>4 DEF ConfOf
  <2> QED BY <2>3, <2>5
<1>4. ASSUME NEW c
      PROVE  Entered(c)' <=> Entered(c)
  BY <1>3, Zenon DEF Entered
<1>5. ASSUME NEW c
      PROVE  Enterable(c)' <=> Enterable(c)
  BY <1>2, <1>3, <1>4, Zenon DEF Enterable
<1>6. ASSUME NEW l
      PROVE  Possible(l)' <=> Possible(l)
  BY <1>3, <1>5, Zenon DEF Possible
<1>7. Expandable' <=> Expandable
  BY <1>1, <1>2, <1>3, <1>5, Zenon DEF Expandable
<1> QED
  BY <1>1, <1>2, <1>3, <1>5, <1>6, <1>7

(* What is expanded is some lines that were put in, and the rest of what   *)
(* the test asks for.                                                      *)
Remains(all, pre, s, k) == all = pre \o Part(s, k, Len(s))

LEMMA FrontOf ==
  ASSUME NEW S, NEW pre \in Seq(S), NEW s \in Seq(S), NEW k \in 0..Len(s), NEW all,
         Remains(all, pre, s, k)
  PROVE  /\ all = <<>> => pre = <<>> /\ k = Len(s)
         /\ all # <<>> =>
              \/ /\ pre # <<>> /\ Tail(pre) \in Seq(S) /\ Head(all) = pre[1] /\ 1 \in 1..Len(pre)
                 /\ Remains(Tail(all), Tail(pre), s, k)
              \/ /\ pre = <<>> /\ k + 1 \in 1..Len(s) /\ Head(all) = s[k + 1]
                 /\ Remains(Tail(all), <<>>, s, k + 1)
<1> USE DEF Remains
<1>1. PICK n \in Nat : n = Len(s)
  BY LenProperties
<1>2. k \in Nat /\ k <= n /\ n <= Len(s)
  BY <1>1
<1>3. /\ Part(s, k, n) \in Seq(S) /\ Len(Part(s, k, n)) = n - k
      /\ k < n => Part(s, k + 1, n) \in Seq(S) /\ k + 1 \in Nat
  <2>1. k < n => k + 1 \in Nat /\ k + 1 <= n
    BY <1>2
  <2>2. Part(s, k, n) \in Seq(S) /\ Len(Part(s, k, n)) = n - k
    BY <1>2, PartProps, Zenon
  <2>3. k < n => Part(s, k + 1, n) \in Seq(S)
    BY <1>1, <1>2, <2>1, PartProps, Zenon
  <2> QED BY <2>1, <2>2, <2>3
<1> DEFINE rest1 == Part(s, k, n)
<1>4. CASE pre = <<>>
  <2>1. all = rest1
    BY <1>1, <1>3, <1>4, ConcatEmptySeq
  <2>2. CASE k = n
    <3>1. rest1 = <<>>
      BY <1>2, <2>2, PartEmpty
    <3> QED BY <1>1, <1>4, <2>1, <2>2, <3>1
  <2>3. CASE k < n
    <3>1. n \in (k + 1)..Len(s) /\ k + 1 \in 1..Len(s)
      BY <1>1, <1>2, <2>3
    <3>2. Head(rest1) = s[k + 1] /\ Tail(rest1) = Part(s, k + 1, n)
      <4>1. (k + 1) + 1 = k + 1 + 1
        OBVIOUS
      <4>2. Head(SubSeq(s, k + 1, n)) = s[k + 1] /\ Tail(SubSeq(s, k + 1, n)) = SubSeq(s, k + 1 + 1, n)
        BY <3>1, HeadTailOfSubSeq, Zenon
      <4> QED BY <4>1, <4>2 DEF Part
    <3>3. <<>> \o Part(s, k + 1, n) = Part(s, k + 1, n)
      BY <1>3, <2>3, ConcatEmptySeq
    <3>4. rest1 # <<>>
      <4>1. n - k > 0 /\ Len(<<>>) = 0
        BY <1>2, <2>3
      <4> HIDE DEF rest1
      <4> QED BY <1>2, <1>3, <2>3, <4>1 DEF rest1
    <3> QED BY <1>1, <1>4, <2>1, <3>1, <3>2, <3>3, <3>4
  <2> HIDE DEF rest1
  <2>4. k = n \/ k < n
    BY <1>2
  <2> QED BY <2>2, <2>3, <2>4
<1>5. CASE pre # <<>>
  <2>1. Tail(pre) \in Seq(S) /\ 1 \in 1..Len(pre) /\ pre = <<pre[1]>> \o Tail(pre)
    <3>1. Tail(pre) \in Seq(S)
      BY <1>5, HeadTailProperties
    <3>2. 1 \in 1..Len(pre) /\ pre[1] \in S
      BY <1>5
    <3>3. pre = <<Head(pre)>> \o Tail(pre)
      BY <1>5
    <3> QED BY <1>5, <3>1, <3>2, <3>3
  <2>2. Head(pre \o rest1) = pre[1] /\ Tail(pre \o rest1) = Tail(pre) \o rest1 /\ pre \o rest1 # <<>>
    BY <1>5
  <2> QED BY <1>1, <1>3, <1>5, <2>1, <2>2
<1> QED
  BY <1>4, <1>5

Reached == {c \in Range(AllConfs) : Enterable(c)}
Typable == {l \in CommandLine : Possible(l)}

(* Of the lines that the test asks for, k are commands, and the lines pre  *)
(* were put in before the rest.                                            *)
Expanding(pre, k) ==
  /\ pre \in Seq(CommandLine) /\ k \in 0..Len(Asked)
  /\ Remains(lines, pre, Asked, k)
  /\ \A i \in 1..k : Asked[i] \in Typable /\ (Asked[i] = Exit => stack = <<>> /\ i = k)
  /\ Expandable =>
       /\ stack = <<>> => lines = <<>>
       /\ \A i \in 1..Len(pre) : pre[i] \in Typable
       /\ \A i \in 1..Len(pre) : pre[i] = Exit =>
            Len(pre) = 1 /\ k = Len(Asked) /\ stack # <<>> /\ Current = KernelConf

StackInv == \A i \in 1..Len(stack) : stack[i] \in Reached /\ (stack[i] = KernelConf <=> i = Len(stack))

RefusalInv ==
  /\ step = "failed" => ~Expandable
  /\ step = "done" => Expandable
  /\ step = "loop" => ConfsValid(Confs) /\ StackInv /\ \E pre, k : Expanding(pre, k)

LEMMA ReachedStays ==
  ASSUME test' = test
  PROVE  Reached' = Reached /\ Typable' = Typable
<1>1. Range(AllConfs)' = Range(AllConfs) /\ (\A c : Enterable(c)' <=> Enterable(c))
      /\ \A l : Possible(l)' <=> Possible(l)
  BY TestStays, Zenon
<1> QED
  BY <1>1 DEF Reached, Typable

LEMMA AskedType ==
  ASSUME test \in Tests
  PROVE  Asked \in Seq(CommandLine) /\ Len(Asked) \in Nat
<1>1. Asked \in Seq(CommandLine)
  BY SimplePrefixesType DEF Asked
<1> QED
  BY <1>1, LenProperties

(* The line that leaves the kernel is for the kernel, and no other is for  *)
(* it and has its name.                                                    *)
LEMMA ExitIs ==
  ASSUME test \in Tests
  PROVE  /\ Exit = Line(None, "q") /\ ConfOf(Exit) = KernelConf
         /\ \A l \in CommandLine : ConfOf(l) = KernelConf /\ l.name = KernelConf.end.name => l = Exit
         /\ KernelConf \in Reached
<1>1. Exit = Line(None, "q") /\ KernelConf.prefix = None /\ KernelConf.end.name = "q"
  BY DEF Exit, EndLine, KernelConf, Line
<1>2. ConfOf(Exit) = KernelConf
  <2>1. Exit.prefix = None /\ None # "$"
    BY <1>1 DEF Line, None
  <2> QED BY <2>1 DEF ConfOf
<1>3. ASSUME NEW l \in CommandLine, ConfOf(l) = KernelConf, l.name = "q"
      PROVE  l = Exit
  <2>1. KernelConf # NoConf
    BY EnvironmentTypes, TestsAssumption
  <2>2. l.prefix = None
    BY <1>1, <1>3, <2>1, ConfOfLine
  <2> QED BY <1>1, <1>3, <2>2 DEF CommandLine, Line
<1>4. KernelConf \in Reached
  BY EnterableSet, AllEnvironments DEF Reached
<1> QED
  BY <1>1, <1>2, <1>3, <1>4

(* What Expandable says, in these terms.                                   *)
LEMMA ExpandableMeans ==
  ASSUME test \in Tests
  PROVE  Expandable <=> /\ ConfsValid(Confs)
                        /\ \A i \in 1..Len(Asked) : Asked[i] \in Typable /\ (Asked[i] = Exit => i = Len(Asked))
<1>1. Asked \in Seq(CommandLine) /\ DOMAIN Asked = 1..Len(Asked)
  BY AskedType
<1>2. \A i \in 1..Len(Asked) : Asked[i] \in CommandLine
  BY <1>1
<1> QED
  BY <1>1, <1>2 DEF Expandable, Typable, Possible, Exit

(* Before the loop, all of the lines are asked for.                        *)
LEMMA CheckRefuses ==
  ASSUME ListInv, Check
  PROVE  RefusalInv'
<1>1. test \in Tests /\ test' = test
  BY DEF ListInv, ListTypeOK, Check
<1>2. CASE ~ConfsValid(Confs)
  <2>1. step' = "failed" /\ ~Expandable
    BY <1>2 DEF Check, Expandable
  <2>2. ~Expandable'
    BY <1>1, <2>1, TestStays
  <2> QED BY <2>1, <2>2 DEF RefusalInv
<1>3. CASE ConfsValid(Confs)
  <2>1. step' = "loop" /\ stack' = <<KernelConf>> /\ lines' = Asked
    BY <1>3 DEF Check, Asked
  <2>2. ConfsValid(Confs)' /\ Asked' = Asked /\ Reached' = Reached
    BY <1>1, <1>3, TestStays, ReachedStays
  <2>3. StackInv'
    <3>1. Len(stack') = 1 /\ stack'[1] = KernelConf
      BY <2>1
    <3> QED BY <1>1, <2>2, <3>1, ExitIs DEF StackInv
  <2>4. Expanding(<<>>, 0)'
    <3>1. Asked \in Seq(CommandLine) /\ Len(Asked) \in Nat
      BY <1>1, AskedType
    <3>2. Remains(Asked, <<>>, Asked, 0)
      BY <3>1, PartFull, ConcatEmptySeq DEF Remains
    <3>3. stack' # <<>> /\ Len(<<>>) = 0 /\ 1..0 = {} /\ 0 \in 0..Len(Asked)
      BY <2>1, <3>1
    <3> QED BY <2>1, <2>2, <3>2, <3>3, EmptySeq DEF Expanding
  <2> QED BY <2>1, <2>2, <2>3, <2>4 DEF RefusalInv
<1> QED
  BY <1>2, <1>3

(* The line that leaves an environment is for that environment.            *)
LEMMA EndLineIs ==
  ASSUME test \in Tests, ConfsValid(Confs), NEW c \in Reached
  PROVE  /\ EndLine(c) \in Typable /\ ConfOf(EndLine(c)) = c
         /\ EndLine(c) = Exit => c = KernelConf
<1>1. c \in Range(AllConfs) /\ c \in Environment /\ Enterable(c) /\ c # NoConf
  BY AllEnvironments, TestsAssumption DEF Reached
<1>2. EndLine(c) \in CommandLine /\ EndLine(c).prefix = c.prefix /\ EndLine(c).name # None
  BY <1>1, EnvironmentTypes, ValidNames DEF EndLine, Line
<1>3. ConfOf(EndLine(c)) = c
  BY <1>1, <1>2, ConfOfPrefix
<1> QED
  BY <1>1, <1>2, <1>3, ExitIs DEF Typable, Possible

(* The line that enters an environment leaves no other one.                *)
LEMMA StartLineIs ==
  ASSUME test \in Tests, ConfsValid(Confs), NEW c \in Reached, c # KernelConf
  PROVE  c.start \in Typable /\ c.start # Exit
<1>1. c \in Range(AllConfs) /\ c \in Environment /\ Entered(c) /\ Enterable(ConfOf(c.start))
  BY AllEnvironments, EnterableSet DEF Reached
<1>2. c.start \in CommandLine /\ c.start.name # None
  BY <1>1, ValidNames DEF Environment
<1>3. ConfOf(c.start) # NoConf /\ c.start.name # ConfOf(c.start).end.name
  BY <1>1 DEF Entered
<1>4. c.start # Exit
  BY <1>3, ExitIs DEF KernelConf, Line
<1> QED
  BY <1>1, <1>2, <1>3, <1>4 DEF Typable, Possible

LEMMA FrontLine ==
  ASSUME test \in Tests, NEW pre, NEW k, Expanding(pre, k)
  PROVE  /\ lines = <<>> => pre = <<>> /\ k = Len(Asked)
         /\ lines # <<>> =>
              \/ /\ pre # <<>> /\ Tail(pre) \in Seq(CommandLine) /\ Head(lines) = pre[1] /\ 1 \in 1..Len(pre)
                 /\ Remains(Tail(lines), Tail(pre), Asked, k)
              \/ /\ pre = <<>> /\ k + 1 \in 1..Len(Asked) /\ Head(lines) = Asked[k + 1]
                 /\ Remains(Tail(lines), <<>>, Asked, k + 1)
<1>1. PICK asked : asked = Asked
  OBVIOUS
<1>2. PICK all : all = lines
  OBVIOUS
<1>3. asked \in Seq(CommandLine)
  BY <1>1, AskedType
<1>4. pre \in Seq(CommandLine) /\ k \in 0..Len(asked) /\ Remains(all, pre, asked, k)
  BY <1>1, <1>2 DEF Expanding
<1>5. /\ all = <<>> => pre = <<>> /\ k = Len(asked)
      /\ all # <<>> =>
           \/ /\ pre # <<>> /\ Tail(pre) \in Seq(CommandLine) /\ Head(all) = pre[1] /\ 1 \in 1..Len(pre)
              /\ Remains(Tail(all), Tail(pre), asked, k)
           \/ /\ pre = <<>> /\ k + 1 \in 1..Len(asked) /\ Head(all) = asked[k + 1]
              /\ Remains(Tail(all), <<>>, asked, k + 1)
  BY <1>3, <1>4, FrontOf, Zenon
<1> QED
  BY <1>1, <1>2, <1>5, Zenon

(* The line at hand: one that was put in, or the next one asked for.       *)
LEMMA AtHand ==
  ASSUME ListInv, NEW pre, NEW k, Expanding(pre, k), lines # <<>>
  PROVE  /\ Head(lines) \in CommandLine
         /\ \/ /\ pre # <<>> /\ Tail(pre) \in Seq(CommandLine) /\ Head(lines) = pre[1] /\ 1 \in 1..Len(pre)
               /\ Remains(Tail(lines), Tail(pre), Asked, k)
            \/ /\ pre = <<>> /\ k + 1 \in 1..Len(Asked) /\ Head(lines) = Asked[k + 1]
               /\ Remains(Tail(lines), <<>>, Asked, k + 1)
         /\ Expandable => Head(lines) \in Typable
<1>1. Asked \in Seq(CommandLine) /\ Len(Asked) \in Nat /\ test \in Tests
  BY AskedType DEF ListInv, ListTypeOK
<1>2. pre \in Seq(CommandLine) /\ k \in 0..Len(Asked) /\ Remains(lines, pre, Asked, k)
  BY DEF Expanding
<1>3. \/ /\ pre # <<>> /\ Tail(pre) \in Seq(CommandLine) /\ Head(lines) = pre[1] /\ 1 \in 1..Len(pre)
         /\ Remains(Tail(lines), Tail(pre), Asked, k)
      \/ /\ pre = <<>> /\ k + 1 \in 1..Len(Asked) /\ Head(lines) = Asked[k + 1]
         /\ Remains(Tail(lines), <<>>, Asked, k + 1)
  BY <1>1, FrontLine, Zenon
<1>4. Head(lines) \in CommandLine
  BY HeadTailProperties DEF ListInv, ListTypeOK
<1>5. Expandable => Head(lines) \in Typable
  <2>1. Expandable => \A i \in 1..Len(Asked) : Asked[i] \in Typable
    BY <1>1, ExpandableMeans
  <2>2. Expandable => \A i \in 1..Len(pre) : pre[i] \in Typable
    BY DEF Expanding
  <2> QED BY <1>3, <2>1, <2>2
<1> QED
  BY <1>3, <1>4, <1>5

LEMMA KernelLeftRefuses ==
  ASSUME ListInv, RefusalInv, KernelLeft
  PROVE  RefusalInv'
<1>1. test \in Tests /\ test' = test /\ step = "loop" /\ stack = <<>>
      /\ step' = IF lines = <<>> THEN "done" ELSE "failed"
  BY DEF ListInv, ListTypeOK, KernelLeft, Loop
<1>2. ConfsValid(Confs) /\ \E pre, k : Expanding(pre, k)
  BY <1>1 DEF RefusalInv
<1>3. PICK pre, k : Expanding(pre, k)
  BY <1>2
<1>4. Expandable' <=> Expandable
  BY <1>1, TestStays
<1>5. CASE lines = <<>>
  <2>1. Asked \in Seq(CommandLine) /\ Len(Asked) \in Nat
    BY <1>1, AskedType
  <2>2. k = Len(Asked)
    BY <1>1, <1>3, <1>5, FrontLine
  <2>3. \A i \in 1..Len(Asked) : Asked[i] \in Typable /\ (Asked[i] = Exit => i = Len(Asked))
    BY <1>3, <2>2 DEF Expanding
  <2>4. Expandable
    BY <1>1, <1>2, <2>3, ExpandableMeans
  <2> QED BY <1>1, <1>4, <1>5, <2>4 DEF RefusalInv
<1>6. CASE lines # <<>>
  <2>1. ~Expandable
    BY <1>1, <1>3, <1>6 DEF Expanding
  <2> QED BY <1>1, <1>4, <1>6, <2>1 DEF RefusalInv
<1> QED
  BY <1>5, <1>6

LEMMA BadLineRefuses ==
  ASSUME ListInv, RefusalInv, BadLine
  PROVE  RefusalInv'
<1>1. test' = test /\ step = "loop" /\ lines # <<>> /\ step' = "failed"
      /\ (Head(lines).name = None \/ ConfOf(Head(lines)) = NoConf)
  BY DEF BadLine, Loop
<1>2. PICK pre, k : Expanding(pre, k)
  BY <1>1 DEF RefusalInv
<1>3. Head(lines) \notin Typable
  BY <1>1 DEF Typable, Possible
<1>4. ~Expandable
  BY <1>1, <1>2, <1>3, AtHand
<1> QED
  BY <1>1, <1>4, TestStays DEF RefusalInv

LEMMA CleanUpRefuses ==
  ASSUME ListInv, RefusalInv, CleanUp
  PROVE  RefusalInv'
<1>1. test \in Tests /\ test' = test /\ step = "loop" /\ stack # <<>> /\ lines = <<>>
      /\ step' = step /\ stack' = stack /\ lines' = <<EndLine(Current)>> /\ stack \in Seq(Environment)
  BY DEF ListInv, ListTypeOK, CleanUp, Loop, Current
<1>2. ConfsValid(Confs) /\ StackInv /\ \E pre, k : Expanding(pre, k)
  BY <1>1 DEF RefusalInv
<1>3. PICK pre, k : Expanding(pre, k)
  BY <1>2
<1>4. Asked \in Seq(CommandLine) /\ Len(Asked) \in Nat
  BY <1>1, AskedType
<1>5. k = Len(Asked)
  BY <1>1, <1>3, FrontLine
<1>6. Asked' = Asked /\ Reached' = Reached /\ Typable' = Typable /\ ConfsValid(Confs)' /\ (Expandable' <=> Expandable)
  BY <1>1, <1>2, TestStays, ReachedStays
<1>7. Current \in Reached /\ Current' = Current
  BY <1>1, <1>2 DEF StackInv, Current
<1> PICK end : end = EndLine(Current)
  OBVIOUS
<1>8. end \in Typable /\ (end = Exit => Current = KernelConf)
  BY <1>1, <1>2, <1>7, EndLineIs
<1>9. end \in CommandLine
  BY <1>8 DEF Typable
<1>10. Expanding(<<end>>, k)'
  <2>1. <<end>> \in Seq(CommandLine) /\ Len(<<end>>) = 1 /\ <<end>>[1] = end
    BY <1>9
  <2>2. Remains(lines', <<end>>, Asked, k)
    <3>1. Part(Asked, k, Len(Asked)) = <<>>
      BY <1>4, <1>5, PartEmpty
    <3>2. <<end>> \o <<>> = <<end>>
      BY <2>1, ConcatEmptySeq
    <3> QED BY <1>1, <3>1, <3>2 DEF Remains
  <2>3. \A i \in 1..k : Asked[i] \in Typable /\ (Asked[i] = Exit => stack = <<>> /\ i = k)
    BY <1>3 DEF Expanding
  <2>4. stack' # <<>> /\ (end = Exit => Current' = KernelConf)
    BY <1>1, <1>7, <1>8
  <2>5. \A i \in 1..Len(<<end>>) : <<end>>[i] = end
    BY <2>1
  <2>6. <<end>> \in Seq(CommandLine) /\ k \in 0..Len(Asked)'
    BY <1>4, <1>5, <1>6, <2>1
  <2>7. Remains(lines', <<end>>, Asked', k)
    BY <1>6, <2>2, Zenon
  <2>8. \A i \in 1..k : Asked'[i] \in Typable' /\ (Asked'[i] = Exit => stack' = <<>> /\ i = k)
    BY <1>1, <1>6, <2>3
  <2> QED BY <1>5, <1>6, <1>8, <2>1, <2>4, <2>5, <2>6, <2>7, <2>8 DEF Expanding
<1>11. StackInv'
  BY <1>1, <1>2, <1>6 DEF StackInv
<1> QED
  BY <1>1, <1>6, <1>10, <1>11 DEF RefusalInv

LEMMA PutBefore ==
  ASSUME NEW S, NEW pre \in Seq(S), NEW s \in Seq(S), NEW k \in 0..Len(s), NEW all,
         Remains(all, pre, s, k), NEW x \in S
  PROVE  /\ Remains(<<x>> \o all, <<x>> \o pre, s, k)
         /\ <<x>> \o pre \in Seq(S)
         /\ \A i \in 1..Len(<<x>> \o pre) :
              (<<x>> \o pre)[i] = x \/ \E j \in 1..Len(pre) : (<<x>> \o pre)[i] = pre[j]
<1>1. Part(s, k, Len(s)) \in Seq(S)
  BY LenProperties, PartProps
<1>2. <<x>> \in Seq(S) /\ Len(<<x>>) = 1 /\ <<x>>[1] = x
  OBVIOUS
<1>3. (<<x>> \o pre) \o Part(s, k, Len(s)) = <<x>> \o (pre \o Part(s, k, Len(s)))
  BY <1>1, <1>2, ConcatAssociative
<1>4. /\ <<x>> \o pre \in Seq(S) /\ Len(<<x>> \o pre) = Len(<<x>>) + Len(pre)
      /\ \A i \in 1..(Len(<<x>>) + Len(pre)) :
           (<<x>> \o pre)[i] = IF i <= Len(<<x>>) THEN <<x>>[i] ELSE pre[i - Len(<<x>>)]
  BY <1>2, ConcatProperties
<1>5. ASSUME NEW i \in 1..Len(<<x>> \o pre)
      PROVE  (<<x>> \o pre)[i] = x \/ \E j \in 1..Len(pre) : (<<x>> \o pre)[i] = pre[j]
  <2>1. i = 1 \/ (i - 1 \in 1..Len(pre) /\ ~(i <= 1))
    BY <1>2, <1>4, LenProperties
  <2> QED BY <1>2, <1>4, <2>1
<1> QED
  BY <1>3, <1>4, <1>5 DEF Remains

LEMMA NothingRemains ==
  ASSUME NEW S, NEW s \in Seq(S), NEW all, Remains(all, <<>>, s, Len(s))
  PROVE  all = <<>>
<1>1. Part(s, Len(s), Len(s)) = <<>>
  BY LenProperties, PartEmpty
<1>2. <<>> \o <<>> = <<>>
  OBVIOUS
<1> QED
  BY <1>1, <1>2 DEF Remains

LEMMA ChangeEnvironmentRefuses ==
  ASSUME ListInv, RefusalInv, NEW l, ChangeEnvironment(l)
  PROVE  RefusalInv'
<1> PICK x : x = IF ConfOf(l) = KernelConf THEN EndLine(Current) ELSE ConfOf(l).start
  OBVIOUS
<1>1. test \in Tests /\ test' = test /\ step = "loop" /\ stack # <<>> /\ lines # <<>>
      /\ step' = step /\ stack' = stack /\ lines' = <<x>> \o lines /\ stack \in Seq(Environment)
      /\ l = Head(lines) /\ l.name # None /\ ConfOf(l) # NoConf /\ ConfOf(l) # Current
  BY DEF ListInv, ListTypeOK, ChangeEnvironment, AtLine, Loop
<1>2. ConfsValid(Confs) /\ StackInv /\ \E pre, k : Expanding(pre, k)
  BY <1>1 DEF RefusalInv
<1>3. PICK pre, k : Expanding(pre, k)
  BY <1>2
<1>4. Asked \in Seq(CommandLine) /\ pre \in Seq(CommandLine) /\ k \in 0..Len(Asked) /\ Remains(lines, pre, Asked, k)
  BY <1>1, <1>3, AskedType DEF Expanding
<1>5. Asked' = Asked /\ Reached' = Reached /\ Typable' = Typable /\ ConfsValid(Confs)' /\ (Expandable' <=> Expandable)
  BY <1>1, <1>2, TestStays, ReachedStays
<1>6. Current \in Reached
  BY <1>1, <1>2 DEF StackInv, Current
<1>7. ConfOf(l) \in Range(AllConfs) /\ ConfOf(l) \in Environment
  BY <1>1, ConfOfLine, AllEnvironments
<1>8. x \in CommandLine /\ (Expandable => x \in Typable /\ x # Exit)
  <2>1. CASE ConfOf(l) = KernelConf
    BY <1>1, <1>2, <1>6, <2>1, EndLineIs DEF Typable
  <2>2. CASE ConfOf(l) # KernelConf
    <3>1. x = ConfOf(l).start /\ x \in CommandLine
      BY <1>7, <2>2 DEF Environment
    <3>2. ASSUME Expandable
          PROVE  ConfOf(l) \in Reached
      BY <1>1, <1>3, <1>7, <3>2, AtHand DEF Typable, Possible, Reached
    <3> QED BY <1>1, <1>2, <2>2, <3>1, <3>2, StartLineIs
  <2> QED BY <2>1, <2>2
<1>9. Expandable => \A i \in 1..Len(pre) : pre[i] \in Typable /\ pre[i] # Exit
  <2> SUFFICES ASSUME Expandable, NEW i \in 1..Len(pre), pre[i] = Exit
               PROVE  FALSE
    BY <1>3 DEF Expanding
  <2>1. Len(pre) = 1 /\ Current = KernelConf
    BY <1>3 DEF Expanding
  <2>2. l = Exit
    <3>1. i = 1 /\ pre # <<>>
      BY <2>1
    <3> QED BY <1>1, <1>3, <3>1, AtHand
  <2> QED BY <1>1, <2>1, <2>2, ExitIs
<1> PICK put : put = <<x>> \o pre
  OBVIOUS
<1>10. /\ Remains(lines', put, Asked, k) /\ put \in Seq(CommandLine)
       /\ \A i \in 1..Len(put) : put[i] = x \/ \E j \in 1..Len(pre) : put[i] = pre[j]
  <2>1. PICK asked : asked = Asked
    OBVIOUS
  <2>2. PICK all : all = lines
    OBVIOUS
  <2>3. asked \in Seq(CommandLine) /\ k \in 0..Len(asked) /\ Remains(all, pre, asked, k)
    BY <1>4, <2>1, <2>2
  <2>4. /\ Remains(<<x>> \o all, <<x>> \o pre, asked, k) /\ <<x>> \o pre \in Seq(CommandLine)
        /\ \A i \in 1..Len(<<x>> \o pre) :
             (<<x>> \o pre)[i] = x \/ \E j \in 1..Len(pre) : (<<x>> \o pre)[i] = pre[j]
    BY <1>4, <1>8, <2>3, PutBefore
  <2> QED BY <1>1, <2>1, <2>2, <2>4
<1>11. Expandable => \A i \in 1..Len(put) : put[i] \in Typable /\ put[i] # Exit
  BY <1>8, <1>9, <1>10
<1>12. Expanding(put, k)'
  <2>1. k \in 0..Len(Asked') /\ Remains(lines', put, Asked', k)
    BY <1>4, <1>5, <1>10
  <2>2. \A i \in 1..k : Asked'[i] \in Typable' /\ (Asked'[i] = Exit => stack' = <<>> /\ i = k)
    BY <1>1, <1>3, <1>5 DEF Expanding
  <2> QED BY <1>1, <1>5, <1>10, <1>11, <2>1, <2>2 DEF Expanding
<1>13. StackInv'
  BY <1>1, <1>2, <1>5 DEF StackInv
<1> QED
  BY <1>1, <1>5, <1>12, <1>13 DEF RefusalInv

LEMMA TailIs ==
  ASSUME NEW S, NEW s \in Seq(S), s # <<>>
  PROVE  /\ Len(Tail(s)) = Len(s) - 1
         /\ \A i \in 1..Len(Tail(s)) : i + 1 \in 1..Len(s) /\ Tail(s)[i] = s[i + 1]
         /\ Tail(s) = <<>> <=> Len(s) = 1
<1>1. Tail(s) \in Seq(S) /\ Len(s) \in Nat /\ Len(s) >= 1
  BY HeadTailProperties
<1>2. /\ Len(Tail(s)) = Len(s) - 1
      /\ \A i \in 1..Len(Tail(s)) : i + 1 \in 1..Len(s) /\ Tail(s)[i] = s[i + 1]
  BY <1>1
<1>3. Len(Tail(s)) = 0 <=> Tail(s) = <<>>
  BY <1>1, EmptySeq
<1> QED
  BY <1>1, <1>2, <1>3

(* A line that is for the environment at hand is typed.                    *)
LEMMA TakeLineStack ==
  ASSUME ListInv, ConfsValid(Confs), StackInv, NEW l \in CommandLine, TakeLine(l)
  PROVE  /\ l \in Typable /\ StackInv'
         /\ stack' = <<>> => l = Exit
         /\ l = Exit => stack' = <<>>
<1> PICK entered : entered = StartedBy(l)
  OBVIOUS
<1>1. test \in Tests /\ test' = test /\ stack # <<>> /\ stack \in Seq(Environment)
      /\ l.name # None /\ ConfOf(l) # NoConf /\ ConfOf(l) = Current
      /\ stack' = IF l.name = Current.end.name THEN Tail(stack)
                  ELSE IF entered # NoConf THEN <<entered>> \o stack ELSE stack
  BY Zenon DEF ListInv, ListTypeOK, TakeLine, AtLine, Loop
<1>2. Current \in Reached /\ Reached' = Reached /\ (Current = KernelConf <=> Len(stack) = 1)
      /\ Current = stack[1] /\ Len(stack) \in Nat /\ Len(stack) >= 1
  <2>1. Len(stack) \in Nat /\ Len(stack) >= 1 /\ 1 \in 1..Len(stack) /\ Current = stack[1]
    BY <1>1 DEF Current
  <2> QED BY <1>1, <2>1, ReachedStays DEF StackInv
<1>3. l \in Typable
  BY <1>1, <1>2 DEF Typable, Possible, Reached
<1>4. \A i \in 1..Len(stack) : stack[i] \in Reached /\ (stack[i] = KernelConf <=> i = Len(stack))
  BY DEF StackInv
<1>5. l.name = Current.end.name /\ Current = KernelConf => l = Exit
  BY <1>1, ExitIs
<1>6. l = Exit => l.name = Current.end.name /\ Current = KernelConf
  BY <1>1, ExitIs DEF Exit, EndLine, Line
<1>7. CASE l.name = Current.end.name
  <2>1. stack' = Tail(stack)
    BY <1>1, <1>7
  <2>2. Len(stack') = Len(stack) - 1 /\ (\A i \in 1..Len(stack') : i + 1 \in 1..Len(stack) /\ stack'[i] = stack[i + 1])
        /\ (stack' = <<>> <=> Len(stack) = 1)
    BY <1>1, <2>1, TailIs
  <2>3. StackInv'
    <3> SUFFICES ASSUME NEW i \in 1..Len(stack')
                 PROVE  stack'[i] \in Reached' /\ (stack'[i] = KernelConf <=> i = Len(stack'))
      BY DEF StackInv
    <3>1. i + 1 \in 1..Len(stack) /\ stack'[i] = stack[i + 1]
      BY <2>2
    <3>2. stack[i + 1] \in Reached /\ (stack[i + 1] = KernelConf <=> i + 1 = Len(stack))
      BY <1>4, <3>1
    <3>3. i + 1 = Len(stack) <=> i = Len(stack')
      BY <1>2, <2>2
    <3> QED BY <1>2, <3>1, <3>2, <3>3
  <2> QED BY <1>2, <1>3, <1>5, <1>6, <1>7, <2>2, <2>3
<1>8. CASE l.name # Current.end.name /\ entered # NoConf
  <2>1. stack' = <<entered>> \o stack
    BY <1>1, <1>8
  <2>2. entered \in Range(AllConfs) /\ entered.start = l /\ entered \in Environment
    BY <1>1, <1>8, StarterIs, AllEnvironments
  <2>3. Entered(entered)
    BY <1>1, <1>8, <2>2 DEF Entered
  <2>4. entered \in Reached
    BY <1>1, <1>2, <2>2, <2>3, EnterableSet DEF Reached
  <2>5. entered # KernelConf
    BY <1>1, <2>2 DEF KernelConf, Line
  <2>6. Len(stack') = Len(stack) + 1 /\ stack'[1] = entered /\ stack' # <<>>
        /\ \A i \in 1..Len(stack') : i = 1 \/ (i - 1 \in 1..Len(stack) /\ stack'[i] = stack[i - 1])
    <3>1. <<entered>> \in Seq(Environment) /\ Len(<<entered>>) = 1 /\ <<entered>>[1] = entered
      BY <2>2
    <3>2. /\ Len(<<entered>> \o stack) = Len(<<entered>>) + Len(stack)
          /\ \A i \in 1..(Len(<<entered>>) + Len(stack)) :
               (<<entered>> \o stack)[i] = IF i <= Len(<<entered>>) THEN <<entered>>[i] ELSE stack[i - Len(<<entered>>)]
      BY <1>1, <3>1, ConcatProperties
    <3>3. Len(stack') = Len(stack) + 1 /\ \A i \in 1..(Len(stack) + 1) : stack'[i] = IF i <= 1 THEN entered ELSE stack[i - 1]
      <4> HIDE <1>1
      <4>1. Len(<<entered>>) + Len(stack) = Len(stack) + 1
        BY <1>2, <3>1
      <4> QED BY <2>1, <3>1, <3>2, <4>1
    <3> QED BY <1>2, <3>3
  <2>7. StackInv'
    <3> SUFFICES ASSUME NEW i \in 1..Len(stack')
                 PROVE  stack'[i] \in Reached' /\ (stack'[i] = KernelConf <=> i = Len(stack'))
      BY DEF StackInv
    <3>1. CASE i = 1
      BY <1>2, <2>4, <2>5, <2>6, <3>1
    <3>2. CASE i # 1
      <4>1. i - 1 \in 1..Len(stack) /\ stack'[i] = stack[i - 1] /\ (i - 1 = Len(stack) <=> i = Len(stack'))
        BY <1>2, <2>6, <3>2
      <4> QED BY <1>2, <1>4, <4>1
    <3> QED BY <3>1, <3>2
  <2> QED BY <1>3, <1>6, <1>8, <2>6, <2>7
<1>9. CASE l.name # Current.end.name /\ entered = NoConf
  <2>1. stack' = stack
    BY <1>1, <1>9
  <2>2. StackInv'
    BY <1>2, <1>4, <2>1 DEF StackInv
  <2> QED BY <1>1, <1>3, <1>6, <1>9, <2>1, <2>2
<1> QED
  BY <1>7, <1>8, <1>9

LEMMA TakeLineRefuses ==
  ASSUME ListInv, RefusalInv, NEW l, TakeLine(l)
  PROVE  RefusalInv'
<1>1. test \in Tests /\ test' = test /\ step = "loop" /\ stack # <<>> /\ lines # <<>>
      /\ step' = step /\ lines' = Tail(lines) /\ l = Head(lines)
  BY DEF ListInv, ListTypeOK, TakeLine, AtLine, Loop
<1>2. ConfsValid(Confs) /\ StackInv /\ \E pre, k : Expanding(pre, k)
  BY <1>1 DEF RefusalInv
<1>3. PICK pre, k : Expanding(pre, k)
  BY <1>2
<1>4. Asked \in Seq(CommandLine) /\ Len(Asked) \in Nat /\ pre \in Seq(CommandLine) /\ k \in 0..Len(Asked)
  BY <1>1, <1>3, AskedType DEF Expanding
<1>5. Asked' = Asked /\ Reached' = Reached /\ Typable' = Typable /\ ConfsValid(Confs)' /\ (Expandable' <=> Expandable)
  BY <1>1, <1>2, TestStays, ReachedStays
<1>6. l \in CommandLine
      /\ \/ /\ pre # <<>> /\ Tail(pre) \in Seq(CommandLine) /\ l = pre[1] /\ 1 \in 1..Len(pre)
            /\ Remains(lines', Tail(pre), Asked, k)
         \/ /\ pre = <<>> /\ k + 1 \in 1..Len(Asked) /\ l = Asked[k + 1]
            /\ Remains(lines', <<>>, Asked, k + 1)
  BY <1>1, <1>3, AtHand
<1>7. l \in Typable /\ StackInv' /\ (stack' = <<>> => l = Exit) /\ (l = Exit => stack' = <<>>)
  BY <1>2, <1>6, TakeLineStack
<1>8. \A i \in 1..k : Asked[i] \in Typable /\ Asked[i] # Exit
  BY <1>1, <1>3 DEF Expanding
<1>9. ASSUME Expandable
      PROVE  /\ \A i \in 1..Len(pre) : pre[i] \in Typable
             /\ \A i \in 1..Len(pre) : pre[i] = Exit => Len(pre) = 1 /\ k = Len(Asked)
             /\ \A i \in 1..Len(Asked) : Asked[i] = Exit => i = Len(Asked)
  BY <1>1, <1>3, <1>9, ExpandableMeans DEF Expanding
<1>10. CASE pre # <<>>
  <2>1. /\ Tail(pre) \in Seq(CommandLine) /\ l = pre[1] /\ 1 \in 1..Len(pre)
        /\ Remains(lines', Tail(pre), Asked, k)
    BY <1>6, <1>10
  <2>2. /\ Len(Tail(pre)) = Len(pre) - 1 /\ Len(pre) \in Nat
        /\ \A i \in 1..Len(Tail(pre)) : i + 1 \in 1..Len(pre) /\ Tail(pre)[i] = pre[i + 1]
        /\ Tail(pre) = <<>> <=> Len(pre) = 1
    BY <1>4, <1>10, TailIs, LenProperties
  <2>3. ASSUME Expandable, stack' = <<>>
        PROVE  lines' = <<>>
    <3>1. l = Exit
      BY <1>7, <2>3
    <3>2. Tail(pre) = <<>> /\ k = Len(Asked)
      BY <1>9, <2>1, <2>2, <2>3, <3>1
    <3>3. Remains(lines', <<>>, Asked, Len(Asked))
      BY <2>1, <3>2
    <3> QED BY <1>4, <3>3, NothingRemains
  <2>4. ASSUME Expandable, NEW i \in 1..Len(Tail(pre))
        PROVE  Tail(pre)[i] \in Typable /\ Tail(pre)[i] # Exit
    <3>1. i + 1 \in 1..Len(pre) /\ Tail(pre)[i] = pre[i + 1] /\ Len(pre) # 1
      BY <2>2
    <3> QED BY <1>9, <2>4, <3>1
  <2> PICK left : left = Tail(pre)
    OBVIOUS
  <2>5. Expanding(left, k)'
    <3>1. left \in Seq(CommandLine) /\ k \in 0..Len(Asked') /\ Remains(lines', left, Asked', k)
      BY <1>4, <1>5, <2>1
    <3>2. \A i \in 1..k : Asked'[i] \in Typable' /\ (Asked'[i] = Exit => stack' = <<>> /\ i = k)
      BY <1>5, <1>8
    <3>3. Expandable' => (stack' = <<>> => lines' = <<>>) /\ \A i \in 1..Len(left) : left[i] \in Typable' /\ left[i] # Exit
      BY <1>5, <2>3, <2>4
    <3> QED BY <3>1, <3>2, <3>3 DEF Expanding
  <2> QED BY <1>1, <1>5, <1>7, <2>5 DEF RefusalInv
<1>11. CASE pre = <<>>
  <2>1. k + 1 \in 1..Len(Asked) /\ l = Asked[k + 1] /\ Remains(lines', <<>>, Asked, k + 1)
    BY <1>6, <1>11
  <2>2. ASSUME Expandable, stack' = <<>>
        PROVE  lines' = <<>>
    <3>1. l = Exit
      BY <1>7, <2>2
    <3>2. k + 1 = Len(Asked)
      BY <1>9, <2>1, <2>2, <3>1
    <3>3. Remains(lines', <<>>, Asked, Len(Asked))
      BY <2>1, <3>2
    <3> QED BY <1>4, <3>3, NothingRemains
  <2> PICK next : next = k + 1
    OBVIOUS
  <2>3. next \in 0..Len(Asked) /\ \A i \in 1..next : i \in 1..k \/ i = next
    BY <1>4, <2>1
  <2>4. Expanding(<<>>, next)'
    <3>1. <<>> \in Seq(CommandLine) /\ next \in 0..Len(Asked') /\ Remains(lines', <<>>, Asked', next)
      BY <1>5, <2>1, <2>3
    <3>2. \A i \in 1..next : Asked'[i] \in Typable' /\ (Asked'[i] = Exit => stack' = <<>> /\ i = next)
      BY <1>5, <1>7, <1>8, <2>1, <2>3
    <3>3. Expandable' => (stack' = <<>> => lines' = <<>>)
      BY <1>5, <2>2
    <3>4. Len(<<>>) = 0 /\ 1..0 = {}
      OBVIOUS
    <3> QED BY <3>1, <3>2, <3>3, <3>4 DEF Expanding
  <2> QED BY <1>1, <1>5, <1>7, <2>4 DEF RefusalInv
<1> QED
  BY <1>10, <1>11

LEMMA ListNextRefuses ==
  ASSUME ListInv, RefusalInv, ListNext
  PROVE  RefusalInv'
<1>1. CASE LoopsExceeded
  BY <1>1 DEF LoopsExceeded, RefusalInv
<1>2. ASSUME NEW l, ChangeEnvironment(l) \/ TakeLine(l)
      PROVE  RefusalInv'
  BY <1>2, ChangeEnvironmentRefuses, TakeLineRefuses
<1> QED
  BY <1>1, <1>2, CheckRefuses, KernelLeftRefuses, CleanUpRefuses, BadLineRefuses DEF ListNext

LEMMA RefusalStays ==
  ASSUME RefusalInv, UNCHANGED listVars
  PROVE  RefusalInv'
<1>1. test' = test /\ lines' = lines /\ stack' = stack /\ step' = step
  BY DEF listVars
<1>2. (ConfsValid(Confs)' <=> ConfsValid(Confs)) /\ (Expandable' <=> Expandable)
      /\ Asked' = Asked /\ Reached' = Reached /\ Typable' = Typable
  BY <1>1, TestStays, ReachedStays
<1>3. StackInv' <=> StackInv
  BY <1>1, <1>2 DEF StackInv
<1>4. Current' = Current
  BY <1>1 DEF Current
<1>5. ASSUME NEW pre, NEW k
      PROVE  Expanding(pre, k)' <=> Expanding(pre, k)
  BY <1>1, <1>2, <1>4, Zenon DEF Expanding
<1> QED
  BY <1>1, <1>2, <1>3, <1>5, Zenon DEF RefusalInv

LEMMA OnlyTheListChanges ==
  ASSUME [Next]_vars
  PROVE  ListNext \/ UNCHANGED listVars
<1>1. CASE MakeList
  BY <1>1 DEF MakeList
<1>2. CASE Run
  BY <1>2 DEF Run, Start, Type, SendCharacter, Expect, ReadData, TimeOut, Echoed, NotEchoed, Prompted,
       ShutDown, Close, Drain, Drained
<1>3. CASE Reader
  BY <1>3 DEF Reader, Read, ReadEof
<1>4. CASE Machine
  BY <1>4 DEF Machine, Boots, LosesCharacter, Echoes, Executes
<1>5. CASE UNCHANGED vars
  BY <1>5 DEF vars
<1> QED
  BY <1>1, <1>2, <1>3, <1>4, <1>5 DEF Next

(* initCommands (conf.go:416) refuses a test only if there is no session   *)
(* for its lines, and accepts it only if there is one: the rewriting of    *)
(* the list neither invents a "premature exit" (conf.go:422) nor an unknown *)
(* environment with the lines it puts in, nor loses a line that it should  *)
(* have refused.                                                           *)
THEOREM RefusalsHaveReasons == Spec => []RefusedForReason
<1>1. Init => ListInv /\ RefusalInv
  <2> SUFFICES ASSUME Init
               PROVE  ListInv /\ RefusalInv
    OBVIOUS
  <2>1. ListInit
    BY DEF Init
  <2>2. ListInv
    BY <2>1, ListInitInv
  <2>3. step = "check"
    BY <2>1 DEF ListInit
  <2> QED BY <2>2, <2>3 DEF RefusalInv
<1>2. ListInv /\ RefusalInv /\ [Next]_vars => (ListInv /\ RefusalInv)'
  BY OnlyTheListChanges, ListNextRefuses, ListStepInv, RefusalStays, ListStays, Zenon
<1>3. RefusalInv => RefusedForReason
  BY DEF RefusalInv, RefusedForReason
<1> QED
  BY <1>1, <1>2, <1>3, PTL DEF Spec

-----------------------------------------------------------------------------
(* What a command is judged by.                                            *)

Meets(f, expected, out, k) ==
  f = [n \in 0..k |-> IF n = 0 THEN 0 ELSE MeetLine(expected, f[n - 1], out[n])]

LEMMA MeetsMore ==
  ASSUME NEW expected, NEW out, NEW k \in Nat, NEW f, Meets(f, expected, out, k)
  PROVE  \E g : Meets(g, expected, out, k + 1)
<1> DEFINE g == [n \in 0..(k + 1) |-> IF n = k + 1 THEN MeetLine(expected, f[k], out[k + 1]) ELSE f[n]]
<1>1. ASSUME NEW n \in 0..(k + 1)
      PROVE  g[n] = IF n = 0 THEN 0 ELSE MeetLine(expected, g[n - 1], out[n])
  <2>1. CASE n = k + 1
    <3>1. n # 0 /\ n - 1 = k /\ k \in 0..(k + 1) /\ k # k + 1
      BY <2>1
    <3>2. g[n] = MeetLine(expected, f[k], out[k + 1]) /\ g[k] = f[k]
      BY <2>1, <3>1
    <3> HIDE DEF g
    <3> QED BY <2>1, <3>1, <3>2
  <2>2. CASE n # k + 1
    <3>1. n \in 0..k
      BY <2>2
    <3>2. f[n] = IF n = 0 THEN 0 ELSE MeetLine(expected, f[n - 1], out[n])
      BY <3>1, Zenon DEF Meets
    <3>3. g[n] = f[n]
      BY <2>2
    <3>4. n # 0 => n - 1 \in 0..(k + 1) /\ n - 1 # k + 1
      BY <3>1
    <3>5. n # 0 => g[n - 1] = f[n - 1]
      BY <3>4
    <3> HIDE DEF g
    <3> QED BY <3>2, <3>3, <3>5
  <2> QED BY <2>1, <2>2
<1>2. g = [n \in 0..(k + 1) |-> g[n]]
  OBVIOUS
<1> HIDE DEF g
<1>3. g = [n \in 0..(k + 1) |-> IF n = 0 THEN 0 ELSE MeetLine(expected, g[n - 1], out[n])]
  BY <1>1, <1>2, Zenon
<1> QED
  BY <1>3, Zenon DEF Meets

LEMMA MetIsCounted ==
  ASSUME NEW S, NEW expected, NEW out \in Seq(S)
  PROVE  \E f : Meets(f, expected, out, Len(out)) /\ Met(expected, out) = f[Len(out)]
<1>1. PICK k \in Nat : k = Len(out)
  BY LenProperties
<1> DEFINE P == {n \in Nat : \E f : Meets(f, expected, out, n)}
<1>2. 0 \in P
  <2> DEFINE f == [n \in 0..0 |-> 0]
  <2>1. f = [n \in 0..0 |-> IF n = 0 THEN 0 ELSE MeetLine(expected, f[n - 1], out[n])]
    OBVIOUS
  <2> HIDE DEF f
  <2> QED BY <2>1, Zenon DEF Meets
<1>3. \A n \in 0..(k - 1) : n \in P => n + 1 \in P
  <2> SUFFICES ASSUME NEW n \in 0..(k - 1), n \in P
               PROVE  n + 1 \in P
    OBVIOUS
  <2>1. n \in Nat /\ n + 1 \in Nat
    OBVIOUS
  <2>2. \E g : Meets(g, expected, out, n + 1)
    BY <2>1, MeetsMore
  <2> QED BY <2>1, <2>2
<1>4. k \in P
  <2> HIDE DEF P
  <2> QED BY <1>2, <1>3, UpTo
<1> DEFINE met == CHOOSE f : f = [n \in 0..Len(out) |->
                                    IF n = 0 THEN 0 ELSE MeetLine(expected, f[n - 1], out[n])]
<1>5. Meets(met, expected, out, Len(out))
  <2>1. \E f : f = [n \in 0..Len(out) |-> IF n = 0 THEN 0 ELSE MeetLine(expected, f[n - 1], out[n])]
    BY <1>1, <1>4 DEF Meets
  <2> QED BY <2>1, Zenon DEF Meets
<1>6. Met(expected, out) = met[Len(out)]
  BY DEF Met
<1> QED
  BY <1>5, <1>6, Zenon

(* The first k expected lines, at increasing positions up to n.            *)
Found(f, expected, out, k, n) ==
  /\ f \in [1..k -> 1..n]
  /\ \A i \in 1..k : out[f[i]] = <<expected[i]>>
  /\ \A i, j \in 1..k : i < j => f[i] < f[j]

LEMMA FoundMore ==
  ASSUME NEW expected, NEW out, NEW k \in Nat, NEW n \in Nat, NEW f, Found(f, expected, out, k, n)
  PROVE  /\ Found(f, expected, out, k, n + 1)
         /\ out[n + 1] = <<expected[k + 1]>> => \E g : Found(g, expected, out, k + 1, n + 1)
<1>1. Found(f, expected, out, k, n + 1)
  BY DEF Found
<1>2. ASSUME out[n + 1] = <<expected[k + 1]>>
      PROVE  \E g : Found(g, expected, out, k + 1, n + 1)
  <2> DEFINE g == [i \in 1..(k + 1) |-> IF i = k + 1 THEN n + 1 ELSE f[i]]
  <2>1. \A i \in 1..k : f[i] \in 1..n /\ out[f[i]] = <<expected[i]>> /\ g[i] = f[i]
    BY DEF Found
  <2>2. \A i \in 1..(k + 1) : i = k + 1 \/ i \in 1..k
    OBVIOUS
  <2>3. g[k + 1] = n + 1
    OBVIOUS
  <2>4. g \in [1..(k + 1) -> 1..(n + 1)]
    <3>1. \A i \in 1..(k + 1) : g[i] \in 1..(n + 1)
      <4> HIDE DEF g
      <4> QED BY <2>1, <2>2, <2>3
    <3> QED BY <3>1
  <2> HIDE DEF g
  <2>5. \A i \in 1..(k + 1) : out[g[i]] = <<expected[i]>>
    BY <1>2, <2>1, <2>2, <2>3
  <2>6. ASSUME NEW i \in 1..(k + 1), NEW j \in 1..(k + 1), i < j
        PROVE  g[i] < g[j]
    <3>1. i \in 1..k /\ f[i] \in 1..n /\ g[i] = f[i]
      <4>1. i \in 1..k
        BY <2>6
      <4> QED BY <2>1, <4>1
    <3>2. CASE j = k + 1
      BY <2>3, <3>1, <3>2
    <3>3. CASE j \in 1..k
      <4>1. f[i] < f[j] /\ g[j] = f[j]
        BY <2>1, <2>6, <3>1, <3>3 DEF Found
      <4> QED BY <3>1, <4>1
    <3> QED BY <2>2, <3>2, <3>3
  <2> QED BY <2>4, <2>5, <2>6 DEF Found
<1> QED
  BY <1>1, <1>2

(* evaluate takes each expected line as soon as it comes, and misses none. *)
LEMMA MetInOrder ==
  ASSUME NEW S, NEW T, NEW expected \in Seq(S), NEW out \in Seq(T)
  PROVE  Met(expected, out) = Len(expected) <=> InOrder(out, expected)
<1>1. PICK k \in Nat, m \in Nat : k = Len(out) /\ m = Len(expected)
                                  /\ DOMAIN out = 1..k /\ DOMAIN expected = 1..m
  BY LenProperties
<1>2. PICK met : Meets(met, expected, out, k) /\ Met(expected, out) = met[k]
  BY <1>1, MetIsCounted
<1>3. /\ met[0] = 0
      /\ \A n \in 0..(k - 1) : met[n + 1] = IF met[n] < m /\ out[n + 1] = <<expected[met[n] + 1]>>
                                            THEN met[n] + 1 ELSE met[n]
  <2>1. ASSUME NEW n \in 0..k
        PROVE  met[n] = IF n = 0 THEN 0 ELSE MeetLine(expected, met[n - 1], out[n])
    BY <1>2, Zenon DEF Meets
  <2>2. 0 \in 0..k
    OBVIOUS
  <2>3. ASSUME NEW n \in 0..(k - 1)
        PROVE  met[n + 1] = MeetLine(expected, met[n], out[n + 1])
    <3>1. n + 1 \in 0..k /\ n + 1 # 0 /\ (n + 1) - 1 = n
      OBVIOUS
    <3> QED BY <2>1, <3>1
  <2> QED BY <1>1, <2>1, <2>2, <2>3 DEF MeetLine
<1>4. ASSUME NEW n \in 0..k
      PROVE  met[n] \in 0..m /\ \E f : Found(f, expected, out, met[n], n)
  <2> DEFINE P == {j \in 0..n : met[j] \in 0..m /\ \E f : Found(f, expected, out, met[j], j)}
  <2>1. 0 \in P
    <3> DEFINE f == [i \in 1..0 |-> 1]
    <3>1. 1..0 = {} /\ f \in [1..0 -> 1..0]
      OBVIOUS
    <3>2. Found(f, expected, out, 0, 0)
      BY <3>1 DEF Found
    <3> QED BY <1>3, <3>2
  <2>2. ASSUME NEW j \in 0..(n - 1), j \in P
        PROVE  j + 1 \in P
    <3>1. j \in 0..(k - 1) /\ j \in Nat /\ j + 1 \in 0..n
      OBVIOUS
    <3>2. PICK f : Found(f, expected, out, met[j], j)
      BY <2>2
    <3>3. met[j] \in 0..m /\ met[j] \in Nat
      BY <2>2
    <3>4. CASE met[j] < m /\ out[j + 1] = <<expected[met[j] + 1]>>
      <4>1. met[j + 1] = met[j] + 1 /\ met[j] + 1 \in 0..m
        BY <1>3, <3>1, <3>3, <3>4
      <4>2. \E g : Found(g, expected, out, met[j] + 1, j + 1)
        BY <3>1, <3>2, <3>3, <3>4, FoundMore
      <4> QED BY <3>1, <4>1, <4>2
    <3>5. CASE ~(met[j] < m /\ out[j + 1] = <<expected[met[j] + 1]>>)
      <4>1. met[j + 1] = met[j]
        BY <1>3, <3>1, <3>5
      <4>2. Found(f, expected, out, met[j], j + 1)
        BY <3>1, <3>2, <3>3, FoundMore
      <4> QED BY <3>1, <3>3, <4>1, <4>2
    <3> QED BY <3>4, <3>5
  <2>3. n \in P
    <3>1. n \in Nat
      OBVIOUS
    <3> HIDE DEF P
    <3> QED BY <2>1, <2>2, <3>1, UpTo
  <2> QED BY <2>3
<1>5. ASSUME NEW f, Found(f, expected, out, m, k)
      PROVE  met[k] = m
  <2> DEFINE P == {n \in 0..k : \A i \in 1..m : f[i] <= n => i <= met[n]}
  <2>1. 0 \in P
    BY <1>5 DEF Found
  <2>2. ASSUME NEW n \in 0..(k - 1), n \in P
        PROVE  n + 1 \in P
    <3>1. n + 1 \in 0..k /\ n \in 0..k
      OBVIOUS
    <3>2. met[n] \in 0..m /\ met[n + 1] \in 0..m /\ met[n] <= met[n + 1]
      <4>1. met[n] \in 0..m /\ met[n + 1] \in 0..m
        BY <1>4, <3>1
      <4>2. met[n + 1] = met[n] + 1 \/ met[n + 1] = met[n]
        BY <1>3
      <4> QED BY <4>1, <4>2
    <3>3. ASSUME NEW i \in 1..m, f[i] <= n + 1
          PROVE  i <= met[n + 1]
      <4>1. f[i] \in 1..k
        BY <1>5 DEF Found
      <4>2. CASE f[i] <= n
        BY <2>2, <3>2, <4>2
      <4>3. CASE f[i] = n + 1
        <5>1. i - 1 <= met[n]
          <6>1. CASE i = 1
            BY <3>2, <6>1
          <6>2. CASE i # 1
            <7>1. i - 1 \in 1..m /\ i - 1 < i
              BY <6>2
            <7>2. f[i - 1] < f[i] /\ f[i - 1] \in 1..k
              BY <1>5, <7>1 DEF Found
            <7>3. f[i - 1] <= n
              BY <4>3, <7>2
            <7> QED BY <2>2, <7>1, <7>3
          <6> QED BY <6>1, <6>2
        <5>2. CASE met[n] = i - 1
          <6>1. met[n] < m /\ met[n] + 1 = i /\ out[n + 1] = <<expected[i]>>
            BY <1>5, <4>3, <5>2 DEF Found
          <6>2. met[n + 1] = met[n] + 1
            BY <1>3, <6>1
          <6> QED BY <6>1, <6>2
        <5>3. CASE met[n] # i - 1
          BY <3>2, <5>1, <5>3
        <5> QED BY <5>2, <5>3
      <4> QED BY <3>3, <4>1, <4>2, <4>3
    <3> QED BY <3>1, <3>3
  <2>3. k \in P
    <3> HIDE DEF P
    <3> QED BY <2>1, <2>2, UpTo
  <2>4. met[k] \in 0..m
    BY <1>4
  <2>5. CASE m # 0
    <3>1. m \in 1..m /\ f[m] \in 1..k
      BY <1>5, <2>5 DEF Found
    <3>2. f[m] <= k
      BY <3>1
    <3>3. m <= met[k]
      BY <2>3, <3>1, <3>2
    <3> QED BY <2>4, <3>3
  <2> QED BY <2>4, <2>5
<1>6. InOrder(out, expected) <=> \E f : Found(f, expected, out, m, k)
  BY <1>1 DEF InOrder, Found
<1>7. k \in 0..k
  OBVIOUS
<1> QED
  BY <1>1, <1>2, <1>4, <1>5, <1>6, <1>7

(* A command is judged correct if it deserves it.                          *)
LEMMA JudgeIsFair ==
  ASSUME NEW S, NEW T, NEW expected \in Seq(S), NEW out \in Seq(T)
  PROVE  Judge(expected, out) = "correct" <=>
           \/ InOrder(out, expected)
           \/ \E c \in FirstCredit(out) : Credit[c][1] = Credit[c][2]
<1> DEFINE credits == {i \in DOMAIN out : \E c \in DOMAIN Credit : out[i] = <<c>>}
<1>1. PICK k \in Nat : DOMAIN out = 1..k
  BY LenProperties
<1>2. Met(expected, out) = Len(expected) <=> InOrder(out, expected)
  BY MetInOrder
<1>3. CASE credits = {}
  <2>1. FirstCredit(out) = {}
    BY <1>3 DEF FirstCredit
  <2> QED BY <1>2, <1>3, <2>1 DEF Judge
<1>4. CASE credits # {}
  <2>1. credits \subseteq Nat /\ credits \subseteq 1..k
    BY <1>1
  <2>2. PICK m \in credits : \A j \in credits : m <= j
    <3> HIDE DEF credits
    <3> QED BY <1>4, <2>1, Smallest
  <2>3. Min(credits) \in credits /\ \A j \in credits : Min(credits) <= j
    <3> HIDE DEF credits
    <3> QED BY <2>2, Zenon DEF Min
  <2>4. Min(credits) = m
    <3> HIDE DEF credits
    <3>1. m <= Min(credits) /\ Min(credits) <= m /\ m \in Nat /\ Min(credits) \in Nat
      BY <2>1, <2>2, <2>3
    <3> QED BY <3>1
  <2>5. FirstCredit(out) = {out[m][1]}
    <3> DEFINE first(j) == /\ \E c \in DOMAIN Credit : out[j] = <<c>>
                           /\ \A i \in 1..(j - 1) : \A c \in DOMAIN Credit : out[i] # <<c>>
    <3>1. ASSUME NEW j \in DOMAIN out, first(j)
          PROVE  j = m
      <4>1. j \in credits /\ m <= j
        BY <2>2, <3>1
      <4>2. ~(m \in 1..(j - 1))
        BY <3>1
      <4> QED BY <2>1, <4>1, <4>2
    <3>2. first(m) /\ m \in DOMAIN out
      <4>1. ASSUME NEW i \in 1..(m - 1), NEW c \in DOMAIN Credit, out[i] = <<c>>
            PROVE  FALSE
        <5>1. i \in credits
          BY <1>1, <2>1, <4>1
        <5> QED BY <2>1, <2>2, <5>1
      <4> QED BY <4>1
    <3> QED BY <3>1, <3>2 DEF FirstCredit
  <2>6. Judge(expected, out) = "correct" <=>
          (InOrder(out, expected) \/ Credit[out[m][1]][1] = Credit[out[m][1]][2])
    <3>1. Judge(expected, out) = "correct" <=>
            \/ Met(expected, out) = Len(expected)
            \/ credits # {} /\ Credit[out[Min(credits)][1]][1] = Credit[out[Min(credits)][1]][2]
      BY DEF Judge
    <3> HIDE DEF credits
    <3> QED BY <1>2, <1>4, <2>4, <3>1
  <2> HIDE DEF credits
  <2> QED BY <2>5, <2>6
<1> QED
  BY <1>3, <1>4

-----------------------------------------------------------------------------
(* The session that a list of commands is for.                             *)

(* The environments after a line.                                          *)
After(envs, l) ==
  IF l.name = Head(envs).end.name THEN Tail(envs)
  ELSE IF StartedBy(l) # NoConf THEN <<StartedBy(l)>> \o envs
  ELSE envs

(* h are the environments after each of the commands.                      *)
Sessions(h) ==
  /\ h \in [1..Len(commands) -> Seq(Environment)]
  /\ h[1] = <<KernelConf>>
  /\ \A i \in 2..Len(commands) : /\ h[i - 1] # <<>>
                                 /\ commands[i].line.prefix = Head(h[i - 1]).prefix
                                 /\ h[i] = After(h[i - 1], commands[i].line)
  /\ \A i \in 1..Len(commands) :
       commands[i].prompt = IF h[i] = <<>> THEN None ELSE Head(h[i]).prompt

PutIn(l) == StartedBy(l) # NoConf \/ \E c \in Range(AllConfs) : l = EndLine(c)

(* The first k lines that the test asks for are where f says, and all other *)
(* commands were put in.                                                   *)
Holds(f, k) ==
  /\ f \in [1..k -> 2..Len(commands)]
  /\ \A i \in 1..k : commands[f[i]].line = Asked[i]
  /\ \A i, j \in 1..k : i < j => f[i] < f[j]
  /\ \A n \in 2..Len(commands) : PutIn(commands[n].line) \/ \E i \in 1..k : f[i] = n

ToCome(pre, k) ==
  /\ pre \in Seq(CommandLine) /\ k \in 0..Len(Asked)
  /\ Remains(lines, pre, Asked, k)
  /\ \A i \in 1..Len(pre) : PutIn(pre[i])

Listed == \E h, f, pre, k :
  Sessions(h) /\ h[Len(commands)] = stack /\ Holds(f, k) /\ ToCome(pre, k)

ListedInv ==
  step \in {"loop", "done"} => /\ commands # <<>> /\ ConfsValid(Confs) /\ Listed
                               /\ \A i \in 1..Len(stack) : stack[i] \in Range(AllConfs)
                               /\ step = "done" => lines = <<>>

LEMMA SessionStays ==
  ASSUME test' = test
  PROVE  /\ \A l : StartedBy(l)' = StartedBy(l)
         /\ \A e, l : After(e, l)' = After(e, l)
         /\ \A l : PutIn(l)' <=> PutIn(l)
<1>1. AllConfs' = AllConfs
  BY DEF AllConfs, Confs
<1>2. ASSUME NEW l
      PROVE  StartedBy(l)' = StartedBy(l)
  <2>1. {i \in DOMAIN AllConfs' : AllConfs'[i].start = l} = {i \in DOMAIN AllConfs : AllConfs[i].start = l}
    BY <1>1
  <2> QED BY <1>1, <2>1, Zenon DEF StartedBy
<1>3. ASSUME NEW e, NEW l
      PROVE  After(e, l)' = After(e, l)
  BY <1>2 DEF After
<1>4. Range(AllConfs)' = Range(AllConfs)
  BY <1>1
<1>5. ASSUME NEW l
      PROVE  PutIn(l)' <=> PutIn(l)
  BY <1>2, <1>4 DEF PutIn
<1> QED
  BY <1>2, <1>3, <1>5

LEMMA AfterType ==
  ASSUME test \in Tests, NEW e \in Seq(Environment), e # <<>>, NEW l
  PROVE  After(e, l) \in Seq(Environment)
<1>1. Tail(e) \in Seq(Environment)
  BY HeadTailProperties
<1> PICK c : c = StartedBy(l)
  OBVIOUS
<1>2. c # NoConf => <<c>> \o e \in Seq(Environment)
  <2> SUFFICES ASSUME c # NoConf
               PROVE  <<c>> \o e \in Seq(Environment)
    OBVIOUS
  <2>1. c \in Environment
    BY ConfTypes
  <2>2. <<c>> \in Seq(Environment)
    BY <2>1
  <2> QED BY <2>2, ConcatProperties
<1> QED
  BY <1>1, <1>2 DEF After

LEMMA ListedAlone ==
  ASSUME test \in Tests, test' = test, commands' = commands, stack' = stack, ListedInv, step = "loop",
         step' \in {"loop", "done"}, step' = "done" => lines' = <<>>,
         \A pre, k : ToCome(pre, k) => \E pre2 : ToCome(pre2, k)'
  PROVE  ListedInv'
<1>1. PICK h, f, pre, k : Sessions(h) /\ h[Len(commands)] = stack /\ Holds(f, k) /\ ToCome(pre, k)
  BY DEF ListedInv, Listed
<1>2. Asked' = Asked /\ Range(AllConfs)' = Range(AllConfs) /\ (ConfsValid(Confs)' <=> ConfsValid(Confs))
  BY TestStays
<1>3. /\ \A e, l : After(e, l)' = After(e, l)
      /\ \A l : PutIn(l)' <=> PutIn(l)
  BY SessionStays
<1>4. Sessions(h)' <=> Sessions(h)
  BY <1>3 DEF Sessions
<1>5. Holds(f, k)' <=> Holds(f, k)
  BY <1>2, <1>3 DEF Holds
<1>6. Listed'
  BY <1>1, <1>4, <1>5 DEF Listed
<1> QED
  BY <1>2, <1>6 DEF ListedInv

LEMMA CheckLists ==
  ASSUME ListInv, Check, ConfsValid(Confs)
  PROVE  ListedInv'
<1>1. /\ test \in Tests /\ test' = test /\ step' = "loop" /\ stack' = <<KernelConf>> /\ lines' = Asked
      /\ commands' = <<Boot>>
  BY DEF ListInv, ListTypeOK, Check, Asked
<1>2. Asked' = Asked /\ Range(AllConfs)' = Range(AllConfs) /\ ConfsValid(Confs)'
  BY <1>1, TestStays
<1>3. Asked \in Seq(CommandLine) /\ Len(Asked) \in Nat
  BY <1>1, AskedType
<1>4. ToCome(<<>>, 0)'
  <2>1. Remains(Asked, <<>>, Asked, 0)
    BY <1>3, PartFull, ConcatEmptySeq DEF Remains
  <2>2. Len(<<>>) = 0 /\ 1..0 = {} /\ 0 \in 0..Len(Asked)
    BY <1>3
  <2> QED BY <1>1, <1>2, <2>1, <2>2, EmptySeq DEF ToCome
<1>5. Len(commands') = 1 /\ commands'[1] = Boot /\ 2..1 = {} /\ commands' # <<>>
  BY <1>1
<1> DEFINE f == [i \in 1..0 |-> 2]
           h == [i \in 1..1 |-> <<KernelConf>>]
<1>6. Holds(f, 0)'
  <2>1. 1..0 = {} /\ f \in [1..0 -> 2..1]
    OBVIOUS
  <2> HIDE DEF f
  <2> QED BY <1>5, <2>1 DEF Holds
<1>7. Sessions(h)' /\ h[1] = <<KernelConf>>
  <2>1. <<KernelConf>> \in Seq(Environment) /\ <<KernelConf>> # <<>> /\ Head(<<KernelConf>>) = KernelConf
    BY EnvironmentTypes
  <2>2. h \in [1..1 -> Seq(Environment)] /\ h[1] = <<KernelConf>>
    BY <2>1
  <2>3. Boot.prompt = KernelConf.prompt
    BY DEF Boot, KernelConf
  <2> HIDE DEF h
  <2>4. \A i \in 1..1 : i = 1
    OBVIOUS
  <2> QED BY <1>5, <2>1, <2>2, <2>3, <2>4 DEF Sessions
<1>8. Len(stack') = 1 /\ stack'[1] = KernelConf /\ KernelConf \in Range(AllConfs)
  BY <1>1, AllEnvironments
<1>9. Listed'
  <2> HIDE DEF f, h
  <2>1. h[Len(commands')] = stack'
    BY <1>1, <1>5, <1>7
  <2> QED BY <1>4, <1>6, <1>7, <2>1 DEF Listed
<1>10. \A i \in 1..Len(stack') : stack'[i] \in Range(AllConfs)
  BY <1>8
<1> QED
  BY <1>1, <1>2, <1>5, <1>9, <1>10 DEF ListedInv

LEMMA FrontToCome ==
  ASSUME test \in Tests, NEW pre, NEW k, ToCome(pre, k)
  PROVE  /\ lines = <<>> => pre = <<>> /\ k = Len(Asked)
         /\ lines # <<>> =>
              \/ /\ pre # <<>> /\ Tail(pre) \in Seq(CommandLine) /\ Head(lines) = pre[1] /\ 1 \in 1..Len(pre)
                 /\ Remains(Tail(lines), Tail(pre), Asked, k)
              \/ /\ pre = <<>> /\ k + 1 \in 1..Len(Asked) /\ Head(lines) = Asked[k + 1]
                 /\ Remains(Tail(lines), <<>>, Asked, k + 1)
<1>1. PICK asked : asked = Asked
  OBVIOUS
<1>2. PICK all : all = lines
  OBVIOUS
<1>3. asked \in Seq(CommandLine)
  BY <1>1, AskedType
<1>4. pre \in Seq(CommandLine) /\ k \in 0..Len(asked) /\ Remains(all, pre, asked, k)
  BY <1>1, <1>2 DEF ToCome
<1>5. /\ all = <<>> => pre = <<>> /\ k = Len(asked)
      /\ all # <<>> =>
           \/ /\ pre # <<>> /\ Tail(pre) \in Seq(CommandLine) /\ Head(all) = pre[1] /\ 1 \in 1..Len(pre)
              /\ Remains(Tail(all), Tail(pre), asked, k)
           \/ /\ pre = <<>> /\ k + 1 \in 1..Len(asked) /\ Head(all) = asked[k + 1]
              /\ Remains(Tail(all), <<>>, asked, k + 1)
  BY <1>3, <1>4, FrontOf, Zenon
<1> QED
  BY <1>1, <1>2, <1>5, Zenon

(* A line put before the others.                                           *)
LEMMA PutInFront ==
  ASSUME test \in Tests, test' = test, NEW x \in CommandLine, PutIn(x), lines' = <<x>> \o lines,
         NEW pre, NEW k, ToCome(pre, k)
  PROVE  \E pre2 : ToCome(pre2, k)'
<1>1. PICK asked : asked = Asked
  OBVIOUS
<1>2. PICK all : all = lines
  OBVIOUS
<1>3. asked \in Seq(CommandLine) /\ Asked' = Asked /\ \A l : PutIn(l)' <=> PutIn(l)
  BY <1>1, AskedType, TestStays, SessionStays
<1>4. pre \in Seq(CommandLine) /\ k \in 0..Len(asked) /\ Remains(all, pre, asked, k)
  BY <1>1, <1>2 DEF ToCome
<1>5. /\ Remains(<<x>> \o all, <<x>> \o pre, asked, k) /\ <<x>> \o pre \in Seq(CommandLine)
      /\ \A i \in 1..Len(<<x>> \o pre) :
           (<<x>> \o pre)[i] = x \/ \E j \in 1..Len(pre) : (<<x>> \o pre)[i] = pre[j]
  BY <1>3, <1>4, PutBefore
<1> PICK put : put = <<x>> \o pre
  OBVIOUS
<1>6. \A i \in 1..Len(put) : PutIn(put[i])
  <2>1. \A j \in 1..Len(pre) : PutIn(pre[j])
    BY DEF ToCome
  <2> QED BY <1>5, <2>1
<1>7. ToCome(put, k)'
  BY <1>1, <1>2, <1>3, <1>4, <1>5, <1>6 DEF ToCome
<1> QED
  BY <1>7

LEMMA CleanUpLists ==
  ASSUME ListInv, ListedInv, CleanUp
  PROVE  ListedInv'
<1>1. /\ test \in Tests /\ test' = test /\ commands' = commands /\ step = "loop" /\ step' = step
      /\ stack' = stack /\ lines = <<>> /\ stack # <<>> /\ stack \in Seq(Environment)
      /\ lines' = <<EndLine(Current)>>
  BY DEF ListInv, ListTypeOK, CleanUp, Loop, Current
<1> PICK x : x = EndLine(Current)
  OBVIOUS
<1>2. x \in CommandLine /\ PutIn(x)
  <2>1. 1 \in 1..Len(stack) /\ Current = stack[1]
    BY <1>1 DEF Current
  <2>2. Current \in Range(AllConfs) /\ Current \in Environment
    BY <1>1, <2>1, AllEnvironments DEF ListedInv
  <2> QED BY <2>2, EnvironmentTypes DEF PutIn
<1>3. lines' = <<x>> \o lines
  BY <1>1, <1>2
<1>4. \A pre, k : ToCome(pre, k) => \E pre2 : ToCome(pre2, k)'
  BY <1>1, <1>2, <1>3, PutInFront
<1>5. step' \in {"loop", "done"} /\ step' # "done"
  BY <1>1
<1> QED
  BY <1>1, <1>4, <1>5, ListedAlone

LEMMA ChangeEnvironmentLists ==
  ASSUME ListInv, ListedInv, NEW l, ChangeEnvironment(l)
  PROVE  ListedInv'
<1> PICK x : x = IF ConfOf(l) = KernelConf THEN EndLine(Current) ELSE ConfOf(l).start
  OBVIOUS
<1>1. /\ test \in Tests /\ test' = test /\ commands' = commands /\ step = "loop" /\ step' = step
      /\ stack' = stack /\ stack # <<>> /\ stack \in Seq(Environment)
      /\ lines' = <<x>> \o lines /\ ConfOf(l) # NoConf
  BY DEF ListInv, ListTypeOK, ChangeEnvironment, AtLine, Loop
<1>2. x \in CommandLine /\ PutIn(x)
  <2>1. CASE ConfOf(l) = KernelConf
    <3>1. 1 \in 1..Len(stack) /\ Current = stack[1]
      BY <1>1 DEF Current
    <3>2. Current \in Range(AllConfs) /\ Current \in Environment
      BY <1>1, <3>1, AllEnvironments DEF ListedInv
    <3> QED BY <2>1, <3>2, EnvironmentTypes DEF PutIn
  <2>2. CASE ConfOf(l) # KernelConf
    <3>1. ConfOf(l) \in Range(AllConfs) /\ ConfOf(l) \in Environment
      BY <1>1, ConfOfLine, AllEnvironments
    <3>2. x = ConfOf(l).start /\ x \in CommandLine
      BY <2>2, <3>1 DEF Environment
    <3>3. PICK c \in Range(AllConfs) : c.start = x
      BY <3>1, <3>2
    <3>4. StartedBy(x) # NoConf
      <4> DEFINE some == {i \in DOMAIN AllConfs : AllConfs[i].start = x}
      <4>1. PICK i \in DOMAIN AllConfs : AllConfs[i] = c
        BY <3>3 DEF Range
      <4>2. some \in SUBSET (DOMAIN AllConfs) /\ some # {}
        BY <3>3, <4>1
      <4>3. StartedBy(x) = FirstOf(AllConfs, some)
        BY DEF StartedBy
      <4> HIDE DEF some
      <4> QED BY <1>1, <4>2, <4>3, FirstExists, AllEnvironments
    <3> QED BY <3>2, <3>4 DEF PutIn
  <2> QED BY <2>1, <2>2
<1>3. \A pre, k : ToCome(pre, k) => \E pre2 : ToCome(pre2, k)'
  BY <1>1, <1>2, PutInFront
<1>4. step' \in {"loop", "done"} /\ step' # "done"
  BY <1>1
<1> QED
  BY <1>1, <1>3, <1>4, ListedAlone

LEMMA KernelLeftLists ==
  ASSUME ListInv, ListedInv, KernelLeft
  PROVE  ListedInv'
<1>1. /\ test \in Tests /\ test' = test /\ commands' = commands /\ step = "loop"
      /\ step' = (IF lines = <<>> THEN "done" ELSE "failed")
      /\ stack' = stack /\ lines' = lines
  BY DEF ListInv, ListTypeOK, KernelLeft, Loop
<1>2. CASE lines = <<>>
  <2>1. Asked' = Asked /\ \A l : PutIn(l)' <=> PutIn(l)
    BY <1>1, TestStays, SessionStays
  <2>2. \A pre, k : ToCome(pre, k) => ToCome(pre, k)'
    BY <1>1, <2>1 DEF ToCome
  <2>3. step' = "done" /\ step' \in {"loop", "done"} /\ lines' = <<>>
    BY <1>1, <1>2
  <2> QED BY <1>1, <2>2, <2>3, ListedAlone
<1>3. CASE lines # <<>>
  BY <1>1, <1>3 DEF ListedInv
<1> QED
  BY <1>2, <1>3

(* A line that is typed.                                                   *)
LEMMA TakeLineLists ==
  ASSUME ListInv, ListedInv, NEW l, TakeLine(l)
  PROVE  ListedInv'
<1>1. /\ test \in Tests /\ test' = test /\ step = "loop" /\ step' = step
      /\ stack # <<>> /\ stack \in Seq(Environment) /\ commands \in Seq(CommandRecord)
      /\ lines # <<>> /\ lines' = Tail(lines) /\ l = Head(lines) /\ ConfOf(l) # NoConf /\ ConfOf(l) = Current
      /\ commands # <<>> /\ ConfsValid(Confs)
      /\ \A i \in 1..Len(stack) : stack[i] \in Range(AllConfs)
  BY DEF ListInv, ListTypeOK, ListedInv, TakeLine, AtLine, Loop
<1>2. stack' = After(stack, l)
  BY Zenon DEF TakeLine, After, Current
<1> PICK new : new = [line |-> l,
                      type |-> IF (IF Len(stack') > Len(stack) THEN Head(stack') ELSE Current).prefix # None
                                     \/ l.name \in UserNames THEN "user" ELSE "kernel",
                      prompt |-> IF stack' = <<>> THEN None ELSE Head(stack').prompt]
  OBVIOUS
<1>3. commands' = Append(commands, new)
  BY DEF TakeLine, AddCommand
<1>4. new.line = l /\ new.prompt = IF stack' = <<>> THEN None ELSE Head(stack').prompt
  OBVIOUS
<1>5. PICK n \in Nat \ {0} : n = Len(commands)
  BY <1>1, LenProperties, EmptySeq
<1>6. Len(commands') = n + 1 /\ commands'[n + 1] = new /\ \A i \in 1..n : commands'[i] = commands[i]
  <2> DEFINE S == CommandRecord \cup {new}
  <2>1. commands \in Seq(S) /\ new \in S
    BY <1>1
  <2> HIDE DEF S
  <2>2. /\ Len(Append(commands, new)) = Len(commands) + 1
        /\ \A i \in 1..Len(commands) : Append(commands, new)[i] = commands[i]
        /\ Append(commands, new)[Len(commands) + 1] = new
    BY <2>1, AppendProperties
  <2> QED BY <1>3, <1>5, <2>2
<1>7. stack' \in Seq(Environment)
  BY <1>1, <1>2, AfterType
<1>8. PICK h, f, pre, k : Sessions(h) /\ h[n] = stack /\ Holds(f, k) /\ ToCome(pre, k)
  BY <1>1, <1>5 DEF ListedInv, Listed
<1>9. /\ Asked' = Asked /\ Range(AllConfs)' = Range(AllConfs) /\ ConfsValid(Confs)'
      /\ \A e, x : After(e, x)' = After(e, x)
      /\ \A x : PutIn(x)' <=> PutIn(x)
  BY <1>1, TestStays, SessionStays
<1>10. \A i \in 1..(n + 1) : i = n + 1 \/ i \in 1..n
  OBVIOUS
<1>11. Len(commands) = n /\ Len(commands') = n + 1 /\ n + 1 \in 1..(n + 1)
  BY <1>5, <1>6
<1> PICK top : top = stack'
  OBVIOUS
<1> DEFINE g == [i \in 1..(n + 1) |-> IF i = n + 1 THEN top ELSE h[i]]
<1>12. g[n + 1] = stack' /\ \A i \in 1..n : g[i] = h[i] /\ h[i] \in Seq(Environment)
  BY <1>8, <1>11 DEF Sessions
<1>13. g \in [1..(n + 1) -> Seq(Environment)]
  <2>1. \A i \in 1..(n + 1) : g[i] \in Seq(Environment)
    <3> HIDE DEF g
    <3> QED BY <1>7, <1>10, <1>12
  <2> QED BY <2>1
<1> HIDE DEF g
<1>14. Sessions(g)'
  <2>1. g[1] = <<KernelConf>>
    <3>1. 1 \in 1..n
      OBVIOUS
    <3> QED BY <1>8, <1>12, <3>1 DEF Sessions
  <2>2. ASSUME NEW i \in 2..(n + 1)
        PROVE  /\ g[i - 1] # <<>>
               /\ commands'[i].line.prefix = Head(g[i - 1]).prefix
               /\ g[i] = After(g[i - 1], commands'[i].line)
    <3>1. CASE i = n + 1
      <4>1. i - 1 = n /\ g[i - 1] = stack
        <5>1. i - 1 = n /\ n \in 1..n
          BY <3>1
        <5> QED BY <1>8, <1>12, <5>1
      <4>2. Head(stack).prefix = l.prefix
        BY <1>1, ConfOfLine DEF Current
      <4>3. commands'[i].line = l /\ g[i] = After(stack, l)
        BY <1>2, <1>4, <1>6, <1>12, <3>1
      <4> QED BY <1>1, <4>1, <4>2, <4>3
    <3>2. CASE i # n + 1
      <4>1. i \in 2..n /\ i \in 1..n /\ i - 1 \in 1..n
        BY <3>2
      <4> QED BY <1>6, <1>8, <1>11, <1>12, <4>1 DEF Sessions
    <3> QED BY <3>1, <3>2
  <2>3. ASSUME NEW i \in 1..(n + 1)
        PROVE  commands'[i].prompt = IF g[i] = <<>> THEN None ELSE Head(g[i]).prompt
    <3>1. CASE i = n + 1
      BY <1>4, <1>6, <1>12, <3>1
    <3>2. CASE i \in 1..n
      BY <1>6, <1>8, <1>11, <1>12, <3>2 DEF Sessions
    <3> QED BY <1>10, <3>1, <3>2
  <2>4. \A i \in 2..(n + 1) : g[i] = After(g[i - 1], commands[i].line)'
    BY <1>9, <2>2
  <2> QED BY <1>11, <1>13, <2>1, <2>2, <2>3, <2>4 DEF Sessions
<1>15. PICK m \in Nat : m = Len(Asked)
  BY <1>1, AskedType
<1>16. pre \in Seq(CommandLine) /\ k \in 0..m /\ k \in Nat /\ \A i \in 1..Len(pre) : PutIn(pre[i])
  BY <1>8, <1>15 DEF ToCome
<1>17. /\ f \in [1..k -> 2..n]
       /\ \A i \in 1..k : f[i] \in 2..n /\ f[i] \in 1..n /\ f[i] \in 2..(n + 1) /\ commands'[f[i]].line = Asked[i]
       /\ \A i, j \in 1..k : i < j => f[i] < f[j]
       /\ \A j \in 2..n : commands'[j] = commands[j] /\ (PutIn(commands[j].line) \/ \E i \in 1..k : f[i] = j)
  <2>1. f \in [1..k -> 2..n] /\ \A i \in 1..k : commands[f[i]].line = Asked[i]
    BY <1>8, <1>11 DEF Holds
  <2>2. \A i \in 1..k : f[i] \in 2..n
    BY <2>1
  <2>3. \A j \in 2..n : j \in 1..n /\ j \in 2..(n + 1) /\ commands'[j] = commands[j]
    BY <1>6
  <2>4. /\ \A i, j \in 1..k : i < j => f[i] < f[j]
        /\ \A j \in 2..n : PutIn(commands[j].line) \/ \E i \in 1..k : f[i] = j
    BY <1>8, <1>11 DEF Holds
  <2> QED BY <2>1, <2>2, <2>3, <2>4
<1>18. \A j \in 2..(n + 1) : j = n + 1 \/ j \in 2..n
  OBVIOUS
<1>19. \E f2, pre2, k2 : Holds(f2, k2)' /\ ToCome(pre2, k2)'
  <2>1. CASE pre # <<>>
    <3>1. Tail(pre) \in Seq(CommandLine) /\ l = pre[1] /\ 1 \in 1..Len(pre) /\ Remains(lines', Tail(pre), Asked, k)
      BY <1>1, <1>8, <2>1, FrontToCome
    <3>2. PutIn(l) /\ \A i \in 1..Len(Tail(pre)) : PutIn(Tail(pre)[i])
      BY <1>16, <2>1, <3>1, TailIs
    <3> PICK left : left = Tail(pre)
      OBVIOUS
    <3>3. ToCome(left, k)'
      BY <1>9, <1>15, <1>16, <3>1, <3>2 DEF ToCome
    <3>4. Holds(f, k)'
      <4>1. f \in [1..k -> 2..(n + 1)]
        BY <1>17
      <4>2. \A j \in 2..(n + 1) : PutIn(commands'[j].line) \/ \E i \in 1..k : f[i] = j
        <5> TAKE j \in 2..(n + 1)
        <5>1. CASE j = n + 1
          BY <1>4, <1>6, <3>2, <5>1
        <5>2. CASE j \in 2..n
          BY <1>17, <5>2
        <5> QED BY <1>18, <5>1, <5>2
      <4>3. \A j \in 2..(n + 1) : PutIn(commands[j].line)' \/ \E i \in 1..k : f[i] = j
        BY <1>9, <4>2 DEF PutIn
      <4> QED BY <1>9, <1>11, <1>17, <4>1, <4>3 DEF Holds
    <3> QED BY <3>3, <3>4
  <2>2. CASE pre = <<>>
    <3>1. k + 1 \in 1..m /\ l = Asked[k + 1] /\ Remains(lines', <<>>, Asked, k + 1)
      BY <1>1, <1>8, <1>15, <2>2, FrontToCome
    <3> PICK k2 \in Nat : k2 = k + 1 /\ k2 \in 0..m
      BY <1>16, <3>1
    <3>2. ToCome(<<>>, k2)'
      <4>1. Len(<<>>) = 0 /\ 1..0 = {} /\ <<>> \in Seq(CommandLine)
        OBVIOUS
      <4> QED BY <1>9, <1>15, <3>1, <4>1 DEF ToCome
    <3> DEFINE f2 == [i \in 1..k2 |-> IF i = k2 THEN n + 1 ELSE f[i]]
    <3>3. \A i \in 1..k2 : i = k2 \/ i \in 1..k
      BY <1>16
    <3>4. f2[k2] = n + 1 /\ \A i \in 1..k : f2[i] = f[i] /\ i \in 1..k2 /\ i < k2
      <4>1. k2 \in 1..k2 /\ \A i \in 1..k : i \in 1..k2 /\ i # k2 /\ i < k2
        BY <1>16
      <4> QED BY <4>1
    <3>5. f2 \in [1..k2 -> 2..(n + 1)]
      <4>1. \A i \in 1..k2 : f2[i] \in 2..(n + 1)
        <5>1. n + 1 \in 2..(n + 1)
          OBVIOUS
        <5> HIDE DEF f2
        <5> QED BY <1>17, <3>3, <3>4, <5>1
      <4> QED BY <4>1
    <3> HIDE DEF f2
    <3>6. \A i \in 1..k2 : commands'[f2[i]].line = Asked[i]
      BY <1>4, <1>6, <1>17, <3>1, <3>3, <3>4
    <3>7. ASSUME NEW i \in 1..k2, NEW j \in 1..k2, i < j
          PROVE  f2[i] < f2[j]
      <4>1. i \in 1..k
        BY <3>3, <3>7
      <4>2. f2[i] = f[i] /\ f[i] \in 2..n
        BY <1>17, <3>4, <4>1
      <4>3. CASE j = k2
        BY <3>4, <4>2, <4>3
      <4>4. CASE j \in 1..k
        BY <1>17, <3>4, <3>7, <4>1, <4>4
      <4> QED BY <3>3, <4>3, <4>4
    <3>8. ASSUME NEW j \in 2..(n + 1)
          PROVE  PutIn(commands'[j].line) \/ \E i \in 1..k2 : f2[i] = j
      <4>1. CASE j = n + 1
        <5>1. k2 \in 1..k2
          BY <1>16
        <5> QED BY <3>4, <4>1, <5>1
      <4>2. CASE j \in 2..n
        <5>1. commands'[j] = commands[j] /\ (PutIn(commands[j].line) \/ \E i \in 1..k : f[i] = j)
          BY <1>17, <4>2
        <5> QED BY <3>4, <5>1
      <4> QED BY <1>18, <4>1, <4>2
    <3>9. \A j \in 2..(n + 1) : PutIn(commands[j].line)' \/ \E i \in 1..k2 : f2[i] = j
      BY <1>9, <3>8 DEF PutIn
    <3>10. Holds(f2, k2)'
      BY <1>9, <1>11, <3>5, <3>6, <3>7, <3>9 DEF Holds
    <3> QED BY <3>2, <3>10
  <2> QED BY <2>1, <2>2
<1>20. ASSUME NEW i \in 1..Len(stack')
       PROVE  stack'[i] \in Range(AllConfs)
  <2> PICK c : c = StartedBy(l)
    OBVIOUS
  <2>1. CASE stack' = Tail(stack)
    BY <1>1, <2>1, TailIs
  <2>2. CASE stack' = stack
    BY <1>1, <2>2
  <2>3. CASE c # NoConf /\ stack' = <<c>> \o stack
    <3>1. c \in Range(AllConfs)
      BY <1>1, <2>3, StarterIs
    <3>2. <<c>> \in Seq(Range(AllConfs)) /\ stack \in Seq(Range(AllConfs))
      BY <1>1, <3>1
    <3>3. stack' \in Seq(Range(AllConfs))
      BY <2>3, <3>2, ConcatProperties
    <3> QED BY <3>3, ElementOfSeq
  <2> QED BY <1>2, <2>1, <2>2, <2>3 DEF After
<1>21. Listed'
  BY <1>11, <1>12, <1>14, <1>19 DEF Listed
<1>22. commands' # <<>> /\ step' # "done"
  <2>1. Len(<<>>) = 0
    OBVIOUS
  <2> QED BY <1>1, <1>6, <2>1
<1> QED
  BY <1>9, <1>20, <1>21, <1>22 DEF ListedInv

LEMMA ListNextLists ==
  ASSUME ListInv, ListedInv, ListNext
  PROVE  ListedInv'
<1>1. CASE LoopsExceeded
  BY <1>1 DEF LoopsExceeded, ListedInv
<1>2. CASE BadLine
  BY <1>2 DEF BadLine, ListedInv
<1>3. CASE Check
  <2>1. CASE ~ConfsValid(Confs)
    BY <1>3, <2>1 DEF Check, ListedInv
  <2> QED BY <1>3, <2>1, CheckLists
<1>4. ASSUME NEW l, ChangeEnvironment(l) \/ TakeLine(l)
      PROVE  ListedInv'
  BY <1>4, ChangeEnvironmentLists, TakeLineLists
<1> QED
  BY <1>1, <1>2, <1>3, <1>4, KernelLeftLists, CleanUpLists DEF ListNext

LEMMA ListedStays ==
  ASSUME ListedInv, UNCHANGED listVars
  PROVE  ListedInv'
<1>1. test' = test /\ lines' = lines /\ stack' = stack /\ step' = step /\ commands' = commands
  BY DEF listVars
<1>2. /\ Asked' = Asked /\ Range(AllConfs)' = Range(AllConfs) /\ (ConfsValid(Confs)' <=> ConfsValid(Confs))
      /\ \A e, l : After(e, l)' = After(e, l)
      /\ \A l : PutIn(l)' <=> PutIn(l)
  BY <1>1, TestStays, SessionStays
<1>3. \A h : Sessions(h)' <=> Sessions(h)
  BY <1>1, <1>2 DEF Sessions
<1>4. \A f, k : Holds(f, k)' <=> Holds(f, k)
  BY <1>1, <1>2 DEF Holds
<1>5. \A pre, k : ToCome(pre, k)' <=> ToCome(pre, k)
  BY <1>1, <1>2 DEF ToCome
<1>6. Listed' <=> Listed
  BY <1>1, <1>3, <1>4, <1>5 DEF Listed
<1> QED
  BY <1>1, <1>2, <1>6 DEF ListedInv

-----------------------------------------------------------------------------
(* What a verdict stands for.                                              *)

AtCommand == pc \in {"expect", "waiting", "send", "answered"}
Alive == pc \notin {"draining", "done"}

(* No character was lost, or what is lost is sent again.                   *)
Exact == test.retry \/ dropped = 0

Name == Command.line.name

(* The machine has got the line of the current command.                    *)
Heard == Len(executed) = counter - 1

(* The echoed characters that were taken out of the buffer, one by one.    *)
Skip == IF test.retry /\ counter # 1 THEN (2 - Len(rest)) + (IF Got("match") THEN 1 ELSE 0) ELSE 0

Shape ==
  /\ dropped \in Nat /\ tries \in Nat
  /\ ~test.retry \/ counter = 1 => rest = <<>>
  /\ Len(rest) = 2 => rest[1] = Name
  /\ Got("timeout") \/ Got("eof") => ~Matches(Pattern, buffer)
  /\ readStatus = "eof" => Got("eof") \/ pc \in {"close", "draining", "done"}

(* The machine ran the commands as they are listed, up to the current one. *)
Ran ==
  /\ executed \in Seq(CommandLine)
  /\ Len(executed) < counter
  /\ \A j \in 1..Len(executed) : executed[j] = commands[j + 1].line

(* It is in the environments that the session has it in.                   *)
InSession(h) == Alive =>
  /\ machine.state = "ready" =>
       /\ Len(spoken) = Len(executed) + 2
       /\ machine.envs = h[Len(executed) + 1]
       /\ machine.typed = spoken[Len(spoken)]
  /\ machine.state \in {"hung", "down"} => Heard /\ ~NextPrompt
  /\ pc = "top" => machine.state = "ready" /\ counter # 1
  /\ machine.state = "hung" => faulty
  /\ machine.state = "down" /\ ~faulty => h[counter] = <<>>

(* How far the line is on its way.                                         *)
Unheard ==
  /\ machine.state = "ready"
  /\ IF ~test.retry THEN \/ Segment = <<>> /\ input = <<Name, Newline>>
                         \/ Segment = <<Name>> /\ input = <<Newline>>
     ELSE \/ Len(rest) = 2 /\ Segment = <<>> /\ input \in {<<>>, <<Name>>}
          \/ Len(rest) = 2 /\ Segment = <<Name>> /\ input = <<>> /\ pc # "send"
          \/ Len(rest) = 1 /\ Segment = <<Name>> /\ input \in {<<>>, <<Newline>>}
  /\ pc = "send" => input = <<>>

OnItsWay == AtCommand /\ counter # 1 =>
  IF Heard THEN /\ Len(Segment) >= 2 /\ Segment[1] = Name /\ Segment[2] = Newline
                /\ Len(rest) # 2 /\ pc # "send"
  ELSE Unheard

(* A prompt is the one that Run is waiting for.                            *)
Prompting == Alive /\ NextPrompt =>
  /\ Len(Segment) >= IF counter = 1 THEN 2 ELSE 4
  /\ EndsIn(Segment, Command.prompt)

(* The buffer begins behind what was matched, and not before.              *)
Buffered == AtCommand /\ ~(Got("match") /\ rest = <<>>) =>
  \E k \in Skip..Len(Segment) : Flowing(Segment, queue, tty, k) /\ buffer = Part(Segment, Skip, k)

(* A character is sent again only when it was lost.                        *)
Lost == AtCommand =>
  /\ tries <= dropped
  /\ pc # "send" /\ rest # <<>> /\ ~Heard /\ input = <<>> /\ Len(Segment) = 2 - Len(rest) => tries < dropped

JudgedCorrect == \A i \in 1..(counter - 1) : Judge(Expected(commands[i]), output[i]) = "correct"

Closed == pc \in {"close", "draining", "done"}

Verdicts ==
  /\ allCorrect => JudgedCorrect
  /\ allCorrect /\ Closed => counter = Len(commands) /\ rest = <<>> /\ (Exact => Heard)
  /\ Healthy /\ JudgedCorrect => allCorrect

Exactly(h) == Ran /\ InSession(h) /\ OnItsWay /\ Prompting /\ Buffered /\ (test.retry => Lost)

Session(h) == Sessions(h) /\ h[Len(commands)] = <<>>

Deserving(h) == Session(h) /\ Shape /\ (Exact => Exactly(h)) /\ Verdicts

-----------------------------------------------------------------------------
(* What holds of the state that a step finds. *)

LEMMA SessionIsSame ==
  ASSUME UNCHANGED <<test, commands>>, NEW h, Session(h)
  PROVE  Session(h)'
<1>1. \A e, l : After(e, l)' = After(e, l)
  BY SessionStays
<1>2. Sessions(h)' <=> Sessions(h)
  BY <1>1 DEF Sessions
<1> QED
  BY <1>2 DEF Session

LEMMA Lengths ==
  ASSUME Started
  PROVE  /\ counter \in Nat \ {0} /\ counter <= Len(commands) /\ Len(commands) \in Nat
         /\ Len(spoken) \in Nat /\ (Len(spoken) = counter \/ Len(spoken) = counter + 1)
         /\ (NextPrompt <=> Len(spoken) = counter + 1)
         /\ Segment \in Seq(Character) /\ Len(Segment) \in Nat /\ Segment = spoken[counter]
         /\ Name \in Word /\ Name # Newline /\ Name \in Character /\ Newline \in Character
         /\ rest \in Rests /\ (rest = <<>> \/ Len(rest) = 1 \/ Len(rest) = 2) /\ (rest = <<>> <=> Len(rest) = 0)
         /\ (Len(rest) = 1 => rest = <<Newline>>) /\ (Len(rest) = 2 => rest[2] = Newline)
         /\ machine.state \in {"booting", "ready", "hung", "down"}
         /\ machine \in Machines /\ spoken \in Seq(Seq(Character))
         /\ queue \in Seq(Seq(Character)) /\ tty \in Seq(Character) /\ buffer \in Seq(Character)
<1>1. State /\ ListInv
  BY DEF Started
<1>2. Name \in Word
  BY <1>1, CommandName DEF Name
<1>3. Name # Newline /\ Name \in Character /\ Newline \in Character
  BY <1>2, CharacterTypes
<1>4. rest \in Rests
  BY <1>1 DEF State, RunTypes
<1>5. /\ rest = <<>> \/ Len(rest) = 1 \/ Len(rest) = 2
      /\ rest = <<>> <=> Len(rest) = 0
      /\ Len(rest) = 1 => rest = <<Newline>>
      /\ Len(rest) = 2 => rest[2] = Newline
  <2>1. CASE rest = <<>>
    BY <2>1
  <2>2. CASE rest = <<Newline>>
    BY <2>2
  <2>3. CASE \E w \in Word : rest = <<w, Newline>>
    BY <2>3
  <2> QED BY <1>4, <2>1, <2>2, <2>3 DEF Rests
<1>6. machine \in Machines /\ spoken \in Seq(Seq(Character))
      /\ queue \in Seq(Seq(Character)) /\ tty \in Seq(Character) /\ buffer \in Seq(Character)
  BY <1>1 DEF State, TextTypes
<1>7. machine.state \in {"booting", "ready", "hung", "down"}
  BY <1>6 DEF Machines
<1>8. Len(spoken) = counter \/ Len(spoken) = counter + 1
  BY <1>1 DEF State, Segments, NextPrompt
<1> QED
  BY <1>1, <1>2, <1>3, <1>4, <1>5, <1>6, <1>7, <1>8, SegmentType DEF NextPrompt, Segment

(* What only the texts on their way, and the reader, change.               *)
LEMMA ReaderKeepsParts ==
  ASSUME UNCHANGED <<listVars, run, record, expect, world>>
  PROVE  /\ Shape' <=> Shape
         /\ Ran' <=> Ran
         /\ OnItsWay' <=> OnItsWay
         /\ Prompting' <=> Prompting
         /\ Lost' <=> Lost
         /\ Verdicts' <=> Verdicts
         /\ \A h : InSession(h)' <=> InSession(h)
         /\ Exact' <=> Exact
         /\ test' = test /\ commands' = commands
         /\ AtCommand' <=> AtCommand
         /\ (Got("match") /\ rest = <<>>)' <=> Got("match") /\ rest = <<>>
         /\ Skip' = Skip /\ Segment' = Segment /\ buffer' = buffer
<1>1. /\ test' = test /\ commands' = commands /\ pc' = pc /\ counter' = counter /\ rest' = rest
      /\ tries' = tries /\ answer' = answer /\ allCorrect' = allCorrect
      /\ output' = output /\ buffer' = buffer /\ readStatus' = readStatus
      /\ input' = input /\ machine' = machine /\ dropped' = dropped /\ faulty' = faulty
      /\ executed' = executed /\ spoken' = spoken
  BY DEF listVars, run, record, expect, world
<1>2. /\ Segment' = Segment /\ (NextPrompt' <=> NextPrompt) /\ Name' = Name /\ Pattern' = Pattern
      /\ Command' = Command /\ (Alive' <=> Alive)
      /\ (Heard' <=> Heard) /\ (AtCommand' <=> AtCommand) /\ (Exact' <=> Exact) /\ (Closed' <=> Closed)
      /\ \A a : Got(a)' <=> Got(a)
  BY <1>1 DEF Segment, NextPrompt, Name, Command, Pattern, Heard, AtCommand, Exact, Got, Closed, Alive
<1>3. Skip' = Skip /\ (Healthy' <=> Healthy) /\ (JudgedCorrect' <=> JudgedCorrect)
  <2>1. \A i : Expected(commands[i])' = Expected(commands[i])
    BY <1>1 DEF Expected
  <2> QED BY <1>1, <1>2, <2>1 DEF Skip, Healthy, JudgedCorrect
<1>4. Shape' <=> Shape
  BY <1>1, <1>2 DEF Shape
<1>5. Ran' <=> Ran
  BY <1>1 DEF Ran
<1>6. OnItsWay' <=> OnItsWay
  BY <1>1, <1>2 DEF OnItsWay, Unheard
<1>7. Prompting' <=> Prompting
  BY <1>1, <1>2 DEF Prompting
<1>8. Lost' <=> Lost
  BY <1>1, <1>2 DEF Lost
<1>9. Verdicts' <=> Verdicts
  BY <1>1, <1>2, <1>3 DEF Verdicts
<1>10. \A h : InSession(h)' <=> InSession(h)
  BY <1>1, <1>2 DEF InSession
<1> QED
  BY <1>1, <1>2, <1>3, <1>4, <1>5, <1>6, <1>7, <1>8, <1>9, <1>10

LEMMA ReaderDeserves ==
  ASSUME Started, NEW h, Deserving(h), Reader
  PROVE  Deserving(h)'
<1>1. UNCHANGED <<listVars, run, record, expect, world>>
  BY DEF Reader, Read, ReadEof
<1>2. PICK n \in Nat : /\ n <= Len(tty)
                       /\ queue' = Append(queue, SubSeq(tty, 1, n)) /\ tty' = SubSeq(tty, n + 1, Len(tty))
  <2>1. ASSUME NEW n \in 1..ReadSize, Read(n)
        PROVE  n \in Nat /\ n <= Len(tty)
               /\ queue' = Append(queue, SubSeq(tty, 1, n)) /\ tty' = SubSeq(tty, n + 1, Len(tty))
    BY <2>1, ConsoleAssumption DEF Read
  <2>2. CASE ReadEof
    <3>1. tty = <<>> /\ tty' = <<>> /\ queue' = Append(queue, <<>>)
      BY <2>2 DEF ReadEof, Eof
    <3>2. SubSeq(tty, 1, 0) = <<>> /\ SubSeq(tty, 0 + 1, Len(tty)) = <<>> /\ 0 <= Len(tty)
      BY <3>1
    <3>3. 0 \in Nat
      OBVIOUS
    <3> QED BY <3>1, <3>2, <3>3
  <2> QED BY <2>1, <2>2 DEF Reader
<1>3. /\ Shape' <=> Shape
      /\ Ran' <=> Ran
      /\ OnItsWay' <=> OnItsWay
      /\ Prompting' <=> Prompting
      /\ Lost' <=> Lost
      /\ Verdicts' <=> Verdicts
      /\ \A x : InSession(x)' <=> InSession(x)
      /\ Exact' <=> Exact
      /\ test' = test /\ commands' = commands
      /\ AtCommand' <=> AtCommand
      /\ (Got("match") /\ rest = <<>>)' <=> Got("match") /\ rest = <<>>
      /\ Skip' = Skip /\ Segment' = Segment /\ buffer' = buffer
  BY <1>1, ReaderKeepsParts
<1>4. Buffered => Buffered'
  <2> SUFFICES ASSUME Buffered, AtCommand, ~(Got("match") /\ rest = <<>>)
               PROVE  Buffered'
    BY <1>3 DEF Buffered
  <2>1. PICK k \in Skip..Len(Segment) : Flowing(Segment, queue, tty, k) /\ buffer = Part(Segment, Skip, k)
    BY DEF Buffered
  <2>2. Segment \in Seq(Character) /\ queue \in Seq(Seq(Character)) /\ tty \in Seq(Character)
    BY Lengths
  <2>3. Flowing(Segment, queue', tty', k)
    BY <1>2, <2>1, <2>2, FlowRead, Zenon
  <2> QED BY <1>3, <2>1, <2>3 DEF Buffered
<1>5. Session(h)'
  BY <1>3, SessionIsSame DEF Deserving
<1> QED
  BY <1>3, <1>4, <1>5 DEF Deserving, Exactly

-----------------------------------------------------------------------------
(* The machine takes what it is sent.                                      *)

LEMMA Taking ==
  ASSUME Started, Exact, NEW h, Deserving(h), machine.state = "ready", input # <<>>
  PROVE  /\ AtCommand /\ Alive /\ counter # 1 /\ ~Heard /\ ~NextPrompt /\ pc # "send"
         /\ Len(spoken) = counter /\ Len(executed) + 1 = counter - 1
         /\ machine.typed = Segment /\ machine.envs = h[counter - 1]
         /\ \/ ~test.retry /\ Segment = <<>> /\ input = <<Name, Newline>>
            \/ ~test.retry /\ Segment = <<Name>> /\ input = <<Newline>>
            \/ test.retry /\ Len(rest) = 2 /\ Segment = <<>> /\ input = <<Name>>
            \/ test.retry /\ Len(rest) = 1 /\ Segment = <<Name>> /\ input = <<Newline>>
<1>1. /\ Ran /\ InSession(h) /\ OnItsWay
  BY DEF Deserving, Exactly
<1>2. State
  BY DEF Started
<1>3. Alive /\ pc \notin {"top", "close"} /\ ~NextPrompt
  BY <1>2 DEF State, Ready, Places, Alive
<1>4. AtCommand
  BY <1>2, <1>3 DEF State, RunTypes, AtCommand, Alive
<1>5. Len(spoken) = counter /\ counter \in Nat \ {0} /\ Segment = spoken[counter]
  BY <1>3, Lengths
<1>6. Len(executed) \in Nat
  BY <1>1, LenProperties DEF Ran
<1>7. Len(executed) + 2 = counter /\ machine.envs = h[Len(executed) + 1] /\ machine.typed = Segment
  BY <1>1, <1>3, <1>5 DEF InSession
<1>8. counter # 1 /\ ~Heard /\ Len(executed) + 1 = counter - 1
  BY <1>5, <1>6, <1>7 DEF Heard
<1>9. Unheard
  BY <1>1, <1>4, <1>8 DEF OnItsWay
<1> QED
  BY <1>3, <1>4, <1>5, <1>7, <1>8, <1>9 DEF Unheard

LEMMA MonotoneVerdicts ==
  ASSUME Verdicts, UNCHANGED <<test, commands, counter, output, allCorrect, pc, rest>>,
         Exact' => Exact, Healthy' => Healthy, Exact /\ Exact' /\ Heard => Heard'
  PROVE  Verdicts'
<1>1. JudgedCorrect' <=> JudgedCorrect
  <2>1. \A i : Expected(commands[i])' = Expected(commands[i])
    BY DEF Expected
  <2> QED BY <2>1 DEF JudgedCorrect
<1>2. Closed' <=> Closed
  BY DEF Closed
<1> QED
  BY <1>1, <1>2 DEF Verdicts

LEMMA LosingDeserves ==
  ASSUME Started, NEW h, Deserving(h), LosesCharacter
  PROVE  Deserving(h)'
<1>1. /\ test' = test /\ commands' = commands /\ pc' = pc /\ counter' = counter /\ rest' = rest
      /\ tries' = tries /\ answer' = answer /\ allCorrect' = allCorrect
      /\ output' = output /\ buffer' = buffer /\ readStatus' = readStatus /\ queue' = queue /\ tty' = tty
      /\ machine' = machine /\ dropped' = dropped + 1 /\ faulty' = faulty
      /\ executed' = executed /\ spoken' = spoken
      /\ machine.state = "ready" /\ input # <<>> /\ input' = Tail(input)
  BY DEF LosesCharacter, Taken, listVars, run, record, expect
<1>2. /\ Segment' = Segment /\ (NextPrompt' <=> NextPrompt) /\ Name' = Name /\ Pattern' = Pattern
      /\ Command' = Command /\ (Alive' <=> Alive)
      /\ (Heard' <=> Heard) /\ (AtCommand' <=> AtCommand) /\ (Closed' <=> Closed)
      /\ \A a : Got(a)' <=> Got(a)
  BY <1>1 DEF Segment, NextPrompt, Name, Command, Pattern, Heard, AtCommand, Got, Closed, Alive
<1>3. dropped \in Nat /\ tries \in Nat
  BY DEF Deserving, Shape
<1>4. (Exact' => Exact) /\ (Exact' => test.retry) /\ (Healthy' => Healthy)
  <2>1. dropped + 1 # 0 /\ (dropped + 1 < CommandRetries => dropped < CommandRetries)
    BY <1>3, ConsoleAssumption
  <2> QED BY <1>1, <2>1 DEF Exact, Healthy
<1>5. Shape'
  BY <1>1, <1>2, <1>3 DEF Deserving, Shape
<1>6. Verdicts'
  BY <1>1, <1>2, <1>4, MonotoneVerdicts DEF Deserving
<1>7. ASSUME Exact'
      PROVE  Exactly(h)'
  <2>1. Exact /\ test.retry /\ Exactly(h)
    BY <1>4, <1>7 DEF Deserving
  <2>2. /\ AtCommand /\ ~Heard /\ pc # "send" /\ counter # 1
        /\ \/ Len(rest) = 2 /\ Segment = <<>> /\ input = <<Name>>
           \/ Len(rest) = 1 /\ Segment = <<Name>> /\ input = <<Newline>>
    BY <1>1, <2>1, Taking
  <2>3. input' = <<>>
    BY <1>1, <2>2
  <2>4. Ran'
    BY <1>1, <2>1 DEF Exactly, Ran
  <2>5. InSession(h)'
    BY <1>1, <1>2, <2>1 DEF Exactly, InSession
  <2>6. OnItsWay'
    BY <1>1, <1>2, <2>1, <2>2, <2>3 DEF OnItsWay, Unheard
  <2>7. Prompting'
    BY <1>1, <1>2, <2>1 DEF Exactly, Prompting
  <2>8. Buffered'
    <3>1. Skip' = Skip
      BY <1>1, <1>2 DEF Skip
    <3> QED BY <1>1, <1>2, <2>1, <3>1 DEF Exactly, Buffered
  <2>9. Lost'
    <3>1. tries <= dropped
      BY <2>1, <2>2 DEF Exactly, Lost
    <3>2. tries <= dropped + 1 /\ tries < dropped + 1
      BY <1>3, <3>1
    <3> QED BY <1>1, <3>2 DEF Lost
  <2> QED BY <2>4, <2>5, <2>6, <2>7, <2>8, <2>9 DEF Exactly
<1>8. Session(h)'
  BY <1>1, SessionIsSame DEF Deserving
<1> QED
  BY <1>5, <1>6, <1>7, <1>8 DEF Deserving

(* The machine prints something.                                           *)
LEMMA Printing ==
  ASSUME Started, NEW h, Deserving(h), Exact, Busy, NEW text \in Seq(Character), NEW next \in BOOLEAN, Adds(text, next),
         UNCHANGED <<listVars, run, record, expect, queue, reader>>
  PROVE  /\ Segment' = Segment \o text /\ Segment' \in Seq(Character)
         /\ Len(Segment') = Len(Segment) + Len(text) /\ Len(text) \in Nat
         /\ \A i \in 1..Len(Segment) : Segment'[i] = Segment[i]
         /\ \A i \in 1..Len(text) : Segment'[Len(Segment) + i] = text[i]
         /\ Len(spoken') = (IF next THEN counter + 1 ELSE counter)
         /\ Segment' = spoken'[counter]
         /\ (next => spoken'[counter + 1] = <<>>)
         /\ NextPrompt' <=> next
         /\ Buffered'
<1>1. State
  BY DEF Started
<1>2. /\ test' = test /\ commands' = commands /\ pc' = pc /\ counter' = counter /\ rest' = rest
      /\ answer' = answer /\ buffer' = buffer /\ queue' = queue
  BY DEF listVars, run, record, expect
<1>3. /\ Len(spoken') = (IF next THEN counter + 1 ELSE counter)
      /\ Segment' = Segment \o text
      /\ next => spoken'[counter + 1] = <<>>
  BY <1>1, <1>2, AddsToSegment DEF Busy
<1>4. Segment \in Seq(Character) /\ counter \in Nat \ {0} /\ queue \in Seq(Seq(Character)) /\ Len(Segment) \in Nat
  BY Lengths
<1>5. PICK n \in Nat, m \in Nat : n = Len(Segment) /\ m = Len(text)
  BY <1>4, LenProperties
<1>6. /\ Segment \o text \in Seq(Character) /\ Len(Segment \o text) = n + m
      /\ \A i \in 1..(n + m) : (Segment \o text)[i] = IF i <= n THEN Segment[i] ELSE text[i - n]
  <2>1. /\ Segment \o text \in Seq(Character) /\ Len(Segment \o text) = Len(Segment) + Len(text)
        /\ \A i \in 1..(Len(Segment) + Len(text)) :
              (Segment \o text)[i] = IF i <= Len(Segment) THEN Segment[i] ELSE text[i - Len(Segment)]
    BY <1>4, ConcatProperties
  <2> QED BY <1>5, <2>1
<1>7. /\ \A i \in 1..n : i \in 1..(n + m) /\ i <= n
      /\ \A i \in 1..m : n + i \in 1..(n + m) /\ ~(n + i <= n) /\ (n + i) - n = i
  OBVIOUS
<1>8. NextPrompt' <=> next
  BY <1>2, <1>3, <1>4 DEF NextPrompt
<1>9. Buffered'
  <2> SUFFICES ASSUME AtCommand, ~(Got("match") /\ rest = <<>>)
               PROVE  \E k \in (Skip')..Len(Segment') :
                        Flowing(Segment', queue', tty', k) /\ buffer' = Part(Segment', Skip', k)
    BY <1>2 DEF Buffered, AtCommand, Got
  <2>1. PICK k \in Skip..Len(Segment) : Flowing(Segment, queue, tty, k) /\ buffer = Part(Segment, Skip, k)
    BY DEF Deserving, Exactly, Buffered
  <2>2. Skip' = Skip /\ Skip \in Nat
    <3>1. 2 - Len(rest) \in Nat /\ (2 - Len(rest)) + 1 \in Nat
      <4>1. PICK l \in {0, 1, 2} : Len(rest) = l
        BY Lengths
      <4>2. 2 - l \in Nat /\ (2 - l) + 1 \in Nat
        OBVIOUS
      <4> QED BY <4>1, <4>2
    <3> QED BY <1>2, <3>1 DEF Skip, Got
  <2>3. Flowing(Segment', queue', tty', k)
    <3>1. Flowing(Segment \o text, queue, tty \o text, k)
      BY <1>4, <2>1, FlowGrows, Zenon
    <3> QED BY <1>2, <1>3, <3>1 DEF Adds
  <2>4. k \in Nat /\ Skip <= k /\ k <= Len(Segment)
    BY <1>4, <2>1, <2>2
  <2>5. Part(Segment \o text, Skip, k) = Part(Segment, Skip, k)
    <3>1. PICK s \in Seq(Character), a \in Nat : s = Segment /\ a = Skip /\ a <= k /\ k <= Len(s)
      BY <1>4, <2>2, <2>4
    <3>2. Part(s \o text, a, k) = Part(s, a, k)
      BY <2>4, <3>1, PartOfLonger
    <3> QED BY <3>1, <3>2
  <2>6. k \in Skip..(n + m)
    BY <1>5, <2>2, <2>4
  <2> QED BY <1>2, <1>3, <1>6, <2>1, <2>2, <2>3, <2>5, <2>6
<1>10. Segment' = spoken'[counter]
  BY <1>2 DEF Segment
<1> QED
  BY <1>3, <1>5, <1>6, <1>7, <1>8, <1>9, <1>10

LEMMA EchoAdds ==
  ASSUME State, Echoes
  PROVE  /\ Head(input) \in Plain /\ <<Head(input)>> \in Seq(Character)
         /\ Adds(<<Head(input)>>, FALSE)
<1>0. machine \in Machines /\ input \in Seq(Plain)
  BY DEF State, TextTypes, Machines
<1>1. /\ input # <<>>
      /\ tty' = Append(tty, Head(input))
      /\ spoken' = [spoken EXCEPT ![Len(spoken)] = Append(@, Head(input))]
  BY DEF Echoes, Taken
<1>2. PICK c \in Plain : c = Head(input)
  BY <1>0, <1>1, HeadTailProperties
<1>4. <<c>> \in Seq(Character) /\ Len(<<c>>) = 1 /\ <<c>>[1] # PromptEnd
  BY CharacterTypes
<1>5. spoken[Len(spoken)] \in Seq(Character) /\ tty \in Seq(Character)
  <2>1. spoken \in Seq(Seq(Character)) /\ Len(spoken) \in 1..Len(spoken)
    BY SegmentType DEF State, TextTypes
  <2>2. tty \in Seq(Character)
    BY DEF State, TextTypes
  <2> QED BY <2>1, <2>2, ElementOfSeq
<1>6. tty' = tty \o <<c>>
  BY <1>1, <1>2, <1>5, AppendIsConcat, CharacterTypes
<1>7. spoken' = [spoken EXCEPT ![Len(spoken)] = @ \o <<c>>] \o <<>>
  <2>1. Append(spoken[Len(spoken)], c) = spoken[Len(spoken)] \o <<c>>
    BY <1>5, AppendIsConcat, CharacterTypes
  <2>2. spoken' = [spoken EXCEPT ![Len(spoken)] = @ \o <<c>>]
    BY <1>1, <1>2, <2>1
  <2>3. [spoken EXCEPT ![Len(spoken)] = @ \o <<c>>] \in Seq(Seq(Character))
    BY <1>4, SpokenOn
  <2> QED BY <2>2, <2>3, ConcatEmptySeq
<1>8. Adds(<<c>>, FALSE)
  <2>1. \A j \in 1..Len(<<c>>) : <<c>>[j] # PromptEnd
    BY <1>4
  <2> QED BY <1>6, <1>7, <2>1, Zenon DEF Adds
<1> QED
  BY <1>2, <1>4, <1>8

LEMMA EchoDeserves ==
  ASSUME Started, NEW h, Deserving(h), Echoes
  PROVE  Deserving(h)'
<1>1. /\ test' = test /\ commands' = commands /\ pc' = pc /\ counter' = counter /\ rest' = rest
      /\ tries' = tries /\ answer' = answer /\ allCorrect' = allCorrect
      /\ output' = output /\ buffer' = buffer /\ readStatus' = readStatus /\ queue' = queue
      /\ dropped' = dropped /\ faulty' = faulty /\ executed' = executed
      /\ machine.state = "ready" /\ input # <<>> /\ input' = Tail(input) /\ Head(input) # Newline
      /\ machine' = [machine EXCEPT !.typed = Append(@, Head(input))]
  BY DEF Echoes, Taken, listVars, run, record, expect
<1>2. /\ Name' = Name /\ Pattern' = Pattern
      /\ Command' = Command /\ (Alive' <=> Alive)
      /\ (Heard' <=> Heard) /\ (AtCommand' <=> AtCommand) /\ (Closed' <=> Closed)
      /\ (Exact' <=> Exact) /\ (Healthy' <=> Healthy)
      /\ \A a : Got(a)' <=> Got(a)
  BY <1>1 DEF Name, Command, Pattern, Heard, AtCommand, Got, Closed, Alive, Exact, Healthy
<1>3. State /\ machine \in Machines
  BY Lengths DEF Started
<1>4. Shape'
  BY <1>1, <1>2 DEF Deserving, Shape
<1>5. Verdicts'
  BY <1>1, <1>2, MonotoneVerdicts DEF Deserving
<1>6. ASSUME Exact
      PROVE  Exactly(h)'
  <2>1. Exactly(h)
    BY <1>6 DEF Deserving
  <2>2. /\ AtCommand /\ Alive /\ counter # 1 /\ ~Heard /\ ~NextPrompt /\ pc # "send"
        /\ Len(spoken) = counter /\ Len(executed) + 1 = counter - 1
        /\ machine.typed = Segment /\ machine.envs = h[counter - 1]
        /\ \/ ~test.retry /\ Segment = <<>> /\ input = <<Name, Newline>>
           \/ ~test.retry /\ Segment = <<Name>> /\ input = <<Newline>>
           \/ test.retry /\ Len(rest) = 2 /\ Segment = <<>> /\ input = <<Name>>
           \/ test.retry /\ Len(rest) = 1 /\ Segment = <<Name>> /\ input = <<Newline>>
    BY <1>1, <1>6, Taking
  <2>3. PICK w \in Character : w = Name
    BY Lengths
  <2>4. Segment = <<>> /\ Head(input) = w /\ input' = (IF test.retry THEN <<>> ELSE <<Newline>>)
    <3>1. /\ Head(<<w, Newline>>) = w /\ Tail(<<w, Newline>>) = <<Newline>> /\ Head(<<w>>) = w /\ Tail(<<w>>) = <<>>
          /\ Head(<<Newline>>) = Newline
      OBVIOUS
    <3> QED BY <1>1, <2>2, <2>3, <3>1
  <2>5. <<w>> \in Seq(Character) /\ Adds(<<w>>, FALSE)
    BY <1>3, <2>4, EchoAdds
  <2>6. Busy /\ UNCHANGED <<listVars, run, record, expect, queue, reader>>
    BY <1>1, <2>2 DEF Busy, Echoes
  <2>7. /\ Segment' = Segment \o <<w>> /\ Len(spoken') = counter /\ Segment' = spoken'[counter]
        /\ ~NextPrompt' /\ Buffered'
    BY <1>6, <2>5, <2>6, Printing
  <2>8. Segment' = <<w>> /\ Len(Segment') = 1
    <3>1. <<>> \o <<w>> = <<w>>
      OBVIOUS
    <3> QED BY <2>4, <2>7, <3>1
  <2>9. machine'.typed = <<w>> /\ machine'.state = "ready" /\ machine'.envs = machine.envs
    <3>1. Append(<<>>, w) = <<w>>
      OBVIOUS
    <3> QED BY <1>1, <1>3, <2>2, <2>4, <3>1 DEF Machines
  <2>10. Ran'
    BY <1>1, <2>1 DEF Exactly, Ran
  <2>11. InSession(h)'
    <3>1. machine.envs = h[Len(executed) + 1] /\ Len(spoken') = Len(executed) + 2
      <4>1. Len(executed) \in Nat /\ counter \in Nat
        BY <2>1, Lengths, LenProperties DEF Exactly, Ran
      <4> QED BY <2>2, <2>7, <4>1
    <3> QED BY <1>1, <1>2, <2>2, <2>7, <2>8, <2>9, <3>1 DEF InSession, AtCommand
  <2>12. OnItsWay'
    <3>1. test.retry => Len(rest) = 2
      BY <2>2, <2>4
    <3> QED BY <1>1, <1>2, <2>2, <2>3, <2>4, <2>8, <2>9, <3>1 DEF OnItsWay, Unheard
  <2>13. Prompting'
    BY <2>7 DEF Prompting
  <2>14. test.retry => Lost'
    <3>1. test.retry => Len(rest) = 2 /\ tries <= dropped
      BY <2>1, <2>2, <2>4 DEF Exactly, Lost
    <3>2. Len(rest) = 2 => 2 - Len(rest) # 1
      OBVIOUS
    <3> QED BY <1>1, <2>8, <3>1, <3>2 DEF Lost
  <2> QED BY <1>1, <2>7, <2>10, <2>11, <2>12, <2>13, <2>14 DEF Exactly
<1>7. Session(h)'
  BY <1>1, SessionIsSame DEF Deserving
<1> QED
  BY <1>2, <1>4, <1>5, <1>6, <1>7 DEF Deserving

(* The machine has done what a line asks for, or failed at it.             *)
LEMMA Answering ==
  ASSUME Started, NEW h, Deserving(h), Exact, Busy, NEW text \in Seq(Character), NEW next \in BOOLEAN, Adds(text, next),
         UNCHANGED <<listVars, run, record, expect, queue, reader, dropped>>,
         machine' \in Machines, machine'.state \in {"ready", "hung", "down"},
         Ran', Heard', Outcome(text, next, IF counter = 1 THEN 0 ELSE 1, h[counter]),
         pc \in {"expect", "waiting", "answered"},
         counter # 1 => Segment = <<Name>> /\ Begins(text, <<Newline>>) /\ Len(rest) # 2
  PROVE  Exactly(h)'
<1>1. /\ test' = test /\ commands' = commands /\ pc' = pc /\ counter' = counter /\ rest' = rest
      /\ tries' = tries /\ answer' = answer /\ buffer' = buffer /\ queue' = queue /\ dropped' = dropped
  BY DEF listVars, run, record, expect
<1>2. /\ Name' = Name /\ Command' = Command /\ (Alive' <=> Alive) /\ (AtCommand' <=> AtCommand)
  BY <1>1 DEF Name, Command, AtCommand, Alive
<1>3. /\ Segment' = Segment \o text
      /\ Len(Segment') = Len(Segment) + Len(text) /\ Len(text) \in Nat
      /\ \A i \in 1..Len(Segment) : Segment'[i] = Segment[i]
      /\ \A i \in 1..Len(text) : Segment'[Len(Segment) + i] = text[i]
      /\ Len(spoken') = (IF next THEN counter + 1 ELSE counter)
      /\ (next => spoken'[counter + 1] = <<>>)
      /\ NextPrompt' <=> next
      /\ Buffered'
  BY Printing
<1>4. counter \in Nat \ {0} /\ Len(Segment) \in Nat /\ Len(executed') = counter - 1 /\ machine \in Machines
      /\ counter <= Len(commands)
  BY <1>1, Lengths DEF Heard
<1>5. InSession(h)'
  <2>1. CASE /\ next /\ h[counter] # <<>> /\ faulty' = faulty
             /\ machine' = [state |-> "ready", envs |-> h[counter], typed |-> <<>>]
    <3>1. machine'.state = "ready" /\ machine'.envs = h[counter] /\ machine'.typed = <<>>
      BY <2>1
    <3>2. Len(spoken') = counter + 1 /\ Len(executed') + 2 = counter + 1 /\ Len(executed') + 1 = counter
      BY <1>3, <1>4, <2>1
    <3> QED BY <1>1, <1>3, <2>1, <3>1, <3>2 DEF InSession
  <2>2. CASE /\ ~next /\ h[counter] = <<>> /\ faulty' = faulty
             /\ machine' = [state |-> "down", envs |-> h[counter], typed |-> <<>>]
    <3>1. machine'.state = "down"
      BY <2>2
    <3> QED BY <1>1, <1>3, <2>2, <3>1 DEF InSession
  <2>3. CASE ~next /\ faulty' = TRUE /\ \E state \in {"hung", "down"} : machine' = [machine EXCEPT !.state = state]
    <3>1. machine'.state \in {"hung", "down"}
      BY <1>4, <2>3 DEF Machines
    <3> QED BY <1>1, <1>3, <2>3, <3>1 DEF InSession
  <2> QED BY <2>1, <2>2, <2>3 DEF Outcome
<1>6. OnItsWay'
  <2> SUFFICES ASSUME counter # 1
               PROVE  /\ Len(Segment') >= 2 /\ Segment'[1] = Name /\ Segment'[2] = Newline
                      /\ Len(rest) # 2 /\ pc # "send"
    BY <1>1, <1>2 DEF OnItsWay
  <2>1. PICK w \in Character : w = Name
    BY Lengths
  <2>2. Len(Segment) = 1 /\ Segment[1] = w
    BY <2>1
  <2>3. Len(text) >= 1 /\ text[1] = Newline
    <3>1. Len(<<Newline>>) = 1 /\ <<Newline>>[1] = Newline
      OBVIOUS
    <3> QED BY <3>1 DEF Begins
  <2>4. 1 \in 1..Len(Segment) /\ 1 \in 1..Len(text) /\ Len(Segment) + 1 = 2 /\ Len(Segment) + Len(text) >= 2
    BY <1>3, <2>2, <2>3
  <2> QED BY <1>3, <2>1, <2>2, <2>3, <2>4
<1>7. Prompting'
  <2> SUFFICES ASSUME next
               PROVE  /\ Len(Segment') >= IF counter = 1 THEN 2 ELSE 4
                      /\ EndsIn(Segment', Command.prompt)
    BY <1>1, <1>2, <1>3 DEF Prompting
  <2>1. /\ h[counter] # <<>> /\ EndsIn(text, Head(h[counter]).prompt)
        /\ Len(text) >= (IF counter = 1 THEN 0 ELSE 1) + 2
    BY DEF Outcome
  <2>2. Command.prompt = Head(h[counter]).prompt
    <3>1. counter \in 1..Len(commands)
      BY <1>4, Lengths
    <3> QED BY <2>1, <3>1 DEF Deserving, Session, Sessions, Command
  <2>3. PICK n \in Nat, m \in Nat : n = Len(Segment) /\ m = Len(text) /\ m >= 2
    BY <1>3, <1>4, <2>1 DEF EndsIn
  <2>4. /\ m - 1 \in 1..m /\ m \in 1..m /\ n + (m - 1) = (n + m) - 1 /\ n + m >= 2
    BY <2>3
  <2>5. Segment'[(n + m) - 1] = text[m - 1] /\ Segment'[n + m] = text[m]
    BY <1>3, <2>3, <2>4
  <2>6. EndsIn(Segment', Command.prompt)
    BY <1>3, <2>1, <2>2, <2>3, <2>4, <2>5 DEF EndsIn
  <2>7. Len(Segment') >= IF counter = 1 THEN 2 ELSE 4
    <3>1. CASE counter = 1
      BY <1>3, <2>3, <2>4, <3>1
    <3>2. CASE counter # 1
      <4>1. n = 1 /\ m >= 3
        BY <2>1, <2>3, <3>2
      <4> QED BY <1>3, <2>3, <3>2, <4>1
    <3> QED BY <3>1, <3>2
  <2> QED BY <2>6, <2>7
<1>8. test.retry => Lost'
  <2>1. test.retry => tries <= dropped
    BY DEF Deserving, Exactly, Lost, AtCommand
  <2> QED BY <1>1, <2>1 DEF Lost
<1> QED
  BY <1>1, <1>3, <1>5, <1>6, <1>7, <1>8 DEF Exactly

(* What holds of Run's part of the state when the machine speaks.          *)
LEMMA SpeakingVerdicts ==
  ASSUME NEW h, Deserving(h), UNCHANGED <<listVars, run, record, expect, queue, reader, dropped>>,
         faulty' = faulty \/ faulty' = TRUE, Exact /\ Heard => Heard'
  PROVE  Session(h)' /\ Shape' /\ Verdicts' /\ (Exact' <=> Exact)
<1>1. /\ test' = test /\ commands' = commands /\ pc' = pc /\ counter' = counter /\ rest' = rest
      /\ tries' = tries /\ answer' = answer /\ allCorrect' = allCorrect /\ readStatus' = readStatus
      /\ buffer' = buffer /\ output' = output /\ dropped' = dropped
  BY DEF listVars, run, record, expect
<1>2. /\ Name' = Name /\ Pattern' = Pattern /\ (Exact' <=> Exact) /\ (Healthy' => Healthy)
      /\ \A a : Got(a)' <=> Got(a)
  BY <1>1 DEF Name, Command, Pattern, Got, Exact, Healthy
<1>3. Shape'
  BY <1>1, <1>2 DEF Deserving, Shape
<1>4. Verdicts'
  BY <1>1, <1>2, MonotoneVerdicts DEF Deserving
<1> QED
  BY <1>1, <1>2, <1>3, <1>4, SessionIsSame DEF Deserving

LEMMA PrintsFaulty ==
  ASSUME NEW echo, NEW replies, NEW envs, Prints(echo, replies, envs)
  PROVE  faulty' = faulty \/ faulty' = TRUE
  BY DEF Prints

LEMMA BootDeserves ==
  ASSUME Started, NEW h, Deserving(h), Boots
  PROVE  Deserving(h)'
<1>1. /\ machine.state = "booting" /\ Prints(<<>>, {<<"banner">>}, <<KernelConf>>)
      /\ UNCHANGED <<listVars, run, record, expect, queue, reader, dropped, executed>>
  BY DEF Boots
<1>2. State
  BY DEF Started
<1>3. pc \in {"expect", "waiting"} /\ counter = 1 /\ ~NextPrompt
  BY <1>1, <1>2 DEF State, Booting
<1>4. <<>> \in Seq(Plain) /\ <<"banner">> \in Seq(Word) /\ <<KernelConf>> \in Seq(Environment) /\ Len(<<>>) = 0
  BY ConsoleAssumption, EnvironmentTypes
<1>5. /\ machine' \in Machines /\ machine'.state \in {"ready", "hung", "down"}
      /\ \E text \in Seq(Character), next \in BOOLEAN :
           Adds(text, next) /\ Begins(text, <<>>) /\ Outcome(text, next, 0, <<KernelConf>>)
  BY <1>1, <1>2, <1>4, PrintsMore
<1>6. PICK text \in Seq(Character), next \in BOOLEAN : Adds(text, next) /\ Outcome(text, next, 0, <<KernelConf>>)
  BY <1>5
<1>7. faulty' = faulty \/ faulty' = TRUE
  BY <1>1, PrintsFaulty
<1>8. h[counter] = <<KernelConf>>
  BY <1>3 DEF Deserving, Session, Sessions
<1>9. counter' = counter /\ executed' = executed /\ commands' = commands
  BY <1>1 DEF run, listVars
<1>10. Session(h)' /\ Shape' /\ Verdicts' /\ (Exact' <=> Exact)
  BY <1>1, <1>7, <1>9, SpeakingVerdicts DEF Heard
<1>11. ASSUME Exact
       PROVE  Exactly(h)'
  <2>1. Ran
    BY <1>11 DEF Deserving, Exactly
  <2>2. Ran' /\ Heard'
    <3>1. Len(executed) \in Nat /\ Len(executed) < 1
      BY <1>3, <2>1, LenProperties DEF Ran
    <3>2. Len(executed) = counter - 1
      BY <1>3, <3>1
    <3> QED BY <1>9, <2>1, <3>2 DEF Heard, Ran
  <2>3. Busy
    BY <1>1, <1>3 DEF Busy
  <2>4. Outcome(text, next, IF counter = 1 THEN 0 ELSE 1, h[counter])
    BY <1>3, <1>6, <1>8
  <2> QED BY <1>1, <1>3, <1>5, <1>6, <1>11, <2>2, <2>3, <2>4, Answering
<1> QED
  BY <1>10, <1>11 DEF Deserving

LEMMA ExecuteDeserves ==
  ASSUME Started, NEW h, Deserving(h), Executes
  PROVE  Deserving(h)'
<1>1. /\ machine.state = "ready" /\ input # <<>> /\ Head(input) = Newline
      /\ UNCHANGED <<listVars, run, record, expect, queue, reader, dropped>>
  BY DEF Executes, Taken
<1>2. State
  BY DEF Started
<1>3. faulty' = faulty \/ faulty' = TRUE
  BY PrintsFaulty DEF Executes
<1>4. counter' = counter /\ commands' = commands
  BY <1>1 DEF run, listVars
<1>5. Exact /\ Heard => Heard'
  BY <1>1, Taking
<1>6. Session(h)' /\ Shape' /\ Verdicts' /\ (Exact' <=> Exact)
  BY <1>1, <1>3, <1>5, SpeakingVerdicts
<1>7. ASSUME Exact
      PROVE  Exactly(h)'
  <2>1. Ran /\ Sessions(h)
    BY <1>7 DEF Deserving, Exactly, Session
  <2>2. /\ AtCommand /\ counter # 1 /\ ~Heard /\ ~NextPrompt /\ pc # "send"
        /\ Len(executed) + 1 = counter - 1
        /\ machine.typed = Segment /\ machine.envs = h[counter - 1]
        /\ \/ ~test.retry /\ Segment = <<>> /\ input = <<Name, Newline>>
           \/ ~test.retry /\ Segment = <<Name>> /\ input = <<Newline>>
           \/ test.retry /\ Len(rest) = 2 /\ Segment = <<>> /\ input = <<Name>>
           \/ test.retry /\ Len(rest) = 1 /\ Segment = <<Name>> /\ input = <<Newline>>
    BY <1>1, <1>7, Taking
  <2>3. PICK w \in Word : w = Name /\ w # Newline
    BY Lengths
  <2>4. Segment = <<w>> /\ Len(rest) # 2
    <3>1. Head(<<w, Newline>>) = w /\ Head(<<w>>) = w
      OBVIOUS
    <3>2. ~test.retry => rest = <<>>
      BY DEF Deserving, Shape
    <3>3. Len(<<>>) = 0
      OBVIOUS
    <3>4. input # <<Name, Newline>> /\ input # <<Name>>
      BY <1>1, <2>3, <3>1
    <3>5. Segment = <<Name>> /\ (Len(rest) = 1 \/ rest = <<>>)
      BY <2>2, <3>2, <3>4
    <3> QED BY <2>3, <3>3, <3>5
  <2>5. machine.typed # <<>> /\ Head(machine.typed) = w
    <3>1. Head(<<w>>) = w /\ <<w>> # <<>>
      OBVIOUS
    <3> QED BY <2>2, <2>4, <3>1
  <2>6. PICK i \in Nat : i = counter - 1 /\ i \in 1..Len(commands) /\ counter \in 2..Len(commands)
                         /\ Len(executed) + 1 = i
    <3>1. PICK c \in Nat, n \in Nat : c = counter /\ n = Len(commands) /\ c <= n /\ c # 0 /\ c # 1
      BY <2>2, Lengths
    <3>2. c - 1 \in Nat /\ c - 1 \in 1..n /\ c \in 2..n
      BY <3>1
    <3>3. Len(executed) + 1 = c - 1
      BY <2>2, <3>1
    <3> QED BY <3>1, <3>2, <3>3
  <2>7. PICK line : line = commands[counter].line
    OBVIOUS
  <2>8. /\ h[i] # <<>> /\ h[i] \in Seq(Environment) /\ line.prefix = Head(h[i]).prefix
        /\ h[counter] = After(h[i], line)
    BY <2>1, <2>6, <2>7 DEF Sessions
  <2>9. line = Line(Head(h[i]).prefix, w) /\ line \in CommandLine
    <3>1. commands[counter] \in CommandRecord
      <4>1. commands \in Seq(CommandRecord) /\ counter \in 1..Len(commands)
        BY <2>6 DEF Started, ListInv, ListTypeOK
      <4> QED BY <4>1, ElementOfSeq
    <3>2. line \in [prefix : Prefix \cup {None}, name : Word] /\ line.name = w
      BY <2>3, <2>7, <3>1 DEF CommandRecord, Name, Command
    <3> QED BY <2>8, <3>2 DEF Line, CommandLine
  <2>10. machine.envs = h[i]
    BY <2>2, <2>6
  <2>11. Line(Head(machine.envs).prefix, Head(machine.typed)) = line
    BY <2>5, <2>9, <2>10
  <2>12. PICK envs : envs = h[counter]
    OBVIOUS
  <2>13. /\ executed' = Append(executed, line)
         /\ \/ Prints(<<Newline>>, {<<>>}, envs)
            \/ Prints(<<Newline>>, IF line.name \in DOMAIN Replies THEN Replies[line.name] ELSE {<<>>}, envs)
    <3>1. /\ executed' = Append(executed, line)
          /\ IF line.name = Head(machine.envs).end.name THEN Prints(<<Newline>>, {<<>>}, Tail(machine.envs))
             ELSE IF StartedBy(line) # NoConf THEN Prints(<<Newline>>, {<<>>}, <<StartedBy(line)>> \o machine.envs)
             ELSE Prints(<<Newline>>, IF line.name \in DOMAIN Replies THEN Replies[line.name] ELSE {<<>>},
                         machine.envs)
      BY <2>5, <2>11, Zenon DEF Executes
    <3>2. CASE line.name = Head(h[i]).end.name
      <4>1. envs = Tail(h[i])
        BY <2>8, <2>12, <3>2 DEF After
      <4> QED BY <2>10, <3>1, <3>2, <4>1
    <3>3. CASE line.name # Head(h[i]).end.name /\ StartedBy(line) # NoConf
      <4>1. envs = <<StartedBy(line)>> \o h[i]
        BY <2>8, <2>12, <3>3 DEF After
      <4> QED BY <2>10, <3>1, <3>3, <4>1
    <3>4. CASE line.name # Head(h[i]).end.name /\ StartedBy(line) = NoConf
      <4>1. envs = h[i]
        BY <2>8, <2>12, <3>4 DEF After
      <4> QED BY <2>10, <3>1, <3>4, <4>1
    <3> QED BY <3>2, <3>3, <3>4
  <2>14. PICK replies : (\A r \in replies : r \in Seq(Word)) /\ Prints(<<Newline>>, replies, envs)
    <3>1. \A r \in {<<>>} : r \in Seq(Word)
      BY EmptySeq
    <3>2. line.name \in DOMAIN Replies => \A r \in Replies[line.name] : r \in Seq(Word)
      BY ConsoleAssumption
    <3> QED BY <2>13, <3>1, <3>2
  <2>15. <<Newline>> \in Seq(Plain) /\ Len(<<Newline>>) = 1
    BY CharacterTypes
  <2>16. envs \in Seq(Environment)
    BY <2>1, <2>6, <2>12 DEF Sessions
  <2>17. /\ machine' \in Machines /\ machine'.state \in {"ready", "hung", "down"}
         /\ \E text \in Seq(Character), next \in BOOLEAN :
              Adds(text, next) /\ Begins(text, <<Newline>>) /\ Outcome(text, next, 1, envs)
    BY <1>2, <2>14, <2>15, <2>16, PrintsMore
  <2>18. PICK text \in Seq(Character), next \in BOOLEAN :
              Adds(text, next) /\ Begins(text, <<Newline>>) /\ Outcome(text, next, 1, envs)
    BY <2>17
  <2>19. Ran' /\ Heard'
    <3>1. /\ executed' \in Seq(CommandLine) /\ Len(executed') = i
          /\ \A j \in 1..i : executed'[j] = IF j = i THEN line ELSE executed[j]
      <4>1. /\ Append(executed, line) \in Seq(CommandLine) /\ Len(Append(executed, line)) = Len(executed) + 1
            /\ \A j \in 1..Len(executed) : Append(executed, line)[j] = executed[j]
            /\ Append(executed, line)[Len(executed) + 1] = line
        BY <2>1, <2>9, AppendProperties DEF Ran
      <4>2. \A j \in 1..i : j = i \/ j \in 1..Len(executed)
        <5>1. Len(executed) \in Nat
          BY <2>1, LenProperties DEF Ran
        <5> QED BY <2>6, <5>1
      <4> QED BY <2>6, <2>13, <4>1, <4>2
    <3>2. \A j \in 1..i : executed'[j] = commands[j + 1].line
      <4> TAKE j \in 1..i
      <4>1. CASE j = i
        <5>1. j + 1 = counter
          BY <2>6, <4>1
        <5> QED BY <2>7, <3>1, <4>1, <5>1
      <4>2. CASE j # i
        <5>1. j \in 1..Len(executed)
          <6>1. Len(executed) \in Nat
            BY <2>1, LenProperties DEF Ran
          <6> QED BY <2>6, <4>2, <6>1
        <5> QED BY <2>1, <3>1, <4>2, <5>1 DEF Ran
      <4> QED BY <4>1, <4>2
    <3>3. i < counter /\ Len(executed') = counter - 1
      BY <2>6, <3>1
    <3> QED BY <1>4, <3>1, <3>2, <3>3 DEF Ran, Heard
  <2>20. Busy
    BY <1>1, <2>2 DEF Busy
  <2>21. pc \in {"expect", "waiting", "answered"}
    BY <2>2 DEF AtCommand
  <2>22. Outcome(text, next, IF counter = 1 THEN 0 ELSE 1, h[counter])
    BY <2>2, <2>12, <2>18
  <2>23. counter # 1 => Segment = <<Name>> /\ Begins(text, <<Newline>>) /\ Len(rest) # 2
    BY <2>3, <2>4, <2>18
  <2> QED BY <1>1, <1>7, <2>17, <2>18, <2>19, <2>20, <2>21, <2>22, <2>23, Answering
<1> QED
  BY <1>6, <1>7 DEF Deserving

LEMMA MachineDeserves ==
  ASSUME Started, NEW h, Deserving(h), Machine
  PROVE  Deserving(h)'
  BY LosingDeserves, EchoDeserves, BootDeserves, ExecuteDeserves DEF Machine

-----------------------------------------------------------------------------
(* What ExpectRegexp finds, of what it is to find.                         *)

LEMMA FrontMatch ==
  ASSUME NEW S, NEW text \in Seq(S), Len(text) >= 1, NEW c, text[1] = c
  PROVE  AfterMatch(<<c>>, text) = Part(text, 1, Len(text))
<1>1. DOMAIN text = 1..Len(text) /\ Len(text) \in Nat
  BY LenProperties
<1>2. 1 \in DOMAIN text
  BY <1>1
<1>3. MatchesAt(<<c>>, text, 1)
  <2>1. SubSeq(text, 1, 1) = <<c>>
    <3>1. /\ 0 \in Nat /\ 1 \in Nat /\ 0 <= 1 /\ 1 <= Len(text) /\ 1 - 0 = 1 /\ 0 + 1 = 1
      OBVIOUS
    <3>2. Part(text, 0, 1) \in Seq(S) /\ Len(Part(text, 0, 1)) = 1 /\ Part(text, 0, 1)[1] = c
      <4>1. /\ Part(text, 0, 1) \in Seq(S) /\ Len(Part(text, 0, 1)) = 1 - 0
            /\ \A i \in 1..(1 - 0) : Part(text, 0, 1)[i] = text[0 + i]
        BY <3>1, PartProps, Zenon
      <4> QED BY <3>1, <4>1
    <3>3. Part(text, 0, 1) = <<c>>
      BY <3>2
    <3> QED BY <3>1, <3>3 DEF Part
  <2>2. Len(<<c>>) = 1 /\ 1 + 1 - 1 = 1
    OBVIOUS
  <2> QED BY <2>1, <2>2 DEF MatchesAt
<1> DEFINE first == CHOOSE i \in DOMAIN text : MatchesAt(<<c>>, text, i)
                      /\ \A j \in 1..(i - 1) : ~MatchesAt(<<c>>, text, j)
<1>4. /\ first \in DOMAIN text /\ MatchesAt(<<c>>, text, first)
      /\ \A j \in 1..(first - 1) : ~MatchesAt(<<c>>, text, j)
  <2>1. \A j \in 1..(1 - 1) : ~MatchesAt(<<c>>, text, j)
    OBVIOUS
  <2>2. \E i \in DOMAIN text : MatchesAt(<<c>>, text, i) /\ \A j \in 1..(i - 1) : ~MatchesAt(<<c>>, text, j)
    BY <1>2, <1>3, <2>1
  <2> QED BY <2>2, Zenon
<1>5. AfterMatch(<<c>>, text) = SubSeq(text, first + Len(<<c>>), Len(text))
  BY DEF AfterMatch
<1> HIDE DEF first
<1>6. first = 1
  <2>1. first \in Nat /\ first >= 1
    BY <1>1, <1>4
  <2>2. ~(1 \in 1..(first - 1))
    BY <1>3, <1>4
  <2> QED BY <2>1, <2>2
<1>7. Len(<<c>>) = 1
  OBVIOUS
<1> QED
  BY <1>5, <1>6, <1>7 DEF Part

LEMMA LookingKeeps ==
  ASSUME Started, NEW h, Deserving(h), pc \in {"expect", "waiting"}, pc' \in {"waiting", "answered"},
         UNCHANGED <<listVars, counter, rest, tries, allCorrect, world>>,
         \A i \in 1..Len(commands) : i # counter => output'[i] = output[i]
  PROVE  /\ Session(h)' /\ Verdicts' /\ (Exact' <=> Exact)
         /\ Exact => Ran' /\ InSession(h)' /\ OnItsWay' /\ Prompting' /\ (test.retry => Lost')
         /\ test' = test /\ counter' = counter /\ Segment' = Segment
         /\ rest' = rest /\ Pattern' = Pattern /\ Name' = Name
<1>1. /\ test' = test /\ commands' = commands /\ counter' = counter /\ rest' = rest
      /\ tries' = tries /\ allCorrect' = allCorrect
      /\ input' = input /\ machine' = machine /\ dropped' = dropped /\ faulty' = faulty
      /\ executed' = executed /\ spoken' = spoken
  BY DEF listVars, world
<1>2. /\ Segment' = Segment /\ (NextPrompt' <=> NextPrompt) /\ Name' = Name /\ Pattern' = Pattern
      /\ Command' = Command
      /\ (Heard' <=> Heard) /\ (Exact' <=> Exact) /\ (Healthy' <=> Healthy)
  BY <1>1 DEF Segment, NextPrompt, Name, Command, Pattern, Heard, Exact, Healthy
<1>3. AtCommand /\ AtCommand' /\ Alive /\ Alive' /\ ~Closed' /\ pc # "send" /\ pc' # "send" /\ pc' # "top"
  BY DEF AtCommand, Alive, Closed
<1>4. JudgedCorrect' <=> JudgedCorrect
  <2>1. \A i : Expected(commands[i])' = Expected(commands[i])
    BY <1>1 DEF Expected
  <2>2. \A i \in 1..(counter - 1) : output'[i] = output[i]
    <3>1. PICK c \in Nat, n \in Nat : c = counter /\ n = Len(commands) /\ c <= n
      BY Lengths
    <3>2. \A i \in 1..(c - 1) : i \in 1..n /\ i # c
      BY <3>1
    <3> QED BY <3>1, <3>2
  <2> QED BY <1>1, <2>1, <2>2 DEF JudgedCorrect
<1>5. Verdicts'
  BY <1>1, <1>2, <1>3, <1>4 DEF Deserving, Verdicts
<1>6. ASSUME Exact
      PROVE  Ran' /\ InSession(h)' /\ OnItsWay' /\ Prompting' /\ (test.retry => Lost')
  <2>1. Exactly(h)
    BY <1>6 DEF Deserving
  <2>2. Ran'
    BY <1>1, <2>1 DEF Exactly, Ran
  <2>3. InSession(h)'
    BY <1>1, <1>2, <1>3, <2>1 DEF Exactly, InSession
  <2>4. OnItsWay'
    BY <1>1, <1>2, <1>3, <2>1 DEF Exactly, OnItsWay, Unheard
  <2>5. Prompting'
    BY <1>1, <1>2, <1>3, <2>1 DEF Exactly, Prompting
  <2>6. test.retry => Lost'
    BY <1>1, <1>2, <1>3, <2>1 DEF Exactly, Lost
  <2> QED BY <2>2, <2>3, <2>4, <2>5, <2>6
<1> QED
  BY <1>1, <1>2, <1>5, <1>6, SessionIsSame DEF Deserving

(* The echo that Run is waiting for is the next thing that it finds.       *)
LEMMA NextEcho ==
  ASSUME Started, NEW h, Deserving(h), Exact, AtCommand, rest # <<>>,
         NEW r \in {1, 2}, Len(rest) = r, Len(Segment) > 2 - r
  PROVE  Segment[(2 - r) + 1] = Head(rest)
<1>1. test.retry /\ counter # 1 /\ OnItsWay
  BY DEF Deserving, Shape, Exactly
<1>2. PICK s \in Seq(Character), n \in Nat : s = Segment /\ n = Len(s)
  BY Lengths
<1>3. Len(<<>>) = 0 /\ Len(<<Name>>) = 1 /\ <<Name>>[1] = Name
  OBVIOUS
<1>4. CASE r = 2
  <2>1. ~Heard /\ Unheard /\ n > 0
    BY <1>1, <1>2, <1>4 DEF OnItsWay
  <2>2. s = <<Name>>
    BY <1>1, <1>2, <1>3, <1>4, <2>1 DEF Unheard
  <2>3. Head(rest) = Name
    BY <1>4 DEF Deserving, Shape
  <2>4. (2 - r) + 1 = 1
    BY <1>4
  <2> QED BY <1>2, <1>3, <2>2, <2>3, <2>4
<1>5. CASE r = 1
  <2>1. (2 - r) + 1 = 2 /\ n # 0 /\ n # 1
    BY <1>2, <1>5
  <2>2. Heard
    <3>1. ~Unheard
      BY <1>1, <1>2, <1>3, <2>1 DEF Unheard
    <3> QED BY <1>1, <3>1 DEF OnItsWay
  <2>3. s[2] = Newline
    BY <1>1, <1>2, <2>2 DEF OnItsWay
  <2>4. Head(rest) = Newline
    <3>1. rest = <<Newline>>
      BY <1>5, Lengths
    <3> QED BY <3>1
  <2> QED BY <1>2, <2>1, <2>3, <2>4
<1> QED
  BY <1>4, <1>5

LEMMA LookDeserves ==
  ASSUME Started, NEW h, Deserving(h), pc \in {"expect", "waiting"},
         NEW text, NEW status \in {"none", "eof"}, Look(text, status),
         status = "eof" => ~Matches(Pattern, text),
         UNCHANGED <<listVars, counter, rest, tries, allCorrect, tty, world>>,
         \A i \in 1..Len(commands) : i # counter => output'[i] = output[i],
         Exact => \E k \in Skip..Len(Segment) : Flowing(Segment, queue', tty, k) /\ text = Part(Segment, Skip, k)
  PROVE  Deserving(h)'
<1>1. /\ readStatus' = status
      /\ \/ Matches(Pattern, text) /\ answer' = "match" /\ buffer' = AfterMatch(Pattern, text) /\ pc' = "answered"
         \/ ~Matches(Pattern, text) /\ answer' = status /\ buffer' = text
            /\ pc' = (IF status = "none" THEN "waiting" ELSE "answered")
  BY DEF Look
<1>2. pc' \in {"waiting", "answered"}
  BY <1>1
<1>3. /\ Session(h)' /\ Verdicts' /\ (Exact' <=> Exact)
      /\ Exact => Ran' /\ InSession(h)' /\ OnItsWay' /\ Prompting' /\ (test.retry => Lost')
      /\ test' = test /\ counter' = counter /\ Segment' = Segment
      /\ rest' = rest /\ Pattern' = Pattern /\ Name' = Name
  BY <1>2, LookingKeeps
<1>4. dropped' = dropped /\ tries' = tries
  BY DEF world
<1>5. Shape'
  BY <1>1, <1>3, <1>4 DEF Deserving, Shape, Got
<1>6. ASSUME Exact
      PROVE  Buffered'
  <2>1. PICK k \in Skip..Len(Segment) : Flowing(Segment, queue', tty, k) /\ text = Part(Segment, Skip, k)
    BY <1>6
  <2>2. tty' = tty /\ ~Got("match")
    BY DEF Got
  <2>3. CASE ~Matches(Pattern, text)
    <3>1. buffer' = text /\ ~Got("match")'
      BY <1>1, <2>3 DEF Got
    <3>2. Skip' = Skip
      BY <1>3, <2>2, <3>1 DEF Skip
    <3> QED BY <1>3, <2>1, <2>2, <3>1, <3>2 DEF Buffered
  <2>4. CASE Matches(Pattern, text) /\ rest = <<>>
    BY <1>1, <1>3, <2>4 DEF Buffered, Got
  <2>5. CASE Matches(Pattern, text) /\ rest # <<>>
    <3>1. Got("match")' /\ buffer' = AfterMatch(Pattern, text)
      BY <1>1, <2>5 DEF Got
    <3>2. test.retry /\ counter # 1
      BY <2>5 DEF Deserving, Shape
    <3>3. PICK r \in {1, 2} : Len(rest) = r
      BY <2>5, Lengths
    <3>4. PICK a \in Nat, b \in Nat : a = 2 - r /\ b = a + 1 /\ Skip = a /\ Skip' = b
      <4>1. 2 - r \in Nat /\ (2 - r) + 1 \in Nat /\ (2 - r) + 0 = 2 - r
        OBVIOUS
      <4>2. Skip = 2 - r /\ Skip' = (2 - r) + 1
        BY <1>3, <2>2, <3>1, <3>2, <3>3, <4>1 DEF Skip
      <4> QED BY <4>1, <4>2
    <3>5. PICK s \in Seq(Character), n \in Nat, m \in Nat :
            /\ s = Segment /\ n = Len(s) /\ m = k /\ a <= m /\ m <= n /\ m <= Len(s) /\ text = Part(s, a, m)
      BY <2>1, <3>4, Lengths
    <3>6. text \in Seq(Character) /\ Len(text) = m - a /\ \A i \in 1..(m - a) : text[i] = s[a + i]
      <4>1. /\ Part(s, a, m) \in Seq(Character) /\ Len(Part(s, a, m)) = m - a
            /\ \A i \in 1..(m - a) : Part(s, a, m)[i] = s[a + i]
        <5>1. a <= m /\ m <= Len(s)
          BY <3>5
        <5>2. Part(s, a, m) \in Seq(Character)
          BY <5>1, PartProps, Zenon
        <5>3. Len(Part(s, a, m)) = m - a
          BY <5>1, PartLen, Zenon
        <5>4. \A i \in 1..(m - a) : Part(s, a, m)[i] = s[a + i]
          BY <5>1, PartProps
        <5> QED BY <5>2, <5>3, <5>4
      <4> QED BY <3>5, <4>1
    <3>7. Len(text) >= 1
      <4>1. DOMAIN text # {}
        BY <2>5 DEF Matches
      <4>2. DOMAIN text = 1..Len(text) /\ Len(text) \in Nat
        BY <3>6, LenProperties
      <4> QED BY <4>1, <4>2
    <3>8. b <= m /\ 1 \in 1..(m - a) /\ a + 1 = b
      BY <3>4, <3>5, <3>6, <3>7
    <3>9. text[1] = s[b]
      BY <3>6, <3>8
    <3>10. s[b] = Head(rest)
      <4>1. AtCommand /\ Len(Segment) > 2 - r
        BY <3>4, <3>5, <3>8 DEF AtCommand
      <4>2. Segment[(2 - r) + 1] = Head(rest)
        BY <1>6, <2>5, <3>3, <4>1, NextEcho
      <4> QED BY <3>4, <3>5, <4>2
    <3>11. Pattern = <<Head(rest)>>
      BY <2>5 DEF Pattern
    <3>12. buffer' = Part(text, 1, Len(text))
      BY <3>1, <3>6, <3>7, <3>9, <3>10, <3>11, FrontMatch
    <3>13. buffer' = Part(s, b, m)
      <4>1. PICK d \in Nat : d = m - a /\ 1 <= d /\ d <= m - a /\ a + d = m
        BY <3>4, <3>5, <3>8
      <4>2. Part(Part(s, a, m), 1, d) = Part(s, a + 1, a + d)
        BY <3>5, <4>1, PartOfPart
      <4> QED BY <3>5, <3>6, <3>8, <3>12, <4>1, <4>2
    <3>14. m \in b..Len(s)
      BY <3>5, <3>8
    <3> QED BY <1>3, <2>1, <2>2, <3>4, <3>5, <3>13, <3>14 DEF Buffered
  <2> QED BY <2>3, <2>4, <2>5
<1> QED
  BY <1>3, <1>5, <1>6 DEF Deserving, Exactly

LEMMA ExpectDeserves ==
  ASSUME Started, NEW h, Deserving(h), Expect
  PROVE  Deserving(h)'
<1>1. pc = "expect" /\ readStatus = "none" /\ Look(buffer, "none")
  <2>1. readStatus \in {"none", "eof"}
    BY DEF Started, State, RunTypes
  <2>2. pc = "expect"
    BY DEF Expect
  <2>3. readStatus # "eof"
    BY <2>2 DEF Deserving, Shape, Got
  <2> QED BY <2>1, <2>2, <2>3 DEF Expect
<1>2. /\ UNCHANGED <<listVars, counter, rest, tries, allCorrect, tty, world>>
      /\ queue' = queue /\ output' = output
  BY DEF Expect, record
<1>3. Exact => \E k \in Skip..Len(Segment) : Flowing(Segment, queue', tty, k) /\ buffer = Part(Segment, Skip, k)
  BY <1>1, <1>2 DEF Deserving, Exactly, Buffered, AtCommand, Got
<1>4. pc \in {"expect", "waiting"} /\ "none" \in {"none", "eof"} /\ "none" # "eof"
  BY <1>1
<1>5. \A i \in 1..Len(commands) : i # counter => output'[i] = output[i]
  BY <1>2
<1> QED
  BY <1>1, <1>2, <1>3, <1>4, <1>5, LookDeserves

LEMMA ReadDataDeserves ==
  ASSUME Started, NEW h, Deserving(h), ReadData
  PROVE  Deserving(h)'
<1>1. PICK q : q = Head(queue)
  OBVIOUS
<1>2. PICK text : text = buffer \o q
  OBVIOUS
<1>3. PICK status \in {"none", "eof"} : status = IF q = Eof THEN "eof" ELSE "none"
  OBVIOUS
<1>4. /\ pc = "waiting" /\ queue # <<>> /\ queue' = Tail(queue)
      /\ Recv(Head(queue)) /\ Look(text, status)
      /\ UNCHANGED <<listVars, counter, rest, tries, allCorrect, tty, world>>
  BY <1>1, <1>2, <1>3 DEF ReadData
<1>5. State /\ pc \in {"expect", "waiting"}
  BY <1>4 DEF Started
<1>6. \A i \in 1..Len(commands) : i # counter => output'[i] = output[i]
  <2>1. PICK k, b : Received(k, b)
    BY DEF Started
  <2> QED BY <1>4, <1>5, <2>1, RecvTakes
<1>7. status = "eof" => ~Matches(Pattern, text)
  <2> SUFFICES ASSUME status = "eof"
               PROVE  ~Matches(Pattern, text)
    OBVIOUS
  <2>1. q = <<>>
    BY <1>3 DEF Eof
  <2>2. text = buffer
    BY <1>2, <2>1, Lengths, ConcatEmptySeq
  <2> QED BY <1>4, <1>5, <2>2 DEF State, Places
<1>8. ASSUME Exact
      PROVE  \E k \in Skip..Len(Segment) : Flowing(Segment, queue', tty, k) /\ text = Part(Segment, Skip, k)
  <2>1. PICK k \in Skip..Len(Segment) : Flowing(Segment, queue, tty, k) /\ buffer = Part(Segment, Skip, k)
    BY <1>4, <1>8 DEF Deserving, Exactly, Buffered, AtCommand, Got
  <2>2. PICK s \in Seq(Character), a \in Nat, n \in Nat : s = Segment /\ a = Skip /\ n = Len(s)
    <3>1. Skip \in Nat
      <4>1. PICK l \in {0, 1, 2} : Len(rest) = l
        BY Lengths
      <4>2. 2 - l \in Nat /\ (2 - l) + 0 \in Nat
        OBVIOUS
      <4> QED BY <1>4, <4>1, <4>2 DEF Skip, Got
    <3> QED BY <3>1, Lengths
  <2>3. k \in Nat /\ a <= k /\ k <= n
    BY <2>1, <2>2
  <2>4. PICK m \in Nat : /\ k <= m /\ m <= Len(s)
                         /\ Head(queue) = Part(s, k, m)
                         /\ Flowing(s, Tail(queue), tty, m)
    <3>1. queue \in Seq(Seq(Character))
      BY Lengths
    <3> QED BY <1>4, <2>1, <2>2, <3>1, FlowTaken, Zenon
  <2>5. Part(s, a, k) \o Part(s, k, m) = Part(s, a, m)
    BY <2>2, <2>3, <2>4, PartsMeet
  <2>6. m \in a..n
    BY <2>2, <2>3, <2>4
  <2>7. text = Part(s, a, m)
    BY <1>1, <1>2, <2>1, <2>2, <2>4, <2>5
  <2> QED BY <1>4, <2>2, <2>4, <2>6, <2>7
<1> QED
  BY <1>4, <1>5, <1>6, <1>7, <1>8, LookDeserves

LEMMA TimeOutDeserves ==
  ASSUME Started, NEW h, Deserving(h), TimeOut
  PROVE  Deserving(h)'
<1>1. /\ pc = "waiting" /\ pc' = "answered" /\ answer' = "timeout"
      /\ UNCHANGED <<listVars, counter, rest, tries, allCorrect, world>>
      /\ output' = output /\ buffer' = buffer /\ readStatus' = readStatus /\ queue' = queue /\ tty' = tty
  BY DEF TimeOut, record, expect
<1>2. pc \in {"expect", "waiting"} /\ pc' \in {"waiting", "answered"}
  BY <1>1
<1>3. \A i \in 1..Len(commands) : i # counter => output'[i] = output[i]
  BY <1>1
<1>4. /\ Session(h)' /\ Verdicts' /\ (Exact' <=> Exact)
      /\ Exact => Ran' /\ InSession(h)' /\ OnItsWay' /\ Prompting' /\ (test.retry => Lost')
      /\ test' = test /\ counter' = counter /\ Segment' = Segment
      /\ rest' = rest /\ Pattern' = Pattern /\ Name' = Name
  BY <1>1, <1>2, <1>3, LookingKeeps
<1>5. dropped' = dropped /\ tries' = tries
  BY <1>1 DEF world
<1>6. ~Matches(Pattern, buffer)
  BY <1>1 DEF Started, State, Places
<1>7. Shape'
  BY <1>1, <1>4, <1>5, <1>6 DEF Deserving, Shape, Got
<1>8. Exact => Buffered'
  <2>1. Skip' = Skip
    BY <1>1, <1>4 DEF Skip, Got
  <2> QED BY <1>1, <1>4, <2>1 DEF Deserving, Exactly, Buffered, AtCommand, Got
<1> QED
  BY <1>4, <1>7, <1>8 DEF Deserving, Exactly

-----------------------------------------------------------------------------
(* What sendCommand does with it.                                          *)

(* An echo that does not come is one of a character that was lost.         *)
LEMMA NotHeard ==
  ASSUME Started, NEW h, Deserving(h), Exact, Answered(TRUE), answer # "match"
  PROVE  /\ answer = "timeout" /\ machine.state = "ready" /\ input = <<>>
         /\ test.retry /\ counter # 1 /\ ~Heard /\ Unheard
         /\ Len(Segment) = 2 - Len(rest) /\ tries < dropped
<1>1. pc = "answered" /\ rest # <<>> /\ AtCommand /\ State
  BY DEF Answered, AtCommand, Started
<1>2. test.retry /\ counter # 1 /\ OnItsWay /\ Lost
  BY <1>1 DEF Deserving, Shape, Exactly
<1>3. Got("timeout") \/ Got("eof")
  BY <1>1 DEF State, RunTypes, Places, Got
<1>4. queue = <<>> /\ tty = <<>> /\ (Got("timeout") => Silent) /\ (Got("eof") => machine.state = "down")
  BY <1>1, <1>3 DEF State, Places, Ends, Silent
<1>5. PICK r \in {1, 2} : Len(rest) = r
  BY <1>1, Lengths
<1>6. PICK a \in Nat : a = 2 - r /\ a + 0 = a
  <2>1. 2 - r \in Nat
    OBVIOUS
  <2> QED BY <2>1
<1>7. Skip = a /\ ~Got("match")
  BY <1>2, <1>5, <1>6 DEF Skip, Got
<1>8. PICK s \in Seq(Character), n \in Nat : s = Segment /\ n = Len(s)
  BY Lengths
<1>9. a <= n /\ buffer = Part(s, a, n)
  <2>1. PICK k \in a..n : Flowing(s, <<>>, <<>>, k) /\ buffer = Part(s, a, k)
    BY <1>1, <1>4, <1>7, <1>8 DEF Deserving, Exactly, Buffered
  <2>2. k = n
    BY <1>8, <2>1, FlowEnd
  <2> QED BY <1>6, <1>8, <2>1, <2>2
<1>10. n = a
  <2> SUFFICES ASSUME n # a
               PROVE  FALSE
    OBVIOUS
  <2>1. n > 2 - r /\ 1 \in 1..(n - a) /\ n <= Len(s)
    BY <1>6, <1>8, <1>9
  <2>2. s[a + 1] = Head(rest)
    BY <1>1, <1>5, <1>6, <1>8, <2>1, NextEcho
  <2>3. Part(s, a, n)[1] = s[a + 1]
    BY <1>9, <2>1, PartAt
  <2>4. Len(Part(s, a, n)) = n - a
    BY <1>9, <2>1, PartLen
  <2>5. PICK c \in Character : c = Head(rest)
    <3>1. s[a + 1] \in Character
      <4>1. a + 1 \in 1..Len(s)
        BY <1>8, <1>9, <2>1
      <4> QED BY <4>1, ElementOfSeq
    <3> QED BY <2>2, <3>1
  <2>6. ~Matches(<<c>>, buffer)
    BY <1>1, <1>3, <2>5 DEF Deserving, Shape, Pattern
  <2>7. buffer \in Seq(Character)
    BY Lengths
  <2>8. \A i \in 1..Len(buffer) : buffer[i] # c
    BY <2>6, <2>7, NoMatch
  <2> QED BY <1>9, <2>1, <2>2, <2>3, <2>4, <2>5, <2>8
<1>11. ~Heard
  <2> SUFFICES ASSUME Heard
               PROVE  FALSE
    OBVIOUS
  <2>1. n >= 2 /\ r # 2
    BY <1>1, <1>2, <1>5, <1>8 DEF OnItsWay
  <2> QED BY <1>6, <1>8, <1>10, <2>1
<1>12. Unheard /\ machine.state = "ready"
  BY <1>1, <1>2, <1>11 DEF OnItsWay, Unheard
<1>13. answer = "timeout" /\ input = <<>>
  BY <1>3, <1>4, <1>12 DEF Got, Silent
<1>14. Len(Segment) = 2 - Len(rest)
  BY <1>5, <1>6, <1>8, <1>10
<1>15. tries < dropped
  BY <1>1, <1>2, <1>11, <1>13, <1>14 DEF Lost
<1> QED
  BY <1>2, <1>11, <1>12, <1>13, <1>14, <1>15

LEMMA SendingKeeps ==
  ASSUME Started, NEW h, Deserving(h), Alive, pc' # "top",
         UNCHANGED <<listVars, counter, expect, queue, reader, tty, machine, dropped, faulty, executed, spoken>>,
         \A i \in 1..(counter - 1) : output'[i] = output[i]
  PROVE  /\ test' = test /\ counter' = counter /\ dropped' = dropped /\ machine' = machine
         /\ executed' = executed /\ buffer' = buffer /\ readStatus' = readStatus /\ queue' = queue /\ tty' = tty
         /\ Session(h)' /\ (Exact' <=> Exact) /\ (Heard' <=> Heard)
         /\ Exact => Ran' /\ InSession(h)' /\ Prompting'
         /\ Segment' = Segment /\ Name' = Name
         /\ (Healthy' <=> Healthy) /\ (JudgedCorrect' <=> JudgedCorrect)
         /\ allCorrect' = allCorrect /\ ~Closed' => Verdicts'
<1>1. /\ test' = test /\ commands' = commands /\ counter' = counter
      /\ buffer' = buffer /\ readStatus' = readStatus /\ queue' = queue /\ tty' = tty
      /\ machine' = machine /\ dropped' = dropped /\ faulty' = faulty
      /\ executed' = executed /\ spoken' = spoken
  BY DEF listVars, expect
<1>2. /\ Segment' = Segment /\ (NextPrompt' <=> NextPrompt) /\ Name' = Name
      /\ Command' = Command
      /\ (Heard' <=> Heard) /\ (Exact' <=> Exact) /\ (Healthy' <=> Healthy)
  BY <1>1 DEF Segment, NextPrompt, Name, Command, Heard, Exact, Healthy
<1>3. JudgedCorrect' <=> JudgedCorrect
  <2>1. \A i : Expected(commands[i])' = Expected(commands[i])
    BY <1>1 DEF Expected
  <2> QED BY <1>1, <2>1 DEF JudgedCorrect
<1>4. allCorrect' = allCorrect /\ ~Closed' => Verdicts'
  BY <1>1, <1>2, <1>3 DEF Deserving, Verdicts
<1>5. ASSUME Exact
      PROVE  Ran' /\ InSession(h)' /\ Prompting'
  <2>1. Exactly(h)
    BY <1>5 DEF Deserving
  <2>2. Ran'
    BY <1>1, <2>1 DEF Exactly, Ran
  <2>3. InSession(h)'
    BY <1>1, <1>2, <2>1 DEF Exactly, InSession
  <2>4. Prompting'
    BY <1>1, <1>2, <2>1 DEF Exactly, Prompting
  <2> QED BY <2>2, <2>3, <2>4
<1> QED
  BY <1>1, <1>2, <1>3, <1>4, <1>5, SessionIsSame DEF Deserving

LEMMA EchoedDeserves ==
  ASSUME Started, NEW h, Deserving(h), Echoed
  PROVE  Deserving(h)'
<1>1. /\ pc = "answered" /\ rest # <<>> /\ answer = "match" /\ rest' = Tail(rest) /\ tries' = 0
      /\ pc' = (IF rest' = <<>> THEN "expect" ELSE "send")
      /\ allCorrect' = allCorrect /\ input' = input
      /\ UNCHANGED <<listVars, counter, expect, queue, reader, tty, machine, dropped, faulty, executed, spoken>>
      /\ \A i \in 1..(counter - 1) : output'[i] = output[i]
  BY DEF Echoed, Answered, record, world
<1>2. Alive /\ AtCommand /\ pc' # "top" /\ ~Closed' /\ pc' # "answered"
  BY <1>1 DEF Alive, AtCommand, Closed
<1>3. /\ test' = test /\ counter' = counter /\ dropped' = dropped /\ machine' = machine
      /\ buffer' = buffer /\ readStatus' = readStatus /\ queue' = queue /\ tty' = tty
      /\ Session(h)' /\ (Exact' <=> Exact) /\ (Heard' <=> Heard)
      /\ Exact => Ran' /\ InSession(h)' /\ Prompting'
      /\ Segment' = Segment /\ Name' = Name /\ Verdicts'
  BY <1>1, <1>2, SendingKeeps
<1>4. test.retry /\ counter # 1
  BY <1>1 DEF Deserving, Shape
<1>5. PICK r \in {1, 2} : Len(rest) = r
  BY <1>1, Lengths
<1>6. IF r = 1 THEN rest' = <<>> ELSE rest' = <<Newline>>
  <2>1. rest \in Rests
    BY Lengths
  <2> QED BY <1>1, <1>5, <2>1, RestCases
<1>7. Len(rest') = r - 1 /\ Len(rest') # 2
  <2>1. Len(<<>>) = 0 /\ Len(<<Newline>>) = 1
    OBVIOUS
  <2>2. CASE r = 1
    BY <1>6, <2>1, <2>2
  <2>3. CASE r = 2
    BY <1>6, <2>1, <2>3
  <2> QED BY <2>2, <2>3
<1>8. Shape'
  <2>1. dropped \in Nat /\ 0 \in Nat /\ readStatus # "eof"
    BY <1>1 DEF Deserving, Shape, Got
  <2> QED BY <1>1, <1>2, <1>3, <1>4, <1>7, <2>1 DEF Shape, Got
<1>9. ASSUME Exact
      PROVE  Exactly(h)'
  <2>1. Exactly(h)
    BY <1>9 DEF Deserving
  <2>2. PICK a \in Nat : a = 3 - r /\ Skip = a /\ Skip' = a
    <3>1. (2 - r) + 1 = 3 - r /\ (2 - (r - 1)) + 0 = 3 - r /\ 3 - r \in Nat
      OBVIOUS
    <3> QED BY <1>1, <1>2, <1>3, <1>4, <1>5, <1>7, <3>1 DEF Skip, Got
  <2>3. PICK k \in a..Len(Segment) : Flowing(Segment, queue, tty, k) /\ buffer = Part(Segment, a, k)
    BY <1>1, <1>2, <2>1, <2>2 DEF Exactly, Buffered
  <2>4. Buffered'
    BY <1>3, <2>2, <2>3 DEF Buffered
  <2>5. OnItsWay'
    <3>1. OnItsWay
      BY <2>1 DEF Exactly
    <3>2. CASE Heard
      BY <1>1, <1>2, <1>3, <1>4, <1>5, <1>6, <1>7, <3>1, <3>2 DEF OnItsWay
    <3>3. CASE ~Heard
      <4>1. Unheard
        BY <1>2, <1>4, <3>1, <3>3 DEF OnItsWay
      <4>2. Len(Segment) >= 3 - r
        BY <2>2, <2>3, Lengths
      <4>3. Len(<<>>) = 0 /\ Len(<<Name>>) = 1
        OBVIOUS
      <4>4. r = 2 /\ Segment = <<Name>> /\ input = <<>>
        <5>0. PICK n \in Nat : n = Len(Segment)
          BY Lengths
        <5>1. n = Len(Segment) /\ n >= 3 - r /\ n # 0
          BY <4>2, <5>0
        <5>2. CASE r = 1
          <6>1. Segment = <<Name>> /\ n >= 2
            BY <1>4, <1>5, <4>1, <5>1, <5>2 DEF Unheard
          <6> QED BY <4>3, <5>1, <6>1
        <5>3. CASE r = 2
          BY <1>4, <1>5, <4>1, <4>3, <5>1, <5>3 DEF Unheard
        <5> QED BY <5>2, <5>3
      <4>5. Unheard'
        BY <1>1, <1>3, <1>4, <1>7, <4>1, <4>4 DEF Unheard
      <4> QED BY <1>3, <1>4, <3>3, <4>5 DEF OnItsWay
    <3> QED BY <3>2, <3>3
  <2>6. Lost'
    <3>1. 0 <= dropped
      BY DEF Deserving, Shape
    <3> QED BY <1>1, <1>3, <3>1 DEF Lost
  <2> QED BY <1>3, <1>9, <2>4, <2>5, <2>6 DEF Exactly
<1> QED
  BY <1>3, <1>8, <1>9 DEF Deserving

LEMMA NotEchoedDeserves ==
  ASSUME Started, NEW h, Deserving(h), NotEchoed
  PROVE  Deserving(h)'
<1>1. /\ pc = "answered" /\ rest # <<>> /\ answer # "match" /\ rest' = rest /\ answer' = answer /\ tries' = tries + 1
      /\ input' = input
      /\ UNCHANGED <<listVars, counter, expect, queue, reader, tty, machine, dropped, faulty, executed, spoken>>
      /\ \A i \in 1..(counter - 1) : output'[i] = output[i]
  BY DEF NotEchoed, Answered, record, world
<1>2. \/ answer = "timeout" /\ tries + 1 < CommandRetries /\ pc' = "send" /\ allCorrect' = allCorrect
      \/ ~(answer = "timeout" /\ tries + 1 < CommandRetries) /\ pc' = "close" /\ allCorrect' = FALSE
  BY <1>1 DEF NotEchoed, Fails
<1>3. Alive /\ AtCommand /\ pc' # "top" /\ pc' # "answered" /\ Answered(TRUE)
  BY <1>1, <1>2 DEF Alive, AtCommand, Answered
<1>4. /\ test' = test /\ counter' = counter /\ dropped' = dropped /\ machine' = machine
      /\ buffer' = buffer /\ readStatus' = readStatus /\ queue' = queue /\ tty' = tty
      /\ Session(h)' /\ (Exact' <=> Exact) /\ (Heard' <=> Heard)
      /\ Exact => Ran' /\ InSession(h)' /\ Prompting'
      /\ Segment' = Segment /\ Name' = Name
      /\ (Healthy' <=> Healthy) /\ (JudgedCorrect' <=> JudgedCorrect)
      /\ allCorrect' = allCorrect /\ ~Closed' => Verdicts'
  BY <1>1, <1>3, SendingKeeps
<1>5. test.retry /\ counter # 1 /\ dropped \in Nat /\ tries \in Nat /\ Exact
  BY <1>1 DEF Deserving, Shape, Exact
<1>6. /\ answer = "timeout" /\ machine.state = "ready" /\ input = <<>>
      /\ ~Heard /\ Unheard
      /\ Len(Segment) = 2 - Len(rest) /\ tries < dropped
  BY <1>1, <1>3, <1>5, NotHeard
<1>7. tries + 1 \in Nat /\ tries + 1 <= dropped
  BY <1>5, <1>6
<1>8. CASE pc' = "send" /\ allCorrect' = allCorrect
  <2>1. Verdicts'
    BY <1>4, <1>8 DEF Closed
  <2>2. Shape'
    <3>1. readStatus # "eof"
      BY <1>1, <1>6 DEF Deserving, Shape, Got
    <3> QED BY <1>1, <1>3, <1>4, <1>5, <1>7, <3>1 DEF Deserving, Shape, Got
  <2>3. Buffered'
    <3>1. Skip' = Skip
      BY <1>1, <1>3, <1>4 DEF Skip, Got
    <3>2. Buffered /\ ~(Got("match") /\ rest = <<>>)
      BY <1>1, <1>5 DEF Deserving, Exactly
    <3> QED BY <1>3, <1>4, <3>1, <3>2 DEF Buffered
  <2>4. OnItsWay'
    <3>1. Len(rest) = 2 => Segment # <<Name>>
      <4>1. Len(<<Name>>) = 1
        OBVIOUS
      <4> QED BY <1>6, <4>1
    <3>2. Unheard'
      BY <1>1, <1>4, <1>5, <1>6, <3>1 DEF Unheard
    <3> QED BY <1>4, <1>6, <3>2 DEF OnItsWay
  <2>5. Lost'
    BY <1>1, <1>4, <1>7, <1>8 DEF Lost
  <2> QED BY <1>4, <1>5, <2>1, <2>2, <2>3, <2>4, <2>5 DEF Deserving, Exactly
<1>9. CASE ~(answer = "timeout" /\ tries + 1 < CommandRetries) /\ pc' = "close" /\ allCorrect' = FALSE
  <2>1. ~Healthy
    <3>1. ~(dropped < CommandRetries)
      BY <1>5, <1>6, <1>7, <1>9, ConsoleAssumption
    <3> QED BY <1>5, <3>1 DEF Healthy
  <2>2. Verdicts'
    BY <1>4, <1>9, <2>1 DEF Verdicts
  <2>3. Shape'
    BY <1>1, <1>4, <1>5, <1>7, <1>9 DEF Deserving, Shape, Got
  <2>4. ~AtCommand'
    BY <1>9 DEF AtCommand
  <2>5. Exactly(h)'
    BY <1>4, <1>5, <2>4 DEF Exactly, OnItsWay, Buffered, Lost
  <2> QED BY <1>4, <2>2, <2>3, <2>5 DEF Deserving
<1> QED
  BY <1>2, <1>8, <1>9

LEMMA SendCharacterDeserves ==
  ASSUME Started, NEW h, Deserving(h), SendCharacter
  PROVE  Deserving(h)'
<1>1. /\ pc = "send" /\ pc' = "expect" /\ rest' = rest /\ tries' = tries /\ allCorrect' = allCorrect
      /\ input' = Append(input, Head(rest))
      /\ UNCHANGED <<listVars, counter, expect, queue, reader, tty, machine, dropped, faulty, executed, spoken>>
      /\ \A i \in 1..(counter - 1) : output'[i] = output[i]
  BY DEF SendCharacter, record
<1>2. Alive /\ AtCommand /\ pc' # "top" /\ ~Closed'
  BY <1>1 DEF Alive, AtCommand, Closed
<1>3. /\ test' = test /\ counter' = counter /\ dropped' = dropped /\ machine' = machine
      /\ buffer' = buffer /\ readStatus' = readStatus /\ queue' = queue /\ tty' = tty
      /\ Session(h)' /\ (Exact' <=> Exact) /\ (Heard' <=> Heard)
      /\ Exact => Ran' /\ InSession(h)' /\ Prompting'
      /\ Segment' = Segment /\ Name' = Name /\ Verdicts'
  BY <1>1, <1>2, SendingKeeps
<1>4. rest # <<>>
  BY <1>1 DEF Started, State, Places
<1>5. test.retry /\ counter # 1 /\ Exact /\ Exactly(h)
  BY <1>4 DEF Deserving, Shape, Exact
<1>6. Shape'
  <2>1. readStatus # "eof"
    BY <1>1 DEF Deserving, Shape, Got
  <2> QED BY <1>1, <1>3, <2>1 DEF Deserving, Shape, Got
<1>7. ~Heard /\ Unheard
  BY <1>1, <1>2, <1>5 DEF Exactly, OnItsWay
<1>8. input = <<>> /\ input' = <<Head(rest)>>
  <2>1. input = <<>>
    BY <1>1, <1>7 DEF Unheard
  <2>2. Append(<<>>, Head(rest)) = <<Head(rest)>>
    OBVIOUS
  <2> QED BY <1>1, <2>1, <2>2
<1>9. Unheard'
  <2>1. CASE Len(rest) = 2 /\ Segment = <<>>
    <3>1. Head(rest) = Name
      BY <2>1 DEF Deserving, Shape
    <3> QED BY <1>1, <1>3, <1>5, <1>7, <1>8, <2>1, <3>1 DEF Unheard
  <2>2. CASE Len(rest) = 1 /\ Segment = <<Name>>
    <3>1. Head(rest) = Newline
      <4>1. rest = <<Newline>>
        BY <2>2, Lengths
      <4> QED BY <4>1
    <3> QED BY <1>1, <1>3, <1>5, <1>7, <1>8, <2>2, <3>1 DEF Unheard
  <2> QED BY <1>1, <1>5, <1>7, <2>1, <2>2 DEF Unheard
<1>10. OnItsWay'
  BY <1>3, <1>7, <1>9 DEF OnItsWay
<1>11. Buffered'
  <2>1. Skip' = Skip
    BY <1>1, <1>3 DEF Skip, Got
  <2> QED BY <1>1, <1>2, <1>3, <1>5, <2>1 DEF Exactly, Buffered, Got
<1>12. Lost'
  <2>1. input' # <<>> /\ tries <= dropped
    BY <1>2, <1>5, <1>8 DEF Exactly, Lost
  <2> QED BY <1>1, <1>3, <2>1 DEF Lost
<1> QED
  BY <1>3, <1>5, <1>6, <1>10, <1>11, <1>12 DEF Deserving, Exactly

LEMMA TypeDeserves ==
  ASSUME Started, NEW h, Deserving(h), Type
  PROVE  Deserving(h)'
<1>1. /\ pc = "top" /\ tries' = 0 /\ allCorrect' = allCorrect
      /\ UNCHANGED <<listVars, counter, expect, queue, reader, tty, machine, dropped, faulty, executed, spoken>>
      /\ \A i \in 1..(counter - 1) : output'[i] = output[i]
      /\ \/ test.retry /\ rest' = <<Name, Newline>> /\ pc' = "send" /\ input' = input
         \/ ~test.retry /\ input' = input \o <<Name, Newline>> /\ pc' = "expect" /\ rest' = rest
  BY DEF Type, Name, record
<1>2. Alive /\ ~AtCommand /\ AtCommand' /\ pc' # "top" /\ ~Closed' /\ pc' # "answered"
  BY <1>1 DEF Alive, AtCommand, Closed
<1>3. /\ test' = test /\ counter' = counter /\ dropped' = dropped /\ machine' = machine
      /\ buffer' = buffer /\ readStatus' = readStatus /\ queue' = queue /\ tty' = tty
      /\ Session(h)' /\ (Exact' <=> Exact) /\ (Heard' <=> Heard)
      /\ Exact => Ran' /\ InSession(h)' /\ Prompting'
      /\ Segment' = Segment /\ Name' = Name /\ Verdicts'
  BY <1>1, <1>2, SendingKeeps
<1>4. rest = <<>> /\ Segment = <<>> /\ ~NextPrompt
  BY <1>1 DEF Started, State, Places
<1>5. ASSUME Exact
      PROVE  counter # 1 /\ machine.state = "ready" /\ ~Heard
  <2>1. counter # 1 /\ machine.state = "ready" /\ Len(spoken) = Len(executed) + 2
    BY <1>1, <1>2, <1>5 DEF Deserving, Exactly, InSession
  <2>2. Len(executed) \in Nat
    BY <1>5, LenProperties DEF Deserving, Exactly, Ran
  <2>3. Len(spoken) = counter /\ counter \in Nat
    BY <1>4, Lengths
  <2> QED BY <2>1, <2>2, <2>3 DEF Heard
<1>6. test.retry => Exact
  BY DEF Exact
<1>7. Len(<<Name, Newline>>) = 2 /\ <<Name, Newline>>[1] = Name /\ Len(<<>>) = 0
  OBVIOUS
<1>8. Shape'
  <2>1. readStatus # "eof" /\ dropped \in Nat /\ 0 \in Nat
    BY <1>1 DEF Deserving, Shape, Got
  <2> QED BY <1>1, <1>2, <1>3, <1>4, <1>5, <1>6, <1>7, <2>1 DEF Shape, Got
<1>9. ASSUME Exact
      PROVE  Exactly(h)'
  <2>1. input = <<>>
    BY <1>1, <1>5, <1>9 DEF Started, State, Ready
  <2>2. <<>> \o <<Name, Newline>> = <<Name, Newline>>
    OBVIOUS
  <2>3. Unheard'
    BY <1>1, <1>3, <1>4, <1>5, <1>7, <1>9, <2>1, <2>2 DEF Unheard
  <2>4. OnItsWay'
    BY <1>3, <1>5, <1>9, <2>3 DEF OnItsWay
  <2>5. Skip' = 0
    <3>1. (2 - 2) + 0 = 0
      OBVIOUS
    <3> QED BY <1>1, <1>2, <1>3, <1>7, <3>1 DEF Skip, Got
  <2>6. Buffered'
    <3>1. PICK k, b : Received(k, b)
      BY DEF Started
    <3>2. Flowing(Segment, queue, tty, k) /\ b \in 0..k /\ buffer = Part(Segment, b, k)
      BY <3>1 DEF Received
    <3>3. PICK s \in Seq(Character) : s = Segment /\ s = <<>>
      BY <1>4, Lengths
    <3>4. k \in Nat /\ k <= Len(s)
      <4>1. queue \in Seq(Seq(Character))
        BY Lengths
      <4>2. PICK at : Flow(s, queue, tty, k, at)
        BY <3>2, <3>3 DEF Flowing
      <4> QED BY <4>1, <4>2, FlowProps
    <3>5. k = 0 /\ b = 0 /\ 0 \in 0..Len(s)
      BY <3>2, <3>3, <3>4
    <3> QED BY <1>3, <2>5, <3>2, <3>3, <3>5 DEF Buffered
  <2>7. test.retry => Lost'
    <3>1. 0 <= dropped
      BY DEF Deserving, Shape
    <3> QED BY <1>1, <1>3, <3>1 DEF Lost
  <2> QED BY <1>3, <1>9, <2>4, <2>6, <2>7 DEF Exactly
<1> QED
  BY <1>3, <1>8, <1>9 DEF Deserving

-----------------------------------------------------------------------------
(* What Run does at the prompt.                                            *)

LEMMA EndMatch ==
  ASSUME NEW S, NEW text \in Seq(S), NEW p, EndsIn(text, p)
  PROVE  Matches(Prompt(p), text)
<1>1. PICK n \in Nat : n = Len(text) /\ n >= 2
  BY LenProperties DEF EndsIn
<1>2. PICK a \in Nat : a = n - 2 /\ a + 1 = n - 1 /\ a + 2 = n /\ a <= n /\ n - a = 2
  <2>1. n - 2 \in Nat /\ (n - 2) + 1 = n - 1 /\ (n - 2) + 2 = n /\ n - 2 <= n /\ n - (n - 2) = 2
    BY <1>1
  <2> QED BY <2>1
<1>3. PICK u \in Seq(S) : u = Part(text, a, n) /\ Len(u) = 2 /\ u[1] = p /\ u[2] = PromptEnd
  <2>1. n <= Len(text) /\ 1 \in 1..(n - a) /\ 2 \in 1..(n - a)
    BY <1>1, <1>2
  <2>2. Part(text, a, n) \in Seq(S)
    BY <1>2, <2>1, PartProps, Zenon
  <2>3. Len(Part(text, a, n)) = n - a
    BY <1>2, <2>1, PartLen, Zenon
  <2>4. Part(text, a, n)[1] = text[a + 1] /\ Part(text, a, n)[2] = text[a + 2]
    <3>1. a <= n
      BY <1>2
    <3>2. Part(text, a, n)[1] = text[a + 1]
      BY <2>1, <3>1, PartAt, Zenon
    <3>3. Part(text, a, n)[2] = text[a + 2]
      BY <2>1, <3>1, PartAt, Zenon
    <3> QED BY <3>2, <3>3
  <2>5. text[a + 1] = p /\ text[a + 2] = PromptEnd
    BY <1>1, <1>2 DEF EndsIn
  <2> QED BY <1>2, <2>2, <2>3, <2>4, <2>5
<1>4. u = Prompt(p) /\ Len(Prompt(p)) = 2
  <2>1. Len(<<p, PromptEnd>>) = 2 /\ <<p, PromptEnd>>[1] = p /\ <<p, PromptEnd>>[2] = PromptEnd
    OBVIOUS
  <2>2. u = <<p, PromptEnd>>
    BY <1>3, <2>1
  <2> QED BY <2>1, <2>2 DEF Prompt
<1>5. SubSeq(text, a + 1, n) = Prompt(p)
  BY <1>3, <1>4 DEF Part
<1>6. MatchesAt(Prompt(p), text, a + 1)
  <2>1. (a + 1) + 2 - 1 = n /\ n <= Len(text)
    BY <1>1, <1>2
  <2> QED BY <1>4, <1>5, <2>1 DEF MatchesAt
<1>7. a + 1 \in DOMAIN text
  BY <1>1, <1>2, LenProperties
<1> QED
  BY <1>6, <1>7 DEF Matches

(* When there is nothing more to come, the machine has heard the line.     *)
LEMMA NothingToCome ==
  ASSUME Started, NEW h, Deserving(h), Exact, Answered(FALSE), answer # "match"
  PROVE  /\ Heard /\ queue = <<>> /\ tty = <<>>
         /\ \/ machine.state = "ready" /\ Got("timeout") /\ NextPrompt
            \/ machine.state = "hung" /\ faulty
            \/ machine.state = "down"
<1>1. pc = "answered" /\ rest = <<>> /\ AtCommand /\ Alive /\ State
  BY DEF Answered, AtCommand, Alive, Started
<1>2. Ran /\ InSession(h) /\ OnItsWay
  BY DEF Deserving, Exactly
<1>3. Got("timeout") \/ Got("eof")
  BY <1>1 DEF State, RunTypes, Places, Got
<1>4. /\ queue = <<>> /\ tty = <<>> /\ (Got("timeout") => Silent) /\ (Got("eof") => machine.state = "down")
      /\ machine.state # "booting"
  BY <1>1, <1>3 DEF State, Places, Ends, Silent, Booting
<1>5. CASE machine.state = "ready"
  <2>1. Got("timeout") /\ input = <<>>
    BY <1>3, <1>4, <1>5 DEF Silent
  <2>2. Len(spoken) = Len(executed) + 2
    BY <1>1, <1>2, <1>5 DEF InSession
  <2>3. PICK c \in Nat \ {0}, n \in Nat, e \in Nat :
            c = counter /\ n = Len(spoken) /\ e = Len(executed) /\ (n = c \/ n = c + 1) /\ e < c /\ n = e + 2
    <3>1. Len(executed) \in Nat /\ Len(executed) < counter
      BY <1>2, LenProperties DEF Ran
    <3> QED BY <2>2, <3>1, Lengths
  <2>4. Heard
    <3>1. CASE counter = 1
      <4>1. e = c - 1
        BY <2>3, <3>1
      <4> QED BY <2>3, <4>1 DEF Heard
    <3>2. CASE counter # 1
      <4>1. ~Unheard
        <5>1. Len(<<>>) = 0 /\ <<Name, Newline>> # <<>> /\ <<Newline>> # <<>>
          OBVIOUS
        <5> QED BY <1>1, <2>1, <5>1 DEF Unheard
      <4> QED BY <1>1, <1>2, <3>2, <4>1 DEF OnItsWay
    <3> QED BY <3>1, <3>2
  <2>5. NextPrompt
    <3>1. n = c + 1
      BY <2>3, <2>4 DEF Heard
    <3> QED BY <2>3, <3>1 DEF NextPrompt
  <2> QED BY <1>4, <1>5, <2>1, <2>4, <2>5
<1>6. CASE machine.state \in {"hung", "down"}
  BY <1>1, <1>2, <1>4, <1>6 DEF InSession
<1> QED
  BY <1>4, <1>5, <1>6, Lengths

(* The prompt does not fail to come where nothing is lost.                 *)
LEMMA NoPrompt ==
  ASSUME Started, NEW h, Deserving(h), Healthy, Answered(FALSE), answer # "match"
  PROVE  Command.prompt = None
<1>1. Exact /\ ~faulty
  BY DEF Healthy, Exact
<1>2. pc = "answered" /\ rest = <<>> /\ AtCommand /\ Alive
  BY DEF Answered, AtCommand, Alive
<1>3. /\ queue = <<>> /\ tty = <<>>
      /\ \/ machine.state = "ready" /\ Got("timeout") /\ NextPrompt
         \/ machine.state = "down"
  BY <1>1, NothingToCome
<1>4. Exactly(h)
  BY <1>1 DEF Deserving
<1>5. CASE machine.state = "down"
  <2>1. h[counter] = <<>>
    BY <1>1, <1>2, <1>4, <1>5 DEF Exactly, InSession
  <2>2. counter \in 1..Len(commands)
    BY DEF Started, State, RunTypes
  <2> QED BY <2>1, <2>2 DEF Deserving, Session, Sessions, Command
<1>6. CASE Got("timeout") /\ NextPrompt
  <2> SUFFICES ASSUME Command.prompt # None
               PROVE  FALSE
    OBVIOUS
  <2>1. ~Matches(Prompt(Command.prompt), buffer)
    BY <1>2, <1>6 DEF Deserving, Shape, Pattern
  <2>2. PICK s \in Seq(Character), n \in Nat :
          /\ s = Segment /\ n = Len(s) /\ n >= (IF counter = 1 THEN 2 ELSE 4) /\ EndsIn(s, Command.prompt)
    BY <1>2, <1>4, <1>6, Lengths DEF Exactly, Prompting
  <2>3. PICK a \in {0, 2} : Skip = a /\ (counter = 1 => a = 0)
    <3>1. (2 - 0) + 0 = 2 /\ Len(<<>>) = 0
      OBVIOUS
    <3> QED BY <1>2, <1>6, <3>1 DEF Skip, Got
  <2>4. PICK k \in a..n : Flowing(s, <<>>, <<>>, k) /\ buffer = Part(s, a, k)
    BY <1>2, <1>3, <1>4, <1>6, <2>2, <2>3 DEF Exactly, Buffered, Got
  <2>5. k = n
    BY <2>2, <2>4, FlowEnd
  <2>6. /\ a \in Nat /\ a <= n /\ n <= Len(s) /\ n - a >= 2 /\ n - a \in Nat
        /\ (n - a) - 1 \in 1..(n - a) /\ n - a \in 1..(n - a)
        /\ a + ((n - a) - 1) = n - 1 /\ a + (n - a) = n
    BY <2>2, <2>3
  <2>7. Len(Part(s, a, n)) = n - a
    BY <2>6, PartLen, Zenon
  <2>8. Part(s, a, n)[(n - a) - 1] = s[n - 1] /\ Part(s, a, n)[n - a] = s[n]
    <3>1. Part(s, a, n)[(n - a) - 1] = s[a + ((n - a) - 1)]
      BY <2>6, PartAt, Zenon
    <3>2. Part(s, a, n)[n - a] = s[a + (n - a)]
      BY <2>6, PartAt, Zenon
    <3> QED BY <2>6, <3>1, <3>2
  <2>9. EndsIn(buffer, Command.prompt)
    BY <2>2, <2>4, <2>5, <2>6, <2>7, <2>8 DEF EndsIn
  <2>10. buffer \in Seq(Character)
    BY Lengths
  <2> QED BY <2>1, <2>9, <2>10, EndMatch
<1> QED
  BY <1>3, <1>5, <1>6

LEMMA FailsDeserves ==
  ASSUME Started, NEW h, Deserving(h), Prompted, answer # "match"
  PROVE  Deserving(h)'
<1>1. /\ Answered(FALSE) /\ Command.prompt # None /\ pc' = "close" /\ allCorrect' = FALSE
      /\ rest' = rest /\ tries' = tries
      /\ UNCHANGED <<listVars, counter, expect, queue, reader, tty, machine, dropped, faulty, executed, spoken>>
      /\ \A i \in 1..(counter - 1) : output'[i] = output[i]
  BY DEF Prompted, Fails, record, world
<1>2. Alive /\ pc' # "top" /\ ~AtCommand'
  BY <1>1 DEF Answered, Alive, AtCommand
<1>3. /\ test' = test /\ counter' = counter /\ dropped' = dropped
      /\ Session(h)' /\ (Exact' <=> Exact)
      /\ Exact => Ran' /\ InSession(h)' /\ Prompting'
      /\ Name' = Name /\ (Healthy' <=> Healthy)
  BY <1>1, <1>2, SendingKeeps
<1>4. ~Healthy
  BY <1>1, NoPrompt
<1>5. Verdicts'
  BY <1>1, <1>3, <1>4 DEF Verdicts
<1>6. Shape'
  BY <1>1, <1>3 DEF Deserving, Shape, Got
<1>7. Exact => Exactly(h)'
  BY <1>2, <1>3 DEF Exactly, OnItsWay, Buffered, Lost
<1> QED
  BY <1>3, <1>5, <1>6, <1>7 DEF Deserving

(* At its prompt, a command gets its verdict.                              *)
LEMMA PromptedDeserves ==
  ASSUME Started, NEW h, Deserving(h), DOMAIN verdict = 1..Len(commands), Prompted
  PROVE  Deserving(h)'
<1>1. CASE answer # "match"
  BY <1>1, FailsDeserves
<1>2. CASE answer = "match"
  <2>1. /\ pc = "answered" /\ rest = <<>> /\ FinishCommand
        /\ allCorrect' = (allCorrect /\ verdict'[counter] = "correct")
        /\ pc' = (IF verdict'[counter] = "incorrect" /\ test.scoring = "entire" THEN "close" ELSE "top")
        /\ rest' = rest /\ tries' = tries
        /\ test' = test /\ commands' = commands /\ readStatus' = readStatus
        /\ machine' = machine /\ dropped' = dropped /\ faulty' = faulty /\ executed' = executed /\ spoken' = spoken
    BY <1>2 DEF Prompted, Answered, listVars, expect, world
  <2>2. NextPrompt /\ counter < Len(commands) /\ counter \in 1..Len(commands) /\ counter \in Nat
        /\ output \in [1..Len(commands) -> Seq(Seq(Character))]
        /\ (machine.state = "booting" => ~NextPrompt)
    BY <1>2, <2>1, Lengths DEF Started, State, Places, Got, RunTypes, TextTypes, Booting
  <2>3. PICK out : out = output[counter] \o (IF partial = <<>> THEN <<>> ELSE <<OutputLine(partial)>>)
    OBVIOUS
  <2>4. PICK judgement : judgement = Judge(Expected(commands[counter]), out)
    OBVIOUS
  <2>5. /\ output' = [output EXCEPT ![counter] = out] /\ verdict' = [verdict EXCEPT ![counter] = judgement]
        /\ counter' = counter + 1
    BY <2>1, <2>2, <2>3, <2>4 DEF FinishCommand, Command
  <2>6. verdict'[counter] = judgement /\ output'[counter] = out
    BY <2>2, <2>5
  <2>7. pc' \in {"close", "top"} /\ Alive /\ Alive' /\ ~AtCommand' /\ (Closed' => judgement = "incorrect") /\ ~Closed
    BY <2>1, <2>6 DEF Alive, AtCommand, Closed
  <2>8. JudgedCorrect' <=> JudgedCorrect /\ judgement = "correct"
    <3>1. PICK c \in Nat : c = counter
      BY <2>2
    <3>2. \A i \in 1..(c - 1) : i # c /\ output'[i] = output[i]
      BY <2>2, <2>5, <3>1
    <3>3. \A i : i \in 1..((c + 1) - 1) <=> i \in 1..(c - 1) \/ (i = c /\ c # 0)
      OBVIOUS
    <3>4. c # 0
      BY <2>2, <3>1
    <3>5. \A i : Expected(commands[i])' = Expected(commands[i])
      BY <2>1 DEF Expected
    <3> QED BY <2>1, <2>4, <2>5, <2>6, <3>1, <3>2, <3>3, <3>4, <3>5 DEF JudgedCorrect
  <2>9. (Healthy' <=> Healthy) /\ (Exact' <=> Exact)
    BY <2>1 DEF Healthy, Exact
  <2>10. Verdicts'
    BY <2>1, <2>6, <2>7, <2>8, <2>9 DEF Deserving, Verdicts
  <2>11. Shape'
    <3>1. readStatus # "eof" /\ dropped \in Nat /\ tries \in Nat
      BY <1>2, <2>1 DEF Deserving, Shape, Got
    <3>2. Len(<<>>) = 0 /\ pc' # "answered"
      BY <2>7
    <3> QED BY <2>1, <3>1, <3>2 DEF Shape, Got
  <2>12. ASSUME Exact
         PROVE  Exactly(h)'
    <3>1. Ran /\ InSession(h)
      BY <2>12 DEF Deserving, Exactly
    <3>2. machine.state = "ready"
      BY <2>2, <2>7, <3>1, Lengths DEF InSession
    <3>3. /\ Len(spoken) = Len(executed) + 2 /\ machine.envs = h[Len(executed) + 1]
          /\ machine.typed = spoken[Len(spoken)]
      BY <2>7, <3>1, <3>2 DEF InSession
    <3>4. Len(executed) \in Nat /\ Len(executed) < counter
      BY <3>1, LenProperties DEF Ran
    <3>5. Len(executed) < counter + 1 /\ counter + 1 # 1
      BY <2>2, <3>4
    <3>6. Ran'
      BY <2>1, <2>5, <3>1, <3>5 DEF Ran
    <3>7. InSession(h)'
      BY <2>1, <2>5, <2>7, <3>2, <3>3, <3>5 DEF InSession
    <3>8. ~NextPrompt'
      <4>1. Len(spoken) = counter + 1 /\ Len(spoken) # (counter + 1) + 1
        BY <2>2 DEF NextPrompt
      <4> QED BY <2>1, <2>5, <4>1 DEF NextPrompt
    <3> QED BY <2>7, <3>6, <3>7, <3>8 DEF Exactly, OnItsWay, Prompting, Buffered, Lost
  <2>13. Session(h)'
    BY <2>1, SessionIsSame DEF Deserving
  <2> QED BY <2>9, <2>10, <2>11, <2>12, <2>13 DEF Deserving
<1> QED
  BY <1>1, <1>2

LEMMA ShutDownDeserves ==
  ASSUME Started, NEW h, Deserving(h), ShutDown
  PROVE  Deserving(h)'
<1>1. /\ Answered(FALSE) /\ pc = "answered" /\ rest = <<>> /\ Command.prompt = None /\ FinishCommand /\ pc' = "close"
      /\ rest' = rest /\ tries' = tries /\ allCorrect' = allCorrect
      /\ UNCHANGED <<listVars, expect, queue, reader, tty, machine, dropped, faulty, executed, spoken>>
  BY DEF ShutDown, Answered, world
<1>2. counter = Len(commands) /\ counter \in 1..Len(commands) /\ Len(commands) \in Nat
  <2>1. /\ counter \in 1..Len(commands) /\ Len(commands) \in Nat
        /\ \A i \in 1..(Len(commands) - 1) : commands[i].prompt # None
    BY Lengths DEF Started, ListInv, LastPrompt, State, RunTypes
  <2>2. counter \notin 1..(Len(commands) - 1)
    BY <1>1, <2>1 DEF Command
  <2> QED BY <2>1, <2>2
<1>3. answer # "match"
  BY <1>1, <1>2 DEF Started, State, Places, Got
<1>4. counter' = counter
  BY <1>2 DEF FinishCommand, ShutDown
<1>5. \A i \in 1..(counter - 1) : output'[i] = output[i]
  <2>1. PICK out : output' = [output EXCEPT ![counter] = out]
    BY <1>1 DEF FinishCommand
  <2>2. output \in [1..Len(commands) -> Seq(Seq(Character))]
    BY DEF Started, State, TextTypes
  <2>3. \A i \in 1..(counter - 1) : i \in 1..Len(commands) /\ i # counter
    BY <1>2
  <2> QED BY <2>1, <2>2, <2>3
<1>6. Alive /\ pc' # "top" /\ ~AtCommand'
  BY <1>1 DEF Alive, AtCommand
<1>7. /\ test' = test /\ dropped' = dropped
      /\ Session(h)' /\ (Exact' <=> Exact) /\ (Heard' <=> Heard)
      /\ Exact => Ran' /\ InSession(h)' /\ Prompting'
      /\ Name' = Name
      /\ (Healthy' <=> Healthy) /\ (JudgedCorrect' <=> JudgedCorrect)
  BY <1>1, <1>4, <1>5, <1>6, SendingKeeps
<1>8. Exact => Heard
  BY <1>1, <1>3, NothingToCome
<1>9. Verdicts'
  <2>1. commands' = commands
    BY <1>1 DEF listVars
  <2> QED BY <1>1, <1>2, <1>4, <1>7, <1>8, <2>1 DEF Deserving, Verdicts
<1>10. Shape'
  BY <1>1, <1>4, <1>7 DEF Deserving, Shape, Got
<1>11. Exact => Exactly(h)'
  BY <1>6, <1>7 DEF Exactly, OnItsWay, Buffered, Lost
<1> QED
  BY <1>7, <1>9, <1>10, <1>11 DEF Deserving

-----------------------------------------------------------------------------
(* The end, and the beginning.                                             *)

LEMMA ClosedKeeps ==
  ASSUME Started, NEW h, Deserving(h), Closed, Closed', ~Alive',
         UNCHANGED <<listVars, counter, rest, tries, allCorrect, dropped, faulty, executed>>,
         \A i \in 1..Len(commands) : i # counter => output'[i] = output[i]
  PROVE  Deserving(h)'
<1>1. /\ test' = test /\ commands' = commands /\ counter' = counter /\ rest' = rest
      /\ tries' = tries /\ allCorrect' = allCorrect /\ dropped' = dropped /\ faulty' = faulty
      /\ executed' = executed
  BY DEF listVars
<1>2. /\ Name' = Name /\ (Heard' <=> Heard) /\ (Exact' <=> Exact) /\ (Healthy' <=> Healthy)
  BY <1>1 DEF Name, Command, Heard, Exact, Healthy
<1>3. ~AtCommand' /\ pc' # "answered" /\ pc' \in {"close", "draining", "done"}
  BY DEF Closed, AtCommand
<1>4. JudgedCorrect' <=> JudgedCorrect
  <2>1. \A i : Expected(commands[i])' = Expected(commands[i])
    BY <1>1 DEF Expected
  <2>2. PICK c \in Nat, n \in Nat : c = counter /\ n = Len(commands) /\ c <= n
    BY Lengths
  <2>3. \A i \in 1..(c - 1) : i \in 1..n /\ i # c
    BY <2>2
  <2>4. \A i \in 1..(counter - 1) : output'[i] = output[i]
    BY <2>2, <2>3
  <2> QED BY <1>1, <2>1, <2>4 DEF JudgedCorrect
<1>5. Verdicts'
  BY <1>1, <1>2, <1>4 DEF Deserving, Verdicts
<1>6. Shape'
  BY <1>1, <1>2, <1>3 DEF Deserving, Shape, Got
<1>7. Session(h)'
  BY <1>1, SessionIsSame DEF Deserving
<1>8. Ran => Ran'
  BY <1>1 DEF Ran
<1> QED
  BY <1>2, <1>3, <1>5, <1>6, <1>7, <1>8 DEF Deserving, Exactly, InSession, OnItsWay, Prompting, Buffered, Lost

LEMMA EndingDeserves ==
  ASSUME Started, NEW h, Deserving(h), Close \/ Drain \/ Drained
  PROVE  Deserving(h)'
<1>1. Closed /\ Closed' /\ ~Alive'
  BY DEF Close, Drain, Drained, Closed, Alive, run
<1>2. UNCHANGED <<listVars, counter, rest, tries, allCorrect, dropped, faulty, executed>>
  BY DEF Close, Drain, Drained, run, world
<1>3. \A i \in 1..Len(commands) : i # counter => output'[i] = output[i]
  <2>1. CASE Drain
    <3>1. PICK k, b : Received(k, b)
      BY DEF Started
    <3> QED BY <2>1, <3>1, RecvTakes DEF Drain, Started
  <2>2. CASE output' = output
    BY <2>2
  <2> QED BY <2>1, <2>2 DEF Close, Drained, record
<1> QED
  BY <1>1, <1>2, <1>3, ClosedKeeps

LEMMA StartDeserves ==
  ASSUME pc = "init", ListInv, ListedInv, Unstarted, Start,
         dropped = 0, tries = 0, executed = <<>>, allCorrect = TRUE
  PROVE  \E h : Deserving(h)'
<1>1. /\ step = "done" /\ pc' = "expect" /\ counter' = 1 /\ rest' = <<>> /\ tries' = 0
      /\ answer' = "none" /\ buffer' = <<>> /\ readStatus' = "none"
      /\ queue' = <<>> /\ tty' = <<>> /\ allCorrect' = TRUE
      /\ dropped' = 0 /\ executed' = <<>>
      /\ test' = test /\ commands' = commands
      /\ machine'.state = "booting" /\ spoken' = <<<<>>>>
  BY DEF Start, Unstarted, listVars, expect
<1>2. PICK h : Session(h)
  <2>1. stack = <<>>
    BY <1>1 DEF ListInv, LastPrompt
  <2> QED BY <1>1, <2>1 DEF ListedInv, Listed, Session
<1>3. Session(h)'
  BY <1>1, <1>2, SessionIsSame
<1>4. Segment' = <<>> /\ ~NextPrompt' /\ ~Closed' /\ Len(<<>>) = 0
  <2>1. Len(<<<<>>>>) = 1 /\ <<<<>>>>[1] = <<>> /\ 1 # 1 + 1
    OBVIOUS
  <2> QED BY <1>1, <2>1 DEF Segment, NextPrompt, Closed
<1>5. Verdicts'
  <2>1. 1..(1 - 1) = {}
    OBVIOUS
  <2>2. JudgedCorrect'
    BY <1>1, <2>1 DEF JudgedCorrect
  <2> QED BY <1>1, <1>4, <2>2 DEF Verdicts
<1>6. Shape'
  BY <1>1, <1>4 DEF Shape, Got
<1>7. Ran'
  <2>1. 1..0 = {} /\ <<>> \in Seq(CommandLine) /\ 0 < 1
    BY EmptySeq
  <2> QED BY <1>1, <1>4, <2>1 DEF Ran
<1>8. InSession(h)' /\ OnItsWay' /\ Prompting'
  BY <1>1, <1>4 DEF InSession, OnItsWay, Prompting
<1>9. Lost'
  BY <1>1 DEF Lost
<1>10. Buffered'
  <2>1. Flowing(<<>>, <<>>, <<>>, 0)
    <3>1. PICK at : at = [i \in 0..0 |-> 0]
      OBVIOUS
    <3>2. Len(<<>>) = 0 /\ Part(<<>>, 0, 0) = <<>>
      BY PartEmpty
    <3>3. /\ at \in [0..0 -> 0..0] /\ at[0] = 0
          /\ \A i, j \in 0..0 : i <= j => at[i] <= at[j]
      BY <3>1
    <3>4. 0 \in 0..0 /\ 1..0 = {}
      OBVIOUS
    <3>5. Flow(<<>>, <<>>, <<>>, 0, at)
      BY <3>2, <3>3, <3>4 DEF Flow
    <3> QED BY <3>5 DEF Flowing
  <2>2. Skip' = 0 /\ 0 \in 0..0 /\ Part(<<>>, 0, 0) = <<>>
    BY <1>1, PartEmpty DEF Skip
  <2> QED BY <1>1, <1>4, <2>1, <2>2 DEF Buffered
<1> QED
  BY <1>3, <1>5, <1>6, <1>7, <1>8, <1>9, <1>10 DEF Deserving, Exactly

-----------------------------------------------------------------------------
(* The theorem.                                                            *)

DeservedInv ==
  /\ ListedInv
  /\ pc = "init" => dropped = 0 /\ tries = 0 /\ executed = <<>> /\ allCorrect = TRUE
  /\ pc # "init" => /\ test \in Selected /\ DOMAIN verdict = 1..Len(commands)
                    /\ \E h : Deserving(h)

LEMMA InitDeserves == Init => DeservedInv
  BY DEF Init, ListInit, DeservedInv, ListedInv

LEMMA RunDeserves ==
  ASSUME Started, NEW h, Deserving(h), DOMAIN verdict = 1..Len(commands), Run
  PROVE  Deserving(h)' /\ DOMAIN verdict' = DOMAIN verdict /\ UNCHANGED listVars
<1>1. ~Start
  BY DEF Started, Start
<1>2. Deserving(h)'
  BY <1>1, TypeDeserves, SendCharacterDeserves, ExpectDeserves, ReadDataDeserves, TimeOutDeserves, EchoedDeserves,
     NotEchoedDeserves, PromptedDeserves, ShutDownDeserves, EndingDeserves DEF Run
<1>3. UNCHANGED listVars
  BY <1>1 DEF Run, Type, SendCharacter, Expect, ReadData, TimeOut, Echoed, NotEchoed, Prompted, ShutDown, Close,
              Drain, Drained
<1>4. DOMAIN verdict' = DOMAIN verdict
  <2>1. CASE verdict' = verdict
    BY <2>1
  <2>2. CASE \E x : verdict' = [verdict EXCEPT ![counter] = x]
    BY <2>2
  <2>3. CASE NotEchoed \/ Prompted \/ ShutDown
    BY <2>1, <2>2, <2>3 DEF NotEchoed, Prompted, ShutDown, Fails, FinishCommand
  <2> QED
    BY <1>1, <2>1, <2>3 DEF Run, Type, SendCharacter, Expect, ReadData, TimeOut, Echoed, Close, Drain, Drained, run
<1> QED
  BY <1>2, <1>3, <1>4

LEMMA StutterDeserves ==
  ASSUME Started, NEW h, Deserving(h), UNCHANGED vars
  PROVE  Deserving(h)'
<1>1. UNCHANGED <<listVars, run, record, expect, world>> /\ queue' = queue /\ tty' = tty
  BY DEF vars
<1>2. /\ Shape' <=> Shape
      /\ Ran' <=> Ran
      /\ OnItsWay' <=> OnItsWay
      /\ Prompting' <=> Prompting
      /\ Lost' <=> Lost
      /\ Verdicts' <=> Verdicts
      /\ \A x : InSession(x)' <=> InSession(x)
      /\ Exact' <=> Exact
      /\ test' = test /\ commands' = commands
      /\ AtCommand' <=> AtCommand
      /\ (Got("match") /\ rest = <<>>)' <=> Got("match") /\ rest = <<>>
      /\ Skip' = Skip /\ Segment' = Segment /\ buffer' = buffer
  BY <1>1, ReaderKeepsParts
<1>3. Buffered' <=> Buffered
  BY <1>1, <1>2 DEF Buffered
<1>4. Session(h)'
  BY <1>2, SessionIsSame DEF Deserving
<1> QED
  BY <1>2, <1>3, <1>4 DEF Deserving, Exactly

LEMMA NextDeserves == Inv /\ DeservedInv /\ [Next]_vars => DeservedInv'
<1> SUFFICES ASSUME Inv, DeservedInv, [Next]_vars
             PROVE  DeservedInv'
  OBVIOUS
<1>1. ListInv
  BY DEF Inv, Started
<1>2. ListedInv'
  BY <1>1, OnlyTheListChanges, ListNextLists, ListedStays DEF DeservedInv
<1>3. CASE pc = "init"
  <2>1. Unstarted
    BY <1>3 DEF Inv, Started
  <2>2. CASE Start
    <3>1. \E h : Deserving(h)'
      BY <1>1, <1>3, <2>1, <2>2, StartDeserves DEF DeservedInv
    <3>2. /\ pc' = "expect" /\ test' = test /\ commands' = commands /\ test \in Selected
          /\ verdict' = [i \in DOMAIN commands |-> NoVerdict]
      BY <2>2 DEF Start, listVars
    <3>3. DOMAIN verdict' = 1..Len(commands)
      <4>1. commands \in Seq(CommandRecord)
        BY <1>1 DEF ListInv, ListTypeOK
      <4> QED BY <3>2, <4>1, LenProperties
    <3> QED BY <1>2, <3>1, <3>2, <3>3 DEF DeservedInv
  <2>3. CASE MakeList \/ UNCHANGED vars
    <3>1. pc' = pc /\ dropped' = dropped /\ tries' = tries /\ executed' = executed /\ allCorrect' = allCorrect
      BY <2>3 DEF MakeList, vars, run, world
    <3> QED BY <1>2, <1>3, <3>1 DEF DeservedInv
  <2>4. ~Reader /\ ~Machine
    <3>1. reader = "none" /\ machine.state = "off"
      BY <2>1 DEF Unstarted
    <3> QED BY <3>1 DEF Reader, Read, ReadEof, Machine, Boots, LosesCharacter, Echoes, Executes, Taken
  <2>5. Run => Start
    BY <1>3 DEF Run, Start, Type, SendCharacter, Expect, ReadData, TimeOut, Echoed, NotEchoed,
                Prompted, ShutDown, Close, Drain, Drained, Answered
  <2> QED BY <2>2, <2>3, <2>4, <2>5 DEF Next
<1>4. CASE pc # "init"
  <2>1. Started
    BY <1>4 DEF Inv
  <2>2. PICK h : Deserving(h)
    BY <1>4 DEF DeservedInv
  <2>3. test \in Selected /\ DOMAIN verdict = 1..Len(commands)
    BY <1>4 DEF DeservedInv
  <2>4. ~MakeList
    <3>1. step = "done"
      BY <2>1 DEF Started, State, RunTypes
    <3> QED BY <3>1 DEF MakeList, ListNext, Check, LoopsExceeded, KernelLeft, CleanUp, BadLine,
                        ChangeEnvironment, TakeLine, Loop
  <2>5. Deserving(h)' /\ DOMAIN verdict' = DOMAIN verdict /\ UNCHANGED listVars
    <3>1. CASE Run
      BY <2>1, <2>2, <2>3, <3>1, RunDeserves
    <3>2. CASE Reader
      <4>1. verdict' = verdict /\ UNCHANGED listVars
        BY <3>2 DEF Reader, Read, ReadEof, run
      <4> QED BY <2>1, <2>2, <3>2, <4>1, ReaderDeserves
    <3>3. CASE Machine
      <4>1. verdict' = verdict /\ UNCHANGED listVars
        BY <3>3 DEF Machine, Boots, LosesCharacter, Echoes, Executes, run
      <4> QED BY <2>1, <2>2, <3>3, <4>1, MachineDeserves
    <3>4. CASE UNCHANGED vars
      <4>1. verdict' = verdict /\ UNCHANGED listVars
        BY <3>4 DEF vars, run
      <4> QED BY <2>1, <2>2, <3>4, <4>1, StutterDeserves
    <3> QED BY <2>4, <3>1, <3>2, <3>3, <3>4 DEF Next
  <2>6. pc' # "init"
    <3>1. Inv'
      BY NextInv
    <3>2. pc' = "init" => pc = "init"
      BY <2>4 DEF Next, Run, Start, Type, SendCharacter, Expect, ReadData, Look, TimeOut, Echoed, NotEchoed,
                  Prompted, Fails, ShutDown, Close, Drain, Drained, Reader, Read, ReadEof,
                  Machine, Boots, LosesCharacter, Echoes, Executes, run, vars
    <3> QED BY <1>4, <3>2
  <2>7. test' = test /\ commands' = commands
    BY <2>5 DEF listVars
  <2> QED BY <1>2, <2>3, <2>5, <2>6, <2>7 DEF DeservedInv
<1> QED
  BY <1>3, <1>4

LEMMA AllWereRun ==
  ASSUME Inv, ListedInv, step = "done", Ran, Heard, counter = Len(commands)
  PROVE  RanAsWritten
<1>1. PICK f, k, pre : Holds(f, k) /\ ToCome(pre, k)
  BY DEF ListedInv, Listed
<1>2. Asked \in Seq(CommandLine) /\ Len(Asked) \in Nat /\ DOMAIN Asked = 1..Len(Asked)
  BY AskedType DEF Inv, Started, ListInv, ListTypeOK
<1>3. k = Len(Asked)
  <2>1. pre \in Seq(CommandLine) /\ k \in 0..Len(Asked) /\ Remains(lines, pre, Asked, k) /\ lines = <<>>
    BY <1>1 DEF ToCome, ListedInv
  <2> QED BY <1>2, <2>1, FrontOf
<1>4. PICK n \in Nat, c \in Nat : /\ n = Len(executed) /\ c = Len(commands) /\ n = c - 1
                                  /\ DOMAIN executed = 1..n
  <2>1. Len(executed) \in Nat /\ DOMAIN executed = 1..Len(executed)
    BY LenProperties DEF Ran
  <2>2. Len(commands) \in Nat
    BY LenProperties DEF Inv, Started, ListInv, ListTypeOK
  <2> QED BY <2>1, <2>2 DEF Heard
<1>5. PICK l \in Nat : l = Len(Asked)
  BY <1>2
<1>6. /\ f \in [1..l -> 2..c]
      /\ \A i \in 1..l : commands[f[i]].line = Asked[i]
      /\ \A i, j \in 1..l : i < j => f[i] < f[j]
      /\ \A m \in 2..c : PutIn(commands[m].line) \/ \E i \in 1..l : f[i] = m
  BY <1>1, <1>3, <1>4, <1>5 DEF Holds
<1>7. \A j \in 1..n : executed[j] = commands[j + 1].line
  BY <1>4 DEF Ran
<1>8. PICK g : g = [i \in 1..l |-> f[i] - 1]
  OBVIOUS
<1>9. \A i \in 1..l : f[i] \in 2..c /\ g[i] = f[i] - 1 /\ g[i] \in 1..n /\ g[i] + 1 = f[i]
  BY <1>4, <1>6, <1>8
<1>10. g \in [DOMAIN Asked -> DOMAIN executed]
  BY <1>2, <1>4, <1>5, <1>8, <1>9
<1>11. \A i \in DOMAIN Asked : executed[g[i]] = Asked[i]
  <2> SUFFICES ASSUME NEW i \in 1..l PROVE executed[g[i]] = Asked[i]
    BY <1>2, <1>5
  <2>1. g[i] \in 1..n /\ g[i] + 1 = f[i]
    BY <1>9
  <2>2. executed[g[i]] = commands[f[i]].line
    BY <1>7, <2>1
  <2>3. commands[f[i]].line = Asked[i]
    BY <1>6
  <2> QED BY <2>2, <2>3
<1>12. \A i, j \in DOMAIN Asked : i < j => g[i] < g[j]
  BY <1>2, <1>5, <1>6, <1>9
<1>13. ASSUME NEW m \in DOMAIN executed \ Range(g)
       PROVE  PutIn(executed[m])
  <2>1. m \in 1..n /\ m + 1 \in 2..c /\ (m + 1) - 1 = m
    BY <1>4, <1>13
  <2>2. \A i \in 1..l : f[i] # m + 1
    <3> SUFFICES ASSUME NEW i \in 1..l, f[i] = m + 1
                 PROVE  FALSE
      OBVIOUS
    <3>1. g[i] = m
      BY <1>9, <2>1
    <3>2. g[i] \in Range(g)
      BY <1>8 DEF Range
    <3> QED BY <1>13, <3>1, <3>2
  <2> QED BY <1>6, <1>7, <2>1, <2>2
<1> QED
  BY <1>10, <1>11, <1>12, <1>13 DEF RanAsWritten, PutIn

LEMMA FairVerdicts ==
  ASSUME Started, test \in Selected, NEW i \in 1..(counter - 1)
  PROVE  Judge(Expected(commands[i]), output[i]) = "correct" <=> Deserved(i)
<1>1. output[i] = AllLines(spoken[i])
  BY DEF Started, State, Segments
<1>2. output[i] \in Seq(Seq(Character))
  <2>1. PICK c \in Nat, n \in Nat : c = counter /\ n = Len(commands) /\ c <= n
    BY Lengths
  <2>2. i \in 1..n
    BY <2>1
  <2> QED BY <2>1, <2>2 DEF Started, State, TextTypes
<1>3. Expected(commands[i]) \in Seq(Word)
  BY ConsoleAssumption, EmptySeq DEF Expected
<1> QED
  BY <1>1, <1>2, <1>3, JudgeIsFair DEF Deserved

LEMMA DeservedAtTheEnd == Inv /\ DeservedInv => CorrectIsDeserved
<1> SUFFICES ASSUME Inv, DeservedInv, pc = "done"
             PROVE  /\ allCorrect /\ (test.retry \/ dropped = 0) =>
                         RanAsWritten /\ \A i \in 1..(Len(commands) - 1) : Deserved(i)
                    /\ Healthy /\ (\A i \in DOMAIN spoken : i < Len(commands) => Deserved(i)) => allCorrect
  BY DEF CorrectIsDeserved
<1>1. Started /\ test \in Selected /\ ListedInv /\ step = "done"
  BY DEF Inv, DeservedInv, Unstarted, Started, State, RunTypes
<1>2. PICK h : Deserving(h)
  BY DEF DeservedInv
<1>3. Verdicts /\ Closed
  BY <1>2 DEF Deserving, Closed
<1>4. \A i \in 1..(counter - 1) : Judge(Expected(commands[i]), output[i]) = "correct" <=> Deserved(i)
  BY <1>1, FairVerdicts
<1>5. ASSUME allCorrect, Exact
      PROVE  RanAsWritten /\ \A i \in 1..(Len(commands) - 1) : Deserved(i)
  <2>1. JudgedCorrect /\ counter = Len(commands) /\ Heard
    BY <1>3, <1>5 DEF Verdicts
  <2>2. Ran
    BY <1>2, <1>5 DEF Deserving, Exactly
  <2>3. RanAsWritten
    BY <1>1, <2>1, <2>2, AllWereRun
  <2> QED BY <1>4, <2>1, <2>3 DEF JudgedCorrect
<1>6. ASSUME Healthy, \A i \in DOMAIN spoken : i < Len(commands) => Deserved(i)
      PROVE  allCorrect
  <2>1. PICK c \in Nat, n \in Nat, s \in Nat :
          c = counter /\ n = Len(commands) /\ s = Len(spoken) /\ c <= n /\ c <= s /\ DOMAIN spoken = 1..s
    <3>1. spoken \in Seq(Seq(Character)) /\ counter <= Len(spoken)
      BY <1>1, Lengths
    <3> QED BY <1>1, <3>1, Lengths
  <2>2. \A i \in 1..(c - 1) : i \in 1..s /\ i < n
    BY <2>1
  <2>3. JudgedCorrect
    BY <1>4, <1>6, <2>1, <2>2 DEF JudgedCorrect
  <2> QED BY <1>3, <1>6, <2>3 DEF Verdicts
<1> QED
  BY <1>5, <1>6 DEF Exact

(* A test is correct in the end only if Run (run.go:573) typed all of its   *)
(* lines, in their order and each at the prompt it belongs to, and the     *)
(* machine printed for each command what evaluate (run.go:797) looks for,  *)
(* whatever the reads, the lost characters and the faults were, unless     *)
(* characters are lost and not sent again.  And a machine that does not    *)
(* fail, loses fewer characters than sendCommand's retries and prints the  *)
(* expected lines makes the test correct: no timeout, no echo left over    *)
(* and no prompt cut in two by a read costs it the verdict.                *)
THEOREM CorrectTestsDeserveIt == Spec => []CorrectIsDeserved
<1>1. Init => Inv /\ DeservedInv
  BY InitInv, InitDeserves
<1>2. Inv /\ DeservedInv /\ [Next]_vars => (Inv /\ DeservedInv)'
  BY NextInv, NextDeserves
<1>3. Inv /\ DeservedInv => CorrectIsDeserved
  BY DeservedAtTheEnd
<1> QED
  BY <1>1, <1>2, <1>3, PTL DEF Spec
=============================================================================
