--------------------------- MODULE ScannerProofs ----------------------------
(*****************************************************************************)
(* Proofs about Scanner: the scanner that cuts a text at its semicolons, the *)
(* keyword it finds first, and the statements completeStatements puts        *)
(* together, for every text.                                                 *)
(*                                                                           *)
(* The scanner reads token by token and Scanner's reference reads character  *)
(* by character.  StopsExact is where they meet: the places the scanner looks *)
(* at are those that count as code in the reference, if no [name] or `name`  *)
(* of the text hides a quote or a comment (NamesPlain).  FirstKeywordExact,  *)
(* QueryExact and DeniedExact follow: what is taken for a query, and what    *)
(* read-only access turns down, are decided by the statement's first word.   *)
(* CompleteExact says that completeStatements cuts a text where SQLite would *)
(* cut it: the pieces it joins are those inside a trigger's body, and they   *)
(* are joined to the text they were cut from.                                *)
(*                                                                           *)
(* The provers have no induction over data.  Upward and Downward give it for *)
(* the places of a text, from the well-foundedness of < on Nat: they take the *)
(* set of the places a statement holds for, and Recursion and Search give from *)
(* them what a recursive function is at each place.                          *)
(*****************************************************************************)
EXTENDS ReplInput, SequenceTheorems, WellFoundedInduction, TLAPS

-----------------------------------------------------------------------------
(* Induction and recursion over the places of a text.                      *)

\* Induction, with the set of the numbers that a statement holds for.
LEMMA Upward ==
    ASSUME NEW n \in Nat, NEW T,
           0 \in T,
           \A k \in 1..n : k - 1 \in T => k \in T
    PROVE  0..n \subseteq T
<1> DEFINE Bad == {k \in 0..n : k \notin T}
<1>1. SUFFICES ASSUME Bad # {} PROVE FALSE
  OBVIOUS
<1>2. PICK k \in Bad : \A m \in Bad : ~ (<<m, k>> \in OpToRel(<, Nat))
  <2>1. Bad \subseteq Nat
    OBVIOUS
  <2> HIDE DEF Bad
  <2>. QED
    BY <1>1, <2>1, NatLessThanWellFounded, WFMin, Zenon
<1>3. k \in 1..n /\ k - 1 \in Nat /\ k \in Nat
  OBVIOUS
<1>4. k - 1 \notin Bad
  <2>1. <<k - 1, k>> \in OpToRel(<, Nat)
    BY <1>3 DEF OpToRel
  <2>. QED
    BY <1>2, <2>1
<1>. QED
  BY <1>3, <1>4

\* The same, from the end of a text to its beginning.
LEMMA Downward ==
    ASSUME NEW n \in Nat, NEW T,
           \A k \in Nat : (\A m \in Nat : m > k /\ k <= n => m \in T) => k \in T
    PROVE  Nat \subseteq T
<1>1. \A k \in Nat : k > n => k \in T
  OBVIOUS
<1> DEFINE U == {d \in 0..(n + 1) : \A k \in Nat : k + d > n => k \in T}
<1>2. 0 \in U
  BY <1>1
<1>3. \A d \in 1..(n + 1) : d - 1 \in U => d \in U
  <2> SUFFICES ASSUME NEW d \in 1..(n + 1), d - 1 \in U PROVE d \in U
    OBVIOUS
  <2>1. ASSUME NEW k \in Nat, k + d > n PROVE k \in T
    <3>1. \A m \in Nat : m > k => m \in T
      BY <2>1
    <3>. QED
      BY <3>1
  <2>. QED
    BY <2>1
<1>4. n + 1 \in U
  <2> DEFINE m == n + 1
  <2>1. m \in Nat /\ m \in 0..m
    OBVIOUS
  <2> HIDE DEF U
  <2>2. \A d \in 1..m : d - 1 \in U => d \in U
    BY <1>3
  <2> HIDE DEF m
  <2>3. 0..m \subseteq U
    BY <1>2, <2>1, <2>2, Upward
  <2>4. m \in U
    BY <2>1, <2>3
  <2>. QED
    BY <2>4 DEF m
<1>. QED
  BY <1>4

\* A function defined by recursion over 0..n.
Recursive(f, n, S, base, step) ==
    f \in [0..n -> S] /\ f[0] = base /\ \A k \in 1..n : f[k] = step[<<k, f[k - 1]>>]

\* One that is given by its value at a later place, unless it stops.
Searching(f, S, goes, next, last, step) ==
    /\ f \in [Nat -> S]
    /\ \A j \in Nat : f[j] = IF goes[j] THEN step[<<j, f[next[j]]>>] ELSE last[j]

\* There is one with each base and step.
LEMMA Recursion ==
    ASSUME NEW n \in Nat, NEW S, NEW base \in S, NEW step \in [(1..n) \X S -> S]
    PROVE  \E f : Recursive(f, n, S, base, step)
<1> DEFINE Defines(f, m) ==
      f[0] = base /\ \A k \in 1..m : f[k] = step[<<k, f[k - 1]>>]
    T == {m \in 0..n : \E f \in [0..m -> S] : Defines(f, m)}
<1>1. 0 \in T
  <2> DEFINE f == [k \in 0..0 |-> base]
  <2>1. f \in [0..0 -> S] /\ Defines(f, 0)
    OBVIOUS
  <2>2. \E h \in [0..0 -> S] : Defines(h, 0)
    <3> HIDE DEF f, Defines
    <3>. QED
      BY <2>1, Zenon
  <2>. QED
    BY <2>2
<1>2. \A m \in 1..n : m - 1 \in T => m \in T
  <2> SUFFICES ASSUME NEW m \in 1..n, m - 1 \in T PROVE m \in T
    OBVIOUS
  <2>1. PICK f \in [0..(m - 1) -> S] : Defines(f, m - 1)
    OBVIOUS
  <2> DEFINE g == [k \in 0..m |-> IF k = m THEN step[<<m, f[m - 1]>>] ELSE f[k]]
  <2>2. m - 1 \in 0..(m - 1) /\ f[m - 1] \in S
    OBVIOUS
  <2>3. step[<<m, f[m - 1]>>] \in S
    BY <2>2
  <2>4. g \in [0..m -> S]
    BY <2>3
  <2>5. ASSUME NEW k \in 1..m
        PROVE  g[k] = step[<<k, g[k - 1]>>]
    <3>1. g[k - 1] = f[k - 1]
      OBVIOUS
    <3>2. CASE k = m
      <4>1. g[k] = step[<<m, f[m - 1]>>]
        BY <3>2
      <4>2. g[k - 1] = f[m - 1]
        BY <3>1, <3>2
      <4> HIDE DEF g
      <4>. QED
        BY <3>2, <4>1, <4>2
    <3>3. CASE k # m
      <4>1. k \in 1..(m - 1) /\ g[k] = f[k]
        BY <3>3
      <4>. QED
        BY <2>1, <3>1, <4>1
    <3>. QED
      BY <3>2, <3>3
  <2>6. Defines(g, m)
    <3>1. g[0] = base
      BY <2>1
    <3>. QED
      BY <2>5, <3>1
  <2>7. \E h \in [0..m -> S] : Defines(h, m)
    <3> HIDE DEF g, Defines
    <3>. QED
      BY <2>4, <2>6, Zenon
  <2>. QED
    BY <2>7
<1>3. n \in T
  <2> HIDE DEF T
  <2>1. 0..n \subseteq T
    BY <1>1, <1>2, Upward
  <2>. QED
    BY <2>1
<1>. QED
  BY <1>3 DEF Recursive

\* So there is one that goes on at a later place, if it stops after n.
LEMMA Search ==
    ASSUME NEW n \in Nat, NEW S,
           NEW goes \in [Nat -> BOOLEAN], \A j \in Nat : goes[j] => j <= n,
           NEW next \in [Nat -> Nat], \A j \in Nat : next[j] > j,
           NEW last \in [Nat -> S], NEW step \in [Nat \X S -> S]
    PROVE  \E f : Searching(f, S, goes, next, last, step)
<1> DEFINE D(m) == {j \in Nat : j + m > n}
    Defines(f, m) ==
      \A j \in D(m) : f[j] = IF goes[j] THEN step[<<j, f[next[j]]>>] ELSE last[j]
    T == {m \in 0..(n + 1) : \E f \in [D(m) -> S] : Defines(f, m)}
<1>1. 0 \in T
  <2> DEFINE f == [j \in D(0) |-> last[j]]
  <2>1. f \in [D(0) -> S] /\ Defines(f, 0)
    OBVIOUS
  <2>2. \E h \in [D(0) -> S] : Defines(h, 0)
    <3> HIDE DEF f, D, Defines
    <3>. QED
      BY <2>1, Zenon
  <2>3. 0 \in 0..(n + 1)
    OBVIOUS
  <2>. QED
    <3> HIDE DEF D, Defines
    <3>. QED
      BY <2>2, <2>3
<1>2. \A m \in 1..(n + 1) : m - 1 \in T => m \in T
  <2> SUFFICES ASSUME NEW m \in 1..(n + 1), m - 1 \in T PROVE m \in T
    OBVIOUS
  <2>1. PICK f \in [D(m - 1) -> S] : Defines(f, m - 1)
    OBVIOUS
  <2> DEFINE i == n + 1 - m
  <2> DEFINE v == IF goes[i] THEN step[<<i, f[next[i]]>>] ELSE last[i]
  <2> DEFINE g == [j \in D(m) |-> IF j = i THEN v ELSE f[j]]
  <2>2. i \in Nat /\ next[i] \in D(m - 1) /\ f[next[i]] \in S
    OBVIOUS
  <2>3. v \in S
    BY <2>2
  <2>4. \A j \in D(m) : j # i => j \in D(m - 1)
    OBVIOUS
  <2>5. g \in [D(m) -> S]
    BY <2>3, <2>4
  <2>6. ASSUME NEW j \in D(m)
        PROVE  g[j] = IF goes[j] THEN step[<<j, g[next[j]]>>] ELSE last[j]
    <3>1. next[j] \in D(m) /\ next[j] # i
      OBVIOUS
    <3>2. g[next[j]] = f[next[j]]
      BY <3>1
    <3>3. CASE j = i
      BY <3>2, <3>3
    <3>4. CASE j # i
      BY <2>1, <2>4, <3>2, <3>4
    <3>. QED
      BY <3>3, <3>4
  <2>7. Defines(g, m)
    BY <2>6
  <2>8. \E h \in [D(m) -> S] : Defines(h, m)
    <3> HIDE DEF g, D, Defines
    <3>. QED
      BY <2>5, <2>7, Zenon
  <2>9. m \in 0..(n + 1)
    OBVIOUS
  <2>. QED
    <3> HIDE DEF D, Defines
    <3>. QED
      BY <2>8, <2>9
<1>3. n + 1 \in T
  <2> HIDE DEF T
  <2>1. n + 1 \in Nat
    OBVIOUS
  <2>2. 0..(n + 1) \subseteq T
    BY <1>1, <1>2, <2>1, Upward
  <2>. QED
    BY <2>1, <2>2
<1>4. D(n + 1) = Nat
  OBVIOUS
<1>. QED
  BY <1>3, <1>4 DEF Searching
-----------------------------------------------------------------------------
(* The first place with something.                                         *)

\* A set of numbers that is not empty has a least one, and one of the numbers
\* up to n a greatest one.
LEMMA Least ==
    ASSUME NEW S \in SUBSET Nat, S # {}
    PROVE  LET c == CHOOSE j \in S : \A k \in S : j <= k
           IN  c \in S /\ \A k \in S : c <= k
<1>1. PICK x \in S : \A y \in S : ~ (<<y, x>> \in OpToRel(<, Nat))
  BY NatLessThanWellFounded, WFMin, Zenon
<1>2. \A y \in S : x <= y
  <2> SUFFICES ASSUME NEW y \in S, ~(x <= y) PROVE FALSE
    OBVIOUS
  <2>1. <<y, x>> \in OpToRel(<, Nat)
    BY DEF OpToRel
  <2>. QED
    BY <1>1, <2>1
<1>. QED
  BY <1>2

\* The same from the other side.
LEMMA Greatest ==
    ASSUME NEW n \in Nat, NEW S \in SUBSET (0..n), S # {}
    PROVE  LET c == CHOOSE j \in S : \A k \in S : j >= k
           IN  c \in S /\ \A k \in S : c >= k
<1> DEFINE R == {n - k : k \in S}
<1>1. R \in SUBSET Nat /\ R # {}
  <2>1. \A k \in S : n - k \in Nat
    OBVIOUS
  <2>. QED
    BY <2>1
<1>2. PICK r \in R : \A k \in R : r <= k
  <2> HIDE DEF R
  <2>. QED
    BY <1>1, Least
<1>3. n - r \in S /\ \A k \in S : n - r >= k
  <2>1. PICK x \in S : r = n - x
    OBVIOUS
  <2>2. \A k \in S : r <= n - k
    BY <1>2
  <2>. QED
    BY <2>1, <2>2
<1>. QED
  BY <1>3

\* The next place: what From finds.
LEMMA FromFacts ==
    ASSUME NEW t \in Seq(Chars), NEW i \in Nat, NEW places \in SUBSET (1..Len(t))
    PROVE  LET k == From(t, i, places)
           IN  /\ k \in 1..(Len(t) + 1)
               /\ k # Len(t) + 1 => k >= i /\ k \in places
               /\ \A m \in places : m >= i => k <= m
<1> DEFINE found == {j \in places : j >= i}
<1>1. From(t, i, places)
        = IF found = {} THEN Len(t) + 1
          ELSE CHOOSE j \in found : \A m \in found : j <= m
  BY DEF From
<1>2. Len(t) \in Nat
  OBVIOUS
<1>3. CASE found = {}
  BY <1>1, <1>2, <1>3
<1>4. CASE found # {}
  <2> DEFINE c == CHOOSE j \in found : \A m \in found : j <= m
  <2>1. c \in found /\ \A m \in found : c <= m
    <3>1. \A j \in places : j \in Nat
      BY <1>2
    <3>2. found \in SUBSET Nat
      BY <3>1
    <3> HIDE DEF found
    <3>. QED
      BY <3>2, <1>4, Least
  <2>2. From(t, i, places) = c
    BY <1>1, <1>4
  <2> HIDE DEF c
  <2>3. c \in 1..Len(t) /\ c >= i /\ c \in places
    BY <1>2, <2>1
  <2>. QED
    BY <1>2, <2>1, <2>2, <2>3
<1>. QED
  BY <1>3, <1>4

\* The places it is used with.
LEMMA PlacesFacts ==
    ASSUME NEW t \in Seq(Chars)
    PROVE  /\ \A c : At(t, c) \in SUBSET (1..Len(t))
           /\ Solid(t) \in SUBSET (1..Len(t))
           /\ Unskipped(t) \in SUBSET (1..Len(t))
           /\ Closes(t) \in SUBSET (1..Len(t))
           /\ \A c, j : j \in At(t, c) <=> j \in 1..Len(t) /\ t[j] = c
           /\ \A j : j \in Solid(t) <=> j \in 1..Len(t) /\ t[j] \notin Blanks
           /\ \A j : j \in Unskipped(t) <=>
                j \in 1..Len(t) /\ (t[j] \notin Blanks \/ t[j] = "f")
           /\ \A j : j \in Closes(t) <=> j \in 1..Len(t) /\ Pair(t, j, "*", "/")
BY DEF At, Solid, Unskipped, Closes

-----------------------------------------------------------------------------
(* SQLite's reading, a character at a time.                                *)

\* What the reading is in.
Modes ==
    {"code", "string", "name", "bracket", "backquote", "line", "opening", "block", "closing"}

\* Where in a statement the reading is.
Bodies == {"start", "normal", "trigger", "semi", "end"}

\* What NextMode returns.
LEMMA NextModeType ==
    ASSUME NEW t, NEW j, NEW m \in Modes
    PROVE  NextMode(t, j, m) \in Modes
BY DEF NextMode, Modes

\* The mode before the first character, and of a character after the one
\* before it.
LEMMA ModeSteps ==
    ASSUME NEW t \in Seq(Chars)
    PROVE  /\ Mode(t, 1) = "code"
           /\ \A i \in 1..(Len(t) + 1) : Mode(t, i) \in Modes
           /\ \A j \in 1..Len(t) : Mode(t, j + 1) = NextMode(t, j, Mode(t, j))
<1> DEFINE n == Len(t)
    mode[j \in 0..n] == IF j = 0 THEN "code" ELSE NextMode(t, j, mode[j - 1])
    step == [p \in (1..n) \X Modes |-> NextMode(t, p[1], p[2])]
<1>1. n \in Nat
  OBVIOUS
<1>2. \A i : Mode(t, i) = mode[i - 1]
  BY DEF Mode
<1>3. mode \in [0..n -> Modes]
      /\ \A j \in 0..n : mode[j] = IF j = 0 THEN "code" ELSE NextMode(t, j, mode[j - 1])
  <2>1. step \in [(1..n) \X Modes -> Modes]
    BY NextModeType
  <2>2. "code" \in Modes
    BY DEF Modes
  <2>3. PICK f : Recursive(f, n, Modes, "code", step)
    <3> HIDE DEF step, n
    <3>. QED
      BY <1>1, <2>1, <2>2, Recursion
  <2>4. ASSUME NEW k \in 1..n
        PROVE  f[k] = NextMode(t, k, f[k - 1])
    <3>1. k - 1 \in 0..n
      BY <1>1
    <3>2. <<k, f[k - 1]>> \in (1..n) \X Modes
      BY <2>3, <3>1 DEF Recursive
    <3>3. f[k] = step[<<k, f[k - 1]>>]
      BY <2>3 DEF Recursive
    <3>. QED
      BY <3>2, <3>3
  <2>6. f = [j \in 0..n |-> IF j = 0 THEN "code" ELSE NextMode(t, j, f[j - 1])]
    <3> HIDE DEF n
    <3>1. \A j \in 0..n : j # 0 => j \in 1..n
      BY <1>1
    <3>. QED
      BY <2>3, <2>4, <3>1 DEF Recursive
  <2>7. mode = [j \in 0..n |-> IF j = 0 THEN "code" ELSE NextMode(t, j, mode[j - 1])]
    <3> HIDE DEF n
    <3>. QED
      BY <2>6
  <2>. QED
    <3> HIDE DEF mode, n
    <3>1. \A j \in 0..n : mode[j] = IF j = 0 THEN "code" ELSE NextMode(t, j, mode[j - 1])
      BY <2>7
    <3>2. mode \in [0..n -> Modes]
      <4> DEFINE T == {j \in 0..n : mode[j] \in Modes}
      <4>1. 0 \in T
        BY <1>1, <2>2, <3>1
      <4>2. \A k \in 1..n : k - 1 \in T => k \in T
        BY <3>1, NextModeType
      <4>3. 0..n \subseteq T
        <5> HIDE DEF T
        <5>. QED
          BY <1>1, <4>1, <4>2, Upward
      <4>. QED
        BY <2>7, <4>3
    <3>. QED
      BY <3>1, <3>2
<1> HIDE DEF mode
<1>4. Mode(t, 1) = "code"
  BY <1>1, <1>2, <1>3
<1>5. \A i \in 1..(n + 1) : Mode(t, i) \in Modes
  BY <1>1, <1>2, <1>3
<1>6. \A j \in 1..n : Mode(t, j + 1) = NextMode(t, j, Mode(t, j))
  BY <1>1, <1>2, <1>3
<1>. QED
  BY <1>4, <1>5, <1>6

\* What NextBody returns.
LEMMA NextBodyType ==
    ASSUME NEW t, NEW j, NEW b \in Bodies
    PROVE  NextBody(t, j, b) \in Bodies
BY DEF NextBody, Bodies

\* The states of sqlite3_complete, before the first character and of a place
\* after the one before it.
LEMMA BodySteps ==
    ASSUME NEW t \in Seq(Chars)
    PROVE  /\ Body(t, 1) = "start"
           /\ \A i \in 1..(Len(t) + 1) : Body(t, i) \in Bodies
           /\ \A j \in 1..Len(t) : Body(t, j + 1) = NextBody(t, j, Body(t, j))
<1> DEFINE n == Len(t)
    body[j \in 0..n] == IF j = 0 THEN "start" ELSE NextBody(t, j, body[j - 1])
    step == [p \in (1..n) \X Bodies |-> NextBody(t, p[1], p[2])]
<1>1. n \in Nat
  OBVIOUS
<1>2. \A i : Body(t, i) = body[i - 1]
  BY DEF Body
<1>3. body \in [0..n -> Bodies] /\ body[0] = "start"
      /\ \A k \in 1..n : body[k] = NextBody(t, k, body[k - 1])
  <2>1. step \in [(1..n) \X Bodies -> Bodies]
    BY NextBodyType
  <2>2. "start" \in Bodies
    BY DEF Bodies
  <2>3. PICK f : Recursive(f, n, Bodies, "start", step)
    <3> HIDE DEF step, n
    <3>. QED
      BY <1>1, <2>1, <2>2, Recursion
  <2>4. ASSUME NEW k \in 1..n
        PROVE  f[k] = NextBody(t, k, f[k - 1])
    <3>1. k - 1 \in 0..n
      BY <1>1
    <3>2. <<k, f[k - 1]>> \in (1..n) \X Bodies
      BY <2>3, <3>1 DEF Recursive
    <3>3. f[k] = step[<<k, f[k - 1]>>]
      BY <2>3 DEF Recursive
    <3>. QED
      BY <3>2, <3>3
  <2>5. f = [j \in 0..n |-> IF j = 0 THEN "start" ELSE NextBody(t, j, f[j - 1])]
    <3> HIDE DEF n
    <3>1. \A j \in 0..n : j # 0 => j \in 1..n
      BY <1>1
    <3>. QED
      BY <2>3, <2>4, <3>1 DEF Recursive
  <2>6. body = [j \in 0..n |-> IF j = 0 THEN "start" ELSE NextBody(t, j, body[j - 1])]
    <3> HIDE DEF n
    <3>. QED
      BY <2>5
  <2> HIDE DEF body, n
  <2>7. 0 \in 0..n /\ body[0] = "start"
    BY <1>1, <2>6
  <2>8. \A k \in 1..n : k \in 0..n /\ k # 0 /\ body[k] = NextBody(t, k, body[k - 1])
    BY <1>1, <2>6
  <2>9. body \in [0..n -> Bodies]
    <3> DEFINE T == {j \in 0..n : body[j] \in Bodies}
    <3>1. 0 \in T
      BY <2>2, <2>7
    <3>2. \A k \in 1..n : k - 1 \in T => k \in T
      <4> SUFFICES ASSUME NEW k \in 1..n, k - 1 \in T PROVE k \in T
        OBVIOUS
      <4>1. step[<<k, body[k - 1]>>] \in Bodies
        BY <2>1
      <4>. QED
        BY <2>8, <4>1
    <3>3. 0..n \subseteq T
      <4> HIDE DEF T
      <4>. QED
        BY <1>1, <3>1, <3>2, Upward
    <3>. QED
      BY <2>6, <3>3
  <2>. QED
    BY <2>7, <2>8, <2>9
<1> HIDE DEF body
<1>4. Body(t, 1) = "start"
  BY <1>1, <1>2, <1>3
<1>5. \A i \in 1..(n + 1) : Body(t, i) \in Bodies
  BY <1>1, <1>2, <1>3
<1>6. \A j \in 1..n : Body(t, j + 1) = NextBody(t, j, Body(t, j))
  BY <1>1, <1>2, <1>3
<1>. QED
  BY <1>4, <1>5, <1>6

-----------------------------------------------------------------------------
(* Pieces of a text.                                                       *)

\* What Pieces returns.
Cuts(t) == [complete : Seq(Seq(Chars)), next : 1..(Len(t) + 1)]

\* What Join returns.
Joins == [complete : Seq(Seq(Chars)), acc : Seq(Chars)]

\* What Pieces makes of one more character.
NextPieces(t, ends, j, r) ==
    IF j \notin ends THEN r
    ELSE [complete |-> Append(r.complete, SubSeq(t, r.next, j - 1)), next |-> j + 1]

\* A part of a text is a text.
LEMMA SubText ==
    ASSUME NEW t \in Seq(Chars), NEW a \in 1..(Len(t) + 1), NEW b \in 0..Len(t)
    PROVE  /\ SubSeq(t, a, b) \in Seq(Chars)
           /\ Len(SubSeq(t, a, b)) = IF a <= b THEN b - a + 1 ELSE 0
           /\ \A i \in 1..Len(SubSeq(t, a, b)) :
                 SubSeq(t, a, b)[i] = t[a + i - 1] /\ a + i - 1 \in a..b
<1>1. a \in Int /\ b \in Int
  OBVIOUS
<1>2. \A i \in a..b : t[i] \in Chars
  OBVIOUS
<1>3. /\ SubSeq(t, a, b) \in Seq(Chars)
      /\ Len(SubSeq(t, a, b)) = IF a <= b THEN b - a + 1 ELSE 0
      /\ \A i \in 1..(b - a + 1) : SubSeq(t, a, b)[i] = t[a + i - 1]
  BY <1>1, <1>2, SubSeqProperties
<1>. QED
  BY <1>1, <1>3

\* One more character.
LEMMA NextPiecesType ==
    ASSUME NEW t \in Seq(Chars), NEW ends, NEW j \in 1..Len(t), NEW r \in Cuts(t)
    PROVE  NextPieces(t, ends, j, r) \in Cuts(t)
<1>1. j - 1 \in 0..Len(t) /\ j + 1 \in 1..(Len(t) + 1)
  OBVIOUS
<1>2. SubSeq(t, r.next, j - 1) \in Seq(Chars) /\ r.complete \in Seq(Seq(Chars))
  BY <1>1, SubText DEF Cuts
<1>3. Append(r.complete, SubSeq(t, r.next, j - 1)) \in Seq(Seq(Chars))
  BY <1>2
<1>. QED
  BY <1>1, <1>3 DEF NextPieces, Cuts

\* Pieces follows the characters.
LEMMA PiecesSteps ==
    ASSUME NEW t \in Seq(Chars), NEW ends
    PROVE  /\ Pieces(t, ends, 0) = [complete |-> <<>>, next |-> 1]
           /\ \A j \in 0..Len(t) : Pieces(t, ends, j) \in Cuts(t)
           /\ \A j \in 1..Len(t) :
                 Pieces(t, ends, j) = NextPieces(t, ends, j, Pieces(t, ends, j - 1))
<1> DEFINE n == Len(t)
    cut[j \in 0..Len(t)] ==
          IF j = 0 THEN [complete |-> <<>>, next |-> 1]
          ELSE LET r == cut[j - 1]
               IN  IF j \notin ends THEN r
                   ELSE [complete |-> Append(r.complete, SubSeq(t, r.next, j - 1)),
                         next |-> j + 1]
    S == Cuts(t)
    base == [complete |-> <<>>, next |-> 1]
    step == [p \in (1..n) \X S |-> NextPieces(t, ends, p[1], p[2])]
<1>1. n \in Nat
  OBVIOUS
<1>2. \A i : Pieces(t, ends, i) = cut[i]
  BY DEF Pieces
<1>3. cut \in [0..n -> S] /\ cut[0] = base
      /\ \A k \in 1..n : cut[k] = NextPieces(t, ends, k, cut[k - 1])
  <2>1. step \in [(1..n) \X S -> S]
    BY NextPiecesType
  <2>2. base \in S
    BY DEF Cuts
  <2>3. PICK f : Recursive(f, n, S, base, step)
    <3> HIDE DEF step, n
    <3>. QED
      BY <1>1, <2>1, <2>2, Recursion
  <2>4. ASSUME NEW k \in 1..n
        PROVE  f[k] = NextPieces(t, ends, k, f[k - 1])
    <3>1. k - 1 \in 0..n
      BY <1>1
    <3>2. <<k, f[k - 1]>> \in (1..n) \X S
      BY <2>3, <3>1 DEF Recursive
    <3>3. f[k] = step[<<k, f[k - 1]>>]
      BY <2>3 DEF Recursive
    <3>. QED
      BY <3>2, <3>3
  <2>5. f = [j \in 0..n |-> IF j = 0 THEN base ELSE NextPieces(t, ends, j, f[j - 1])]
    <3> HIDE DEF n
    <3>1. \A j \in 0..n : j # 0 => j \in 1..n
      BY <1>1
    <3>. QED
      BY <2>3, <2>4, <3>1 DEF Recursive
  <2>6. cut = [j \in 0..n |-> IF j = 0 THEN base ELSE NextPieces(t, ends, j, cut[j - 1])]
    BY <2>5 DEF NextPieces
  <2> HIDE DEF cut, n
  <2>7. 0 \in 0..n /\ cut[0] = base
    BY <1>1, <2>6
  <2>8. \A k \in 1..n : k \in 0..n /\ k # 0 /\ cut[k] = NextPieces(t, ends, k, cut[k - 1])
    BY <1>1, <2>6
  <2>9. cut \in [0..n -> S]
    <3> DEFINE T == {j \in 0..n : cut[j] \in S}
    <3>1. 0 \in T
      BY <2>2, <2>7
    <3>2. \A k \in 1..n : k - 1 \in T => k \in T
      <4> SUFFICES ASSUME NEW k \in 1..n, k - 1 \in T PROVE k \in T
        OBVIOUS
      <4>1. step[<<k, cut[k - 1]>>] \in S
        BY <2>1
      <4>. QED
        BY <2>8, <4>1
    <3>3. 0..n \subseteq T
      <4> HIDE DEF T
      <4>. QED
        BY <1>1, <3>1, <3>2, Upward
    <3>. QED
      BY <2>6, <3>3
  <2>. QED
    BY <2>7, <2>8, <2>9
<1> HIDE DEF cut
<1>4. Pieces(t, ends, 0) = base
  BY <1>2, <1>3
<1>5. \A j \in 0..n : Pieces(t, ends, j) \in S
  BY <1>1, <1>2, <1>3
<1>6. \A j \in 1..n : Pieces(t, ends, j) = NextPieces(t, ends, j, Pieces(t, ends, j - 1))
  BY <1>1, <1>2, <1>3
<1>. QED
  BY <1>4, <1>5, <1>6

\* One more piece.
LEMMA JoinType ==
    ASSUME NEW r \in Joins, NEW piece \in Seq(Chars)
    PROVE  Join(r, piece) \in Joins
<1> DEFINE front == IF r.acc = <<>> THEN <<>> ELSE Append(r.acc, ";")
    acc == front \o piece
<1>1. /\ r.acc \in Seq(Chars) /\ r.complete \in Seq(Seq(Chars))
      /\ r = [complete |-> r.complete, acc |-> r.acc]
  BY DEF Joins
<1>2. ";" \in Chars
  BY DEF Chars
<1>3. Append(r.acc, ";") \in Seq(Chars)
  BY <1>1, <1>2, AppendProperties
<1>4. front \in Seq(Chars)
  <2>1. <<>> \in Seq(Chars)
    OBVIOUS
  <2>. QED
    BY <1>3, <2>1
<1>5. acc \in Seq(Chars)
  <2> HIDE DEF front
  <2>. QED
    BY <1>4, ConcatProperties
<1>6. Join(r, piece) = IF Complete(Append(acc, ";"))
                         THEN [complete |-> Append(r.complete, acc), acc |-> <<>>]
                         ELSE [complete |-> r.complete, acc |-> acc]
  BY DEF Join
<1> HIDE DEF acc
<1>7. Append(r.complete, acc) \in Seq(Seq(Chars))
  BY <1>1, <1>5
<1>8. <<>> \in Seq(Chars)
  OBVIOUS
<1>9. /\ [complete |-> Append(r.complete, acc), acc |-> <<>>] \in Joins
      /\ [complete |-> r.complete, acc |-> acc] \in Joins
  BY <1>1, <1>5, <1>7, <1>8 DEF Joins
<1>. QED
  BY <1>6, <1>9

\* Joined follows the pieces.
LEMMA JoinedSteps ==
    ASSUME NEW pieces \in Seq(Seq(Chars))
    PROVE  /\ Joined(pieces, 0) = [complete |-> <<>>, acc |-> <<>>]
           /\ \A k \in 0..Len(pieces) : Joined(pieces, k) \in Joins
           /\ \A k \in 1..Len(pieces) :
                 Joined(pieces, k) = Join(Joined(pieces, k - 1), pieces[k])
<1> DEFINE n == Len(pieces)
    joined[k \in 0..Len(pieces)] ==
          IF k = 0 THEN [complete |-> <<>>, acc |-> <<>>]
          ELSE Join(joined[k - 1], pieces[k])
    base == [complete |-> <<>>, acc |-> <<>>]
    step == [p \in (1..n) \X Joins |-> Join(p[2], pieces[p[1]])]
<1>1. n \in Nat
  OBVIOUS
<1>2. \A i : Joined(pieces, i) = joined[i]
  BY DEF Joined
<1>3. joined \in [0..n -> Joins] /\ joined[0] = base
      /\ \A k \in 1..n : joined[k] = Join(joined[k - 1], pieces[k])
  <2>1. step \in [(1..n) \X Joins -> Joins]
    BY JoinType
  <2>2. base \in Joins
    BY DEF Joins
  <2>3. PICK f : Recursive(f, n, Joins, base, step)
    <3> HIDE DEF step, n
    <3>. QED
      BY <1>1, <2>1, <2>2, Recursion
  <2>4. ASSUME NEW k \in 1..n
        PROVE  f[k] = Join(f[k - 1], pieces[k])
    <3>1. k - 1 \in 0..n
      BY <1>1
    <3>2. <<k, f[k - 1]>> \in (1..n) \X Joins
      BY <2>3, <3>1 DEF Recursive
    <3>3. f[k] = step[<<k, f[k - 1]>>]
      BY <2>3 DEF Recursive
    <3>. QED
      BY <3>2, <3>3
  <2>5. f = [j \in 0..n |-> IF j = 0 THEN base ELSE Join(f[j - 1], pieces[j])]
    <3> HIDE DEF n
    <3>1. \A j \in 0..n : j # 0 => j \in 1..n
      BY <1>1
    <3>. QED
      BY <2>3, <2>4, <3>1 DEF Recursive
  <2>6. joined = [j \in 0..n |-> IF j = 0 THEN base ELSE Join(joined[j - 1], pieces[j])]
    BY <2>5
  <2> HIDE DEF joined, n
  <2>7. 0 \in 0..n /\ joined[0] = base
    BY <1>1, <2>6
  <2>8. \A k \in 1..n : k \in 0..n /\ k # 0 /\ joined[k] = Join(joined[k - 1], pieces[k])
    BY <1>1, <2>6
  <2>9. joined \in [0..n -> Joins]
    <3> DEFINE T == {j \in 0..n : joined[j] \in Joins}
    <3>1. 0 \in T
      BY <2>2, <2>7
    <3>2. \A k \in 1..n : k - 1 \in T => k \in T
      <4> SUFFICES ASSUME NEW k \in 1..n, k - 1 \in T PROVE k \in T
        OBVIOUS
      <4>1. step[<<k, joined[k - 1]>>] \in Joins
        BY <2>1
      <4>. QED
        BY <2>8, <4>1
    <3>3. 0..n \subseteq T
      <4> HIDE DEF T
      <4>. QED
        BY <1>1, <3>1, <3>2, Upward
    <3>. QED
      BY <2>6, <3>3
  <2>. QED
    BY <2>7, <2>8, <2>9
<1> HIDE DEF joined
<1>4. Joined(pieces, 0) = base
  BY <1>2, <1>3
<1>5. \A j \in 0..n : Joined(pieces, j) \in Joins
  BY <1>1, <1>2, <1>3
<1>6. \A j \in 1..n : Joined(pieces, j) = Join(Joined(pieces, j - 1), pieces[j])
  BY <1>1, <1>2, <1>3
<1>. QED
  BY <1>4, <1>5, <1>6

-----------------------------------------------------------------------------
(* The scanner's loops.                                                    *)

\* StringEnd goes on behind a quote that stands for itself.
LEMMA StringEndStep ==
    ASSUME NEW t \in Seq(Chars)
    PROVE  \A i \in Nat :
             LET k == From(t, i, At(t, "q"))
             IN  /\ StringEnd(t, i) \in Nat
                 /\ StringEnd(t, i) =
                      IF Pair(t, k, "q", "q") THEN StringEnd(t, k + 2) ELSE k + 1
<1> DEFINE n == Len(t)
    at(j) == From(t, j, At(t, "q"))
    end[j \in Nat] ==
          LET k == From(t, j, At(t, "q"))
          IN  IF Pair(t, k, "q", "q") THEN end[k + 2] ELSE k + 1
    goes == [j \in Nat |-> Pair(t, at(j), "q", "q")]
    next == [j \in Nat |-> IF goes[j] THEN at(j) + 2 ELSE j + 1]
    last == [j \in Nat |-> at(j) + 1]
    step == [p \in Nat \X Nat |-> p[2]]
<1>1. n \in Nat
  OBVIOUS
<1>2. \A i : StringEnd(t, i) = end[i]
  BY DEF StringEnd
<1>3. \A j \in Nat : at(j) \in Nat /\ (Pair(t, at(j), "q", "q") => j <= n /\ at(j) >= j)
  <2> SUFFICES ASSUME NEW j \in Nat
               PROVE  at(j) \in Nat /\ (Pair(t, at(j), "q", "q") => j <= n /\ at(j) >= j)
    OBVIOUS
  <2>1. at(j) \in 1..(n + 1) /\ (at(j) # n + 1 => at(j) >= j)
    BY FromFacts, PlacesFacts
  <2>. QED
    BY <1>1, <2>1 DEF Pair
<1> HIDE DEF at
<1>10. ASSUME NEW j \in Nat PROVE at(j) + 1 \in Nat /\ at(j) + 2 \in Nat
  <2>1. at(j) \in Nat
    BY <1>3
  <2> HIDE DEF at
  <2>. QED
    BY <2>1
<1>4. PICK f : Searching(f, Nat, goes, next, last, step)
  <2>1. goes \in [Nat -> BOOLEAN] /\ \A j \in Nat : goes[j] => j <= n
    BY <1>3 DEF Pair
  <2>2. ASSUME NEW j \in Nat
        PROVE  next[j] \in Nat /\ next[j] > j
    <3>1. CASE goes[j]
      BY <1>3, <1>10, <3>1
    <3>2. CASE ~goes[j]
      BY <3>2
    <3>. QED
      BY <3>1, <3>2
  <2>4. next \in [Nat -> Nat] /\ \A j \in Nat : next[j] > j
    BY <2>2
  <2>3. last \in [Nat -> Nat] /\ step \in [Nat \X Nat -> Nat]
    BY <1>10
  <2> HIDE DEF goes, next, last, step, n
  <2>. QED
    BY <1>1, <2>1, <2>4, <2>3, Search
<1>5. \A j \in Nat : f[j] = IF Pair(t, at(j), "q", "q") THEN f[at(j) + 2] ELSE at(j) + 1
  <2> SUFFICES ASSUME NEW j \in Nat
               PROVE  f[j] = IF Pair(t, at(j), "q", "q") THEN f[at(j) + 2] ELSE at(j) + 1
    OBVIOUS
  <2>1. at(j) + 2 \in Nat /\ f[at(j) + 2] \in Nat
    BY <1>10, <1>4 DEF Searching
  <2>2. step[<<j, f[at(j) + 2]>>] = f[at(j) + 2]
    BY <2>1
  <2>3. f[j] = IF goes[j] THEN step[<<j, f[next[j]]>>] ELSE last[j]
    <3> HIDE DEF goes, next, last, step
    <3>. QED
      BY <1>4 DEF Searching
  <2> HIDE DEF step
  <2>. QED
    BY <2>2, <2>3
<1>6. f = [j \in Nat |-> IF Pair(t, at(j), "q", "q") THEN f[at(j) + 2] ELSE at(j) + 1]
  BY <1>4, <1>5 DEF Searching
<1>7. end = [j \in Nat |-> IF Pair(t, at(j), "q", "q") THEN end[at(j) + 2] ELSE at(j) + 1]
  BY <1>6 DEF at
<1> HIDE DEF end
<1>8. \A j \in Nat : end[j] = IF Pair(t, at(j), "q", "q") THEN end[at(j) + 2] ELSE at(j) + 1
  BY <1>7
<1>9. \A j \in Nat : end[j] \in Nat
  <2> DEFINE T == {j \in Nat : end[j] \in Nat}
  <2>1. ASSUME NEW j \in Nat, \A m \in Nat : m > j /\ j <= n => m \in T
        PROVE  j \in T
    <3>1. CASE Pair(t, at(j), "q", "q")
      <4>1. at(j) + 2 \in Nat /\ at(j) + 2 > j /\ j <= n
        BY <1>3, <1>10, <3>1
      <4>2. at(j) + 2 \in T
        BY <2>1, <4>1
      <4>. QED
        BY <1>8, <3>1, <4>2
    <3>2. CASE ~Pair(t, at(j), "q", "q")
      <4>1. end[j] = at(j) + 1
        BY <1>8, <3>2
      <4>2. at(j) + 1 \in Nat
        BY <1>3, <1>10
      <4>. QED
        BY <4>1, <4>2
    <3>. QED
      BY <3>1, <3>2
  <2>2. Nat \subseteq T
    <3> HIDE DEF T
    <3>. QED
      BY <1>1, <2>1, Downward
  <2>. QED
    BY <2>2
<1>. QED
  BY <1>2, <1>8, <1>9 DEF at

\* A string ends behind its beginning.
LEMMA StringEndLater ==
    ASSUME NEW t \in Seq(Chars)
    PROVE  \A i \in Nat : i <= Len(t) + 1 => StringEnd(t, i) > i
<1> DEFINE n == Len(t)
    T == {j \in Nat : j <= n + 1 => StringEnd(t, j) > j}
<1>1. n \in Nat
  OBVIOUS
<1>2. ASSUME NEW j \in Nat, \A m \in Nat : m > j /\ j <= n => m \in T
      PROVE  j \in T
  <2> SUFFICES ASSUME j <= n + 1 PROVE StringEnd(t, j) > j
    OBVIOUS
  <2> DEFINE k == From(t, j, At(t, "q"))
  <2>1. k \in 1..(n + 1) /\ (k # n + 1 => k >= j)
    BY FromFacts, PlacesFacts
  <2>2. StringEnd(t, j) = IF Pair(t, k, "q", "q") THEN StringEnd(t, k + 2) ELSE k + 1
    BY StringEndStep
  <2> HIDE DEF k
  <2>3. CASE Pair(t, k, "q", "q")
    <3>1. k < n /\ k + 2 \in Nat /\ k + 2 > j /\ j <= n /\ k + 2 <= n + 1
      BY <1>1, <2>1, <2>3 DEF Pair
    <3>2. StringEnd(t, k + 2) \in Nat /\ StringEnd(t, k + 2) > k + 2
      BY <1>2, <3>1, StringEndStep
    <3>. QED
      BY <2>2, <2>3, <3>1, <3>2
  <2>4. CASE ~Pair(t, k, "q", "q")
    BY <1>1, <2>1, <2>2, <2>4
  <2>. QED
    BY <2>3, <2>4
<1>3. Nat \subseteq T
  <2> HIDE DEF T
  <2>. QED
    BY <1>1, <1>2, Downward
<1>. QED
  BY <1>3

\* So does every literal, comment and character.
LEMMA TokenEndLater ==
    ASSUME NEW t \in Seq(Chars), NEW i \in 0..Len(t)
    PROVE  TokenEnd(t, i) \in Nat /\ TokenEnd(t, i) > i
<1> DEFINE n == Len(t)
<1>1. n \in Nat /\ i \in Nat /\ i + 1 \in Nat /\ i + 2 \in Nat
  OBVIOUS
<1>2. StringEnd(t, i + 1) \in Nat /\ StringEnd(t, i + 1) > i + 1
  BY <1>1, StringEndStep, StringEndLater
<1>3. LET k == From(t, i + 1, At(t, "d")) IN k \in 1..(n + 1) /\ (k # n + 1 => k > i)
  BY <1>1, FromFacts, PlacesFacts
<1>4. LET k == From(t, i, At(t, "n"))
      IN  k \in 1..(n + 1) /\ (k # n + 1 => k >= i /\ t[k] = "n")
  BY <1>1, FromFacts, PlacesFacts
<1>5. LET k == From(t, i + 2, Closes(t)) IN k \in 1..(n + 1) /\ (k # n + 1 => k > i)
  BY <1>1, FromFacts, PlacesFacts
<1>6. CASE t[i] = "q"
  BY <1>1, <1>2, <1>6 DEF TokenEnd, Pair
<1>7. CASE t[i] = "d"
  BY <1>1, <1>3, <1>7 DEF TokenEnd, Pair
<1>8. CASE t[i] \notin {"q", "d"} /\ Pair(t, i, "-", "-")
  BY <1>1, <1>4, <1>8 DEF TokenEnd, Pair
<1>9. CASE t[i] \notin {"q", "d"} /\ ~Pair(t, i, "-", "-") /\ Pair(t, i, "/", "*")
  BY <1>1, <1>5, <1>9 DEF TokenEnd
<1>10. CASE t[i] \notin {"q", "d"} /\ ~Pair(t, i, "-", "-") /\ ~Pair(t, i, "/", "*")
  BY <1>1, <1>10 DEF TokenEnd
<1>. QED
  BY <1>6, <1>7, <1>8, <1>9, <1>10

\* The places the loop stops at from i on.
StopsFrom(t, i) ==
    LET from[j \in Nat] ==
          IF j > Len(t) THEN {} ELSE {j} \cup from[TokenEnd(t, j)]
    IN  from[i]

\* It stops at i, and goes on behind what begins there.
LEMMA StopsStep ==
    ASSUME NEW t \in Seq(Chars)
    PROVE  /\ Stops(t) = StopsFrom(t, 1)
           /\ \A i \in Nat : StopsFrom(t, i) =
                IF i > Len(t) THEN {} ELSE {i} \cup StopsFrom(t, TokenEnd(t, i))
<1> DEFINE n == Len(t)
    from[i \in Nat] == IF i > Len(t) THEN {} ELSE {i} \cup from[TokenEnd(t, i)]
    goes == [j \in Nat |-> j <= n]
    next == [j \in Nat |-> IF goes[j] THEN TokenEnd(t, j) ELSE j + 1]
    last == [j \in Nat |-> {}]
    step == [p \in Nat \X SUBSET Nat |-> {p[1]} \cup p[2]]
<1>1. n \in Nat
  OBVIOUS
<1>2. Stops(t) = from[1]
  BY DEF Stops
<1>3. \A i : StopsFrom(t, i) = from[i]
  BY DEF StopsFrom
<1>4. \A j \in Nat : j <= n => TokenEnd(t, j) \in Nat /\ TokenEnd(t, j) > j
  BY <1>1, TokenEndLater
<1>5. PICK f : Searching(f, SUBSET Nat, goes, next, last, step)
  <2>1. goes \in [Nat -> BOOLEAN] /\ \A j \in Nat : goes[j] => j <= n
    <3>1. \A j \in Nat : (j <= n) \in BOOLEAN
      BY <1>1
    <3>. QED
      BY <3>1
  <2>2. ASSUME NEW j \in Nat
        PROVE  next[j] \in Nat /\ next[j] > j
    <3>1. CASE goes[j]
      BY <1>4, <3>1
    <3>2. CASE ~goes[j]
      BY <3>2
    <3>. QED
      BY <3>1, <3>2
  <2>3. next \in [Nat -> Nat] /\ \A j \in Nat : next[j] > j
    BY <2>2
  <2>4. last \in [Nat -> SUBSET Nat] /\ step \in [Nat \X SUBSET Nat -> SUBSET Nat]
    OBVIOUS
  <2> HIDE DEF goes, next, last, step, n
  <2>. QED
    BY <1>1, <2>1, <2>3, <2>4, Search
<1>6. ASSUME NEW j \in Nat
      PROVE  f[j] = IF j > Len(t) THEN {} ELSE {j} \cup f[TokenEnd(t, j)]
  <2>1. f[j] = IF goes[j] THEN step[<<j, f[next[j]]>>] ELSE last[j]
    <3> HIDE DEF goes, next, last, step
    <3>. QED
      BY <1>5 DEF Searching
  <2>2. CASE j <= n
    <3>1. goes[j] /\ next[j] = TokenEnd(t, j) /\ TokenEnd(t, j) \in Nat
      BY <1>4, <2>2
    <3>2. f[TokenEnd(t, j)] \in SUBSET Nat
      BY <1>5, <3>1 DEF Searching
    <3>3. step[<<j, f[TokenEnd(t, j)]>>] = {j} \cup f[TokenEnd(t, j)]
      BY <3>2
    <3> HIDE DEF step, goes, next
    <3>. QED
      BY <1>1, <2>1, <2>2, <3>1, <3>3
  <2>3. CASE ~(j <= n)
    <3>1. j > Len(t)
      BY <1>1, <2>3
    <3>2. last[j] = {}
      OBVIOUS
    <3>3. goes[j] = (j <= n)
      OBVIOUS
    <3> HIDE DEF step, goes, next, last, n
    <3>. QED
      BY <2>1, <2>3, <3>1, <3>2, <3>3
  <2>. QED
    BY <2>2, <2>3
<1>7. f = [i \in Nat |-> IF i > Len(t) THEN {} ELSE {i} \cup f[TokenEnd(t, i)]]
  BY <1>5, <1>6 DEF Searching
<1>8. from = [i \in Nat |-> IF i > Len(t) THEN {} ELSE {i} \cup from[TokenEnd(t, i)]]
  BY <1>7
<1> HIDE DEF from
<1>9. \A i \in Nat : from[i] = IF i > Len(t) THEN {} ELSE {i} \cup from[TokenEnd(t, i)]
  BY <1>8
<1>. QED
  BY <1>2, <1>3, <1>9

-----------------------------------------------------------------------------
(* The scanner's stops are the places SQLite takes for text.               *)

\* What a text is inside of stays the same until something ends it.
LEMMA Stays ==
    ASSUME NEW t \in Seq(Chars), NEW i \in 1..(Len(t) + 1), NEW k \in i..(Len(t) + 1),
           NEW m, Mode(t, i) = m, \A p \in i..(k - 1) : NextMode(t, p, m) = m
    PROVE  \A p \in i..k : Mode(t, p) = m
<1> DEFINE T == {d \in 0..(k - i) : Mode(t, i + d) = m}
<1>1. k - i \in Nat /\ Len(t) \in Nat
  OBVIOUS
<1>2. 0 \in T
  OBVIOUS
<1>3. ASSUME NEW d \in 1..(k - i), d - 1 \in T PROVE d \in T
  <2>1. i + d - 1 \in i..(k - 1) /\ i + d - 1 \in 1..Len(t)
        /\ i + (d - 1) = i + d - 1 /\ (i + d - 1) + 1 = i + d
    BY <1>1
  <2>2. Mode(t, i + d - 1) = m
    BY <1>3, <2>1
  <2>3. Mode(t, i + d) = NextMode(t, i + d - 1, Mode(t, i + d - 1))
    BY <2>1, ModeSteps
  <2>. QED
    BY <2>1, <2>2, <2>3
<1>4. 0..(k - i) \subseteq T
  <2> HIDE DEF T
  <2>. QED
    BY <1>1, <1>2, <1>3, Upward
<1>5. ASSUME NEW p \in i..k PROVE Mode(t, p) = m
  <2>1. p - i \in 0..(k - i) /\ i + (p - i) = p
    BY <1>1
  <2>2. p - i \in T
    BY <1>4, <2>1
  <2>. QED
    BY <2>1, <2>2
<1>. QED
  BY <1>5

\* StringEnd leaves the string; what lies before is in it or a quote.
LEMMA StringReading ==
    ASSUME NEW t \in Seq(Chars)
    PROVE  \A i \in Nat :
             LET e == StringEnd(t, i)
             IN  i \in 1..(Len(t) + 1) /\ Mode(t, i) = "string" =>
                 /\ \A p \in i..Len(t) : p < e => Mode(t, p) = "string" \/ t[p] = "q"
                 /\ e <= Len(t) + 1 => Mode(t, e) = "code"
<1> DEFINE n == Len(t)
    Reading(i, e) ==
      /\ \A p \in i..n : p < e => Mode(t, p) = "string" \/ t[p] = "q"
      /\ e <= n + 1 => Mode(t, e) = "code"
    T == {i \in Nat :
            i \in 1..(n + 1) /\ Mode(t, i) = "string" => Reading(i, StringEnd(t, i))}
<1>1. n \in Nat
  OBVIOUS
<1>2. ASSUME NEW i \in Nat, \A m \in Nat : m > i /\ i <= n => m \in T
      PROVE  i \in T
  <2> SUFFICES ASSUME i \in 1..(n + 1), Mode(t, i) = "string"
               PROVE  Reading(i, StringEnd(t, i))
    OBVIOUS
  <2> DEFINE k == From(t, i, At(t, "q"))
  <2>1. /\ k \in 1..(n + 1)
        /\ k # n + 1 => k >= i /\ k \in At(t, "q")
        /\ \A m \in At(t, "q") : m >= i => k <= m
    BY FromFacts, PlacesFacts
  <2>2. StringEnd(t, i) = IF Pair(t, k, "q", "q") THEN StringEnd(t, k + 2) ELSE k + 1
    BY StringEndStep
  <2>3. \A m \in 1..n : m \in At(t, "q") <=> t[m] = "q"
    BY PlacesFacts
  <2> HIDE DEF k
  <2>4. k \in i..(n + 1)
    BY <1>1, <2>1
  <2>5. \A p \in i..(k - 1) : p \in 1..n /\ t[p] # "q"
    BY <1>1, <2>1, <2>3
  <2>6. \A p \in i..k : Mode(t, p) = "string"
    <3>1. \A p \in i..(k - 1) : NextMode(t, p, "string") = "string"
      BY <2>5 DEF NextMode
    <3>. QED
      BY <2>4, <3>1, Stays
  <2>7. k <= n => t[k] = "q" /\ Mode(t, k + 1) = "code"
    <3> SUFFICES ASSUME k <= n PROVE t[k] = "q" /\ Mode(t, k + 1) = "code"
      OBVIOUS
    <3>1. k \in 1..n /\ t[k] = "q"
      BY <1>1, <2>1, <2>3
    <3>2. Mode(t, k + 1) = NextMode(t, k, "string")
      BY <2>4, <2>6, <3>1, ModeSteps
    <3>. QED
      BY <3>1, <3>2 DEF NextMode
  <2>8. CASE Pair(t, k, "q", "q")
    <3>1. k < n /\ t[k + 1] = "q" /\ k + 1 \in 1..n /\ k + 2 \in 1..(n + 1) /\ k + 2 \in Nat
          /\ (k + 1) + 1 = k + 2 /\ k + 2 > i /\ i <= n
      BY <1>1, <2>1, <2>4, <2>8 DEF Pair
    <3>2. Mode(t, k + 2) = NextMode(t, k + 1, "code")
      <4>1. Mode(t, k + 1) = "code"
        BY <1>1, <2>4, <2>7, <3>1
      <4>2. Mode(t, (k + 1) + 1) = NextMode(t, k + 1, Mode(t, k + 1))
        BY <3>1, ModeSteps
      <4>. QED
        BY <3>1, <4>1, <4>2
    <3>3. Mode(t, k + 2) = "string"
      BY <3>1, <3>2 DEF NextMode
    <3>4. k + 2 \in T
      BY <1>2, <3>1
    <3>5. Reading(k + 2, StringEnd(t, k + 2))
      BY <3>1, <3>3, <3>4
    <3>6. \A p \in i..n : p \in i..k \/ p = k + 1 \/ p \in (k + 2)..n
      BY <1>1, <2>4
    <3>. QED
      BY <2>2, <2>6, <2>8, <3>1, <3>5, <3>6
  <2>9. CASE ~Pair(t, k, "q", "q")
    <3>1. StringEnd(t, i) = k + 1
      BY <2>2, <2>9
    <3>2. \A p \in i..n : p < k + 1 => p \in i..k
      BY <1>1, <2>4
    <3>3. k + 1 <= n + 1 => k <= n
      BY <1>1, <2>4
    <3>. QED
      BY <2>6, <2>7, <3>1, <3>2, <3>3
  <2>. QED
    BY <2>8, <2>9
<1>3. Nat \subseteq T
  <2> HIDE DEF T
  <2>. QED
    BY <1>1, <1>2, Downward
<1>. QED
  BY <1>3

\* A line comment goes on to the end of the line.
LEMMA LineReading ==
    ASSUME NEW t \in Seq(Chars), NEW i \in 1..Len(t), Mode(t, i) = "code",
           Pair(t, i, "-", "-")
    PROVE  LET k == From(t, i, At(t, "n"))
           IN  /\ k \in (i + 1)..(Len(t) + 1)
               /\ \A p \in (i + 1)..k : Mode(t, p) = "line"
               /\ k <= Len(t) => t[k] = "n" /\ Mode(t, k + 1) = "code"
<1> DEFINE n == Len(t)
    k == From(t, i, At(t, "n"))
<1>1. n \in Nat /\ i \in Nat /\ i + 1 \in 1..n /\ i + 1 \in 1..(n + 1) /\ i <= n
  BY DEF Pair
<1>2. \A j \in 1..n : Mode(t, j + 1) = NextMode(t, j, Mode(t, j))
  BY ModeSteps
<1>3. Mode(t, i + 1) = "line"
  BY <1>2 DEF NextMode, Pair
<1>4. /\ k \in 1..(n + 1)
      /\ k # n + 1 => k >= i /\ k \in At(t, "n")
      /\ \A m \in At(t, "n") : m >= i => k <= m
  BY <1>1, FromFacts, PlacesFacts
<1>5. \A m \in 1..n : m \in At(t, "n") <=> t[m] = "n"
  BY PlacesFacts
<1> HIDE DEF k
<1>6. k \in (i + 1)..(n + 1)
  <2>1. k # i
    BY <1>1, <1>4, <1>5 DEF Pair
  <2>. QED
    BY <1>1, <1>4, <2>1
<1>7. \A p \in (i + 1)..(k - 1) : NextMode(t, p, "line") = "line"
  <2>1. \A p \in (i + 1)..(k - 1) : t[p] # "n"
    BY <1>1, <1>4, <1>5
  <2>. QED
    BY <2>1 DEF NextMode
<1>8. \A p \in (i + 1)..k : Mode(t, p) = "line"
  BY <1>1, <1>3, <1>6, <1>7, Stays
<1>9. k <= n => t[k] = "n" /\ Mode(t, k + 1) = "code"
  <2> SUFFICES ASSUME k <= n PROVE t[k] = "n" /\ Mode(t, k + 1) = "code"
    OBVIOUS
  <2>1. k \in 1..n /\ t[k] = "n"
    BY <1>1, <1>4, <1>5
  <2>2. Mode(t, k + 1) = NextMode(t, k, "line")
    BY <1>2, <1>6, <1>8, <2>1
  <2>. QED
    BY <2>1, <2>2 DEF NextMode
<1>. QED
  BY <1>6, <1>8, <1>9 DEF k

\* A block comment goes on to its end, which begins behind its beginning.
LEMMA BlockReading ==
    ASSUME NEW t \in Seq(Chars), NEW i \in 1..Len(t), Mode(t, i) = "code",
           Pair(t, i, "/", "*")
    PROVE  LET k == From(t, i + 2, Closes(t))
           IN  /\ k \in (i + 2)..(Len(t) + 1)
               /\ Mode(t, i + 1) = "opening"
               /\ \A p \in (i + 2)..k : Mode(t, p) = "block"
               /\ k <= Len(t) => /\ k + 1 <= Len(t)
                                 /\ Mode(t, k + 1) = "closing"
                                 /\ Mode(t, k + 2) = "code"
<1> DEFINE n == Len(t)
    k == From(t, i + 2, Closes(t))
<1>1. n \in Nat /\ i \in Nat /\ i + 1 \in 1..n /\ i + 2 \in Nat /\ i + 2 <= n + 1
      /\ (i + 1) + 1 = i + 2 /\ i + 2 \in 1..(n + 1)
  BY DEF Pair
<1>2. \A j \in 1..n : Mode(t, j + 1) = NextMode(t, j, Mode(t, j))
  BY ModeSteps
<1>3. Mode(t, i + 1) = "opening"
  BY <1>2 DEF NextMode, Pair
<1>4. Mode(t, i + 2) = "block"
  BY <1>1, <1>2, <1>3 DEF NextMode
<1>5. /\ k \in 1..(n + 1)
      /\ k # n + 1 => k >= i + 2 /\ k \in Closes(t)
      /\ \A m \in Closes(t) : m >= i + 2 => k <= m
  BY <1>1, FromFacts, PlacesFacts
<1>6. \A m \in 1..n : m \in Closes(t) <=> Pair(t, m, "*", "/")
  BY PlacesFacts
<1> HIDE DEF k
<1>7. k \in (i + 2)..(n + 1)
  BY <1>1, <1>5
<1>8. \A p \in (i + 2)..(k - 1) : NextMode(t, p, "block") = "block"
  <2>1. \A p \in (i + 2)..(k - 1) : ~Pair(t, p, "*", "/")
    BY <1>1, <1>5, <1>6
  <2>. QED
    BY <2>1 DEF NextMode
<1>9. \A p \in (i + 2)..k : Mode(t, p) = "block"
  BY <1>1, <1>4, <1>7, <1>8, Stays
<1>10. k <= n => k + 1 <= n /\ Mode(t, k + 1) = "closing" /\ Mode(t, k + 2) = "code"
  <2> SUFFICES ASSUME k <= n
               PROVE  k + 1 <= n /\ Mode(t, k + 1) = "closing" /\ Mode(t, k + 2) = "code"
    OBVIOUS
  <2>1. k \in 1..n /\ Pair(t, k, "*", "/")
    BY <1>1, <1>5, <1>6
  <2>2. k + 1 \in 1..n /\ (k + 1) + 1 = k + 2
    BY <1>1, <2>1 DEF Pair
  <2>3. Mode(t, k + 1) = NextMode(t, k, "block")
    BY <1>2, <1>7, <1>9, <2>1
  <2>4. Mode(t, k + 1) = "closing"
    BY <2>1, <2>3 DEF NextMode
  <2>5. Mode(t, (k + 1) + 1) = NextMode(t, k + 1, "closing")
    BY <1>2, <2>2, <2>4
  <2>. QED
    BY <2>2, <2>4, <2>5 DEF NextMode
<1>. QED
  BY <1>3, <1>7, <1>9, <1>10 DEF k

\* Where the scanner may stop: at text, and at the end of a line comment.
Stoppable(t, i) ==
    \/ Mode(t, i) \in {"code", "bracket", "backquote"}
    \/ Mode(t, i) = "line" /\ (i <= Len(t) => t[i] = "n")

\* What TokenEnd skips is no text, and it skips all of it.
LEMMA TokenReading ==
    ASSUME NEW t \in Seq(Chars), NEW i \in 1..Len(t), Mode(t, i) = "code"
    PROVE  LET e == TokenEnd(t, i)
           IN  /\ \A p \in (i + 1)..Len(t) :
                    p < e => Mode(t, p) \notin {"code", "bracket", "backquote"} \/ t[p] = "q"
               /\ e <= Len(t) + 1 => Stoppable(t, e)
<1> DEFINE n == Len(t)
    e == TokenEnd(t, i)
    Goal == /\ \A p \in (i + 1)..n :
                 p < e => Mode(t, p) \notin {"code", "bracket", "backquote"} \/ t[p] = "q"
            /\ e <= n + 1 => Stoppable(t, e)
<1>1. n \in Nat /\ i \in Nat /\ i + 1 \in Nat /\ i + 1 \in 1..(n + 1) /\ i <= n
  OBVIOUS
<1>2. \A j \in 1..n : Mode(t, j + 1) = NextMode(t, j, Mode(t, j))
  BY ModeSteps
<1>3. Mode(t, i + 1) = NextMode(t, i, "code")
  BY <1>2
<1>4. CASE t[i] = "q"
  <2>1. Mode(t, i + 1) = "string"
    BY <1>3, <1>4 DEF NextMode
  <2>2. e = StringEnd(t, i + 1)
    BY <1>4 DEF TokenEnd, Pair
  <2>3. /\ \A p \in (i + 1)..n : p < e => Mode(t, p) = "string" \/ t[p] = "q"
        /\ e <= n + 1 => Mode(t, e) = "code"
    BY <1>1, <2>1, <2>2, StringReading
  <2>. QED
    BY <2>3 DEF Stoppable
<1>5. CASE t[i] = "d"
  <2> DEFINE k == From(t, i + 1, At(t, "d"))
  <2>1. Mode(t, i + 1) = "name"
    BY <1>3, <1>5 DEF NextMode
  <2>2. e = k + 1
    BY <1>5 DEF TokenEnd, Pair
  <2>3. /\ k \in 1..(n + 1)
        /\ k # n + 1 => k >= i + 1 /\ k \in At(t, "d")
        /\ \A m \in At(t, "d") : m >= i + 1 => k <= m
    BY <1>1, FromFacts, PlacesFacts
  <2>4. \A m \in 1..n : m \in At(t, "d") <=> t[m] = "d"
    BY PlacesFacts
  <2> HIDE DEF k
  <2>5. k \in (i + 1)..(n + 1)
    BY <1>1, <2>3
  <2>6. \A p \in (i + 1)..(k - 1) : NextMode(t, p, "name") = "name"
    <3>1. \A p \in (i + 1)..(k - 1) : t[p] # "d"
      BY <1>1, <2>3, <2>4
    <3>. QED
      BY <3>1 DEF NextMode
  <2>7. \A p \in (i + 1)..k : Mode(t, p) = "name"
    BY <1>1, <2>1, <2>5, <2>6, Stays
  <2>8. k <= n => Mode(t, k + 1) = "code"
    <3> SUFFICES ASSUME k <= n PROVE Mode(t, k + 1) = "code"
      OBVIOUS
    <3>1. k \in 1..n /\ t[k] = "d"
      BY <1>1, <2>3, <2>4
    <3>2. Mode(t, k + 1) = NextMode(t, k, "name")
      BY <1>2, <2>5, <2>7, <3>1
    <3>. QED
      BY <3>1, <3>2 DEF NextMode
  <2>9. \A p \in (i + 1)..n : p < e => p \in (i + 1)..k
    BY <1>1, <2>2, <2>5
  <2>10. e <= n + 1 => k <= n
    BY <1>1, <2>2, <2>5
  <2>. QED
    BY <2>2, <2>7, <2>8, <2>9, <2>10 DEF Stoppable
<1>6. CASE t[i] \notin {"q", "d", "["} /\ Pair(t, i, "-", "-")
  <2> DEFINE k == From(t, i, At(t, "n"))
  <2>1. e = k
    BY <1>6 DEF TokenEnd, Pair
  <2>2. /\ k \in (i + 1)..(n + 1)
        /\ \A p \in (i + 1)..k : Mode(t, p) = "line"
        /\ k <= n => t[k] = "n"
    BY <1>6, LineReading
  <2> HIDE DEF k
  <2>3. \A p \in (i + 1)..n : p < e => p \in (i + 1)..k
    BY <1>1, <2>1, <2>2
  <2>4. Mode(t, k) = "line"
    BY <1>1, <2>2
  <2>. QED
    BY <2>1, <2>2, <2>3, <2>4 DEF Stoppable
<1>7. CASE t[i] \notin {"q", "d", "["} /\ ~Pair(t, i, "-", "-") /\ Pair(t, i, "/", "*")
  <2> DEFINE k == From(t, i + 2, Closes(t))
  <2>1. e = k + 2
    BY <1>7 DEF TokenEnd
  <2>2. /\ k \in (i + 2)..(n + 1)
        /\ Mode(t, i + 1) = "opening"
        /\ \A p \in (i + 2)..k : Mode(t, p) = "block"
        /\ k <= n => Mode(t, k + 1) = "closing" /\ Mode(t, k + 2) = "code"
    BY <1>7, BlockReading
  <2> HIDE DEF k
  <2>3. \A p \in (i + 1)..n :
          p < e => p = i + 1 \/ p \in (i + 2)..k \/ (p = k + 1 /\ k <= n)
    BY <1>1, <2>1, <2>2
  <2>4. e <= n + 1 => k <= n
    BY <1>1, <2>1, <2>2
  <2>. QED
    BY <2>1, <2>2, <2>3, <2>4 DEF Stoppable
<1>8. CASE \/ t[i] = "["
           \/ t[i] \notin {"q", "d"} /\ ~Pair(t, i, "-", "-") /\ ~Pair(t, i, "/", "*")
  <2>1. e = i + 1
    BY <1>8 DEF TokenEnd, Pair
  <2>2. Mode(t, i + 1) \in {"code", "bracket", "backquote"}
    BY <1>3, <1>8 DEF NextMode
  <2>. QED
    BY <1>1, <2>1, <2>2 DEF Stoppable
<1>. QED
  BY <1>4, <1>5, <1>6, <1>7, <1>8

\* The scanner knows no [names] and `names`; in one that hides nothing from it,
\* it goes on by a character.  So a semicolon or a word is one of its stops exactly if
\* SQLite takes it for text.
LEMMA StopsExact ==
    ASSUME NEW t \in Seq(Chars), NamesPlain(t)
    PROVE  /\ Stops(t) \subseteq 1..Len(t)
           /\ \A p \in 1..Len(t) :
                t[p] \notin {"q", "n"} =>
                  (p \in Stops(t) <=> Mode(t, p) \in {"code", "bracket", "backquote"})
<1> DEFINE n == Len(t)
    Exact(i) ==
      /\ \A p \in StopsFrom(t, i) : p \in i..n
      /\ Stoppable(t, i) =>
           \A p \in i..n : t[p] \notin {"q", "n"} =>
             (p \in StopsFrom(t, i) <=> Mode(t, p) \in {"code", "bracket", "backquote"})
    T == {i \in Nat : i >= 1 => Exact(i)}
<1>1. n \in Nat
  OBVIOUS
<1>2. ASSUME NEW i \in Nat, \A m \in Nat : m > i /\ i <= n => m \in T
      PROVE  i \in T
  <2> SUFFICES ASSUME i >= 1 PROVE Exact(i)
    OBVIOUS
  <2>1. CASE i > n
    <3>1. StopsFrom(t, i) = {}
      BY <2>1, StopsStep
    <3>. QED
      BY <1>1, <2>1, <3>1
  <2>2. CASE i <= n
    <3> DEFINE e == TokenEnd(t, i)
    <3>1. i \in 1..n /\ i \in 0..n
      BY <1>1, <2>2
    <3>2. e \in Nat /\ e > i
      BY <3>1, TokenEndLater
    <3>3. StopsFrom(t, i) = {i} \cup StopsFrom(t, e)
      BY <1>1, <2>2, StopsStep
    <3> HIDE DEF e
    <3>4. e \in T /\ e >= 1
      BY <1>2, <2>2, <3>1, <3>2
    <3>5. Exact(e)
      BY <3>4
    <3>6. \A p \in StopsFrom(t, i) : p \in i..n
      BY <1>1, <3>1, <3>2, <3>3, <3>5
    <3>7. ASSUME Stoppable(t, i)
          PROVE  /\ t[i] # "n" => Mode(t, i) \in {"code", "bracket", "backquote"}
                 /\ \A p \in (i + 1)..n :
                      p < e => Mode(t, p) \notin {"code", "bracket", "backquote"} \/ t[p] = "q"
                 /\ e <= n => Stoppable(t, e)
      <4>1. CASE Mode(t, i) = "code"
        <5>1. /\ \A p \in (i + 1)..n :
                   p < e => Mode(t, p) \notin {"code", "bracket", "backquote"} \/ t[p] = "q"
              /\ e <= n + 1 => Stoppable(t, e)
          BY <3>1, <4>1, TokenReading DEF e
        <5>2. e <= n => e <= n + 1
          BY <1>1, <3>2
        <5>. QED
          BY <4>1, <5>1, <5>2
      <4>2. CASE Mode(t, i) # "code"
        <5>1. \/ Mode(t, i) \in {"bracket", "backquote"}
              \/ Mode(t, i) = "line" /\ t[i] = "n"
          BY <2>2, <3>7, <4>2 DEF Stoppable
        <5>2. t[i] \notin {"q", "d", "-", "/"}
          BY <3>1, <5>1 DEF NamesPlain, Unscanned
        <5>3. e = i + 1
          BY <5>2 DEF e, TokenEnd, Pair
        <5>4. Mode(t, i + 1) = NextMode(t, i, Mode(t, i))
          BY <3>1, ModeSteps
        <5>5. Mode(t, i + 1) \in {"code", "bracket", "backquote"}
          BY <5>1, <5>4 DEF NextMode
        <5>. QED
          BY <1>1, <3>1, <5>1, <5>3, <5>5 DEF Stoppable
      <4>. QED
        BY <4>1, <4>2
    <3>8. ASSUME Stoppable(t, i), NEW p \in i..n, t[p] \notin {"q", "n"}
          PROVE  p \in StopsFrom(t, i) <=> Mode(t, p) \in {"code", "bracket", "backquote"}
      <4>1. CASE p = i
        BY <3>3, <3>7, <3>8, <4>1
      <4>2. CASE p # i /\ p < e
        <5>1. p \notin StopsFrom(t, i)
          BY <1>1, <3>2, <3>3, <3>5, <4>2
        <5>2. p \in (i + 1)..n
          BY <1>1, <3>1, <4>2
        <5>. QED
          BY <3>7, <3>8, <4>2, <5>1, <5>2
      <4>3. CASE p >= e
        <5>1. p \in e..n /\ e <= n /\ p # i
          BY <1>1, <3>1, <3>2, <4>3
        <5>2. p \in StopsFrom(t, e) <=> Mode(t, p) \in {"code", "bracket", "backquote"}
          BY <3>5, <3>7, <3>8, <5>1
        <5>. QED
          BY <3>3, <5>1, <5>2
      <4>. QED
        BY <1>1, <3>1, <3>2, <4>1, <4>2, <4>3
    <3>. QED
      BY <3>6, <3>8
  <2>. QED
    BY <1>1, <2>1, <2>2
<1>3. Nat \subseteq T
  <2> HIDE DEF T
  <2>. QED
    BY <1>1, <1>2, Downward
<1>4. Exact(1)
  BY <1>3
<1>5. Stoppable(t, 1) /\ Stops(t) = StopsFrom(t, 1)
  BY ModeSteps, StopsStep DEF Stoppable
<1>. QED
  BY <1>4, <1>5

-----------------------------------------------------------------------------
(* The first word.                                                         *)

\* A comment begins at k.
Skips(t, k) == Pair(t, k, "-", "-") \/ Pair(t, k, "/", "*")

\* Where the comment ends.
Skipped(t, k) ==
    IF Pair(t, k, "-", "-") THEN From(t, k, At(t, "n")) + 1 ELSE From(t, k, Closes(t)) + 2

\* The word at k.
Found(t, k) == IF k <= Len(t) /\ t[k] \in Words THEN t[k] ELSE "none"

\* What firstKeyword finds from i on.
KeywordFrom(t, i) ==
    LET from[j \in Nat] ==
          LET k == From(t, j, Unskipped(t))
          IN  CASE k > Len(t) -> "none"
                [] Pair(t, k, "-", "-") -> from[From(t, k, At(t, "n")) + 1]
                [] Pair(t, k, "/", "*") -> from[From(t, k, Closes(t)) + 2]
                [] OTHER -> IF t[k] \in Words THEN t[k] ELSE "none"
    IN  from[i]

\* It goes on behind a comment.
LEMMA SkippedLater ==
    ASSUME NEW t \in Seq(Chars), NEW j \in Nat, Skips(t, From(t, j, Unskipped(t)))
    PROVE  LET k == From(t, j, Unskipped(t))
           IN  /\ j <= k /\ k \in 1..Len(t) /\ j <= Len(t)
               /\ Skipped(t, k) \in Nat /\ Skipped(t, k) > k
<1> DEFINE n == Len(t)
    k == From(t, j, Unskipped(t))
<1>1. n \in Nat
  OBVIOUS
<1>2. k \in 1..(n + 1) /\ (k # n + 1 => k >= j)
  BY FromFacts, PlacesFacts
<1>3. k < n /\ k \in Nat
  BY <1>1, <1>2 DEF Skips, Pair
<1>4. LET m == From(t, k, At(t, "n")) IN m \in 1..(n + 1) /\ (m # n + 1 => m >= k)
  BY <1>3, FromFacts, PlacesFacts
<1>5. LET m == From(t, k, Closes(t)) IN m \in 1..(n + 1) /\ (m # n + 1 => m >= k)
  BY <1>3, FromFacts, PlacesFacts
<1> HIDE DEF k
<1>6. Skipped(t, k) \in Nat /\ Skipped(t, k) > k
  BY <1>1, <1>3, <1>4, <1>5 DEF Skipped
<1>. QED
  BY <1>1, <1>2, <1>3, <1>6 DEF k

\* KeywordFrom skips comments and white space but form feeds.
LEMMA KeywordStep ==
    ASSUME NEW t \in Seq(Chars)
    PROVE  /\ FirstKeyword(t) = KeywordFrom(t, 1)
           /\ \A i \in Nat :
                LET k == From(t, i, Unskipped(t))
                IN  KeywordFrom(t, i) =
                      IF Skips(t, k) THEN KeywordFrom(t, Skipped(t, k)) ELSE Found(t, k)
<1> DEFINE n == Len(t)
    at(j) == From(t, j, Unskipped(t))
    S == Words \cup {"none"}
    from[j \in Nat] ==
          LET k == From(t, j, Unskipped(t))
          IN  CASE k > Len(t) -> "none"
                [] Pair(t, k, "-", "-") -> from[From(t, k, At(t, "n")) + 1]
                [] Pair(t, k, "/", "*") -> from[From(t, k, Closes(t)) + 2]
                [] OTHER -> IF t[k] \in Words THEN t[k] ELSE "none"
    goes == [j \in Nat |-> Skips(t, at(j))]
    next == [j \in Nat |-> IF goes[j] THEN Skipped(t, at(j)) ELSE j + 1]
    last == [j \in Nat |-> Found(t, at(j))]
    step == [p \in Nat \X S |-> p[2]]
<1>1. n \in Nat
  OBVIOUS
<1>2. \A i : KeywordFrom(t, i) = from[i]
  BY DEF KeywordFrom
<1>3. FirstKeyword(t) = from[1]
  BY DEF FirstKeyword
<1>4. ASSUME NEW j \in Nat, Skips(t, at(j))
      PROVE  Skipped(t, at(j)) \in Nat /\ Skipped(t, at(j)) > j /\ j <= n
  <2>1. at(j) \in Nat /\ j <= at(j) /\ j <= n /\ Skipped(t, at(j)) \in Nat
        /\ Skipped(t, at(j)) > at(j)
    BY <1>1, <1>4, SkippedLater
  <2> HIDE DEF at
  <2>. QED
    BY <2>1
<1>5. PICK f : Searching(f, S, goes, next, last, step)
  <2>1. goes \in [Nat -> BOOLEAN]
    BY DEF Skips, Pair
  <2>2. \A j \in Nat : goes[j] => j <= n
    BY <1>4
  <2>3. ASSUME NEW j \in Nat
        PROVE  next[j] \in Nat /\ next[j] > j
    <3>1. CASE goes[j]
      BY <1>4, <3>1
    <3>2. CASE ~goes[j]
      BY <3>2
    <3>. QED
      BY <3>1, <3>2
  <2>4. next \in [Nat -> Nat] /\ \A j \in Nat : next[j] > j
    BY <2>3
  <2>5. last \in [Nat -> S] /\ step \in [Nat \X S -> S]
    BY DEF Found
  <2> HIDE DEF goes, next, last, step, n, S
  <2>. QED
    BY <1>1, <2>1, <2>2, <2>4, <2>5, Search
<1>6. ASSUME NEW j \in Nat
      PROVE  f[j] = IF Skips(t, at(j)) THEN f[Skipped(t, at(j))] ELSE Found(t, at(j))
  <2>1. f[j] = IF goes[j] THEN step[<<j, f[next[j]]>>] ELSE last[j]
    <3> HIDE DEF goes, next, last, step
    <3>. QED
      BY <1>5 DEF Searching
  <2>2. CASE Skips(t, at(j))
    <3>1. goes[j] /\ next[j] = Skipped(t, at(j)) /\ Skipped(t, at(j)) \in Nat
      BY <1>4, <2>2
    <3>2. f[Skipped(t, at(j))] \in S
      BY <1>5, <3>1 DEF Searching
    <3>3. step[<<j, f[Skipped(t, at(j))]>>] = f[Skipped(t, at(j))]
      BY <3>2
    <3> HIDE DEF step, goes, next, at
    <3>. QED
      BY <2>1, <2>2, <3>1, <3>3
  <2>3. CASE ~Skips(t, at(j))
    <3>1. ~goes[j] /\ last[j] = Found(t, at(j))
      BY <2>3
    <3> HIDE DEF step, goes, next, last, at
    <3>. QED
      BY <2>1, <2>3, <3>1
  <2>. QED
    BY <2>2, <2>3
<1>7. ASSUME NEW j \in Nat, NEW g
      PROVE  (CASE at(j) > Len(t) -> "none"
                [] Pair(t, at(j), "-", "-") -> g[From(t, at(j), At(t, "n")) + 1]
                [] Pair(t, at(j), "/", "*") -> g[From(t, at(j), Closes(t)) + 2]
                [] OTHER -> IF t[at(j)] \in Words THEN t[at(j)] ELSE "none")
             = IF Skips(t, at(j)) THEN g[Skipped(t, at(j))] ELSE Found(t, at(j))
  <2>1. at(j) \in Nat
    BY FromFacts, PlacesFacts
  <2> HIDE DEF at
  <2>. QED
    BY <1>1, <2>1 DEF Skips, Skipped, Found, Pair
<1>8. f = [j \in Nat |->
             CASE at(j) > Len(t) -> "none"
               [] Pair(t, at(j), "-", "-") -> f[From(t, at(j), At(t, "n")) + 1]
               [] Pair(t, at(j), "/", "*") -> f[From(t, at(j), Closes(t)) + 2]
               [] OTHER -> IF t[at(j)] \in Words THEN t[at(j)] ELSE "none"]
  <2>1. f = [j \in Nat |-> f[j]]
    BY <1>5 DEF Searching
  <2> HIDE DEF at
  <2>. QED
    BY <1>6, <1>7, <2>1
<1>9. from = [j \in Nat |->
             CASE at(j) > Len(t) -> "none"
               [] Pair(t, at(j), "-", "-") -> from[From(t, at(j), At(t, "n")) + 1]
               [] Pair(t, at(j), "/", "*") -> from[From(t, at(j), Closes(t)) + 2]
               [] OTHER -> IF t[at(j)] \in Words THEN t[at(j)] ELSE "none"]
  BY <1>8
<1> HIDE DEF from, at
<1>10. ASSUME NEW j \in Nat
       PROVE  from[j] = IF Skips(t, at(j)) THEN from[Skipped(t, at(j))] ELSE Found(t, at(j))
  <2>1. from[j] =
          (CASE at(j) > Len(t) -> "none"
             [] Pair(t, at(j), "-", "-") -> from[From(t, at(j), At(t, "n")) + 1]
             [] Pair(t, at(j), "/", "*") -> from[From(t, at(j), Closes(t)) + 2]
             [] OTHER -> IF t[at(j)] \in Words THEN t[at(j)] ELSE "none")
    BY <1>9
  <2>. QED
    BY <1>7, <2>1
<1>. QED
  BY <1>2, <1>3, <1>10 DEF at

\* Nothing of a text is its first character that counts, from i on.
LeadsFrom(t, i, w) ==
    \E p \in i..Len(t) : t[p] = w /\ Counts(t, p) /\ \A j \in i..(p - 1) : ~Counts(t, j)

\* Where there is none of the places, the search may begin later.
LEMMA FromLater ==
    ASSUME NEW t, NEW places \in SUBSET Nat, NEW i \in Nat, NEW k \in Nat, i <= k,
           \A j \in places : ~(i <= j /\ j < k)
    PROVE  From(t, i, places) = From(t, k, places)
<1> DEFINE found(m) == {j \in places : j >= m}
<1>1. \A j \in places : j >= i <=> j >= k
  <2>1. \A j \in places : j \in Nat
    OBVIOUS
  <2>. QED
    BY <2>1
<1>2. found(i) = found(k)
  BY <1>1
<1>3. \A m : From(t, m, places) = IF found(m) = {} THEN Len(t) + 1
                                 ELSE CHOOSE j \in found(m) : \A x \in found(m) : j <= x
  BY DEF From
<1> HIDE DEF found
<1>. QED
  BY <1>2, <1>3

\* firstKeyword finds the first word of the text as SQLite reads it.
LEMMA KeywordReading ==
    ASSUME NEW t \in Seq(Chars), CommentsPlain(t), FeedsPlain(t), NEW w \in Words
    PROVE  \A i \in Nat :
             i >= 1 /\ (i <= Len(t) => Mode(t, i) = "code") =>
               (KeywordFrom(t, i) = w <=> LeadsFrom(t, i, w))
<1> DEFINE n == Len(t)
    Exact(i) == KeywordFrom(t, i) = w <=> LeadsFrom(t, i, w)
    T == {i \in Nat : i >= 1 /\ (i <= n => Mode(t, i) = "code") => Exact(i)}
<1>1. n \in Nat /\ w # "none"
  BY DEF Words
<1>2. ASSUME NEW i \in Nat, \A m \in Nat : m > i /\ i <= n => m \in T
      PROVE  i \in T
  <2> SUFFICES ASSUME i >= 1, i <= n => Mode(t, i) = "code" PROVE Exact(i)
    OBVIOUS
  <2> DEFINE k == From(t, i, Unskipped(t))
  <2>1. /\ k \in 1..(n + 1)
        /\ k # n + 1 => k >= i /\ k \in Unskipped(t)
        /\ \A m \in Unskipped(t) : m >= i => k <= m
    BY FromFacts, PlacesFacts
  <2>2. \A m \in 1..n : m \in Unskipped(t) <=> t[m] \notin Blanks \/ t[m] = "f"
    BY PlacesFacts
  <2>3. KeywordFrom(t, i) =
          IF Skips(t, k) THEN KeywordFrom(t, Skipped(t, k)) ELSE Found(t, k)
    BY KeywordStep
  <2>4. Skips(t, k) => k \in 1..n /\ i <= k /\ Skipped(t, k) \in Nat /\ Skipped(t, k) > k
    BY SkippedLater
  <2> HIDE DEF k
  <2>5. CASE k = n + 1
    <3>1. KeywordFrom(t, i) = "none"
      <4>1. ~Skips(t, k)
        BY <1>1, <2>5 DEF Skips, Pair
      <4>2. Found(t, k) = "none"
        BY <1>1, <2>5 DEF Found
      <4>. QED
        BY <2>3, <4>1, <4>2
    <3>2. ASSUME NEW p \in i..n PROVE ~Counts(t, p)
      <4>1. t[p] \in Blanks
        BY <1>1, <2>1, <2>2, <2>5
      <4>. QED
        BY <4>1 DEF Counts
    <3>. QED
      BY <1>1, <3>1, <3>2 DEF LeadsFrom
  <2>6. CASE k # n + 1
    <3>1. /\ k \in 1..n /\ k \in i..(n + 1) /\ i \in 1..(n + 1)
          /\ i <= n /\ k \in Nat /\ i <= k
          /\ t[k] \notin Blanks \/ t[k] = "f"
      BY <1>1, <2>1, <2>2, <2>6
    <3>2. \A j \in i..(k - 1) : j \in 1..n /\ t[j] \in Blanks
      BY <1>1, <2>1, <2>2, <3>1
    <3>3. \A j \in i..k : Mode(t, j) = "code"
      <4>1. \A j \in i..(k - 1) : NextMode(t, j, "code") = "code"
        BY <3>2 DEF NextMode, Pair, Blanks
      <4>. QED
        BY <3>1, <4>1, Stays
    <3>4. \A j \in i..(k - 1) : ~Counts(t, j)
      BY <3>2 DEF Counts
    <3>5. Mode(t, k) = "code"
      BY <3>1, <3>3
    <3>8. t[k] \notin Blanks
      BY <3>1, <3>5 DEF FeedsPlain
    <3>6. CASE Skips(t, k)
      <4> DEFINE m == Skipped(t, k)
      <4>1. m \in Nat /\ m > k
        BY <2>4, <3>6
      <4>2. /\ m <= n => Mode(t, m) = "code"
            /\ \A j \in k..n : j < m => ~Counts(t, j)
        <5>1. CASE Pair(t, k, "-", "-")
          <6> DEFINE e == From(t, k, At(t, "n"))
          <6>1. /\ e \in (k + 1)..(n + 1)
                /\ \A p \in (k + 1)..e : Mode(t, p) = "line"
                /\ e <= n => Mode(t, e + 1) = "code"
            BY <3>1, <3>5, <5>1, LineReading
          <6>2. m = e + 1
            BY <5>1 DEF Skipped
          <6>3. ~Counts(t, k)
            BY <5>1 DEF Counts
          <6> HIDE DEF e
          <6>4. \A j \in k..n : j < m => j = k \/ j \in (k + 1)..e
            BY <1>1, <3>1, <6>1, <6>2
          <6>5. m <= n => e <= n
            BY <1>1, <6>1, <6>2
          <6> HIDE DEF m
          <6>6. \A j \in (k + 1)..e : ~Counts(t, j)
            BY <6>1 DEF Counts
          <6>. QED
            BY <6>1, <6>2, <6>3, <6>4, <6>5, <6>6
        <5>2. CASE ~Pair(t, k, "-", "-")
          <6> DEFINE e == From(t, k + 2, Closes(t))
          <6>1. Pair(t, k, "/", "*")
            BY <3>6, <5>2 DEF Skips
          <6>2. /\ e \in (k + 2)..(n + 1)
                /\ Mode(t, k + 1) = "opening"
                /\ \A p \in (k + 2)..e : Mode(t, p) = "block"
                /\ e <= n => Mode(t, e + 1) = "closing" /\ Mode(t, e + 2) = "code"
            BY <3>1, <3>5, <6>1, BlockReading
          <6>3. From(t, k, Closes(t)) = e
            <7>1. \A j \in Closes(t) : j \in Nat /\ Pair(t, j, "*", "/")
              BY <1>1, PlacesFacts
            <7>2. ~Pair(t, k, "*", "/")
              BY <6>1 DEF Pair
            <7>3. ~Pair(t, k + 1, "*", "/")
              BY <3>1, <6>1 DEF CommentsPlain
            <7>4. \A j \in Closes(t) : ~(k <= j /\ j < k + 2)
              BY <3>1, <7>1, <7>2, <7>3
            <7>5. k + 2 \in Nat /\ k <= k + 2 /\ Closes(t) \in SUBSET Nat
              BY <3>1, <7>1
            <7>. QED
              BY <3>1, <7>4, <7>5, FromLater
          <6>4. m = e + 2
            BY <5>2, <6>3 DEF Skipped
          <6>5. ~Counts(t, k) /\ ~Counts(t, k + 1)
            BY <6>1, <6>2 DEF Counts
          <6> HIDE DEF e
          <6>6. \A j \in k..n :
                  j < m => \/ j = k \/ j = k + 1 \/ j \in (k + 2)..e
                           \/ (e <= n /\ j = e + 1)
            BY <1>1, <3>1, <6>2, <6>4
          <6>7. m <= n => e <= n
            BY <1>1, <6>2, <6>4
          <6> HIDE DEF m
          <6>8. /\ \A j \in (k + 2)..e : ~Counts(t, j)
                /\ e <= n => ~Counts(t, e + 1)
            BY <6>2 DEF Counts
          <6>. QED
            BY <6>2, <6>4, <6>5, <6>6, <6>7, <6>8
        <5>. QED
          BY <5>1, <5>2
      <4>3. KeywordFrom(t, i) = KeywordFrom(t, m)
        BY <2>3, <3>6
      <4> HIDE DEF m
      <4>4. m \in T
        BY <1>2, <3>1, <4>1
      <4>5. Exact(m)
        BY <3>1, <4>1, <4>2, <4>4
      <4>6. \A j \in i..n : j < m => ~Counts(t, j)
        <5>1. \A j \in i..n : j < m => j \in i..(k - 1) \/ (j \in k..n /\ j < m)
          BY <1>1, <3>1
        <5>. QED
          BY <3>4, <4>2, <5>1
      <4>7. LeadsFrom(t, i, w) <=> LeadsFrom(t, m, w)
        <5>1. ASSUME NEW p \in i..n, t[p] = w, Counts(t, p),
                     \A j \in i..(p - 1) : ~Counts(t, j)
              PROVE  LeadsFrom(t, m, w)
          <6>1. p \in m..n
            BY <1>1, <3>1, <4>1, <4>6, <5>1
          <6>2. \A j \in m..(p - 1) : j \in i..(p - 1)
            BY <1>1, <3>1, <4>1
          <6>. QED
            BY <5>1, <6>1, <6>2 DEF LeadsFrom
        <5>2. ASSUME NEW p \in m..n, t[p] = w, Counts(t, p),
                     \A j \in m..(p - 1) : ~Counts(t, j)
              PROVE  LeadsFrom(t, i, w)
          <6>1. p \in i..n
            BY <1>1, <3>1, <4>1
          <6>2. \A j \in i..(p - 1) : j \in m..(p - 1) \/ (j \in i..n /\ j < m)
            BY <1>1, <3>1, <4>1
          <6>. QED
            BY <4>6, <5>2, <6>1, <6>2 DEF LeadsFrom
        <5>. QED
          BY <5>1, <5>2 DEF LeadsFrom
      <4>. QED
        BY <4>3, <4>5, <4>7
    <3>7. CASE ~Skips(t, k)
      <4>1. KeywordFrom(t, i) = Found(t, k)
        BY <2>3, <3>7
      <4>2. Counts(t, k)
        BY <3>5, <3>7, <3>8 DEF Counts, Skips
      <4>3. Found(t, k) = w <=> t[k] = w
        BY <1>1, <3>1 DEF Found
      <4>4. LeadsFrom(t, i, w) => t[k] = w
        <5>1. ASSUME NEW p \in i..n, t[p] = w, Counts(t, p),
                     \A j \in i..(p - 1) : ~Counts(t, j)
              PROVE  p = k
          <6>1. ~(p \in i..(k - 1))
            BY <3>4, <5>1
          <6>2. ~(k \in i..(p - 1))
            BY <4>2, <5>1
          <6>. QED
            BY <1>1, <3>1, <6>1, <6>2
        <5>. QED
          BY <5>1 DEF LeadsFrom
      <4>5. t[k] = w => LeadsFrom(t, i, w)
        BY <1>1, <3>1, <3>4, <4>2 DEF LeadsFrom
      <4>. QED
        BY <4>1, <4>3, <4>4, <4>5
    <3>. QED
      BY <3>6, <3>7
  <2>. QED
    BY <2>5, <2>6
<1>3. Nat \subseteq T
  <2> HIDE DEF T
  <2>. QED
    BY <1>1, <1>2, Downward
<1>. QED
  BY <1>3

\* So the first keyword is the word that leads the text.
LEMMA FirstKeywordExact ==
    ASSUME NEW t \in Seq(Chars), CommentsPlain(t), FeedsPlain(t), NEW w \in Words
    PROVE  FirstKeyword(t) = w <=> Leads(t, w)
<1>1. KeywordFrom(t, 1) = w <=> LeadsFrom(t, 1, w)
  BY ModeSteps, KeywordReading
<1>2. LeadsFrom(t, 1, w) <=> Leads(t, w)
  BY DEF LeadsFrom, Leads
<1>. QED
  BY <1>1, <1>2, KeywordStep

-----------------------------------------------------------------------------
(* A part of a text, read on its own.                                      *)

\* u is the text t from a to b, where a comment neither begins nor ends at b.
IsPart(u, t, a, b) ==
    /\ u = SubSeq(t, a, b)
    /\ t \in Seq(Chars) /\ a \in 1..(Len(t) + 1) /\ b \in (a - 1)..Len(t)
    /\ a <= b => /\ ~Pair(t, b, "-", "-")
                 /\ ~Pair(t, b, "/", "*")
                 /\ ~Pair(t, b, "*", "/")

\* Its characters and their places.
LEMMA PartText ==
    ASSUME NEW u, NEW t, NEW a, NEW b, IsPart(u, t, a, b)
    PROVE  /\ u \in Seq(Chars) /\ t \in Seq(Chars)
           /\ Len(u) = b - a + 1 /\ Len(u) \in Nat
           /\ a \in Nat /\ b \in Nat /\ Len(t) \in Nat /\ a >= 1 /\ b <= Len(t)
           /\ \A i \in 1..Len(u) : u[i] = t[a + i - 1] /\ a + i - 1 \in a..b
                                   /\ a + i - 1 \in 1..Len(t)
<1>1. a \in 1..(Len(t) + 1) /\ b \in 0..Len(t) /\ t \in Seq(Chars) /\ b \in (a - 1)..Len(t)
  BY DEF IsPart
<1>2. Len(t) \in Nat
  BY <1>1
<1>3. u \in Seq(Chars) /\ Len(u) = (IF a <= b THEN b - a + 1 ELSE 0)
      /\ \A i \in 1..Len(u) : u[i] = t[a + i - 1] /\ a + i - 1 \in a..b
  BY <1>1, SubText DEF IsPart
<1>4. Len(u) = b - a + 1 /\ Len(u) \in Nat
  BY <1>1, <1>2, <1>3
<1>5. \A i \in a..b : i \in 1..Len(t)
  BY <1>1, <1>2
<1>. QED
  BY <1>1, <1>2, <1>3, <1>4, <1>5

\* The beginnings and the ends of comments are the same.
LEMMA PairShift ==
    ASSUME NEW u, NEW t, NEW a, NEW b, IsPart(u, t, a, b), NEW i \in 1..Len(u)
    PROVE  /\ Pair(u, i, "-", "-") <=> Pair(t, a + i - 1, "-", "-")
           /\ Pair(u, i, "/", "*") <=> Pair(t, a + i - 1, "/", "*")
           /\ Pair(u, i, "*", "/") <=> Pair(t, a + i - 1, "*", "/")
<1> DEFINE n == Len(u)
<1>1. /\ n = b - a + 1 /\ n \in Nat
      /\ a \in Nat /\ b \in Nat /\ Len(t) \in Nat /\ b <= Len(t)
      /\ \A j \in 1..n : u[j] = t[a + j - 1]
  BY PartText
<1>2. CASE i < n
  <2>1. i + 1 \in 1..n /\ i \in 1..n /\ a + (i + 1) - 1 = (a + i - 1) + 1
        /\ a + i - 1 < Len(t)
    BY <1>1, <1>2
  <2>2. u[i] = t[a + i - 1] /\ u[i + 1] = t[(a + i - 1) + 1]
    BY <1>1, <2>1
  <2>. QED
    BY <1>2, <2>1, <2>2 DEF Pair
<1>3. CASE i = n
  <2>1. a + i - 1 = b
    BY <1>1, <1>3
  <2>2. ~Pair(u, i, "-", "-") /\ ~Pair(u, i, "/", "*") /\ ~Pair(u, i, "*", "/")
    BY <1>1, <1>3 DEF Pair
  <2>. QED
    BY <2>1, <2>2 DEF IsPart
<1>. QED
  BY <1>1, <1>2, <1>3

\* From the beginning of text on, so is what the characters are part of.
LEMMA ModeShift ==
    ASSUME NEW u, NEW t, NEW a, NEW b, IsPart(u, t, a, b), Mode(t, a) = "code"
    PROVE  \A i \in 1..(Len(u) + 1) :
             Mode(u, i) = Mode(t, a + i - 1)
<1> DEFINE n == Len(u)
    T == {d \in 0..n : Mode(u, d + 1) = Mode(t, a + d)}
<1>1. /\ u \in Seq(Chars) /\ n \in Nat /\ a \in Nat
      /\ \A j \in 1..n : u[j] = t[a + j - 1] /\ a + j - 1 \in 1..Len(t)
  BY PartText
<1>2. t \in Seq(Chars)
  BY DEF IsPart
<1>3. 0 \in T
  <2>1. Mode(u, 1) = "code"
    BY <1>1, ModeSteps
  <2>. QED
    BY <1>1, <2>1
<1>4. ASSUME NEW d \in 1..n, d - 1 \in T PROVE d \in T
  <2>1. Mode(u, d) = Mode(t, a + d - 1)
    <3>1. (d - 1) + 1 = d /\ a + (d - 1) = a + d - 1
      BY <1>1
    <3>. QED
      BY <1>4, <3>1
  <2>2. Mode(u, d + 1) = NextMode(u, d, Mode(u, d))
    BY <1>1, ModeSteps
  <2>3. Mode(t, (a + d - 1) + 1) = NextMode(t, a + d - 1, Mode(t, a + d - 1))
    BY <1>1, <1>2, ModeSteps
  <2>4. NextMode(u, d, Mode(u, d)) = NextMode(t, a + d - 1, Mode(t, a + d - 1))
    <3>1. u[d] = t[a + d - 1]
      BY <1>1
    <3>2. /\ Pair(u, d, "-", "-") <=> Pair(t, a + d - 1, "-", "-")
          /\ Pair(u, d, "/", "*") <=> Pair(t, a + d - 1, "/", "*")
          /\ Pair(u, d, "*", "/") <=> Pair(t, a + d - 1, "*", "/")
      BY PairShift
    <3>. QED
      BY <2>1, <3>1, <3>2 DEF NextMode
  <2>5. (a + d - 1) + 1 = a + d /\ d \in 0..n
    BY <1>1
  <2>. QED
    BY <2>2, <2>3, <2>4, <2>5
<1>5. 0..n \subseteq T
  <2> HIDE DEF T
  <2>. QED
    BY <1>1, <1>3, <1>4, Upward
<1>6. ASSUME NEW i \in 1..(n + 1) PROVE Mode(u, i) = Mode(t, a + i - 1)
  <2>1. i - 1 \in 0..n /\ (i - 1) + 1 = i /\ a + (i - 1) = a + i - 1
    BY <1>1
  <2>2. i - 1 \in T
    <3> HIDE DEF T
    <3>. QED
      BY <1>5, <2>1
  <2>. QED
    BY <2>1, <2>2
<1>. QED
  BY <1>6

\* And what counts.
LEMMA CountsShift ==
    ASSUME NEW u, NEW t, NEW a, NEW b, IsPart(u, t, a, b), Mode(t, a) = "code",
           NEW i \in 1..Len(u)
    PROVE  Counts(u, i) <=> Counts(t, a + i - 1)
<1>1. Len(u) \in Nat /\ u[i] = t[a + i - 1]
  BY PartText
<1>2. Mode(u, i) = Mode(t, a + i - 1)
  BY <1>1, ModeShift
<1>3. /\ Pair(u, i, "-", "-") <=> Pair(t, a + i - 1, "-", "-")
      /\ Pair(u, i, "/", "*") <=> Pair(t, a + i - 1, "/", "*")
  BY PairShift
<1>. QED
  BY <1>1, <1>2, <1>3 DEF Counts

\* From the beginning of a statement on, so are the states of sqlite3_complete.
LEMMA BodyShift ==
    ASSUME NEW u, NEW t, NEW a, NEW b, IsPart(u, t, a, b),
           Mode(t, a) = "code", Body(t, a) = "start"
    PROVE  \A i \in 1..(Len(u) + 1) :
             Body(u, i) = Body(t, a + i - 1)
<1> DEFINE n == Len(u)
    T == {d \in 0..n : Body(u, d + 1) = Body(t, a + d)}
<1>1. /\ u \in Seq(Chars) /\ n \in Nat /\ a \in Nat
      /\ \A j \in 1..n : u[j] = t[a + j - 1] /\ a + j - 1 \in 1..Len(t)
  BY PartText
<1>2. t \in Seq(Chars)
  BY DEF IsPart
<1>3. 0 \in T
  <2>1. Body(u, 1) = "start"
    BY <1>1, BodySteps
  <2>. QED
    BY <1>1, <2>1
<1>4. ASSUME NEW d \in 1..n, d - 1 \in T PROVE d \in T
  <2>1. Body(u, d) = Body(t, a + d - 1)
    <3>1. (d - 1) + 1 = d /\ a + (d - 1) = a + d - 1
      BY <1>1
    <3>. QED
      BY <1>4, <3>1
  <2>2. Body(u, d + 1) = NextBody(u, d, Body(u, d))
    BY <1>1, BodySteps
  <2>3. Body(t, (a + d - 1) + 1) = NextBody(t, a + d - 1, Body(t, a + d - 1))
    BY <1>1, <1>2, BodySteps
  <2>4. NextBody(u, d, Body(u, d)) = NextBody(t, a + d - 1, Body(t, a + d - 1))
    <3>1. u[d] = t[a + d - 1]
      BY <1>1
    <3>2. Counts(u, d) <=> Counts(t, a + d - 1)
      BY CountsShift
    <3>3. Body(u, d) \in Bodies
      <4>1. d \in 1..(n + 1)
        BY <1>1
      <4>. QED
        BY <1>1, <4>1, BodySteps
    <3>. QED
      BY <2>1, <3>1, <3>2, <3>3 DEF NextBody, Bodies
  <2>5. (a + d - 1) + 1 = a + d /\ d \in 0..n
    BY <1>1
  <2>. QED
    BY <2>2, <2>3, <2>4, <2>5
<1>5. 0..n \subseteq T
  <2> HIDE DEF T
  <2>. QED
    BY <1>1, <1>3, <1>4, Upward
<1>6. ASSUME NEW i \in 1..(n + 1) PROVE Body(u, i) = Body(t, a + i - 1)
  <2>1. i - 1 \in 0..n /\ (i - 1) + 1 = i /\ a + (i - 1) = a + i - 1
    BY <1>1
  <2>2. i - 1 \in T
    <3> HIDE DEF T
    <3>. QED
      BY <1>5, <2>1
  <2>. QED
    BY <2>1, <2>2
<1>. QED
  BY <1>6

\* The first word of a part.
LeadsPart(t, a, b, w) ==
    \E p \in a..b : t[p] = w /\ Counts(t, p) /\ \A j \in a..(p - 1) : ~Counts(t, j)

\* It is what the part leads with, read on its own.
LEMMA LeadsShift ==
    ASSUME NEW u, NEW t, NEW a, NEW b, IsPart(u, t, a, b), Mode(t, a) = "code", NEW w
    PROVE  Leads(u, w) <=> LeadsPart(t, a, b, w)
<1> DEFINE n == Len(u)
<1>1. /\ u \in Seq(Chars) /\ n = b - a + 1 /\ n \in Nat /\ a \in Nat /\ b \in Nat
      /\ \A j \in 1..n : u[j] = t[a + j - 1] /\ a + j - 1 \in a..b
  BY PartText
<1>2. \A j \in 1..n : Counts(u, j) <=> Counts(t, a + j - 1)
  BY CountsShift
<1>3. DOMAIN u = 1..n
  BY <1>1
<1>4. ASSUME NEW i \in 1..n, u[i] = w, Counts(u, i), \A j \in 1..(i - 1) : ~Counts(u, j)
      PROVE  LeadsPart(t, a, b, w)
  <2> DEFINE p == a + i - 1
  <2>1. ASSUME NEW j \in a..(p - 1) PROVE ~Counts(t, j)
    <3>1. j - a + 1 \in 1..(i - 1) /\ j - a + 1 \in 1..n /\ a + (j - a + 1) - 1 = j
      BY <1>1
    <3>. QED
      BY <1>2, <1>4, <3>1
  <2>2. p \in a..b /\ t[p] = w /\ Counts(t, p)
    BY <1>1, <1>2, <1>4
  <2> HIDE DEF p
  <2>. QED
    BY <2>1, <2>2 DEF LeadsPart
<1>5. ASSUME NEW p \in a..b, t[p] = w, Counts(t, p), \A j \in a..(p - 1) : ~Counts(t, j)
      PROVE  Leads(u, w)
  <2> DEFINE i == p - a + 1
  <2>1. i \in 1..n /\ a + i - 1 = p
    BY <1>1
  <2>2. ASSUME NEW j \in 1..(i - 1) PROVE ~Counts(u, j)
    <3>1. j \in 1..n /\ a + j - 1 \in a..(p - 1)
      BY <1>1, <2>1
    <3>. QED
      BY <1>2, <1>5, <3>1
  <2> HIDE DEF i
  <2>3. u[i] = w /\ Counts(u, i)
    BY <1>1, <1>2, <1>5, <2>1
  <2>. QED
    BY <1>3, <2>1, <2>2, <2>3 DEF Leads
<1>6. Leads(u, w) => LeadsPart(t, a, b, w)
  BY <1>3, <1>4 DEF Leads
<1>7. LeadsPart(t, a, b, w) => Leads(u, w)
  BY <1>5 DEF LeadsPart
<1>. QED
  BY <1>6, <1>7

\* While nothing counts, the state of sqlite3_complete stays the same.
LEMMA BodyStays ==
    ASSUME NEW t \in Seq(Chars), NEW i \in 1..(Len(t) + 1), NEW k \in i..(Len(t) + 1),
           \A j \in i..(k - 1) : ~Counts(t, j)
    PROVE  \A j \in i..k : Body(t, j) = Body(t, i)
<1>1. Len(t) \in Nat /\ k - i \in Nat
  OBVIOUS
<1> DEFINE T == {d \in 0..(k - i) : Body(t, i + d) = Body(t, i)}
<1>2. 0 \in T
  BY <1>1
<1>3. ASSUME NEW d \in 1..(k - i), d - 1 \in T PROVE d \in T
  <2>1. i + d - 1 \in i..(k - 1) /\ i + d - 1 \in 1..Len(t)
        /\ i + (d - 1) = i + d - 1 /\ (i + d - 1) + 1 = i + d
    BY <1>1
  <2>2. Body(t, i + d - 1) = Body(t, i)
    BY <1>3, <2>1
  <2>3. Body(t, i + d) = NextBody(t, i + d - 1, Body(t, i + d - 1))
    <3>1. Body(t, (i + d - 1) + 1) = NextBody(t, i + d - 1, Body(t, i + d - 1))
      BY <2>1, BodySteps
    <3>. QED
      BY <2>1, <3>1
  <2>4. ~Counts(t, i + d - 1)
    BY <2>1
  <2>. QED
    BY <2>2, <2>3, <2>4 DEF NextBody
<1>4. 0..(k - i) \subseteq T
  <2> HIDE DEF T
  <2>. QED
    BY <1>1, <1>2, <1>3, Upward
<1>5. ASSUME NEW j \in i..k PROVE Body(t, j) = Body(t, i)
  <2>1. j - i \in 0..(k - i) /\ i + (j - i) = j
    BY <1>1
  <2>2. j - i \in T
    BY <1>4, <2>1
  <2>. QED
    BY <2>1, <2>2
<1>. QED
  BY <1>5

\* White space is text, and it does not count.
LEMMA BlankReading ==
    ASSUME NEW t \in Seq(Chars), NEW i \in 1..(Len(t) + 1), NEW k \in i..(Len(t) + 1),
           Mode(t, i) = "code", \A j \in i..(k - 1) : t[j] \in Blanks
    PROVE  /\ \A j \in i..k : Mode(t, j) = "code" /\ Body(t, j) = Body(t, i)
           /\ \A j \in i..(k - 1) : ~Counts(t, j)
<1>1. \A j \in i..(k - 1) : NextMode(t, j, "code") = "code"
  BY DEF NextMode, Pair, Blanks
<1>2. \A j \in i..k : Mode(t, j) = "code"
  BY <1>1, Stays
<1>3. \A j \in i..(k - 1) : ~Counts(t, j)
  BY DEF Counts
<1>4. \A j \in i..k : Body(t, j) = Body(t, i)
  BY <1>3, BodyStays
<1>. QED
  BY <1>2, <1>3, <1>4

\* The text from a to b is t without the white space around it.
Trims(t, a, b) ==
    /\ a \in Solid(t) /\ b \in Solid(t) /\ a <= b
    /\ \A j \in Solid(t) : a <= j /\ j <= b
    /\ IsPart(TrimSpace(t), t, a, b)

\* TrimSpace leaves nothing of white space, and a part of what is more.
LEMMA TrimFacts ==
    ASSUME NEW t \in Seq(Chars)
    PROVE  /\ Solid(t) = {} <=> TrimSpace(t) = <<>>
           /\ Solid(t) # {} => \E a, b \in 1..Len(t) : Trims(t, a, b)
           /\ TrimSpace(t) \in Seq(Chars)
<1> DEFINE n == Len(t)
    a == CHOOSE i \in Solid(t) : \A k \in Solid(t) : i <= k
    b == CHOOSE i \in Solid(t) : \A k \in Solid(t) : i >= k
<1>1. n \in Nat /\ \A j : j \in Solid(t) <=> j \in 1..n /\ t[j] \notin Blanks
  BY PlacesFacts
<1>2. CASE Solid(t) = {}
  <2>1. TrimSpace(t) = <<>>
    BY <1>2 DEF TrimSpace
  <2>2. <<>> \in Seq(Chars)
    OBVIOUS
  <2>. QED
    BY <1>2, <2>1, <2>2
<1>3. CASE Solid(t) # {}
  <2>1. Solid(t) \in SUBSET Nat /\ Solid(t) \in SUBSET (0..n)
    BY <1>1
  <2>2. a \in Solid(t) /\ \A k \in Solid(t) : a <= k
    BY <1>3, <2>1, Least
  <2>3. b \in Solid(t) /\ \A k \in Solid(t) : b >= k
    BY <1>1, <1>3, <2>1, Greatest
  <2>4. TrimSpace(t) = SubSeq(t, a, b)
    BY <1>3 DEF TrimSpace
  <2> HIDE DEF a, b
  <2>5. a \in 1..n /\ b \in 1..n /\ a <= b /\ t[b] \notin Blanks
        /\ a \in 1..(n + 1) /\ b \in (a - 1)..n
    BY <1>1, <2>1, <2>2, <2>3
  <2>6. ~Pair(t, b, "-", "-") /\ ~Pair(t, b, "/", "*") /\ ~Pair(t, b, "*", "/")
    <3>1. b < n => t[b + 1] \in Blanks
      <4>1. b + 1 \notin Solid(t)
        BY <1>1, <2>3, <2>5
      <4>. QED
        BY <1>1, <2>5, <4>1
    <3>. QED
      BY <3>1 DEF Pair, Blanks
  <2>7. IsPart(TrimSpace(t), t, a, b)
    BY <2>4, <2>5, <2>6 DEF IsPart
  <2>8. \A j \in Solid(t) : a <= j /\ j <= b
    BY <1>1, <2>2, <2>3, <2>5
  <2>9. Trims(t, a, b)
    BY <2>2, <2>3, <2>5, <2>7, <2>8 DEF Trims
  <2>10. TrimSpace(t) \in Seq(Chars) /\ Len(TrimSpace(t)) = b - a + 1
    BY <2>7, PartText
  <2>11. TrimSpace(t) # <<>>
    <3>1. Len(TrimSpace(t)) # 0
      BY <2>5, <2>10
    <3>. QED
      BY <3>1
  <2>. QED
    BY <1>3, <2>5, <2>9, <2>10, <2>11
<1>. QED
  BY <1>2, <1>3

\* What lies around the part.
LEMMA TrimReading ==
    ASSUME NEW t \in Seq(Chars), NEW a, NEW b, Trims(t, a, b)
    PROVE  /\ a \in 1..Len(t) /\ b \in 1..Len(t) /\ a <= b
           /\ Mode(t, a) = "code" /\ Body(t, a) = "start"
           /\ \A j \in 1..(a - 1) : t[j] \in Blanks /\ ~Counts(t, j)
           /\ \A j \in (b + 1)..Len(t) : t[j] \in Blanks /\ ~Counts(t, j)
<1> DEFINE n == Len(t)
<1>1. n \in Nat /\ \A j : j \in Solid(t) <=> j \in 1..n /\ t[j] \notin Blanks
  BY PlacesFacts
<1>2. a \in 1..n /\ b \in 1..n /\ a <= b /\ \A j \in Solid(t) : a <= j /\ j <= b
  BY <1>1 DEF Trims
<1>3. \A j \in 1..(a - 1) : t[j] \in Blanks
  BY <1>1, <1>2
<1>4. \A j \in (b + 1)..n : t[j] \in Blanks /\ ~Counts(t, j)
  <2>1. \A j \in (b + 1)..n : t[j] \in Blanks
    BY <1>1, <1>2
  <2>. QED
    BY <2>1 DEF Counts
<1>5. Mode(t, 1) = "code" /\ Body(t, 1) = "start"
  BY ModeSteps, BodySteps
<1>6. 1 \in 1..(n + 1) /\ a \in 1..(n + 1)
  BY <1>1, <1>2
<1>7. /\ \A j \in 1..a : Mode(t, j) = "code" /\ Body(t, j) = Body(t, 1)
      /\ \A j \in 1..(a - 1) : ~Counts(t, j)
  BY <1>3, <1>5, <1>6, BlankReading
<1>. QED
  BY <1>2, <1>3, <1>4, <1>5, <1>7

\* A part of a text without /*/ is one.
LEMMA PartPlain ==
    ASSUME NEW u, NEW t, NEW a, NEW b, IsPart(u, t, a, b), CommentsPlain(t)
    PROVE  CommentsPlain(u)
<1>1. /\ u \in Seq(Chars) /\ t \in Seq(Chars) /\ Len(u) \in Nat /\ a \in Nat
      /\ \A i \in 1..Len(u) : a + i - 1 \in 1..Len(t)
  BY PartText
<1>2. DOMAIN u = 1..Len(u) /\ DOMAIN t = 1..Len(t)
  BY <1>1
<1>3. SUFFICES ASSUME NEW i \in 1..Len(u), Pair(u, i, "/", "*"), Pair(u, i + 1, "*", "/")
               PROVE  FALSE
  BY <1>2 DEF CommentsPlain
<1>4. i + 1 \in 1..Len(u) /\ a + (i + 1) - 1 = (a + i - 1) + 1
  BY <1>1, <1>3 DEF Pair
<1>5. Pair(t, a + i - 1, "/", "*") /\ Pair(t, (a + i - 1) + 1, "*", "/")
  BY <1>3, <1>4, PairShift
<1>. QED
  BY <1>1, <1>2, <1>5 DEF CommentsPlain

\* A part of a text without form feeds between tokens is one, if it begins
\* between tokens.
LEMMA PartFeeds ==
    ASSUME NEW u, NEW t, NEW a, NEW b, IsPart(u, t, a, b), Mode(t, a) = "code",
           FeedsPlain(t)
    PROVE  FeedsPlain(u)
<1>1. /\ u \in Seq(Chars) /\ t \in Seq(Chars) /\ Len(u) \in Nat
      /\ \A i \in 1..Len(u) : u[i] = t[a + i - 1] /\ a + i - 1 \in 1..Len(t)
  BY PartText
<1>2. DOMAIN u = 1..Len(u) /\ DOMAIN t = 1..Len(t)
  BY <1>1
<1>3. \A i \in 1..Len(u) : Mode(u, i) = Mode(t, a + i - 1)
  <2>1. \A i \in 1..(Len(u) + 1) : Mode(u, i) = Mode(t, a + i - 1)
    BY ModeShift
  <2>. QED
    BY <1>1, <2>1
<1>. QED
  BY <1>1, <1>2, <1>3 DEF FeedsPlain

\* looksLikeRowReturning, of the statement without the white space around it.
LEMMA QueryExact ==
    ASSUME NEW t \in Seq(Chars), TrimSpace(t) # <<>>, NamesPlain(t), CommentsPlain(t),
           FeedsPlain(t)
    PROVE  LooksLikeRowReturning(TrimSpace(t)) <=>
             \/ Leads(t, "S")
             \/ Leads(t, "W") /\ \E i \in DOMAIN t : Counts(t, i) /\ ReturningAt(t, i)
<1>1. PICK a, b \in 1..Len(t) : Trims(t, a, b)
  BY TrimFacts
<1> DEFINE u == TrimSpace(t)
    n == Len(u)
<1> HIDE DEF u
<1>2. IsPart(u, t, a, b)
  BY <1>1 DEF Trims, u
<1>3. /\ a \in 1..Len(t) /\ b \in 1..Len(t) /\ a <= b
      /\ Mode(t, a) = "code"
      /\ \A j \in 1..(a - 1) : t[j] \in Blanks /\ ~Counts(t, j)
      /\ \A j \in (b + 1)..Len(t) : t[j] \in Blanks /\ ~Counts(t, j)
  BY <1>1, TrimReading
<1>4. /\ u \in Seq(Chars) /\ n = b - a + 1 /\ n \in Nat /\ Len(t) \in Nat
      /\ \A i \in 1..n :
           u[i] = t[a + i - 1] /\ a + i - 1 \in a..b /\ a + i - 1 \in 1..Len(t)
  <2>1. /\ u \in Seq(Chars) /\ Len(u) = b - a + 1 /\ Len(u) \in Nat /\ Len(t) \in Nat
        /\ \A i \in 1..Len(u) :
             u[i] = t[a + i - 1] /\ a + i - 1 \in a..b /\ a + i - 1 \in 1..Len(t)
    BY <1>2, PartText
  <2>. QED
    BY <2>1
<1>5. \A i \in 1..n : Mode(u, i) = Mode(t, a + i - 1)
  <2>1. \A i \in 1..(n + 1) : Mode(u, i) = Mode(t, a + i - 1)
    BY <1>2, <1>3, ModeShift
  <2>. QED
    BY <1>4, <2>1
<1>6. \A i \in 1..n : Counts(u, i) <=> Counts(t, a + i - 1)
  BY <1>2, <1>3, CountsShift
<1>7. DOMAIN u = 1..n /\ DOMAIN t = 1..Len(t)
  BY <1>4
<1>8. NamesPlain(u)
  BY <1>4, <1>5, <1>7 DEF NamesPlain
<1>9. CommentsPlain(u) /\ FeedsPlain(u)
  BY <1>2, <1>3, PartPlain, PartFeeds
<1>10. ASSUME NEW w \in Words PROVE FirstKeyword(u) = w <=> Leads(t, w)
  <2>1. FirstKeyword(u) = w <=> LeadsPart(t, a, b, w)
    BY <1>2, <1>3, <1>4, <1>9, FirstKeywordExact, LeadsShift
  <2>2. ASSUME LeadsPart(t, a, b, w) PROVE Leads(t, w)
    <3>1. PICK p \in a..b : t[p] = w /\ Counts(t, p) /\ \A j \in a..(p - 1) : ~Counts(t, j)
      BY <2>2 DEF LeadsPart
    <3>2. p \in 1..Len(t) /\ \A j \in 1..(p - 1) : j \in 1..(a - 1) \/ j \in a..(p - 1)
      BY <1>3, <1>4
    <3>. QED
      BY <1>3, <1>7, <3>1, <3>2 DEF Leads
  <2>3. ASSUME Leads(t, w) PROVE LeadsPart(t, a, b, w)
    <3>1. PICK p \in 1..Len(t) :
            t[p] = w /\ Counts(t, p) /\ \A j \in 1..(p - 1) : ~Counts(t, j)
      BY <1>7, <2>3 DEF Leads
    <3>2. p \in a..b /\ \A j \in a..(p - 1) : j \in 1..(p - 1)
      BY <1>3, <1>4, <3>1
    <3>. QED
      BY <3>1, <3>2 DEF LeadsPart
  <2>. QED
    BY <2>1, <2>2, <2>3
<1>11. \A i \in 1..n : ReturningAt(u, i) <=> ReturningAt(t, a + i - 1)
  <2> SUFFICES ASSUME NEW i \in 1..n PROVE ReturningAt(u, i) <=> ReturningAt(t, a + i - 1)
    OBVIOUS
  <2> DEFINE p == a + i - 1
  <2>1. p \in 1..Len(t) /\ p \in a..b /\ u[i] = t[p]
    BY <1>4
  <2>2. (i > 1 => u[i - 1] \notin Words) <=> (p > 1 => t[p - 1] \notin Words)
    <3>1. CASE i > 1
      <4>1. i - 1 \in 1..n /\ a + (i - 1) - 1 = p - 1 /\ p > 1
        BY <1>3, <1>4, <3>1
      <4>. QED
        BY <1>4, <3>1, <4>1
    <3>2. CASE i = 1
      <4>1. p > 1 => t[p - 1] \in Blanks
        BY <1>3, <1>4, <3>2
      <4>2. p > 1 => t[p - 1] \notin Words
        BY <4>1 DEF Blanks, Words
      <4>. QED
        BY <3>2, <4>2
    <3>. QED
      BY <3>1, <3>2
  <2>3. (i < n => u[i + 1] \notin Words) <=> (p < Len(t) => t[p + 1] \notin Words)
    <3>1. CASE i < n
      <4>1. i + 1 \in 1..n /\ a + (i + 1) - 1 = p + 1 /\ p < Len(t)
        BY <1>3, <1>4, <3>1
      <4>2. u[i + 1] = t[p + 1]
        BY <1>4, <4>1
      <4> HIDE DEF p
      <4>. QED
        BY <3>1, <4>1, <4>2
    <3>2. CASE i = n
      <4>1. p = b
        BY <1>3, <1>4, <3>2
      <4>2. p < Len(t) => t[p + 1] \in Blanks
        BY <1>3, <1>4, <4>1
      <4>3. p < Len(t) => t[p + 1] \notin Words
        BY <4>2 DEF Blanks, Words
      <4>4. ~(i < n)
        BY <1>4, <3>2
      <4> HIDE DEF p
      <4>. QED
        BY <4>3, <4>4
    <3>. QED
      BY <1>4, <3>1, <3>2
  <2> HIDE DEF p
  <2>4. ReturningAt(u, i) <=> ReturningAt(t, p)
    BY <2>1, <2>2, <2>3 DEF ReturningAt
  <2>. QED
    BY <2>4 DEF p
<1>12. HasReturningClause(u) <=> \E i \in 1..n : Counts(u, i) /\ ReturningAt(u, i)
  <2>1. /\ Stops(u) \subseteq 1..n
        /\ \A p \in 1..n : u[p] \notin {"q", "n"} =>
             (p \in Stops(u) <=> Mode(u, p) \in {"code", "bracket", "backquote"})
    BY <1>4, <1>8, StopsExact
  <2>2. ASSUME NEW i \in 1..n, ReturningAt(u, i)
        PROVE  i \in Stops(u) <=> Counts(u, i)
    <3>1. u[i] = "R"
      BY <2>2 DEF ReturningAt
    <3>2. Mode(u, i) \notin {"bracket", "backquote"}
      BY <1>7, <1>8, <3>1 DEF NamesPlain, Unscanned
    <3>. QED
      BY <2>1, <3>1, <3>2 DEF Counts, Pair, Blanks
  <2>. QED
    BY <2>1, <2>2 DEF HasReturningClause
<1>13. (\E i \in 1..n : Counts(u, i) /\ ReturningAt(u, i))
         <=> \E p \in 1..Len(t) : Counts(t, p) /\ ReturningAt(t, p)
  <2>1. ASSUME NEW p \in 1..Len(t), Counts(t, p), ReturningAt(t, p)
        PROVE  \E i \in 1..n : Counts(u, i) /\ ReturningAt(u, i)
    <3>1. p \in a..b
      BY <1>3, <1>4, <2>1
    <3>2. p - a + 1 \in 1..n /\ a + (p - a + 1) - 1 = p
      BY <1>3, <1>4, <3>1
    <3>. QED
      BY <1>6, <1>11, <2>1, <3>2
  <2>. QED
    BY <1>4, <1>6, <1>11, <2>1
<1>14. "S" \in Words /\ "W" \in Words
  BY DEF Words
<1>15. FirstKeyword(u) = "S" <=> Leads(t, "S")
  BY <1>10, <1>14
<1>16. FirstKeyword(u) = "W" <=> Leads(t, "W")
  BY <1>10, <1>14
<1>17. LooksLikeRowReturning(u) <=>
         \/ Leads(t, "S")
         \/ Leads(t, "W") /\ \E i \in DOMAIN t : Counts(t, i) /\ ReturningAt(t, i)
  BY <1>7, <1>12, <1>13, <1>15, <1>16 DEF LooksLikeRowReturning
<1>. QED
  BY <1>17 DEF u

-----------------------------------------------------------------------------
(* The pieces of a text.                                                    *)

\* The pieces of a text are texts.
LEMMA CutType ==
    ASSUME NEW t \in Seq(Chars), NEW ends
    PROVE  /\ Cut(t, ends).complete \in Seq(Seq(Chars))
           /\ Cut(t, ends).remainder \in Seq(Chars)
<1>1. Len(t) \in 0..Len(t) /\ Len(t) \in Nat
  OBVIOUS
<1>2. Pieces(t, ends, Len(t)) \in Cuts(t)
  BY <1>1, PiecesSteps
<1> DEFINE all == Pieces(t, ends, Len(t))
<1>3. all.complete \in Seq(Seq(Chars)) /\ all.next \in 1..(Len(t) + 1)
  BY <1>2 DEF Cuts
<1>4. Cut(t, ends) = [complete |-> all.complete, remainder |-> SubSeq(t, all.next, Len(t))]
  BY DEF Cut
<1> HIDE DEF all
<1>5. SubSeq(t, all.next, Len(t)) \in Seq(Chars)
  BY <1>1, <1>3, SubText
<1>. QED
  BY <1>3, <1>4, <1>5

\* So are the statements of completeStatements.
LEMMA CompleteType ==
    ASSUME NEW t \in Seq(Chars)
    PROVE  /\ CompleteStatements(t).complete \in Seq(Seq(Chars))
           /\ CompleteStatements(t).remainder \in Seq(Chars)
<1> DEFINE scan == ScanStatements(t)
    n == Len(scan.complete)
    r == Joined(scan.complete, n)
<1>1. scan.complete \in Seq(Seq(Chars)) /\ scan.remainder \in Seq(Chars)
  BY CutType DEF ScanStatements
<1>2. CompleteStatements(t) =
        [complete |-> r.complete,
         remainder |-> IF r.acc = <<>> THEN scan.remainder
                       ELSE IF scan.remainder = <<>> THEN r.acc
                       ELSE Append(r.acc, ";") \o scan.remainder]
  BY DEF CompleteStatements
<1> HIDE DEF scan
<1>3. n \in 0..n
  BY <1>1
<1>4. r \in Joins
  <2> HIDE DEF n
  <2>. QED
    BY <1>1, <1>3, JoinedSteps DEF n
<1>5. r.complete \in Seq(Seq(Chars)) /\ r.acc \in Seq(Chars)
  BY <1>4 DEF Joins
<1> HIDE DEF r
<1>6. Append(r.acc, ";") \in Seq(Chars)
  <2>1. ";" \in Chars
    BY DEF Chars
  <2>. QED
    BY <1>5, <2>1, AppendProperties
<1>7. Append(r.acc, ";") \o scan.remainder \in Seq(Chars)
  BY <1>1, <1>6, ConcatProperties
<1> DEFINE left == IF r.acc = <<>> THEN scan.remainder
                 ELSE IF scan.remainder = <<>> THEN r.acc
                 ELSE Append(r.acc, ";") \o scan.remainder
<1>8. left \in Seq(Chars)
  BY <1>1, <1>5, <1>7
<1>9. CompleteStatements(t) = [complete |-> r.complete, remainder |-> left]
  BY <1>2
<1> HIDE DEF left
<1>. QED
  BY <1>5, <1>8, <1>9

\* A sequence over a set is one over a larger set.
LEMMA SeqOfMore ==
    ASSUME NEW S, NEW R, S \subseteq R, NEW s \in Seq(S)
    PROVE  s \in Seq(R)
OBVIOUS

-----------------------------------------------------------------------------
(* What a text is cut into.                                                *)

\* A piece begins behind an end or at the beginning, holds no end, and is
\* followed by one, or by the end of the text.
Piece(t, ends, s, e) ==
    /\ s \in 1..(Len(t) + 1) /\ e \in s..(Len(t) + 1)
    /\ s = 1 \/ s - 1 \in ends
    /\ e \in ends \/ e = Len(t) + 1
    /\ \A j \in s..(e - 1) : j \notin ends

\* The pieces of the first j characters, as far as they are complete.
CutsWell(t, ends, j) ==
    LET r == Pieces(t, ends, j)
    IN  /\ r.next \in 1..(j + 1)
        /\ r.next = 1 \/ r.next - 1 \in ends
        /\ \A i \in r.next..j : i \notin ends
        /\ \A k \in 1..Len(r.complete) :
             \E s \in 1..j, e \in 1..j :
               Piece(t, ends, s, e) /\ e \in ends /\ r.complete[k] = SubSeq(t, s, e - 1)
        /\ \A s \in 1..j, e \in 1..j :
             Piece(t, ends, s, e) /\ e \in ends =>
               \E k \in 1..Len(r.complete) : r.complete[k] = SubSeq(t, s, e - 1)

\* Every piece is found, and nothing else.
LEMMA CutsAllWell ==
    ASSUME NEW t \in Seq(Chars), NEW ends
    PROVE  \A j \in 0..Len(t) : CutsWell(t, ends, j)
<1> DEFINE n == Len(t)
    T == {j \in 0..n : CutsWell(t, ends, j)}
<1>1. n \in Nat
  OBVIOUS
<1>2. 0 \in T
  <2>1. Pieces(t, ends, 0) = [complete |-> <<>>, next |-> 1]
    BY PiecesSteps
  <2>. QED
    BY <1>1, <2>1 DEF CutsWell
<1>3. ASSUME NEW j \in 1..n, j - 1 \in T PROVE j \in T
  <2> DEFINE was == Pieces(t, ends, j - 1)
      now == Pieces(t, ends, j)
  <2>1. now = NextPieces(t, ends, j, was)
    BY PiecesSteps
  <2>2. was \in Cuts(t) /\ j - 1 \in 0..n /\ j \in Nat
    <3>1. j - 1 \in 0..n /\ j \in Nat
      BY <1>1
    <3>. QED
      BY <3>1, PiecesSteps
  <2>3. /\ was.next \in 1..j
        /\ was.next = 1 \/ was.next - 1 \in ends
        /\ \A i \in was.next..(j - 1) : i \notin ends
        /\ \A k \in 1..Len(was.complete) :
             \E s \in 1..(j - 1), e \in 1..(j - 1) :
               Piece(t, ends, s, e) /\ e \in ends /\ was.complete[k] = SubSeq(t, s, e - 1)
        /\ \A s \in 1..(j - 1), e \in 1..(j - 1) :
             Piece(t, ends, s, e) /\ e \in ends =>
               \E k \in 1..Len(was.complete) : was.complete[k] = SubSeq(t, s, e - 1)
    <3>1. CutsWell(t, ends, j - 1)
      BY <1>3
    <3>2. (j - 1) + 1 = j
      BY <2>2
    <3>. QED
      BY <3>1, <3>2 DEF CutsWell
  <2>4. was.complete \in Seq(Seq(Chars)) /\ Len(was.complete) \in Nat
    BY <2>2 DEF Cuts
  <2>5. \A e \in 1..j : e = j \/ e \in 1..(j - 1)
    BY <1>1
  <2>6. \A e \in 1..(j - 1) : e \in 1..j
    BY <1>1
  <2>7. CASE j \notin ends
    <3>1. now = was
      BY <2>1, <2>7 DEF NextPieces
    <3>2. \A s \in 1..j, e \in 1..j :
            Piece(t, ends, s, e) /\ e \in ends => s \in 1..(j - 1) /\ e \in 1..(j - 1)
      BY <1>1, <2>7 DEF Piece
    <3> HIDE DEF now, was
    <3>3. \A i \in was.next..j : i \notin ends
      BY <1>1, <2>3, <2>7
    <3>4. was.next \in 1..(j + 1)
      BY <1>1, <2>3
    <3>5. CutsWell(t, ends, j)
      BY <2>3, <2>6, <3>1, <3>2, <3>3, <3>4 DEF CutsWell, now
    <3>. QED
      BY <1>1, <3>5
  <2>8. CASE j \in ends
    <3> DEFINE m == Len(was.complete)
        p == SubSeq(t, was.next, j - 1)
    <3>1. now = [complete |-> Append(was.complete, p), next |-> j + 1]
      BY <2>1, <2>8 DEF NextPieces
    <3>2. \A s \in 1..j, e \in 1..j :
            Piece(t, ends, s, e) /\ e \in ends =>
              (s \in 1..(j - 1) /\ e \in 1..(j - 1)) \/ (e = j /\ s = was.next)
      <4> SUFFICES ASSUME NEW s \in 1..j, NEW e \in 1..j, Piece(t, ends, s, e), e \in ends,
                          e = j
                   PROVE  s = was.next
        BY <1>1, <2>5 DEF Piece
      <4>1. was.next <= s
        <5>1. ~(was.next - 1 \in s..(e - 1)) \/ was.next = 1
          BY <2>3 DEF Piece
        <5>. QED
          BY <1>1, <2>3, <5>1
      <4>2. s <= was.next
        <5>1. ~(s - 1 \in was.next..(j - 1)) \/ s = 1
          BY <2>3 DEF Piece
        <5>. QED
          BY <1>1, <2>3, <5>1
      <4>. QED
        BY <1>1, <2>3, <4>1, <4>2
    <3>3. Piece(t, ends, was.next, j)
      BY <1>1, <2>3, <2>8 DEF Piece
    <3> HIDE DEF now, was, p
    <3>4. /\ Len(now.complete) = m + 1 /\ m \in Nat
          /\ \A k \in 1..m : now.complete[k] = was.complete[k]
          /\ now.complete[m + 1] = p
      BY <2>4, <3>1
    <3>5. \A k \in 1..(m + 1) : k \in 1..m \/ k = m + 1
      BY <3>4
    <3>6. ASSUME NEW k \in 1..Len(now.complete)
          PROVE  \E s \in 1..j, e \in 1..j :
                   /\ Piece(t, ends, s, e) /\ e \in ends
                   /\ now.complete[k] = SubSeq(t, s, e - 1)
      <4>1. CASE k \in 1..m
        <5>1. k \in 1..Len(was.complete) /\ now.complete[k] = was.complete[k]
          BY <3>4, <4>1
        <5>2. PICK s \in 1..(j - 1), e \in 1..(j - 1) :
                Piece(t, ends, s, e) /\ e \in ends /\ was.complete[k] = SubSeq(t, s, e - 1)
          BY <2>3, <5>1
        <5>3. s \in 1..j /\ e \in 1..j
          BY <2>6
        <5>. QED
          BY <5>1, <5>2, <5>3
      <4>2. CASE k = m + 1
        <5>1. j \in 1..j
          BY <1>1
        <5>. QED
          BY <2>3, <2>8, <3>3, <3>4, <4>2, <5>1 DEF p
      <4>. QED
        BY <3>4, <3>5, <4>1, <4>2
    <3>7. ASSUME NEW s \in 1..j, NEW e \in 1..j, Piece(t, ends, s, e), e \in ends
          PROVE  \E k \in 1..Len(now.complete) : now.complete[k] = SubSeq(t, s, e - 1)
      <4>1. CASE s \in 1..(j - 1) /\ e \in 1..(j - 1)
        <5>1. PICK k \in 1..m : was.complete[k] = SubSeq(t, s, e - 1)
          BY <2>3, <3>7, <4>1
        <5>2. k \in 1..Len(now.complete)
          BY <3>4
        <5>. QED
          BY <3>4, <5>1, <5>2
      <4>2. CASE e = j /\ s = was.next
        <5>1. m + 1 \in 1..Len(now.complete)
          BY <3>4
        <5>. QED
          BY <3>4, <4>2, <5>1 DEF p
      <4>. QED
        BY <3>2, <3>7, <4>1, <4>2
    <3>8. /\ now.next \in 1..(j + 1) /\ now.next - 1 \in ends
          /\ \A i \in now.next..j : i \notin ends
      BY <1>1, <2>8, <3>1
    <3>9. CutsWell(t, ends, j)
      BY <3>6, <3>7, <3>8 DEF CutsWell, now
    <3>. QED
      BY <1>1, <3>9
  <2>. QED
    BY <2>7, <2>8
<1>4. 0..n \subseteq T
  <2> HIDE DEF T
  <2>. QED
    BY <1>1, <1>2, <1>3, Upward
<1>. QED
  BY <1>4

\* The pieces of a text are those that are complete and the remainder.
LEMMA CutPieces ==
    ASSUME NEW t \in Seq(Chars), NEW ends \in SUBSET (1..Len(t)), NEW u
    PROVE  LET all == Append(Cut(t, ends).complete, Cut(t, ends).remainder)
           IN  (\E k \in DOMAIN all : all[k] = u) <=>
               \E s, e \in 1..(Len(t) + 1) : Piece(t, ends, s, e) /\ u = SubSeq(t, s, e - 1)
<1> DEFINE n == Len(t)
    r == Pieces(t, ends, n)
    m == Len(r.complete)
    rest == SubSeq(t, r.next, n)
    all == Append(r.complete, rest)
<1>1. n \in Nat /\ n \in 0..n
  OBVIOUS
<1>2. CutsWell(t, ends, n) /\ r \in Cuts(t)
  BY <1>1, CutsAllWell, PiecesSteps
<1>3. Append(Cut(t, ends).complete, Cut(t, ends).remainder) = all
  BY DEF Cut
<1>4. r.complete \in Seq(Seq(Chars)) /\ m \in Nat
  BY <1>2 DEF Cuts
<1> HIDE DEF r, rest
<1>5. /\ DOMAIN all = 1..(m + 1) /\ all[m + 1] = rest
      /\ \A k \in 1..m : all[k] = r.complete[k]
  BY <1>4
<1>6. /\ r.next \in 1..(n + 1)
      /\ r.next = 1 \/ r.next - 1 \in ends
      /\ \A i \in r.next..n : i \notin ends
  BY <1>2 DEF CutsWell, r
<1>7. /\ \A k \in 1..m :
           \E s \in 1..n, e \in 1..n :
             Piece(t, ends, s, e) /\ e \in ends /\ r.complete[k] = SubSeq(t, s, e - 1)
      /\ \A s \in 1..n, e \in 1..n :
           Piece(t, ends, s, e) /\ e \in ends =>
             \E k \in 1..m : r.complete[k] = SubSeq(t, s, e - 1)
  BY <1>2 DEF CutsWell, r
<1>8. Piece(t, ends, r.next, n + 1)
  BY <1>1, <1>6 DEF Piece
<1>9. \A s \in 1..(n + 1) : Piece(t, ends, s, n + 1) => s = r.next
  <2> SUFFICES ASSUME NEW s \in 1..(n + 1), Piece(t, ends, s, n + 1) PROVE s = r.next
    OBVIOUS
  <2>1. ~(r.next - 1 \in s..n) \/ r.next = 1
    BY <1>1, <1>6 DEF Piece
  <2>2. ~(s - 1 \in r.next..n) \/ s = 1
    BY <1>6 DEF Piece
  <2>. QED
    BY <1>1, <1>6, <2>1, <2>2
<1>10. ASSUME NEW k \in 1..(m + 1), all[k] = u
       PROVE  \E s, e \in 1..(n + 1) : Piece(t, ends, s, e) /\ u = SubSeq(t, s, e - 1)
  <2>1. CASE k \in 1..m
    <3>1. PICK s \in 1..n, e \in 1..n :
            Piece(t, ends, s, e) /\ r.complete[k] = SubSeq(t, s, e - 1)
      BY <1>7, <2>1
    <3>2. s \in 1..(n + 1) /\ e \in 1..(n + 1)
      BY <1>1
    <3>. QED
      BY <1>5, <1>10, <2>1, <3>1, <3>2
  <2>2. CASE k = m + 1
    <3>1. n + 1 \in 1..(n + 1) /\ (n + 1) - 1 = n
      BY <1>1
    <3>2. u = SubSeq(t, r.next, (n + 1) - 1)
      BY <1>5, <1>10, <2>2, <3>1 DEF rest
    <3>. QED
      BY <1>6, <1>8, <3>1, <3>2
  <2>. QED
    BY <1>4, <2>1, <2>2
<1>11. ASSUME NEW s \in 1..(n + 1), NEW e \in 1..(n + 1), Piece(t, ends, s, e),
              u = SubSeq(t, s, e - 1)
       PROVE  \E k \in 1..(m + 1) : all[k] = u
  <2>1. CASE e \in ends
    <3>1. s \in 1..n /\ e \in 1..n
      BY <1>1, <1>11, <2>1 DEF Piece
    <3>2. PICK k \in 1..m : r.complete[k] = SubSeq(t, s, e - 1)
      BY <1>7, <1>11, <2>1, <3>1
    <3>3. k \in 1..(m + 1)
      BY <1>4
    <3>. QED
      BY <1>5, <1>11, <3>2, <3>3
  <2>2. CASE e = n + 1
    <3>1. s = r.next /\ (n + 1) - 1 = n /\ m + 1 \in 1..(m + 1)
      BY <1>1, <1>4, <1>9, <1>11, <2>2
    <3>2. u = rest
      BY <1>11, <2>2, <3>1 DEF rest
    <3>. QED
      BY <1>5, <3>1, <3>2
  <2>. QED
    BY <1>11, <2>1, <2>2 DEF Piece
<1>12. (\E k \in DOMAIN all : all[k] = u) <=>
         \E s, e \in 1..(n + 1) : Piece(t, ends, s, e) /\ u = SubSeq(t, s, e - 1)
  <2> HIDE DEF all
  <2>. QED
    BY <1>5, <1>10, <1>11
<1>. QED
  BY <1>3, <1>12

-----------------------------------------------------------------------------
(* What is turned down (checkExternalAccess).                              *)

\* The semicolons the scanner ends a statement at.
ScanEnds(t) == {i \in Stops(t) : t[i] = ";"}

\* The ones SQLite ends a statement at.
StatementEnds(t) ==
    {i \in DOMAIN t : t[i] = ";" /\ Counts(t, i) /\ Body(t, i + 1) = "start"}

\* Both are semicolons, and the scanner's are the ones in text.
LEMMA EndsFacts ==
    ASSUME NEW t \in Seq(Chars), NamesPlain(t)
    PROVE  /\ ScanEnds(t) \in SUBSET (1..Len(t))
           /\ StatementEnds(t) \in SUBSET (1..Len(t))
           /\ \A i : i \in ScanEnds(t) <=>
                i \in 1..Len(t) /\ t[i] = ";" /\ Mode(t, i) \in {"code", "bracket", "backquote"}
           /\ \A i : i \in StatementEnds(t) <=>
                i \in 1..Len(t) /\ t[i] = ";" /\ Counts(t, i) /\ Body(t, i + 1) = "start"
           /\ \A i \in 1..Len(t) : t[i] = ";" => (Counts(t, i) <=> Mode(t, i) = "code")
           /\ ScanStatements(t) = Cut(t, ScanEnds(t))
           /\ Statements(t) = Cut(t, StatementEnds(t))
<1>1. DOMAIN t = 1..Len(t)
  OBVIOUS
<1>2. /\ Stops(t) \subseteq 1..Len(t)
      /\ \A p \in 1..Len(t) : t[p] \notin {"q", "n"} =>
           (p \in Stops(t) <=> Mode(t, p) \in {"code", "bracket", "backquote"})
  BY StopsExact
<1>3. \A i \in 1..Len(t) : t[i] = ";" => (Counts(t, i) <=> Mode(t, i) = "code")
  BY DEF Counts, Pair, Blanks
<1>4. ScanStatements(t) = Cut(t, ScanEnds(t)) /\ Statements(t) = Cut(t, StatementEnds(t))
  BY DEF ScanStatements, Statements, ScanEnds, StatementEnds
<1>5. \A i : i \in ScanEnds(t) <=>
        i \in 1..Len(t) /\ t[i] = ";" /\ Mode(t, i) \in {"code", "bracket", "backquote"}
  BY <1>2 DEF ScanEnds
<1>6. \A i : i \in StatementEnds(t) <=>
        i \in 1..Len(t) /\ t[i] = ";" /\ Counts(t, i) /\ Body(t, i + 1) = "start"
  BY <1>1 DEF StatementEnds
<1>. QED
  BY <1>3, <1>4, <1>5, <1>6

\* Behind a statement's end a statement begins, in text.
LEMMA StatementBegins ==
    ASSUME NEW t \in Seq(Chars), NamesPlain(t), NEW s \in 1..(Len(t) + 1),
           s = 1 \/ s - 1 \in StatementEnds(t)
    PROVE  Mode(t, s) = "code" /\ Body(t, s) = "start"
<1>1. CASE s = 1
  BY <1>1, ModeSteps, BodySteps
<1>2. CASE s - 1 \in StatementEnds(t)
  <2>1. s - 1 \in 1..Len(t) /\ t[s - 1] = ";" /\ Mode(t, s - 1) = "code"
        /\ Body(t, (s - 1) + 1) = "start"
    BY <1>2, EndsFacts
  <2>2. Mode(t, (s - 1) + 1) = NextMode(t, s - 1, "code")
    BY <2>1, ModeSteps
  <2>3. NextMode(t, s - 1, "code") = "code"
    BY <2>1 DEF NextMode, Pair
  <2>4. (s - 1) + 1 = s
    OBVIOUS
  <2>. QED
    BY <2>1, <2>2, <2>3, <2>4
<1>. QED
  BY <1>1, <1>2

\* The ends of pieces are semicolons.
Semicolons(t, ends) == \A i \in ends : t[i] = ";"

\* A piece between semicolons is a part.
LEMMA PiecePart ==
    ASSUME NEW t \in Seq(Chars), NEW ends, Semicolons(t, ends),
           NEW s, NEW e, Piece(t, ends, s, e)
    PROVE  IsPart(SubSeq(t, s, e - 1), t, s, e - 1)
<1>1. /\ s \in 1..(Len(t) + 1) /\ e \in s..(Len(t) + 1)
      /\ e \in ends \/ e = Len(t) + 1
  BY DEF Piece
<1>2. Len(t) \in Nat
  OBVIOUS
<1>3. e - 1 \in (s - 1)..Len(t) /\ (e - 1) + 1 = e
  BY <1>1, <1>2
<1>4. ~Pair(t, e - 1, "-", "-") /\ ~Pair(t, e - 1, "/", "*") /\ ~Pair(t, e - 1, "*", "/")
  <2>1. CASE e \in ends
    <3>1. t[(e - 1) + 1] = ";"
      BY <1>3, <2>1 DEF Semicolons
    <3>. QED
      BY <3>1 DEF Pair
  <2>2. CASE e = Len(t) + 1
    <3>1. ~(e - 1 < Len(t))
      BY <1>2, <2>2
    <3>. QED
      BY <3>1 DEF Pair
  <2>. QED
    BY <1>1, <2>1, <2>2
<1>. QED
  BY <1>1, <1>3, <1>4 DEF IsPart

\* One that begins in text leads with what firstKeyword finds.
LEMMA PieceLeads ==
    ASSUME NEW t \in Seq(Chars), CommentsPlain(t), FeedsPlain(t), NEW a, NEW b,
           Mode(t, a) = "code", NEW u, IsPart(u, t, a, b), NEW w \in Words
    PROVE  /\ Leads(u, w) <=> LeadsPart(t, a, b, w)
           /\ FirstKeyword(u) = w <=> LeadsPart(t, a, b, w)
<1>1. u \in Seq(Chars) /\ CommentsPlain(u) /\ FeedsPlain(u)
  BY PartText, PartPlain, PartFeeds
<1>2. Leads(u, w) <=> LeadsPart(t, a, b, w)
  BY LeadsShift
<1>. QED
  BY <1>1, <1>2, FirstKeywordExact

\* White space has no keyword.
LEMMA BlankNoKeyword ==
    ASSUME NEW u \in Seq(Chars), TrimSpace(u) = <<>>
    PROVE  FirstKeyword(u) = "none"
<1>1. Solid(u) = {}
  BY TrimFacts
<1> DEFINE k == From(u, 1, Unskipped(u))
<1>2. k \in 1..(Len(u) + 1) /\ Len(u) \in Nat
  BY FromFacts, PlacesFacts
<1>3. ~Skips(u, k) /\ Found(u, k) = "none"
  <2> HIDE DEF k
  <2>1. CASE k = Len(u) + 1
    BY <1>2, <2>1 DEF Skips, Found, Pair
  <2>2. CASE k # Len(u) + 1
    <3>1. k \in 1..Len(u)
      BY <1>2, <2>2
    <3>2. u[k] \in Blanks
      BY <1>1, <3>1, PlacesFacts
    <3>. QED
      BY <3>2 DEF Skips, Found, Pair, Blanks, Words
  <2>. QED
    BY <2>1, <2>2
<1>4. KeywordFrom(u, 1) = IF Skips(u, k) THEN KeywordFrom(u, Skipped(u, k)) ELSE Found(u, k)
  BY KeywordStep
<1>. QED
  BY <1>3, <1>4, KeywordStep

\* A text is turned down for the keyword of one of its pieces.
LEMMA DeniedPieces ==
    ASSUME NEW t \in Seq(Chars), NamesPlain(t)
    PROVE  Denied(t) <=>
             \E s, e \in 1..(Len(t) + 1) :
               Piece(t, ScanEnds(t), s, e) /\ FirstKeyword(SubSeq(t, s, e - 1)) = "T"
<1> DEFINE scan == Cut(t, ScanEnds(t))
    all == Append(scan.complete, scan.remainder)
    split == SplitStatements(t)
<1>1. ScanStatements(t) = scan /\ ScanEnds(t) \in SUBSET (1..Len(t))
  BY EndsFacts
<1>2. scan.complete \in Seq(Seq(Chars)) /\ scan.remainder \in Seq(Chars)
  BY CutType
<1>3. \A u : (\E k \in DOMAIN all : all[k] = u) <=>
        \E s, e \in 1..(Len(t) + 1) :
          Piece(t, ScanEnds(t), s, e) /\ u = SubSeq(t, s, e - 1)
  BY <1>1, CutPieces
<1>4. split = IF TrimSpace(scan.remainder) = <<>> THEN scan.complete ELSE all
  BY <1>1 DEF SplitStatements
<1> HIDE DEF scan
<1> DEFINE m == Len(scan.complete)
<1>5. /\ m \in Nat /\ DOMAIN all = 1..(m + 1) /\ all[m + 1] = scan.remainder
      /\ DOMAIN scan.complete = 1..m
      /\ \A k \in 1..m : all[k] = scan.complete[k]
  BY <1>2
<1> HIDE DEF all, split
<1>6. Denied(t) <=> \E k \in DOMAIN all : FirstKeyword(all[k]) = "T"
  <2>1. Denied(t) <=> \E k \in DOMAIN split : FirstKeyword(split[k]) = "T"
    BY DEF Denied, split
  <2>2. CASE TrimSpace(scan.remainder) = <<>>
    <3>1. FirstKeyword(all[m + 1]) # "T"
      BY <1>2, <1>5, <2>2, BlankNoKeyword
    <3>2. split = scan.complete
      BY <1>4, <2>2
    <3>3. \A k \in 1..(m + 1) : k = m + 1 \/ k \in 1..m
      BY <1>5
    <3>4. \A k \in 1..m : k \in 1..(m + 1)
      BY <1>5
    <3>. QED
      BY <1>5, <2>1, <3>1, <3>2, <3>3, <3>4
  <2>3. CASE TrimSpace(scan.remainder) # <<>>
    BY <1>4, <2>1, <2>3
  <2>. QED
    BY <2>2, <2>3
<1>7. ASSUME Denied(t)
      PROVE  \E s, e \in 1..(Len(t) + 1) :
               Piece(t, ScanEnds(t), s, e) /\ FirstKeyword(SubSeq(t, s, e - 1)) = "T"
  <2>1. PICK k \in DOMAIN all : FirstKeyword(all[k]) = "T"
    BY <1>6, <1>7
  <2>2. PICK s, e \in 1..(Len(t) + 1) :
          Piece(t, ScanEnds(t), s, e) /\ all[k] = SubSeq(t, s, e - 1)
    BY <1>3, <2>1
  <2>. QED
    BY <2>1, <2>2
<1>8. ASSUME NEW s \in 1..(Len(t) + 1), NEW e \in 1..(Len(t) + 1),
             Piece(t, ScanEnds(t), s, e), FirstKeyword(SubSeq(t, s, e - 1)) = "T"
      PROVE  Denied(t)
  <2>1. PICK k \in DOMAIN all : all[k] = SubSeq(t, s, e - 1)
    BY <1>3, <1>8
  <2>. QED
    BY <1>6, <1>8, <2>1
<1>. QED
  BY <1>7, <1>8

\* A [name] or `name` is opened by something that counts.
LEMMA NoName ==
    ASSUME NEW t \in Seq(Chars), NEW i \in 1..(Len(t) + 1), NEW k \in i..(Len(t) + 1),
           Mode(t, i) = "code", \A j \in i..(k - 1) : ~Counts(t, j)
    PROVE  \A j \in i..k : Mode(t, j) \notin Unscanned
<1>1. Len(t) \in Nat /\ k - i \in Nat
  OBVIOUS
<1> DEFINE T == {d \in 0..(k - i) : Mode(t, i + d) \notin Unscanned}
<1>2. 0 \in T
  BY <1>1 DEF Unscanned
<1>3. ASSUME NEW d \in 1..(k - i), d - 1 \in T PROVE d \in T
  <2>1. i + d - 1 \in i..(k - 1) /\ i + d - 1 \in 1..Len(t)
        /\ i + (d - 1) = i + d - 1 /\ (i + d - 1) + 1 = i + d
    BY <1>1
  <2> DEFINE j == i + d - 1
  <2>2. Mode(t, j) \notin Unscanned /\ ~Counts(t, j) /\ Mode(t, j) \in Modes
    <3>1. j \in 1..(Len(t) + 1)
      BY <1>1, <2>1
    <3>. QED
      BY <1>3, <2>1, <3>1, ModeSteps
  <2>3. Mode(t, i + d) = NextMode(t, j, Mode(t, j))
    <3>1. Mode(t, j + 1) = NextMode(t, j, Mode(t, j))
      BY <2>1, ModeSteps
    <3>. QED
      BY <2>1, <3>1
  <2> HIDE DEF j
  <2>4. Mode(t, j) = "code" => t[j] \notin {"[", "b"}
    BY <2>2 DEF Counts, Pair, Blanks
  <2>. QED
    BY <2>2, <2>3, <2>4 DEF NextMode, Modes, Unscanned
<1>4. 0..(k - i) \subseteq T
  <2> HIDE DEF T
  <2>. QED
    BY <1>1, <1>2, <1>3, Upward
<1>5. ASSUME NEW j \in i..k PROVE Mode(t, j) \notin Unscanned
  <2>1. j - i \in 0..(k - i) /\ i + (j - i) = j
    BY <1>1
  <2>2. j - i \in T
    BY <1>4, <2>1
  <2>. QED
    BY <2>1, <2>2
<1>. QED
  BY <1>5

\* The piece that begins at s, and goes beyond p if there is no end up to p.
LEMMA PieceFrom ==
    ASSUME NEW t \in Seq(Chars), NEW ends \in SUBSET (1..Len(t)),
           NEW s \in 1..(Len(t) + 1), s = 1 \/ s - 1 \in ends,
           NEW p \in 0..Len(t), \A j \in s..p : j \notin ends
    PROVE  \E e \in 1..(Len(t) + 1) : Piece(t, ends, s, e) /\ p < e
<1> DEFINE e == From(t, s, ends)
<1>1. Len(t) \in Nat /\ s \in Nat
  OBVIOUS
<1>2. /\ e \in 1..(Len(t) + 1)
      /\ e # Len(t) + 1 => e >= s /\ e \in ends
      /\ \A m \in ends : m >= s => e <= m
  BY <1>1, FromFacts
<1> HIDE DEF e
<1>3. e >= s /\ p < e
  BY <1>1, <1>2
<1>4. \A j \in s..(e - 1) : j \notin ends
  BY <1>1, <1>2
<1>5. Piece(t, ends, s, e)
  BY <1>1, <1>2, <1>3, <1>4 DEF Piece
<1>. QED
  BY <1>2, <1>3, <1>5

\* A statement that leads with DDL is a piece of the scanner's, or begins like
\* one: nothing before its first word ends a piece.
LEMMA DDLIsSeen ==
    ASSUME NEW t \in Seq(Chars), NamesPlain(t), NEW s \in 1..(Len(t) + 1), NEW e,
           Piece(t, StatementEnds(t), s, e), LeadsPart(t, s, e - 1, "T")
    PROVE  \E d \in 1..(Len(t) + 1) :
             Piece(t, ScanEnds(t), s, d) /\ LeadsPart(t, s, d - 1, "T")
<1> DEFINE n == Len(t)
<1>1. n \in Nat
  OBVIOUS
<1>2. /\ e \in s..(n + 1)
      /\ s = 1 \/ s - 1 \in StatementEnds(t)
  BY DEF Piece
<1>3. Mode(t, s) = "code"
  BY <1>2, StatementBegins
<1>4. PICK p \in s..(e - 1) :
        t[p] = "T" /\ Counts(t, p) /\ \A j \in s..(p - 1) : ~Counts(t, j)
  BY DEF LeadsPart
<1>5. p \in 1..n /\ p \in s..(n + 1)
  BY <1>1, <1>2
<1>6. \A j \in s..p : Mode(t, j) \notin Unscanned
  BY <1>3, <1>4, <1>5, NoName
<1>7. \A j \in s..p : j \notin ScanEnds(t)
  <2> SUFFICES ASSUME NEW j \in s..p, j \in ScanEnds(t) PROVE FALSE
    OBVIOUS
  <2>1. j \in 1..n /\ t[j] = ";" /\ Mode(t, j) = "code"
    BY <1>6, EndsFacts DEF Unscanned
  <2>2. Counts(t, j)
    BY <2>1, EndsFacts
  <2>3. j # p
    BY <1>4, <2>1
  <2>4. j \in s..(p - 1)
    BY <2>3
  <2>. QED
    BY <1>4, <2>2, <2>4
<1>8. s = 1 \/ s - 1 \in ScanEnds(t)
  BY <1>2, EndsFacts
<1>9. PICK d \in 1..(n + 1) : Piece(t, ScanEnds(t), s, d) /\ p < d
  <2>1. ScanEnds(t) \in SUBSET (1..n)
    BY EndsFacts
  <2>2. p \in 0..n
    BY <1>5
  <2>. QED
    BY <1>7, <1>8, <2>1, <2>2, PieceFrom
<1>10. p \in s..(d - 1)
  BY <1>1, <1>5, <1>9
<1>11. LeadsPart(t, s, d - 1, "T")
  BY <1>4, <1>10 DEF LeadsPart
<1>. QED
  BY <1>9, <1>11

\* Between s and i, what counts first is the keyword of DDL.
Opens(t, s, i) ==
    \E p \in s..(i - 1) : t[p] = "T" /\ Counts(t, p) /\ \A j \in s..(p - 1) : ~Counts(t, j)

\* The statement that began at s, up to i.
Begun(t, s, i) ==
    /\ s = 1 \/ s - 1 \in StatementEnds(t)
    /\ \A j \in s..(i - 1) : j \notin StatementEnds(t)
    /\ Body(t, i) = "start" => \A j \in s..(i - 1) : ~Counts(t, j)
    /\ Body(t, i) \in {"trigger", "semi", "end"} => Opens(t, s, i)

\* There is always one.
LEMMA AlwaysBegun ==
    ASSUME NEW t \in Seq(Chars), NamesPlain(t)
    PROVE  \A i \in 0..Len(t) : \E s \in 1..(i + 1) : Begun(t, s, i + 1)
<1> DEFINE n == Len(t)
    T == {i \in 0..n : \E s \in 1..(i + 1) : Begun(t, s, i + 1)}
<1>1. n \in Nat
  OBVIOUS
<1>2. 0 \in T
  <2>1. Body(t, 0 + 1) = "start" /\ 1 \in 1..(0 + 1)
    BY BodySteps
  <2>2. Begun(t, 1, 0 + 1)
    BY <2>1 DEF Begun
  <2>. QED
    BY <1>1, <2>1, <2>2
<1>3. ASSUME NEW i \in 1..n, i - 1 \in T PROVE i \in T
  <2>1. (i - 1) + 1 = i
    OBVIOUS
  <2>2. PICK s \in 1..i : Begun(t, s, i)
    BY <1>3, <2>1
  <2>3. /\ s = 1 \/ s - 1 \in StatementEnds(t)
        /\ \A j \in s..(i - 1) : j \notin StatementEnds(t)
        /\ Body(t, i) = "start" => \A j \in s..(i - 1) : ~Counts(t, j)
        /\ Body(t, i) \in {"trigger", "semi", "end"} => Opens(t, s, i)
    BY <2>2 DEF Begun
  <2>4. Body(t, i + 1) = NextBody(t, i, Body(t, i)) /\ Body(t, i) \in Bodies
    <3>1. i \in 1..(n + 1)
      BY <1>1
    <3>. QED
      BY <3>1, BodySteps
  <2>5. s \in 1..(i + 1) /\ i \in 1..(i + 1) /\ i + 1 \in 1..(i + 1) /\ (i + 1) - 1 = i
        /\ i \in 0..n
    BY <1>1
  <2>6. \A j \in s..i : j = i \/ j \in s..(i - 1)
    OBVIOUS
  <2>7. CASE i \in StatementEnds(t)
    <3>1. Body(t, i + 1) = "start"
      BY <2>7, EndsFacts
    <3>2. \A j : j \notin (i + 1)..((i + 1) - 1)
      BY <1>1
    <3>3. Begun(t, i + 1, i + 1)
      BY <2>5, <2>7, <3>1, <3>2 DEF Begun
    <3>. QED
      BY <2>5, <3>3
  <2>8. CASE i \notin StatementEnds(t)
    <3>1. \A j \in s..((i + 1) - 1) : j \notin StatementEnds(t)
      BY <2>3, <2>5, <2>6, <2>8
    <3>2. ASSUME Body(t, i + 1) = "start" PROVE \A j \in s..((i + 1) - 1) : ~Counts(t, j)
      <4>1. ~Counts(t, i)
        <5> SUFFICES ASSUME Counts(t, i) PROVE FALSE
          OBVIOUS
        <5>1. t[i] # ";"
          BY <2>8, <3>2, EndsFacts
        <5>. QED
          BY <2>4, <3>2, <5>1 DEF NextBody, Bodies
      <4>2. Body(t, i) = "start"
        BY <2>4, <3>2, <4>1 DEF NextBody
      <4>. QED
        BY <2>3, <2>5, <2>6, <4>1, <4>2
    <3>3. ASSUME Body(t, i + 1) \in {"trigger", "semi", "end"} PROVE Opens(t, s, i + 1)
      <4>1. CASE Body(t, i) \in {"trigger", "semi", "end"}
        <5>1. PICK p \in s..(i - 1) :
                t[p] = "T" /\ Counts(t, p) /\ \A j \in s..(p - 1) : ~Counts(t, j)
          BY <2>3, <4>1 DEF Opens
        <5>2. p \in s..((i + 1) - 1)
          OBVIOUS
        <5>. QED
          BY <5>1, <5>2 DEF Opens
      <4>2. CASE Body(t, i) \in {"start", "normal"}
        <5>1. Counts(t, i) /\ t[i] = "T" /\ Body(t, i) = "start"
          BY <2>4, <3>3, <4>2 DEF NextBody
        <5>2. i \in s..((i + 1) - 1)
          OBVIOUS
        <5>. QED
          BY <2>3, <5>1, <5>2 DEF Opens
      <4>. QED
        BY <2>4, <4>1, <4>2 DEF Bodies
    <3>4. Begun(t, s, i + 1)
      BY <2>3, <3>1, <3>2, <3>3 DEF Begun
    <3>. QED
      BY <2>5, <3>4
  <2>. QED
    BY <2>7, <2>8
<1>4. 0..n \subseteq T
  <2> HIDE DEF T
  <2>. QED
    BY <1>1, <1>2, <1>3, Upward
<1>. QED
  BY <1>4

\* A piece of the scanner's that leads with DDL is a statement, or a part of
\* one that leads with it.
LEMMA SeenIsDDL ==
    ASSUME NEW t \in Seq(Chars), NamesPlain(t),
           \A i \in ScanEnds(t) : Mode(t, i) = "code",
           NEW s \in 1..(Len(t) + 1), NEW d,
           Piece(t, ScanEnds(t), s, d), LeadsPart(t, s, d - 1, "T")
    PROVE  \E r, e \in 1..(Len(t) + 1) :
             Piece(t, StatementEnds(t), r, e) /\ LeadsPart(t, r, e - 1, "T")
<1> DEFINE n == Len(t)
<1>1. n \in Nat
  OBVIOUS
<1>2. /\ d \in s..(n + 1)
      /\ s = 1 \/ s - 1 \in ScanEnds(t)
  BY DEF Piece
<1>3. PICK p \in s..(d - 1) :
        t[p] = "T" /\ Counts(t, p) /\ \A j \in s..(p - 1) : ~Counts(t, j)
  BY DEF LeadsPart
<1>4. p \in 1..n /\ p \in s..(n + 1) /\ p - 1 \in 0..n /\ (p - 1) + 1 = p
  BY <1>1, <1>2
<1>5. Body(t, s) \in {"start", "semi"}
  <2>1. CASE s = 1
    BY <2>1, BodySteps
  <2>2. CASE s - 1 \in ScanEnds(t)
    <3>3. s - 1 \in 1..n /\ t[s - 1] = ";" /\ Counts(t, s - 1)
      <4>1. s - 1 \in 1..n /\ t[s - 1] = ";" /\ Mode(t, s - 1) = "code"
        BY <2>2, EndsFacts
      <4>. QED
        BY <4>1, EndsFacts
    <3>1. s - 1 \in 1..(n + 1) /\ (s - 1) + 1 = s
      <4>1. s \in 1..(n + 1)
        OBVIOUS
      <4>2. s - 1 \in 1..n
        BY <3>3
      <4> HIDE DEF n
      <4>. QED
        BY <1>1, <4>1, <4>2
    <3>2. /\ Body(t, (s - 1) + 1) = NextBody(t, s - 1, Body(t, s - 1))
          /\ Body(t, s - 1) \in Bodies
      BY <3>1, <3>3, BodySteps
    <3>. QED
      BY <3>1, <3>2, <3>3 DEF NextBody, Bodies
  <2>. QED
    BY <1>2, <2>1, <2>2
<1>6. Body(t, p) = Body(t, s)
  <2>1. \A j \in s..p : Body(t, j) = Body(t, s)
    BY <1>3, <1>4, BodyStays
  <2>. QED
    BY <1>4, <2>1
<1>7. PICK r \in 1..p : Begun(t, r, p)
  BY <1>4, AlwaysBegun
<1>8. PICK q \in r..p : t[q] = "T" /\ Counts(t, q) /\ \A j \in r..(q - 1) : ~Counts(t, j)
  <2>1. CASE Body(t, p) = "start"
    BY <1>3, <1>7, <2>1 DEF Begun
  <2>2. CASE Body(t, p) = "semi"
    <3>1. PICK q \in r..(p - 1) :
            t[q] = "T" /\ Counts(t, q) /\ \A j \in r..(q - 1) : ~Counts(t, j)
      BY <1>7, <2>2 DEF Begun, Opens
    <3>2. q \in r..p
      BY <1>4
    <3>. QED
      BY <3>1, <3>2
  <2>. QED
    BY <1>5, <1>6, <2>1, <2>2
<1>9. \A j \in r..q : j \notin StatementEnds(t)
  <2> SUFFICES ASSUME NEW j \in r..q, j \in StatementEnds(t) PROVE FALSE
    OBVIOUS
  <2>1. t[j] = ";"
    BY EndsFacts
  <2>2. j \notin r..(p - 1)
    BY <1>7 DEF Begun
  <2>3. j = p
    BY <1>4, <1>8, <2>2
  <2>. QED
    BY <1>3, <2>1, <2>3
<1>10. r \in 1..(n + 1) /\ q \in 0..n /\ q \in 1..n
  BY <1>1, <1>4, <1>8
<1>11. PICK e \in 1..(n + 1) : Piece(t, StatementEnds(t), r, e) /\ q < e
  <2>1. StatementEnds(t) \in SUBSET (1..n)
    BY EndsFacts
  <2>2. r = 1 \/ r - 1 \in StatementEnds(t)
    BY <1>7 DEF Begun
  <2>. QED
    BY <1>9, <1>10, <2>1, <2>2, PieceFrom
<1>12. q \in r..(e - 1)
  BY <1>1, <1>8, <1>10, <1>11
<1>13. LeadsPart(t, r, e - 1, "T")
  BY <1>8, <1>12 DEF LeadsPart
<1>. QED
  BY <1>10, <1>11, <1>13

\* What is turned down, and what is not.
LEMMA DeniedExact ==
    ASSUME NEW t \in Seq(Chars), NamesPlain(t), CommentsPlain(t), FeedsPlain(t)
    PROVE  LET all == Statements(t)
               stmts == Append(all.complete, all.remainder)
               ddl == \E k \in DOMAIN stmts : Leads(stmts[k], "T")
               cut == \E i \in DOMAIN t : Mode(t, i) \in Unscanned /\ t[i] = ";"
           IN  /\ ddl => Denied(t)
               /\ Denied(t) => ddl \/ cut
<1> DEFINE n == Len(t)
    all == Cut(t, StatementEnds(t))
    stmts == Append(all.complete, all.remainder)
    ddl == \E k \in DOMAIN stmts : Leads(stmts[k], "T")
    cut == \E i \in DOMAIN t : Mode(t, i) \in Unscanned /\ t[i] = ";"
<1>1. /\ ScanEnds(t) \in SUBSET (1..n) /\ StatementEnds(t) \in SUBSET (1..n)
      /\ Semicolons(t, ScanEnds(t)) /\ Semicolons(t, StatementEnds(t))
  BY EndsFacts DEF Semicolons
<1>2. Statements(t) = all
  BY EndsFacts
<1>3. "T" \in Words
  BY DEF Words
<1>8. DOMAIN t = 1..n
  OBVIOUS
<1>4. ddl <=> \E s, e \in 1..(n + 1) :
                Piece(t, StatementEnds(t), s, e) /\ LeadsPart(t, s, e - 1, "T")
  <2>1. ASSUME NEW s \in 1..(n + 1), NEW e, Piece(t, StatementEnds(t), s, e)
        PROVE  Leads(SubSeq(t, s, e - 1), "T") <=> LeadsPart(t, s, e - 1, "T")
    <3>1. IsPart(SubSeq(t, s, e - 1), t, s, e - 1)
      BY <1>1, <2>1, PiecePart
    <3>2. Mode(t, s) = "code"
      BY <2>1, StatementBegins DEF Piece
    <3>. QED
      BY <1>3, <3>1, <3>2, PieceLeads
  <2>2. \A u : (\E k \in DOMAIN stmts : stmts[k] = u) <=>
          \E s, e \in 1..(n + 1) :
            Piece(t, StatementEnds(t), s, e) /\ u = SubSeq(t, s, e - 1)
    BY <1>1, CutPieces
  <2> HIDE DEF stmts, n
  <2>3. ASSUME NEW k \in DOMAIN stmts, Leads(stmts[k], "T")
        PROVE  \E s, e \in 1..(n + 1) :
                 Piece(t, StatementEnds(t), s, e) /\ LeadsPart(t, s, e - 1, "T")
    <3>1. PICK s, e \in 1..(n + 1) :
            Piece(t, StatementEnds(t), s, e) /\ stmts[k] = SubSeq(t, s, e - 1)
      BY <2>2
    <3>. QED
      BY <2>1, <2>3, <3>1
  <2>4. ASSUME NEW s \in 1..(n + 1), NEW e \in 1..(n + 1),
               Piece(t, StatementEnds(t), s, e), LeadsPart(t, s, e - 1, "T")
        PROVE  \E k \in DOMAIN stmts : Leads(stmts[k], "T")
    <3>1. PICK k \in DOMAIN stmts : stmts[k] = SubSeq(t, s, e - 1)
      BY <2>2, <2>4
    <3>. QED
      BY <2>1, <2>4, <3>1
  <2>. QED
    BY <2>3, <2>4
<1>5. ASSUME NEW s \in 1..(n + 1), NEW e, Piece(t, ScanEnds(t), s, e), Mode(t, s) = "code"
      PROVE  FirstKeyword(SubSeq(t, s, e - 1)) = "T" <=> LeadsPart(t, s, e - 1, "T")
  <2>1. IsPart(SubSeq(t, s, e - 1), t, s, e - 1)
    BY <1>1, <1>5, PiecePart
  <2>. QED
    BY <1>3, <1>5, <2>1, PieceLeads
<1>6. ddl => Denied(t)
  <2> SUFFICES ASSUME ddl PROVE Denied(t)
    OBVIOUS
  <2> HIDE DEF ddl
  <2>1. PICK s, e \in 1..(n + 1) :
          Piece(t, StatementEnds(t), s, e) /\ LeadsPart(t, s, e - 1, "T")
    BY <1>4
  <2>2. PICK d \in 1..(n + 1) :
          Piece(t, ScanEnds(t), s, d) /\ LeadsPart(t, s, d - 1, "T")
    BY <2>1, DDLIsSeen
  <2>3. Mode(t, s) = "code"
    BY <2>1, StatementBegins DEF Piece
  <2>4. FirstKeyword(SubSeq(t, s, d - 1)) = "T"
    BY <1>5, <2>2, <2>3
  <2>. QED
    BY <2>2, <2>4, DeniedPieces
<1>7. Denied(t) => ddl \/ cut
  <2> SUFFICES ASSUME Denied(t), ~cut PROVE ddl
    OBVIOUS
  <2>1. \A i \in ScanEnds(t) : Mode(t, i) = "code"
    <3>1. \A i \in 1..n : ~(Mode(t, i) \in Unscanned /\ t[i] = ";")
      BY <1>8
    <3>. QED
      BY <3>1, EndsFacts DEF Unscanned
  <2> HIDE DEF ddl, cut
  <2>2. PICK s, d \in 1..(n + 1) :
          Piece(t, ScanEnds(t), s, d) /\ FirstKeyword(SubSeq(t, s, d - 1)) = "T"
    BY DeniedPieces
  <2>3. Mode(t, s) = "code"
    <3>1. CASE s = 1
      BY <3>1, ModeSteps
    <3>2. CASE s - 1 \in ScanEnds(t)
      <4>1. s - 1 \in 1..n /\ t[s - 1] = ";" /\ Mode(t, s - 1) = "code"
        BY <2>1, <3>2, EndsFacts
      <4>4. (s - 1) + 1 = s
        OBVIOUS
      <4>2. Mode(t, (s - 1) + 1) = NextMode(t, s - 1, "code")
        BY <4>1, ModeSteps
      <4>3. NextMode(t, s - 1, "code") = "code"
        BY <4>1 DEF NextMode, Pair
      <4>. QED
        BY <4>1, <4>2, <4>3, <4>4
    <3>. QED
      BY <2>2, <3>1, <3>2 DEF Piece
  <2>4. LeadsPart(t, s, d - 1, "T")
    BY <1>5, <2>2, <2>3
  <2>5. \E r, e \in 1..(n + 1) :
          Piece(t, StatementEnds(t), r, e) /\ LeadsPart(t, r, e - 1, "T")
    BY <2>1, <2>2, <2>4, SeenIsDDL
  <2>. QED
    BY <1>4, <2>5
<1> HIDE DEF ddl, cut
<1>. QED
  BY <1>2, <1>6, <1>7 DEF ddl, cut

-----------------------------------------------------------------------------
(* The statements of a text that goes on.                                  *)

\* A part that begins with a statement ends its statements where the text does.
LEMMA EndsShift ==
    ASSUME NEW u, NEW t, NEW a, NEW b, IsPart(u, t, a, b),
           Mode(t, a) = "code", Body(t, a) = "start"
    PROVE  \A i \in 1..Len(u) : i \in StatementEnds(u) <=> a + i - 1 \in StatementEnds(t)
<1>1. /\ u \in Seq(Chars) /\ t \in Seq(Chars)
      /\ Len(u) \in Nat /\ a \in Nat /\ Len(t) \in Nat
      /\ \A i \in 1..Len(u) : u[i] = t[a + i - 1] /\ a + i - 1 \in 1..Len(t)
  BY PartText
<1>2. DOMAIN u = 1..Len(u) /\ DOMAIN t = 1..Len(t)
  BY <1>1
<1>3. \A i \in 1..(Len(u) + 1) : Body(u, i) = Body(t, a + i - 1)
  BY BodyShift
<1>4. ASSUME NEW i \in 1..Len(u)
      PROVE  i \in StatementEnds(u) <=> a + i - 1 \in StatementEnds(t)
  <2>1. u[i] = t[a + i - 1] /\ a + i - 1 \in 1..Len(t)
    BY <1>1
  <2>2. Counts(u, i) <=> Counts(t, a + i - 1)
    BY CountsShift
  <2>3. Body(u, i + 1) = Body(t, (a + i - 1) + 1)
    <3>1. i + 1 \in 1..(Len(u) + 1) /\ a + (i + 1) - 1 = (a + i - 1) + 1
      BY <1>1
    <3>. QED
      BY <1>3, <3>1
  <2>. QED
    BY <1>2, <2>1, <2>2, <2>3 DEF StatementEnds
<1>. QED
  BY <1>4

\* A name that hides nothing hides nothing in a part.
LEMMA PartNames ==
    ASSUME NEW u, NEW t, NEW a, NEW b, IsPart(u, t, a, b), Mode(t, a) = "code",
           NamesPlain(t)
    PROVE  NamesPlain(u)
<1>1. /\ u \in Seq(Chars) /\ t \in Seq(Chars) /\ Len(u) \in Nat
      /\ \A i \in 1..Len(u) : u[i] = t[a + i - 1] /\ a + i - 1 \in 1..Len(t)
  BY PartText
<1>2. DOMAIN u = 1..Len(u) /\ DOMAIN t = 1..Len(t)
  BY <1>1
<1>3. \A i \in 1..Len(u) : Mode(u, i) = Mode(t, a + i - 1)
  <2>1. \A i \in 1..(Len(u) + 1) : Mode(u, i) = Mode(t, a + i - 1)
    BY ModeShift
  <2>. QED
    BY <1>1, <2>1
<1>. QED
  BY <1>1, <1>2, <1>3 DEF NamesPlain

\* What a text is cut into does not change when it goes on.
LEMMA PrefixPieces ==
    ASSUME NEW u, NEW t, NEW b, IsPart(u, t, 1, b)
    PROVE  /\ b = Len(u)
           /\ \A j \in 1..(b + 1) : Mode(u, j) = Mode(t, j) /\ Body(u, j) = Body(t, j)
           /\ \A j \in 0..b :
                Pieces(u, StatementEnds(u), j) = Pieces(t, StatementEnds(t), j)
<1>1. /\ u \in Seq(Chars) /\ t \in Seq(Chars) /\ b = Len(u) /\ b \in Nat /\ Len(t) \in Nat
      /\ b <= Len(t)
      /\ \A i \in 1..b : u[i] = t[i] /\ i \in 1..Len(t)
  <2>1. /\ u \in Seq(Chars) /\ t \in Seq(Chars)
        /\ Len(u) = b - 1 + 1 /\ Len(u) \in Nat
        /\ b \in Nat /\ Len(t) \in Nat /\ b <= Len(t)
        /\ \A i \in 1..Len(u) : u[i] = t[1 + i - 1] /\ 1 + i - 1 \in 1..Len(t)
    BY PartText
  <2>2. \A i \in 1..Len(u) : 1 + i - 1 = i
    OBVIOUS
  <2>. QED
    BY <2>1, <2>2
<1>2. Mode(t, 1) = "code" /\ Body(t, 1) = "start"
  BY <1>1, ModeSteps, BodySteps
<1>3. \A j \in 1..(b + 1) : 1 + j - 1 = j
  OBVIOUS
<1>4. \A j \in 1..(b + 1) : Mode(u, j) = Mode(t, j)
  <2>1. \A j \in 1..(Len(u) + 1) : Mode(u, j) = Mode(t, 1 + j - 1)
    BY <1>2, ModeShift
  <2>. QED
    BY <1>1, <1>3, <2>1
<1>5. \A j \in 1..(b + 1) : Body(u, j) = Body(t, j)
  <2>1. \A j \in 1..(Len(u) + 1) : Body(u, j) = Body(t, 1 + j - 1)
    BY <1>2, BodyShift
  <2>. QED
    BY <1>1, <1>3, <2>1
<1>6. \A j \in 1..b : j \in StatementEnds(u) <=> j \in StatementEnds(t)
  <2>1. \A j \in 1..Len(u) : j \in StatementEnds(u) <=> 1 + j - 1 \in StatementEnds(t)
    BY <1>2, EndsShift
  <2>2. \A j \in 1..b : 1 + j - 1 = j
    OBVIOUS
  <2>. QED
    BY <1>1, <2>1, <2>2
<1> DEFINE A == StatementEnds(u)
    B == StatementEnds(t)
    T == {j \in 0..b : Pieces(u, A, j) = Pieces(t, B, j)}
<1> HIDE DEF A, B
<1>7. 0 \in T
  <2>1. Pieces(u, A, 0) = Pieces(t, B, 0)
    BY <1>1, PiecesSteps
  <2>. QED
    BY <1>1, <2>1
<1>8. ASSUME NEW j \in 1..b, j - 1 \in T PROVE j \in T
  <2> DEFINE r == Pieces(u, A, j - 1)
  <2>1. r = Pieces(t, B, j - 1)
    BY <1>8
  <2>2. j \in 1..Len(t) /\ j \in 1..Len(u) /\ j - 1 \in 0..b /\ j \in 0..b
    BY <1>1
  <2>3. /\ Pieces(u, A, j) = NextPieces(u, A, j, r)
        /\ Pieces(t, B, j) = NextPieces(t, B, j, r)
    BY <1>1, <2>1, <2>2, PiecesSteps
  <2>4. r \in Cuts(u) /\ CutsWell(u, A, j - 1)
    BY <1>1, <2>2, PiecesSteps, CutsAllWell
  <2>5. r.next \in 1..(b + 1) /\ r.next \in 1..j
    <3>1. r.next \in 1..(b + 1) /\ r.next \in 1..((j - 1) + 1)
      BY <1>1, <2>4 DEF Cuts, CutsWell
    <3>2. (j - 1) + 1 = j
      OBVIOUS
    <3>. QED
      BY <3>1, <3>2
  <2> HIDE DEF r
  <2>6. SubSeq(u, r.next, j - 1) = SubSeq(t, r.next, j - 1)
    <3> DEFINE x == SubSeq(u, r.next, j - 1)
        y == SubSeq(t, r.next, j - 1)
    <3>1. r.next \in 1..(Len(u) + 1) /\ r.next \in 1..(Len(t) + 1)
          /\ j - 1 \in 0..Len(u) /\ j - 1 \in 0..Len(t)
      BY <1>1, <2>5
    <3>2. /\ x \in Seq(Chars) /\ Len(x) = IF r.next <= j - 1 THEN j - 1 - r.next + 1 ELSE 0
          /\ \A i \in 1..Len(x) : /\ x[i] = u[r.next + i - 1]
                                  /\ r.next + i - 1 \in r.next..(j - 1)
      BY <1>1, <3>1, SubText
    <3>3. /\ y \in Seq(Chars) /\ Len(y) = IF r.next <= j - 1 THEN j - 1 - r.next + 1 ELSE 0
          /\ \A i \in 1..Len(y) : y[i] = t[r.next + i - 1]
      BY <1>1, <3>1, SubText
    <3> HIDE DEF x, y
    <3>5. \A i \in 1..Len(x) : x[i] = y[i]
      <4>1. \A i \in r.next..(j - 1) : i \in 1..b
        BY <1>1, <2>5
      <4>. QED
        BY <1>1, <3>2, <3>3, <4>1
    <3>4. x = y
      BY <3>2, <3>3, <3>5, SeqEqual
    <3>. QED
      BY <3>4 DEF x, y
  <2>7. j \in A <=> j \in B
    BY <1>6 DEF A, B
  <2>8. Pieces(u, A, j) = Pieces(t, B, j)
    <3> DEFINE x == SubSeq(u, r.next, j - 1)
        y == SubSeq(t, r.next, j - 1)
    <3>1. NextPieces(u, A, j, r) =
            IF j \notin A THEN r ELSE [complete |-> Append(r.complete, x), next |-> j + 1]
      BY DEF NextPieces
    <3>2. NextPieces(t, B, j, r) =
            IF j \notin B THEN r ELSE [complete |-> Append(r.complete, y), next |-> j + 1]
      BY DEF NextPieces
    <3>3. x = y
      BY <2>6
    <3> HIDE DEF x, y
    <3>. QED
      BY <2>3, <2>7, <3>1, <3>2, <3>3
  <2>. QED
    BY <2>2, <2>8
<1>9. 0..b \subseteq T
  <2> HIDE DEF T
  <2>. QED
    BY <1>1, <1>7, <1>8, Upward
<1>10. \A j \in 0..b : Pieces(u, A, j) = Pieces(t, B, j)
  BY <1>9
<1>. QED
  BY <1>1, <1>4, <1>5, <1>10 DEF A, B

\* What TrimSpace leaves, a character at a time.
LEMMA TrimText ==
    ASSUME NEW t \in Seq(Chars), NEW a, NEW b, Trims(t, a, b), NEW u, u = TrimSpace(t)
    PROVE  /\ u \in Seq(Chars) /\ Len(u) = b - a + 1
           /\ \A i \in 1..Len(u) : u[i] = t[a + i - 1] /\ a + i - 1 \in 1..Len(t)
<1>1. IsPart(u, t, a, b)
  BY DEF Trims
<1>. QED
  BY <1>1, PartText

\* x is y with c characters of white space in front of it.
Indented(x, y, c) ==
    /\ Len(x) = c + Len(y)
    /\ \A i \in 1..Len(y) : y[i] = x[c + i]
    /\ \A i \in 1..c : x[i] \in Blanks

\* It makes no difference to what is left.
LEMMA TrimPrefix ==
    ASSUME NEW x \in Seq(Chars), NEW y \in Seq(Chars), NEW c \in Nat, Indented(x, y, c)
    PROVE  TrimSpace(x) = TrimSpace(y)
<1>1. Len(x) \in Nat /\ Len(y) \in Nat
  OBVIOUS
<1>8. /\ Len(x) = c + Len(y)
      /\ \A i \in 1..Len(y) : y[i] = x[c + i]
      /\ \A i \in 1..c : x[i] \in Blanks
  BY DEF Indented
<1>2. \A i : i \in Solid(x) <=> i \in 1..Len(x) /\ x[i] \notin Blanks
  BY PlacesFacts
<1>3. \A i : i \in Solid(y) <=> i \in 1..Len(y) /\ y[i] \notin Blanks
  BY PlacesFacts
<1>4. \A i \in 1..Len(y) : i \in Solid(y) <=> c + i \in Solid(x)
  <2>1. \A i \in 1..Len(y) : c + i \in 1..Len(x)
    BY <1>1, <1>8
  <2>. QED
    BY <1>2, <1>3, <1>8, <2>1
<1>5. \A i \in Solid(x) : i - c \in 1..Len(y) /\ c + (i - c) = i /\ i - c \in Solid(y)
  <2> SUFFICES ASSUME NEW i \in Solid(x)
               PROVE  i - c \in 1..Len(y) /\ c + (i - c) = i /\ i - c \in Solid(y)
    OBVIOUS
  <2>1. i \in 1..Len(x) /\ i \notin 1..c
    BY <1>2, <1>8
  <2>2. i - c \in 1..Len(y) /\ c + (i - c) = i
    BY <1>1, <1>8, <2>1
  <2>. QED
    BY <1>4, <2>2
<1>6. CASE Solid(x) = {}
  <2>1. Solid(y) = {}
    BY <1>3, <1>4, <1>6
  <2>. QED
    BY <1>6, <2>1, TrimFacts
<1>7. CASE Solid(x) # {}
  <2>1. Solid(y) # {}
    BY <1>5, <1>7
  <2>2. PICK a, b \in 1..Len(x) : Trims(x, a, b)
    BY <1>7, TrimFacts
  <2>3. PICK d, e \in 1..Len(y) : Trims(y, d, e)
    BY <2>1, TrimFacts
  <2>4. /\ a \in Solid(x) /\ b \in Solid(x) /\ \A j \in Solid(x) : a <= j /\ j <= b
        /\ IsPart(TrimSpace(x), x, a, b)
    BY <2>2 DEF Trims
  <2>5. /\ d \in Solid(y) /\ e \in Solid(y) /\ \A j \in Solid(y) : d <= j /\ j <= e
        /\ IsPart(TrimSpace(y), y, d, e)
    BY <2>3 DEF Trims
  <2>6. a = c + d /\ b = c + e
    <3>1. c + d \in Solid(x) /\ c + e \in Solid(x)
      BY <1>4, <2>5
    <3>2. a - c \in Solid(y) /\ b - c \in Solid(y)
      BY <1>5, <2>4
    <3>3. a <= c + d /\ c + e <= b
      BY <2>4, <3>1
    <3>4. d <= a - c /\ b - c <= e
      BY <2>5, <3>2
    <3>. QED
      BY <3>3, <3>4
  <2> DEFINE u == TrimSpace(x)
      v == TrimSpace(y)
  <2>7. /\ u \in Seq(Chars) /\ Len(u) = b - a + 1
        /\ \A i \in 1..Len(u) : u[i] = x[a + i - 1]
    <3>1. u = TrimSpace(x)
      OBVIOUS
    <3> HIDE DEF Indented, u
    <3>. QED
      BY <2>2, <3>1, TrimText
  <2>8. /\ v \in Seq(Chars) /\ Len(v) = e - d + 1
        /\ \A i \in 1..Len(v) : v[i] = y[d + i - 1] /\ d + i - 1 \in 1..Len(y)
    BY <2>3, TrimText
  <2> HIDE DEF u, v
  <2>9. Len(u) = Len(v)
    BY <2>6, <2>7, <2>8
  <2>10. ASSUME NEW i \in 1..Len(u) PROVE u[i] = v[i]
    <3>1. c + (d + i - 1) = a + i - 1
      BY <2>6
    <3>2. i \in 1..Len(v) /\ v[i] = y[d + i - 1] /\ d + i - 1 \in 1..Len(y)
      BY <2>8, <2>9
    <3>3. y[d + i - 1] = x[c + (d + i - 1)]
      BY <1>8, <3>2
    <3>. QED
      BY <2>7, <3>1, <3>2, <3>3
  <2>11. u = v
    BY <2>7, <2>8, <2>9, <2>10, SeqEqual
  <2>. QED
    BY <2>11 DEF u, v
<1>. QED
  BY <1>6, <1>7

\* Only white space stands from a to b.
BlankPart(t, a, b) == \A j \in a..b : t[j] \in Blanks

-----------------------------------------------------------------------------
(* Pieces put together again (completeStatements).                         *)

\* A part of a text, and the next character.
LEMMA PartAppend ==
    ASSUME NEW t \in Seq(Chars), NEW b \in 1..Len(t), NEW j \in b..Len(t)
    PROVE  Append(SubSeq(t, b, j - 1), t[j]) = SubSeq(t, b, j)
<1> DEFINE x == SubSeq(t, b, j - 1)
    y == SubSeq(t, b, j)
    z == Append(x, t[j])
<1>1. Len(t) \in Nat /\ b \in 1..(Len(t) + 1) /\ j - 1 \in 0..Len(t) /\ j \in 0..Len(t)
      /\ t[j] \in Chars
  OBVIOUS
<1>2. /\ x \in Seq(Chars) /\ Len(x) = (IF b <= j - 1 THEN j - 1 - b + 1 ELSE 0)
      /\ \A i \in 1..Len(x) : x[i] = t[b + i - 1]
  BY <1>1, SubText
<1>3. /\ y \in Seq(Chars) /\ Len(y) = (IF b <= j THEN j - b + 1 ELSE 0)
      /\ \A i \in 1..Len(y) : y[i] = t[b + i - 1]
  BY <1>1, SubText
<1> HIDE DEF x, y
<1>4. Len(x) = j - b /\ Len(y) = j - b + 1 /\ j - b \in Nat
  BY <1>1, <1>2, <1>3
<1>5. /\ z \in Seq(Chars) /\ Len(z) = j - b + 1 /\ z[j - b + 1] = t[j]
      /\ \A i \in 1..(j - b) : z[i] = x[i]
  <2>1. t[j] \in Chars
    BY <1>1
  <2> DEFINE c == t[j]
  <2> HIDE DEF c
  <2>2. c \in Chars /\ z = Append(x, c)
    BY <2>1 DEF c
  <2>3. /\ Append(x, c) \in Seq(Chars) /\ Len(Append(x, c)) = Len(x) + 1
        /\ \A i \in 1..Len(x) : Append(x, c)[i] = x[i]
        /\ Append(x, c)[Len(x) + 1] = c
    BY <1>2, <2>2, AppendProperties
  <2> HIDE DEF z
  <2>. QED
    BY <1>4, <2>2, <2>3 DEF c
<1> HIDE DEF z
<1>6. ASSUME NEW i \in 1..Len(z) PROVE z[i] = y[i]
  <2>1. CASE i = j - b + 1
    <3>1. b + i - 1 = j
      BY <1>1, <2>1
    <3>2. i \in 1..Len(y)
      BY <1>4, <1>5
    <3>. QED
      BY <1>3, <1>5, <2>1, <3>1, <3>2
  <2>2. CASE i # j - b + 1
    <3>1. i \in 1..(j - b) /\ i \in 1..Len(x) /\ i \in 1..Len(y)
      BY <1>4, <1>5, <2>2
    <3>. QED
      BY <1>2, <1>3, <1>5, <3>1
  <2>. QED
    BY <2>1, <2>2
<1>7. z = y
  BY <1>3, <1>4, <1>5, <1>6, SeqEqual
<1>. QED
  BY <1>7 DEF x, y, z

\* Two parts of a text, one behind the other.
LEMMA PartConcat ==
    ASSUME NEW t \in Seq(Chars), NEW b \in 1..(Len(t) + 1), NEW a \in b..(Len(t) + 1),
           NEW j \in a..(Len(t) + 1)
    PROVE  SubSeq(t, b, a - 1) \o SubSeq(t, a, j - 1) = SubSeq(t, b, j - 1)
<1> DEFINE x == SubSeq(t, b, a - 1)
    w == SubSeq(t, a, j - 1)
    y == SubSeq(t, b, j - 1)
    z == x \o w
<1>1. Len(t) \in Nat /\ a \in 1..(Len(t) + 1) /\ a - 1 \in 0..Len(t) /\ j - 1 \in 0..Len(t)
  OBVIOUS
<1>2. /\ x \in Seq(Chars) /\ Len(x) = (IF b <= a - 1 THEN a - 1 - b + 1 ELSE 0)
      /\ \A i \in 1..Len(x) : x[i] = t[b + i - 1]
  BY <1>1, SubText
<1>3. /\ y \in Seq(Chars) /\ Len(y) = (IF b <= j - 1 THEN j - 1 - b + 1 ELSE 0)
      /\ \A i \in 1..Len(y) : y[i] = t[b + i - 1]
  BY <1>1, SubText
<1>4. /\ w \in Seq(Chars) /\ Len(w) = (IF a <= j - 1 THEN j - 1 - a + 1 ELSE 0)
      /\ \A i \in 1..Len(w) : w[i] = t[a + i - 1]
  BY <1>1, SubText
<1> HIDE DEF x, y, w
<1>5. Len(x) = a - b /\ Len(w) = j - a /\ Len(y) = j - b /\ a - b \in Nat /\ j - a \in Nat
  BY <1>1, <1>2, <1>3, <1>4
<1>6. /\ z \in Seq(Chars) /\ Len(z) = Len(x) + Len(w)
      /\ \A i \in 1..Len(z) : z[i] = IF i <= Len(x) THEN x[i] ELSE w[i - Len(x)]
  <2>1. x \in Seq(Chars) /\ w \in Seq(Chars)
    BY <1>2, <1>4
  <2>. QED
    BY <2>1, ConcatProperties
<1> HIDE DEF z
<1>7. Len(z) = j - b
  BY <1>5, <1>6
<1>8. ASSUME NEW i \in 1..Len(z) PROVE z[i] = y[i]
  <2>1. i \in 1..Len(y)
    BY <1>5, <1>7
  <2>2. y[i] = t[b + i - 1]
    BY <1>3, <2>1
  <2>3. CASE i <= Len(x)
    <3>1. i \in 1..Len(x)
      BY <1>2, <2>3
    <3>. QED
      BY <1>2, <1>6, <2>2, <3>1
  <2>4. CASE ~(i <= Len(x))
    <3>1. i - Len(x) \in 1..Len(w) /\ a + (i - Len(x)) - 1 = b + i - 1
      BY <1>1, <1>5, <1>7, <2>4
    <3>2. w[i - Len(x)] = t[a + (i - Len(x)) - 1]
      BY <1>4, <3>1
    <3>. QED
      BY <1>6, <2>2, <2>4, <3>1, <3>2
  <2>. QED
    BY <2>3, <2>4
<1>9. z = y
  BY <1>3, <1>5, <1>6, <1>7, <1>8, SeqEqual
<1>. QED
  BY <1>9 DEF x, y, w, z

\* What all the pieces make.
JoinAll(pieces) == Joined(pieces, Len(pieces))

\* One piece more.
LEMMA JoinedAppend ==
    /\ JoinAll(<<>>) = [complete |-> <<>>, acc |-> <<>>]
    /\ \A s \in Seq(Seq(Chars)), x \in Seq(Chars) :
         JoinAll(Append(s, x)) = Join(JoinAll(s), x)
    /\ \A s \in Seq(Seq(Chars)) : JoinAll(s) \in Joins
<1>1. JoinAll(<<>>) = [complete |-> <<>>, acc |-> <<>>]
  <2>1. <<>> \in Seq(Seq(Chars)) /\ Len(<<>>) = 0
    OBVIOUS
  <2>. QED
    BY <2>1, JoinedSteps DEF JoinAll
<1>2. ASSUME NEW s \in Seq(Seq(Chars)) PROVE JoinAll(s) \in Joins
  <2>1. Len(s) \in 0..Len(s)
    OBVIOUS
  <2>. QED
    BY <2>1, JoinedSteps DEF JoinAll
<1>3. ASSUME NEW s \in Seq(Seq(Chars)), NEW x \in Seq(Chars)
      PROVE  JoinAll(Append(s, x)) = Join(JoinAll(s), x)
  <2> DEFINE u == Append(s, x)
      n == Len(s)
      T == {k \in 0..n : Joined(u, k) = Joined(s, k)}
  <2>1. /\ u \in Seq(Seq(Chars)) /\ n \in Nat /\ Len(u) = n + 1 /\ u[n + 1] = x
        /\ \A k \in 1..n : u[k] = s[k]
    OBVIOUS
  <2> HIDE DEF u
  <2>2. 0 \in T
    BY <2>1, JoinedSteps
  <2>3. ASSUME NEW k \in 1..n, k - 1 \in T PROVE k \in T
    <3>1. k \in 1..Len(u) /\ k \in 0..n
      BY <2>1
    <3>2. Joined(u, k) = Join(Joined(u, k - 1), u[k])
      BY <2>1, <3>1, JoinedSteps
    <3>3. Joined(s, k) = Join(Joined(s, k - 1), s[k])
      BY JoinedSteps
    <3>. QED
      BY <2>1, <2>3, <3>1, <3>2, <3>3
  <2>4. 0..n \subseteq T
    <3> HIDE DEF T
    <3>. QED
      BY <2>1, <2>2, <2>3, Upward
  <2>5. n \in T
    BY <2>1, <2>4
  <2>6. n + 1 \in 1..Len(u) /\ (n + 1) - 1 = n
    BY <2>1
  <2>7. Joined(u, n + 1) = Join(Joined(u, n), x)
    BY <2>1, <2>6, JoinedSteps
  <2>8. JoinAll(u) = Joined(u, n + 1) /\ JoinAll(s) = Joined(s, n)
    BY <2>1 DEF JoinAll
  <2>. QED
    BY <2>5, <2>7, <2>8 DEF u
<1>. QED
  BY <1>1, <1>2, <1>3

\* Where a statement may begin.
Begins(t, s) == s \in 1..(Len(t) + 1) /\ (s = 1 \/ s - 1 \in StatementEnds(t))

\* A semicolon with only white space before it ends a statement.
LEMMA SemicolonFirst ==
    ASSUME NEW t \in Seq(Chars), NamesPlain(t), NEW s, Begins(t, s),
           NEW j \in s..Len(t), j \in ScanEnds(t), BlankPart(t, s, j - 1)
    PROVE  j \in StatementEnds(t)
<1>1. s \in 1..(Len(t) + 1) /\ (s = 1 \/ s - 1 \in StatementEnds(t)) /\ Len(t) \in Nat
  BY DEF Begins
<1>2. Mode(t, s) = "code" /\ Body(t, s) = "start"
  BY <1>1, StatementBegins
<1>3. j \in s..(Len(t) + 1) /\ j \in 1..Len(t) /\ j \in s..j
  BY <1>1
<1>4. Mode(t, j) = "code" /\ Body(t, j) = "start"
  <2>1. \A i \in s..(j - 1) : t[i] \in Blanks
    BY DEF BlankPart
  <2>2. \A i \in s..j : Mode(t, i) = "code" /\ Body(t, i) = Body(t, s)
    BY <1>1, <1>2, <1>3, <2>1, BlankReading
  <2>. QED
    BY <1>2, <1>3, <2>2
<1>5. t[j] = ";" /\ Counts(t, j)
  BY <1>3, <1>4, EndsFacts
<1>6. Body(t, j + 1) = NextBody(t, j, "start")
  BY <1>3, <1>4, BodySteps
<1>7. NextBody(t, j, "start") = "start"
  BY <1>5 DEF NextBody
<1>. QED
  BY <1>3, <1>5, <1>6, <1>7, EndsFacts

\* SQLite calls a part of the text complete when its semicolon ends a
\* statement.
LEMMA CompleteAt ==
    ASSUME NEW t \in Seq(Chars), NamesPlain(t), NEW s, Begins(t, s),
           NEW j \in s..Len(t), j \in ScanEnds(t)
    PROVE  Complete(SubSeq(t, s, j)) <=> j \in StatementEnds(t)
<1>1. s \in 1..(Len(t) + 1) /\ (s = 1 \/ s - 1 \in StatementEnds(t)) /\ Len(t) \in Nat
      /\ j \in 1..Len(t) /\ j \in (s - 1)..Len(t) /\ s \in Nat
  BY DEF Begins
<1>2. Mode(t, s) = "code" /\ Body(t, s) = "start"
  BY <1>1, StatementBegins
<1>3. /\ t[j] = ";" /\ Mode(t, j) \in {"code", "bracket", "backquote"}
      /\ Counts(t, j) <=> Mode(t, j) = "code"
  BY <1>1, EndsFacts
<1> DEFINE u == SubSeq(t, s, j)
<1>4. IsPart(u, t, s, j)
  <2>1. ~Pair(t, j, "-", "-") /\ ~Pair(t, j, "/", "*") /\ ~Pair(t, j, "*", "/")
    BY <1>3 DEF Pair
  <2>. QED
    BY <1>1, <2>1 DEF IsPart
<1> HIDE DEF u
<1>5. Len(u) = j - s + 1 /\ Len(u) \in Nat
  BY <1>4, PartText
<1>6. Mode(u, Len(u) + 1) = Mode(t, j + 1) /\ Body(u, Len(u) + 1) = Body(t, j + 1)
  <2>1. Len(u) + 1 \in 1..(Len(u) + 1) /\ s + (Len(u) + 1) - 1 = j + 1
    BY <1>1, <1>5
  <2>2. Mode(u, Len(u) + 1) = Mode(t, s + (Len(u) + 1) - 1)
    BY <1>2, <1>4, <2>1, ModeShift
  <2>3. Body(u, Len(u) + 1) = Body(t, s + (Len(u) + 1) - 1)
    BY <1>2, <1>4, <2>1, BodyShift
  <2>. QED
    BY <2>1, <2>2, <2>3
<1>7. Mode(t, j + 1) = Mode(t, j)
  <2>1. Mode(t, j + 1) = NextMode(t, j, Mode(t, j))
    BY <1>1, ModeSteps
  <2>2. /\ NextMode(t, j, "code") = "code" /\ NextMode(t, j, "bracket") = "bracket"
        /\ NextMode(t, j, "backquote") = "backquote"
    BY <1>3 DEF NextMode, Pair
  <2>. QED
    BY <1>3, <2>1, <2>2
<1>8. Complete(u) <=> Mode(t, j) = "code" /\ Body(t, j + 1) = "start"
  BY <1>3, <1>6, <1>7 DEF Complete
<1>9. j \in StatementEnds(t) <=> Counts(t, j) /\ Body(t, j + 1) = "start"
  BY <1>1, <1>3, EndsFacts
<1>. QED
  BY <1>3, <1>8, <1>9 DEF u

\* What was left of the pieces before the place a, in the statement that
\* begins at b.
Left(t, b, a) == IF a = b THEN <<>> ELSE SubSeq(t, b, a - 2)

\* The piece at a is of the statement that begins at b.
Follows(t, b, a) ==
    /\ Begins(t, b) /\ a \in b..(Len(t) + 1)
    /\ a # b => a - 1 \in ScanEnds(t) /\ a - 1 \notin StatementEnds(t)

\* The piece from a to j - 1 makes it the statement's text up to j - 1.
LEMMA JoinStep ==
    ASSUME NEW t \in Seq(Chars), NamesPlain(t), NEW b, NEW a, Follows(t, b, a),
           NEW j \in a..Len(t), j \in ScanEnds(t),
           NEW r \in Joins, r.acc = Left(t, b, a)
    PROVE  Join(r, SubSeq(t, a, j - 1)) =
             IF j \in StatementEnds(t)
               THEN [complete |-> Append(r.complete, SubSeq(t, b, j - 1)), acc |-> <<>>]
               ELSE [complete |-> r.complete, acc |-> SubSeq(t, b, j - 1)]
<1>1. /\ b \in 1..(Len(t) + 1) /\ a \in b..(Len(t) + 1) /\ Begins(t, b) /\ Len(t) \in Nat
      /\ a # b => a - 1 \in ScanEnds(t) /\ a - 1 \notin StatementEnds(t)
  BY DEF Follows, Begins
<1>2. /\ j \in b..Len(t) /\ j \in a..(Len(t) + 1) /\ b \in 1..Len(t) /\ j - 1 \in 0..Len(t)
      /\ a \in 1..(Len(t) + 1) /\ j \in 1..Len(t)
  BY <1>1
<1> DEFINE piece == SubSeq(t, a, j - 1)
    front == IF r.acc = <<>> THEN <<>> ELSE Append(r.acc, ";")
    acc == front \o piece
    all == SubSeq(t, b, j - 1)
<1>3. piece \in Seq(Chars)
  BY <1>2, SubText
<1>4. acc = all
  <2>1. CASE a = b
    <3>1. front = <<>>
      BY <2>1 DEF Left
    <3>2. <<>> \o piece = piece
      <4> HIDE DEF piece
      <4>. QED
        BY <1>3
    <3>. QED
      BY <2>1, <3>1, <3>2
  <2>2. CASE a # b
    <3>1. a - 1 \in b..Len(t) /\ (a - 1) - 1 = a - 2 /\ a - 2 \in 0..Len(t)
          /\ b \in 1..(Len(t) + 1)
      BY <1>1, <1>2, <2>2
    <3>2. t[a - 1] = ";"
      BY <1>1, <2>2, EndsFacts
    <3>3. Append(SubSeq(t, b, a - 2), ";") = SubSeq(t, b, a - 1)
      <4> DEFINE k == a - 1
      <4>1. k \in b..Len(t)
        BY <3>1
      <4> HIDE DEF k
      <4>2. Append(SubSeq(t, b, k - 1), t[k]) = SubSeq(t, b, k)
        BY <1>2, <4>1, PartAppend
      <4>. QED
        BY <3>1, <3>2, <4>2 DEF k
    <3>4. SubSeq(t, b, a - 2) # <<>>
      <4>1. ~BlankPart(t, b, a - 2)
        <5> DEFINE k == a - 1
        <5>1. k \in b..Len(t) /\ k \in ScanEnds(t) /\ k \notin StatementEnds(t)
          BY <1>1, <2>2, <3>1
        <5> HIDE DEF k
        <5>2. ~BlankPart(t, b, k - 1)
          BY <1>1, <5>1, SemicolonFirst
        <5>. QED
          BY <3>1, <5>2 DEF k
      <4>2. b <= a - 2
        <5>1. (\A i \in b..(a - 2) : FALSE) => BlankPart(t, b, a - 2)
          BY DEF BlankPart
        <5>. QED
          BY <1>1, <1>2, <4>1, <5>1
      <4>3. Len(SubSeq(t, b, a - 2)) = a - 2 - b + 1
        BY <3>1, <4>2, SubText
      <4>4. a - 2 - b + 1 # 0
        BY <1>1, <1>2, <4>2
      <4>. QED
        BY <4>3, <4>4
    <3>5. r.acc = SubSeq(t, b, a - 2)
      BY <2>2 DEF Left
    <3>6. front = SubSeq(t, b, a - 1)
      BY <3>3, <3>4, <3>5
    <3>7. SubSeq(t, b, a - 1) \o SubSeq(t, a, j - 1) = SubSeq(t, b, j - 1)
      BY <1>1, <1>2, PartConcat
    <3>. QED
      BY <3>6, <3>7
  <2>. QED
    BY <2>1, <2>2
<1>5. Join(r, piece) = IF Complete(Append(acc, ";"))
                         THEN [complete |-> Append(r.complete, acc), acc |-> <<>>]
                         ELSE [complete |-> r.complete, acc |-> acc]
  BY DEF Join
<1>6. Append(all, ";") = SubSeq(t, b, j)
  <2>1. t[j] = ";"
    BY <1>2, EndsFacts
  <2>2. Append(SubSeq(t, b, j - 1), t[j]) = SubSeq(t, b, j)
    BY <1>2, PartAppend
  <2>. QED
    BY <2>1, <2>2
<1>7. Complete(SubSeq(t, b, j)) <=> j \in StatementEnds(t)
  BY <1>1, <1>2, CompleteAt
<1> HIDE DEF acc, all, piece
<1>. QED
  BY <1>4, <1>5, <1>6, <1>7 DEF all, piece

\* After the first j characters the statements put together are SQLite's, and
\* what is left is the text of the one that has begun.
JoinsWell(t, j) ==
    LET a == Pieces(t, ScanEnds(t), j)
        b == Pieces(t, StatementEnds(t), j)
        r == JoinAll(a.complete)
    IN  /\ r.complete = b.complete
        /\ r.acc = Left(t, b.next, a.next)
        /\ Follows(t, b.next, a.next)

\* It is so after every number of characters.
LEMMA AllJoinWell ==
    ASSUME NEW t \in Seq(Chars), NamesPlain(t)
    PROVE  \A j \in 0..Len(t) : JoinsWell(t, j)
<1> DEFINE n == Len(t)
    A == ScanEnds(t)
    B == StatementEnds(t)
    T == {j \in 0..n : JoinsWell(t, j)}
<1>1. n \in Nat /\ B \subseteq A /\ B \in SUBSET (1..n)
  <2>1. B \subseteq A /\ B \in SUBSET (1..n)
    BY EndsFacts
  <2>. QED
    BY <2>1
<1>2. 0 \in T
  <2>1. /\ Pieces(t, A, 0) = [complete |-> <<>>, next |-> 1]
        /\ Pieces(t, B, 0) = [complete |-> <<>>, next |-> 1]
    BY PiecesSteps
  <2>2. JoinAll(<<>>) = [complete |-> <<>>, acc |-> <<>>]
    BY JoinedAppend
  <2>3. Follows(t, 1, 1)
    BY <1>1 DEF Follows, Begins
  <2>4. Left(t, 1, 1) = <<>>
    BY DEF Left
  <2>5. JoinsWell(t, 0)
    BY <2>1, <2>2, <2>3, <2>4 DEF JoinsWell
  <2>. QED
    BY <1>1, <2>5
<1>3. ASSUME NEW j \in 1..n, j - 1 \in T PROVE j \in T
  <2> DEFINE a == Pieces(t, A, j - 1)
      b == Pieces(t, B, j - 1)
      a2 == Pieces(t, A, j)
      b2 == Pieces(t, B, j)
      r == JoinAll(a.complete)
      x == SubSeq(t, a.next, j - 1)
      y == SubSeq(t, b.next, j - 1)
  <2>1. j - 1 \in 0..n /\ j \in 0..n /\ j \in Nat /\ (j - 1) + 1 = j
    BY <1>1
  <2>2. a2 = NextPieces(t, A, j, a) /\ b2 = NextPieces(t, B, j, b)
    BY PiecesSteps
  <2>3. a \in Cuts(t) /\ b \in Cuts(t) /\ CutsWell(t, A, j - 1) /\ CutsWell(t, B, j - 1)
    BY <2>1, PiecesSteps, CutsAllWell
  <2>4. /\ a.complete \in Seq(Seq(Chars)) /\ b.complete \in Seq(Seq(Chars))
        /\ a.next \in 1..j /\ b.next \in 1..j
    <3>1. /\ a.next \in 1..((j - 1) + 1) /\ b.next \in 1..((j - 1) + 1)
      BY <2>3 DEF CutsWell
    <3>. QED
      BY <2>1, <2>3, <3>1 DEF Cuts
  <2>5. \A i \in b.next..(j - 1) : i \notin B
    BY <2>3 DEF CutsWell
  <2>6. r.complete = b.complete /\ r.acc = Left(t, b.next, a.next)
        /\ Follows(t, b.next, a.next)
    BY <1>3 DEF JoinsWell
  <2>7. r \in Joins
    BY <2>4, JoinedAppend
  <2>8. JoinsWell(t, j) <=>
          /\ JoinAll(a2.complete).complete = b2.complete
          /\ JoinAll(a2.complete).acc = Left(t, b2.next, a2.next)
          /\ Follows(t, b2.next, a2.next)
    BY DEF JoinsWell
  <2>9. CASE j \notin A
    <3>1. j \notin B
      BY <1>1, <2>9
    <3>2. a2 = a /\ b2 = b
      BY <2>2, <2>9, <3>1 DEF NextPieces
    <3>3. JoinsWell(t, j)
      <4> HIDE DEF a, b, a2, b2
      <4>. QED
        BY <2>6, <2>8, <3>2
    <3>. QED
      BY <2>1, <3>3
  <2>10. CASE j \in A
    <3>1. a2 = [complete |-> Append(a.complete, x), next |-> j + 1]
      BY <2>2, <2>10 DEF NextPieces
    <3>2. b2 = IF j \notin B THEN b
               ELSE [complete |-> Append(b.complete, y), next |-> j + 1]
      BY <2>2 DEF NextPieces
    <3> HIDE DEF a2, b2
    <3>3. x \in Seq(Chars)
      <4> HIDE DEF a, n
      <4>1. a.next \in 1..(Len(t) + 1) /\ j - 1 \in 0..Len(t)
        BY <1>1, <2>1, <2>4 DEF n
      <4>. QED
        BY <4>1, SubText
    <3>4. JoinAll(a2.complete) = Join(r, x)
      <4> HIDE DEF a, x
      <4>1. JoinAll(Append(a.complete, x)) = Join(JoinAll(a.complete), x)
        BY <2>4, <3>3, JoinedAppend
      <4>. QED
        BY <3>1, <4>1
    <3>5. Join(r, x) = IF j \in B
                         THEN [complete |-> Append(r.complete, y), acc |-> <<>>]
                         ELSE [complete |-> r.complete, acc |-> y]
      <4> HIDE DEF a, b, r, n
      <4>1. j \in a.next..Len(t)
        BY <1>1, <2>1, <2>4 DEF n
      <4>. QED
        BY <2>6, <2>7, <2>10, <4>1, JoinStep
    <3> HIDE DEF a, b, r, x, y
    <3>6. CASE j \in B
      <4>1. a2.next = j + 1 /\ b2.next = j + 1 /\ b2.complete = Append(b.complete, y)
        BY <3>1, <3>2, <3>6
      <4>2. JoinAll(a2.complete).complete = Append(b.complete, y)
            /\ JoinAll(a2.complete).acc = <<>>
        <5>1. JoinAll(a2.complete) = [complete |-> Append(r.complete, y), acc |-> <<>>]
          BY <3>4, <3>5, <3>6
        <5>. QED
          BY <2>6, <5>1
      <4>3. Left(t, j + 1, j + 1) = <<>>
        BY DEF Left
      <4>4. Follows(t, j + 1, j + 1)
        <5>1. j + 1 \in 1..(n + 1) /\ (j + 1) - 1 = j /\ j + 1 \in (j + 1)..(n + 1)
          BY <1>1, <2>1
        <5>. QED
          BY <3>6, <5>1 DEF Follows, Begins
      <4>5. JoinsWell(t, j)
        BY <2>8, <4>1, <4>2, <4>3, <4>4
      <4>. QED
        BY <2>1, <4>5
    <3>7. CASE j \notin B
      <4>1. a2.next = j + 1 /\ b2 = b
        BY <3>1, <3>2, <3>7
      <4>2. JoinAll(a2.complete).complete = b.complete /\ JoinAll(a2.complete).acc = y
        <5>1. JoinAll(a2.complete) = [complete |-> r.complete, acc |-> y]
          BY <3>4, <3>5, <3>7
        <5>. QED
          BY <2>6, <5>1
      <4>3. Left(t, b.next, j + 1) = y
        <5>1. j + 1 # b.next /\ (j + 1) - 2 = j - 1
          BY <2>1, <2>4
        <5>. QED
          BY <5>1 DEF Left, y
      <4>4. Follows(t, b.next, j + 1)
        <5>1. Begins(t, b.next)
          BY <2>6 DEF Follows
        <5>2. j + 1 \in b.next..(n + 1) /\ (j + 1) - 1 = j
          BY <1>1, <2>1, <2>4
        <5>. QED
          BY <2>10, <3>7, <5>1, <5>2 DEF Follows
      <4>5. JoinsWell(t, j)
        BY <2>8, <4>1, <4>2, <4>3, <4>4
      <4>. QED
        BY <2>1, <4>5
    <3>. QED
      BY <3>6, <3>7
  <2>. QED
    BY <2>9, <2>10
<1>4. 0..n \subseteq T
  <2> HIDE DEF T
  <2>. QED
    BY <1>1, <1>2, <1>3, Upward
<1>. QED
  BY <1>4

\* completeStatements divides a text as SQLite does; so it leaves what SQLite
\* leaves, unless the text ends in a semicolon.
LEMMA CompleteExact ==
    ASSUME NEW t \in Seq(Chars), NamesPlain(t)
    PROVE  /\ CompleteStatements(t).complete = Statements(t).complete
           /\ Len(t) \notin ScanEnds(t) =>
                CompleteStatements(t).remainder = Statements(t).remainder
<1> DEFINE n == Len(t)
    A == ScanEnds(t)
    B == StatementEnds(t)
    a == Pieces(t, A, n)
    b == Pieces(t, B, n)
    r == JoinAll(a.complete)
    rest == SubSeq(t, a.next, n)
<1>1. n \in Nat /\ n \in 0..n
  OBVIOUS
<1>2. /\ r.complete = b.complete /\ r.acc = Left(t, b.next, a.next)
      /\ Follows(t, b.next, a.next)
  <2>1. JoinsWell(t, n)
    BY <1>1, AllJoinWell
  <2>. QED
    BY <2>1 DEF JoinsWell
<1>3. /\ ScanStatements(t) = [complete |-> a.complete, remainder |-> rest]
      /\ Statements(t) = [complete |-> b.complete, remainder |-> SubSeq(t, b.next, n)]
  <2>1. ScanStatements(t) = Cut(t, A) /\ Statements(t) = Cut(t, B)
    BY EndsFacts
  <2>. QED
    BY <2>1 DEF Cut
<1>4. CompleteStatements(t) =
        [complete |-> r.complete,
         remainder |-> IF r.acc = <<>> THEN rest
                       ELSE IF rest = <<>> THEN r.acc
                       ELSE Append(r.acc, ";") \o rest]
  <2> HIDE DEF a, b, rest
  <2>1. ScanStatements(t).complete = a.complete /\ ScanStatements(t).remainder = rest
    BY <1>3
  <2>. QED
    BY <2>1 DEF CompleteStatements, JoinAll
<1> DEFINE left == IF r.acc = <<>> THEN rest
                 ELSE IF rest = <<>> THEN r.acc
                 ELSE Append(r.acc, ";") \o rest
<1>8. CompleteStatements(t).complete = r.complete /\ CompleteStatements(t).remainder = left
  <2>1. CompleteStatements(t) = [complete |-> r.complete, remainder |-> left]
    BY <1>4
  <2> HIDE DEF r, left
  <2>. QED
    BY <2>1
<1>9. Statements(t).complete = b.complete /\ Statements(t).remainder = SubSeq(t, b.next, n)
  <2> DEFINE end == SubSeq(t, b.next, n)
  <2>1. Statements(t) = [complete |-> b.complete, remainder |-> end]
    BY <1>3
  <2> HIDE DEF b, end
  <2>2. Statements(t).complete = b.complete /\ Statements(t).remainder = end
    BY <2>1
  <2>. QED
    BY <2>2 DEF end
<1>5. CutsWell(t, A, n) /\ a \in Cuts(t)
  BY <1>1, CutsAllWell, PiecesSteps
<1>6. a.next \in 1..(n + 1) /\ b.next \in 1..(n + 1) /\ a.next >= b.next
      /\ (a.next = 1 \/ a.next - 1 \in A)
      /\ (a.next # b.next => a.next - 1 \in A /\ a.next - 1 \notin B)
      /\ Begins(t, b.next)
  BY <1>1, <1>2, <1>5 DEF CutsWell, Follows, Begins
<1> HIDE DEF a, b, r, rest
<1>7. ASSUME n \notin A
      PROVE  CompleteStatements(t).remainder = SubSeq(t, b.next, n)
  <2>1. CASE a.next = b.next
    <3>1. r.acc = <<>>
      BY <1>2, <2>1 DEF Left
    <3>. QED
      BY <1>8, <2>1, <3>1 DEF rest
  <2>2. CASE a.next # b.next
    <3>1. /\ a.next - 1 \in b.next..n /\ (a.next - 1) - 1 = a.next - 2
          /\ a.next - 2 \in 0..n /\ a.next <= n /\ b.next \in 1..n
          /\ a.next \in b.next..(n + 1) /\ n + 1 \in a.next..(n + 1) /\ (n + 1) - 1 = n
      <4>1. a.next - 1 # n
        BY <1>6, <1>7, <2>2
      <4>. QED
        BY <1>1, <1>6, <2>2, <4>1
    <3>2. t[a.next - 1] = ";"
      <4>1. a.next - 1 \in A
        BY <1>6, <2>2
      <4>. QED
        BY <4>1, EndsFacts
    <3>3. Append(SubSeq(t, b.next, a.next - 2), ";") = SubSeq(t, b.next, a.next - 1)
      <4> DEFINE k == a.next - 1
      <4>1. k \in b.next..n
        BY <3>1
      <4> HIDE DEF k
      <4>2. Append(SubSeq(t, b.next, k - 1), t[k]) = SubSeq(t, b.next, k)
        BY <3>1, <4>1, PartAppend
      <4>. QED
        BY <3>1, <3>2, <4>2 DEF k
    <3>4. SubSeq(t, b.next, a.next - 2) # <<>>
      <4> DEFINE k == a.next - 1
      <4>1. k \in b.next..n /\ k \in A /\ k \notin B
        BY <1>6, <2>2, <3>1
      <4> HIDE DEF k
      <4>2. ~BlankPart(t, b.next, k - 1)
        BY <1>6, <4>1, SemicolonFirst
      <4>3. b.next <= a.next - 2
        <5>1. (\A i \in b.next..(k - 1) : FALSE) => BlankPart(t, b.next, k - 1)
          BY DEF BlankPart
        <5>. QED
          BY <1>6, <3>1, <4>2, <5>1 DEF k
      <4>4. Len(SubSeq(t, b.next, a.next - 2)) = a.next - 2 - b.next + 1
        BY <1>6, <3>1, <4>3, SubText
      <4>5. a.next - 2 - b.next + 1 # 0
        BY <1>6, <4>3
      <4>. QED
        BY <4>4, <4>5
    <3>5. r.acc = SubSeq(t, b.next, a.next - 2)
      BY <1>2, <2>2 DEF Left
    <3>6. rest # <<>>
      <4>1. Len(rest) = n - a.next + 1
        BY <1>1, <1>6, <3>1, SubText DEF rest
      <4>2. n - a.next + 1 # 0
        BY <1>1, <1>6, <3>1
      <4>. QED
        BY <4>1, <4>2
    <3>7. SubSeq(t, b.next, a.next - 1) \o SubSeq(t, a.next, (n + 1) - 1)
            = SubSeq(t, b.next, (n + 1) - 1)
      BY <1>6, <3>1, PartConcat
    <3>8. CompleteStatements(t).remainder = Append(r.acc, ";") \o rest
      BY <1>8, <3>4, <3>5, <3>6
    <3>. QED
      BY <3>1, <3>3, <3>5, <3>7, <3>8 DEF rest
  <2>. QED
    BY <2>1, <2>2
<1>. QED
  BY <1>2, <1>7, <1>8, <1>9
=============================================================================
