----------------------------- MODULE ScanProofs -----------------------------
(***************************************************************************)
(* Why both readers hand out every row once, in its order and in every     *)
(* column group alike, for every table that they open and every limit and  *)
(* predicate, but for the files that v2 sets back in place of others, and  *)
(* why they miss no row of any.                                            *)
(*                                                                         *)
(* What a queue holds is described by a chain: numbers that grow from what *)
(* is handed out to what is read, such that every entry of the queue is    *)
(* what lies between two of them.  For v3 they count the kept rows, for v2 *)
(* the row groups.  A load adds a link at one end, a batch takes a part of *)
(* a link from the other, and pos is where all chains begin.               *)
(***************************************************************************)
EXTENDS Scan, SequenceTheorems, FiniteSetTheorems, WellFoundedInduction, TLAPS

\* The entries of q are what F says of neighbouring numbers of a sequence that
\* grows from lo to hi, within 0 .. N.
Chain(q, F, N, lo, hi) ==
    \E s \in [1 .. Len(q) + 1 -> 0 .. N] :
        /\ s[1] = lo /\ s[Len(q) + 1] = hi
        /\ \A i, j \in 1 .. Len(q) + 1 : i < j => s[i] < s[j]
        /\ \A j \in 1 .. Len(q) : q[j] = F[s[j]][s[j + 1]]

\* The number of rows to hand out.
K == Len(filter.keep)

\* The kept rows after a and up to b.
Slices == [a \in 0 .. K |-> [b \in 0 .. K |-> SubSeq(filter.keep, a + 1, b)]]

\* The table of the row groups after a and up to b.
TablesOf(p) ==
    [a \in 0 .. Len(table[p]) |-> [b \in 0 .. Len(table[p]) |->
        [i \in 1 .. b - a |-> RowsOf(p, a + i)]]]

\* The row groups that are read: planned and no longer in the plan.
Ready(p) == next[p] - Len(plan[p])

\* What Init says of the inputs, which no step changes.
Given ==
    /\ reader \in {"v2", "v3"}
    /\ table \in Tables
    /\ order \in Seq(Nat) /\ order # <<>> /\ Paths \subseteq 1 .. Len(table)
    /\ reader = "v3" => order = [g \in 1 .. Len(table) |-> g]
    /\ limit \in Nat \ {0} /\ cap \in Nat \ {0}
    /\ filter.keep \in Seq(Nat \ {0}) /\ Range(filter.keep) \subseteq 1 .. TotalRows
    /\ filter.pushed \in BOOLEAN
    /\ ~filter.pushed => filter.keep = [r \in 1 .. TotalRows |-> r]
    /\ filter.pushed => reader = "v3" /\ Len(table) = 1

\* The inputs of a reader that is open: its column groups have the same rows.
InputsOK == Given /\ SameRows(table)

\* The types of the variables that the argument is about.
Shapes ==
    /\ next \in [1 .. Len(table) -> Nat]
    /\ offset \in [1 .. Len(table) -> Nat]
    /\ plan \in [1 .. Len(table) -> Seq(Nat)]
    /\ DOMAIN queue = 1 .. Len(table)
    /\ at \in [1 .. Len(table) -> [chunk : Nat, off : Nat]]
    /\ pos \in Nat /\ rowLimit \in Nat /\ failures \in Nat

\* The plan of a column group names the row groups after those that are read,
\* and its offset is where the last of them ends.
PlanOK(p) ==
    /\ next[p] <= Len(table[p]) /\ Len(plan[p]) <= next[p]
    /\ \A i \in 1 .. Len(plan[p]) : plan[p][i] = Ready(p) + i
    /\ offset[p] = End(p, next[p])

\* A queue of v3 is a chain of kept rows, from those handed out to those read.
QueueV3(p) ==
    /\ queue[p] \in Seq(Seq(Nat))
    /\ Chain(queue[p], Slices, K, pos, Kept(End(p, Ready(p))))

\* A queue of v2 is a chain of row groups, and at[p] is the place of pos in its
\* first table, or one before it when ResetChunkState set back another file than
\* it should; without a table it is the start of the next one.
QueueV2(p) ==
    /\ queue[p] \in Seq(Seq(Seq(Nat)))
    /\ \E lo \in 0 .. Len(table[p]) :
        /\ Chain(queue[p], TablesOf(p), Len(table[p]), lo, Ready(p))
        /\ at[p].chunk >= 1
        /\ queue[p] = <<>> => at[p] = Start[p]
        /\ queue[p] # <<>> =>
             at[p].chunk <= Len(Head(queue[p])) /\ at[p].off < Size(p, lo + at[p].chunk)
        /\ End(p, lo + at[p].chunk - 1) + at[p].off <= pos
        /\ OwnNumber(p) => pos = End(p, lo + at[p].chunk - 1) + at[p].off

Running == phase \notin {"eof", "error", "closed"}
QueuesOK == Running => \A p \in Paths : IF reader = "v3" THEN QueueV3(p) ELSE QueueV2(p)

\* v3 plans until every group has data, and reads all that is planned.
PhaseV3 ==
    /\ phase \in {"idle", "plan", "io", "emit", "eof", "error"}
    /\ phase \in {"idle", "emit"} => \A p \in Paths : plan[p] = <<>>
    /\ phase \in {"io", "emit"} /\ ~filter.pushed => AllHaveData

\* v2 hands out rows up to a limit that every file has read, and loads only when
\* it has reached it.
PhaseV2 ==
    /\ phase \in {"idle", "fill", "plan", "io", "check", "slice", "eof", "error", "closed"}
    /\ phase \in {"idle", "fill", "check", "slice"} =>
         /\ \A p \in Paths : plan[p] = <<>> /\ rowLimit <= offset[p]
         /\ pos <= rowLimit
    /\ phase = "fill" => pos = rowLimit
    /\ phase \in {"plan", "io"} => \A p \in Paths : pos < offset[p]
    /\ phase = "slice" => pos < rowLimit
    /\ phase = "check" => pos < rowLimit \/ pos = TotalRows

Core ==
    /\ Shapes
    /\ \A p \in Paths : PlanOK(p)
    /\ QueuesOK
    /\ IF reader = "v3" THEN PhaseV3 ELSE PhaseV2
    /\ Complete
    /\ RowsAligned

\* Nothing is planned, read or handed out.
Unread ==
    /\ next = [p \in 1 .. Len(table) |-> 0] /\ offset = [p \in 1 .. Len(table) |-> 0]
    /\ plan = [p \in 1 .. Len(table) |-> <<>>] /\ queue = [p \in 1 .. Len(table) |-> <<>>]
    /\ at = Start /\ rowLimit = 0 /\ pos = 0 /\ batch = None

\* The reader is not open yet: v3 does not know its column groups.
Closed == /\ phase = "opening" /\ Given /\ Unread /\ failures = 0
          /\ reader = "v2" => SameRows(table)

Refused == phase = "refused" /\ batch = None /\ Complete

IndInv == Closed \/ Refused \/ (InputsOK /\ Core)

-----------------------------------------------------------------------------
(* Chains.                                                                 *)

\* A set of natural numbers has a least element.
LEMMA LeastElement ==
    ASSUME NEW S, S \subseteq Nat, S # {}
    PROVE  Min(S) \in S /\ \A y \in S : Min(S) <= y
<1>1. \E x \in S : \A y \in S : ~(<<y, x>> \in OpToRel(<, Nat))
  BY WFMin, NatLessThanWellFounded
<1>2. PICK x \in S : \A y \in S : ~(<<y, x>> \in OpToRel(<, Nat))
  BY <1>1
<1>3. \A y \in S : x <= y
  <2>. TAKE y \in S
  <2>1. <<y, x>> \notin OpToRel(<, Nat)
    BY <1>2
  <2>2. x \in Nat /\ y \in Nat
    OBVIOUS
  <2>3. ~(y < x)
    BY <2>1, <2>2 DEF OpToRel
  <2>. QED  BY <2>2, <2>3
<1>. QED  BY <1>3 DEF Min

\* The ends of a chain.
LEMMA ChainEnds ==
    ASSUME NEW S, NEW q \in Seq(S), NEW F, NEW N \in Nat, NEW lo, NEW hi,
           Chain(q, F, N, lo, hi)
    PROVE  /\ lo \in 0 .. N /\ hi \in 0 .. N
           /\ q = <<>> => lo = hi
           /\ q # <<>> => lo < hi
<1>1. Len(q) \in Nat /\ (q = <<>> => Len(q) = 0) /\ (q # <<>> => Len(q) >= 1)
  BY EmptySeq, LenProperties
<1>2. PICK s \in [1 .. Len(q) + 1 -> 0 .. N] :
        /\ s[1] = lo /\ s[Len(q) + 1] = hi
        /\ \A i, j \in 1 .. Len(q) + 1 : i < j => s[i] < s[j]
  BY DEF Chain
<1>3. 1 \in 1 .. Len(q) + 1 /\ Len(q) + 1 \in 1 .. Len(q) + 1
  BY <1>1
<1>4. lo \in 0 .. N /\ hi \in 0 .. N
  BY <1>2, <1>3
<1>5. ASSUME q # <<>> PROVE lo < hi
  BY <1>1, <1>2, <1>3, <1>5
<1>6. ASSUME q = <<>> PROVE lo = hi
  BY <1>1, <1>2, <1>6
<1>. QED  BY <1>4, <1>5, <1>6

\* Nothing is a chain from any place to itself.
LEMMA ChainEmpty ==
    ASSUME NEW F, NEW N \in Nat, NEW lo \in 0 .. N
    PROVE  Chain(<<>>, F, N, lo, lo)
<1>. DEFINE s == [i \in 1 .. 1 |-> lo]
<1>1. Len(<<>>) = 0 /\ Len(<<>>) + 1 = 1 /\ 1 .. Len(<<>>) = {}
  OBVIOUS
<1>2. s \in [1 .. Len(<<>>) + 1 -> 0 .. N] /\ s[1] = lo /\ s[Len(<<>>) + 1] = lo
  BY <1>1
<1>3. \A i, j \in 1 .. Len(<<>>) + 1 : i < j => s[i] < s[j]
  BY <1>1
<1>. HIDE DEF s
<1>4. \A j \in 1 .. Len(<<>>) : <<>>[j] = F[s[j]][s[j + 1]]
  BY <1>1
<1>. QED  BY <1>2, <1>3, <1>4 DEF Chain

\* One slice is a chain.
LEMMA ChainOne ==
    ASSUME NEW F, NEW N \in Nat, NEW lo \in 0 .. N, NEW hi \in 0 .. N, lo < hi, NEW x, x = F[lo][hi]
    PROVE  Chain(<<x>>, F, N, lo, hi)
<1>. DEFINE s == [i \in 1 .. 2 |-> IF i = 1 THEN lo ELSE hi]
<1>1. Len(<<x>>) = 1 /\ <<x>>[1] = x
  OBVIOUS
<1>2. s \in [1 .. Len(<<x>>) + 1 -> 0 .. N]
  BY <1>1
<1>3. s[1] = lo /\ s[2] = hi
  OBVIOUS
<1>4. \A i, j \in 1 .. 2 : i < j => s[i] < s[j]
  OBVIOUS
<1>5. \A j \in 1 .. 1 : <<x>>[j] = F[s[j]][s[j + 1]]
  BY <1>1, <1>3
<1>. HIDE DEF s
<1>. QED  BY <1>1, <1>2, <1>3, <1>4, <1>5 DEF Chain

\* The first slice of a chain, and the chain without it.
LEMMA ChainHead ==
    ASSUME NEW S, NEW q \in Seq(S), NEW F, NEW N \in Nat, NEW lo, NEW hi,
           Chain(q, F, N, lo, hi), q # <<>>
    PROVE  \E m \in 0 .. N : /\ lo < m /\ m <= hi /\ Head(q) = F[lo][m]
                             /\ Chain(Tail(q), F, N, m, hi)
<1>1. Len(q) \in Nat /\ Len(q) >= 1
  BY EmptySeq, LenProperties
<1>2. PICK s \in [1 .. Len(q) + 1 -> 0 .. N] :
        /\ s[1] = lo /\ s[Len(q) + 1] = hi
        /\ \A i, j \in 1 .. Len(q) + 1 : i < j => s[i] < s[j]
        /\ \A j \in 1 .. Len(q) : q[j] = F[s[j]][s[j + 1]]
  BY DEF Chain
<1>3. /\ Tail(q) \in Seq(S) /\ Len(Tail(q)) = Len(q) - 1
      /\ \A i \in 1 .. Len(q) - 1 : Tail(q)[i] = q[i + 1]
  BY HeadTailProperties
<1>4. Head(q) = q[1]
  BY <1>1
<1>. DEFINE n == Len(q)
            t == [i \in 1 .. n |-> s[i + 1]]
<1>5. n \in Nat /\ n >= 1 /\ s \in [1 .. n + 1 -> 0 .. N]
  BY <1>1
<1>6. t \in [1 .. n -> 0 .. N] /\ \A i \in 1 .. n : t[i] = s[i + 1]
  BY <1>5
<1>7. t[1] = s[2] /\ t[n] = hi /\ s[2] \in 0 .. N /\ lo < s[2] /\ s[2] <= hi
  <2>1. 1 \in 1 .. n + 1 /\ 2 \in 1 .. n + 1 /\ n + 1 \in 1 .. n + 1 /\ n \in 1 .. n /\ 1 \in 1 .. n
    BY <1>5
  <2>2. s[2] \in 0 .. N /\ s[n + 1] \in 0 .. N /\ s[1] < s[2]
    BY <1>2, <1>5, <2>1
  <2>3. CASE n = 1
    <3>1. n + 1 = 2
      BY <2>3
    <3>. QED  BY <1>2, <1>6, <2>1, <2>2, <3>1
  <2>4. CASE n # 1
    <3>0. \A k \in Nat : k >= 1 /\ k # 1 => 2 < k + 1
      OBVIOUS
    <3>1. 2 < n + 1
      BY <1>1, <2>4, <3>0
    <3>2. s[2] < s[n + 1]
      BY <1>2, <2>1, <3>1
    <3>3. s[2] <= s[n + 1]
      BY <2>2, <3>2
    <3>. QED  BY <1>2, <1>6, <2>1, <2>2, <3>3
  <2>. QED  BY <2>3, <2>4
<1>8. \A i, j \in 1 .. n : i < j => t[i] < t[j]
  BY <1>2, <1>5, <1>6
<1>9. \A j \in 1 .. n - 1 : Tail(q)[j] = F[t[j]][t[j + 1]]
  <2>. TAKE j \in 1 .. n - 1
  <2>1. j \in 1 .. n /\ j + 1 \in 1 .. n /\ (j + 1) + 1 = j + 2
    BY <1>5
  <2>2. t[j] = s[j + 1] /\ t[j + 1] = s[(j + 1) + 1]
    BY <1>6, <2>1
  <2>3. Tail(q)[j] = q[j + 1]
    BY <1>3
  <2>4. q[j + 1] = F[s[j + 1]][s[(j + 1) + 1]]
    BY <1>2, <2>1
  <2>. QED  BY <2>2, <2>3, <2>4
<1>10. Chain(Tail(q), F, N, s[2], hi)
  <2>1. Len(Tail(q)) = n - 1 /\ Len(Tail(q)) + 1 = n
    BY <1>3, <1>5
  <2>. HIDE DEF n, t
  <2>. QED  BY <1>6, <1>7, <1>8, <1>9, <2>1 DEF Chain
<1>11. Head(q) = F[lo][s[2]]
  <2>1. 1 \in 1 .. Len(q) /\ 1 + 1 = 2
    BY <1>1
  <2>. QED  BY <1>2, <1>4, <2>1
<1>. QED  BY <1>7, <1>10, <1>11

\* Two chains that meet are one.
LEMMA ChainConcat ==
    ASSUME NEW S, NEW q \in Seq(S), NEW r \in Seq(S), NEW F, NEW N \in Nat, NEW lo, NEW m, NEW hi,
           Chain(q, F, N, lo, m), Chain(r, F, N, m, hi)
    PROVE  Chain(q \o r, F, N, lo, hi)
<1>. DEFINE a == Len(q)
            b == Len(r)
<1>1. a \in Nat /\ b \in Nat
  BY LenProperties
<1>2. PICK s \in [1 .. a + 1 -> 0 .. N] :
        /\ s[1] = lo /\ s[a + 1] = m
        /\ \A i, j \in 1 .. a + 1 : i < j => s[i] < s[j]
        /\ \A j \in 1 .. a : q[j] = F[s[j]][s[j + 1]]
  BY DEF Chain
<1>3. PICK t \in [1 .. b + 1 -> 0 .. N] :
        /\ t[1] = m /\ t[b + 1] = hi
        /\ \A i, j \in 1 .. b + 1 : i < j => t[i] < t[j]
        /\ \A j \in 1 .. b : r[j] = F[t[j]][t[j + 1]]
  BY DEF Chain
<1>4. /\ q \o r \in Seq(S) /\ Len(q \o r) = a + b
      /\ \A i \in 1 .. a + b : (q \o r)[i] = IF i <= a THEN q[i] ELSE r[i - a]
  BY ConcatProperties
<1>. DEFINE u == [i \in 1 .. a + b + 1 |-> IF i <= a + 1 THEN s[i] ELSE t[i - a]]
<1>. HIDE DEF a, b
<1>5. u \in [1 .. (a + b) + 1 -> 0 .. N]
  <2>. SUFFICES ASSUME NEW i \in 1 .. (a + b) + 1 PROVE (IF i <= a + 1 THEN s[i] ELSE t[i - a]) \in 0 .. N
    BY <1>1
  <2>1. CASE i <= a + 1
    BY <1>1, <2>1
  <2>2. CASE ~(i <= a + 1)
    <3>1. i - a \in 1 .. b + 1
      BY <1>1, <2>2
    <3>. QED  BY <3>1, <2>2
  <2>. QED  BY <2>1, <2>2
<1>6. /\ \A i \in 1 .. a + 1 : u[i] = s[i]
      /\ \A i \in 1 .. b + 1 : u[i + a] = t[i]
  <2>1. ASSUME NEW i \in 1 .. a + 1 PROVE u[i] = s[i]
    BY <1>1
  <2>2. ASSUME NEW i \in 1 .. b + 1 PROVE u[i + a] = t[i]
    <3>1. i + a \in 1 .. a + b + 1 /\ (i + a) - a = i
      BY <1>1
    <3>2. CASE i = 1
      <4>1. 1 + a <= a + 1 /\ 1 + a = a + 1
        BY <1>1
      <4>. QED  BY <1>2, <1>3, <3>1, <3>2, <4>1
    <3>3. CASE i # 1
      <4>1. ~(i + a <= a + 1)
        BY <1>1, <3>3
      <4>. QED  BY <3>1, <4>1
    <3>. QED  BY <3>2, <3>3
  <2>. QED  BY <2>1, <2>2
<1>. HIDE DEF u
<1>7. u[1] = lo /\ u[(a + b) + 1] = hi
  <2>1. 1 \in 1 .. a + 1 /\ b + 1 \in 1 .. b + 1 /\ (b + 1) + a = (a + b) + 1
    BY <1>1
  <2>. QED  BY <1>2, <1>3, <1>6, <2>1
<1>8. \A i, j \in 1 .. (a + b) + 1 : i < j => u[i] < u[j]
  <2>. SUFFICES ASSUME NEW i \in 1 .. (a + b) + 1, NEW j \in 1 .. (a + b) + 1, i < j PROVE u[i] < u[j]
    OBVIOUS
  <2>1. CASE j <= a + 1
    <3>1. i \in 1 .. a + 1 /\ j \in 1 .. a + 1
      BY <1>1, <2>1
    <3>. QED  BY <1>2, <1>6, <3>1
  <2>2. CASE i >= a + 1
    <3>1. i - a \in 1 .. b + 1 /\ j - a \in 1 .. b + 1 /\ (i - a) + a = i /\ (j - a) + a = j /\ i - a < j - a
      BY <1>1, <2>2
    <3>2. u[i] = t[i - a] /\ u[j] = t[j - a]
      BY <1>6, <3>1
    <3>. QED  BY <1>3, <3>1, <3>2
  <2>3. CASE i < a + 1 /\ j > a + 1
    <3>1. /\ i \in 1 .. a + 1 /\ a + 1 \in 1 .. a + 1
          /\ j - a \in 1 .. b + 1 /\ (j - a) + a = j /\ 1 < j - a /\ 1 \in 1 .. b + 1
      BY <1>1, <2>3
    <3>2. s[i] < m
      BY <1>2, <2>3, <3>1
    <3>3. m < t[j - a]
      BY <1>3, <3>1
    <3>4. s[i] \in Int /\ m \in Int /\ t[j - a] \in Int
      BY <1>2, <1>3, <3>1
    <3>5. u[i] = s[i] /\ u[j] = t[j - a]
      BY <1>6, <3>1
    <3>. QED  BY <3>2, <3>3, <3>4, <3>5
  <2>. QED  BY <1>1, <2>1, <2>2, <2>3
<1>9. \A j \in 1 .. a + b : (q \o r)[j] = F[u[j]][u[j + 1]]
  <2>. TAKE j \in 1 .. a + b
  <2>1. CASE j <= a
    <3>1. j \in 1 .. a + 1 /\ j + 1 \in 1 .. a + 1 /\ j \in 1 .. a
      BY <1>1, <2>1
    <3>2. u[j] = s[j] /\ u[j + 1] = s[j + 1]
      BY <1>6, <3>1
    <3>3. (q \o r)[j] = q[j]
      BY <1>4, <2>1
    <3>4. q[j] = F[s[j]][s[j + 1]]
      BY <1>2, <3>1
    <3>. QED  BY <3>2, <3>3, <3>4
  <2>2. CASE ~(j <= a)
    <3>1. /\ j - a \in 1 .. b + 1 /\ (j - a) + 1 \in 1 .. b + 1 /\ j - a \in 1 .. b
          /\ (j - a) + a = j /\ ((j - a) + 1) + a = j + 1
      BY <1>1, <2>2
    <3>2. u[j] = t[j - a] /\ u[j + 1] = t[(j - a) + 1]
      BY <1>6, <3>1
    <3>3. (q \o r)[j] = r[j - a]
      BY <1>4, <2>2
    <3>4. r[j - a] = F[t[j - a]][t[(j - a) + 1]]
      BY <1>3, <3>1
    <3>. QED  BY <3>2, <3>3, <3>4
  <2>. QED  BY <2>1, <2>2
<1>. QED
  <2>1. Len(q \o r) = a + b
    BY <1>4
  <2>. QED  BY <1>5, <1>7, <1>8, <1>9, <2>1, ZenonT(60) DEF Chain

-----------------------------------------------------------------------------
(* Row groups and the rows that are kept.                                  *)

\* Where the row groups of a column group end.
LEMMA RowGroupEnds ==
    ASSUME InputsOK
    PROVE  /\ TotalRows \in Nat
           /\ \A p \in 1 .. Len(table) :
                /\ Len(table[p]) \in Nat
                /\ \A k \in 0 .. Len(table[p]) : End(p, k) \in 0 .. TotalRows
                /\ \A j, k \in 0 .. Len(table[p]) : j < k => End(p, j) < End(p, k)
                /\ End(p, Len(table[p])) = TotalRows
<1>1. table \in Seq(Seq(Nat \ {0})) /\ table # <<>> /\ table \in Tables
  BY ScanAssumption DEF InputsOK, Given
<1>2. DOMAIN table = 1 .. Len(table) /\ Len(table) \in Nat
  BY <1>1, LenProperties
<1>3. ASSUME NEW p \in 1 .. Len(table)
      PROVE  /\ table[p] \in Seq(Nat \ {0}) /\ Len(table[p]) \in Nat /\ DOMAIN table[p] = 1 .. Len(table[p])
             /\ \A k \in 1 .. Len(table[p]) : table[p][k] \in Nat \ {0}
             /\ \A i, j \in 1 .. Len(table[p]) : i < j => table[p][i] < table[p][j]
  <2>1. table[p] \in Seq(Nat \ {0})
    BY <1>1, ElementOfSeq
  <2>2. Len(table[p]) \in Nat /\ DOMAIN table[p] = 1 .. Len(table[p])
    BY <2>1, LenProperties
  <2>3. Increasing(table[p])
    BY <1>1, <1>2, ScanAssumption
  <2>4. \A k \in 1 .. Len(table[p]) : table[p][k] \in Nat \ {0}
    BY <2>1, ElementOfSeq
  <2>. QED  BY <2>1, <2>2, <2>3, <2>4 DEF Increasing
<1>4. \A g, h \in 1 .. Len(table) : table[g] # <<>> => table[h] # <<>> /\ table[g][Len(table[g])] = table[h][Len(table[h])]
  <2>1. \A g, h \in DOMAIN table : table[g] # <<>> => table[h] # <<>> /\ Last(table[g]) = Last(table[h])
    BY DEF InputsOK, SameRows
  <2>. QED  BY <1>2, <2>1 DEF Last
<1>5. order[1] \in 1 .. Len(table)
  <2>1. Len(order) \in Nat \ {0} /\ DOMAIN order = 1 .. Len(order)
    BY EmptySeq, LenProperties DEF InputsOK, Given
  <2>2. 1 \in DOMAIN order
    BY <2>1
  <2>3. order[1] \in Paths
    BY <2>2 DEF Paths, ToSet
  <2>. QED  BY <2>3 DEF InputsOK, Given
<1>6. ASSUME NEW p \in 1 .. Len(table)
      PROVE  End(p, Len(table[p])) = TotalRows
  <2>. DEFINE o == order[1]
  <2>0. o \in 1 .. Len(table)
    BY <1>5
  <2>1. (table[p] = <<>> => Len(table[p]) = 0) /\ (table[o] = <<>> => Len(table[o]) = 0)
    OBVIOUS
  <2>2. CASE table[p] = <<>>
    <3>1. table[o] = <<>>
      BY <1>4, <2>0, <2>2
    <3>. QED  BY <2>1, <2>2, <3>1 DEF End, TotalRows
  <2>3. CASE table[p] # <<>>
    <3>1. table[o] # <<>> /\ table[p][Len(table[p])] = table[o][Len(table[o])]
      BY <1>4, <2>0, <2>3
    <3>2. Len(table[p]) # 0 /\ Len(table[o]) # 0
      <4>1. table[p] \in Seq(Nat \ {0}) /\ table[o] \in Seq(Nat \ {0})
        BY <1>3, <2>0
      <4>. QED  BY <2>3, <3>1, <4>1, EmptySeq
    <3>. QED  BY <3>1, <3>2 DEF End, TotalRows
  <2>. QED  BY <2>2, <2>3
<1>7. ASSUME NEW p \in 1 .. Len(table), NEW k \in 0 .. Len(table[p])
      PROVE  End(p, k) \in Nat /\ (k # 0 => End(p, k) # 0)
  BY <1>3 DEF End
<1>8. ASSUME NEW p \in 1 .. Len(table), NEW j \in 0 .. Len(table[p]), NEW k \in 0 .. Len(table[p]), j < k
      PROVE  End(p, j) < End(p, k)
  <2>1. Len(table[p]) \in Nat
    BY <1>3
  <2>2. CASE j = 0
    <3>1. End(p, k) \in Nat \ {0} /\ End(p, j) = 0
      BY <1>7, <1>8, <2>1, <2>2 DEF End
    <3>. QED  BY <3>1
  <2>3. CASE j # 0
    <3>1. j \in 1 .. Len(table[p]) /\ k \in 1 .. Len(table[p])
      BY <1>8, <2>1, <2>3
    <3>2. table[p][j] < table[p][k]
      BY <1>3, <1>8, <3>1
    <3>3. j # 0 /\ k # 0
      BY <3>1, <2>1
    <3>. QED  BY <3>2, <3>3 DEF End
  <2>. QED  BY <2>2, <2>3
<1>9. ASSUME NEW p \in 1 .. Len(table), NEW k \in 0 .. Len(table[p])
      PROVE  End(p, k) \in 0 .. TotalRows
  <2>1. Len(table[p]) \in Nat
    BY <1>3
  <2>2. k = Len(table[p]) \/ k < Len(table[p])
    BY <2>1
  <2>3. Len(table[p]) \in 0 .. Len(table[p])
    BY <2>1
  <2>4. End(p, k) \in Nat /\ End(p, Len(table[p])) \in Nat
    BY <1>7, <2>3
  <2>5. End(p, k) = End(p, Len(table[p])) \/ End(p, k) < End(p, Len(table[p]))
    BY <1>8, <2>2, <2>3
  <2>. QED  BY <1>6, <2>4, <2>5
<1>10. TotalRows \in Nat
  <2>1. Len(table[order[1]]) \in 0 .. Len(table[order[1]])
    BY <1>3, <1>5
  <2>. QED  BY <1>5, <1>6, <1>7, <2>1
<1>. QED  BY <1>3, <1>6, <1>8, <1>9, <1>10

\* How many rows are kept up to a row.
LEMMA KeptFacts ==
    ASSUME InputsOK
    PROVE  /\ K \in Nat
           /\ \A e \in Nat : Kept(e) \in 0 .. K
           /\ \A d, e \in Nat : d <= e => Kept(d) <= Kept(e)
           /\ Kept(0) = 0 /\ Kept(TotalRows) = K
           /\ ~filter.pushed => K = TotalRows /\ \A e \in 0 .. TotalRows : Kept(e) = e
<1>. DEFINE D == DOMAIN filter.keep
            upTo(e) == {i \in D : filter.keep[i] <= e}
<1>0. TotalRows \in Nat
  BY RowGroupEnds
<1>1. D = 1 .. K /\ K \in Nat /\ \A i \in D : filter.keep[i] \in Nat \ {0} /\ filter.keep[i] <= TotalRows
  <2>1. filter.keep \in Seq(Nat \ {0}) /\ Range(filter.keep) \subseteq 1 .. TotalRows
    BY DEF InputsOK, Given
  <2>2. D = 1 .. K /\ K \in Nat
    BY <2>1, LenProperties DEF K
  <2>3. \A i \in D : filter.keep[i] \in 1 .. TotalRows
    BY <2>1 DEF Range
  <2>. QED  BY <1>0, <2>2, <2>3
<1>2. IsFiniteSet(D) /\ Cardinality(D) = K
  <2>1. 1 \in Int /\ K \in Int
    BY <1>1
  <2>2. IsFiniteSet(1 .. K) /\ Cardinality(1 .. K) = IF 1 > K THEN 0 ELSE K - 1 + 1
    BY <2>1, FS_Interval
  <2>. QED  BY <1>1, <2>2
<1>3. \A e \in Nat : IsFiniteSet(upTo(e)) /\ Kept(e) \in 0 .. K
  <2>. TAKE e \in Nat
  <2>1. upTo(e) \subseteq D
    OBVIOUS
  <2>. HIDE DEF upTo, D
  <2>2. IsFiniteSet(upTo(e)) /\ Cardinality(upTo(e)) <= Cardinality(D)
    BY <1>2, <2>1, FS_Subset
  <2>3. Cardinality(upTo(e)) \in Nat
    BY <2>2, FS_CardinalityType
  <2>4. Kept(e) = Cardinality(upTo(e))
    BY DEF Kept, upTo, D
  <2>. QED  BY <1>1, <1>2, <2>2, <2>3, <2>4
<1>4. \A d, e \in Nat : d <= e => Kept(d) <= Kept(e)
  <2>. SUFFICES ASSUME NEW d \in Nat, NEW e \in Nat, d <= e PROVE Kept(d) <= Kept(e)
    OBVIOUS
  <2>1. upTo(d) \subseteq upTo(e)
    BY <1>1
  <2>. HIDE DEF upTo, D
  <2>2. IsFiniteSet(upTo(e))
    BY <1>3
  <2>3. Cardinality(upTo(d)) <= Cardinality(upTo(e))
    BY <2>1, <2>2, FS_Subset
  <2>. QED  BY <2>3 DEF Kept, upTo, D
<1>5. Kept(0) = 0
  <2>1. upTo(0) = {}
    BY <1>1
  <2>2. Kept(0) = Cardinality({})
    BY <2>1 DEF Kept
  <2>. QED  BY <2>2, FS_EmptySet
<1>6. Kept(TotalRows) = K
  <2>1. upTo(TotalRows) = D
    BY <1>1
  <2>2. Kept(TotalRows) = Cardinality(D)
    BY <2>1 DEF Kept
  <2>. QED  BY <1>2, <2>2
<1>7. ASSUME ~filter.pushed PROVE K = TotalRows /\ \A e \in 0 .. TotalRows : Kept(e) = e
  <2>1. filter.keep = [r \in 1 .. TotalRows |-> r]
    BY <1>7 DEF InputsOK, Given
  <2>2. D = 1 .. TotalRows /\ \A r \in 1 .. TotalRows : filter.keep[r] = r
    BY <2>1
  <2>3. K = TotalRows
    <3>1. 1 .. K = 1 .. TotalRows
      BY <1>1, <2>2
    <3>. QED  BY <1>0, <1>1, <3>1
  <2>4. ASSUME NEW e \in 0 .. TotalRows PROVE Kept(e) = e
    <3>1. upTo(e) = 1 .. e
      BY <1>0, <2>2
    <3>2. Kept(e) = Cardinality(1 .. e)
      BY <3>1 DEF Kept
    <3>3. e \in Nat /\ e \in Int /\ 1 \in Int
      BY <1>0
    <3>4. Cardinality(1 .. e) = IF 1 > e THEN 0 ELSE e - 1 + 1
      BY <3>3, FS_Interval
    <3>. QED  BY <3>2, <3>3, <3>4
  <2>. QED  BY <2>3, <2>4
<1>. QED  BY <1>1, <1>3, <1>4, <1>5, <1>6, <1>7

\* Slices of the kept rows.
LEMMA SliceFacts ==
    ASSUME InputsOK, NEW a \in 0 .. K, NEW b \in 0 .. K, a <= b
    PROVE  /\ Slices[a][b] = SubSeq(filter.keep, a + 1, b)
           /\ Slices[a][b] \in Seq(Nat) /\ Len(Slices[a][b]) = b - a
           /\ \A n \in 1 .. b - a : SubSeq(Slices[a][b], 1, n) = Slices[a][a + n]
           /\ \A n \in 1 .. (b - a) - 1 : SubSeq(Slices[a][b], n + 1, b - a) = Slices[a + n][b]
<1>1. filter.keep \in Seq(Nat \ {0}) /\ K = Len(filter.keep) /\ K \in Nat /\ filter.keep \in Seq(Nat)
  <2>1. filter.keep \in Seq(Nat \ {0}) /\ K \in Nat
    BY KeptFacts DEF InputsOK, Given
  <2>2. Nat \ {0} \subseteq Nat
    OBVIOUS
  <2>3. filter.keep \in Seq(Nat)
    BY <2>1, <2>2, SeqMonotonic
  <2>. QED  BY <2>1, <2>3 DEF K
<1>2. \A c, d \in 0 .. K : Slices[c][d] = SubSeq(filter.keep, c + 1, d)
  BY DEF Slices
<1>3. Slices[a][b] \in Seq(Nat) /\ Len(Slices[a][b]) = b - a
  <2>1. a + 1 \in Int /\ b \in Int /\ \A i \in a + 1 .. b : i \in 1 .. Len(filter.keep)
    BY <1>1
  <2>2. \A i \in a + 1 .. b : filter.keep[i] \in Nat
    BY <1>1, <2>1, ElementOfSeq
  <2>3. SubSeq(filter.keep, a + 1, b) \in Seq(Nat) /\ Len(SubSeq(filter.keep, a + 1, b)) = IF a + 1 <= b THEN b - (a + 1) + 1 ELSE 0
    BY <2>1, <2>2, SubSeqProperties
  <2>4. Len(SubSeq(filter.keep, a + 1, b)) = b - a
    BY <1>1, <2>3
  <2>. QED  BY <1>2, <2>3, <2>4
<1>4. ASSUME NEW n \in 1 .. b - a PROVE SubSeq(Slices[a][b], 1, n) = Slices[a][a + n]
  <2>1. /\ a + 1 \in 1 .. Len(filter.keep) /\ b \in 1 .. Len(filter.keep)
        /\ 1 \in 1 .. b - (a + 1) + 1 /\ n \in 1 .. b - (a + 1) + 1
        /\ (a + 1) + 1 - 1 = a + 1 /\ (a + 1) + n - 1 = a + n /\ a + n \in 0 .. K
    BY <1>1
  <2>2. SubSeq(SubSeq(filter.keep, a + 1, b), 1, n) = SubSeq(filter.keep, (a + 1) + 1 - 1, (a + 1) + n - 1)
    BY <1>1, <2>1, SubSeqOfSubSeq
  <2>. QED  BY <1>2, <2>1, <2>2
<1>5. ASSUME NEW n \in 1 .. (b - a) - 1 PROVE SubSeq(Slices[a][b], n + 1, b - a) = Slices[a + n][b]
  <2>1. /\ a + 1 \in 1 .. Len(filter.keep) /\ b \in 1 .. Len(filter.keep)
        /\ n + 1 \in 1 .. b - (a + 1) + 1 /\ b - a \in 1 .. b - (a + 1) + 1
        /\ (a + 1) + (n + 1) - 1 = (a + n) + 1 /\ (a + 1) + (b - a) - 1 = b /\ a + n \in 0 .. K
    BY <1>1
  <2>2. SubSeq(SubSeq(filter.keep, a + 1, b), n + 1, b - a) = SubSeq(filter.keep, (a + 1) + (n + 1) - 1, (a + 1) + (b - a) - 1)
    BY <1>1, <2>1, SubSeqOfSubSeq
  <2>. QED  BY <1>2, <2>1, <2>2
<1>. QED  BY <1>2, <1>3, <1>4, <1>5

-----------------------------------------------------------------------------
(* What stays, and the first steps of v3.                                  *)

\* What is computed from the inputs alone does not change.
LEMMA Frame ==
    ASSUME UNCHANGED inputs
    PROVE  /\ reader' = reader /\ table' = table /\ order' = order /\ filter' = filter
           /\ Paths' = Paths /\ TotalRows' = TotalRows /\ K' = K /\ Slices' = Slices
           /\ \A p, k : End(p, k)' = End(p, k) /\ Size(p, k)' = Size(p, k)
           /\ \A e : Kept(e)' = Kept(e)
           /\ \A p : TablesOf(p)' = TablesOf(p)
           /\ Start' = Start /\ InputsOK' = InputsOK
           /\ \A p : OwnNumber(p)' = OwnNumber(p)
<1>0. UNCHANGED <<reader, table, order, limit, cap, filter, sized>>
  BY DEF inputs
<1>1. reader' = reader /\ table' = table /\ order' = order /\ filter' = filter /\ limit' = limit /\ cap' = cap
  BY <1>0
<1>2. /\ Paths' = Paths /\ TotalRows' = TotalRows /\ K' = K /\ Start' = Start
      /\ \A p, k : End(p, k)' = End(p, k)
      /\ \A e : Kept(e)' = Kept(e)
  BY <1>1 DEF Paths, TotalRows, End, K, Start, Kept
<1>3. \A p, k : Size(p, k)' = Size(p, k)
  BY <1>2 DEF Size
<1>4. Slices' = Slices
  BY <1>1, <1>2 DEF Slices
<1>5. \A p : TablesOf(p)' = TablesOf(p)
  BY <1>1, <1>2, <1>3 DEF TablesOf, RowsOf
<1>6. \A p : OwnNumber(p)' = OwnNumber(p)
  BY <1>1 DEF OwnNumber
<1>7. InputsOK' = InputsOK
  BY <1>1, <1>2 DEF InputsOK, Given
<1>. QED  BY <1>1, <1>2, <1>3, <1>4, <1>5, <1>6, <1>7

\* The paths are column groups of the table.
LEMMA PathFacts ==
    ASSUME InputsOK
    PROVE  /\ Paths # {} /\ Paths \subseteq 1 .. Len(table) /\ Len(table) \in Nat
           /\ reader = "v3" => Paths = 1 .. Len(table)
<1>1. order \in Seq(Nat) /\ order # <<>> /\ Paths \subseteq 1 .. Len(table)
  BY DEF InputsOK, Given
<1>2. 1 \in DOMAIN order
  <2>1. DOMAIN order = 1 .. Len(order) /\ Len(order) \in Nat \ {0}
    BY <1>1, LenProperties, EmptySeq
  <2>. QED  BY <2>1
<1>3. order[1] \in Paths
  BY <1>2 DEF Paths, ToSet
<1>4. Len(table) \in Nat
  <2>1. table \in Seq(Seq(Nat \ {0}))
    BY ScanAssumption DEF InputsOK, Given
  <2>. QED  BY <2>1, LenProperties
<1>5. ASSUME reader = "v3" PROVE Paths = 1 .. Len(table)
  <2>1. order = [g \in 1 .. Len(table) |-> g]
    BY <1>5 DEF InputsOK, Given
  <2>2. DOMAIN order = 1 .. Len(table) /\ \A g \in 1 .. Len(table) : order[g] = g
    BY <2>1
  <2>3. Paths = {order[i] : i \in DOMAIN order}
    BY DEF Paths, ToSet
  <2>. QED  BY <2>2, <2>3
<1>. QED  BY <1>1, <1>3, <1>4, <1>5

\* The queues stay as they are when neither they nor the rows read and handed
\* out change.
LEMMA QueuesStay ==
    ASSUME UNCHANGED <<inputs, queue, at, pos>>, QueuesOK, Running,
           \A p \in Paths : next'[p] - Len(plan'[p]) = Ready(p)
    PROVE  QueuesOK'
<1>1. reader' = reader /\ table' = table /\ Paths' = Paths /\ K' = K /\ Slices' = Slices /\ Start' = Start
  BY Frame
<1>2. /\ \A p, k : End(p, k)' = End(p, k) /\ Size(p, k)' = Size(p, k)
      /\ \A e : Kept(e)' = Kept(e)
      /\ \A p : TablesOf(p)' = TablesOf(p)
  BY Frame
<1>3. queue' = queue /\ at' = at /\ pos' = pos
  OBVIOUS
<1>4. ASSUME NEW p \in Paths PROVE Ready(p)' = Ready(p)
  BY DEF Ready
<1>5. ASSUME NEW p \in Paths, QueueV3(p) PROVE QueueV3(p)'
  BY <1>1, <1>2, <1>3, <1>4, <1>5, ZenonT(60) DEF QueueV3, Chain
<1>6. ASSUME NEW p \in Paths, QueueV2(p) PROVE QueueV2(p)'
  <2>1. PICK lo \in 0 .. Len(table[p]) :
          /\ Chain(queue[p], TablesOf(p), Len(table[p]), lo, Ready(p))
          /\ at[p].chunk >= 1
          /\ queue[p] = <<>> => at[p] = Start[p]
          /\ queue[p] # <<>> =>
               at[p].chunk <= Len(Head(queue[p])) /\ at[p].off < Size(p, lo + at[p].chunk)
          /\ End(p, lo + at[p].chunk - 1) + at[p].off <= pos
          /\ OwnNumber(p) => pos = End(p, lo + at[p].chunk - 1) + at[p].off
    BY <1>6 DEF QueueV2
  <2>2. Chain(queue'[p], TablesOf(p)', Len(table'[p]), lo, Ready(p)')
    BY <1>1, <1>2, <1>3, <1>4, <2>1
  <2>3. at[p].off < Size(p, lo + at[p].chunk) => (at[p].off < Size(p, lo + at[p].chunk))'
    BY <1>1, <1>3 DEF Size, End
  <2>4. /\ (End(p, lo + at[p].chunk - 1) + at[p].off <= pos)'
        /\ OwnNumber(p)' => (pos = End(p, lo + at[p].chunk - 1) + at[p].off)'
    <3>1. OwnNumber(p)' = OwnNumber(p) /\ (End(p, lo + at[p].chunk - 1) + at[p].off)' = End(p, lo + at[p].chunk - 1) + at[p].off
      BY <1>1, <1>3, Frame DEF End
    <3>. QED  BY <1>3, <2>1, <3>1
  <2>5. queue'[p] \in Seq(Seq(Seq(Nat)))
    BY <1>3, <1>6 DEF QueueV2
  <2>. QED  BY <1>1, <1>3, <2>1, <2>2, <2>3, <2>4, <2>5 DEF QueueV2
<1>. QED  BY <1>1, <1>5, <1>6 DEF QueuesOK

\* A plan stays good when nothing of it changes.
LEMMA PlanStays ==
    ASSUME UNCHANGED inputs, NEW p, PlanOK(p),
           next'[p] = next[p], offset'[p] = offset[p], plan'[p] = plan[p]
    PROVE  PlanOK(p)'
  BY Frame DEF PlanOK, Ready

\* Without a batch there is nothing to align.
LEMMA NoBatch == ASSUME batch' = None PROVE RowsAligned'
<1>1. batch'.rows = <<>>
  BY DEF None
<1>2. DOMAIN batch'.rows = {}
  BY <1>1
<1>. QED  BY <1>2 DEF RowsAligned

\* A batch stays aligned.
LEMMA BatchStays == ASSUME UNCHANGED <<inputs, batch, pos>>, RowsAligned PROVE RowsAligned'
  BY Frame DEF RowsAligned, Expected

\* ReadNext keeps the invariant: when it does not load, every group has rows or none left.
LEMMA ReadNextKeeps ==
    ASSUME InputsOK, Core, ReadNext
    PROVE  Core'
<1>1. /\ reader = "v3" /\ phase = "idle" /\ batch' = None
      /\ UNCHANGED <<inputs, next, offset, plan, queue, at, rowLimit, pos, failures>>
      /\ IF NeedLoad THEN phase' = "plan" ELSE phase' = "emit"
  BY DEF ReadNext
<1>2. reader' = reader /\ table' = table /\ Paths' = Paths /\ filter' = filter
  BY <1>1, Frame
<1>3. Shapes'
  BY <1>1, <1>2 DEF Core, Shapes
<1>4. \A p \in Paths : PlanOK(p)'
  BY <1>1, PlanStays DEF Core
<1>5. QueuesOK'
  BY <1>1, QueuesStay DEF Core, Running, Ready
<1>6. PhaseV3'
  <2>1. \A p \in Paths : plan[p] = <<>>
    BY <1>1 DEF Core, PhaseV3
  <2>2. phase' = "emit" => AllHaveData'
    BY <1>1, <1>2 DEF NeedLoad, AllHaveData, Remaining
  <2>. QED  BY <1>1, <1>2, <2>1, <2>2 DEF PhaseV3
<1>7. Complete'
  BY <1>1 DEF Complete
<1>8. RowsAligned'
  BY <1>1, NoBatch
<1>. QED  BY <1>1, <1>2, <1>3, <1>4, <1>5, <1>6, <1>7, <1>8 DEF Core

\* The end of the loop of load_internal keeps the invariant: every group has data then.
LEMMA PreloadedKeeps ==
    ASSUME InputsOK, Core, Preloaded
    PROVE  Core'
<1>1. /\ reader = "v3" /\ phase = "plan" /\ phase' = "io" /\ ~LoadMore
      /\ UNCHANGED <<inputs, next, offset, plan, queue, at, rowLimit, pos, batch, failures>>
  BY DEF Preloaded, planning
<1>2. reader' = reader /\ table' = table /\ Paths' = Paths /\ filter' = filter
  BY <1>1, Frame
<1>3. Shapes'
  BY <1>1, <1>2 DEF Core, Shapes
<1>4. \A p \in Paths : PlanOK(p)'
  BY <1>1, PlanStays DEF Core
<1>5. QueuesOK'
  BY <1>1, QueuesStay DEF Core, Running, Ready
<1>6. PhaseV3'
  <2>1. AllHaveData
    BY <1>1 DEF LoadMore, AllHaveData
  <2>2. AllHaveData'
    BY <1>1, <1>2, <2>1 DEF AllHaveData, Remaining
  <2>. QED  BY <1>1, <1>2, <2>2 DEF PhaseV3
<1>7. Complete'
  BY <1>1 DEF Complete
<1>8. RowsAligned'
  BY <1>1, BatchStays DEF Core
<1>. QED  BY <1>1, <1>2, <1>3, <1>4, <1>5, <1>6, <1>7, <1>8 DEF Core

-----------------------------------------------------------------------------
(* Planning.                                                               *)

\* A step of the planning: the plan of a column group grows by a row group.
LEMMA PlanGrows ==
    ASSUME InputsOK, Shapes, NEW p \in Paths, PlanOK(p), Remaining(p), UNCHANGED inputs,
           next'[p] = next[p] + 1,
           offset'[p] = offset[p] + Size(p, next[p] + 1),
           \/ plan'[p] = Append(plan[p], next[p] + 1)
           \/ plan[p] = <<>> /\ plan'[p] = <<next[p] + 1>>
    PROVE  /\ PlanOK(p)' /\ next'[p] - Len(plan'[p]) = Ready(p)
           /\ offset[p] < offset'[p] /\ offset'[p] \in Nat /\ plan'[p] \in Seq(Nat) /\ plan'[p] # <<>>
<1>. DEFINE k == next[p]
            n == Len(plan[p])
<1>1. p \in 1 .. Len(table)
  BY PathFacts
<1>2. k \in Nat /\ plan[p] \in Seq(Nat) /\ n \in Nat /\ Len(table[p]) \in Nat
  BY <1>1, LenProperties, RowGroupEnds DEF Shapes
<1>3. /\ k <= Len(table[p]) /\ n <= k /\ offset[p] = End(p, k)
      /\ \A i \in 1 .. n : plan[p][i] = (k - n) + i
  BY DEF PlanOK, Ready
<1>4. k \in 0 .. Len(table[p]) /\ k + 1 \in 0 .. Len(table[p]) /\ (k + 1) - 1 = k /\ k < k + 1 /\ k + 1 <= Len(table[p])
  BY <1>2, <1>3 DEF Remaining
<1>5. End(p, k) \in Nat /\ End(p, k + 1) \in Nat /\ End(p, k) < End(p, k + 1)
  <2>1. TotalRows \in Nat
    BY RowGroupEnds
  <2>2. End(p, k) \in 0 .. TotalRows /\ End(p, k + 1) \in 0 .. TotalRows /\ End(p, k) < End(p, k + 1)
    BY <1>1, <1>4, RowGroupEnds
  <2>. QED  BY <2>1, <2>2
<1>6. Size(p, k + 1) = End(p, k + 1) - End(p, k)
  BY <1>4 DEF Size
<1>7. offset'[p] = End(p, k + 1)
  BY <1>3, <1>5, <1>6
<1>8. /\ plan'[p] \in Seq(Nat) /\ Len(plan'[p]) = n + 1 /\ plan'[p] # <<>>
      /\ \A i \in 1 .. n : plan'[p][i] = plan[p][i]
      /\ plan'[p][n + 1] = k + 1
  <2>1. k + 1 \in Nat
    BY <1>2
  <2>2. CASE plan'[p] = Append(plan[p], k + 1)
    <3>. DEFINE a == Append(plan[p], k + 1)
    <3>1. /\ a \in Seq(Nat) /\ a # <<>> /\ Len(a) = Len(plan[p]) + 1
          /\ \A i \in 1 .. Len(plan[p]) : a[i] = plan[p][i]
          /\ a[Len(plan[p]) + 1] = k + 1
      BY <1>2, <2>1, AppendProperties
    <3>2. plan'[p] = a
      BY <2>2
    <3>. HIDE DEF a, k
    <3>. QED  BY <3>1, <3>2
  <2>3. CASE plan[p] = <<>> /\ plan'[p] = <<k + 1>>
    <3>1. n = 0 /\ Len(<<k + 1>>) = 1 /\ <<k + 1>>[1] = k + 1 /\ <<k + 1>> \in Seq(Nat) /\ <<k + 1>> # <<>>
      BY <2>1, <2>3
    <3>. QED  BY <2>3, <3>1
  <2>. QED  BY <2>2, <2>3
<1>. HIDE DEF k, n
<1>9. next'[p] - Len(plan'[p]) = k - n /\ next'[p] <= Len(table[p]) /\ Len(plan'[p]) <= next'[p]
  BY <1>2, <1>3, <1>4, <1>8 DEF k
<1>10. ASSUME NEW i \in 1 .. n + 1 PROVE plan'[p][i] = (k - n) + i
  <2>1. i \in 1 .. n \/ i = n + 1
    BY <1>2
  <2>2. CASE i = n + 1
    <3>1. (k - n) + (n + 1) = k + 1
      BY <1>2
    <3>. QED  BY <1>8, <2>2, <3>1
  <2>. QED  BY <1>3, <1>8, <2>1, <2>2
<1>11. PlanOK(p)'
  <2>1. Ready(p)' = k - n
    BY <1>9 DEF Ready
  <2>2. table' = table /\ End(p, next[p])' = End(p, k + 1)
    <3>1. table' = table
      BY Frame
    <3>. QED  BY <3>1 DEF End, k
  <2>. QED  BY <1>7, <1>8, <1>9, <1>10, <2>1, <2>2 DEF PlanOK
<1>. QED  BY <1>5, <1>3, <1>7, <1>8, <1>9, <1>11 DEF k, n, Ready

\* preload_column_group keeps the invariant.
LEMMA PreloadKeeps ==
    ASSUME InputsOK, Core, NEW p \in DOMAIN table, Preload(p)
    PROVE  Core'
<1>1. /\ reader = "v3" /\ phase = "plan" /\ p \in Paths /\ Remaining(p)
      /\ UNCHANGED <<inputs, phase, queue, at, rowLimit, pos, batch, failures>>
      /\ offset' = [offset EXCEPT ![p] = @ + Size(p, next[p] + 1)]
      /\ next' = [next EXCEPT ![p] = @ + 1]
      /\ plan' = [plan EXCEPT ![p] = Append(@, next[p] + 1)]
  BY DEF Preload, Lowest
<1>2. reader' = reader /\ table' = table /\ Paths' = Paths /\ filter' = filter
  BY <1>1, Frame
<1>3. /\ Shapes /\ \A q \in Paths : PlanOK(q)
      /\ p \in 1 .. Len(table) /\ Paths \subseteq 1 .. Len(table)
  BY <1>1, PathFacts DEF Core
<1>4. /\ next'[p] = next[p] + 1 /\ offset'[p] = offset[p] + Size(p, next[p] + 1)
      /\ plan'[p] = Append(plan[p], next[p] + 1)
  BY <1>1, <1>3 DEF Shapes
<1>5. /\ PlanOK(p)' /\ next'[p] - Len(plan'[p]) = Ready(p)
      /\ offset'[p] \in Nat /\ plan'[p] \in Seq(Nat)
  BY <1>1, <1>3, <1>4, PlanGrows
<1>6. \A q \in Paths : q # p => next'[q] = next[q] /\ offset'[q] = offset[q] /\ plan'[q] = plan[q]
  BY <1>1, <1>3 DEF Shapes
<1>7. Shapes'
  <2>1. next \in [1 .. Len(table) -> Nat] /\ offset \in [1 .. Len(table) -> Nat] /\ plan \in [1 .. Len(table) -> Seq(Nat)]
    BY <1>3 DEF Shapes
  <2>2. next[p] + 1 \in Nat
    BY <1>3, <2>1
  <2>3. next' \in [1 .. Len(table) -> Nat]
    BY <1>1, <2>1, <2>2
  <2>4. offset' \in [1 .. Len(table) -> Nat]
    BY <1>1, <1>3, <1>4, <1>5, <2>1
  <2>5. plan' \in [1 .. Len(table) -> Seq(Nat)]
    BY <1>1, <1>3, <1>4, <1>5, <2>1
  <2>. QED  BY <1>1, <1>2, <1>3, <2>3, <2>4, <2>5 DEF Shapes
<1>8. ASSUME NEW q \in Paths PROVE PlanOK(q)'
  BY <1>1, <1>3, <1>5, <1>6, PlanStays
<1>9. QueuesOK'
  <2>1. \A q \in Paths : next'[q] - Len(plan'[q]) = Ready(q)
    BY <1>5, <1>6 DEF Ready
  <2>2. QueuesOK /\ Running
    BY <1>1 DEF Core, Running
  <2>. QED  BY <1>1, <2>1, <2>2, QueuesStay
<1>10. PhaseV3'
  BY <1>1, <1>2 DEF PhaseV3
<1>11. Complete'
  BY <1>1 DEF Complete
<1>12. RowsAligned'
  BY <1>1, BatchStays DEF Core
<1>. QED  BY <1>1, <1>2, <1>7, <1>8, <1>9, <1>10, <1>11, <1>12 DEF Core

\* Without a predicate, chunks that follow each other are a chain.
LEMMA ChunksChain ==
    ASSUME InputsOK, ~filter.pushed, NEW p \in Paths,
           NEW k \in 0 .. Len(table[p]), NEW n \in Nat, k + n <= Len(table[p]),
           NEW r, r = [i \in 1 .. n |-> ChunkRows(p, k + i)]
    PROVE  r \in Seq(Seq(Nat)) /\ Chain(r, Slices, K, Kept(End(p, k)), Kept(End(p, k + n)))
<1>1. p \in 1 .. Len(table)
  BY PathFacts
<1>2. Len(table[p]) \in Nat /\ K \in Nat /\ K = TotalRows
  BY <1>1, RowGroupEnds, KeptFacts
<1>3. \A i \in 1 .. n + 1 : k + i - 1 \in 0 .. Len(table[p])
  BY <1>2
<1>. DEFINE e(i) == Kept(End(p, i))
            s == [i \in 1 .. n + 1 |-> e(k + i - 1)]
<1>4. /\ \A i \in 0 .. Len(table[p]) : e(i) \in 0 .. K
      /\ \A i, j \in 0 .. Len(table[p]) : i < j => e(i) < e(j)
  <2>1. \A i \in 0 .. Len(table[p]) : End(p, i) \in 0 .. TotalRows
    BY <1>1, RowGroupEnds
  <2>2. \A i \in 0 .. Len(table[p]) : e(i) = End(p, i)
    BY <2>1, KeptFacts
  <2>3. \A i, j \in 0 .. Len(table[p]) : i < j => End(p, i) < End(p, j)
    BY <1>1, RowGroupEnds
  <2>. QED  BY <1>2, <2>1, <2>2, <2>3
<1>5. \A i \in 1 .. n : r[i] = Slices[e((k + i) - 1)][e(k + i)]
  <2>. TAKE i \in 1 .. n
  <2>1. (k + i) - 1 \in 0 .. Len(table[p]) /\ k + i \in 0 .. Len(table[p])
    BY <1>2
  <2>2. e((k + i) - 1) \in 0 .. K /\ e(k + i) \in 0 .. K
    BY <1>4, <2>1
  <2>3. r[i] = SubSeq(filter.keep, e((k + i) - 1) + 1, e(k + i))
    BY DEF ChunkRows
  <2>. HIDE DEF e
  <2>. QED  BY <2>2, <2>3 DEF Slices
<1>6. Len(r) = n
  OBVIOUS
<1>7. r \in Seq(Seq(Nat))
  <2>1. ASSUME NEW i \in 1 .. n PROVE r[i] \in Seq(Nat)
    <3>1. (k + i) - 1 \in 0 .. Len(table[p]) /\ k + i \in 0 .. Len(table[p]) /\ (k + i) - 1 < k + i
      BY <1>2
    <3>2. e((k + i) - 1) \in 0 .. K /\ e(k + i) \in 0 .. K /\ e((k + i) - 1) < e(k + i)
      BY <1>4, <3>1
    <3>. HIDE DEF e
    <3>3. e((k + i) - 1) <= e(k + i)
      BY <1>2, <3>2
    <3>4. Slices[e((k + i) - 1)][e(k + i)] \in Seq(Nat)
      BY <3>2, <3>3, SliceFacts
    <3>. QED  BY <1>5, <3>4
  <2>. QED  BY <2>1
<1>. HIDE DEF e
<1>8. s \in [1 .. n + 1 -> 0 .. K]
  BY <1>3, <1>4
<1>9. s[1] = e(k) /\ s[n + 1] = e(k + n)
  <2>1. 1 \in 1 .. n + 1 /\ n + 1 \in 1 .. n + 1 /\ k + 1 - 1 = k /\ k + (n + 1) - 1 = k + n
    BY <1>2
  <2>. QED  BY <2>1
<1>10. \A i, j \in 1 .. n + 1 : i < j => s[i] < s[j]
  <2>. SUFFICES ASSUME NEW i \in 1 .. n + 1, NEW j \in 1 .. n + 1, i < j PROVE s[i] < s[j]
    OBVIOUS
  <2>1. k + i - 1 < k + j - 1
    BY <1>2
  <2>. QED  BY <1>3, <1>4, <2>1
<1>11. \A j \in 1 .. n : r[j] = Slices[s[j]][s[j + 1]]
  <2>. TAKE j \in 1 .. n
  <2>1. j \in 1 .. n + 1 /\ j + 1 \in 1 .. n + 1 /\ k + (j + 1) - 1 = k + j
    OBVIOUS
  <2>2. s[j] = e(k + j - 1) /\ s[j + 1] = e(k + j)
    BY <2>1
  <2>3. r[j] = Slices[e((k + j) - 1)][e(k + j)]
    BY <1>5
  <2>. HIDE DEF s
  <2>. QED  BY <2>2, <2>3
<1>. HIDE DEF s
<1>12. Chain(r, Slices, K, e(k), e(k + n))
  BY <1>6, <1>8, <1>9, <1>10, <1>11, ZenonT(60) DEF Chain
<1>. QED  BY <1>7, <1>12 DEF e

-----------------------------------------------------------------------------
(* Reading, v3.                                                            *)

\* What holds of the plan that is read.
LEMMA PlanFacts ==
    ASSUME InputsOK, Shapes, NEW p \in Paths, PlanOK(p)
    PROVE  /\ p \in 1 .. Len(table) /\ Len(table[p]) \in Nat /\ plan[p] \in Seq(Nat)
           /\ Ready(p) \in 0 .. Len(table[p]) /\ next[p] \in 0 .. Len(table[p])
           /\ Len(plan[p]) \in Nat /\ Ready(p) + Len(plan[p]) = next[p]
           /\ plan[p] = [i \in 1 .. Len(plan[p]) |-> Ready(p) + i]
           /\ plan[p] = <<>> => Len(plan[p]) = 0
           /\ plan[p] # <<>> => Len(plan[p]) >= 1
<1>1. p \in 1 .. Len(table) /\ Len(table[p]) \in Nat /\ plan[p] \in Seq(Nat) /\ next[p] \in Nat
  BY PathFacts, RowGroupEnds DEF Shapes
<1>2. Len(plan[p]) \in Nat /\ DOMAIN plan[p] = 1 .. Len(plan[p])
  BY <1>1, LenProperties
<1>3. next[p] <= Len(table[p]) /\ Len(plan[p]) <= next[p]
      /\ \A i \in 1 .. Len(plan[p]) : plan[p][i] = Ready(p) + i
  BY DEF PlanOK
<1>4. plan[p] = [i \in 1 .. Len(plan[p]) |-> Ready(p) + i]
  <2>1. plan[p] \in [1 .. Len(plan[p]) -> Nat]
    BY <1>1, LenProperties
  <2>. QED  BY <1>3, <2>1
<1>5. /\ Ready(p) \in 0 .. Len(table[p]) /\ next[p] \in 0 .. Len(table[p])
      /\ Ready(p) + Len(plan[p]) = next[p]
  BY <1>1, <1>2, <1>3 DEF Ready
<1>6. (plan[p] = <<>> => Len(plan[p]) = 0) /\ (plan[p] # <<>> => Len(plan[p]) >= 1)
  BY <1>1, EmptySeq
<1>. QED  BY <1>1, <1>2, <1>4, <1>5, <1>6

\* v3 reads the chunks of a plan together.
LEMMA ReadAllV3 ==
    ASSUME InputsOK, Shapes, NEW p \in Paths, PlanOK(p), QueueV3(p), UNCHANGED <<inputs, pos>>,
           reader = "v3", ~filter.pushed, plan[p] # <<>>,
           next'[p] = next[p], offset'[p] = offset[p],
           plan'[p] = <<>>, queue'[p] = queue[p] \o Loaded(p)
    PROVE  PlanOK(p)' /\ QueueV3(p)' /\ queue'[p] # <<>>
<1>. DEFINE k == Ready(p)
            n == Len(plan[p])
<1>0. /\ p \in 1 .. Len(table) /\ Len(table[p]) \in Nat /\ k \in 0 .. Len(table[p])
      /\ n \in Nat /\ k + n = next[p] /\ next[p] \in 0 .. Len(table[p])
      /\ plan[p] = [i \in 1 .. n |-> k + i] /\ n >= 1
  BY PlanFacts
<1>1. Loaded(p) = [i \in 1 .. n |-> ChunkRows(p, k + i)]
  <2>1. \A i \in 1 .. n : plan[p][i] = k + i
    BY <1>0
  <2>2. Loaded(p) = [i \in 1 .. n |-> ChunkRows(p, plan[p][i])]
    BY DEF Loaded
  <2>. HIDE DEF k, n
  <2>. QED  BY <2>1, <2>2
<1>2. k + n <= Len(table[p])
  BY <1>0
<1>3. Loaded(p) \in Seq(Seq(Nat)) /\ Chain(Loaded(p), Slices, K, Kept(End(p, k)), Kept(End(p, k + n)))
  <2>. HIDE DEF k, n
  <2>. QED  BY <1>0, <1>1, <1>2, ChunksChain
<1>4. queue[p] \in Seq(Seq(Nat)) /\ Chain(queue[p], Slices, K, pos, Kept(End(p, k)))
  BY DEF QueueV3
<1>5. K \in Nat
  BY KeptFacts
<1>6. Chain(queue'[p], Slices, K, pos, Kept(End(p, next[p])))
  BY <1>0, <1>3, <1>4, <1>5, ChainConcat
<1>7. queue'[p] \in Seq(Seq(Nat)) /\ queue'[p] # <<>>
  <2>1. Len(Loaded(p)) = n
    BY <1>0, <1>1
  <2>2. Len(queue[p]) \in Nat
    BY <1>4, LenProperties
  <2>3. queue'[p] \in Seq(Seq(Nat)) /\ Len(queue'[p]) = Len(queue[p]) + Len(Loaded(p))
    BY <1>3, <1>4, ConcatProperties
  <2>. HIDE DEF n
  <2>4. Len(queue'[p]) # 0
    BY <1>0, <2>1, <2>2, <2>3
  <2>. QED  BY <2>3, <2>4
<1>8. next'[p] - Len(plan'[p]) = next[p]
  BY <1>0
<1>9. QueueV3(p)'
  <2>1. Ready(p)' = next[p]
    BY <1>8 DEF Ready
  <2>2. Kept(End(p, Ready(p)))' = Kept(End(p, next[p]))
    BY <2>1, Frame DEF Kept, End
  <2>3. K' = K /\ Slices' = Slices /\ pos' = pos
    BY Frame
  <2>. QED  BY <1>6, <1>7, <2>2, <2>3 DEF QueueV3
<1>10. PlanOK(p)'
  <2>1. table' = table /\ \A j : End(p, j)' = End(p, j)
    BY Frame
  <2>2. (offset[p] = End(p, next[p]))'
    BY <2>1 DEF PlanOK, End
  <2>3. Len(plan'[p]) = 0
    OBVIOUS
  <2>. QED  BY <1>0, <2>1, <2>2, <2>3 DEF PlanOK
<1>. QED  BY <1>7, <1>9, <1>10

\* With a predicate, v3 reads one chunk after the other.
LEMMA ReadOneV3 ==
    ASSUME InputsOK, Shapes, NEW p \in Paths, PlanOK(p), QueueV3(p), UNCHANGED <<inputs, pos>>,
           reader = "v3", filter.pushed, plan[p] # <<>>,
           next'[p] = next[p], offset'[p] = offset[p],
           plan'[p] = Tail(plan[p]), queue'[p] = queue[p] \o Loaded(p)
    PROVE  PlanOK(p)' /\ QueueV3(p)'
<1>. DEFINE k == Ready(p)
            n == Len(plan[p])
            a == Kept(End(p, k))
            b == Kept(End(p, k + 1))
<1>0. /\ p \in 1 .. Len(table) /\ Len(table[p]) \in Nat /\ k \in 0 .. Len(table[p])
      /\ n \in Nat /\ k + n = next[p] /\ next[p] \in 0 .. Len(table[p])
      /\ plan[p] = [i \in 1 .. n |-> k + i] /\ n >= 1 /\ plan[p] \in Seq(Nat)
  BY PlanFacts
<1>1. Head(plan[p]) = k + 1 /\ (k + 1) - 1 = k /\ k + 1 \in 0 .. Len(table[p])
  <2>1. Head(plan[p]) = plan[p][1]
    BY <1>0
  <2>2. 1 \in 1 .. n
    BY <1>0
  <2>3. plan[p][1] = k + 1
    BY <1>0, <2>2
  <2>. HIDE DEF k, n
  <2>4. (k + 1) - 1 = k /\ k + 1 \in 0 .. Len(table[p])
    BY <1>0
  <2>. QED  BY <2>1, <2>3, <2>4
<1>2. K \in Nat /\ a \in 0 .. K /\ b \in 0 .. K /\ a <= b
  <2>1. TotalRows \in Nat /\ End(p, k) \in 0 .. TotalRows /\ End(p, k + 1) \in 0 .. TotalRows
    BY <1>0, <1>1, RowGroupEnds
  <2>2. End(p, k) < End(p, k + 1)
    <3>1. k < k + 1
      BY <1>0
    <3>. QED  BY <1>0, <1>1, <3>1, RowGroupEnds
  <2>3. End(p, k) \in Nat /\ End(p, k + 1) \in Nat /\ End(p, k) <= End(p, k + 1)
    BY <2>1, <2>2
  <2>. QED  BY <2>3, KeptFacts
<1>3. ChunkRows(p, Head(plan[p])) = Slices[a][b] /\ Slices[a][b] \in Seq(Nat) /\ Len(Slices[a][b]) = b - a
  <2>1. ChunkRows(p, k + 1) = SubSeq(filter.keep, a + 1, b)
    BY <1>1 DEF ChunkRows
  <2>. HIDE DEF a, b, k
  <2>. QED  BY <1>1, <1>2, <2>1, SliceFacts
<1>4. queue[p] \in Seq(Seq(Nat)) /\ Chain(queue[p], Slices, K, pos, a)
  BY DEF QueueV3
<1>5. Loaded(p) = IF Slices[a][b] = <<>> THEN <<>> ELSE <<Slices[a][b]>>
  <2>1. Loaded(p) = IF ChunkRows(p, Head(plan[p])) = <<>> THEN <<>> ELSE <<ChunkRows(p, Head(plan[p]))>>
    BY DEF Loaded
  <2>. HIDE DEF a, b
  <2>. QED  BY <1>3, <2>1
<1>. HIDE DEF a, b
<1>6. Loaded(p) \in Seq(Seq(Nat)) /\ Chain(Loaded(p), Slices, K, a, b)
  <2>1. CASE Slices[a][b] = <<>>
    <3>1. a = b
      BY <1>2, <1>3, <2>1
    <3>. QED  BY <1>2, <1>5, <2>1, <3>1, ChainEmpty
  <2>2. CASE Slices[a][b] # <<>>
    <3>1. a # b
      BY <1>2, <1>3, <2>2, EmptySeq
    <3>2. a < b
      BY <1>2, <3>1
    <3>3. <<Slices[a][b]>> \in Seq(Seq(Nat))
      BY <1>3
    <3>. QED  BY <1>2, <1>5, <2>2, <3>2, <3>3, ChainOne
  <2>. QED  BY <2>1, <2>2
<1>7. queue'[p] \in Seq(Seq(Nat)) /\ Chain(queue'[p], Slices, K, pos, b)
  <2>1. queue'[p] \in Seq(Seq(Nat))
    BY <1>4, <1>6, ConcatProperties
  <2>. QED  BY <1>2, <1>4, <1>6, <2>1, ChainConcat
<1>8. /\ plan'[p] \in Seq(Nat) /\ Len(plan'[p]) = n - 1
      /\ \A i \in 1 .. n - 1 : plan'[p][i] = plan[p][i + 1]
  BY <1>0, HeadTailProperties
<1>9. next'[p] - Len(plan'[p]) = k + 1 /\ Len(plan'[p]) <= next'[p]
  BY <1>0, <1>8
<1>10. Ready(p)' = k + 1
  BY <1>9 DEF Ready
<1>11. QueueV3(p)'
  <2>1. Kept(End(p, Ready(p)))' = b
    BY <1>10, Frame DEF Kept, End, b
  <2>2. K' = K /\ Slices' = Slices /\ pos' = pos
    BY Frame
  <2>. QED  BY <1>7, <2>1, <2>2 DEF QueueV3
<1>12. \A i \in 1 .. n - 1 : plan'[p][i] = (k + 1) + i
  <2>. TAKE i \in 1 .. n - 1
  <2>1. i + 1 \in 1 .. n /\ k + (i + 1) = (k + 1) + i
    BY <1>0
  <2>2. plan[p][i + 1] = k + (i + 1)
    BY <1>0, <2>1
  <2>. QED  BY <1>8, <2>1, <2>2
<1>13. PlanOK(p)'
  <2>1. table' = table /\ \A j : End(p, j)' = End(p, j)
    BY Frame
  <2>2. (offset[p] = End(p, next[p]))'
    BY <2>1 DEF PlanOK, End
  <2>3. next'[p] <= Len(table'[p])
    BY <1>0, <2>1
  <2>. HIDE DEF k, n
  <2>. QED  BY <1>8, <1>9, <1>10, <1>12, <2>2, <2>3 DEF PlanOK
<1>. QED  BY <1>11, <1>13

-----------------------------------------------------------------------------
(* Reading, v2.                                                            *)

\* A queue of v2, from its parts.
LEMMA MakeV2 ==
    ASSUME UNCHANGED inputs, NEW p, NEW lo \in 0 .. Len(table[p]), NEW hi, NEW c, NEW o,
           hi = next'[p] - Len(plan'[p]), c = at'[p].chunk, o = at'[p].off,
           queue'[p] \in Seq(Seq(Seq(Nat))),
           Chain(queue'[p], TablesOf(p), Len(table[p]), lo, hi), c >= 1,
           queue'[p] = <<>> => at'[p] = Start[p],
           queue'[p] # <<>> => c <= Len(Head(queue'[p])) /\ o < Size(p, lo + c),
           End(p, lo + c - 1) + o <= pos', OwnNumber(p) => pos' = End(p, lo + c - 1) + o
    PROVE  QueueV2(p)'
<1>1. table' = table /\ TablesOf(p)' = TablesOf(p) /\ Start' = Start
  BY Frame
<1>2. Ready(p)' = hi
  BY DEF Ready
<1>3. Chain(queue'[p], TablesOf(p)', Len(table'[p]), lo, Ready(p)')
  BY <1>1, <1>2
<1>4. o < Size(p, lo + c) => (at[p].off < Size(p, lo + at[p].chunk))'
  BY <1>1 DEF Size, End
<1>5. /\ (End(p, lo + at[p].chunk - 1) + at[p].off <= pos)'
      /\ OwnNumber(p)' => (pos = End(p, lo + at[p].chunk - 1) + at[p].off)'
  <2>1. OwnNumber(p)' = OwnNumber(p) /\ (End(p, lo + at[p].chunk - 1) + at[p].off)' = End(p, lo + c - 1) + o
    BY <1>1, Frame DEF End
  <2>. QED  BY <2>1
<1>. QED  BY <1>1, <1>3, <1>4, <1>5 DEF QueueV2

\* Tables of row groups.
LEMMA TableFacts ==
    ASSUME InputsOK, NEW p \in Paths, NEW a \in 0 .. Len(table[p]), NEW b \in 0 .. Len(table[p]), a <= b
    PROVE  /\ TablesOf(p)[a][b] = [i \in 1 .. b - a |-> RowsOf(p, a + i)]
           /\ TablesOf(p)[a][b] \in Seq(Seq(Nat)) /\ Len(TablesOf(p)[a][b]) = b - a
           /\ \A i \in 1 .. b - a : TablesOf(p)[a][b][i] = RowsOf(p, a + i)
<1>1. p \in 1 .. Len(table) /\ Len(table[p]) \in Nat /\ TotalRows \in Nat
  BY PathFacts, RowGroupEnds
<1>2. TablesOf(p)[a][b] = [i \in 1 .. b - a |-> RowsOf(p, a + i)]
  BY DEF TablesOf
<1>3. ASSUME NEW i \in 1 .. b - a PROVE RowsOf(p, a + i) \in Seq(Nat)
  <2>1. a + i \in 0 .. Len(table[p]) /\ (a + i) - 1 \in 0 .. Len(table[p]) /\ (a + i) - 1 < a + i
    BY <1>1
  <2>2. /\ End(p, a + i) \in 0 .. TotalRows /\ End(p, (a + i) - 1) \in 0 .. TotalRows
        /\ End(p, (a + i) - 1) < End(p, a + i)
    BY <1>1, <2>1, RowGroupEnds
  <2>3. Size(p, a + i) \in Nat
    BY <1>1, <2>2 DEF Size
  <2>4. \A r \in 1 .. Size(p, a + i) : End(p, (a + i) - 1) + r \in Nat
    BY <1>1, <2>2, <2>3
  <2>. QED  BY <2>3, <2>4 DEF RowsOf
<1>. DEFINE t == TablesOf(p)[a][b]
            n == b - a
<1>4. n \in Nat
  BY <1>1
<1>5. t = [i \in 1 .. n |-> RowsOf(p, a + i)] /\ \A i \in 1 .. n : RowsOf(p, a + i) \in Seq(Nat)
  BY <1>2, <1>3
<1>. HIDE DEF t, n
<1>6. t \in Seq(Seq(Nat)) /\ Len(t) = n /\ \A i \in 1 .. n : t[i] = RowsOf(p, a + i)
  BY <1>4, <1>5
<1>. QED  BY <1>5, <1>6 DEF t, n

\* v2 reads the row groups of a plan as one table.
LEMMA ReadV2 ==
    ASSUME InputsOK, Shapes, NEW p \in Paths, PlanOK(p), QueueV2(p), UNCHANGED <<inputs, at, pos>>,
           reader = "v2", plan[p] # <<>>,
           next'[p] = next[p], offset'[p] = offset[p],
           plan'[p] = <<>>, queue'[p] = queue[p] \o Loaded(p)
    PROVE  PlanOK(p)' /\ QueueV2(p)'
<1>. DEFINE k == Ready(p)
            n == Len(plan[p])
            N == Len(table[p])
<1>0. /\ p \in 1 .. Len(table) /\ N \in Nat /\ k \in 0 .. N
      /\ n \in Nat /\ k + n = next[p] /\ next[p] \in 0 .. N
      /\ plan[p] = [i \in 1 .. n |-> k + i] /\ n >= 1
  BY PlanFacts
<1>1. k < next[p] /\ next[p] - k = n /\ k <= next[p]
  <2>1. \A x, y, z \in Int : x + y = z /\ y >= 1 => x < z /\ z - x = y /\ x <= z
    OBVIOUS
  <2>2. k \in Int /\ n \in Int /\ next[p] \in Int
    BY <1>0
  <2>. QED  BY <1>0, <2>1, <2>2
<1>. DEFINE T == TablesOf(p)[k][next[p]]
<1>2. Loaded(p) = <<T>> /\ T \in Seq(Seq(Nat)) /\ Len(T) = n
  <2>1. \A i \in 1 .. n : plan[p][i] = k + i
    BY <1>0
  <2>2. Loaded(p) = << [i \in 1 .. n |-> RowsOf(p, plan[p][i])] >>
    BY DEF Loaded
  <2>3. [i \in 1 .. n |-> RowsOf(p, plan[p][i])] = [i \in 1 .. n |-> RowsOf(p, k + i)]
    <3>. HIDE DEF k, n
    <3>. QED  BY <2>1
  <2>. HIDE DEF k, n
  <2>4. T = [i \in 1 .. n |-> RowsOf(p, k + i)] /\ T \in Seq(Seq(Nat)) /\ Len(T) = n
    BY <1>0, <1>1, TableFacts
  <2>. QED  BY <2>2, <2>3, <2>4
<1>3. PICK lo \in 0 .. N :
        /\ Chain(queue[p], TablesOf(p), N, lo, k)
        /\ at[p].chunk >= 1
        /\ queue[p] = <<>> => at[p] = Start[p]
        /\ queue[p] # <<>> =>
             at[p].chunk <= Len(Head(queue[p])) /\ at[p].off < Size(p, lo + at[p].chunk)
        /\ End(p, lo + at[p].chunk - 1) + at[p].off <= pos
        /\ OwnNumber(p) => pos = End(p, lo + at[p].chunk - 1) + at[p].off
  BY DEF QueueV2
<1>4. queue[p] \in Seq(Seq(Seq(Nat)))
  BY DEF QueueV2
<1>. HIDE DEF k, n
<1>5. <<T>> \in Seq(Seq(Seq(Nat))) /\ Chain(<<T>>, TablesOf(p), N, k, next[p])
  <2>1. <<T>> \in Seq(Seq(Seq(Nat)))
    <3>. HIDE DEF T
    <3>. QED  BY <1>2
  <2>. QED  BY <1>0, <1>1, <2>1, ChainOne
<1>. HIDE DEF T
<1>6. /\ queue'[p] \in Seq(Seq(Seq(Nat))) /\ Chain(queue'[p], TablesOf(p), N, lo, next[p])
      /\ Len(queue[p]) \in Nat /\ Len(queue'[p]) = Len(queue[p]) + 1
      /\ \A i \in 1 .. Len(queue[p]) + 1 : queue'[p][i] = IF i <= Len(queue[p]) THEN queue[p][i] ELSE <<T>>[i - Len(queue[p])]
  <2>1. queue'[p] = queue[p] \o <<T>>
    BY <1>2
  <2>2. Len(queue[p]) \in Nat /\ Len(<<T>>) = 1
    BY <1>4, LenProperties
  <2>3. /\ queue'[p] \in Seq(Seq(Seq(Nat))) /\ Len(queue'[p]) = Len(queue[p]) + Len(<<T>>)
        /\ \A i \in 1 .. Len(queue[p]) + Len(<<T>>) : queue'[p][i] = IF i <= Len(queue[p]) THEN queue[p][i] ELSE <<T>>[i - Len(queue[p])]
    BY <1>4, <1>5, <2>1, ConcatProperties
  <2>4. Chain(queue[p], TablesOf(p), N, lo, k) /\ Chain(<<T>>, TablesOf(p), N, k, next[p]) /\ N \in Nat
    BY <1>0, <1>3, <1>5
  <2>5. Chain(queue[p] \o <<T>>, TablesOf(p), N, lo, next[p])
    <3>. HIDE DEF N
    <3>. QED  BY <1>4, <1>5, <2>4, ChainConcat
  <2>. QED  BY <2>1, <2>2, <2>3, <2>5
<1>7. queue'[p] # <<>> /\ Head(queue'[p]) = queue'[p][1]
  <2>1. Len(queue'[p]) # 0
    BY <1>6
  <2>. QED  BY <1>6, <2>1
<1>8. at[p].chunk <= Len(Head(queue'[p])) /\ at[p].off < Size(p, lo + at[p].chunk)
  <2>1. CASE queue[p] = <<>>
    <3>1. at[p].chunk = 1 /\ at[p].off = 0
      BY <1>0, <1>3, <2>1 DEF Start
    <3>2. lo = k
      <4>1. Chain(queue[p], TablesOf(p), N, lo, k) /\ N \in Nat
        BY <1>0, <1>3
      <4>. HIDE DEF N
      <4>2. queue[p] = <<>> => lo = k
        BY <1>4, <4>1, ChainEnds, ZenonT(60)
      <4>. QED  BY <2>1, <4>2
    <3>3. Head(queue'[p]) = T
      <4>1. Len(queue[p]) = 0
        BY <2>1
      <4>2. queue'[p][1] = <<T>>[1 - 0]
        BY <1>6, <4>1
      <4>. QED  BY <1>7, <4>2
    <3>4. End(p, k) \in Int /\ End(p, k + 1) \in Int /\ End(p, k) < End(p, k + 1)
      <4>1. k + 1 \in 0 .. N /\ k < k + 1
        BY <1>0, <1>1
      <4>2. TotalRows \in Nat /\ End(p, k) \in 0 .. TotalRows /\ End(p, k + 1) \in 0 .. TotalRows /\ End(p, k) < End(p, k + 1)
        BY <1>0, <4>1, RowGroupEnds
      <4>. QED  BY <4>2
    <3>5. Size(p, k + 1) = End(p, k + 1) - End(p, k)
      <4>1. (k + 1) - 1 = k
        BY <1>0
      <4>. QED  BY <4>1 DEF Size
    <3>6. 0 < Size(p, k + 1)
      BY <3>4, <3>5
    <3>. QED  BY <1>0, <1>2, <3>1, <3>2, <3>3, <3>6
  <2>2. CASE queue[p] # <<>>
    <3>1. Len(queue[p]) >= 1
      BY <1>4, <2>2, EmptySeq
    <3>2. 1 \in 1 .. Len(queue[p]) + 1 /\ 1 <= Len(queue[p])
      BY <1>6, <3>1
    <3>3. queue'[p][1] = queue[p][1]
      BY <1>6, <3>2
    <3>4. Head(queue[p]) = queue[p][1]
      BY <1>4, <2>2
    <3>. QED  BY <1>3, <1>7, <2>2, <3>3, <3>4
  <2>. QED  BY <2>1, <2>2
<1>9. next'[p] - Len(plan'[p]) = next[p]
  BY <1>0
<1>10. QueueV2(p)'
  <2>1. at'[p].chunk = at[p].chunk /\ at'[p].off = at[p].off /\ pos' = pos
    OBVIOUS
  <2>. QED  BY <1>3, <1>6, <1>7, <1>8, <1>9, <2>1, MakeV2
<1>11. PlanOK(p)'
  <2>1. table' = table /\ \A j : End(p, j)' = End(p, j)
    BY Frame
  <2>2. (offset[p] = End(p, next[p]))'
    BY <2>1 DEF PlanOK, End
  <2>3. Len(plan'[p]) = 0
    OBVIOUS
  <2>. QED  BY <1>0, <2>1, <2>2, <2>3 DEF PlanOK
<1>. QED  BY <1>10, <1>11

\* A queue that does not change.
LEMMA QueueStays ==
    ASSUME UNCHANGED <<inputs, pos>>, NEW p, at'[p] = at[p], queue'[p] = queue[p],
           next'[p] - Len(plan'[p]) = Ready(p)
    PROVE  (QueueV3(p) => QueueV3(p)') /\ (QueueV2(p) => QueueV2(p)')
<1>1. ASSUME QueueV3(p) PROVE QueueV3(p)'
  <2>1. K' = K /\ Slices' = Slices /\ pos' = pos
    BY Frame
  <2>2. Kept(End(p, Ready(p)))' = Kept(End(p, Ready(p)))
    BY Frame DEF Kept, End, Ready
  <2>. QED  BY <1>1, <2>1, <2>2 DEF QueueV3
<1>2. ASSUME QueueV2(p) PROVE QueueV2(p)'
  <2>1. PICK lo \in 0 .. Len(table[p]) :
          /\ Chain(queue[p], TablesOf(p), Len(table[p]), lo, Ready(p))
          /\ at[p].chunk >= 1
          /\ queue[p] = <<>> => at[p] = Start[p]
          /\ queue[p] # <<>> =>
               at[p].chunk <= Len(Head(queue[p])) /\ at[p].off < Size(p, lo + at[p].chunk)
          /\ End(p, lo + at[p].chunk - 1) + at[p].off <= pos
          /\ OwnNumber(p) => pos = End(p, lo + at[p].chunk - 1) + at[p].off
    BY <1>2 DEF QueueV2
  <2>2. queue[p] \in Seq(Seq(Seq(Nat)))
    BY <1>2 DEF QueueV2
  <2>3. at'[p] = at[p] /\ at'[p].chunk = at[p].chunk /\ at'[p].off = at[p].off /\ pos' = pos
    OBVIOUS
  <2>. QED  BY <2>1, <2>2, <2>3, MakeV2
<1>. QED  BY <1>1, <1>2

-----------------------------------------------------------------------------
(* Read and AllRead.                                                       *)

\* Reading the plan of a column group, or failing to, keeps the invariant.
LEMMA ReadKeeps ==
    ASSUME InputsOK, Core, NEW p \in DOMAIN table, Read(p)
    PROVE  Core'
<1>1. /\ phase = "io" /\ plan[p] # <<>>
      /\ UNCHANGED <<inputs, next, offset, at, rowLimit, pos, batch>>
  BY DEF Read
<1>2. \/ /\ queue' = [queue EXCEPT ![p] = @ \o Loaded(p)]
         /\ plan' = [plan EXCEPT ![p] = IF filter.pushed THEN Tail(@) ELSE <<>>]
         /\ phase' = phase /\ failures' = failures
      \/ /\ failures' = failures + 1 /\ phase' = "error" /\ queue' = queue /\ plan' = plan
  BY DEF Read
<1>3. /\ reader' = reader /\ table' = table /\ Paths' = Paths /\ filter' = filter
      /\ reader \in {"v2", "v3"} /\ (filter.pushed => reader = "v3") /\ filter.pushed \in BOOLEAN
  BY <1>1, Frame DEF InputsOK, Given
<1>4. /\ Shapes /\ (\A q \in Paths : PlanOK(q)) /\ QueuesOK
      /\ Paths \subseteq 1 .. Len(table) /\ (IF reader = "v3" THEN PhaseV3 ELSE PhaseV2)
  BY PathFacts DEF Core
<1>5. p \in 1 .. Len(table)
  <2>1. table \in Seq(Seq(Nat \ {0}))
    BY ScanAssumption DEF InputsOK, Given
  <2>. QED  BY <2>1, LenProperties
<1>6. RowsAligned'
  BY <1>1, BatchStays DEF Core
<1>7. CASE failures' = failures + 1 /\ phase' = "error" /\ queue' = queue /\ plan' = plan
  <2>1. Shapes'
    BY <1>1, <1>3, <1>4, <1>7 DEF Shapes
  <2>2. \A q \in Paths : PlanOK(q)'
    BY <1>1, <1>4, <1>7, PlanStays
  <2>3. QueuesOK'
    BY <1>7 DEF QueuesOK, Running
  <2>4. IF reader = "v3" THEN PhaseV3' ELSE PhaseV2'
    BY <1>7 DEF PhaseV3, PhaseV2
  <2>5. Complete'
    <3>1. failures \in Nat
      BY <1>4 DEF Shapes
    <3>2. failures' > 0
      BY <1>7, <3>1
    <3>. QED  BY <1>7, <3>2 DEF Complete
  <2>. QED  BY <1>3, <1>6, <2>1, <2>2, <2>3, <2>4, <2>5 DEF Core
<1>8. CASE /\ queue' = [queue EXCEPT ![p] = @ \o Loaded(p)]
           /\ plan' = [plan EXCEPT ![p] = IF filter.pushed THEN Tail(@) ELSE <<>>]
           /\ phase' = phase /\ failures' = failures
  <2>1. /\ next \in [1 .. Len(table) -> Nat] /\ plan \in [1 .. Len(table) -> Seq(Nat)]
        /\ DOMAIN queue = 1 .. Len(table)
    BY <1>4 DEF Shapes
  <2>2. /\ queue'[p] = queue[p] \o Loaded(p)
        /\ plan'[p] = IF filter.pushed THEN Tail(plan[p]) ELSE <<>>
        /\ \A q \in 1 .. Len(table) : q # p => queue'[q] = queue[q] /\ plan'[q] = plan[q]
    BY <1>5, <1>8, <2>1
  <2>3. DOMAIN queue' = 1 .. Len(table)
    BY <1>8, <2>1
  <2>4. plan' \in [1 .. Len(table) -> Seq(Nat)]
    <3>1. plan[p] \in Seq(Nat)
      BY <1>5, <2>1
    <3>2. Tail(plan[p]) \in Seq(Nat)
      BY <1>1, <3>1, HeadTailProperties
    <3>3. <<>> \in Seq(Nat)
      OBVIOUS
    <3>. QED  BY <1>8, <2>1, <3>2, <3>3
  <2>5. Shapes'
    BY <1>1, <1>3, <1>4, <1>8, <2>3, <2>4 DEF Shapes
  <2>6. ASSUME NEW q \in Paths, q # p
        PROVE  PlanOK(q)' /\ (QueueV3(q) => QueueV3(q)') /\ (QueueV2(q) => QueueV2(q)')
    <3>1. queue'[q] = queue[q] /\ plan'[q] = plan[q] /\ next'[q] = next[q] /\ offset'[q] = offset[q]
      BY <1>1, <1>4, <2>2, <2>6
    <3>2. PlanOK(q)'
      BY <1>1, <1>4, <3>1, PlanStays
    <3>3. next'[q] - Len(plan'[q]) = Ready(q)
      BY <3>1 DEF Ready
    <3>. QED  BY <1>1, <3>1, <3>2, <3>3, QueueStays
  <2>7. ASSUME p \in Paths, reader = "v3"
        PROVE  PlanOK(p)' /\ QueueV3(p)' /\ (~filter.pushed => queue'[p] # <<>>)
    <3>1. PlanOK(p) /\ QueueV3(p) /\ next'[p] = next[p] /\ offset'[p] = offset[p] /\ pos' = pos
      BY <1>1, <1>4, <2>7 DEF QueuesOK, Running
    <3>2. CASE filter.pushed
      <4>1. plan'[p] = Tail(plan[p]) /\ queue'[p] = queue[p] \o Loaded(p)
        BY <2>2, <3>2
      <4>. QED  BY <1>1, <1>4, <2>7, <3>1, <3>2, <4>1, ReadOneV3
    <3>3. CASE ~filter.pushed
      <4>1. plan'[p] = <<>> /\ queue'[p] = queue[p] \o Loaded(p)
        BY <2>2, <3>3
      <4>. QED  BY <1>1, <1>4, <2>7, <3>1, <3>3, <4>1, ReadAllV3
    <3>. QED  BY <3>2, <3>3
  <2>8. ASSUME p \in Paths, reader = "v2"
        PROVE  PlanOK(p)' /\ QueueV2(p)'
    <3>1. PlanOK(p) /\ QueueV2(p) /\ next'[p] = next[p] /\ offset'[p] = offset[p] /\ pos' = pos
      BY <1>1, <1>4, <2>8 DEF QueuesOK, Running
    <3>2. plan'[p] = <<>> /\ queue'[p] = queue[p] \o Loaded(p)
      BY <1>3, <2>2, <2>8
    <3>. QED  BY <1>1, <1>4, <2>8, <3>1, <3>2, ReadV2
  <2>9. \A q \in Paths : PlanOK(q)'
    BY <1>3, <2>6, <2>7, <2>8
  <2>10. QueuesOK'
    <3>1. Running
      BY <1>1 DEF Running
    <3>2. ASSUME NEW q \in Paths PROVE IF reader = "v3" THEN QueueV3(q)' ELSE QueueV2(q)'
      BY <1>3, <1>4, <2>6, <2>7, <2>8, <3>1 DEF QueuesOK
    <3>. QED  BY <1>3, <3>2 DEF QueuesOK
  <2>11. ASSUME reader = "v3" PROVE PhaseV3'
    <3>1. ASSUME ~filter.pushed PROVE AllHaveData'
      <4>1. AllHaveData
        BY <1>1, <1>4, <2>11, <3>1 DEF PhaseV3
      <4>2. ASSUME NEW q \in Paths PROVE queue'[q] # <<>> \/ plan'[q] # <<>> \/ ~Remaining(q)'
        <5>1. CASE q = p
          BY <2>7, <2>11, <3>1, <5>1
        <5>2. CASE q # p
          <6>1. queue'[q] = queue[q] /\ plan'[q] = plan[q]
            BY <1>4, <2>2, <5>2
          <6>. QED  BY <1>1, <1>3, <4>1, <6>1 DEF AllHaveData, Remaining
        <5>. QED  BY <5>1, <5>2
      <4>. QED  BY <1>3, <4>2 DEF AllHaveData
    <3>. QED  BY <1>1, <1>3, <1>8, <3>1 DEF PhaseV3
  <2>12. ASSUME reader = "v2" PROVE PhaseV2'
    BY <1>1, <1>3, <1>4, <1>8, <2>12 DEF PhaseV2
  <2>13. Complete'
    BY <1>1, <1>8 DEF Complete
  <2>. QED  BY <1>3, <1>6, <2>5, <2>9, <2>10, <2>11, <2>12, <2>13 DEF Core
<1>. QED  BY <1>2, <1>7, <1>8

\* The group with the fewest rows planned.
LEMMA LowestFacts ==
    ASSUME InputsOK, Shapes, NEW l, l = CHOOSE p \in Lowest(Paths) : TRUE
    PROVE  l \in Paths /\ \A q \in Paths : offset[l] <= offset[q]
<1>1. Paths # {} /\ Paths \subseteq 1 .. Len(table) /\ offset \in [1 .. Len(table) -> Nat]
  BY PathFacts DEF Shapes
<1>. DEFINE S == {offset[q] : q \in Paths}
<1>2. S \subseteq Nat /\ S # {}
  BY <1>1
<1>. HIDE DEF S
<1>3. Min(S) \in S /\ \A y \in S : Min(S) <= y
  BY <1>2, LeastElement
<1>4. PICK p \in Paths : offset[p] = Min(S)
  BY <1>3 DEF S
<1>5. p \in Lowest(Paths)
  BY <1>3, <1>4 DEF S, Lowest
<1>6. l \in Lowest(Paths)
  BY <1>5
<1>. QED  BY <1>6 DEF Lowest

\* The end of the reads keeps the invariant: the new row limit is past the rows handed out.
LEMMA AllReadKeeps ==
    ASSUME InputsOK, Core, AllRead
    PROVE  Core'
<1>1. /\ phase = "io" /\ \A p \in Paths : plan[p] = <<>>
      /\ UNCHANGED <<inputs, next, offset, plan, queue, at, pos, batch, failures>>
      /\ IF reader = "v3" THEN phase' = "emit" /\ rowLimit' = rowLimit
         ELSE phase' = "check" /\ rowLimit' = offset[CHOOSE p \in Lowest(Paths) : TRUE]
  BY DEF AllRead, planning
<1>2. reader' = reader /\ table' = table /\ Paths' = Paths /\ filter' = filter
  BY <1>1, Frame
<1>3. /\ Shapes /\ (\A q \in Paths : PlanOK(q)) /\ QueuesOK
      /\ Paths \subseteq 1 .. Len(table) /\ (IF reader = "v3" THEN PhaseV3 ELSE PhaseV2)
  BY PathFacts DEF Core
<1>. DEFINE l == CHOOSE p \in Lowest(Paths) : TRUE
<1>4. l \in Paths /\ \A q \in Paths : offset[l] <= offset[q]
  BY <1>3, LowestFacts
<1>. HIDE DEF l
<1>5. offset[l] \in Nat
  BY <1>3, <1>4 DEF Shapes
<1>6. Shapes'
  <2>1. rowLimit' \in Nat
    BY <1>1, <1>3, <1>5 DEF Shapes, l
  <2>. QED  BY <1>1, <1>2, <1>3, <2>1 DEF Shapes
<1>7. \A p \in Paths : PlanOK(p)'
  BY <1>1, <1>3, PlanStays
<1>8. QueuesOK'
  BY <1>1, <1>3, QueuesStay DEF Running, Ready
<1>9. ASSUME reader = "v3" PROVE PhaseV3'
  <2>1. ~filter.pushed => AllHaveData'
    BY <1>1, <1>2, <1>3, <1>9 DEF PhaseV3, AllHaveData, Remaining
  <2>. QED  BY <1>1, <1>2, <1>9, <2>1 DEF PhaseV3
<1>10. ASSUME reader # "v3" PROVE PhaseV2'
  <2>1. rowLimit' = offset[l] /\ phase' = "check"
    BY <1>1, <1>10 DEF l
  <2>2. pos < offset[l]
    BY <1>1, <1>3, <1>4, <1>10 DEF PhaseV2
  <2>3. pos' <= rowLimit' /\ pos' < rowLimit'
    <3>1. pos \in Nat
      BY <1>3 DEF Shapes
    <3>. QED  BY <1>1, <1>5, <2>1, <2>2, <3>1
  <2>4. \A p \in Paths : plan'[p] = <<>> /\ rowLimit' <= offset'[p]
    BY <1>1, <1>4, <2>1
  <2>. QED  BY <1>2, <2>1, <2>3, <2>4 DEF PhaseV2
<1>11. Complete'
  BY <1>1 DEF Complete
<1>12. RowsAligned'
  BY <1>1, BatchStays DEF Core
<1>. QED  BY <1>2, <1>6, <1>7, <1>8, <1>9, <1>10, <1>11, <1>12 DEF Core

-----------------------------------------------------------------------------
(* Handing out rows, v3.                                                   *)

\* n rows are taken from the front of a queue.
LEMMA PopFacts ==
    ASSUME InputsOK, NEW q \in Seq(Seq(Nat)), NEW x, NEW hi, Chain(q, Slices, K, x, hi), q # <<>>,
           NEW n \in Nat, n >= 1, n <= Len(Head(q))
    PROVE  /\ Popped(q, n) \in Seq(Seq(Nat)) /\ Chain(Popped(q, n), Slices, K, x + n, hi)
           /\ x \in 0 .. K /\ x + n \in 0 .. K
           /\ SubSeq(Head(q), 1, n) = SubSeq(filter.keep, x + 1, x + n)
           /\ Len(SubSeq(Head(q), 1, n)) = n
<1>1. K \in Nat
  BY KeptFacts
<1>2. PICK m \in 0 .. K : /\ x < m /\ m <= hi /\ Head(q) = Slices[x][m]
                          /\ Chain(Tail(q), Slices, K, m, hi)
  BY <1>1, ChainHead
<1>3. x \in 0 .. K /\ hi \in 0 .. K
  BY <1>1, ChainEnds
<1>4. x <= m
  BY <1>1, <1>2, <1>3
<1>5. /\ Head(q) \in Seq(Nat) /\ Len(Head(q)) = m - x
      /\ \A j \in 1 .. m - x : SubSeq(Head(q), 1, j) = Slices[x][x + j]
      /\ \A j \in 1 .. (m - x) - 1 : SubSeq(Head(q), j + 1, m - x) = Slices[x + j][m]
  <2>. DEFINE h == Slices[x][m]
  <2>1. /\ h \in Seq(Nat) /\ Len(h) = m - x
        /\ \A j \in 1 .. m - x : SubSeq(h, 1, j) = Slices[x][x + j]
        /\ \A j \in 1 .. (m - x) - 1 : SubSeq(h, j + 1, m - x) = Slices[x + j][m]
    BY <1>3, <1>4, SliceFacts
  <2>2. Head(q) = h
    BY <1>2
  <2>. HIDE DEF h
  <2>. QED  BY <2>1, <2>2, Zenon
<1>6. n \in 1 .. m - x /\ x + n \in 0 .. K /\ x <= x + n /\ (x + n) - x = n /\ x + n <= m
  <2>1. n <= m - x
    BY <1>5
  <2>. QED  BY <1>1, <1>3, <2>1
<1>7. /\ SubSeq(Head(q), 1, n) = SubSeq(filter.keep, x + 1, x + n)
      /\ Len(SubSeq(Head(q), 1, n)) = n
  <2>1. SubSeq(Head(q), 1, n) = Slices[x][x + n]
    BY <1>5, <1>6
  <2>2. Slices[x][x + n] = SubSeq(filter.keep, x + 1, x + n) /\ Len(Slices[x][x + n]) = (x + n) - x
    BY <1>3, <1>6, SliceFacts
  <2>. QED  BY <1>6, <2>1, <2>2
<1>8. Tail(q) \in Seq(Seq(Nat))
  BY HeadTailProperties
<1>9. CASE Len(Head(q)) = n
  <2>1. Popped(q, n) = Tail(q)
    BY <1>9 DEF Popped
  <2>2. m = x + n
    BY <1>1, <1>3, <1>5, <1>9
  <2>. QED  BY <1>2, <1>3, <1>6, <1>7, <1>8, <2>1, <2>2
<1>10. CASE Len(Head(q)) # n
  <2>1. n \in 1 .. (m - x) - 1 /\ x + n < m
    BY <1>1, <1>3, <1>5, <1>6, <1>10
  <2>2. SubSeq(Head(q), n + 1, Len(Head(q))) = Slices[x + n][m]
    BY <1>5, <2>1
  <2>. DEFINE y == Slices[x + n][m]
  <2>3. Popped(q, n) = <<y>> \o Tail(q)
    BY <1>10, <2>2 DEF Popped
  <2>4. y \in Seq(Nat)
    BY <1>6, SliceFacts
  <2>5. Chain(<<y>>, Slices, K, x + n, m)
    BY <1>1, <1>6, <2>1, ChainOne
  <2>. HIDE DEF y
  <2>6. <<y>> \in Seq(Seq(Nat))
    BY <2>4
  <2>7. Chain(<<y>> \o Tail(q), Slices, K, x + n, hi)
    BY <1>1, <1>2, <1>8, <2>5, <2>6, ChainConcat
  <2>8. <<y>> \o Tail(q) \in Seq(Seq(Nat))
    BY <1>8, <2>6, ConcatProperties
  <2>. QED  BY <1>3, <1>6, <1>7, <2>3, <2>7, <2>8
<1>. QED  BY <1>9, <1>10

\* Where a queue of v3 is empty and nothing is planned, all that was read is
\* handed out.
LEMMA EmptyV3 ==
    ASSUME InputsOK, Shapes, NEW p \in Paths, PlanOK(p), QueueV3(p), queue[p] = <<>>, plan[p] = <<>>,
           ~Remaining(p)
    PROVE  pos = K
<1>1. /\ p \in 1 .. Len(table) /\ Len(table[p]) \in Nat /\ next[p] \in 0 .. Len(table[p])
      /\ Ready(p) + Len(plan[p]) = next[p] /\ Len(plan[p]) = 0 /\ Ready(p) \in 0 .. Len(table[p])
  BY PlanFacts
<1>2. Ready(p) = Len(table[p])
  BY <1>1 DEF Remaining
<1>3. Kept(End(p, Ready(p))) = K /\ K \in Nat
  <2>1. End(p, Ready(p)) = TotalRows
    BY <1>1, <1>2, RowGroupEnds
  <2>. QED  BY <2>1, KeptFacts
<1>4. queue[p] \in Seq(Seq(Nat)) /\ Chain(queue[p], Slices, K, pos, K)
  BY <1>3 DEF QueueV3
<1>5. queue[p] = <<>> => pos = K
  BY <1>3, <1>4, ChainEnds
<1>. QED  BY <1>5

\* While there are rows to hand out, every column group has some.
LEMMA NoneStarvesV3 ==
    ASSUME InputsOK, Core, reader = "v3", phase = "emit", NEW p \in Paths, NEW q \in Paths,
           queue[p] = <<>>
    PROVE  queue[q] = <<>> /\ (~filter.pushed => pos = TotalRows)
<1>1. /\ Shapes /\ (\A g \in Paths : PlanOK(g) /\ QueueV3(g) /\ plan[g] = <<>>)
      /\ filter.pushed \in BOOLEAN
  BY DEF Core, QueuesOK, Running, PhaseV3, InputsOK, Given
<1>2. CASE filter.pushed
  <2>1. Paths = 1 .. 1
    BY <1>2, PathFacts DEF InputsOK, Given
  <2>2. p = q
    BY <2>1
  <2>. QED  BY <1>2, <2>2
<1>3. CASE ~filter.pushed
  <2>1. ~Remaining(p)
    BY <1>1, <1>3 DEF Core, PhaseV3, AllHaveData
  <2>2. pos = K
    BY <1>1, <2>1, EmptyV3
  <2>3. K = TotalRows /\ K \in Nat
    BY <1>3, KeptFacts
  <2>4. queue[q] \in Seq(Seq(Nat)) /\ Chain(queue[q], Slices, K, pos, Kept(End(q, Ready(q))))
    BY <1>1 DEF QueueV3
  <2>5. /\ Kept(End(q, Ready(q))) \in 0 .. K
        /\ queue[q] # <<>> => pos < Kept(End(q, Ready(q)))
    BY <2>3, <2>4, ChainEnds
  <2>6. queue[q] = <<>>
    BY <2>2, <2>3, <2>5
  <2>. QED  BY <2>2, <2>3, <2>6
<1>. QED  BY <1>1, <1>2, <1>3

\* The end of ReadNext of v3 keeps the invariant.
LEMMA EmitKeeps ==
    ASSUME InputsOK, Core, Emit
    PROVE  Core'
<1>1. /\ reader = "v3" /\ phase = "emit"
      /\ UNCHANGED <<inputs, next, offset, plan, at, rowLimit, failures>>
  BY DEF Emit, planning
<1>2. /\ reader' = reader /\ table' = table /\ Paths' = Paths /\ filter' = filter /\ K' = K
      /\ filter.pushed \in BOOLEAN
  BY <1>1, Frame DEF InputsOK, Given
<1>3. /\ Shapes /\ (\A q \in Paths : PlanOK(q) /\ QueueV3(q) /\ plan[q] = <<>>)
      /\ Paths = 1 .. Len(table) /\ Paths # {} /\ QueuesOK
  BY <1>1, PathFacts DEF Core, QueuesOK, Running, PhaseV3
<1>4. \A p \in Paths : PlanOK(p)'
  BY <1>1, <1>3, PlanStays
<1>5. CASE /\ (~filter.pushed /\ pos = TotalRows) \/ Exhausted
           /\ phase' = "eof" /\ UNCHANGED <<queue, pos, batch>>
  <2>1. pos = K
    <3>1. CASE ~filter.pushed /\ pos = TotalRows
      BY <3>1, KeptFacts
    <3>2. CASE Exhausted
      <4>1. PICK p \in Paths : queue[p] = <<>> /\ ~Remaining(p)
        BY <1>3, <3>2 DEF Exhausted
      <4>. QED  BY <1>3, <4>1, EmptyV3
    <3>. QED  BY <1>5, <3>1, <3>2
  <2>2. Complete'
    <3>1. \A p \in Paths : ~filter.pushed => pos = End(p, Len(table[p]))
      BY <1>3, <2>1, KeptFacts, RowGroupEnds
    <3>2. \A p, k : End(p, k)' = End(p, k)
      BY <1>1, Frame
    <3>. QED  BY <1>2, <1>5, <2>1, <3>1, <3>2 DEF Complete, Expected, K
  <2>3. Shapes'
    BY <1>1, <1>2, <1>3, <1>5 DEF Shapes
  <2>4. QueuesOK'
    BY <1>5 DEF QueuesOK, Running
  <2>5. PhaseV3'
    BY <1>5 DEF PhaseV3
  <2>6. RowsAligned'
    BY <1>1, <1>5, BatchStays DEF Core
  <2>. QED  BY <1>1, <1>2, <1>4, <2>2, <2>3, <2>4, <2>5, <2>6 DEF Core
<1>6. CASE phase' = "idle" /\ UNCHANGED <<queue, pos, batch>>
  <2>1. Shapes'
    BY <1>1, <1>2, <1>3, <1>6 DEF Shapes
  <2>2. QueuesOK'
    BY <1>1, <1>3, <1>6, QueuesStay DEF Running, Ready
  <2>3. PhaseV3'
    BY <1>1, <1>2, <1>3, <1>6 DEF PhaseV3
  <2>4. Complete'
    BY <1>6 DEF Complete
  <2>5. RowsAligned'
    BY <1>1, <1>6, BatchStays DEF Core
  <2>. QED  BY <1>1, <1>2, <1>4, <2>1, <2>2, <2>3, <2>4, <2>5 DEF Core
<1>7. CASE /\ ~(~filter.pushed /\ pos = TotalRows) /\ ~(\A p \in Paths : queue[p] = <<>>)
           /\ phase' = "idle"
           /\ batch' = [rows |-> [p \in Paths |-> SubSeq(Head(queue[p]), 1, MinRows)]]
           /\ queue' = [p \in DOMAIN queue |-> Popped(queue[p], MinRows)]
           /\ pos' = pos + MinRows
  <2>. DEFINE n == MinRows
              S == {cap} \cup {Len(Head(queue[p])) : p \in Paths}
  <2>1. \A p \in Paths : queue[p] # <<>> /\ queue[p] \in Seq(Seq(Nat))
    BY <1>1, <1>3, <1>7, NoneStarvesV3 DEF QueueV3
  <2>2. \A p \in Paths : Len(Head(queue[p])) \in Nat /\ Len(Head(queue[p])) >= 1
    <3>. TAKE p \in Paths
    <3>1. Chain(queue[p], Slices, K, pos, Kept(End(p, Ready(p)))) /\ K \in Nat
      BY <1>3, KeptFacts DEF QueueV3
    <3>2. PICK m \in 0 .. K : pos < m /\ Head(queue[p]) = Slices[pos][m]
      <4>. DEFINE w == queue[p]
                  hi == Kept(End(p, Ready(p)))
      <4>1. w \in Seq(Seq(Nat)) /\ w # <<>> /\ Chain(w, Slices, K, pos, hi)
        BY <2>1, <3>1
      <4>. HIDE DEF w, hi
      <4>2. \E m \in 0 .. K : /\ pos < m /\ m <= hi /\ Head(w) = Slices[pos][m]
                              /\ Chain(Tail(w), Slices, K, m, hi)
        BY <3>1, <4>1, ChainHead
      <4>. QED  BY <4>2 DEF w
    <3>3. pos \in 0 .. K
      BY <2>1, <3>1, ChainEnds
    <3>4. Len(Head(queue[p])) = m - pos
      <4>1. pos <= m
        BY <3>1, <3>2, <3>3
      <4>. QED  BY <3>2, <3>3, <4>1, SliceFacts
    <3>. QED  BY <3>1, <3>2, <3>3, <3>4
  <2>3. cap \in Nat \ {0}
    BY DEF InputsOK, Given
  <2>4. S \subseteq Nat /\ S # {} /\ \A y \in S : y >= 1
    BY <2>2, <2>3
  <2>5. n = Min(S)
    BY DEF MinRows
  <2>6. n \in Nat /\ n >= 1 /\ \A p \in Paths : n <= Len(Head(queue[p]))
    <3>1. Min(S) \in S /\ \A y \in S : Min(S) <= y
      <4>. HIDE DEF S
      <4>. QED  BY <2>4, LeastElement
    <3>. QED  BY <2>4, <2>5, <3>1
  <2>. HIDE DEF n, S
  <2>7. ASSUME NEW p \in Paths
        PROVE  /\ Popped(queue[p], n) \in Seq(Seq(Nat))
               /\ Chain(Popped(queue[p], n), Slices, K, pos + n, Kept(End(p, Ready(p))))
               /\ pos \in 0 .. K /\ pos + n \in 0 .. K
               /\ SubSeq(Head(queue[p]), 1, n) = SubSeq(filter.keep, pos + 1, pos + n)
               /\ Len(SubSeq(Head(queue[p]), 1, n)) = n
    <3>1. Chain(queue[p], Slices, K, pos, Kept(End(p, Ready(p))))
      BY <1>3 DEF QueueV3
    <3>. DEFINE w == queue[p]
                hi == Kept(End(p, Ready(p)))
    <3>2. w \in Seq(Seq(Nat)) /\ w # <<>> /\ n <= Len(Head(w)) /\ Chain(w, Slices, K, pos, hi)
      BY <2>1, <2>6, <3>1
    <3>. HIDE DEF w, hi
    <3>3. /\ Popped(w, n) \in Seq(Seq(Nat))
          /\ Chain(Popped(w, n), Slices, K, pos + n, hi)
          /\ pos \in 0 .. K /\ pos + n \in 0 .. K
          /\ SubSeq(Head(w), 1, n) = SubSeq(filter.keep, pos + 1, pos + n)
          /\ Len(SubSeq(Head(w), 1, n)) = n
      <4>1. n \in Nat /\ n >= 1
        BY <2>6
      <4>. QED  BY <4>1, <3>2, PopFacts, ZenonT(90)
    <3>. QED  BY <3>3 DEF w, hi
  <2>8. /\ batch' = [rows |-> [p \in Paths |-> SubSeq(Head(queue[p]), 1, n)]]
        /\ queue' = [p \in 1 .. Len(table) |-> Popped(queue[p], n)]
        /\ pos' = pos + n
    BY <1>3, <1>7 DEF n, Shapes
  <2>9. Shapes'
    <3>1. pos' \in Nat
      <4>1. K \in Nat /\ pos + n \in 0 .. K
        BY <1>3, <2>7, KeptFacts
      <4>. QED  BY <2>8, <4>1
    <3>. QED  BY <1>1, <1>2, <1>3, <2>8, <3>1 DEF Shapes
  <2>10. ASSUME NEW p \in Paths PROVE QueueV3(p)'
    <3>1. K' = K /\ Slices' = Slices
      BY <1>1, Frame
    <3>2. Kept(End(p, Ready(p)))' = Kept(End(p, Ready(p)))
      BY <1>1, Frame DEF Kept, End, Ready
    <3>3. queue'[p] = Popped(queue[p], n)
      BY <1>3, <2>8
    <3>. QED  BY <2>7, <2>8, <3>1, <3>2, <3>3 DEF QueueV3
  <2>11. QueuesOK'
    BY <1>1, <1>2, <2>10 DEF QueuesOK
  <2>12. PhaseV3'
    BY <1>1, <1>2, <1>3, <1>7 DEF PhaseV3
  <2>13. Complete'
    BY <1>7 DEF Complete
  <2>14. RowsAligned'
    <3>1. DOMAIN batch'.rows = Paths /\ \A p \in Paths : batch'.rows[p] = SubSeq(Head(queue[p]), 1, n)
      BY <2>8
    <3>2. Expected' = filter.keep /\ Len(Expected') = K
      BY <1>2 DEF Expected, K
    <3>3. ASSUME NEW p \in Paths
          PROVE  /\ pos' \in Len(batch'.rows[p]) .. Len(Expected')
                 /\ batch'.rows[p] = SubSeq(Expected', pos' - Len(batch'.rows[p]) + 1, pos')
      <4>1. batch'.rows[p] = SubSeq(filter.keep, pos + 1, pos + n) /\ Len(batch'.rows[p]) = n
        BY <2>7, <3>1
      <4>2. K \in Nat /\ pos \in 0 .. K /\ pos + n \in 0 .. K
        BY <2>7, KeptFacts
      <4>3. pos + n \in n .. K /\ (pos + n) - n + 1 = pos + 1
        BY <2>6, <4>2
      <4>. QED  BY <2>8, <3>2, <4>1, <4>3
    <3>4. pos' \in Nat
      BY <2>9 DEF Shapes
    <3>5. ASSUME NEW p \in Paths
          PROVE  \E e \in Len(batch'.rows[p]) .. Len(Expected') :
                   /\ batch'.rows[p] = SubSeq(Expected', e - Len(batch'.rows[p]) + 1, e)
                   /\ e <= pos' /\ (OwnNumber(p)' => e = pos')
      <4>1. pos' <= pos'
        BY <3>4
      <4>2. pos' \in Len(batch'.rows[p]) .. Len(Expected')
        BY <3>3
      <4>3. batch'.rows[p] = SubSeq(Expected', pos' - Len(batch'.rows[p]) + 1, pos')
        BY <3>3
      <4>. QED  BY <4>1, <4>2, <4>3, Zenon
    <3>. QED  BY <3>1, <3>5 DEF RowsAligned
  <2>. QED  BY <1>1, <1>2, <1>4, <2>9, <2>11, <2>12, <2>13, <2>14 DEF Core
<1>. QED  BY <1>5, <1>6, <1>7 DEF Emit

-----------------------------------------------------------------------------
(* v2.                                                                     *)

\* v2 has no predicate: all rows are to be handed out.
LEMMA AllRowsV2 ==
    ASSUME InputsOK, reader = "v2"
    PROVE  ~filter.pushed /\ K = TotalRows
<1>1. ~filter.pushed
  BY DEF InputsOK, Given
<1>. QED  BY <1>1, KeptFacts

\* The front of a queue of v2: the row group that is handed out, and where.
LEMMA FrontV2 ==
    ASSUME InputsOK, Shapes, NEW p \in Paths, PlanOK(p), QueueV2(p), queue[p] # <<>>
    PROVE  \E lo, m \in 0 .. Len(table[p]) :
             LET k == lo + at[p].chunk
             IN  /\ lo < m /\ m <= Ready(p) /\ at[p].chunk \in Nat /\ at[p].off \in Nat
                 /\ k \in 1 .. m /\ k > lo
                 /\ Len(Head(queue[p])) = m - lo
                 /\ Head(queue[p])[at[p].chunk] = RowsOf(p, k)
                 /\ at[p].off < Size(p, k)
                 /\ End(p, k - 1) + at[p].off <= pos
                 /\ OwnNumber(p) => pos = End(p, k - 1) + at[p].off
                 /\ Chain(queue[p], TablesOf(p), Len(table[p]), lo, Ready(p))
                 /\ Chain(Tail(queue[p]), TablesOf(p), Len(table[p]), m, Ready(p))
                 /\ Head(queue[p]) = TablesOf(p)[lo][m]
<1>. DEFINE N == Len(table[p])
            w == queue[p]
            hi == Ready(p)
            c == at[p].chunk
            o == at[p].off
            F == TablesOf(p)
<1>1. N \in Nat /\ p \in 1 .. Len(table) /\ hi \in 0 .. N
  BY PlanFacts
<1>2. c \in Nat /\ o \in Nat
  BY <1>1 DEF Shapes
<1>3. w \in Seq(Seq(Seq(Nat))) /\ w # <<>>
  BY DEF QueueV2
<1>4. PICK lo \in 0 .. N :
        /\ Chain(w, F, N, lo, hi) /\ c >= 1
        /\ c <= Len(Head(w)) /\ o < Size(p, lo + c)
        /\ End(p, lo + c - 1) + o <= pos
        /\ OwnNumber(p) => pos = End(p, lo + c - 1) + o
  BY DEF QueueV2
<1>5. \A a, b \in 0 .. N : a <= b => Len(F[a][b]) = b - a /\ \A i \in 1 .. b - a : F[a][b][i] = RowsOf(p, a + i)
  BY TableFacts
<1>. HIDE DEF N, w, hi, c, o, F
<1>6. PICK m \in 0 .. N : lo < m /\ m <= hi /\ Head(w) = F[lo][m] /\ Chain(Tail(w), F, N, m, hi)
  BY <1>1, <1>3, <1>4, ChainHead
<1>7. lo <= m
  BY <1>1, <1>6
<1>8. Len(F[lo][m]) = m - lo /\ \A i \in 1 .. m - lo : F[lo][m][i] = RowsOf(p, lo + i)
  BY <1>5, <1>7
<1>9. Len(Head(w)) = m - lo
  BY <1>6, <1>8
<1>10. c \in 1 .. m - lo /\ lo + c \in 1 .. m /\ lo + c > lo
  BY <1>1, <1>2, <1>4, <1>9
<1>11. Head(w)[c] = RowsOf(p, lo + c)
  BY <1>6, <1>8, <1>10
<1>. QED
  <2>1. /\ lo < m /\ m <= hi /\ c \in Nat /\ o \in Nat
        /\ lo + c \in 1 .. m /\ lo + c > lo
        /\ Len(Head(w)) = m - lo
        /\ Head(w)[c] = RowsOf(p, lo + c)
        /\ o < Size(p, lo + c)
        /\ End(p, (lo + c) - 1) + o <= pos
        /\ OwnNumber(p) => pos = End(p, (lo + c) - 1) + o
        /\ Chain(w, F, N, lo, hi)
        /\ Chain(Tail(w), F, N, m, hi)
        /\ Head(w) = F[lo][m]
    BY <1>2, <1>4, <1>6, <1>9, <1>10, <1>11
  <2>. QED  BY <2>1 DEF N, w, hi, c, o, F

\* When all rows of a file are handed out its next table starts from its first row.
LEMMA DrainedV2 ==
    ASSUME InputsOK, Shapes, NEW p \in Paths, OwnNumber(p), PlanOK(p), QueueV2(p), plan[p] = <<>>, offset[p] <= pos
    PROVE  at[p] = Start[p]
<1>1. /\ p \in 1 .. Len(table) /\ Len(table[p]) \in Nat /\ next[p] \in 0 .. Len(table[p])
      /\ Ready(p) = next[p] /\ offset[p] = End(p, next[p]) /\ Ready(p) \in 0 .. Len(table[p])
  <2>1. /\ p \in 1 .. Len(table) /\ Len(table[p]) \in Nat /\ next[p] \in 0 .. Len(table[p])
        /\ Ready(p) + Len(plan[p]) = next[p] /\ Len(plan[p]) = 0 /\ Ready(p) \in 0 .. Len(table[p])
    BY PlanFacts
  <2>2. Ready(p) = next[p]
    BY <2>1
  <2>. QED  BY <2>1, <2>2 DEF PlanOK
<1>2. TotalRows \in Nat /\ \A i \in 0 .. Len(table[p]) : End(p, i) \in 0 .. TotalRows
  BY <1>1, RowGroupEnds
<1>3. queue[p] = <<>>
  <2>. SUFFICES ASSUME queue[p] # <<>> PROVE FALSE
    OBVIOUS
  <2>1. PICK lo, m \in 0 .. Len(table[p]) :
          LET k == lo + at[p].chunk
          IN  /\ m <= Ready(p) /\ at[p].off \in Nat /\ k \in 1 .. m
              /\ at[p].off < Size(p, k) /\ pos = End(p, k - 1) + at[p].off
    BY FrontV2
  <2>. DEFINE k == lo + at[p].chunk
  <2>2. k \in 1 .. m /\ at[p].off < Size(p, k) /\ pos = End(p, k - 1) + at[p].off /\ at[p].off \in Nat /\ m <= Ready(p)
    BY <2>1
  <2>. HIDE DEF k
  <2>3. k \in 0 .. Len(table[p]) /\ k - 1 \in 0 .. Len(table[p]) /\ (k = next[p] \/ k < next[p])
    BY <1>1, <2>2
  <2>4. End(p, k) = End(p, next[p]) \/ End(p, k) < End(p, next[p])
    BY <1>1, <2>3, RowGroupEnds
  <2>5. Size(p, k) = End(p, k) - End(p, k - 1)
    BY DEF Size
  <2>6. End(p, k) \in 0 .. TotalRows /\ End(p, k - 1) \in 0 .. TotalRows /\ End(p, next[p]) \in 0 .. TotalRows
    BY <1>1, <1>2, <2>3
  <2>7. pos < End(p, k)
    BY <1>2, <2>2, <2>5, <2>6
  <2>8. pos < End(p, next[p])
    <3>1. pos \in Nat
      BY DEF Shapes
    <3>. QED  BY <1>2, <2>4, <2>6, <2>7, <3>1
  <2>9. pos \in Nat
    BY DEF Shapes
  <2>. QED  BY <1>1, <1>2, <2>6, <2>8, <2>9
<1>. QED  BY <1>3 DEF QueueV2

\* ReadNext of v2 keeps the invariant.
LEMMA ReadNextV2Keeps ==
    ASSUME InputsOK, Core, ReadNextV2
    PROVE  Core'
<1>1. /\ reader = "v2" /\ phase = "idle" /\ batch' = None
      /\ phase' = IF pos >= rowLimit THEN "fill" ELSE "slice"
      /\ UNCHANGED <<inputs, next, offset, plan, queue, at, rowLimit, pos, failures>>
  BY DEF ReadNextV2, planning
<1>2. reader' = reader /\ table' = table /\ Paths' = Paths /\ filter' = filter
  BY <1>1, Frame
<1>3. Shapes /\ (\A p \in Paths : PlanOK(p)) /\ QueuesOK /\ PhaseV2
  BY <1>1 DEF Core
<1>4. Shapes'
  BY <1>1, <1>2, <1>3 DEF Shapes
<1>5. \A p \in Paths : PlanOK(p)'
  BY <1>1, <1>3, PlanStays
<1>6. QueuesOK'
  BY <1>1, <1>3, QueuesStay DEF Running, Ready
<1>7. PhaseV2'
  <2>1. pos \in Nat /\ rowLimit \in Nat
    BY <1>3 DEF Shapes
  <2>2. /\ \A p \in Paths : plan[p] = <<>> /\ rowLimit <= offset[p]
        /\ pos <= rowLimit
    BY <1>1, <1>3 DEF PhaseV2
  <2>3. CASE pos >= rowLimit
    <3>1. pos = rowLimit
      BY <2>1, <2>2, <2>3
    <3>. QED  BY <1>1, <1>2, <2>2, <2>3, <3>1 DEF PhaseV2
  <2>4. CASE ~(pos >= rowLimit)
    <3>1. pos < rowLimit
      BY <2>1, <2>4
    <3>. QED  BY <1>1, <1>2, <2>2, <2>4, <3>1 DEF PhaseV2
  <2>. QED  BY <2>3, <2>4
<1>8. Complete'
  BY <1>1 DEF Complete
<1>9. RowsAligned'
  BY <1>1, NoBatch
<1>. QED  BY <1>1, <1>2, <1>4, <1>5, <1>6, <1>7, <1>8, <1>9 DEF Core

\* The end of the planning of v2 keeps the invariant.
LEMMA LimitReachedKeeps ==
    ASSUME InputsOK, Core, LimitReached
    PROVE  Core'
<1>1. /\ reader = "v2" /\ phase = "plan" /\ phase' = "io"
      /\ UNCHANGED <<inputs, next, offset, plan, queue, at, rowLimit, pos, batch, failures>>
  BY DEF LimitReached, planning
<1>2. reader' = reader /\ table' = table /\ Paths' = Paths /\ filter' = filter
  BY <1>1, Frame
<1>3. Shapes /\ (\A p \in Paths : PlanOK(p)) /\ QueuesOK /\ PhaseV2
  BY <1>1 DEF Core
<1>4. Shapes'
  BY <1>1, <1>2, <1>3 DEF Shapes
<1>5. \A p \in Paths : PlanOK(p)'
  BY <1>1, <1>3, PlanStays
<1>6. QueuesOK'
  BY <1>1, <1>3, QueuesStay DEF Running, Ready
<1>7. PhaseV2'
  BY <1>1, <1>2, <1>3 DEF PhaseV2
<1>8. Complete'
  BY <1>1 DEF Complete
<1>9. RowsAligned'
  BY <1>1, BatchStays DEF Core
<1>. QED  BY <1>1, <1>2, <1>4, <1>5, <1>6, <1>7, <1>8, <1>9 DEF Core

\* v2 sees the end only when all rows are handed out.
LEMMA CheckKeeps ==
    ASSUME InputsOK, Core, Check
    PROVE  Core'
<1>1. /\ phase = "check"
      /\ phase' = IF pos >= rowLimit THEN "eof" ELSE "slice"
      /\ UNCHANGED <<inputs, next, offset, plan, queue, at, rowLimit, pos, batch, failures>>
  BY DEF Check, planning
<1>2. /\ reader' = reader /\ table' = table /\ Paths' = Paths /\ filter' = filter /\ TotalRows' = TotalRows
      /\ reader = "v2"
  BY <1>1, Frame DEF Core, PhaseV3, InputsOK, Given
<1>3. Shapes /\ (\A p \in Paths : PlanOK(p)) /\ QueuesOK /\ PhaseV2
  BY <1>2 DEF Core
<1>4. Shapes'
  BY <1>1, <1>2, <1>3 DEF Shapes
<1>5. \A p \in Paths : PlanOK(p)'
  BY <1>1, <1>3, PlanStays
<1>6. QueuesOK'
  BY <1>1, <1>3, QueuesStay DEF Running, Ready
<1>7. pos \in Nat /\ rowLimit \in Nat
  BY <1>3 DEF Shapes
<1>8. PhaseV2'
  <2>1. CASE pos >= rowLimit
    BY <1>1, <2>1 DEF PhaseV2
  <2>2. CASE ~(pos >= rowLimit)
    <3>1. pos < rowLimit
      BY <1>7, <2>2
    <3>. QED  BY <1>1, <1>2, <1>3, <2>2, <3>1 DEF PhaseV2
  <2>. QED  BY <2>1, <2>2
<1>9. Complete'
  <2>1. pos >= rowLimit => pos = K
    <3>1. pos < rowLimit \/ pos = TotalRows
      BY <1>1, <1>3 DEF PhaseV2
    <3>2. K = TotalRows
      BY <1>2, AllRowsV2
    <3>. QED  BY <1>7, <3>1, <3>2
  <2>2. Len(Expected') = K
    BY <1>2 DEF Expected, K
  <2>3. pos >= rowLimit => \A p \in Paths : pos = End(p, Len(table[p]))
    BY <1>2, <2>1, AllRowsV2, PathFacts, RowGroupEnds
  <2>4. \A p, k : End(p, k)' = End(p, k)
    BY <1>1, Frame
  <2>. QED  BY <1>1, <1>2, <2>1, <2>2, <2>3, <2>4 DEF Complete
<1>10. RowsAligned'
  BY <1>1, BatchStays DEF Core
<1>. QED  BY <1>2, <1>4, <1>5, <1>6, <1>8, <1>9, <1>10 DEF Core

\* Close keeps the invariant.
LEMMA CloseKeeps ==
    ASSUME InputsOK, Core, Close
    PROVE  Core'
<1>1. /\ reader = "v2" /\ phase' = "closed" /\ batch' = None
      /\ queue' = [p \in DOMAIN queue |-> <<>>]
      /\ UNCHANGED <<inputs, next, offset, plan, at, rowLimit, pos, failures>>
  BY DEF Close, planning
<1>2. reader' = reader /\ table' = table /\ Paths' = Paths /\ filter' = filter
  BY <1>1, Frame
<1>3. Shapes'
  BY <1>1, <1>2 DEF Core, Shapes
<1>4. \A p \in Paths : PlanOK(p)'
  BY <1>1, PlanStays DEF Core
<1>5. QueuesOK'
  BY <1>1 DEF QueuesOK, Running
<1>6. PhaseV2'
  BY <1>1 DEF PhaseV2
<1>7. Complete'
  BY <1>1 DEF Complete
<1>8. RowsAligned'
  BY <1>1, NoBatch
<1>. QED  BY <1>1, <1>2, <1>3, <1>4, <1>5, <1>6, <1>7, <1>8 DEF Core

\* Setting a file back to the start of its table keeps its queue good: it can only
\* fall behind what is handed out, and only when files were left out.
LEMMA ResetKeepsQueue ==
    ASSUME InputsOK, Shapes, NEW p \in Paths, PlanOK(p), QueueV2(p), UNCHANGED <<inputs, queue, pos>>,
           next'[p] - Len(plan'[p]) = Ready(p),
           at'[p] = Start[p], OwnNumber(p) => at[p] = Start[p]
    PROVE  QueueV2(p)'
<1>. DEFINE N == Len(table[p])
            c == at[p].chunk
            o == at[p].off
<1>1. p \in 1 .. Len(table) /\ N \in Nat /\ Ready(p) \in 0 .. N /\ c \in Nat /\ o \in Nat /\ TotalRows \in Nat
  BY PlanFacts, RowGroupEnds DEF Shapes
<1>2. Start[p] = [chunk |-> 1, off |-> 0]
  BY <1>1 DEF Start
<1>3. at'[p].chunk = 1 /\ at'[p].off = 0
  BY <1>2
<1>4. CASE queue[p] = <<>>
  <2>1. at[p] = Start[p]
    BY <1>4 DEF QueueV2
  <2>2. PICK lo \in 0 .. N :
          /\ Chain(queue[p], TablesOf(p), N, lo, Ready(p))
          /\ End(p, lo + c - 1) + o <= pos
          /\ OwnNumber(p) => pos = End(p, lo + c - 1) + o
    BY DEF QueueV2
  <2>3. queue[p] \in Seq(Seq(Seq(Nat))) /\ at'[p].chunk = c /\ at'[p].off = o /\ c = 1
    BY <1>2, <2>1 DEF QueueV2
  <2>4. /\ lo \in 0 .. Len(table[p]) /\ Ready(p) = next'[p] - Len(plan'[p])
        /\ c = at'[p].chunk /\ o = at'[p].off
        /\ queue'[p] \in Seq(Seq(Seq(Nat))) /\ Chain(queue'[p], TablesOf(p), Len(table[p]), lo, Ready(p))
        /\ c >= 1 /\ queue'[p] = <<>> /\ at'[p] = Start[p]
        /\ End(p, lo + c - 1) + o <= pos' /\ (OwnNumber(p) => pos' = End(p, lo + c - 1) + o)
    <3>. HIDE DEF c, o
    <3>. QED  BY <1>4, <2>2, <2>3
  <2>. HIDE DEF c, o
  <2>. QED  BY <2>4, MakeV2
<1>5. CASE queue[p] # <<>>
  <2>1. PICK lo, m \in 0 .. N :
          /\ lo < m /\ m <= Ready(p) /\ lo + c \in 1 .. m /\ lo + c > lo
          /\ Len(Head(queue[p])) = m - lo
          /\ End(p, (lo + c) - 1) + o <= pos
          /\ OwnNumber(p) => pos = End(p, (lo + c) - 1) + o
          /\ Chain(queue[p], TablesOf(p), N, lo, Ready(p))
    BY <1>5, FrontV2
  <2>. HIDE DEF N, c, o
  <2>2. /\ lo + 1 \in 0 .. N /\ lo < lo + 1 /\ (lo + c) - 1 \in 0 .. N /\ lo + 1 - 1 = lo /\ 1 <= m - lo
        /\ lo <= (lo + c) - 1 /\ (lo = (lo + c) - 1 \/ lo < (lo + c) - 1)
    BY <1>1, <2>1, SMTT(30)
  <2>3. /\ End(p, lo) \in 0 .. TotalRows /\ End(p, lo + 1) \in 0 .. TotalRows /\ End(p, lo) < End(p, lo + 1)
        /\ End(p, (lo + c) - 1) \in 0 .. TotalRows
        /\ (End(p, lo) = End(p, (lo + c) - 1) \/ End(p, lo) < End(p, (lo + c) - 1))
    BY <1>1, <2>2, RowGroupEnds DEF N
  <2>4. 0 < Size(p, lo + 1)
    <3>1. Size(p, lo + 1) = End(p, lo + 1) - End(p, lo)
      BY <2>2 DEF Size
    <3>. QED  BY <1>1, <2>3, <3>1
  <2>5. End(p, lo + 1 - 1) + 0 <= pos
    <3>1. pos \in Nat
      BY DEF Shapes
    <3>2. End(p, lo) + 0 <= pos
      <4>1. \A x, y, z, w \in Int : (x = y \/ x < y) /\ 0 <= w /\ y + w <= z => x + 0 <= z
        OBVIOUS
      <4>2. End(p, lo) \in Int /\ End(p, (lo + c) - 1) \in Int /\ o \in Int /\ pos \in Int /\ 0 <= o
        BY <1>1, <2>3, <3>1
      <4>. QED  BY <2>1, <2>3, <4>1, <4>2
    <3>. QED  BY <2>2, <3>2
  <2>6. OwnNumber(p) => pos = End(p, lo + 1 - 1) + 0
    <3>1. OwnNumber(p) => c = 1 /\ o = 0
      BY <1>2 DEF c, o
    <3>2. lo + 1 - 1 = (lo + 1) - 1
      OBVIOUS
    <3>. QED  BY <2>1, <3>1, <3>2
  <2>7. /\ lo \in 0 .. Len(table[p]) /\ Ready(p) = next'[p] - Len(plan'[p])
        /\ 1 = at'[p].chunk /\ 0 = at'[p].off
        /\ queue'[p] \in Seq(Seq(Seq(Nat))) /\ Chain(queue'[p], TablesOf(p), Len(table[p]), lo, Ready(p))
        /\ 1 >= 1 /\ (queue'[p] = <<>> => at'[p] = Start[p])
        /\ (queue'[p] # <<>> => 1 <= Len(Head(queue'[p])) /\ 0 < Size(p, lo + 1))
        /\ End(p, lo + 1 - 1) + 0 <= pos' /\ (OwnNumber(p) => pos' = End(p, lo + 1 - 1) + 0)
    BY <1>3, <2>1, <2>2, <2>4, <2>5, <2>6 DEF QueueV2, N
  <2>. QED  BY <2>7, MakeV2
<1>. QED  BY <1>4, <1>5

\* Fill keeps the invariant: when a file whose rows are all handed out has no row
\* group left, all of them have none.
LEMMA FillKeeps ==
    ASSUME InputsOK, Core, Fill
    PROVE  Core'
<1>. DEFINE drained == {i \in DOMAIN order : offset[order[i]] <= rowLimit}
            ended == {i \in drained : ~Remaining(order[i])}
            advancing == {i \in drained : \A e \in ended : i < e}
            filled == {order[i] : i \in advancing}
<1>1. /\ reader = "v2" /\ phase = "fill"
      /\ plan' = [p \in DOMAIN plan |-> IF p \in filled THEN <<next[p] + 1>> ELSE <<>>]
      /\ offset' = [p \in DOMAIN offset |-> IF p \in filled THEN offset[p] + Size(p, next[p] + 1) ELSE offset[p]]
      /\ next' = [p \in DOMAIN next |-> IF p \in filled THEN next[p] + 1 ELSE next[p]]
      /\ at' = [p \in DOMAIN at |-> IF p \in advancing THEN Start[p] ELSE at[p]]
      /\ phase' = IF ended = {} THEN "plan" ELSE IF advancing = {} THEN "check" ELSE "error"
      /\ UNCHANGED <<inputs, queue, rowLimit, pos, batch, failures>>
  BY DEF Fill, ResetChunkState
<1>2. /\ reader' = reader /\ table' = table /\ Paths' = Paths /\ filter' = filter /\ TotalRows' = TotalRows
  BY <1>1, Frame
<1>3. Shapes /\ (\A p \in Paths : PlanOK(p)) /\ QueuesOK /\ PhaseV2 /\ RowsAligned
  BY <1>1 DEF Core
<1>4. /\ \A p \in Paths : QueueV2(p) /\ plan[p] = <<>> /\ rowLimit <= offset[p]
      /\ pos = rowLimit /\ pos \in Nat
  BY <1>1, <1>3 DEF QueuesOK, Running, PhaseV2, Shapes
<1>5. /\ Paths = {order[i] : i \in DOMAIN order} /\ DOMAIN order \subseteq Nat
  <2>1. order \in Seq(Nat)
    BY DEF InputsOK, Given
  <2>2. DOMAIN order = 1 .. Len(order) /\ Len(order) \in Nat
    BY <2>1, LenProperties
  <2>. QED  BY <2>2 DEF Paths, ToSet
<1>6. Paths \subseteq 1 .. Len(table)
  BY PathFacts
<1>7. /\ next \in [1 .. Len(table) -> Nat] /\ offset \in [1 .. Len(table) -> Nat]
      /\ plan \in [1 .. Len(table) -> Seq(Nat)] /\ DOMAIN queue = 1 .. Len(table)
      /\ at \in [1 .. Len(table) -> [chunk : Nat, off : Nat]]
      /\ rowLimit \in Nat /\ failures \in Nat
  BY <1>3 DEF Shapes
<1>8. /\ \A i \in drained : order[i] \in Paths /\ offset[order[i]] = pos /\ (OwnNumber(i) => order[i] = i)
      /\ \A p \in Paths : offset[p] <= pos => \E i \in drained : order[i] = p
      /\ advancing \subseteq drained /\ drained \subseteq Nat
  <2>1. \A i \in DOMAIN order : order[i] \in Paths
    BY <1>5
  <2>2. ASSUME NEW i \in drained PROVE order[i] \in Paths /\ offset[order[i]] = pos /\ (OwnNumber(i) => order[i] = i)
    <3>1. order[i] \in Paths /\ offset[order[i]] <= pos /\ pos <= offset[order[i]] /\ offset[order[i]] \in Nat
      BY <1>4, <1>6, <1>7, <2>1
    <3>2. OwnNumber(i) => order[i] = i
      BY <1>1 DEF OwnNumber
    <3>. QED  BY <1>4, <3>1, <3>2
  <2>. QED  BY <1>4, <1>5, <2>2
<1>9. filled = {order[i] : i \in advancing} /\ ended = {i \in drained : ~Remaining(order[i])}
  OBVIOUS
<1>. HIDE DEF drained, ended, filled
<1>10. /\ at' \in [1 .. Len(table) -> [chunk : Nat, off : Nat]]
       /\ \A p \in Paths : at'[p] = at[p] \/ (at'[p] = Start[p] /\ (OwnNumber(p) => at[p] = Start[p]))
  <2>1. \A p \in 1 .. Len(table) : Start[p] \in [chunk : Nat, off : Nat]
    BY DEF Start
  <2>2. ASSUME NEW p \in Paths, p \in advancing, OwnNumber(p) PROVE at[p] = Start[p]
    <3>1. offset[p] <= pos /\ PlanOK(p) /\ QueueV2(p) /\ plan[p] = <<>>
      <4>1. offset[p] = pos
        BY <1>8, <2>2
      <4>. QED  BY <1>3, <1>4, <4>1
    <3>. QED  BY <1>3, <2>2, <3>1, DrainedV2
  <2>. QED  BY <1>1, <1>6, <1>7, <2>1, <2>2
<1>11. RowsAligned'
  BY <1>1, <1>3, BatchStays
<1>12. ASSUME \A p \in Paths : next'[p] - Len(plan'[p]) = Ready(p) PROVE QueuesOK'
  <2>1. ASSUME NEW p \in Paths PROVE QueueV2(p)'
    <3>1. PlanOK(p) /\ QueueV2(p) /\ next'[p] - Len(plan'[p]) = Ready(p)
      BY <1>3, <1>4, <1>12
    <3>2. CASE at'[p] = at[p]
      BY <1>1, <3>1, <3>2, QueueStays
    <3>3. CASE at'[p] = Start[p] /\ (OwnNumber(p) => at[p] = Start[p])
      BY <1>1, <1>3, <3>1, <3>3, ResetKeepsQueue
    <3>. QED  BY <1>10, <3>2, <3>3
  <2>. QED  BY <1>1, <1>2, <2>1 DEF QueuesOK
<1>13. CASE ended = {}
  <2>1. filled = {p \in Paths : offset[p] <= pos} /\ phase' = "plan" /\ filled \subseteq Paths
    <3>1. advancing = drained
      BY <1>13
    <3>2. ASSUME NEW p \in filled PROVE p \in Paths /\ offset[p] <= pos
      BY <1>4, <1>8, <1>9, <3>1, <3>2
    <3>3. ASSUME NEW p \in Paths, offset[p] <= pos PROVE p \in filled
      BY <1>8, <1>9, <3>1, <3>3
    <3>. QED  BY <1>1, <1>13, <3>2, <3>3
  <2>2. ASSUME NEW p \in filled
        PROVE  /\ PlanOK(p)' /\ next'[p] - Len(plan'[p]) = Ready(p)
               /\ pos < offset'[p] /\ offset'[p] \in Nat /\ plan'[p] \in Seq(Nat)
    <3>1. p \in Paths /\ p \in 1 .. Len(table) /\ Remaining(p) /\ PlanOK(p) /\ plan[p] = <<>> /\ offset[p] = pos
      <4>1. p \in Paths
        BY <2>1
      <4>2. PICK i \in drained : order[i] = p
        BY <1>8, <2>1
      <4>3. Remaining(p)
        BY <1>9, <1>13, <4>2
      <4>. QED  BY <1>3, <1>4, <1>6, <1>8, <4>1, <4>2, <4>3
    <3>2. /\ next'[p] = next[p] + 1 /\ offset'[p] = offset[p] + Size(p, next[p] + 1)
          /\ plan'[p] = <<next[p] + 1>>
      BY <1>1, <1>7, <2>1, <3>1
    <3>3. /\ PlanOK(p)' /\ next'[p] - Len(plan'[p]) = Ready(p)
          /\ offset[p] < offset'[p] /\ offset'[p] \in Nat /\ plan'[p] \in Seq(Nat)
      BY <1>1, <1>3, <3>1, <3>2, PlanGrows
    <3>. QED  BY <3>1, <3>3
  <2>3. ASSUME NEW p \in Paths, p \notin filled
        PROVE  /\ PlanOK(p)' /\ next'[p] - Len(plan'[p]) = Ready(p) /\ pos < offset'[p]
    <3>1. next'[p] = next[p] /\ offset'[p] = offset[p] /\ plan'[p] = <<>> /\ plan[p] = <<>>
      BY <1>1, <1>4, <1>6, <1>7, <2>1, <2>3
    <3>2. PlanOK(p)'
      BY <1>1, <1>3, <3>1, PlanStays
    <3>3. pos < offset[p]
      <4>1. ~(offset[p] <= pos) /\ offset[p] \in Nat
        BY <1>6, <1>7, <2>1, <2>3
      <4>. QED  BY <1>4, <4>1
    <3>. QED  BY <3>1, <3>2, <3>3 DEF Ready
  <2>4. Shapes'
    <3>1. next' \in [1 .. Len(table) -> Nat]
      <4>1. \A p \in 1 .. Len(table) : next[p] \in Nat /\ next[p] + 1 \in Nat
        BY <1>7
      <4>. QED  BY <1>1, <1>7, <4>1
    <3>2. offset' \in [1 .. Len(table) -> Nat]
      <4>1. \A p \in 1 .. Len(table) : offset'[p] \in Nat
        BY <1>1, <1>7, <2>1, <2>2
      <4>. QED  BY <1>1, <1>7, <4>1
    <3>3. plan' \in [1 .. Len(table) -> Seq(Nat)]
      <4>1. \A p \in 1 .. Len(table) : plan'[p] \in Seq(Nat)
        <5>1. <<>> \in Seq(Nat)
          OBVIOUS
        <5>. QED  BY <1>1, <1>7, <2>1, <2>2, <5>1
      <4>2. DOMAIN plan = 1 .. Len(table)
        BY <1>7
      <4>. QED  BY <1>1, <4>1, <4>2
    <3>. QED  BY <1>1, <1>2, <1>4, <1>7, <1>10, <3>1, <3>2, <3>3 DEF Shapes
  <2>5. \A p \in Paths : PlanOK(p)'
    BY <2>2, <2>3
  <2>6. QueuesOK'
    <3>1. \A p \in Paths : next'[p] - Len(plan'[p]) = Ready(p)
      BY <2>2, <2>3
    <3>. QED  BY <1>12, <3>1
  <2>7. PhaseV2'
    <3>1. \A p \in Paths : pos < offset'[p]
      BY <2>2, <2>3
    <3>. QED  BY <1>1, <1>2, <2>1, <3>1 DEF PhaseV2
  <2>8. Complete'
    BY <2>1 DEF Complete
  <2>. QED  BY <1>1, <1>2, <1>11, <2>4, <2>5, <2>6, <2>7, <2>8 DEF Core
<1>14. CASE ended # {}
  <2>0. TotalRows \in Nat
    BY RowGroupEnds
  <2>1. ASSUME NEW p \in Paths
        PROVE  /\ Len(table[p]) \in Nat /\ next[p] \in 0 .. Len(table[p]) /\ offset[p] = End(p, next[p])
               /\ End(p, next[p]) \in 0 .. TotalRows /\ End(p, Len(table[p])) = TotalRows
               /\ (Remaining(p) => offset[p] < TotalRows) /\ (~Remaining(p) => offset[p] = TotalRows)
    <3>1. p \in 1 .. Len(table) /\ PlanOK(p) /\ Len(table[p]) \in Nat /\ next[p] \in Nat
      BY <1>3, <1>6, <1>7, RowGroupEnds
    <3>2. next[p] \in 0 .. Len(table[p]) /\ offset[p] = End(p, next[p]) /\ Len(table[p]) \in 0 .. Len(table[p])
      BY <3>1 DEF PlanOK
    <3>3. End(p, next[p]) \in 0 .. TotalRows /\ End(p, Len(table[p])) = TotalRows
      BY <3>1, <3>2, RowGroupEnds
    <3>4. Remaining(p) => End(p, next[p]) < End(p, Len(table[p]))
      BY <3>1, <3>2, RowGroupEnds DEF Remaining
    <3>5. ~Remaining(p) => next[p] = Len(table[p])
      BY <3>1, <3>2 DEF Remaining
    <3>. QED  BY <3>1, <3>2, <3>3, <3>4, <3>5
  <2>2. PICK e \in Paths : offset[e] = pos /\ ~Remaining(e)
    BY <1>8, <1>9, <1>14
  <2>3. pos = TotalRows
    BY <2>1, <2>2
  <2>4. ASSUME NEW p \in Paths PROVE ~Remaining(p)
    <3>1. pos <= offset[p] /\ offset[p] \in 0 .. TotalRows
      BY <1>4, <2>1
    <3>2. offset[p] = TotalRows
      BY <2>0, <2>3, <3>1
    <3>. QED  BY <2>0, <2>1, <3>2
  <2>5. advancing = {} /\ filled = {}
    <3>1. ASSUME NEW i \in advancing PROVE FALSE
      <4>1. i \in drained /\ i \in Nat /\ order[i] \in Paths
        BY <1>8, <3>1
      <4>2. i \in ended
        BY <1>9, <2>4, <4>1
      <4>3. i < i
        BY <3>1, <4>2
      <4>. QED  BY <4>1, <4>3
    <3>. QED  BY <1>9, <3>1
  <2>6. phase' = "check" /\ next' = next /\ offset' = offset /\ plan' = [p \in DOMAIN plan |-> <<>>]
    BY <1>1, <1>7, <1>14, <2>5
  <2>7. \A p \in Paths : plan'[p] = <<>> /\ plan[p] = <<>>
    BY <1>4, <1>6, <1>7, <2>6
  <2>8. Shapes'
    <3>1. plan' \in [1 .. Len(table) -> Seq(Nat)]
      <4>1. DOMAIN plan = 1 .. Len(table) /\ <<>> \in Seq(Nat)
        BY <1>7
      <4>. QED  BY <2>6, <4>1
    <3>. QED  BY <1>1, <1>2, <1>4, <1>7, <1>10, <2>6, <3>1 DEF Shapes
  <2>9. \A p \in Paths : PlanOK(p)'
    BY <1>1, <1>3, <2>6, <2>7, PlanStays
  <2>10. QueuesOK'
    <3>1. \A p \in Paths : next'[p] - Len(plan'[p]) = Ready(p)
      BY <2>6, <2>7 DEF Ready
    <3>. QED  BY <1>12, <3>1
  <2>11. PhaseV2'
    <3>1. /\ \A p \in Paths : plan'[p] = <<>> /\ rowLimit <= offset'[p]
          /\ pos <= rowLimit
      BY <1>4, <2>6, <2>7
    <3>. QED  BY <1>1, <1>2, <2>3, <2>6, <3>1 DEF PhaseV2
  <2>12. Complete'
    BY <2>6 DEF Complete
  <2>. QED  BY <1>1, <1>2, <1>11, <2>8, <2>9, <2>10, <2>11, <2>12 DEF Core
<1>. QED  BY <1>13, <1>14

\* Advance keeps the invariant.
LEMMA AdvanceKeeps ==
    ASSUME InputsOK, Core, NEW p \in DOMAIN table, Advance(p)
    PROVE  Core'
<1>1. /\ reader = "v2" /\ phase = "plan" /\ p \in Paths
      /\ UNCHANGED <<inputs, queue, at, rowLimit, pos, batch, failures>>
  BY DEF Advance, Lowest
<1>2. reader' = reader /\ table' = table /\ Paths' = Paths /\ filter' = filter
  BY <1>1, Frame
<1>3. Shapes /\ (\A q \in Paths : PlanOK(q)) /\ QueuesOK /\ PhaseV2 /\ RowsAligned /\ Running
  BY <1>1 DEF Core, Running
<1>4. p \in 1 .. Len(table) /\ Paths \subseteq 1 .. Len(table)
  BY <1>1, PathFacts
<1>5. \A q \in Paths : pos < offset[q]
  BY <1>1, <1>3 DEF PhaseV2
<1>6. RowsAligned'
  BY <1>1, <1>3, BatchStays
<1>7. CASE UNCHANGED <<plan, offset, next>> /\ phase' = "io"
  <2>1. Shapes'
    BY <1>1, <1>2, <1>3, <1>7 DEF Shapes
  <2>2. \A q \in Paths : PlanOK(q)'
    BY <1>1, <1>3, <1>7, PlanStays
  <2>3. QueuesOK'
    BY <1>1, <1>3, <1>7, QueuesStay DEF Ready
  <2>4. PhaseV2'
    BY <1>1, <1>2, <1>5, <1>7 DEF PhaseV2
  <2>5. Complete'
    BY <1>7 DEF Complete
  <2>. QED  BY <1>1, <1>2, <1>6, <2>1, <2>2, <2>3, <2>4, <2>5 DEF Core
<1>8. CASE /\ Remaining(p) /\ phase' = phase
           /\ plan' = [plan EXCEPT ![p] = Append(@, next[p] + 1)]
           /\ offset' = [offset EXCEPT ![p] = @ + Size(p, next[p] + 1)]
           /\ next' = [next EXCEPT ![p] = @ + 1]
  <2>1. /\ next'[p] = next[p] + 1 /\ offset'[p] = offset[p] + Size(p, next[p] + 1)
        /\ plan'[p] = Append(plan[p], next[p] + 1)
    BY <1>3, <1>4, <1>8 DEF Shapes
  <2>2. /\ PlanOK(p)' /\ next'[p] - Len(plan'[p]) = Ready(p) /\ offset[p] < offset'[p]
        /\ offset'[p] \in Nat /\ plan'[p] \in Seq(Nat)
    BY <1>1, <1>3, <1>8, <2>1, PlanGrows
  <2>3. \A q \in Paths : q # p => next'[q] = next[q] /\ offset'[q] = offset[q] /\ plan'[q] = plan[q]
    BY <1>3, <1>4, <1>8 DEF Shapes
  <2>4. /\ next \in [1 .. Len(table) -> Nat] /\ offset \in [1 .. Len(table) -> Nat] /\ plan \in [1 .. Len(table) -> Seq(Nat)]
        /\ pos \in Nat
    BY <1>3 DEF Shapes
  <2>5. Shapes'
    <3>1. next[p] + 1 \in Nat
      BY <1>4, <2>4
    <3>2. next' \in [1 .. Len(table) -> Nat]
      BY <1>8, <2>4, <3>1
    <3>3. offset' \in [1 .. Len(table) -> Nat]
      BY <1>4, <1>8, <2>1, <2>2, <2>4
    <3>4. plan' \in [1 .. Len(table) -> Seq(Nat)]
      BY <1>4, <1>8, <2>1, <2>2, <2>4
    <3>. QED  BY <1>1, <1>2, <1>3, <3>2, <3>3, <3>4 DEF Shapes
  <2>6. ASSUME NEW q \in Paths PROVE PlanOK(q)'
    BY <1>1, <1>3, <2>2, <2>3, PlanStays
  <2>7. QueuesOK'
    <3>1. \A q \in Paths : next'[q] - Len(plan'[q]) = Ready(q)
      BY <2>2, <2>3 DEF Ready
    <3>. QED  BY <1>1, <1>3, <3>1, QueuesStay
  <2>8. PhaseV2'
    <3>1. pos < offset'[p]
      <4>1. pos < offset[p] /\ offset[p] \in Nat
        BY <1>1, <1>4, <1>5, <2>4
      <4>. QED  BY <2>2, <2>4, <4>1
    <3>2. \A q \in Paths : pos < offset'[q]
      BY <1>5, <2>3, <3>1
    <3>. QED  BY <1>1, <1>2, <1>8, <3>2 DEF PhaseV2
  <2>9. Complete'
    BY <1>1, <1>8 DEF Complete
  <2>. QED  BY <1>1, <1>2, <1>6, <2>5, <2>6, <2>7, <2>8, <2>9 DEF Core
<1>. QED  BY <1>7, <1>8 DEF Advance, AtEnd

-----------------------------------------------------------------------------
(* Handing out rows, v2.                                                   *)

\* While v2 has rows to hand out up to its limit, every file has some.
LEMMA NoneStarvesV2 ==
    ASSUME InputsOK, Core, reader = "v2", phase = "slice", NEW p \in Paths
    PROVE  queue[p] # <<>>
<1>1. /\ Shapes /\ PlanOK(p) /\ QueueV2(p) /\ plan[p] = <<>> /\ rowLimit <= offset[p] /\ pos < rowLimit
  BY DEF Core, QueuesOK, Running, PhaseV2
<1>2. /\ p \in 1 .. Len(table) /\ Len(table[p]) \in Nat /\ next[p] \in 0 .. Len(table[p])
      /\ Ready(p) + Len(plan[p]) = next[p] /\ Len(plan[p]) = 0 /\ Ready(p) \in 0 .. Len(table[p])
  BY <1>1, PlanFacts
<1>3. Ready(p) = next[p] /\ offset[p] = End(p, next[p])
  BY <1>1, <1>2 DEF PlanOK
<1>4. pos \in Nat /\ rowLimit \in Nat /\ offset[p] \in Nat
  BY <1>1, <1>2 DEF Shapes
<1>5. PICK lo \in 0 .. Len(table[p]) :
        /\ Chain(queue[p], TablesOf(p), Len(table[p]), lo, Ready(p))
        /\ queue[p] = <<>> => at[p] = Start[p]
        /\ End(p, lo + at[p].chunk - 1) + at[p].off <= pos
  BY <1>1 DEF QueueV2
<1>6. queue[p] \in Seq(Seq(Seq(Nat)))
  BY <1>1 DEF QueueV2
<1>7. queue[p] = <<>> => lo = next[p]
  BY <1>2, <1>3, <1>5, <1>6, ChainEnds
<1>8. queue[p] = <<>> => at[p].chunk = 1 /\ at[p].off = 0
  BY <1>2, <1>5 DEF Start
<1>9. lo + 1 - 1 = lo
  OBVIOUS
<1>10. ASSUME queue[p] = <<>> PROVE FALSE
  <2>1. offset[p] + 0 <= pos
    BY <1>3, <1>5, <1>7, <1>8, <1>9, <1>10
  <2>. QED  BY <1>1, <1>4, <2>1
<1>. QED  BY <1>10

\* The rows left of the chunk that is handed out, and how Slice moves past n of
\* them.
Left(p) == Len(Head(queue[p])[at[p].chunk]) - at[p].off
LastRows(p, n) == Left(p) = n /\ at[p].chunk = Len(Head(queue[p]))
Moved(p, n) ==
    /\ at'[p] = IF LastRows(p, n) THEN Start[p]
                ELSE IF Left(p) = n THEN [chunk |-> at[p].chunk + 1, off |-> 0]
                ELSE [at[p] EXCEPT !.off = @ + n]
    /\ queue'[p] = IF LastRows(p, n) THEN Tail(queue[p]) ELSE queue[p]

\* v2 hands out n rows of a file: the next n rows, or earlier ones of a file that
\* is set back in place of another, and the position in its tables moves past them.
LEMMA SliceV2 ==
    ASSUME InputsOK, Shapes, NEW p \in Paths, PlanOK(p), QueueV2(p), queue[p] # <<>>,
           ~filter.pushed, UNCHANGED inputs, next'[p] = next[p], plan'[p] = plan[p],
           NEW n \in Nat, n >= 1, n <= Left(p), pos' = pos + n, Moved(p, n)
    PROVE  /\ QueueV2(p)' /\ at'[p] \in [chunk : Nat, off : Nat]
           /\ \E z \in Nat : /\ z <= pos /\ z + n \in 0 .. K /\ (OwnNumber(p) => z = pos)
                             /\ SubSeq(Head(queue[p])[at[p].chunk], at[p].off + 1, at[p].off + n)
                                  = SubSeq(filter.keep, z + 1, z + n)
           /\ Len(SubSeq(Head(queue[p])[at[p].chunk], at[p].off + 1, at[p].off + n)) = n
<1>. DEFINE N == Len(table[p])
            w == queue[p]
            hi == Ready(p)
            c == at[p].chunk
            o == at[p].off
            F == TablesOf(p)
            left == Left(p)
<1>1. N \in Nat /\ p \in 1 .. Len(table) /\ hi \in 0 .. N /\ next'[p] - Len(plan'[p]) = hi
  BY PlanFacts DEF Ready
<1>2. PICK lo, m \in 0 .. N :
        /\ lo < m /\ m <= hi /\ c \in Nat /\ o \in Nat
        /\ lo + c \in 1 .. m /\ lo + c > lo
        /\ Len(Head(w)) = m - lo
        /\ Head(w)[c] = RowsOf(p, lo + c)
        /\ o < Size(p, lo + c)
        /\ End(p, (lo + c) - 1) + o <= pos
        /\ OwnNumber(p) => pos = End(p, (lo + c) - 1) + o
        /\ Chain(w, F, N, lo, hi)
        /\ Chain(Tail(w), F, N, m, hi)
        /\ Head(w) = F[lo][m]
  BY FrontV2
<1>3. w \in Seq(Seq(Seq(Nat))) /\ w # <<>> /\ Tail(w) \in Seq(Seq(Seq(Nat)))
  <2>1. w \in Seq(Seq(Seq(Nat))) /\ w # <<>>
    BY DEF QueueV2
  <2>. QED  BY <2>1, HeadTailProperties
<1>. DEFINE k == lo + c
            a == End(p, k - 1)
            b == End(p, k)
<1>4. /\ k \in 0 .. N /\ k - 1 \in 0 .. N /\ k - 1 < k /\ k <= m /\ c >= 1 /\ k = lo + c /\ k \in Int
      /\ c <= m - lo
  <2>1. k \in 1 .. m /\ k > lo /\ c \in Nat /\ k = lo + c
    BY <1>2
  <2>. HIDE DEF c, k, N
  <2>. QED  BY <1>1, <2>1
<1>5. TotalRows \in Nat /\ a \in 0 .. TotalRows /\ b \in 0 .. TotalRows /\ a < b /\ Size(p, k) = b - a
  <2>1. Size(p, k) = b - a
    BY DEF Size
  <2>. QED  BY <1>1, <1>4, <2>1, RowGroupEnds
<1>6. ASSUME NEW j \in 0 .. N, j + 1 \in 0 .. N PROVE 0 < Size(p, j + 1)
  <2>1. j < j + 1 /\ (j + 1) - 1 = j
    BY <1>1
  <2>2. End(p, j) < End(p, j + 1) /\ End(p, j) \in 0 .. TotalRows /\ End(p, j + 1) \in 0 .. TotalRows
    BY <1>1, <1>6, <2>1, RowGroupEnds
  <2>3. Size(p, j + 1) = End(p, j + 1) - End(p, j)
    BY <2>1 DEF Size
  <2>. QED  BY <1>5, <2>2, <2>3
<1>7. /\ Len(RowsOf(p, k)) = b - a /\ \A r \in 1 .. b - a : RowsOf(p, k)[r] = a + r
  <2>1. b - a \in Nat
    BY <1>5
  <2>2. RowsOf(p, k) = [r \in 1 .. b - a |-> a + r]
    BY <1>5 DEF RowsOf
  <2>. HIDE DEF a, b
  <2>. QED  BY <2>1, <2>2
<1>8. /\ Head(w)[c] = RowsOf(p, k) /\ left = (b - a) - o /\ o < b - a /\ o \in Nat /\ c \in Nat
      /\ n <= left /\ a + o <= pos /\ (OwnNumber(p) => pos = a + o) /\ pos \in Nat
  BY <1>2, <1>5, <1>7 DEF Left, Shapes
<1>9. /\ c <= m - lo /\ Len(Head(w)) = m - lo /\ at[p] \in [chunk : Nat, off : Nat]
      /\ left = n /\ c = Len(Head(w)) => at'[p] = Start[p] /\ queue'[p] = Tail(w)
      /\ left = n /\ c # Len(Head(w)) => at'[p] = [chunk |-> c + 1, off |-> 0] /\ queue'[p] = w
      /\ left # n => at'[p] = [at[p] EXCEPT !.off = o + n] /\ queue'[p] = w
  <2>1. c <= m - lo /\ Len(Head(w)) = m - lo /\ at[p] \in [chunk : Nat, off : Nat]
    BY <1>1, <1>2, <1>4 DEF Shapes
  <2>2. /\ left = n /\ c = Len(Head(w)) => at'[p] = Start[p] /\ queue'[p] = Tail(w)
        /\ left = n /\ c # Len(Head(w)) => at'[p] = [chunk |-> c + 1, off |-> 0] /\ queue'[p] = w
        /\ left # n => at'[p] = [at[p] EXCEPT !.off = o + n] /\ queue'[p] = w
    BY Zenon DEF Moved, LastRows
  <2>. QED  BY <2>1, <2>2
<1>10. /\ c = at[p].chunk /\ o = at[p].off /\ c \in Nat /\ o \in Nat
  BY <1>2
<1>11. Start[p] = [chunk |-> 1, off |-> 0]
  BY <1>1 DEF Start
<1>12. End(p, m) \in 0 .. TotalRows
  BY <1>1, <1>2, RowGroupEnds
<1>. HIDE DEF N, w, hi, c, o, F, left, k, a, b
<1>13. /\ a + (o + n) <= b /\ a + (o + n) <= pos' /\ a + (o + n) \in Nat
       /\ (left = n => a + (o + n) = b)
       /\ (OwnNumber(p) => pos' = a + (o + n) /\ pos + n \in 0 .. TotalRows)
  <2>1. \A x, y, z, v, u \in Int : u = (y - x) - z /\ v <= u => x + (z + v) <= y /\ (u = v => x + (z + v) = y)
    OBVIOUS
  <2>2. \A x, z, v, t \in Int : x + z <= t => x + (z + v) <= t + v
    OBVIOUS
  <2>3. a \in Int /\ b \in Int /\ o \in Int /\ n \in Int /\ left \in Int /\ pos \in Int /\ a >= 0 /\ o >= 0 /\ n >= 0
    BY <1>5, <1>8
  <2>4. a + (o + n) <= b /\ (left = n => a + (o + n) = b)
    BY <1>8, <2>1, <2>3, SMTT(30)
  <2>5. a + (o + n) <= pos'
    BY <1>8, <2>2, <2>3
  <2>6. OwnNumber(p) => pos' = a + (o + n)
    BY <1>8, <2>3
  <2>7. a + (o + n) \in Nat
    BY <2>3
  <2>8. OwnNumber(p) => pos + n \in 0 .. TotalRows
    BY <1>5, <2>4, <2>6, <2>7
  <2>. QED  BY <2>4, <2>5, <2>6, <2>7, <2>8
<1>14. QueueV2(p)' /\ at'[p] \in [chunk : Nat, off : Nat]
  <2>1. CASE left = n /\ c = Len(Head(w))
    <3>1. at'[p] = Start[p] /\ at'[p].chunk = 1 /\ at'[p].off = 0 /\ queue'[p] = Tail(w)
      BY <1>9, <1>11, <2>1
    <3>2. k = m /\ b <= pos' /\ (OwnNumber(p) => pos' = b)
      <4>1. k = m
        BY <1>1, <1>4, <1>9, <2>1
      <4>. QED  BY <1>13, <2>1, <4>1
    <3>3. End(p, m + 1 - 1) + 0 <= pos' /\ (OwnNumber(p) => pos' = End(p, m + 1 - 1) + 0)
      <4>1. m + 1 - 1 = m /\ End(p, m) + 0 = End(p, m)
        BY <1>1, <1>5, <1>12
      <4>. QED  BY <3>2, <4>1 DEF b
    <3>4. Tail(w) # <<>> => 1 <= Len(Head(Tail(w))) /\ 0 < Size(p, m + 1)
      <4>. DEFINE t == Tail(w)
      <4>0. t \in Seq(Seq(Seq(Nat))) /\ Chain(t, F, N, m, hi)
        BY <1>2, <1>3
      <4>. HIDE DEF t
      <4>. SUFFICES ASSUME t # <<>> PROVE 1 <= Len(Head(t)) /\ 0 < Size(p, m + 1)
        BY DEF t
      <4>1. PICK m2 \in 0 .. N : m < m2 /\ m2 <= hi /\ Head(t) = F[m][m2]
        <5>1. \E m2 \in 0 .. N : m < m2 /\ m2 <= hi /\ Head(t) = F[m][m2] /\ Chain(Tail(t), F, N, m2, hi)
          BY <1>1, <4>0, ChainHead
        <5>. QED  BY <5>1
      <4>2. m <= m2 /\ m + 1 \in 0 .. N
        BY <1>1, <4>1
      <4>3. Len(F[m][m2]) = m2 - m
        BY <4>2, TableFacts DEF F, N
      <4>4. 1 <= m2 - m
        BY <1>1, <4>1
      <4>. QED  BY <1>6, <4>1, <4>2, <4>3, <4>4
    <3>5. /\ m \in 0 .. Len(table[p]) /\ hi = next'[p] - Len(plan'[p])
          /\ 1 = at'[p].chunk /\ 0 = at'[p].off
          /\ queue'[p] \in Seq(Seq(Seq(Nat))) /\ Chain(queue'[p], TablesOf(p), Len(table[p]), m, hi)
          /\ 1 >= 1 /\ (queue'[p] = <<>> => at'[p] = Start[p])
          /\ (queue'[p] # <<>> => 1 <= Len(Head(queue'[p])) /\ 0 < Size(p, m + 1))
          /\ End(p, m + 1 - 1) + 0 <= pos' /\ (OwnNumber(p) => pos' = End(p, m + 1 - 1) + 0)
      <4>1. m \in 0 .. N /\ Chain(Tail(w), F, N, m, hi)
        BY <1>2
      <4>2. queue'[p] # <<>> => 1 <= Len(Head(queue'[p])) /\ 0 < Size(p, m + 1)
        BY <3>1, <3>4, Zenon
      <4>. HIDE DEF N, F, w
      <4>. QED  BY <1>1, <1>3, <3>1, <3>3, <4>1, <4>2, SMTT(30) DEF N, F
    <3>6. QueueV2(p)'
      BY <3>5, MakeV2
    <3>. QED  BY <1>11, <3>1, <3>6
  <2>2. CASE left = n /\ c # Len(Head(w))
    <3>1. at'[p] = [chunk |-> c + 1, off |-> 0] /\ queue'[p] = w
      BY <1>9, <2>2
    <3>2. at'[p].chunk = c + 1 /\ at'[p].off = 0 /\ at'[p] \in [chunk : Nat, off : Nat]
      BY <1>8, <3>1
    <3>3. c + 1 <= Len(Head(w)) /\ lo + (c + 1) = k + 1 /\ k + 1 \in 0 .. N /\ lo + (c + 1) - 1 = k /\ c + 1 >= 1
      <4>1. \A x, y, z, v \in Int : x + y = z /\ y <= v - x /\ y # v - x => y + 1 <= v - x /\ x + (y + 1) = z + 1 /\ z + 1 <= v /\ x + (y + 1) - 1 = z
        OBVIOUS
      <4>2. lo \in Int /\ c \in Int /\ k \in Int /\ m \in Int /\ lo + c = k /\ c <= m - lo /\ c # m - lo
        <5>1. lo \in Int /\ c \in Int /\ k \in Int /\ m \in Int
          BY <1>1, <1>4, <1>10
        <5>2. lo + c = k /\ c <= m - lo /\ c # m - lo
          BY <1>4, <1>9, <2>2
        <5>. QED  BY <5>1, <5>2
      <4>3. c + 1 <= m - lo /\ lo + (c + 1) = k + 1 /\ k + 1 <= m /\ lo + (c + 1) - 1 = k
        BY <4>1, <4>2
      <4>4. k + 1 \in 0 .. N /\ c + 1 >= 1
        <5>1. N \in Nat /\ m <= N /\ m \in Int /\ k \in Int /\ 0 <= k /\ c \in Nat
          BY <1>1, <1>4, <1>10
        <5>2. k + 1 <= m
          BY <4>3
        <5>. QED  BY <5>1, <5>2
      <4>. QED  BY <1>9, <4>3, <4>4
    <3>4. 0 < Size(p, lo + (c + 1))
      BY <1>4, <1>6, <3>3
    <3>5. End(p, lo + (c + 1) - 1) + 0 <= pos' /\ (OwnNumber(p) => pos' = End(p, lo + (c + 1) - 1) + 0)
      <4>1. b <= pos' /\ (OwnNumber(p) => pos' = b) /\ b + 0 = b
        BY <1>5, <1>13, <2>2
      <4>. QED  BY <3>3, <4>1 DEF b
    <3>6. /\ lo \in 0 .. Len(table[p]) /\ hi = next'[p] - Len(plan'[p])
          /\ c + 1 = at'[p].chunk /\ 0 = at'[p].off
          /\ queue'[p] \in Seq(Seq(Seq(Nat))) /\ Chain(queue'[p], TablesOf(p), Len(table[p]), lo, hi)
          /\ c + 1 >= 1 /\ (queue'[p] = <<>> => at'[p] = Start[p])
          /\ (queue'[p] # <<>> => c + 1 <= Len(Head(queue'[p])) /\ 0 < Size(p, lo + (c + 1)))
          /\ End(p, lo + (c + 1) - 1) + 0 <= pos' /\ (OwnNumber(p) => pos' = End(p, lo + (c + 1) - 1) + 0)
      BY <1>1, <1>2, <1>3, <3>1, <3>2, <3>3, <3>4, <3>5 DEF N, F
    <3>7. QueueV2(p)'
      BY <3>6, MakeV2
    <3>. QED  BY <3>2, <3>7
  <2>3. CASE left # n
    <3>1. at'[p] = [at[p] EXCEPT !.off = o + n] /\ queue'[p] = w
      BY <1>9, <2>3
    <3>2. at'[p].chunk = c /\ at'[p].off = o + n /\ at'[p] \in [chunk : Nat, off : Nat]
      <4>1. o + n \in Nat
        BY <1>8
      <4>. QED  BY <1>9, <1>10, <3>1, <4>1
    <3>3. o + n < Size(p, lo + c)
      <4>1. o + n < b - a
        BY <1>5, <1>8, <2>3
      <4>. QED  BY <1>4, <1>5, <4>1
    <3>4. End(p, lo + c - 1) + (o + n) <= pos' /\ (OwnNumber(p) => pos' = End(p, lo + c - 1) + (o + n))
      <4>1. lo + c - 1 = k - 1
        <5>1. lo \in Int /\ c \in Int /\ k \in Int /\ lo + c = k
          BY <1>1, <1>4, <1>8
        <5>. QED  BY <5>1
      <4>2. a + (o + n) <= pos' /\ (OwnNumber(p) => pos' = a + (o + n))
        BY <1>13
      <4>. QED  BY <4>1, <4>2 DEF a
    <3>5. /\ lo \in 0 .. Len(table[p]) /\ hi = next'[p] - Len(plan'[p])
          /\ c = at'[p].chunk /\ o + n = at'[p].off
          /\ queue'[p] \in Seq(Seq(Seq(Nat))) /\ Chain(queue'[p], TablesOf(p), Len(table[p]), lo, hi)
          /\ c >= 1 /\ (queue'[p] = <<>> => at'[p] = Start[p])
          /\ (queue'[p] # <<>> => c <= Len(Head(queue'[p])) /\ o + n < Size(p, lo + c))
          /\ End(p, lo + c - 1) + (o + n) <= pos' /\ (OwnNumber(p) => pos' = End(p, lo + c - 1) + (o + n))
      BY <1>1, <1>2, <1>3, <1>4, <1>9, <3>1, <3>2, <3>3, <3>4 DEF N, F
    <3>6. QueueV2(p)'
      BY <3>5, MakeV2
    <3>. QED  BY <3>2, <3>6
  <2>. QED  BY <2>1, <2>2, <2>3
<1>within. \A i \in o + 1 .. o + n : i \in 1 .. b - a /\ a + i \in Nat
  <2>1. a \in Nat /\ b \in Nat /\ o \in Nat
    BY <1>5, <1>8
  <2>2. a + (o + n) <= b
    BY <1>13
  <2>3. ASSUME NEW x \in Nat, NEW y \in Nat, NEW z \in Nat, NEW v \in Nat, x + (z + v) <= y
        PROVE  \A i \in z + 1 .. z + v : i \in 1 .. y - x /\ x + i \in Nat
    BY <2>3
  <2>. QED  BY <2>1, <2>2, <2>3
<1>15. Len(SubSeq(Head(w)[c], o + 1, o + n)) = n
  <2>. DEFINE x == RowsOf(p, k)
              l1 == o + 1
              u1 == o + n
  <2>1. l1 \in Int /\ u1 \in Int /\ l1 <= u1 /\ u1 - l1 + 1 = n
    BY <1>8
  <2>2. \A i \in l1 .. u1 : i \in 1 .. b - a /\ a + i \in Nat
    BY <1>within
  <2>3. \A i \in l1 .. u1 : x[i] \in Nat
    BY <1>7, <2>2
  <2>. HIDE DEF x, l1, u1
  <2>4. Len(SubSeq(x, l1, u1)) = n
    BY <2>1, <2>3, SubSeqProperties
  <2>. QED  BY <1>8, <2>4 DEF x, l1, u1
<1>. DEFINE z == a + o
<1>z. z \in Nat /\ z = a + o /\ z + n \in 0 .. TotalRows /\ z <= pos /\ (OwnNumber(p) => z = pos)
  BY <1>5, <1>8, <1>13
<1>. HIDE DEF z
<1>16. SubSeq(Head(w)[c], o + 1, o + n) = SubSeq(filter.keep, z + 1, z + n)
  <2>. DEFINE x == RowsOf(p, k)
              y == filter.keep
              l1 == o + 1
              u1 == o + n
              l2 == z + 1
              u2 == z + n
  <2>1. y = [r \in 1 .. TotalRows |-> r]
    BY DEF InputsOK, Given
  <2>0. o \in Nat /\ z \in Nat /\ z = a + o /\ z + n \in 0 .. TotalRows
    BY <1>8, <1>z
  <2>2. /\ l1 \in Int /\ u1 \in Int /\ l2 \in Int /\ u2 \in Int /\ l1 <= u1 /\ l2 <= u2
        /\ u1 - l1 + 1 = n /\ u2 - l2 + 1 = n
    BY <2>0
  <2>3. \A i \in l1 .. u1 : i \in 1 .. b - a /\ a + i \in Nat
    BY <1>within
  <2>4. \A i \in l1 .. u1 : x[i] \in Nat
    BY <1>7, <2>3
  <2>5. \A i \in l2 .. u2 : i \in 1 .. TotalRows /\ i \in Nat
    BY <1>5, <2>0, SMTT(30)
  <2>6. \A i \in l2 .. u2 : y[i] \in Nat
    BY <2>1, <2>5
  <2>. HIDE DEF x, y, l1, u1, l2, u2
  <2>7. SubSeq(x, l1, u1) \in Seq(Nat) /\ Len(SubSeq(x, l1, u1)) = n /\ \A i \in 1 .. n : SubSeq(x, l1, u1)[i] = x[l1 + i - 1]
    BY <2>2, <2>4, SubSeqProperties
  <2>8. SubSeq(y, l2, u2) \in Seq(Nat) /\ Len(SubSeq(y, l2, u2)) = n /\ \A i \in 1 .. n : SubSeq(y, l2, u2)[i] = y[l2 + i - 1]
    BY <2>2, <2>6, SubSeqProperties
  <2>9. ASSUME NEW i \in 1 .. n PROVE x[l1 + i - 1] = y[l2 + i - 1]
    <3>1. l1 + i - 1 = o + i /\ l2 + i - 1 = z + i /\ o + i \in 1 .. b - a /\ z + i \in 1 .. TotalRows /\ a + (o + i) = z + i
      <4>1. l1 + i - 1 = o + i /\ l2 + i - 1 = z + i /\ a + (o + i) = z + i
        BY <1>5, <2>0, SMTT(30) DEF l1, l2
      <4>2. z + i \in 1 .. TotalRows
        BY <1>5, <2>0
      <4>3. o + i \in 1 .. b - a
        BY <1>5, <1>13, <2>0, SMTT(30)
      <4>. QED  BY <4>1, <4>2, <4>3
    <3>2. x[o + i] = a + (o + i)
      BY <1>7, <3>1 DEF x
    <3>3. y[z + i] = z + i
      BY <2>1, <3>1
    <3>. QED  BY <3>1, <3>2, <3>3
  <2>10. SubSeq(x, l1, u1) = SubSeq(y, l2, u2)
    <3>. DEFINE s == SubSeq(x, l1, u1)
                t == SubSeq(y, l2, u2)
    <3>1. s \in Seq(Nat) /\ t \in Seq(Nat) /\ Len(s) = Len(t) /\ \A i \in 1 .. Len(s) : s[i] = t[i]
      BY <2>7, <2>8, <2>9
    <3>. HIDE DEF s, t
    <3>2. s = t
      BY <3>1, SeqEqual
    <3>. QED  BY <3>2 DEF s, t
  <2>. QED  BY <1>8, <2>7, <2>10 DEF x, y, l1, u1, l2, u2
<1>17. z + n \in 0 .. K
  BY <1>z, KeptFacts
<1>. QED  BY <1>14, <1>15, <1>16, <1>17, <1>z DEF w, c, o

\* Slice keeps the invariant.
LEMMA SliceKeeps ==
    ASSUME InputsOK, Core, Slice
    PROVE  Core'
<1>. DEFINE n == Min({cap, rowLimit - pos} \cup {Left(p) : p \in Paths})
            S == {cap, rowLimit - pos} \cup {Left(p) : p \in Paths}
<1>1. reader = "v2" /\ phase = "slice" /\ UNCHANGED <<inputs, next, offset, plan, rowLimit, failures>>
  BY DEF Slice, planning
<1>2. /\ reader' = reader /\ table' = table /\ Paths' = Paths /\ filter' = filter /\ Start' = Start
  BY <1>1, Frame
<1>3. Shapes /\ (\A p \in Paths : PlanOK(p) /\ QueueV2(p)) /\ PhaseV2 /\ \A p \in Paths : queue[p] # <<>>
  BY <1>1, NoneStarvesV2 DEF Core, QueuesOK, Running
<1>4. /\ \A p \in Paths : plan[p] = <<>> /\ rowLimit <= offset[p]
      /\ pos < rowLimit
  BY <1>1, <1>3 DEF PhaseV2
<1>5. /\ batch' = [rows |-> [p \in Paths |-> SubSeq(Head(queue[p])[at[p].chunk], at[p].off + 1, at[p].off + n)]]
      /\ at' = [p \in DOMAIN at |->
                   IF p \notin Paths THEN at[p]
                   ELSE IF LastRows(p, n) THEN Start[p]
                   ELSE IF Left(p) = n THEN [chunk |-> at[p].chunk + 1, off |-> 0]
                   ELSE [at[p] EXCEPT !.off = @ + n]]
      /\ queue' = [p \in DOMAIN queue |-> IF p \in Paths /\ LastRows(p, n) THEN Tail(queue[p]) ELSE queue[p]]
      /\ pos' = pos + n
      /\ phase' = "idle"
  BY <1>3, Zenon DEF Slice, Left, LastRows
<1>6. /\ DOMAIN queue = 1 .. Len(table) /\ at \in [1 .. Len(table) -> [chunk : Nat, off : Nat]]
      /\ pos \in Nat /\ rowLimit \in Nat /\ Paths \subseteq 1 .. Len(table)
  BY <1>3, PathFacts DEF Shapes
<1>7. ASSUME NEW p \in Paths PROVE Left(p) \in Nat /\ Left(p) >= 1
  <2>1. PICK lo, m \in 0 .. Len(table[p]) :
          LET k == lo + at[p].chunk
          IN  /\ at[p].off \in Nat /\ k \in 1 .. m
              /\ Head(queue[p])[at[p].chunk] = RowsOf(p, k)
              /\ at[p].off < Size(p, k)
    BY <1>3, FrontV2
  <2>. DEFINE k == lo + at[p].chunk
  <2>2. at[p].off \in Nat /\ k \in 1 .. m /\ Head(queue[p])[at[p].chunk] = RowsOf(p, k) /\ at[p].off < Size(p, k)
    BY <2>1
  <2>. HIDE DEF k
  <2>3. p \in 1 .. Len(table) /\ Len(table[p]) \in Nat /\ TotalRows \in Nat
    BY <1>6, RowGroupEnds
  <2>4. k \in 0 .. Len(table[p]) /\ k - 1 \in 0 .. Len(table[p]) /\ k - 1 < k
    BY <2>2, <2>3
  <2>5. End(p, k) \in 0 .. TotalRows /\ End(p, k - 1) \in 0 .. TotalRows /\ End(p, k - 1) < End(p, k)
    BY <2>3, <2>4, RowGroupEnds
  <2>6. Size(p, k) \in Nat
    BY <2>3, <2>5 DEF Size
  <2>7. Len(RowsOf(p, k)) = Size(p, k)
    BY <2>6 DEF RowsOf
  <2>8. Left(p) = Size(p, k) - at[p].off
    BY <2>2, <2>7 DEF Left
  <2>. QED  BY <2>2, <2>6, <2>8
<1>8. S \subseteq Nat /\ S # {} /\ \A y \in S : y >= 1
  <2>1. cap \in Nat \ {0}
    BY DEF InputsOK, Given
  <2>2. rowLimit - pos \in Nat /\ rowLimit - pos >= 1
    BY <1>4, <1>6
  <2>. QED  BY <1>7, <2>1, <2>2
<1>9. n \in Nat /\ n >= 1 /\ n <= rowLimit - pos /\ \A p \in Paths : n <= Left(p)
  <2>1. Min(S) \in S /\ \A y \in S : Min(S) <= y
    <3>. HIDE DEF S
    <3>. QED  BY <1>8, LeastElement
  <2>2. n = Min(S)
    OBVIOUS
  <2>. HIDE DEF n
  <2>3. n \in S /\ \A y \in S : n <= y
    BY <2>1, <2>2
  <2>. QED  BY <1>8, <2>3
<1>. HIDE DEF n, S
<1>10. ASSUME NEW p \in Paths
       PROVE  /\ QueueV2(p)' /\ at'[p] \in [chunk : Nat, off : Nat]
              /\ \E z \in Nat : /\ z <= pos /\ z + n \in 0 .. K /\ (OwnNumber(p) => z = pos)
                                /\ batch'.rows[p] = SubSeq(filter.keep, z + 1, z + n)
              /\ Len(batch'.rows[p]) = n
  <2>1. Moved(p, n)
    <3>1. p \in DOMAIN at /\ p \in DOMAIN queue
      BY <1>6
    <3>. QED  BY <1>5, <3>1, Zenon DEF Moved
  <2>2. ~filter.pushed
    BY <1>1, AllRowsV2
  <2>3. next'[p] = next[p] /\ plan'[p] = plan[p] /\ UNCHANGED inputs
    BY <1>1
  <2>4. PlanOK(p) /\ QueueV2(p) /\ queue[p] # <<>> /\ n \in Nat /\ n >= 1 /\ n <= Left(p) /\ pos' = pos + n /\ Shapes
    BY <1>3, <1>5, <1>9
  <2>5. /\ QueueV2(p)' /\ at'[p] \in [chunk : Nat, off : Nat]
        /\ \E z \in Nat : /\ z <= pos /\ z + n \in 0 .. K /\ (OwnNumber(p) => z = pos)
                          /\ SubSeq(Head(queue[p])[at[p].chunk], at[p].off + 1, at[p].off + n)
                               = SubSeq(filter.keep, z + 1, z + n)
        /\ Len(SubSeq(Head(queue[p])[at[p].chunk], at[p].off + 1, at[p].off + n)) = n
    BY <2>1, <2>2, <2>3, <2>4, SliceV2
  <2>6. batch'.rows[p] = SubSeq(Head(queue[p])[at[p].chunk], at[p].off + 1, at[p].off + n)
    BY <1>5
  <2>. QED  BY <2>5, <2>6
<1>11. Shapes'
  <2>1. at' \in [1 .. Len(table) -> [chunk : Nat, off : Nat]]
    <3>1. DOMAIN at = 1 .. Len(table) /\ \A p \in DOMAIN at : at[p] \in [chunk : Nat, off : Nat]
      BY <1>6
    <3>2. at' = [p \in DOMAIN at |-> at'[p]]
      BY <1>5
    <3>3. \A p \in DOMAIN at : p \notin Paths => at'[p] = at[p]
      BY <1>5
    <3>4. \A p \in DOMAIN at : at'[p] \in [chunk : Nat, off : Nat]
      BY <1>10, <3>1, <3>3
    <3>. QED  BY <3>1, <3>2, <3>4
  <2>2. DOMAIN queue' = 1 .. Len(table) /\ pos' \in Nat
    BY <1>5, <1>6, <1>9
  <2>. QED  BY <1>1, <1>2, <1>3, <2>1, <2>2 DEF Shapes
<1>12. \A p \in Paths : PlanOK(p)'
  BY <1>1, <1>3, PlanStays
<1>13. QueuesOK'
  BY <1>1, <1>2, <1>10 DEF QueuesOK
<1>14. PhaseV2'
  <2>1. pos' <= rowLimit
    BY <1>5, <1>6, <1>9
  <2>. QED  BY <1>1, <1>2, <1>4, <1>5, <2>1 DEF PhaseV2
<1>15. Complete'
  BY <1>5 DEF Complete
<1>16. RowsAligned'
  <2>1. DOMAIN batch'.rows = Paths
    BY <1>5
  <2>2. Expected' = filter.keep /\ Len(Expected') = K
    BY <1>2 DEF Expected, K
  <2>3. ASSUME NEW p \in Paths
        PROVE  \E e \in Len(batch'.rows[p]) .. Len(Expected') :
                 /\ batch'.rows[p] = SubSeq(Expected', e - Len(batch'.rows[p]) + 1, e)
                 /\ e <= pos' /\ (OwnNumber(p)' => e = pos')
    <3>1. PICK z \in Nat : /\ z <= pos /\ z + n \in 0 .. K /\ (OwnNumber(p) => z = pos)
                           /\ batch'.rows[p] = SubSeq(filter.keep, z + 1, z + n)
      BY <1>10
    <3>2. K \in Nat /\ Len(batch'.rows[p]) = n /\ OwnNumber(p)' = OwnNumber(p)
      BY <1>1, <1>10, KeptFacts, Frame
    <3>3. z + n \in n .. K /\ (z + n) - n + 1 = z + 1 /\ z + n <= pos + n /\ (OwnNumber(p) => z + n = pos + n)
      BY <1>6, <1>9, <3>1, <3>2
    <3>4. z + n \in Len(batch'.rows[p]) .. Len(Expected')
      BY <2>2, <3>2, <3>3
    <3>5. /\ batch'.rows[p] = SubSeq(Expected', (z + n) - Len(batch'.rows[p]) + 1, z + n)
          /\ z + n <= pos' /\ (OwnNumber(p)' => z + n = pos')
      BY <1>5, <2>2, <3>1, <3>2, <3>3
    <3>. QED  BY <3>4, <3>5
  <2>. QED  BY <2>1, <2>3 DEF RowsAligned
<1>. QED  BY <1>1, <1>2, <1>11, <1>12, <1>13, <1>14, <1>15, <1>16 DEF Core

-----------------------------------------------------------------------------
(* The invariant and the theorems.                                         *)

\* The inputs that a scan starts with.
LEMMA InitInputs == ASSUME Init PROVE Given
<1>1. /\ reader \in {"v2", "v3"} /\ table \in Tables
      /\ order \in IF reader = "v2" THEN {o \in Orders : ToSet(o) \subseteq 1 .. Len(table)}
                   ELSE {[g \in 1 .. Len(table) |-> g]}
      /\ limit \in Limits /\ cap \in RowCaps
      /\ filter \in {All} \cup IF reader # "v3" \/ Len(table) > 1 THEN {}
                               ELSE [pushed : {TRUE}, keep : {f \in Filters : ToSet(f) \subseteq 1 .. TotalRows}]
  BY DEF Init
<1>2. limit \in Nat \ {0} /\ cap \in Nat \ {0} /\ table \in Seq(Seq(Nat \ {0})) /\ table # <<>>
  BY <1>1, ScanAssumption
<1>3. Len(table) \in Nat \ {0} /\ DOMAIN table = 1 .. Len(table)
  BY <1>2, LenProperties, EmptySeq
<1>4. order \in Seq(Nat) /\ order # <<>> /\ Paths \subseteq 1 .. Len(table)
      /\ (reader = "v3" => order = [g \in 1 .. Len(table) |-> g])
  <2>1. CASE reader = "v2"
    <3>1. order \in Orders /\ ToSet(order) \subseteq 1 .. Len(table)
      BY <1>1, <2>1
    <3>2. order \in Seq(Nat) /\ order # <<>>
      BY <3>1, ScanAssumption
    <3>. QED  BY <2>1, <3>1, <3>2 DEF Paths
  <2>2. CASE reader = "v3"
    <3>. DEFINE N == Len(table)
    <3>1. order = [g \in 1 .. N |-> g] /\ N \in Nat \ {0}
      BY <1>1, <1>3, <2>2
    <3>. HIDE DEF N
    <3>2. order \in Seq(Nat) /\ Len(order) = N /\ DOMAIN order = 1 .. N /\ \A g \in 1 .. N : order[g] = g
      BY <3>1
    <3>3. order # <<>>
      BY <3>1, <3>2
    <3>4. ToSet(order) \subseteq 1 .. N
      BY <3>2 DEF ToSet
    <3>. QED  BY <3>1, <3>2, <3>3, <3>4 DEF N, Paths
  <2>. QED  BY <1>1, <2>1, <2>2
<1>5. TotalRows \in Nat
  <2>1. DOMAIN order = 1 .. Len(order) /\ Len(order) \in Nat \ {0}
    BY <1>4, LenProperties, EmptySeq
  <2>2. 1 \in DOMAIN order
    BY <2>1
  <2>3. order[1] \in 1 .. Len(table)
    BY <1>4, <2>2 DEF Paths, ToSet
  <2>. DEFINE t == table[order[1]]
  <2>4. t \in Seq(Nat \ {0})
    BY <1>2, <2>3, ElementOfSeq
  <2>. HIDE DEF t
  <2>5. Len(t) \in Nat
    BY <2>4, LenProperties
  <2>6. Len(t) # 0 => t[Len(t)] \in Nat
    <3>1. Len(t) # 0 => Len(t) \in 1 .. Len(t)
      BY <2>5
    <3>. QED  BY <2>4, <3>1, ElementOfSeq
  <2>7. TotalRows = IF Len(t) = 0 THEN 0 ELSE t[Len(t)]
    BY DEF TotalRows, End, t
  <2>. QED  BY <2>6, <2>7
<1>6. CASE filter = All
  <2>1. filter.pushed = FALSE /\ filter.keep = [r \in 1 .. TotalRows |-> r]
    BY <1>6 DEF All
  <2>. DEFINE T == TotalRows
              s == filter.keep
  <2>2. T \in Nat /\ s = [r \in 1 .. T |-> r]
    BY <1>5, <2>1
  <2>. HIDE DEF T, s
  <2>3. s \in Seq(Nat \ {0}) /\ DOMAIN s = 1 .. T /\ \A r \in 1 .. T : s[r] = r
    BY <2>2
  <2>4. Range(s) \subseteq 1 .. T
    BY <2>3 DEF Range
  <2>. QED  BY <1>1, <1>2, <1>4, <2>1, <2>3, <2>4 DEF Given, T, s
<1>7. CASE filter # All
  <2>1. /\ reader = "v3" /\ ~(Len(table) > 1)
        /\ filter \in [pushed : {TRUE}, keep : {f \in Filters : ToSet(f) \subseteq 1 .. TotalRows}]
    BY <1>1, <1>7
  <2>2. filter.pushed = TRUE /\ filter.keep \in Filters /\ ToSet(filter.keep) \subseteq 1 .. TotalRows
    BY <2>1
  <2>3. filter.keep \in Seq(Nat \ {0})
    BY <2>2, ScanAssumption
  <2>4. Range(filter.keep) \subseteq 1 .. TotalRows
    BY <2>2 DEF Range, ToSet
  <2>5. Len(table) = 1
    BY <1>3, <2>1
  <2>. QED  BY <1>1, <1>2, <1>4, <2>1, <2>2, <2>3, <2>4, <2>5 DEF Given
<1>. QED  BY <1>6, <1>7

\* The invariant holds before a reader is opened.
LEMMA IndInit == Init => IndInv
<1>. SUFFICES ASSUME Init PROVE Closed
  BY DEF IndInv
<1>1. Given
  BY InitInputs
<1>2. phase = "opening" /\ failures = 0 /\ (reader = "v2" => SameRows(table))
  BY DEF Init
<1>3. Unread
  BY DEF Init, Unread
<1>. QED  BY <1>1, <1>2, <1>3 DEF Closed

\* The invariant holds of a reader that was just opened.
LEMMA JustOpened == InputsOK /\ Unread /\ phase = "idle" /\ failures = 0 => Core
<1>. SUFFICES ASSUME InputsOK, Unread, phase = "idle", failures = 0 PROVE Core
  OBVIOUS
<1>1. InputsOK
  OBVIOUS
<1>2. /\ phase = "idle" /\ next = [p \in 1 .. Len(table) |-> 0] /\ offset = [p \in 1 .. Len(table) |-> 0]
      /\ plan = [p \in 1 .. Len(table) |-> <<>>] /\ queue = [p \in 1 .. Len(table) |-> <<>>]
      /\ at = [p \in 1 .. Len(table) |-> [chunk |-> 1, off |-> 0]] /\ at = Start
      /\ rowLimit = 0 /\ pos = 0 /\ batch = None /\ failures = 0
  BY DEF Unread, Start
<1>3. /\ Paths \subseteq 1 .. Len(table) /\ K \in Nat /\ Kept(0) = 0
      /\ \A p \in Paths : Len(table[p]) \in Nat
  BY <1>1, PathFacts, RowGroupEnds, KeptFacts
<1>4. Shapes
  <2>1. [chunk |-> 1, off |-> 0] \in [chunk : Nat, off : Nat] /\ <<>> \in Seq(Nat)
    OBVIOUS
  <2>. QED  BY <1>2, <2>1 DEF Shapes
<1>5. ASSUME NEW p \in Paths
      PROVE  /\ next[p] = 0 /\ offset[p] = 0 /\ plan[p] = <<>> /\ queue[p] = <<>> /\ Len(plan[p]) = 0
             /\ at[p] = Start[p] /\ at[p].chunk = 1 /\ at[p].off = 0 /\ End(p, 0) = 0 /\ Ready(p) = 0
  BY <1>2, <1>3 DEF End, Ready
<1>6. ASSUME NEW p \in Paths PROVE PlanOK(p)
  BY <1>3, <1>5 DEF PlanOK
<1>7. ASSUME NEW p \in Paths PROVE QueueV3(p)
  <2>1. Chain(<<>>, Slices, K, 0, 0)
    BY <1>3, ChainEmpty
  <2>2. <<>> \in Seq(Seq(Nat))
    OBVIOUS
  <2>. QED  BY <1>2, <1>3, <1>5, <2>1, <2>2 DEF QueueV3
<1>8. ASSUME NEW p \in Paths PROVE QueueV2(p)
  <2>1. 0 \in 0 .. Len(table[p])
    BY <1>3
  <2>2. Chain(<<>>, TablesOf(p), Len(table[p]), 0, 0)
    BY <1>3, <2>1, ChainEmpty
  <2>3. <<>> \in Seq(Seq(Seq(Nat)))
    OBVIOUS
  <2>4. 0 + 1 - 1 = 0 /\ 0 + 0 = 0 /\ 1 >= 1
    OBVIOUS
  <2>5. /\ pos = End(p, 0 + at[p].chunk - 1) + at[p].off
        /\ End(p, 0 + at[p].chunk - 1) + at[p].off <= pos
    <3>1. 0 + at[p].chunk - 1 = 0
      BY <1>5, <2>4
    <3>2. pos = 0 /\ End(p, 0 + at[p].chunk - 1) + at[p].off = 0
      BY <1>2, <1>5, <2>4, <3>1
    <3>. QED  BY <3>2
  <2>6. /\ queue[p] \in Seq(Seq(Seq(Nat)))
        /\ Chain(queue[p], TablesOf(p), Len(table[p]), 0, Ready(p))
        /\ at[p].chunk >= 1 /\ at[p] = Start[p] /\ queue[p] = <<>>
    BY <1>5, <2>2, <2>3, <2>4
  <2>. QED  BY <2>1, <2>5, <2>6 DEF QueueV2
<1>9. PhaseV3 /\ PhaseV2
  <2>1. ASSUME NEW p \in Paths PROVE plan[p] = <<>> /\ rowLimit <= offset[p]
    <3>1. rowLimit = 0
      BY <1>2
    <3>2. offset[p] = 0 /\ plan[p] = <<>>
      BY <1>5
    <3>. QED  BY <3>1, <3>2
  <2>2. phase = "idle" /\ pos <= rowLimit
    BY <1>2
  <2>. QED  BY <2>1, <2>2 DEF PhaseV3, PhaseV2
<1>10. Complete
  BY <1>2 DEF Complete
<1>11. RowsAligned
  <2>1. DOMAIN batch.rows = {}
    BY <1>2 DEF None
  <2>. QED  BY <2>1 DEF RowsAligned
<1>. QED  BY <1>1, <1>4, <1>6, <1>7, <1>8, <1>9, <1>10, <1>11 DEF Core, QueuesOK

LEMMA JustOpenedNext == (InputsOK /\ Unread /\ phase = "idle" /\ failures = 0)' => Core'
  BY JustOpened, PTL

\* Column groups that open of v3 refuses have no or not the same number of rows.
LEMMA NotReadable ==
    ASSUME Given, reader = "v3", ~Readable
    PROVE  \E p, q \in Paths : \/ End(p, Len(table[p])) = 0
                               \/ End(p, Len(table[p])) # End(q, Len(table[q]))
<1>1. table \in Seq(Seq(Nat \ {0})) /\ order = [g \in 1 .. Len(table) |-> g]
  BY ScanAssumption DEF Given
<1>2. DOMAIN table = 1 .. Len(table)
  BY <1>1, LenProperties
<1>3. Paths = DOMAIN table
  <2>1. DOMAIN order = 1 .. Len(table) /\ \A g \in 1 .. Len(table) : order[g] = g
    BY <1>1
  <2>2. Paths = {order[i] : i \in DOMAIN order}
    BY DEF Paths, ToSet
  <2>. QED  BY <1>2, <2>1, <2>2
<1>4. CASE \E g \in DOMAIN table : table[g] = <<>>
  <2>1. PICK g \in DOMAIN table : table[g] = <<>>
    BY <1>4
  <2>2. End(g, Len(table[g])) = 0
    <3>1. Len(table[g]) = 0
      BY <2>1
    <3>. QED  BY <3>1 DEF End
  <2>. QED  BY <1>3, <2>1, <2>2
<1>5. CASE \A g \in DOMAIN table : table[g] # <<>>
  <2>1. ~SameRows(table)
    BY <1>5 DEF Readable
  <2>2. PICK g, h \in DOMAIN table : Last(table[g]) # Last(table[h])
    BY <1>5, <2>1 DEF SameRows
  <2>3. ASSUME NEW x \in DOMAIN table PROVE End(x, Len(table[x])) = Last(table[x])
    <3>1. table[x] \in Seq(Nat \ {0}) /\ table[x] # <<>>
      BY <1>1, <1>2, <1>5, ElementOfSeq
    <3>2. Len(table[x]) # 0
      BY <3>1, EmptySeq
    <3>. QED  BY <3>2 DEF End, Last
  <2>4. End(g, Len(table[g])) # End(h, Len(table[h]))
    BY <2>2, <2>3
  <2>. QED  BY <1>3, <2>4
<1>. QED  BY <1>4, <1>5

\* open and init keep the invariant: what they accept has the same rows.
LEMMA OpeningKeeps ==
    ASSUME Closed, Open \/ OpenV2
    PROVE  Refused' \/ (InputsOK /\ Core)'
<1>1. /\ UNCHANGED <<inputs, next, offset, plan, queue, at, rowLimit, pos, batch>>
      /\ \/ phase' = "idle" /\ UNCHANGED failures /\ (reader = "v3" => Readable)
         \/ phase' = "refused" /\ UNCHANGED failures /\ reader = "v3" /\ ~Readable
         \/ phase' = "refused" /\ failures' = failures + 1
  BY DEF Open, OpenV2, Opening, planning
<1>2. Given /\ Unread /\ failures = 0 /\ (reader = "v2" => SameRows(table)) /\ reader \in {"v2", "v3"}
  BY DEF Closed, Given
<1>3. /\ reader' = reader /\ table' = table /\ Paths' = Paths /\ Start' = Start
      /\ \A p, k : End(p, k)' = End(p, k)
      /\ InputsOK' = InputsOK
  BY <1>1, Frame
<1>4. CASE phase' = "idle" /\ UNCHANGED failures /\ (reader = "v3" => Readable)
  <2>1. InputsOK'
    BY <1>2, <1>3, <1>4 DEF InputsOK, Readable
  <2>2. Unread'
    BY <1>1, <1>2, <1>3 DEF Unread, None
  <2>. QED  BY <1>2, <1>4, <2>1, <2>2, JustOpenedNext
<1>5. CASE phase' = "refused" /\ UNCHANGED failures /\ reader = "v3" /\ ~Readable
  <2>1. \E p, q \in Paths : \/ End(p, Len(table[p])) = 0
                            \/ End(p, Len(table[p])) # End(q, Len(table[q]))
    BY <1>2, <1>5, NotReadable
  <2>2. Complete'
    BY <1>3, <1>5, <2>1 DEF Complete
  <2>. QED  BY <1>1, <1>2, <1>5, <2>2 DEF Refused, Unread, None
<1>6. CASE phase' = "refused" /\ failures' = failures + 1
  <2>1. failures' > 0
    BY <1>2, <1>6
  <2>2. Complete'
    BY <1>6, <2>1 DEF Complete
  <2>. QED  BY <1>1, <1>2, <1>6, <2>2 DEF Refused, Unread, None
<1>. QED  BY <1>1, <1>4, <1>5, <1>6

\* A reader that is not open stays so or is opened, and one that was refused stays so.
LEMMA NotOpenKeeps ==
    ASSUME Closed \/ Refused, [Next]_vars
    PROVE  IndInv'
<1>1. CASE Open \/ OpenV2
  <2>1. Closed
    BY <1>1 DEF Open, OpenV2, Opening, Refused
  <2>. QED  BY <1>1, <2>1, OpeningKeeps DEF IndInv
<1>2. CASE ~(Open \/ OpenV2)
  <2>1. phase \in {"opening", "refused"}
    BY DEF Closed, Refused
  <2>2. UNCHANGED vars
    BY <1>2, <2>1, ZenonT(30) DEF Next, ReadNext, Preloaded, Emit, AllRead, Preload, Advance, Read, ReadNextV2, Fill,
       LimitReached, Check, Slice, Close, Done
  <2>3. UNCHANGED <<inputs, phase, next, offset, plan, queue, at, rowLimit, pos, batch, failures>>
    BY <2>2 DEF vars, planning
  <2>4. /\ reader' = reader /\ table' = table /\ Paths' = Paths /\ filter' = filter /\ Start' = Start
        /\ order' = order /\ TotalRows' = TotalRows /\ limit' = limit /\ cap' = cap
        /\ \A p, k : End(p, k)' = End(p, k)
    BY <2>3, Frame DEF inputs
  <2>5. ASSUME Closed PROVE Closed'
    <3>1. Given'
      BY <2>4, <2>5 DEF Closed, Given
    <3>2. Unread'
      BY <2>3, <2>4, <2>5 DEF Closed, Unread, None
    <3>. QED  BY <2>3, <2>4, <2>5, <3>1, <3>2 DEF Closed
  <2>6. ASSUME Refused PROVE Refused'
    BY <2>3, <2>4, <2>6 DEF Refused, Complete, None
  <2>. QED  BY <2>5, <2>6 DEF IndInv
<1>. QED  BY <1>1, <1>2

\* Every step keeps the invariant.
LEMMA IndStep == IndInv /\ [Next]_vars => IndInv'
<1>. SUFFICES ASSUME InputsOK, Core, [Next]_vars PROVE IndInv'
  BY NotOpenKeeps DEF IndInv
<1>1. InputsOK
  OBVIOUS
<1>2. UNCHANGED inputs
  BY ZenonT(30) DEF Next, vars, Open, OpenV2, Opening, ReadNext, Preloaded, Emit, AllRead, Preload, Advance, Read,
     ReadNextV2, Fill, LimitReached, Check, Slice, Close, Done
<1>3. InputsOK'
  BY <1>1, <1>2, Frame
<1>4. SUFFICES Core'
  BY <1>3 DEF IndInv
<1>5. Core
  OBVIOUS
<1>open. ~(Open \/ OpenV2)
  <2>1. phase # "opening"
    BY DEF Core, PhaseV3, PhaseV2
  <2>. QED  BY <2>1 DEF Open, OpenV2, Opening
<1>6. CASE ReadNext
  BY <1>1, <1>5, <1>6, ReadNextKeeps
<1>7. CASE Preloaded
  BY <1>1, <1>5, <1>7, PreloadedKeeps
<1>8. CASE Emit
  BY <1>1, <1>5, <1>8, EmitKeeps
<1>9. CASE AllRead
  BY <1>1, <1>5, <1>9, AllReadKeeps
<1>10. ASSUME NEW p \in DOMAIN table, Preload(p) PROVE Core'
  BY <1>1, <1>5, <1>10, PreloadKeeps
<1>11. ASSUME NEW p \in DOMAIN table, Advance(p) PROVE Core'
  BY <1>1, <1>5, <1>11, AdvanceKeeps
<1>12. ASSUME NEW p \in DOMAIN table, Read(p) PROVE Core'
  BY <1>1, <1>5, <1>12, ReadKeeps
<1>13. CASE ReadNextV2
  BY <1>1, <1>5, <1>13, ReadNextV2Keeps
<1>14. CASE Fill
  BY <1>1, <1>5, <1>14, FillKeeps
<1>15. CASE LimitReached
  BY <1>1, <1>5, <1>15, LimitReachedKeeps
<1>16. CASE Check
  BY <1>1, <1>5, <1>16, CheckKeeps
<1>17. CASE Slice
  BY <1>1, <1>5, <1>17, SliceKeeps
<1>18. CASE Close
  BY <1>1, <1>5, <1>18, CloseKeeps
<1>19. CASE Done \/ UNCHANGED vars
  <2>1. UNCHANGED <<inputs, phase, next, offset, plan, queue, at, rowLimit, pos, batch, failures>>
    BY <1>19 DEF Done, vars, planning
  <2>2. reader' = reader /\ table' = table /\ Paths' = Paths /\ filter' = filter /\ TotalRows' = TotalRows
    BY <2>1, Frame
  <2>3. Shapes'
    BY <1>5, <2>1, <2>2 DEF Core, Shapes
  <2>4. \A p \in Paths : PlanOK(p)'
    BY <1>5, <2>1, PlanStays DEF Core
  <2>5. QueuesOK'
    <3>1. CASE Running
      BY <1>5, <2>1, <3>1, QueuesStay DEF Core, Ready
    <3>2. CASE ~Running
      BY <2>1, <3>2 DEF QueuesOK, Running
    <3>. QED  BY <3>1, <3>2
  <2>6. IF reader = "v3" THEN PhaseV3' ELSE PhaseV2'
    BY <1>5, <2>1, <2>2 DEF Core, PhaseV3, PhaseV2, AllHaveData, Remaining
  <2>7. Complete'
    <3>1. \A p, k : End(p, k)' = End(p, k)
      BY <2>1, Frame
    <3>. QED  BY <1>5, <2>1, <2>2, <3>1 DEF Core, Complete, Expected
  <2>8. RowsAligned'
    BY <1>5, <2>1, BatchStays DEF Core
  <2>. QED  BY <2>2, <2>3, <2>4, <2>5, <2>6, <2>7, <2>8 DEF Core
<1>. QED  BY <1>6, <1>7, <1>8, <1>9, <1>10, <1>11, <1>12, <1>13, <1>14, <1>15, <1>16, <1>17, <1>18, <1>19, <1>open DEF Next

\* For every table that v3 opens or that v2 reads with the same rows in every file,
\* every limit, predicate, projection and order of the paths: the rows of a batch of
\* ReadNext are consecutive rows of the table, and they are the next ones in every
\* column group but the files of v2 that have the number of another file's reader,
\* however the row groups are cut, planned by load_internal or advanceBuffer, and
\* loaded.  Those files, which ResetChunkState sets back, may only repeat rows.
THEOREM RowsStayAligned == Spec => []RowsAligned
<1>1. IndInv => RowsAligned
  <2>1. batch = None => RowsAligned
    <3>1. batch = None => DOMAIN batch.rows = {}
      BY DEF None
    <3>. QED  BY <3>1 DEF RowsAligned
  <2>. QED  BY <2>1 DEF IndInv, Closed, Refused, Unread, Core
<1>. QED  BY <1>1, IndInit, IndStep, PTL DEF Spec

\* ReadNext reports the end only when all rows of every column group, or all that
\* the predicate keeps, are handed out, and an error only when a read failed; open
\* refuses only then or when column groups have no or not the same number of rows;
\* and no column group is without rows while others hand theirs out.  By their
\* number this holds also where ResetChunkState of v2 sets back the wrong file.
THEOREM ScanIsComplete == Spec => []NothingMissed
<1>1. InputsOK /\ Core => NothingMissed
  <2>. SUFFICES ASSUME InputsOK, Core PROVE Complete /\ NoGroupStarves
    BY DEF NothingMissed
  <2>1. Complete
    BY DEF Core
  <2>2. ASSUME phase = "slice", NEW p \in Paths PROVE queue[p] # <<>>
    <3>1. reader = "v2"
      BY <2>2 DEF Core, PhaseV3, InputsOK, Given
    <3>. QED  BY <2>2, <3>1, NoneStarvesV2
  <2>3. ASSUME phase = "emit", NEW p \in Paths, NEW q \in Paths, queue[p] = <<>> PROVE queue[q] = <<>>
    <3>1. reader = "v3"
      BY <2>3 DEF Core, PhaseV2, InputsOK, Given
    <3>. QED  BY <2>3, <3>1, NoneStarvesV3
  <2>. QED  BY <2>1, <2>2, <2>3 DEF NoGroupStarves
<1>2. Closed \/ Refused => NothingMissed
  BY DEF Closed, Refused, NothingMissed, NoGroupStarves, Complete
<1>3. IndInv => NothingMissed
  BY <1>1, <1>2 DEF IndInv
<1>. QED  BY <1>3, IndInit, IndStep, PTL DEF Spec

=============================================================================
