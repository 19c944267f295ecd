-------------------------- MODULE LightClientProofs --------------------------
(***************************************************************************)
(* The light client for every tree of headers, every set of peers and      *)
(* callers and every limit: the index of the header chain is exact, the    *)
(* chain is only replaced by one with more work, and a block is asked of   *)
(* one peer at a time.  And the peer set that finds and dials its peers,   *)
(* for every set of addresses: one dial at a time for each, and none of a  *)
(* host that is banned or not pinned.                                      *)
(***************************************************************************)
EXTENDS LightClient, FiniteSetTheorems, SequenceTheorems, WellFoundedInduction, TLAPS

-----------------------------------------------------------------------------
(* Numbers. *)

(* A set of naturals has a least element. *)
LEMMA LeastNat ==
  ASSUME NEW T \in SUBSET Nat, T # {}
  PROVE  \E x \in T : \A y \in T : x <= y
<1>1. PICK R : R = OpToRel(<, Nat)
  OBVIOUS
<1>2. IsWellFoundedOn(R, Nat)
  BY <1>1, NatLessThanWellFounded
<1>3. PICK x \in T : \A y \in T : ~(<<y, x>> \in R)
  BY <1>2, WFMin
<1>4. ASSUME NEW y \in T PROVE x <= y
  <2>1. <<y, x>> \notin R
    BY <1>3
  <2>2. y \in Nat /\ x \in Nat
    OBVIOUS
  <2>3. ~(y < x)
    BY <1>1, <2>1, <2>2 DEF OpToRel
  <2> QED BY <2>2, <2>3
<1> QED BY <1>4

(* Induction, with the property given by the set of numbers that have it. *)
LEMMA Inductive ==
  ASSUME NEW S, 0 \in S, \A n \in Nat : n \in S => n + 1 \in S
  PROVE  \A n \in Nat : n \in S
<1> SUFFICES ASSUME Nat \ S # {} PROVE FALSE
  OBVIOUS
<1>1. PICK x \in Nat \ S : \A y \in Nat \ S : x <= y
  BY LeastNat
<1>2. x # 0 /\ x - 1 \in Nat /\ x = (x - 1) + 1
  BY <1>1
<1>3. x - 1 \in S
  BY <1>1, <1>2
<1> QED BY <1>1, <1>2, <1>3

LEMMA MinIn ==
  ASSUME NEW T \in SUBSET Nat, T # {}
  PROVE  Min(T) \in T /\ \A y \in T : Min(T) <= y
  BY LeastNat DEF Min

LEMMA MaxIn ==
  ASSUME NEW T \in SUBSET Nat, T # {}, NEW n \in Nat, \A x \in T : x <= n
  PROVE  Max(T) \in T /\ \A y \in T : Max(T) >= y
<1>1. PICK U : U = {n - x : x \in T}
  OBVIOUS
<1>2. U \in SUBSET Nat /\ U # {}
  <2>1. \A x \in T : n - x \in Nat
    OBVIOUS
  <2> QED BY <1>1, <2>1
<1>3. PICK u \in U : \A v \in U : u <= v
  BY <1>2, LeastNat
<1>4. PICK x \in T : u = n - x
  BY <1>1, <1>3
<1>5. ASSUME NEW y \in T PROVE x >= y
  <2>1. n - x <= n - y
    BY <1>1, <1>3, <1>4
  <2> QED BY <2>1
<1> QED BY <1>5 DEF Max

-----------------------------------------------------------------------------
(* The tree of headers. *)

LEMMA Tree ==
    /\ Anchor \in Blocks /\ Parent \in [Blocks \ {Anchor} -> Blocks] /\ Tips \subseteq Blocks
    /\ Work \in [Blocks -> Nat \ {0}] /\ Foreign \notin Seq(Blocks)
    /\ \A b \in Blocks : Path[b] \in Seq(Blocks) /\ Len(Path[b]) \in Nat
    /\ Path[Anchor] = <<Anchor>>
    /\ \A b \in Blocks \ {Anchor} : Path[b] = Append(Path[Parent[b]], b)
<1>1. /\ Anchor \in Blocks /\ Parent \in [Blocks \ {Anchor} -> Blocks] /\ Tips \subseteq Blocks
      /\ Work \in [Blocks -> Nat \ {0}] /\ Foreign \notin Seq(Blocks)
  BY TreeAssumption
<1>2. \A b \in Blocks : Path[b] \in Seq(Blocks)
  BY PathAssumption
<1>3. \A b \in Blocks : Len(Path[b]) \in Nat
  BY <1>2
<1>4. \A b \in Blocks : Path[b] = IF b = Anchor THEN <<b>> ELSE Append(Path[Parent[b]], b)
  BY PathAssumption
<1> QED BY <1>1, <1>2, <1>3, <1>4

(* A block is at the end of its path, and the path to any block on it is    *)
(* the part of it up to that block.                                         *)
Along(b) ==
    /\ Len(Path[b]) >= 1 /\ Path[b][Len(Path[b])] = b /\ Path[b][1] = Anchor
    /\ \A k \in 1..Len(Path[b]) :
          /\ Path[b][k] \in Blocks
          /\ Len(Path[Path[b][k]]) = k
          /\ \A j \in 1..k : Path[Path[b][k]][j] = Path[b][j]
          /\ k > 1 => Path[b][k] # Anchor /\ Parent[Path[b][k]] = Path[b][k - 1]

LEMMA AnchorAlong == Along(Anchor)
<1>1. PICK p : p = Path[Anchor]
  OBVIOUS
<1>2. p = <<Anchor>> /\ Len(p) = 1 /\ p[1] = Anchor /\ Anchor \in Blocks
  BY <1>1, Tree
<1>3. 1..1 = {1}
  OBVIOUS
<1>4. \A k \in 1..Len(p) : /\ p[k] \in Blocks /\ Len(Path[p[k]]) = k /\ ~(k > 1)
                          /\ \A j \in 1..k : Path[p[k]][j] = p[j]
  <2> TAKE k \in 1..Len(p)
  <2>1. k = 1
    BY <1>2, <1>3
  <2>2. Path[p[1]] = p
    BY <1>1, <1>2
  <2> QED BY <1>2, <2>1, <2>2
<1> QED BY <1>1, <1>2, <1>4 DEF Along

LEMMA ChildAlong ==
  ASSUME NEW b \in Blocks \ {Anchor}, Along(Parent[b])
  PROVE  Along(b) /\ Len(Path[b]) = Len(Path[Parent[b]]) + 1
<1>1. PICK q \in Blocks : q = Parent[b]
  BY Tree
<1>2. PICK s \in Seq(Blocks) : s = Path[q]
  BY Tree
<1>3. PICK n \in Nat : n = Len(s)
  BY <1>2
<1>4. PICK p \in Seq(Blocks) : p = Path[b]
  BY Tree
<1>5. p = Append(s, b)
  BY <1>1, <1>2, <1>4, Tree
<1>6. Len(p) = n + 1 /\ p[n + 1] = b /\ \A k \in 1..n : p[k] = s[k]
  BY <1>2, <1>3, <1>5
<1>7. n >= 1 /\ s[n] = q /\ s[1] = Anchor
  BY <1>1, <1>2, <1>3 DEF Along
<1>8. 1 \in 1..n /\ n \in 1..n
  BY <1>7
<1>9. ASSUME NEW k \in 1..(n + 1)
      PROVE  /\ p[k] \in Blocks
             /\ Len(Path[p[k]]) = k
             /\ \A j \in 1..k : Path[p[k]][j] = p[j]
             /\ k > 1 => p[k] # Anchor /\ Parent[p[k]] = p[k - 1]
  <2>1. CASE k = n + 1
    <3>1. k - 1 = n
      BY <2>1
    <3> QED BY <1>1, <1>4, <1>6, <1>7, <1>8, <2>1, <3>1
  <2>2. CASE k # n + 1
    <3>1. k \in 1..n /\ \A j \in 1..k : j \in 1..n
      BY <2>2
    <3>2. p[k] = s[k]
      BY <1>6, <3>1
    <3>3. /\ s[k] \in Blocks /\ Len(Path[s[k]]) = k
          /\ \A j \in 1..k : Path[s[k]][j] = s[j]
          /\ k > 1 => s[k] # Anchor /\ Parent[s[k]] = s[k - 1]
      BY <1>1, <1>2, <1>3, <3>1 DEF Along
    <3>4. \A j \in 1..k : p[j] = s[j]
      BY <1>6, <3>1
    <3>5. k > 1 => k - 1 \in 1..n
      BY <3>1
    <3>6. k > 1 => p[k - 1] = s[k - 1]
      BY <1>6, <3>5
    <3> QED BY <3>2, <3>3, <3>4, <3>6
  <2> QED BY <2>1, <2>2
<1> QED BY <1>1, <1>2, <1>3, <1>4, <1>6, <1>7, <1>8, <1>9 DEF Along

LEMMA PathsAlong == \A b \in Blocks : Along(b)
<1>1. PICK S : S = {n \in Nat : \A b \in Blocks : Len(Path[b]) = n => Along(b)}
  OBVIOUS
<1>2. 0 \in S
  <2>1. ASSUME NEW b \in Blocks, Len(Path[b]) = 0 PROVE Along(b)
    <3>1. CASE b = Anchor
      BY <3>1, AnchorAlong
    <3>2. CASE b # Anchor
      <4>1. Parent[b] \in Blocks /\ Path[b] = Append(Path[Parent[b]], b)
        BY <3>2, Tree
      <4>2. PICK s \in Seq(Blocks) : s = Path[Parent[b]]
        BY <4>1, Tree
      <4>3. Len(Append(s, b)) = Len(s) + 1 /\ Len(s) \in Nat
        OBVIOUS
      <4> QED BY <2>1, <4>1, <4>2, <4>3
    <3> QED BY <3>1, <3>2
  <2> QED BY <1>1, <2>1
<1>3. ASSUME NEW n \in Nat, n \in S PROVE n + 1 \in S
  <2>1. ASSUME NEW b \in Blocks, Len(Path[b]) = n + 1 PROVE Along(b)
    <3>1. CASE b = Anchor
      BY <3>1, AnchorAlong
    <3>2. CASE b # Anchor
      <4>1. Parent[b] \in Blocks /\ Path[b] = Append(Path[Parent[b]], b)
        BY <3>2, Tree
      <4>2. PICK s \in Seq(Blocks) : s = Path[Parent[b]]
        BY <4>1, Tree
      <4>3. Len(Append(s, b)) = Len(s) + 1 /\ Len(s) \in Nat
        OBVIOUS
      <4>4. Len(Path[Parent[b]]) = n
        BY <2>1, <4>1, <4>2, <4>3
      <4>5. Along(Parent[b])
        BY <1>1, <1>3, <4>1, <4>4
      <4> QED BY <3>2, <4>5, ChildAlong
    <3> QED BY <3>1, <3>2
  <2> QED BY <1>1, <2>1
<1>4. \A n \in Nat : n \in S
  BY <1>2, <1>3, Inductive
<1> QED BY <1>1, <1>4, Tree

-----------------------------------------------------------------------------
(* Sequences of blocks. *)

LEMMA SameSeq ==
  ASSUME NEW s \in Seq(Blocks), NEW t \in Seq(Blocks), Len(s) = Len(t),
         \A i \in 1..Len(s) : s[i] = t[i]
  PROVE  s = t
  OBVIOUS

LEMMA Slice ==
  ASSUME NEW s \in Seq(Blocks), NEW a \in Nat \ {0}, NEW n \in Nat, a + n - 1 <= Len(s)
  PROVE  /\ SubSeq(s, a, a + n - 1) \in Seq(Blocks) /\ Len(SubSeq(s, a, a + n - 1)) = n
         /\ \A i \in 1..n : SubSeq(s, a, a + n - 1)[i] = s[a + i - 1]
<1>1. PICK m \in Int : m = a + n - 1
  OBVIOUS
<1>2. \A k \in a .. m : s[k] \in Blocks
  BY <1>1
<1>3. SubSeq(s, a, m) \in Seq(Blocks) /\ Len(SubSeq(s, a, m)) = n
  BY <1>1, <1>2, SubSeqProperties
<1>4. ASSUME NEW i \in 1..n PROVE SubSeq(s, a, m)[i] = s[a + i - 1]
  <2>1. i \in 1 .. m - a + 1
    BY <1>1
  <2> QED BY <1>1, <1>2, <2>1, SubSeqProperties
<1> QED BY <1>1, <1>3, <1>4

LEMMA Joined ==
  ASSUME NEW s \in Seq(Blocks), NEW t \in Seq(Blocks)
  PROVE  /\ s \o t \in Seq(Blocks) /\ Len(s \o t) = Len(s) + Len(t)
         /\ \A i \in 1..Len(s) : (s \o t)[i] = s[i]
         /\ \A i \in 1..Len(t) : (s \o t)[Len(s) + i] = t[i]
<1>1. PICK m \in Nat : m = Len(s)
  OBVIOUS
<1>2. PICK n \in Nat : n = Len(t)
  OBVIOUS
<1>3. PICK u : u = s \o t
  OBVIOUS
<1>4. /\ u \in Seq(Blocks) /\ Len(u) = m + n
      /\ \A i \in 1 .. m + n : u[i] = IF i <= m THEN s[i] ELSE t[i - m]
  BY <1>1, <1>2, <1>3, ConcatProperties
<1>5. \A i \in 1..m : u[i] = s[i]
  BY <1>4
<1>6. ASSUME NEW i \in 1..n PROVE u[m + i] = t[i]
  <2>1. m + i \in 1 .. m + n /\ ~(m + i <= m) /\ (m + i) - m = i
    OBVIOUS
  <2> QED BY <1>4, <2>1
<1> QED BY <1>1, <1>2, <1>3, <1>4, <1>5, <1>6

(* Where a block is on the path to it. *)
Rank(b) == Len(Path[b]) - 1

LEMMA RangeOfPath ==
  ASSUME NEW b \in Blocks, NEW c
  PROVE  c \in Range(Path[b]) <=> \E k \in 1..Len(Path[b]) : Path[b][k] = c
<1>1. DOMAIN Path[b] = 1..Len(Path[b])
  BY Tree
<1> QED BY <1>1 DEF Range

LEMMA PlaceOnPath ==
  ASSUME NEW b \in Blocks, NEW k \in 1..Len(Path[b]), NEW c, Path[b][k] = c
  PROVE  c \in Blocks /\ Len(Path[c]) = k /\ Rank(c) = k - 1
  BY PathsAlong DEF Along, Rank

LEMMA PathPositions ==
  ASSUME NEW b \in Blocks
  PROVE  Positions(Path[b]) = [c \in Range(Path[b]) |-> Rank(c)]
<1>1. ASSUME NEW c \in Range(Path[b])
      PROVE  (CHOOSE i \in DOMAIN Path[b] : Path[b][i] = c) - 1 = Rank(c)
  <2>1. DOMAIN Path[b] = 1..Len(Path[b])
    BY Tree
  <2>2. PICK k \in DOMAIN Path[b] : Path[b][k] = c
    BY <1>1 DEF Range
  <2>3. PICK i : i = CHOOSE j \in DOMAIN Path[b] : Path[b][j] = c
    OBVIOUS
  <2>4. i \in DOMAIN Path[b] /\ Path[b][i] = c
    BY <2>2, <2>3
  <2>5. Rank(c) = i - 1
    BY <2>1, <2>4, PlaceOnPath
  <2> QED BY <2>3, <2>5
<1> QED BY <1>1 DEF Positions

(* The path to a block on a path. *)
LEMMA PrefixIsPath ==
  ASSUME NEW b \in Blocks, NEW k \in 1..Len(Path[b]), NEW s \in Seq(Blocks), Len(s) = k,
         \A i \in 1..k : s[i] = Path[b][i]
  PROVE  Path[b][k] \in Blocks /\ s = Path[Path[b][k]]
<1>1. PICK c \in Blocks : c = Path[b][k]
  BY PathsAlong DEF Along
<1>2. Len(Path[c]) = k /\ \A i \in 1..k : Path[c][i] = Path[b][i]
  BY <1>1, PathsAlong DEF Along
<1>3. Path[c] \in Seq(Blocks)
  BY Tree
<1>4. s = Path[c]
  BY <1>2, <1>3, SameSeq
<1> QED BY <1>1, <1>4

-----------------------------------------------------------------------------
(* Batches of headers. *)

(* The headers of a batch are those of the path to t from offset f on. *)
RunOf(batch, t, f) ==
    /\ batch \in Seq(Blocks) /\ f + Len(batch) <= Len(Path[t])
    /\ \A i \in 1..Len(batch) : batch[i] = Path[t][f + i]
Run(batch) == \E t \in Blocks : \E f \in Nat \ {0} : RunOf(batch, t, f)

LEMMA SliceRuns ==
  ASSUME NEW t \in Blocks, NEW a \in Nat, a >= 2, NEW m \in Nat, a <= m + 1, m <= Len(Path[t])
  PROVE  Run(SubSeq(Path[t], a, m))
<1>1. PICK s \in Seq(Blocks) : s = Path[t]
  BY Tree
<1>2. PICK n \in Nat : n = m - a + 1
  <2>1. m - a + 1 \in Nat
    OBVIOUS
  <2> QED BY <2>1
<1>3. PICK f \in Nat \ {0} : f = a - 1
  <2>1. a - 1 \in Nat \ {0}
    OBVIOUS
  <2> QED BY <2>1
<1>4. a + n - 1 = m /\ f + n <= Len(s) /\ a \in Nat \ {0}
  BY <1>1, <1>2, <1>3
<1>5. PICK batch : batch = SubSeq(s, a, m)
  OBVIOUS
<1>6. batch \in Seq(Blocks) /\ Len(batch) = n /\ \A i \in 1..n : batch[i] = s[a + i - 1]
  <2>1. a + n - 1 <= Len(s)
    BY <1>1, <1>4
  <2> QED BY <1>1, <1>4, <1>5, <2>1, Slice
<1>7. \A i \in 1..n : a + i - 1 = f + i
  BY <1>3
<1>8. RunOf(batch, t, f)
  BY <1>1, <1>4, <1>6, <1>7 DEF RunOf
<1> QED BY <1>1, <1>5, <1>8 DEF Run

LEMMA EmptyRuns == Run(<<>>)
<1>1. Anchor \in Blocks /\ Len(Path[Anchor]) >= 1
  BY Tree, PathsAlong DEF Along
<1>2. <<>> \in Seq(Blocks) /\ Len(<<>>) = 0 /\ 1 + 0 = 1
  OBVIOUS
<1>3. 1..0 = {}
  OBVIOUS
<1>4. RunOf(<<>>, Anchor, 1)
  <2>1. 1 + Len(<<>>) <= Len(Path[Anchor])
    BY <1>1, <1>2, Tree
  <2> QED BY <1>2, <1>3, <2>1 DEF RunOf
<1> QED BY <1>1, <1>4 DEF Run

(* Whoever answers, its headers are a run of some path. *)
LEMMA AnswersRun ==
  ASSUME NEW p, net \in Blocks, Tip \in Nat, NEW batch \in Answer(p)
  PROVE  Run(batch)
<1>1. CASE p \in Honest
  <2>1. PICK own \in Seq(Blocks) : own = Path[net]
    BY Tree
  <2>2. Len(own) \in Nat /\ Len(own) >= 1
    BY <2>1, PathsAlong DEF Along
  <2>3. PICK O : O = {0} \cup {o \in 1..Tip : /\ o \in Locator /\ o < Len(own)
                                              /\ own[o + 1] = HashAt(o)}
    OBVIOUS
  <2>4. O \in SUBSET Nat /\ O # {} /\ \A o \in O : o <= Tip
    BY <2>3
  <2>5. PICK from \in O : from = Max(O)
    BY <2>4, MaxIn
  <2>6. from \in Nat /\ from < Len(own)
    BY <2>2, <2>3, <2>5
  <2>7. PICK M : M = {from + 1 + MaxBatch, Len(own)}
    OBVIOUS
  <2>8. MaxBatch \in Nat
    BY TreeAssumption
  <2>9. PICK m \in M : m = Min(M)
    <3>1. M \in SUBSET Nat /\ M # {}
      BY <2>2, <2>6, <2>7, <2>8
    <3> QED BY <3>1, MinIn
  <2>10. m \in Nat /\ m <= Len(own) /\ from + 2 <= m + 1
    <3>1. M \in SUBSET Nat /\ M # {}
      BY <2>2, <2>6, <2>7, <2>8
    <3>2. m <= Len(own) /\ m \in Nat
      BY <2>7, <2>9, <3>1, MinIn
    <3> QED BY <2>2, <2>6, <2>7, <2>8, <2>9, <3>2
  <2>11. batch = SubSeq(own, from + 2, m)
    BY <1>1, <2>1, <2>3, <2>5, <2>7, <2>9 DEF Answer
  <2>12. PICK a \in Nat : a = from + 2
    BY <2>6
  <2>13. a >= 2 /\ a <= m + 1
    BY <2>6, <2>10, <2>12
  <2>14. net \in Blocks
    OBVIOUS
  <2> QED BY <2>1, <2>10, <2>11, <2>12, <2>13, <2>14, SliceRuns
<1>2. CASE p \notin Honest
  <2>1. CASE batch = <<>>
    BY <2>1, EmptyRuns
  <2>2. CASE batch # <<>>
    <3>1. PICK b \in Blocks : batch \in {SubSeq(Path[b], i, Len(Path[b])) : i \in 2..Len(Path[b])}
      BY <1>2, <2>2 DEF Answer
    <3>2. PICK i \in 2..Len(Path[b]) : batch = SubSeq(Path[b], i, Len(Path[b]))
      BY <3>1
    <3>3. PICK n \in Nat : n = Len(Path[b])
      BY Tree
    <3>4. i \in Nat /\ i >= 2 /\ i <= n + 1 /\ n <= n
      BY <3>2, <3>3
    <3> QED BY <3>2, <3>3, <3>4, SliceRuns
  <2> QED BY <2>1, <2>2
<1> QED BY <1>1, <1>2

(* The chain of verified headers: a path and its index. *)
Chained == /\ \E b \in Blocks : headers = Path[b]
           /\ index = Positions(headers)

LEMMA HeadersType ==
  ASSUME Chained
  PROVE  /\ headers \in Seq(Blocks) /\ Len(headers) \in Nat \ {0} /\ Tip \in Nat /\ Tip + 1 = Len(headers)
         /\ DOMAIN index = Range(headers) /\ \A c \in DOMAIN index : index[c] = Rank(c)
<1>1. PICK b \in Blocks : headers = Path[b]
  BY DEF Chained
<1>2. headers \in Seq(Blocks) /\ Len(headers) \in Nat /\ Len(headers) >= 1
  BY <1>1, Tree, PathsAlong DEF Along
<1>3. index = [c \in Range(headers) |-> Rank(c)]
  BY <1>1, PathPositions DEF Chained
<1> QED BY <1>2, <1>3 DEF Tip

(* What a batch adds: the held chain up to the base and the fresh headers   *)
(* are on one path.                                                         *)
Grafted(t, base, fresh) ==
    /\ base \in 0..Tip /\ fresh \in Seq(Blocks) /\ base + 1 + Len(fresh) <= Len(Path[t])
    /\ \A j \in 1..base + 1 : headers[j] = Path[t][j]
    /\ \A i \in 1..Len(fresh) : fresh[i] = Path[t][base + 1 + i]

LEMMA BatchGrafts ==
  ASSUME Chained, NEW batch, Run(batch), batch # <<>>, Parent[batch[1]] \in DOMAIN index
  PROVE  \E t \in Blocks : Grafted(t, Base(batch), Fresh(batch))
<1>0. /\ headers \in Seq(Blocks) /\ Len(headers) \in Nat \ {0} /\ Tip \in Nat /\ Tip + 1 = Len(headers)
      /\ DOMAIN index = Range(headers) /\ \A c \in DOMAIN index : index[c] = Rank(c)
  BY HeadersType
<1>1. PICK t \in Blocks, f \in Nat \ {0} : RunOf(batch, t, f)
  BY DEF Run
<1>2. PICK n \in Nat : n = Len(batch)
  BY <1>1 DEF RunOf
<1>3. batch \in Seq(Blocks) /\ f + n <= Len(Path[t]) /\ \A i \in 1..n : batch[i] = Path[t][f + i]
  BY <1>1, <1>2 DEF RunOf
<1>4. n # 0
  BY <1>2, <1>3
<1>5. PICK b \in Blocks : headers = Path[b]
  BY DEF Chained
<1>6. PICK c : c = Parent[batch[1]]
  OBVIOUS
<1>7. f \in 1..Len(Path[t]) /\ Path[t][f] = c
  <2>1. PICK l \in Nat : l = Len(Path[t])
    BY Tree
  <2>2. f + 1 \in 1..l /\ f \in 1..l /\ (f + 1) - 1 = f /\ f + 1 > 1 /\ 1 \in 1..n
    BY <1>3, <1>4, <2>1
  <2>3. batch[1] = Path[t][f + 1]
    BY <1>3, <2>2
  <2>4. Parent[Path[t][f + 1]] = Path[t][f]
    BY <2>1, <2>2, PathsAlong DEF Along
  <2> QED BY <1>6, <2>1, <2>2, <2>3, <2>4
<1>8. f \in 1..Len(headers) /\ Rank(c) = f - 1 /\ \A j \in 1..f : headers[j] = Path[t][j]
  <2>1. PICK k \in 1..Len(headers) : headers[k] = c
    BY <1>0, <1>5, <1>6, RangeOfPath
  <2>2. Len(Path[c]) = k /\ \A j \in 1..k : Path[c][j] = headers[j]
    BY <1>5, <2>1, PathsAlong DEF Along
  <2>3. Len(Path[c]) = f /\ \A j \in 1..f : Path[c][j] = Path[t][j]
    BY <1>7, PathsAlong DEF Along
  <2> QED BY <2>1, <2>2, <2>3 DEF Rank
<1>9. Fork(batch) = f - 1
  BY <1>0, <1>6, <1>8 DEF Fork
<1>10. PICK T : T = {k \in 0..n : \A i \in 1..k : /\ (f - 1) + i <= Tip
                                                /\ HashAt((f - 1) + i) = batch[i]}
  OBVIOUS
<1>11. T \in SUBSET Nat /\ T # {} /\ \A k \in T : k <= n
  <2>1. 0 \in T
    BY <1>10
  <2> QED BY <1>10, <2>1
<1>12. PICK K \in T : K = Max(T)
  BY <1>11, MaxIn
<1>13. Known(batch) = K
  BY <1>2, <1>9, <1>10, <1>12 DEF Known
<1>14. K \in Nat /\ K <= n /\ \A i \in 1..K : (f - 1) + i <= Tip /\ headers[f + i] = batch[i]
  <2>1. K \in Nat /\ K <= n
    BY <1>11, <1>12
  <2>2. ASSUME NEW i \in 1..K PROVE (f - 1) + i <= Tip /\ headers[f + i] = batch[i]
    <3>1. (f - 1) + i <= Tip /\ HashAt((f - 1) + i) = batch[i]
      BY <1>10, <1>12, <2>2
    <3>2. (f - 1) + i + 1 = f + i
      BY <2>1
    <3> QED BY <3>1, <3>2 DEF HashAt
  <2> QED BY <2>1, <2>2
<1>15. PICK base \in Nat : base = f - 1 + K
  <2>1. f - 1 + K \in Nat
    BY <1>14
  <2> QED BY <2>1
<1>16. base \in 0..Tip
  <2>1. f - 1 <= Tip
    BY <1>0, <1>8
  <2>2. K # 0 => K \in 1..K
    BY <1>14
  <2>3. K # 0 => f - 1 + K <= Tip
    BY <1>14, <2>2
  <2> QED BY <1>0, <1>14, <1>15, <2>1, <2>3
<1>17. \A j \in 1..base + 1 : headers[j] = Path[t][j]
  <2> TAKE j \in 1..base + 1
  <2>1. CASE j <= f
    BY <1>8, <2>1
  <2>2. CASE ~(j <= f)
    <3>1. PICK i \in 1..K : j = f + i
      <4>1. j - f \in 1..K /\ j = f + (j - f)
        BY <1>14, <1>15, <2>2
      <4> QED BY <4>1
    <3>2. headers[j] = batch[i] /\ i \in 1..n
      BY <1>14, <3>1
    <3> QED BY <1>3, <3>1, <3>2
  <2> QED BY <2>1, <2>2
<1>18. PICK r \in Nat : r = n - K
  <2>1. n - K \in Nat
    BY <1>14
  <2> QED BY <2>1
<1>19. PICK fresh : fresh = SubSeq(batch, K + 1, n)
  OBVIOUS
<1>20. fresh \in Seq(Blocks) /\ Len(fresh) = r /\ \A i \in 1..r : fresh[i] = batch[K + i]
  <2>1. PICK a \in Nat \ {0} : a = K + 1
    BY <1>14
  <2>2. a + r - 1 = n /\ a + r - 1 <= Len(batch) /\ \A i \in 1..r : a + i - 1 = K + i
    <3>1. K \in Nat /\ K <= n
      BY <1>14
    <3>2. a + r - 1 = n
      BY <1>18, <2>1, <3>1
    <3>3. \A i \in 1..r : a + i - 1 = K + i
      BY <2>1, <3>1
    <3> QED BY <1>2, <3>2, <3>3
  <2>3. PICK s \in Seq(Blocks) : s = batch
    BY <1>3
  <2>4. PICK m : m = a + r - 1
    OBVIOUS
  <2>5. /\ SubSeq(s, a, m) \in Seq(Blocks) /\ Len(SubSeq(s, a, m)) = r
        /\ \A i \in 1..r : SubSeq(s, a, m)[i] = s[a + i - 1]
    BY <2>2, <2>3, <2>4, Slice
  <2>6. fresh = SubSeq(s, a, m)
    BY <1>19, <2>1, <2>2, <2>3, <2>4
  <2> QED BY <2>2, <2>3, <2>5, <2>6
<1>21. ASSUME NEW i \in 1..r PROVE fresh[i] = Path[t][base + 1 + i]
  <2>1. K + i \in 1..n /\ f + (K + i) = base + 1 + i
    BY <1>14, <1>15, <1>18
  <2> QED BY <1>3, <1>20, <2>1
<1>22. base + 1 + r <= Len(Path[t])
  <2>1. base + 1 + r = f + n
    BY <1>14, <1>15, <1>18
  <2> QED BY <1>3, <2>1
<1>23. Base(batch) = base /\ Fresh(batch) = fresh
  BY <1>2, <1>9, <1>13, <1>15, <1>19 DEF Base, Fresh
<1>24. Grafted(t, base, fresh)
  BY <1>16, <1>17, <1>20, <1>21, <1>22 DEF Grafted
<1> QED BY <1>23, <1>24

(* The ranks of the fresh headers. *)
LEMMA FreshRank ==
  ASSUME NEW t \in Blocks, NEW base, NEW fresh, Tip \in Nat, Grafted(t, base, fresh),
         NEW i \in DOMAIN fresh
  PROVE  fresh[i] \in Blocks /\ Rank(fresh[i]) = base + i /\ i \in 1..Len(fresh)
<1>1. fresh \in Seq(Blocks) /\ base \in Nat /\ DOMAIN fresh = 1..Len(fresh)
  BY DEF Grafted
<1>2. PICK l \in Nat : l = Len(Path[t])
  BY Tree
<1>3. PICK n \in Nat : n = Len(fresh)
  <2>1. Len(fresh) \in Nat
    BY <1>1
  <2> QED BY <2>1
<1>4. base + 1 + n <= l /\ i \in 1..n /\ fresh[i] = Path[t][base + 1 + i]
  BY <1>1, <1>2, <1>3 DEF Grafted
<1>5. base + 1 + i \in 1..l /\ (base + 1 + i) - 1 = base + i
  BY <1>1, <1>4
<1> QED BY <1>1, <1>2, <1>3, <1>4, <1>5, PlaceOnPath

LEMMA HeldRank ==
  ASSUME Chained, NEW k \in 1..Len(headers)
  PROVE  headers[k] \in DOMAIN index /\ Rank(headers[k]) = k - 1
<1>1. PICK b \in Blocks : headers = Path[b]
  BY DEF Chained
<1>2. headers[k] \in Range(headers)
  BY <1>1, RangeOfPath
<1> QED BY <1>1, <1>2, HeadersType, PlaceOnPath

(* The chain with the fresh headers on top is a path. *)
Joint(base, fresh) == SubSeq(headers, 1, base + 1) \o fresh

LEMMA GraftedPath ==
  ASSUME Chained, NEW t \in Blocks, NEW base, NEW fresh, Grafted(t, base, fresh)
  PROVE  LET hs == Joint(base, fresh)
         IN  /\ \E u \in Blocks : hs = Path[u]
             /\ Positions(hs) = [c \in Range(hs) |-> Rank(c)]
             /\ \A c : c \in Range(hs) <=> \/ \E k \in 1..base + 1 : headers[k] = c
                                           \/ c \in Range(fresh)
<1>1. /\ headers \in Seq(Blocks) /\ Len(headers) \in Nat \ {0} /\ Tip \in Nat /\ Tip + 1 = Len(headers)
  BY HeadersType
<1>2. /\ base \in Nat /\ base <= Tip /\ fresh \in Seq(Blocks)
      /\ base + 1 + Len(fresh) <= Len(Path[t])
      /\ \A j \in 1..base + 1 : headers[j] = Path[t][j]
      /\ \A i \in 1..Len(fresh) : fresh[i] = Path[t][base + 1 + i]
  BY <1>1 DEF Grafted
<1>3. PICK n \in Nat : n = Len(fresh)
  BY <1>2
<1>4. PICK m \in Nat \ {0} : m = base + 1
  BY <1>2
<1>5. PICK s : s = SubSeq(headers, 1, m)
  OBVIOUS
<1>6. s \in Seq(Blocks) /\ Len(s) = m /\ \A i \in 1..m : s[i] = headers[i]
  <2>1. 1 + m - 1 = m /\ 1 + m - 1 <= Len(headers) /\ \A i \in 1..m : 1 + i - 1 = i
    BY <1>1, <1>2, <1>4
  <2>2. 1 \in Nat \ {0}
    OBVIOUS
  <2>3. PICK a \in Nat \ {0} : a = 1
    BY <2>2
  <2>4. PICK z : z = a + m - 1
    OBVIOUS
  <2>5. /\ SubSeq(headers, a, z) \in Seq(Blocks) /\ Len(SubSeq(headers, a, z)) = m
        /\ \A i \in 1..m : SubSeq(headers, a, z)[i] = headers[a + i - 1]
    BY <1>1, <2>1, <2>3, <2>4, Slice
  <2> QED BY <1>5, <2>1, <2>3, <2>4, <2>5
<1>7. PICK hs : hs = s \o fresh
  OBVIOUS
<1>8. /\ hs \in Seq(Blocks) /\ Len(hs) = m + n
      /\ \A i \in 1..m : hs[i] = s[i]
      /\ \A i \in 1..n : hs[m + i] = fresh[i]
  BY <1>2, <1>3, <1>6, <1>7, Joined
<1>9. PICK l \in Nat : l = Len(Path[t])
  BY Tree
<1>10. m + n \in 1..l
  BY <1>2, <1>3, <1>4, <1>9
<1>11. ASSUME NEW j \in 1..(m + n) PROVE hs[j] = Path[t][j]
  <2>1. CASE j <= m
    BY <1>2, <1>4, <1>6, <1>8, <2>1
  <2>2. CASE ~(j <= m)
    <3>1. PICK i \in 1..n : j = m + i
      <4>1. j - m \in 1..n /\ j = m + (j - m)
        BY <2>2
      <4> QED BY <4>1
    <3>2. hs[j] = fresh[i] /\ fresh[i] = Path[t][base + 1 + i] /\ base + 1 + i = j
      BY <1>2, <1>3, <1>4, <1>8, <3>1
    <3> QED BY <3>2
  <2> QED BY <2>1, <2>2
<1>12. PICK u \in Blocks : hs = Path[u]
  BY <1>8, <1>9, <1>10, <1>11, PrefixIsPath
<1>13. Positions(hs) = [c \in Range(hs) |-> Rank(c)]
  BY <1>12, PathPositions
<1>14. ASSUME NEW c
       PROVE  c \in Range(hs) <=> \/ \E k \in 1..m : headers[k] = c
                                  \/ c \in Range(fresh)
  <2>1. DOMAIN hs = 1..(m + n) /\ DOMAIN fresh = 1..n
    BY <1>2, <1>3, <1>8
  <2>2. ASSUME c \in Range(hs)
        PROVE  (\E k \in 1..m : headers[k] = c) \/ c \in Range(fresh)
    <3>1. PICK j \in 1..(m + n) : hs[j] = c
      BY <2>1, <2>2 DEF Range
    <3>2. CASE j <= m
      BY <1>6, <1>8, <3>1, <3>2
    <3>3. CASE ~(j <= m)
      <4>1. PICK i \in 1..n : j = m + i
        <5>1. j - m \in 1..n /\ j = m + (j - m)
          BY <3>3
        <5> QED BY <5>1
      <4> QED BY <1>8, <2>1, <3>1, <4>1 DEF Range
    <3> QED BY <3>2, <3>3
  <2>3. ASSUME NEW k \in 1..m, headers[k] = c PROVE c \in Range(hs)
    <3>1. k \in 1..(m + n) /\ hs[k] = c
      BY <1>6, <1>8, <2>3
    <3> QED BY <2>1, <3>1 DEF Range
  <2>4. ASSUME c \in Range(fresh) PROVE c \in Range(hs)
    <3>1. PICK i \in 1..n : fresh[i] = c
      BY <2>1, <2>4 DEF Range
    <3>2. m + i \in 1..(m + n) /\ hs[m + i] = c
      BY <1>8, <3>1
    <3> QED BY <2>1, <3>2 DEF Range
  <2> QED BY <2>2, <2>3, <2>4
<1>15. hs = Joint(base, fresh)
  BY <1>4, <1>5, <1>7 DEF Joint
<1> QED BY <1>4, <1>12, <1>13, <1>14, <1>15

(* append *)
LEMMA PushedExact ==
  ASSUME Chained, NEW t \in Blocks, NEW fresh, Grafted(t, Tip, fresh)
  PROVE  Pushed(fresh) = Positions(Joint(Tip, fresh))
<1>1. /\ Tip \in Nat /\ Tip + 1 = Len(headers) /\ DOMAIN index = Range(headers)
      /\ \A c \in DOMAIN index : index[c] = Rank(c)
  BY HeadersType
<1>2. PICK hs : hs = Joint(Tip, fresh)
  OBVIOUS
<1>3. /\ Positions(hs) = [c \in Range(hs) |-> Rank(c)]
      /\ \A c : c \in Range(hs) <=> \/ \E k \in 1..Tip + 1 : headers[k] = c
                                    \/ c \in Range(fresh)
  BY <1>2, GraftedPath
<1>4. \A c : c \in DOMAIN index <=> \E k \in 1..Tip + 1 : headers[k] = c
  <2>1. PICK b \in Blocks : headers = Path[b]
    BY DEF Chained
  <2> QED BY <1>1, <2>1, RangeOfPath
<1>5. Range(hs) = DOMAIN index \cup Range(fresh)
  BY <1>3, <1>4
<1>6. ASSUME NEW c \in Range(hs)
      PROVE  (IF c \in DOMAIN index THEN index[c]
              ELSE Tip + (CHOOSE i \in DOMAIN fresh : fresh[i] = c)) = Rank(c)
  <2>1. CASE c \in DOMAIN index
    BY <1>1, <2>1
  <2>2. CASE c \notin DOMAIN index
    <3>1. \E i \in DOMAIN fresh : fresh[i] = c
      BY <1>5, <1>6, <2>2 DEF Range
    <3>2. PICK i : i = CHOOSE k \in DOMAIN fresh : fresh[k] = c
      OBVIOUS
    <3>3. i \in DOMAIN fresh /\ fresh[i] = c
      BY <3>1, <3>2
    <3>4. Rank(c) = Tip + i
      BY <1>1, <3>3, FreshRank
    <3> QED BY <2>2, <3>2, <3>4
  <2> QED BY <2>1, <2>2
<1> QED BY <1>2, <1>3, <1>5, <1>6 DEF Pushed

(* A reorganization. *)
LEMMA ReplacedExact ==
  ASSUME Chained, NEW t \in Blocks, NEW base, NEW fresh, Grafted(t, base, fresh)
  PROVE  Replaced(base, fresh) = Positions(Joint(base, fresh))
<1>1. /\ Tip \in Nat /\ Tip + 1 = Len(headers) /\ DOMAIN index = Range(headers)
      /\ headers \in Seq(Blocks)
      /\ \A c \in DOMAIN index : index[c] = Rank(c)
  BY HeadersType
<1>2. base \in Nat /\ base <= Tip
  BY <1>1 DEF Grafted
<1>3. PICK hs : hs = Joint(base, fresh)
  OBVIOUS
<1>4. /\ Positions(hs) = [c \in Range(hs) |-> Rank(c)]
      /\ \A c : c \in Range(hs) <=> \/ \E k \in 1..base + 1 : headers[k] = c
                                    \/ c \in Range(fresh)
  BY <1>3, GraftedPath
<1>5. \A c : c \in DOMAIN index <=> \E k \in 1..Tip + 1 : headers[k] = c
  <2>1. PICK b \in Blocks : headers = Path[b]
    BY DEF Chained
  <2> QED BY <1>1, <2>1, RangeOfPath
<1>6. PICK held : held = Held(base)
  OBVIOUS
<1>7. \A c : c \in Range(held) <=> \E k \in base + 2..Tip + 1 : headers[k] = c
  <2>1. PICK n \in Nat : n = Tip - base
    <3>1. Tip - base \in Nat
      BY <1>1, <1>2
    <3> QED BY <3>1
  <2>2. PICK a \in Nat \ {0} : a = base + 2
    BY <1>2
  <2>3. PICK z : z = a + n - 1
    OBVIOUS
  <2>4. z = Len(headers) /\ a + n - 1 <= Len(headers)
    BY <1>1, <1>2, <2>1, <2>2, <2>3
  <2>5. held = SubSeq(headers, a, z)
    BY <1>6, <2>2, <2>4 DEF Held
  <2>6. held \in Seq(Blocks) /\ Len(held) = n /\ \A i \in 1..n : held[i] = headers[a + i - 1]
    BY <1>1, <2>3, <2>4, <2>5, Slice
  <2>7. DOMAIN held = 1..n
    BY <2>6
  <2>8. \A i \in 1..n : a + i - 1 \in base + 2..Tip + 1
    BY <1>1, <1>2, <2>1, <2>2
  <2>9. ASSUME NEW k \in base + 2..Tip + 1 PROVE \E i \in 1..n : held[i] = headers[k]
    <3>1. k - a + 1 \in 1..n /\ a + (k - a + 1) - 1 = k
      BY <1>1, <1>2, <2>1, <2>2
    <3> QED BY <2>6, <3>1
  <2> TAKE c
  <2>10. ASSUME c \in Range(held) PROVE \E k \in base + 2..Tip + 1 : headers[k] = c
    <3>1. PICK i \in 1..n : held[i] = c
      BY <2>7, <2>10 DEF Range
    <3> QED BY <2>6, <2>8, <3>1
  <2>11. ASSUME NEW k \in base + 2..Tip + 1, headers[k] = c PROVE c \in Range(held)
    <3>1. PICK i \in 1..n : held[i] = headers[k]
      BY <2>9
    <3> QED BY <2>7, <2>11, <3>1 DEF Range
  <2> QED BY <2>10, <2>11
<1>8. ASSUME NEW c
      PROVE  c \in DOMAIN index \ Range(held) <=> \E k \in 1..base + 1 : headers[k] = c
  <2>1. ASSUME c \in DOMAIN index \ Range(held)
        PROVE  \E k \in 1..base + 1 : headers[k] = c
    <3>1. PICK k \in 1..Tip + 1 : headers[k] = c
      BY <1>5, <2>1
    <3>2. k \notin base + 2..Tip + 1
      BY <1>7, <2>1, <3>1
    <3>3. k \in 1..base + 1
      BY <1>1, <1>2, <3>2
    <3> QED BY <3>1, <3>3
  <2>2. ASSUME NEW k \in 1..base + 1, headers[k] = c
        PROVE  c \in DOMAIN index \ Range(held)
    <3>1. k \in 1..Tip + 1
      BY <1>1, <1>2
    <3>2. Rank(c) = k - 1
      BY <1>1, <2>2, <3>1, HeldRank
    <3>3. ASSUME NEW j \in base + 2..Tip + 1, headers[j] = c PROVE FALSE
      <4>1. j \in 1..Len(headers)
        BY <1>1, <1>2, <3>3
      <4>2. Rank(c) = j - 1
        BY <3>3, <4>1, HeldRank
      <4> QED BY <1>2, <3>2, <4>2
    <3> QED BY <1>5, <1>7, <2>2, <3>1, <3>3
  <2> QED BY <2>1, <2>2
<1>9. PICK kept : kept = Restrict(index, DOMAIN index \ Range(held))
  OBVIOUS
<1>10. DOMAIN kept = DOMAIN index \ Range(held) /\ \A c \in DOMAIN kept : kept[c] = Rank(c)
  BY <1>1, <1>9 DEF Restrict
<1>11. Range(hs) = DOMAIN kept \cup Range(fresh)
  BY <1>4, <1>8, <1>10
<1>12. ASSUME NEW c \in Range(hs)
       PROVE  (IF c \in Range(fresh) THEN base + (CHOOSE i \in DOMAIN fresh : fresh[i] = c)
               ELSE kept[c]) = Rank(c)
  <2>1. CASE c \notin Range(fresh)
    BY <1>10, <1>11, <1>12, <2>1
  <2>2. CASE c \in Range(fresh)
    <3>1. \E i \in DOMAIN fresh : fresh[i] = c
      BY <2>2 DEF Range
    <3>2. PICK i : i = CHOOSE k \in DOMAIN fresh : fresh[k] = c
      OBVIOUS
    <3>3. i \in DOMAIN fresh /\ fresh[i] = c
      BY <3>1, <3>2
    <3>4. Rank(c) = base + i
      BY <1>1, <3>3, FreshRank
    <3> QED BY <2>2, <3>2, <3>4
  <2> QED BY <2>1, <2>2
<1> QED BY <1>3, <1>4, <1>6, <1>9, <1>11, <1>12 DEF Replaced

(* The headers pushed before one that is rejected are taken out again. *)
LEMMA AcceptedType ==
  ASSUME NEW fresh \in Seq(Blocks)
  PROVE  Accepted(fresh) \in Int /\ Accepted(fresh) <= Len(fresh)
<1>1. PICK I : I = {i \in 1..Len(fresh) : Verdict[fresh[i]] # "ok"}
  OBVIOUS
<1>2. Accepted(fresh) = (IF I # {} THEN Min(I) ELSE 0) - 1
  BY <1>1 DEF Accepted, SelectInSeq
<1>3. I \in SUBSET Nat /\ Len(fresh) \in Nat
  BY <1>1
<1>4. CASE I = {}
  BY <1>2, <1>3, <1>4
<1>5. CASE I # {}
  <2>1. Min(I) \in 1..Len(fresh)
    BY <1>1, <1>3, <1>5, MinIn
  <2> QED BY <1>2, <1>3, <1>5, <2>1
<1> QED BY <1>4, <1>5

LEMMA RejectedExact ==
  ASSUME Chained, NEW t \in Blocks, NEW fresh, Grafted(t, Tip, fresh)
  PROVE  Rejected(fresh) = index
<1>1. /\ Tip \in Nat /\ Tip + 1 = Len(headers) /\ DOMAIN index = Range(headers)
      /\ \A c \in DOMAIN index : index[c] = Rank(c)
  BY HeadersType
<1>2. fresh \in Seq(Blocks)
  BY DEF Grafted
<1>3. PICK a \in Int : a = Accepted(fresh)
  BY <1>2, AcceptedType
<1>4. PICK pushed : pushed = SubSeq(fresh, 1, a)
  OBVIOUS
<1>5. Range(pushed) \subseteq Range(fresh)
  <2>1. CASE a <= 0
    <3>1. \A k \in 1 .. a : fresh[k] \in Blocks
      BY <2>1
    <3>2. Len(pushed) = 0 /\ pushed \in Seq(Blocks)
      BY <1>2, <1>3, <1>4, <2>1, SubSeqProperties
    <3>3. DOMAIN pushed = {}
      BY <3>2
    <3> QED BY <3>3 DEF Range
  <2>2. CASE ~(a <= 0)
    <3>1. PICK n \in Nat : n = a
      BY <2>2
    <3>2. PICK o \in Nat \ {0} : o = 1
      OBVIOUS
    <3>3. o + n - 1 = n /\ o + n - 1 <= Len(fresh) /\ \A i \in 1..n : o + i - 1 = i
      BY <1>2, <1>3, <3>1, <3>2, AcceptedType
    <3>4. PICK z : z = o + n - 1
      OBVIOUS
    <3>5. /\ SubSeq(fresh, o, z) \in Seq(Blocks) /\ Len(SubSeq(fresh, o, z)) = n
          /\ \A i \in 1..n : SubSeq(fresh, o, z)[i] = fresh[o + i - 1]
      BY <1>2, <3>3, <3>4, Slice
    <3>6. pushed \in Seq(Blocks) /\ Len(pushed) = n /\ \A i \in 1..n : pushed[i] = fresh[i]
      BY <1>4, <3>1, <3>2, <3>3, <3>4, <3>5
    <3>7. DOMAIN pushed = 1..n /\ DOMAIN fresh = 1..Len(fresh) /\ n <= Len(fresh)
      BY <1>2, <3>3, <3>6
    <3>8. \A i \in 1..n : i \in DOMAIN fresh
      BY <1>2, <3>7
    <3> QED BY <3>6, <3>7, <3>8 DEF Range
  <2> QED BY <2>1, <2>2
<1>6. ASSUME NEW c \in DOMAIN index, c \in Range(pushed) PROVE FALSE
  <2>1. PICK i \in DOMAIN fresh : fresh[i] = c
    BY <1>5, <1>6 DEF Range
  <2>2. Rank(c) = Tip + i /\ i \in 1..Len(fresh)
    BY <1>1, <2>1, FreshRank
  <2>3. PICK k \in 1..Len(headers) : headers[k] = c
    <3>1. PICK b \in Blocks : headers = Path[b]
      BY DEF Chained
    <3> QED BY <1>1, <3>1, RangeOfPath
  <2>4. Rank(c) = k - 1
    BY <2>3, HeldRank
  <2> QED BY <1>1, <1>2, <2>2, <2>3, <2>4
<1>7. PICK g : g = Pushed(pushed)
  OBVIOUS
<1>8. DOMAIN g = DOMAIN index \cup Range(pushed) /\ \A c \in DOMAIN index : g[c] = index[c]
  BY <1>7 DEF Pushed
<1>9. DOMAIN g \ Range(pushed) = DOMAIN index
  BY <1>6, <1>8
<1>10. Rejected(fresh) = [c \in DOMAIN index |-> g[c]]
  BY <1>3, <1>4, <1>7, <1>9 DEF Rejected, Restrict
<1>11. \E S : index = [c \in S |-> Rank(c)]
  <2>1. PICK b \in Blocks : headers = Path[b]
    BY DEF Chained
  <2> QED BY <2>1, PathPositions DEF Chained
<1> QED BY <1>8, <1>10, <1>11

-----------------------------------------------------------------------------
(* The header chain. *)

ChainInv ==
    /\ Chained
    /\ net \in Blocks
    /\ disk \notin {<<>>, Foreign} => \E b \in Blocks : disk = Path[b]

(* The steps that leave the chain of headers and the network alone. *)
Aside ==
    \/ Settle \/ Idle \/ ServeRefresh \/ ServeBlock \/ RoundStart \/ RoundEnd
    \/ \E p \in Peers : HeadersIgnored(p) \/ HeadersFail(p) \/ Connect(p)
    \/ Attempt \/ GiveUp \/ AwaitLacking \/ AwaitBlock \/ AwaitFails \/ Refill
    \/ \E c \in Callers : \/ CallRefresh(c) \/ CallEnds(c)
                          \/ \E h \in Wanted : CallBlock(c, h)

LEMMA AsideUnchanged == Aside => UNCHANGED <<headers, index, disk, net>>
  BY DEF Aside, chainVars, Settle, Idle, ServeRefresh, ServeBlock, RoundStart, RoundEnd,
         HeadersIgnored, HeadersFail, Connect, Attempt, GiveUp, AwaitLacking, AwaitBlock,
         AwaitFails, Refill, CallRefresh, CallEnds, CallBlock

LEMMA NextCases ==
  ASSUME Next
  PROVE  \/ Aside \/ Open \/ Crash \/ NetMoves
         \/ \E p \in Peers : HeadersTaken(p) \/ HeadersRefused(p)
  BY DEF Next, Worker, Aside

LEMMA AnchorChained == \E b \in Blocks : <<Anchor>> = Path[b]
  BY Tree

LEMMA ChainInit == Init => ChainInv
<1> SUFFICES ASSUME Init PROVE ChainInv
  OBVIOUS
<1>1. headers = <<Anchor>> /\ index = Positions(headers) /\ disk \in {<<>>, Foreign} /\ net \in Tips
  BY DEF Init
<1> QED BY <1>1, AnchorChained, Tree DEF ChainInv, Chained

LEMMA Batch ==
  ASSUME ChainInv, NEW p, NEW batch \in Answer(p), Extension(batch) \notin {"ignored", "missing"}
  PROVE  \E t \in Blocks : Grafted(t, Base(batch), Fresh(batch))
<1>1. batch # <<>> /\ Parent[batch[1]] \in DOMAIN index
  BY DEF Extension
<1>2. Run(batch)
  BY HeadersType, AnswersRun DEF ChainInv
<1> QED BY <1>1, <1>2, BatchGrafts DEF ChainInv

LEMMA ChainTaken ==
  ASSUME ChainInv, NEW p, HeadersTaken(p)
  PROVE  ChainInv'
<1>1. PICK batch \in Answer(p) :
         /\ Extension(batch) \in {"appended", "reorganized"}
         /\ headers' = SubSeq(headers, 1, Base(batch) + 1) \o Fresh(batch)
         /\ index' = IF Extension(batch) = "appended" THEN Pushed(Fresh(batch))
                     ELSE Replaced(Base(batch), Fresh(batch))
         /\ disk' \in {disk, headers'}
  BY DEF HeadersTaken
<1>2. PICK fresh : fresh = Fresh(batch)
  OBVIOUS
<1>3. PICK base : base = Base(batch)
  OBVIOUS
<1>4. PICK t \in Blocks : Grafted(t, base, fresh)
  BY <1>1, <1>2, <1>3, Batch
<1>5. PICK hs : hs = Joint(base, fresh)
  OBVIOUS
<1>6. headers' = hs /\ \E u \in Blocks : hs = Path[u]
  <2>1. headers' = hs
    BY <1>1, <1>2, <1>3, <1>5 DEF Joint
  <2>2. Chained
    BY DEF ChainInv
  <2>3. \E u \in Blocks : Joint(base, fresh) = Path[u]
    BY <1>4, <2>2, GraftedPath
  <2> QED BY <1>5, <2>1, <2>3
<1>7. index' = Positions(hs)
  <2>1. CASE Extension(batch) = "appended"
    <3>1. base = Tip
      BY <1>1, <1>3, <2>1 DEF Extension
    <3> QED BY <1>1, <1>2, <1>4, <1>5, <2>1, <3>1, PushedExact DEF ChainInv
  <2>2. CASE Extension(batch) # "appended"
    BY <1>1, <1>2, <1>3, <1>4, <1>5, <2>2, ReplacedExact DEF ChainInv
  <2> QED BY <2>1, <2>2
<1>8. net' = net
  BY DEF HeadersTaken
<1>9. Chained'
  BY <1>6, <1>7 DEF Chained, Positions
<1>10. disk' \notin {<<>>, Foreign} => \E b \in Blocks : disk' = Path[b]
  BY <1>1, <1>6 DEF ChainInv
<1> QED BY <1>8, <1>9, <1>10 DEF ChainInv

LEMMA ChainRefused ==
  ASSUME ChainInv, NEW p, HeadersRefused(p)
  PROVE  ChainInv'
<1>1. PICK batch \in Answer(p) :
         /\ Extension(batch) \in {"missing", "invalid", "context"}
         /\ index' = IF Extension(batch) # "missing" /\ Base(batch) = Tip
                        /\ \A i \in DOMAIN Fresh(batch) : Verdict[Fresh(batch)[i]] # "pow"
                        /\ Len(headers) + Len(Fresh(batch)) <= HeaderMax
                     THEN Rejected(Fresh(batch)) ELSE index
  BY DEF HeadersRefused
<1>2. UNCHANGED <<headers, disk, net>>
  BY DEF HeadersRefused
<1>3. index' = index
  <2>1. CASE index' # index
    <3>1. Extension(batch) \notin {"ignored", "missing"} /\ Base(batch) = Tip
          /\ index' = Rejected(Fresh(batch))
      BY <1>1, <2>1
    <3>2. PICK t \in Blocks : Grafted(t, Tip, Fresh(batch))
      BY <1>1, <3>1, Batch
    <3> QED BY <3>1, <3>2, RejectedExact DEF ChainInv
  <2> QED BY <2>1
<1> QED BY <1>2, <1>3 DEF ChainInv, Chained, Positions

LEMMA ChainNext ==
  ASSUME ChainInv, [Next]_vars
  PROVE  ChainInv'
<1>1. CASE UNCHANGED <<headers, index, disk, net>>
  BY <1>1 DEF ChainInv, Chained, Positions
<1>2. CASE UNCHANGED vars
  BY <1>1, <1>2 DEF vars, chainVars
<1>3. CASE Aside
  BY <1>1, <1>3, AsideUnchanged
<1>4. CASE Open
  <2>1. net' = net
    BY <1>4 DEF Open
  <2>2. CASE Loads
    <3>1. headers' = disk /\ index' = Positions(disk) /\ disk' = disk
      BY <1>4, <2>2 DEF Open, Restore
    <3>2. Chained'
      BY <2>2, <3>1 DEF Chained, Positions, ChainInv, Loads
    <3> QED BY <2>1, <3>1, <3>2 DEF ChainInv
  <2>3. CASE ~Loads
    <3>1. headers' = <<Anchor>> /\ index' = Positions(<<Anchor>>) /\ disk' = <<>>
      BY <1>4, <2>3 DEF Open, Restore
    <3>2. Chained'
      BY <3>1, AnchorChained DEF Chained, Positions
    <3> QED BY <2>1, <3>1, <3>2 DEF ChainInv
  <2> QED BY <2>2, <2>3
<1>5. CASE Crash
  <2>1. headers' = <<Anchor>> /\ index' = Positions(<<Anchor>>) /\ UNCHANGED <<disk, net>>
    BY <1>5 DEF Crash
  <2>2. Chained'
    BY <2>1, AnchorChained DEF Chained, Positions
  <2> QED BY <2>1, <2>2 DEF ChainInv
<1>6. CASE NetMoves
  <2>1. net' \in Tips /\ UNCHANGED <<headers, index, disk>>
    BY <1>6 DEF NetMoves, chainVars
  <2> QED BY <2>1, Tree DEF ChainInv, Chained, Positions
<1>7. ASSUME NEW p \in Peers, HeadersTaken(p) \/ HeadersRefused(p) PROVE ChainInv'
  BY <1>7, ChainTaken, ChainRefused
<1> QED BY <1>2, <1>3, <1>4, <1>5, <1>6, <1>7, NextCases

(* The map from hash to offset lists exactly the headers held, whatever     *)
(* batches the peers send and wherever one of them is rejected, after every *)
(* reorganization and every restart (HeaderChain::extend, append, load).    *)
THEOREM HeaderIndexExact == Spec => []IndexExact
<1>1. Init => ChainInv
  BY ChainInit
<1>2. ChainInv /\ [Next]_vars => ChainInv'
  BY ChainNext
<1>3. ChainInv => IndexExact
  BY DEF ChainInv, Chained, IndexExact
<1> QED BY <1>1, <1>2, <1>3, PTL DEF Spec

-----------------------------------------------------------------------------
(* Requests in flight. *)

OneHolder == \A e, f \in flight : e.hash = f.hash => e = f

ReqInv ==
    /\ DOMAIN requested = Peers /\ conn \subseteq Peers
    /\ \A p \in Peers \ conn : requested[p] = {}
    /\ OneHolder
    /\ \A p \in Peers : \A b \in requested[p] : Expected(p, b)

LEMMA ReqInit == Init => ReqInv
  BY DEF Init, ReqInv, OneHolder

LEMMA ReqUnchanged ==
  ASSUME ReqInv, UNCHANGED <<conn, requested, flight>>
  PROVE  ReqInv'
  BY DEF ReqInv, OneHolder, Expected

(* drop_peer and ban_peer, with or without the requests in flight to it. *)
LEMMA DisconnectReq ==
  ASSUME ReqInv, NEW p, Disconnect({p}), flight' \in {flight, ForgetPeer(flight, p)}
  PROVE  ReqInv'
<1>1. /\ conn' = conn \ {p} /\ DOMAIN requested' = Peers
      /\ \A q \in Peers : requested'[q] = IF q \in {p} THEN {} ELSE requested[q]
  BY DEF Disconnect
<1>2. flight' \subseteq flight /\ \A e \in flight : e.peer # p => e \in flight'
  BY DEF ForgetPeer
<1>3. \A q \in Peers \ conn' : requested'[q] = {}
  BY <1>1 DEF ReqInv
<1>4. OneHolder'
  BY <1>2 DEF ReqInv, OneHolder
<1>5. \A q \in Peers : \A b \in requested'[q] : Expected(q, b)'
  BY <1>1, <1>2 DEF ReqInv, Expected
<1> QED BY <1>1, <1>3, <1>4, <1>5 DEF ReqInv

LEMMA ConnectReq ==
  ASSUME ReqInv, NEW p \in Peers, Connect(p)
  PROVE  ReqInv'
  BY DEF ReqInv, OneHolder, Expected, Connect

LEMMA FillReq ==
  ASSUME ReqInv, NEW from, NEW shunned, Fill(from, shunned), conn' = conn
  PROVE  ReqInv'
<1>1. PICK a \in Assignments(Targets(from), shunned) :
        \E reached \in SUBSET Range(a) :
           AskBlocks(a, {p \in reached :
             Cardinality(requested[p]) + Cardinality(Rows(a, p)) <= PerPeer + 1})
  BY DEF Fill
<1>2. PICK asked \in SUBSET Range(a) : AskBlocks(a, asked)
  BY <1>1
<1>3. /\ requested' = [p \in Peers |-> requested[p] \cup (IF p \in asked THEN Rows(a, p) ELSE {})]
      /\ flight' = flight \cup UNION
           {{[peer |-> p, hash |-> b, height |-> index[b]] : b \in Rows(a, p)} : p \in asked}
  BY <1>2 DEF AskBlocks
<1>4. PICK some \in SUBSET Targets(from) : a \in [some -> conn \ shunned]
  BY <1>1 DEF Assignments
<1>5. \A b \in DOMAIN a : a[b] \in conn /\ \A e \in flight : e.hash # b
  BY <1>4 DEF Targets, Holders
<1>6. \A p \in asked : p \in conn
  BY <1>2, <1>3, <1>5 DEF Range
<1>7. \A e \in flight' : e \in flight \/ \E b \in DOMAIN a : e = [peer |-> a[b], hash |-> b, height |-> index[b]]
  BY <1>3 DEF Rows
<1>8. OneHolder'
  <2> SUFFICES ASSUME NEW e \in flight', NEW f \in flight', e.hash = f.hash PROVE e = f
    BY DEF OneHolder
  <2>1. CASE e \in flight /\ f \in flight
    BY <2>1 DEF ReqInv, OneHolder
  <2>2. CASE e \in flight /\ f \notin flight
    BY <1>5, <1>7, <2>2
  <2>3. CASE e \notin flight /\ f \in flight
    BY <1>5, <1>7, <2>3
  <2>4. CASE e \notin flight /\ f \notin flight
    BY <1>7, <2>4
  <2> QED BY <2>1, <2>2, <2>3, <2>4
<1>9. ASSUME NEW p \in Peers, NEW b \in requested'[p] PROVE Expected(p, b)'
  <2>1. CASE b \in requested[p]
    <3>1. PICK e \in flight : e.peer = p /\ e.hash = b
      BY <2>1 DEF ReqInv, Expected
    <3>2. e \in flight'
      BY <1>3, <3>1
    <3> QED BY <3>1, <3>2 DEF Expected
  <2>2. CASE b \notin requested[p]
    <3>1. p \in asked /\ b \in Rows(a, p)
      BY <1>3, <1>9, <2>2
    <3>2. PICK e : e = [peer |-> p, hash |-> b, height |-> index[b]]
      OBVIOUS
    <3>3. e \in flight' /\ e.peer = p /\ e.hash = b
      BY <1>3, <3>1, <3>2
    <3> QED BY <3>3 DEF Expected
  <2> QED BY <2>1, <2>2
<1>10. \A p \in Peers \ conn' : requested'[p] = {}
  BY <1>3, <1>6 DEF ReqInv
<1>11. DOMAIN requested' = Peers
  BY <1>3
<1> QED BY <1>8, <1>9, <1>10, <1>11 DEF ReqInv

(* pipeline::settle: of a block still owed nothing was read, and nobody     *)
(* else sent it, so its request is still in flight.                         *)
LEMMA SettleReq ==
  ASSUME ReqInv, Settle
  PROVE  ReqInv'
<1>1. PICK gone \in SUBSET conn : \E r \in Reads(gone) : \E failed : Settled(r, gone, failed)
  BY DEF Settle
<1>2. PICK r \in Reads(gone) : \E failed : Settled(r, gone, failed)
  BY <1>1
<1>3. PICK failed : Settled(r, gone, failed)
  BY <1>2
<1>4. /\ flight' = {e \in Unsettled(r) : e.peer \notin failed}
      /\ conn' = conn \ (gone \cup failed)
      /\ requested' = [p \in Peers |->
           IF p \in gone \cup failed \/ p \notin conn THEN {}
           ELSE {b \in requested[p] : r[<<p, b>>] = "nothing"}]
  BY <1>3 DEF Settled
<1>5. DOMAIN r = Owed(gone)
  BY DEF Reads
<1>6. OneHolder'
  BY <1>4 DEF ReqInv, OneHolder, Unsettled
<1>7. ASSUME NEW p \in Peers, NEW b \in requested'[p] PROVE Expected(p, b)'
  <2>1. p \in conn \ gone /\ p \notin failed /\ b \in requested[p] /\ r[<<p, b>>] = "nothing"
    BY <1>4, <1>2, <1>7
  <2>2. PICK e \in flight : e.peer = p /\ e.hash = b
    BY <2>1 DEF ReqInv, Expected
  <2>3. <<p, b>> \notin ReadAs(r, "lacking") /\ <<p, b>> \notin ReadAs(r, "bad")
    BY <2>1 DEF ReadAs
  <2>4. ASSUME NEW x \in Taken(r), x[2] = b PROVE FALSE
    <3>1. x \in DOMAIN r /\ r[x] = "block" /\ Expected(x[1], x[2])
      BY <2>4 DEF Taken, ReadAs
    <3>2. PICK f \in flight : f.peer = x[1] /\ f.hash = x[2]
      BY <3>1 DEF Expected
    <3>3. f = e
      BY <2>2, <2>4, <3>2 DEF ReqInv, OneHolder
    <3>4. PICK q, c : x = <<q, c>>
      BY <1>5, <3>1 DEF Owed
    <3>5. x = <<p, b>>
      BY <2>2, <2>4, <3>2, <3>3, <3>4
    <3> QED BY <2>1, <3>1, <3>5
  <2>5. e \in Unsettled(r)
    BY <2>2, <2>3, <2>4 DEF Unsettled
  <2>6. e \in flight'
    BY <1>4, <1>2, <2>1, <2>2, <2>5
  <2> QED BY <2>2, <2>6 DEF Expected
<1>8. DOMAIN requested' = Peers /\ conn' \subseteq Peers
  BY <1>4 DEF ReqInv
<1>9. \A p \in Peers \ conn' : requested'[p] = {}
  BY <1>4
<1> QED BY <1>6, <1>7, <1>8, <1>9 DEF ReqInv

(* fetch_block waits for the peer that owes the block. *)
LEMMA HolderOwes ==
  ASSUME ReqInv, NEW q \in Peers, serving.hash \in requested[q]
  PROVE  Holder = q
<1>1. PICK e \in flight : e.peer = q /\ e.hash = serving.hash
  BY DEF ReqInv, Expected
<1>2. q \in Holders(flight, serving.hash)
  BY <1>1 DEF Holders
<1>3. \A p \in Holders(flight, serving.hash) : p = q
  BY <1>1 DEF Holders, ReqInv, OneHolder
<1> QED BY <1>2, <1>3 DEF Holder

LEMMA AwaitReq ==
  ASSUME ReqInv, conn' = conn, flight' = Forget(flight, serving.hash),
         requested' = [requested EXCEPT ![Holder] = @ \ {serving.hash}]
  PROVE  ReqInv'
<1>1. PICK p : p = Holder
  OBVIOUS
<1>2. PICK b : b = serving.hash
  OBVIOUS
<1>3. /\ DOMAIN requested' = Peers
      /\ \A q \in Peers : requested'[q] = IF q = p THEN requested[q] \ {b} ELSE requested[q]
  BY <1>1, <1>2 DEF ReqInv
<1>4. \A q \in Peers : b \notin requested'[q]
  BY <1>1, <1>2, <1>3, HolderOwes
<1>5. flight' = {e \in flight : e.hash # b}
  BY <1>2 DEF Forget
<1>6. ASSUME NEW q \in Peers, NEW c \in requested'[q] PROVE Expected(q, c)'
  <2>1. c \in requested[q] /\ c # b
    BY <1>3, <1>4, <1>6
  <2>2. PICK e \in flight : e.peer = q /\ e.hash = c
    BY <2>1 DEF ReqInv, Expected
  <2> QED BY <1>5, <2>1, <2>2 DEF Expected
<1>7. OneHolder'
  BY <1>5 DEF ReqInv, OneHolder
<1>8. \A q \in Peers \ conn' : requested'[q] = {}
  BY <1>3 DEF ReqInv
<1> QED BY <1>3, <1>6, <1>7, <1>8 DEF ReqInv

LEMMA ReqNext ==
  ASSUME ReqInv, [Next]_vars
  PROVE  ReqInv'
<1>1. CASE UNCHANGED vars \/ Idle \/ ServeRefresh \/ ServeBlock \/ RoundStart \/ RoundEnd
           \/ GiveUp \/ Open \/ NetMoves
  <2>1. UNCHANGED <<conn, requested, flight>>
    BY <1>1 DEF vars, peerVars, Idle, ServeRefresh, ServeBlock, RoundStart, RoundEnd, GiveUp,
                Open, NetMoves
  <2> QED BY <2>1, ReqUnchanged
<1>2. ASSUME NEW c \in Callers, CallRefresh(c) \/ CallEnds(c) \/ \E h \in Wanted : CallBlock(c, h)
      PROVE  ReqInv'
  <2>1. UNCHANGED <<conn, requested, flight>>
    BY <1>2 DEF peerVars, CallRefresh, CallEnds, CallBlock
  <2> QED BY <2>1, ReqUnchanged
<1>3. ASSUME NEW p \in Peers, HeadersIgnored(p) PROVE ReqInv'
  <2>1. UNCHANGED <<conn, requested, flight>>
    BY <1>3 DEF peerVars, HeadersIgnored
  <2> QED BY <2>1, ReqUnchanged
<1>4. ASSUME NEW p \in Peers, HeadersTaken(p) \/ HeadersRefused(p) \/ HeadersFail(p) PROVE ReqInv'
  <2>1. flight' = flight /\ (Disconnect({p}) \/ UNCHANGED <<conn, requested>>)
    BY <1>4 DEF HeadersTaken, HeadersRefused, HeadersFail
  <2> QED BY <2>1, ReqUnchanged, DisconnectReq
<1>5. CASE Settle
  BY <1>5, SettleReq
<1>6. ASSUME NEW p \in Peers, Connect(p) PROVE ReqInv'
  BY <1>6, ConnectReq
<1>7. CASE Attempt
  <2>1. conn' = conn /\ (Fill(index[serving.hash], avoid) \/ UNCHANGED <<requested, flight>>)
    BY <1>7 DEF Attempt
  <2> QED BY <2>1, FillReq, ReqUnchanged
<1>8. CASE Refill
  <2>1. conn' = conn /\ Fill(index[serving.hash] + 1, avoid)
    BY <1>8 DEF Refill
  <2> QED BY <2>1, FillReq
<1>9. CASE AwaitLacking \/ AwaitBlock
  BY <1>9, AwaitReq DEF AwaitLacking, AwaitBlock
<1>10. CASE AwaitFails
  BY <1>10, DisconnectReq DEF AwaitFails
<1>11. CASE Crash
  <2>1. flight' = {} /\ conn' = {} /\ requested' = [p \in Peers |-> {}]
    BY <1>11 DEF Crash, MemoryLost
  <2> QED BY <2>1 DEF ReqInv, OneHolder
<1> QED BY <1>1, <1>2, <1>3, <1>4, <1>5, <1>6, <1>7, <1>8, <1>9, <1>10, <1>11 DEF Next, Worker

(* A block is asked of one peer at a time, and what a connected peer still  *)
(* owes is in flight, through every interleaving of prefetches, answers,    *)
(* broken connections, bans and reconnections: no answer of a peer that was *)
(* asked is thrown away as unrequested (pipeline::fill, settle,             *)
(* fetch_block).                                                            *)
THEOREM RequestsAreTracked == Spec => []RequestsTracked
<1>1. Init => ReqInv
  BY ReqInit
<1>2. ReqInv /\ [Next]_vars => ReqInv'
  BY ReqNext
<1>3. ReqInv => RequestsTracked
  BY DEF ReqInv, OneHolder, RequestsTracked
<1> QED BY <1>1, <1>2, <1>3, PTL DEF Spec
-----------------------------------------------------------------------------
(* The work of a chain. *)

(* g[n] is the work of the first n headers of s. *)
Sums(g, s) ==
    /\ g \in [0..Len(s) -> Nat] /\ g[0] = 0
    /\ \A n \in 1..Len(s) : g[n] = g[n - 1] + Work[s[n]]

(* The same for the first m of them. *)
SumsTo(g, s, m) ==
    /\ g \in [0..m -> Nat] /\ g[0] = 0
    /\ \A n \in 1..m : g[n] = g[n - 1] + Work[s[n]]

LEMMA SumsExtend ==
  ASSUME NEW s \in Seq(Blocks), NEW m \in Nat, m + 1 <= Len(s), NEW g, SumsTo(g, s, m)
  PROVE  \E h : SumsTo(h, s, m + 1)
<1>1. PICK w \in Nat : w = Work[s[m + 1]]
  <2>1. m + 1 \in 1..Len(s)
    OBVIOUS
  <2>2. s[m + 1] \in Blocks
    BY <2>1
  <2> QED BY <2>2, Tree
<1>2. PICK v \in Nat : v = g[m]
  BY DEF SumsTo
<1>3. PICK h : h = [n \in 0..(m + 1) |-> IF n = m + 1 THEN v + w ELSE g[n]]
  OBVIOUS
<1>4. \A n \in 0..m : h[n] = g[n] /\ g[n] \in Nat
  BY <1>3 DEF SumsTo
<1>5. h[m + 1] = v + w
  BY <1>3
<1>6. h \in [0..(m + 1) -> Nat]
  <2>1. \A n \in 0..(m + 1) : n \in 0..m \/ n = m + 1
    OBVIOUS
  <2>2. \A n \in 0..(m + 1) : h[n] \in Nat
    BY <1>4, <1>5, <2>1
  <2>3. DOMAIN h = 0..(m + 1) /\ h = [n \in DOMAIN h |-> h[n]]
    BY <1>3
  <2> QED BY <2>2, <2>3
<1>7. ASSUME NEW n \in 1..(m + 1) PROVE h[n] = h[n - 1] + Work[s[n]]
  <2>1. CASE n = m + 1
    BY <1>1, <1>2, <1>4, <1>5, <2>1
  <2>2. CASE n # m + 1
    <3>1. n \in 1..m /\ n \in 0..m /\ n - 1 \in 0..m
      BY <2>2
    <3> QED BY <1>4, <3>1 DEF SumsTo
  <2> QED BY <2>1, <2>2
<1>8. h[0] = 0
  BY <1>4 DEF SumsTo
<1> QED BY <1>6, <1>7, <1>8 DEF SumsTo

LEMMA SumsExist ==
  ASSUME NEW s \in Seq(Blocks)
  PROVE  \E g : Sums(g, s)
<1>1. PICK S : S = {m \in Nat : m <= Len(s) => \E g : SumsTo(g, s, m)}
  OBVIOUS
<1>2. 0 \in S
  <2>1. PICK g : g = [n \in 0..0 |-> 0]
    OBVIOUS
  <2>2. SumsTo(g, s, 0)
    BY <2>1 DEF SumsTo
  <2> QED BY <1>1, <2>2
<1>3. ASSUME NEW m \in Nat, m \in S PROVE m + 1 \in S
  <2>1. CASE m + 1 <= Len(s)
    <3>1. PICK g : SumsTo(g, s, m)
      BY <1>1, <1>3, <2>1
    <3>2. \E h : SumsTo(h, s, m + 1)
      BY <2>1, <3>1, SumsExtend
    <3> QED BY <1>1, <3>2
  <2>2. CASE ~(m + 1 <= Len(s))
    BY <1>1, <2>2
  <2> QED BY <2>1, <2>2
<1>4. Len(s) \in S
  BY <1>2, <1>3, Inductive
<1>5. PICK g : SumsTo(g, s, Len(s))
  BY <1>1, <1>4
<1> QED BY <1>5 DEF Sums, SumsTo

(* Weight is the last of the sums. *)
LEMMA WeightSums ==
  ASSUME NEW s \in Seq(Blocks), NEW g, Sums(g, s)
  PROVE  Weight(s) = g[Len(s)]
<1>1. PICK N \in Nat : N = Len(s)
  OBVIOUS
<1> DEFINE Step(f) == [n \in 0..Len(s) |-> IF n = 0 THEN 0 ELSE f[n - 1] + Work[s[n]]]
           sum == CHOOSE f : f = Step(f)
<1>2. g = Step(g)
  BY DEF Sums
<1>3. sum = Step(sum)
  BY <1>2
<1>4. Weight(s) = sum[N]
  BY <1>1 DEF Weight
<1> HIDE DEF sum
<1>5. sum[0] = 0 /\ \A n \in 1..N : sum[n] = sum[n - 1] + Work[s[n]]
  BY <1>1, <1>3
<1>6. PICK S : S = {m \in Nat : m <= N => sum[m] = g[m]}
  OBVIOUS
<1>7. 0 \in S
  BY <1>5, <1>6 DEF Sums
<1>8. ASSUME NEW m \in Nat, m \in S PROVE m + 1 \in S
  <2>1. CASE m + 1 <= N
    <3>1. m + 1 \in 1..N /\ (m + 1) - 1 = m /\ m <= N
      BY <2>1
    <3>2. sum[m + 1] = sum[m] + Work[s[m + 1]] /\ g[m + 1] = g[m] + Work[s[m + 1]]
      BY <1>1, <1>5, <3>1 DEF Sums
    <3> QED BY <1>6, <1>8, <3>1, <3>2
  <2>2. CASE ~(m + 1 <= N)
    BY <1>6, <2>2
  <2> QED BY <2>1, <2>2
<1>9. N \in S
  BY <1>7, <1>8, Inductive
<1> QED BY <1>1, <1>4, <1>6, <1>9

LEMMA WeightNat ==
  ASSUME NEW s \in Seq(Blocks)
  PROVE  Weight(s) \in Nat /\ (s # <<>> => Weight(s) > 0)
<1>1. PICK N \in Nat : N = Len(s)
  OBVIOUS
<1>2. PICK g : Sums(g, s)
  BY SumsExist
<1>3. g \in [0..N -> Nat] /\ Weight(s) = g[N]
  BY <1>1, <1>2, WeightSums DEF Sums
<1>4. ASSUME s # <<>> PROVE g[N] > 0
  <2>1. N \in 1..N /\ N - 1 \in 0..N
    BY <1>1, <1>4
  <2>2. s[N] \in Blocks
    BY <1>1, <2>1
  <2>3. Work[s[N]] \in Nat \ {0}
    BY <2>2, Tree
  <2>4. g[N - 1] \in Nat
    BY <1>3, <2>1
  <2>5. g[N] = g[N - 1] + Work[s[N]]
    BY <1>1, <1>2, <2>1 DEF Sums
  <2> QED BY <2>3, <2>4, <2>5
<1> QED BY <1>3, <1>4

(* The work of a chain is that of its parts. *)
LEMMA WeightJoined ==
  ASSUME NEW s \in Seq(Blocks), NEW t \in Seq(Blocks)
  PROVE  Weight(s \o t) = Weight(s) + Weight(t)
<1>1. PICK u \in Seq(Blocks) : u = s \o t
  BY Joined
<1>2. PICK A \in Nat : A = Len(s)
  OBVIOUS
<1>3. PICK B \in Nat : B = Len(t)
  OBVIOUS
<1>4. /\ Len(u) = A + B
      /\ \A i \in 1..A : u[i] = s[i]
      /\ \A i \in 1..B : u[A + i] = t[i]
  BY <1>1, <1>2, <1>3, Joined
<1>5. PICK f : Sums(f, s)
  BY SumsExist
<1>6. PICK g : Sums(g, t)
  BY SumsExist
<1>7. PICK h : Sums(h, u)
  BY SumsExist
<1>8. /\ f[0] = 0 /\ \A n \in 1..A : f[n] = f[n - 1] + Work[s[n]]
      /\ g[0] = 0 /\ \A n \in 1..B : g[n] = g[n - 1] + Work[t[n]]
      /\ h[0] = 0 /\ \A n \in 1..(A + B) : h[n] = h[n - 1] + Work[u[n]]
      /\ f[A] \in Nat /\ \A n \in 0..B : g[n] \in Nat
  <2>1. f[0] = 0 /\ (\A n \in 1..A : f[n] = f[n - 1] + Work[s[n]]) /\ f \in [0..A -> Nat]
    BY <1>2, <1>5 DEF Sums
  <2>2. g[0] = 0 /\ (\A n \in 1..B : g[n] = g[n - 1] + Work[t[n]]) /\ g \in [0..B -> Nat]
    BY <1>3, <1>6 DEF Sums
  <2>3. h[0] = 0 /\ \A n \in 1..(A + B) : h[n] = h[n - 1] + Work[u[n]]
    BY <1>4, <1>7 DEF Sums
  <2>4. A \in 0..A
    OBVIOUS
  <2> QED BY <2>1, <2>2, <2>3, <2>4
<1>9. h[A] = f[A]
  <2>1. PICK S : S = {n \in Nat : n <= A => h[n] = f[n]}
    OBVIOUS
  <2>2. 0 \in S
    BY <1>8, <2>1
  <2>3. ASSUME NEW n \in Nat, n \in S PROVE n + 1 \in S
    <3>1. CASE n + 1 <= A
      <4>1. n + 1 \in 1..A /\ n + 1 \in 1..(A + B) /\ (n + 1) - 1 = n /\ n <= A
        BY <3>1
      <4>2. h[n + 1] = h[n] + Work[u[n + 1]] /\ f[n + 1] = f[n] + Work[s[n + 1]]
        BY <1>8, <4>1
      <4>3. u[n + 1] = s[n + 1] /\ h[n] = f[n]
        BY <1>4, <2>1, <2>3, <4>1
      <4> QED BY <2>1, <4>2, <4>3
    <3>2. CASE ~(n + 1 <= A)
      BY <2>1, <3>2
    <3> QED BY <3>1, <3>2
  <2>4. A \in S
    BY <2>2, <2>3, Inductive
  <2> QED BY <2>1, <2>4
<1>10. h[A + B] = f[A] + g[B]
  <2>1. PICK S : S = {n \in Nat : n <= B => h[A + n] = f[A] + g[n]}
    OBVIOUS
  <2>2. 0 \in S
    BY <1>8, <1>9, <2>1
  <2>3. ASSUME NEW n \in Nat, n \in S PROVE n + 1 \in S
    <3>1. CASE n + 1 <= B
      <4>1. /\ n + 1 \in 1..B /\ A + (n + 1) \in 1..(A + B) /\ (A + (n + 1)) - 1 = A + n
            /\ (n + 1) - 1 = n /\ n <= B /\ n \in 0..B
        BY <3>1
      <4>2. h[A + (n + 1)] = h[A + n] + Work[u[A + (n + 1)]] /\ g[n + 1] = g[n] + Work[t[n + 1]]
        BY <1>8, <4>1
      <4>3. u[A + (n + 1)] = t[n + 1] /\ h[A + n] = f[A] + g[n]
        BY <1>4, <2>1, <2>3, <4>1
      <4>4. t[n + 1] \in Blocks
        BY <1>3, <4>1
      <4>5. Work[t[n + 1]] \in Nat
        BY <4>4, Tree
      <4>6. h[A + (n + 1)] = f[A] + g[n + 1]
        <5>1. PICK x \in Nat, y \in Nat, z \in Nat : x = f[A] /\ y = g[n] /\ z = Work[t[n + 1]]
          BY <1>8, <4>1, <4>5
        <5>2. h[A + (n + 1)] = (x + y) + z /\ g[n + 1] = y + z
          BY <4>2, <4>3, <5>1
        <5>3. (x + y) + z = x + (y + z)
          OBVIOUS
        <5> QED BY <5>1, <5>2, <5>3
      <4> QED BY <2>1, <4>6
    <3>2. CASE ~(n + 1 <= B)
      BY <2>1, <3>2
    <3> QED BY <3>1, <3>2
  <2>4. B \in S
    BY <2>2, <2>3, Inductive
  <2> QED BY <2>1, <2>4
<1> QED BY <1>1, <1>2, <1>3, <1>4, <1>5, <1>6, <1>7, <1>10, WeightSums

(* A sequence is put together from its first m elements and the n others. *)
Parts(s, low, high, m, n) ==
    /\ Len(low) = m /\ Len(high) = n /\ Len(s) = m + n
    /\ \A i \in 1..m : low[i] = s[i]
    /\ \A i \in 1..n : high[i] = s[m + i]

LEMMA Glued ==
  ASSUME NEW s \in Seq(Blocks), NEW low \in Seq(Blocks), NEW high \in Seq(Blocks),
         NEW m \in Nat, NEW n \in Nat, Parts(s, low, high, m, n)
  PROVE  s = low \o high
<1>0. /\ Len(low) = m /\ Len(high) = n /\ Len(s) = m + n
      /\ \A i \in 1..m : low[i] = s[i]
      /\ \A i \in 1..n : high[i] = s[m + i]
  BY DEF Parts
<1>1. PICK u \in Seq(Blocks) : u = low \o high
  BY Joined
<1>2. /\ Len(u) = m + n
      /\ \A i \in 1..m : u[i] = low[i]
      /\ \A i \in 1..n : u[m + i] = high[i]
  <2>1. /\ Len(low \o high) = Len(low) + Len(high)
        /\ \A i \in 1..Len(low) : (low \o high)[i] = low[i]
        /\ \A i \in 1..Len(high) : (low \o high)[Len(low) + i] = high[i]
    BY Joined
  <2> QED BY <1>0, <1>1, <2>1
<1>3. ASSUME NEW i \in 1..(m + n) PROVE u[i] = s[i]
  <2>1. CASE i <= m
    <3>1. i \in 1..m
      BY <2>1
    <3> QED BY <1>0, <1>2, <3>1
  <2>2. CASE i > m
    <3>1. PICK k \in 1..n : i = m + k
      <4>1. i - m \in 1..n /\ i = m + (i - m)
        BY <2>2
      <4> QED BY <4>1
    <3> QED BY <1>0, <1>2, <3>1
  <2> QED BY <2>1, <2>2
<1>4. Len(u) = Len(s) /\ \A i \in 1..Len(u) : u[i] = s[i]
  BY <1>0, <1>2, <1>3
<1>5. u = s
  BY <1>4, SameSeq
<1> QED BY <1>1, <1>5

(* A chain is what it holds up to an offset and what it holds above it. *)
Low(base) == SubSeq(headers, 1, base + 1)

LEMMA Split ==
  ASSUME headers \in Seq(Blocks), NEW base \in Nat, base + 1 <= Len(headers)
  PROVE  /\ Low(base) \in Seq(Blocks) /\ Held(base) \in Seq(Blocks)
         /\ headers = Low(base) \o Held(base)
         /\ base + 1 = Len(headers) => Low(base) = headers
<1>1. PICK N \in Nat : N = Len(headers)
  OBVIOUS
<1>2. PICK m \in Nat : m = base + 1
  OBVIOUS
<1>3. PICK n \in Nat : n = N - m
  BY <1>1, <1>2
<1>4. /\ 1 + m - 1 = m /\ (m + 1) + n - 1 = N /\ m + 1 = base + 2 /\ m + 1 \in Nat \ {0} /\ m <= N
      /\ m + n = N
  BY <1>1, <1>2, <1>3
<1>5. /\ Low(base) \in Seq(Blocks) /\ Len(Low(base)) = m
      /\ \A i \in 1..m : Low(base)[i] = headers[i]
  <2>1. /\ SubSeq(headers, 1, 1 + m - 1) \in Seq(Blocks) /\ Len(SubSeq(headers, 1, 1 + m - 1)) = m
        /\ \A i \in 1..m : SubSeq(headers, 1, 1 + m - 1)[i] = headers[1 + i - 1]
    BY <1>1, <1>4, Slice
  <2>2. \A i \in 1..m : 1 + i - 1 = i
    OBVIOUS
  <2>3. SubSeq(headers, 1, 1 + m - 1) = Low(base)
    BY <1>2, <1>4 DEF Low
  <2> QED BY <2>1, <2>2, <2>3
<1>6. /\ Held(base) \in Seq(Blocks) /\ Len(Held(base)) = n
      /\ \A i \in 1..n : Held(base)[i] = headers[m + i]
  <2>1. /\ SubSeq(headers, m + 1, (m + 1) + n - 1) \in Seq(Blocks)
        /\ Len(SubSeq(headers, m + 1, (m + 1) + n - 1)) = n
        /\ \A i \in 1..n : SubSeq(headers, m + 1, (m + 1) + n - 1)[i] = headers[(m + 1) + i - 1]
    BY <1>1, <1>4, Slice
  <2>2. \A i \in 1..n : (m + 1) + i - 1 = m + i
    OBVIOUS
  <2>3. SubSeq(headers, m + 1, (m + 1) + n - 1) = Held(base)
    BY <1>1, <1>4 DEF Held
  <2> QED BY <2>1, <2>2, <2>3
<1>7. headers = Low(base) \o Held(base)
  <2>1. PICK low \in Seq(Blocks) : low = Low(base)
    BY <1>5
  <2>2. PICK high \in Seq(Blocks) : high = Held(base)
    BY <1>6
  <2>3. PICK s \in Seq(Blocks) : s = headers
    OBVIOUS
  <2>4. Len(low) = m /\ Len(high) = n /\ Len(s) = m + n
    BY <1>1, <1>4, <1>5, <1>6, <2>1, <2>2, <2>3
  <2>5. (\A i \in 1..m : low[i] = s[i]) /\ (\A i \in 1..n : high[i] = s[m + i])
    BY <1>5, <1>6, <2>1, <2>2, <2>3
  <2>6. Parts(s, low, high, m, n)
    BY <2>4, <2>5 DEF Parts
  <2>7. s = low \o high
    BY <2>6, Glued
  <2> QED BY <2>1, <2>2, <2>3, <2>7
<1>8. ASSUME base + 1 = Len(headers) PROVE Low(base) = headers
  <2>1. Len(Low(base)) = Len(headers) /\ \A i \in 1..Len(Low(base)) : Low(base)[i] = headers[i]
    BY <1>2, <1>5, <1>8
  <2> QED BY <1>5, <2>1, SameSeq
<1> QED BY <1>5, <1>6, <1>7, <1>8

(* What extend takes outweighs what was held. *)
LEMMA TakenOutweighs ==
  ASSUME ChainInv, NEW p, HeadersTaken(p)
  PROVE  Weight(headers') > Weight(headers) /\ disk' \in {disk, headers'}
<1>1. PICK batch \in Answer(p) :
         /\ Extension(batch) \in {"appended", "reorganized"}
         /\ headers' = Low(Base(batch)) \o Fresh(batch)
         /\ disk' \in {disk, headers'}
  BY DEF HeadersTaken, Low
<1>2. PICK t \in Blocks : Grafted(t, Base(batch), Fresh(batch))
  BY <1>1, Batch
<1>3. /\ headers \in Seq(Blocks) /\ Fresh(batch) \in Seq(Blocks)
      /\ Base(batch) \in Nat /\ Base(batch) + 1 <= Len(headers) /\ Tip + 1 = Len(headers)
  <2>1. Chained
    BY DEF ChainInv
  <2>2. headers \in Seq(Blocks) /\ Tip \in Nat /\ Tip + 1 = Len(headers)
    BY <2>1, HeadersType
  <2>3. Base(batch) \in 0..Tip /\ Fresh(batch) \in Seq(Blocks)
    BY <1>2 DEF Grafted
  <2> QED BY <2>2, <2>3
<1>4. Fresh(batch) # <<>>
  <2>1. CASE Fresh(batch) = <<>>
    <3>1. Extension(batch) \in {"ignored", "missing"}
      BY <2>1 DEF Extension
    <3> QED BY <1>1, <3>1
  <2> QED BY <2>1
<1>5. /\ Low(Base(batch)) \in Seq(Blocks) /\ Held(Base(batch)) \in Seq(Blocks)
      /\ headers = Low(Base(batch)) \o Held(Base(batch))
      /\ Base(batch) + 1 = Len(headers) => Low(Base(batch)) = headers
  BY <1>3, Split
<1>6. PICK low, fresh, held :
         low = Weight(Low(Base(batch))) /\ fresh = Weight(Fresh(batch)) /\ held = Weight(Held(Base(batch)))
  OBVIOUS
<1>7. low \in Nat /\ fresh \in Nat /\ fresh > 0 /\ held \in Nat
  BY <1>3, <1>4, <1>5, <1>6, WeightNat
<1>8. Weight(headers') = low + fresh
  BY <1>1, <1>3, <1>5, <1>6, WeightJoined
<1>9. CASE Extension(batch) = "appended"
  <2>1. Base(batch) = Tip
    BY <1>9 DEF Extension
  <2>2. Low(Base(batch)) = headers
    BY <1>3, <1>5, <2>1
  <2>3. Weight(headers) = low
    BY <1>6, <2>2
  <2> QED BY <1>1, <1>7, <1>8, <2>3
<1>10. CASE Extension(batch) = "reorganized"
  <2>1. fresh > held
    BY <1>6, <1>10 DEF Extension, MoreWork
  <2>2. Weight(headers) = low + held
    BY <1>5, <1>6, WeightJoined
  <2> QED BY <1>1, <1>7, <1>8, <2>1, <2>2
<1> QED BY <1>1, <1>9, <1>10

LEMMA AsideUp == Aside /\ pc' # "down" => pc # "down"
  BY DEF Aside, Settle, Idle, ServeRefresh, ServeBlock, RoundStart, RoundEnd, Asks,
         HeadersIgnored, HeadersFail, Connect, Attempt, GiveUp, AwaitLacking, AwaitBlock,
         AwaitFails, Refill, CallRefresh, CallEnds, CallBlock

(* The file holds no more work than the chain in memory while one is held. *)
WorkInv ==
    /\ ChainInv
    /\ pc # "down" /\ disk \notin {<<>>, Foreign} => Weight(disk) <= Weight(headers)

LEMMA WorkNext ==
  ASSUME WorkInv, [Next]_vars
  PROVE  /\ WorkInv'
         /\ pc # "down" /\ pc' # "down" /\ headers' # headers => Weight(headers') > Weight(headers)
         /\ disk \notin {<<>>, Foreign} /\ disk' # disk => Weight(disk') > Weight(disk)
<1>1. ChainInv /\ ChainInv'
  BY ChainNext DEF WorkInv
<1>2. /\ Weight(headers) \in Nat /\ Weight(headers)' \in Nat
      /\ disk \notin {<<>>, Foreign} => Weight(disk) \in Nat
  <2>1. headers \in Seq(Blocks) /\ headers' \in Seq(Blocks)
    BY <1>1, Tree DEF ChainInv, Chained
  <2>2. disk \notin {<<>>, Foreign} => disk \in Seq(Blocks)
    BY <1>1, Tree DEF ChainInv
  <2> QED BY <2>1, <2>2, WeightNat
<1>3. CASE UNCHANGED <<headers, disk>> /\ (pc' # "down" => pc # "down")
  BY <1>1, <1>3 DEF WorkInv
<1>4. CASE UNCHANGED vars \/ Aside \/ NetMoves \/ \E p \in Peers : HeadersRefused(p)
  <2>1. UNCHANGED <<headers, disk>>
    BY <1>4, AsideUnchanged DEF vars, chainVars, NetMoves, HeadersRefused
  <2>2. pc' # "down" => pc # "down"
    BY <1>4, AsideUp DEF vars, NetMoves, HeadersRefused, Asks
  <2> QED BY <1>3, <2>1, <2>2
<1>5. CASE Open
  <2>1. pc = "down" /\ (Loads => headers' = disk /\ disk' = disk) /\ (~Loads => disk' = <<>>)
    BY <1>5 DEF Open, Restore
  <2> QED BY <1>1, <1>2, <2>1 DEF WorkInv, Loads
<1>6. CASE Crash
  BY <1>1, <1>6 DEF WorkInv, Crash
<1>7. ASSUME NEW p \in Peers, HeadersTaken(p)
      PROVE  /\ WorkInv'
             /\ headers' # headers => Weight(headers') > Weight(headers)
             /\ disk \notin {<<>>, Foreign} /\ disk' # disk => Weight(disk') > Weight(disk)
  <2>1. pc = "sync" /\ pc' = pc
    BY <1>7 DEF HeadersTaken, Asks
  <2>2. Weight(headers') > Weight(headers) /\ disk' \in {disk, headers'}
    BY <1>1, <1>7, TakenOutweighs
  <2>3. Weight(headers') \in Nat
    BY <1>1, Tree, WeightNat DEF ChainInv, Chained
  <2> QED BY <1>1, <1>2, <2>1, <2>2, <2>3 DEF WorkInv
<1> QED BY <1>4, <1>5, <1>6, <1>7, NextCases

(* However the peers answer and however often the process restarts, the     *)
(* chain in memory, and the one in the file, is only ever replaced by one   *)
(* with more work (HeaderChain::extend, persist, load).                     *)
THEOREM OnlyMoreWork == Spec => WorkGrows
<1>1. Init => WorkInv
  BY ChainInit DEF Init, WorkInv
<1>2. WorkInv /\ [Next]_vars => WorkInv'
  BY WorkNext
<1>3. WorkInv /\ [Next]_vars =>
        [/\ pc # "down" /\ pc' # "down" /\ headers' # headers => Weight(headers') > Weight(headers)
         /\ disk \notin {<<>>, Foreign} /\ disk' # disk => Weight(disk') > Weight(disk)]_vars
  BY WorkNext
<1> QED BY <1>1, <1>2, <1>3, PTL DEF Spec, WorkGrows

-----------------------------------------------------------------------------
(* The peer set, which dials the peers of the light client: PeerSet, with   *)
(* names of their own for the two variables that both modules have.         *)

CONSTANTS Addresses, Ip, V6, Routable, Pinnings, Fixed, Resolved, MaxPeers, Dials, PoolSize,
          BookSize, NetChanges

VARIABLES pool, tried, hosts, redial, skipV6, seeded, pinned, book, dialing, connected, warmed,
          running, results, place, after, up, changes

Dial == INSTANCE PeerSet WITH banned <- hosts, pc <- place

(* The results of an address in the channel. *)
Matches(s, a) == {i \in DOMAIN s : s[i].address = a}

Finding == [address : Addresses, outcome : {"ok", "failed", "unreachable"}]

(* The dial threads: what they are, and OneDialEach. *)
DialInv ==
    /\ running \in [Addresses -> Nat]
    /\ results \in Seq(Finding)
    /\ \A a \in Addresses :
          running[a] + Cardinality(Matches(results, a)) = IF a \in dialing THEN 1 ELSE 0

(* The size of a set in PeerSet is what it is here. *)
LEMMA SameSize ==
  ASSUME NEW S
  PROVE  Dial!Cardinality(S) = Cardinality(S)
  BY DEF Dial!Cardinality, Cardinality

(* So are the values of a function. *)
LEMMA SameRange ==
  ASSUME NEW f
  PROVE  Dial!Range(f) = Range(f)
  BY DEF Dial!Range, Range

(* The results of one address are finitely many. *)
LEMMA MatchesFinite ==
  ASSUME NEW s \in Seq(Finding), NEW a
  PROVE  IsFiniteSet(Matches(s, a)) /\ Cardinality(Matches(s, a)) \in Nat
<1>1. IsFiniteSet(1..Len(s)) /\ Matches(s, a) \subseteq 1..Len(s)
  BY FS_Interval DEF Matches
<1> QED BY <1>1, FS_Subset, FS_CardinalityType

(* A result that is sent counts for its address, *)
LEMMA MatchesSent ==
  ASSUME NEW s \in Seq(Finding), NEW e \in Finding, NEW a
  PROVE  Cardinality(Matches(Append(s, e), a))
           = Cardinality(Matches(s, a)) + IF e.address = a THEN 1 ELSE 0
<1>1. /\ Append(s, e) \in Seq(Finding) /\ Len(Append(s, e)) = Len(s) + 1
      /\ \A i \in 1..Len(s) : Append(s, e)[i] = s[i]
      /\ Append(s, e)[Len(s) + 1] = e
  BY AppendProperties
<1>2. DOMAIN Append(s, e) = 1..(Len(s) + 1) /\ DOMAIN s = 1..Len(s) /\ Len(s) \in Nat
  BY <1>1
<1>3. Len(s) + 1 \notin Matches(s, a)
  BY <1>2 DEF Matches
<1>4. CASE e.address = a
  <2>1. Matches(Append(s, e), a) = Matches(s, a) \cup {Len(s) + 1}
    BY <1>1, <1>2, <1>4 DEF Matches
  <2> QED BY <1>3, <1>4, <2>1, MatchesFinite, FS_AddElement
<1>5. CASE e.address # a
  <2>1. Matches(Append(s, e), a) = Matches(s, a)
    BY <1>1, <1>2, <1>5 DEF Matches
  <2> QED BY <1>5, <2>1, MatchesFinite
<1> QED BY <1>4, <1>5

(* and one that is received no longer does. *)
LEMMA MatchesReceived ==
  ASSUME NEW s \in Seq(Finding), s # <<>>, NEW a
  PROVE  Cardinality(Matches(s, a))
           = Cardinality(Matches(Tail(s), a)) + IF Head(s).address = a THEN 1 ELSE 0
<1>1. /\ Tail(s) \in Seq(Finding) /\ Len(Tail(s)) = Len(s) - 1 /\ Head(s) = s[1]
      /\ \A i \in 1..Len(Tail(s)) : Tail(s)[i] = s[i + 1]
  BY HeadTailProperties
<1>2. /\ Len(s) \in Nat /\ Len(s) >= 1
      /\ DOMAIN s = 1..Len(s) /\ DOMAIN Tail(s) = 1..(Len(s) - 1)
  BY <1>1, EmptySeq
<1> DEFINE M == Matches(s, a) \ {1}
           T == Matches(Tail(s), a)
           f == [i \in T |-> i + 1]
<1>3. f \in Bijection(T, M)
  <2>1. \A i \in T : i \in 1..(Len(s) - 1) /\ s[i + 1].address = a
    BY <1>1, <1>2 DEF Matches
  <2>2. \A i \in T : i + 1 \in M
    BY <1>2, <2>1 DEF Matches
  <2>3. \A i, j \in T : i + 1 = j + 1 => i = j
    BY <2>1
  <2>4. ASSUME NEW k \in M PROVE \E i \in T : i + 1 = k
    <3>1. k \in 2..Len(s) /\ s[k].address = a
      BY <1>2 DEF Matches
    <3>2. k - 1 \in 1..(Len(s) - 1) /\ (k - 1) + 1 = k
      BY <1>2, <3>1
    <3>3. k - 1 \in T
      BY <1>1, <1>2, <3>1, <3>2 DEF Matches
    <3> QED BY <3>2, <3>3
  <2> QED BY <2>2, <2>3, <2>4 DEF Bijection, Injection, Surjection, IsInjective
<1>4. IsFiniteSet(T) /\ Cardinality(T) \in Nat
  BY <1>1, MatchesFinite
<1>5. Cardinality(M) = Cardinality(T)
  <2>1. ExistsBijection(T, M)
    BY <1>3 DEF ExistsBijection
  <2> HIDE DEF T, M, f
  <2> QED BY <1>4, <2>1, FS_Bijection
<1>6. 1 \in Matches(s, a) <=> Head(s).address = a
  BY <1>1, <1>2 DEF Matches
<1>7. /\ Cardinality(Matches(s, a)) \in Nat
      /\ Cardinality(M) = IF 1 \in Matches(s, a) THEN Cardinality(Matches(s, a)) - 1
                                                ELSE Cardinality(Matches(s, a))
  BY MatchesFinite, FS_RemoveElement
<1> HIDE DEF M, T
<1>8. CASE Head(s).address = a
  <2>1. Cardinality(M) = Cardinality(Matches(s, a)) - 1
    BY <1>6, <1>7, <1>8
  <2> QED BY <1>4, <1>5, <1>7, <1>8, <2>1 DEF T
<1>9. CASE Head(s).address # a
  <2>1. Cardinality(M) = Cardinality(Matches(s, a))
    BY <1>6, <1>7, <1>9
  <2> QED BY <1>4, <1>5, <1>7, <1>9, <2>1 DEF T
<1> QED BY <1>8, <1>9

(* OneDialEach in the terms used here. *)
LEMMA OneDialIs ==
  Dial!OneDialEach <=>
    \A a \in Addresses :
        running[a] + Cardinality(Matches(results, a)) = IF a \in dialing THEN 1 ELSE 0
<1>1. \A a \in Addresses : Dial!Cardinality({i \in DOMAIN results : results[i].address = a})
                             = Cardinality(Matches(results, a))
  BY SameSize DEF Matches
<1> QED BY <1>1 DEF Dial!OneDialEach

(* At first, and in a new process, nothing is dialled. *)
LEMMA NoDials ==
  ASSUME running' = [a \in Addresses |-> 0], results' = <<>>, dialing' = {}
  PROVE  DialInv'
<1>1. \A a : Matches(<<>>, a) = {}
  BY DEF Matches
<1>2. \A a \in Addresses : Cardinality(Matches(results', a)) = 0
  BY <1>1, FS_EmptySet
<1>3. running' \in [Addresses -> Nat] /\ results' \in Seq(Finding)
  OBVIOUS
<1>4. \A a \in Addresses : running'[a] = 0 /\ a \notin dialing'
  OBVIOUS
<1>5. \A a \in Addresses : running'[a] + Cardinality(Matches(results', a))
                             = IF a \in dialing' THEN 1 ELSE 0
  BY <1>2, <1>4
<1> QED BY <1>3, <1>5 DEF DialInv

LEMMA DialInit == Dial!Init => DialInv
<1> SUFFICES ASSUME Dial!Init PROVE DialInv
  OBVIOUS
<1>1. running = [a \in Addresses |-> 0] /\ results = <<>> /\ dialing = {}
  BY DEF Dial!Init
<1>2. \A a : Matches(<<>>, a) = {}
  BY DEF Matches
<1>3. \A a \in Addresses : Cardinality(Matches(results, a)) = 0
  BY <1>1, <1>2, FS_EmptySet
<1>4. running \in [Addresses -> Nat] /\ results \in Seq(Finding)
  BY <1>1
<1>5. \A a \in Addresses : running[a] = 0 /\ a \notin dialing
  BY <1>1
<1>6. \A a \in Addresses : running[a] + Cardinality(Matches(results, a))
                             = IF a \in dialing THEN 1 ELSE 0
  BY <1>3, <1>5
<1> QED BY <1>4, <1>6 DEF DialInv

(* launch: a slot and a thread for an address that has neither. *)
LEMMA DialLaunch ==
  ASSUME DialInv, NEW due \in BOOLEAN, Dial!Launch(due)
  PROVE  DialInv'
<1>1. results' = results
  BY DEF Dial!Launch
<1>2. CASE UNCHANGED <<dialing, running>>
  BY <1>1, <1>2 DEF DialInv
<1>3. CASE ~UNCHANGED <<dialing, running>>
  <2>1. PICK a : /\ a \notin dialing /\ dialing' = dialing \cup {a}
                 /\ running' = [running EXCEPT ![a] = @ + 1]
    BY <1>3 DEF Dial!Launch, Dial!Held
  <2>2. running' \in [Addresses -> Nat]
    <3>1. running \in [Addresses -> Nat]
      BY DEF DialInv
    <3>2. CASE a \in Addresses
      <4>1. running[a] + 1 \in Nat
        BY <3>1, <3>2
      <4> QED BY <2>1, <3>1, <4>1
    <3>3. CASE a \notin Addresses
      BY <2>1, <3>1, <3>3
    <3> QED BY <3>2, <3>3
  <2>3. ASSUME NEW b \in Addresses
        PROVE  running'[b] + Cardinality(Matches(results, b)) = IF b \in dialing' THEN 1 ELSE 0
    <3>1. /\ Cardinality(Matches(results, b)) \in Nat /\ running[b] \in Nat
          /\ running[b] + Cardinality(Matches(results, b)) = IF b \in dialing THEN 1 ELSE 0
      BY MatchesFinite DEF DialInv
    <3>2. CASE b = a
      <4>1. running'[b] = running[b] + 1 /\ b \in dialing' /\ b \notin dialing
        BY <2>1, <3>2 DEF DialInv
      <4> QED BY <3>1, <4>1
    <3>3. CASE b # a
      <4>1. running'[b] = running[b] /\ (b \in dialing' <=> b \in dialing)
        BY <2>1, <3>3 DEF DialInv
      <4> QED BY <3>1, <4>1
    <3> QED BY <3>2, <3>3
  <2> QED BY <1>1, <2>2, <2>3 DEF DialInv
<1> QED BY <1>2, <1>3

(* connect ends: the thread's result takes its place, *)
LEMMA DialResult ==
  ASSUME DialInv, NEW a \in Addresses, Dial!DialEnds(a)
  PROVE  DialInv'
<1>1. /\ running[a] > 0 /\ running' = [running EXCEPT ![a] = @ - 1] /\ dialing' = dialing
  BY DEF Dial!DialEnds, Dial!peerVars
<1>2. PICK outcome \in {"ok", "failed", "unreachable"} :
          results' = Append(results, [address |-> a, outcome |-> outcome])
  BY DEF Dial!DialEnds
<1>3. PICK e \in Finding : e = [address |-> a, outcome |-> outcome]
  BY DEF Finding
<1>4. results \in Seq(Finding) /\ results' = Append(results, e) /\ e.address = a
  BY <1>2, <1>3 DEF DialInv
<1>5. running' \in [Addresses -> Nat] /\ results' \in Seq(Finding)
  <2>1. running[a] - 1 \in Nat
    BY <1>1 DEF DialInv
  <2> QED BY <1>1, <1>4, <2>1, AppendProperties DEF DialInv
<1>6. ASSUME NEW b \in Addresses
      PROVE  running'[b] + Cardinality(Matches(results', b)) = IF b \in dialing' THEN 1 ELSE 0
  <2>1. /\ Cardinality(Matches(results, b)) \in Nat /\ running[b] \in Nat
        /\ running[b] + Cardinality(Matches(results, b)) = IF b \in dialing THEN 1 ELSE 0
    BY MatchesFinite DEF DialInv
  <2>2. Cardinality(Matches(results', b))
          = Cardinality(Matches(results, b)) + IF e.address = b THEN 1 ELSE 0
    BY <1>4, MatchesSent
  <2>3. CASE b = a
    <3>1. running'[b] = running[b] - 1
      BY <1>1, <2>3 DEF DialInv
    <3> QED BY <1>1, <1>4, <2>1, <2>2, <2>3, <3>1
  <2>4. CASE b # a
    <3>1. running'[b] = running[b]
      BY <1>1, <2>4 DEF DialInv
    <3> QED BY <1>1, <1>4, <2>1, <2>2, <2>4, <3>1
  <2> QED BY <2>3, <2>4
<1> QED BY <1>5, <1>6 DEF DialInv

(* and settle takes the result together with the slot. *)
LEMMA DialReceive ==
  ASSUME DialInv, Dial!Receive
  PROVE  DialInv' /\ Head(results).address \in dialing
<1>1. /\ results # <<>> /\ results' = Tail(results) /\ running' = running
      /\ dialing' = dialing \ {Head(results).address}
  BY DEF Dial!Receive
<1>2. /\ results \in Seq(Finding) /\ Tail(results) \in Seq(Finding)
      /\ Head(results) \in Finding
  BY <1>1, HeadTailProperties DEF DialInv
<1>3. PICK a \in Addresses : a = Head(results).address
  BY <1>2 DEF Finding
<1>4. ASSUME NEW b \in Addresses
      PROVE  /\ running[b] + Cardinality(Matches(results', b)) = IF b \in dialing' THEN 1 ELSE 0
             /\ b = a => b \in dialing
  <2>1. /\ Cardinality(Matches(results, b)) \in Nat /\ running[b] \in Nat
        /\ Cardinality(Matches(results', b)) \in Nat
        /\ running[b] + Cardinality(Matches(results, b)) = IF b \in dialing THEN 1 ELSE 0
    BY <1>1, <1>2, MatchesFinite DEF DialInv
  <2>2. Cardinality(Matches(results, b))
          = Cardinality(Matches(results', b)) + IF a = b THEN 1 ELSE 0
    BY <1>1, <1>2, <1>3, MatchesReceived
  <2>3. CASE b = a
    <3>1. b \notin dialing'
      BY <1>1, <1>3, <2>3
    <3> QED BY <2>1, <2>2, <2>3, <3>1
  <2>4. CASE b # a
    <3>1. b \in dialing' <=> b \in dialing
      BY <1>1, <1>3, <2>4
    <3> QED BY <2>1, <2>2, <2>4, <3>1
  <2> QED BY <2>3, <2>4
<1>5. \A b \in Addresses : running'[b] + Cardinality(Matches(results', b))
                             = IF b \in dialing' THEN 1 ELSE 0
  BY <1>1, <1>4
<1> QED BY <1>1, <1>2, <1>3, <1>4, <1>5 DEF DialInv

(* Nothing else changes slots, threads or results. *)
LEMMA DialNext == DialInv /\ [Dial!Next]_(Dial!vars) => DialInv'
<1> SUFFICES ASSUME DialInv, [Dial!Next]_(Dial!vars) PROVE DialInv'
  OBVIOUS
<1>1. CASE UNCHANGED <<dialing, running, results>>
  BY <1>1 DEF DialInv
<1>2. CASE ~UNCHANGED <<dialing, running, results>>
  <2>1. Dial!Next
    BY <1>2 DEF Dial!vars, Dial!peerVars, Dial!threadVars
  <2>2. \/ \E due \in BOOLEAN : Dial!Launch(due)
        \/ Dial!Receive \/ Dial!Restart \/ \E a \in Addresses : Dial!DialEnds(a)
    <3>1. ASSUME \/ Dial!Maintain \/ Dial!Discover \/ Dial!Seed \/ Dial!LaunchEnds
                 \/ Dial!SettleEnds \/ Dial!NetChange
                 \/ \E a \in Addresses : Dial!DropPeer(a) \/ Dial!BanPeer(a)
          PROVE  UNCHANGED <<dialing, running, results>>
      BY <3>1 DEF Dial!Maintain, Dial!Discover, Dial!Seed, Dial!LaunchEnds, Dial!SettleEnds,
                  Dial!NetChange, Dial!DropPeer, Dial!BanPeer, Dial!peerVars, Dial!threadVars
    <3> QED BY <1>2, <2>1, <3>1 DEF Dial!Next, Dial!Worker
  <2>3. CASE Dial!Restart
    BY <2>3, NoDials DEF Dial!Restart
  <2> QED BY <2>2, <2>3, DialLaunch, DialReceive, DialResult
<1> QED BY <1>1, <1>2

(* Every slot of a dial belongs to one thread or one result, through        *)
(* failed dials, bans and restarts: no address is dialled twice at a time   *)
(* and no slot is lost (Peers::launch, settle).                             *)
THEOREM OneDialPerSlot == Dial!Spec => []Dial!OneDialEach
<1>1. DialInv => Dial!OneDialEach
  BY OneDialIs DEF DialInv
<1> QED BY <1>1, DialInit, DialNext, PTL DEF Dial!Spec

-----------------------------------------------------------------------------
(* Queues of addresses. *)

(* What each step of a fold keeps, the fold keeps. *)
LEMMA FoldKeeps ==
  ASSUME NEW X, NEW n \in Nat, NEW g, g[0] \in X, \A i \in 1..n : g[i - 1] \in X => g[i] \in X
  PROVE  \A i \in 0..n : g[i] \in X
<1> DEFINE S == {i \in Nat : i <= n => g[i] \in X}
<1>1. 0 \in S
  OBVIOUS
<1>2. ASSUME NEW i \in Nat, i \in S PROVE i + 1 \in S
  <2>1. CASE i + 1 <= n
    <3>1. i <= n /\ i + 1 \in 1..n /\ (i + 1) - 1 = i
      BY <2>1
    <3> QED BY <1>2, <3>1
  <2>2. CASE ~(i + 1 <= n)
    BY <2>2
  <2> QED BY <2>1, <2>2
<1> HIDE DEF S
<1>3. \A i \in Nat : i \in S
  BY <1>1, <1>2, Inductive
<1> QED BY <1>3 DEF S

(* There is such a function. *)
Unrolls(h, X, base, n, op) ==
    h \in [0..n -> X] /\ h[0] = base /\ \A i \in 1..n : h[i] = op[i][h[i - 1]]

LEMMA FoldExists ==
  ASSUME NEW X, NEW base \in X, NEW n \in Nat, NEW op \in [1..n -> [X -> X]]
  PROVE  \E h : Unrolls(h, X, base, n, op)
<1> DEFINE Is(h, k) == Unrolls(h, X, base, k, op)
           S == {k \in Nat : k <= n => \E h : Is(h, k)}
<1>1. 0 \in S
  <2>1. Is([i \in 0..0 |-> base], 0)
    BY DEF Unrolls
  <2> QED BY <2>1
<1>2. ASSUME NEW k \in Nat, k \in S PROVE k + 1 \in S
  <2>1. CASE ~(k + 1 <= n)
    BY <2>1
  <2>2. CASE k + 1 <= n
    <3>1. PICK h : Is(h, k)
      BY <1>2, <2>2
    <3>2. op[k + 1][h[k]] \in X
      <4>1. k + 1 \in 1..n /\ h[k] \in X
        BY <2>2, <3>1 DEF Unrolls
      <4> QED BY <4>1
    <3>3. PICK j : j = [i \in 0..(k + 1) |-> IF i = k + 1 THEN op[k + 1][h[k]] ELSE h[i]]
      OBVIOUS
    <3>4. j \in [0..(k + 1) -> X] /\ j[0] = base
      BY <3>1, <3>2, <3>3 DEF Unrolls
    <3>5. ASSUME NEW i \in 1..(k + 1) PROVE j[i] = op[i][j[i - 1]]
      <4>1. CASE i = k + 1
        <5>1. i - 1 = k /\ k \in 0..(k + 1) /\ k # k + 1
          BY <4>1
        <5> QED BY <3>3, <4>1, <5>1
      <4>2. CASE i # k + 1
        <5>1. i \in 1..k /\ i - 1 \in 0..(k + 1) /\ i - 1 # k + 1 /\ i \in 0..(k + 1)
          BY <4>2
        <5> QED BY <3>1, <3>3, <4>2, <5>1 DEF Unrolls
      <4> QED BY <4>1, <4>2
    <3>6. Is(j, k + 1)
      BY <3>4, <3>5 DEF Unrolls
    <3> QED BY <3>6
  <2> QED BY <2>1, <2>2
<1>3. n \in S
  <2> HIDE DEF S
  <2>1. \A k \in Nat : k \in S
    BY <1>1, <1>2, Inductive
  <2> QED BY <2>1
<1> QED BY <1>3

(* What Without leaves is not among what goes. *)
LEMMA WithoutLeaves ==
  ASSUME NEW F, NEW q \in Seq(F), NEW gone
  PROVE  Dial!Without(q, gone) \in Seq(F \ gone)
<1> DEFINE X == Seq(F \ gone)
           n == Len(q)
           next(i, kept) == IF q[i] \in gone THEN kept ELSE Append(kept, q[i])
           op == [i \in 1..n |-> [kept \in X |-> next(i, kept)]]
<1>1. n \in Nat /\ <<>> \in X
  OBVIOUS
<1>2. ASSUME NEW i \in 1..n, NEW kept \in X PROVE next(i, kept) \in X
  <2>1. q[i] \in F
    OBVIOUS
  <2>2. CASE q[i] \in gone
    BY <2>2
  <2>3. CASE q[i] \notin gone
    <3>1. q[i] \in F \ gone
      BY <2>1, <2>3
    <3> QED BY <2>3, <3>1, AppendProperties
  <2> QED BY <2>2, <2>3
<1>3. op \in [1..n -> [X -> X]] /\ \A i \in 1..n, kept \in X : op[i][kept] = next(i, kept)
  BY <1>2
<1>4. PICK g : g = CHOOSE f : f = [i \in 0..n |-> IF i = 0 THEN <<>> ELSE next(i, f[i - 1])]
  OBVIOUS
<1>5. Dial!Without(q, gone) = g[n]
  BY <1>4 DEF Dial!Without, Dial!Folded
<1> HIDE DEF X, n, next, op
<1>6. PICK h : Unrolls(h, X, <<>>, n, op)
  <2>1. PICK Y, b, m, o : Y = X /\ b = <<>> /\ m = n /\ o = op
    OBVIOUS
  <2>2. b \in Y /\ m \in Nat /\ o \in [1..m -> [Y -> Y]]
    BY <1>1, <1>3, <2>1
  <2>3. \E h : Unrolls(h, Y, b, m, o)
    BY <2>2, FoldExists
  <2> QED BY <2>1, <2>3
<1>7. h = [i \in 0..n |-> IF i = 0 THEN <<>> ELSE next(i, h[i - 1])]
  <2>1. ASSUME NEW i \in 1..n PROVE h[i] = next(i, h[i - 1])
    <3>1. i - 1 \in 0..n
      BY <1>1
    <3> QED BY <1>3, <1>6, <3>1 DEF Unrolls
  <2>2. ASSUME NEW i \in 0..n PROVE h[i] = IF i = 0 THEN <<>> ELSE next(i, h[i - 1])
    <3>1. i = 0 \/ i \in 1..n
      BY <1>1
    <3> QED BY <1>6, <2>1, <3>1 DEF Unrolls
  <2>3. h = [i \in 0..n |-> h[i]]
    BY <1>6 DEF Unrolls
  <2> QED BY <2>2, <2>3
<1>8. g = [i \in 0..n |-> IF i = 0 THEN <<>> ELSE next(i, g[i - 1])]
  BY <1>4, <1>7
<1>9. g[0] \in X
  BY <1>1, <1>8
<1>10. ASSUME NEW i \in 1..n, g[i - 1] \in X PROVE g[i] \in X
  BY <1>1, <1>2, <1>8, <1>10
<1>11. \A i \in 0..n : g[i] \in X
  BY <1>1, <1>9, <1>10, FoldKeeps
<1> QED BY <1>1, <1>5, <1>11 DEF X

(* What may be dialled, and what may be dialled now. *)
Permitted == {a \in Addresses : pinned # <<>> => a \in Range(pinned)}
Clean == {a \in Permitted : Ip[a] \notin hosts}

(* offer_seeded and offer_gossip add what is not banned. *)
LEMMA SeededClean ==
  ASSUME NEW line \in Seq(Clean), NEW list \in Seq(Permitted), NEW seen
  PROVE  Dial!OfferSeeded(line, seen, list) \in Seq(Clean)
<1> DEFINE X == Seq(Clean)
           n == Len(Dial!Reverse(list))
           next(i, q) == IF Dial!Admissible(q, seen, Dial!Reverse(list)[i]) THEN <<Dial!Reverse(list)[i]>> \o q ELSE q
           op == [i \in 1..n |-> [q \in X |-> next(i, q)]]
<1>1. n \in Nat /\ line \in X
  BY DEF Dial!Reverse
<1>2. ASSUME NEW i \in 1..n, NEW q \in X PROVE next(i, q) \in X
  <2>1. Dial!Reverse(list)[i] \in Permitted
    BY DEF Dial!Reverse
  <2>2. CASE Dial!Admissible(q, seen, Dial!Reverse(list)[i])
    <3>1. Dial!Reverse(list)[i] \in Clean
      BY <2>1, <2>2 DEF Dial!Admissible, Dial!Barred, Clean
    <3>2. <<Dial!Reverse(list)[i]>> \in Seq(Clean)
      BY <3>1
    <3> HIDE DEF Clean
    <3>3. <<Dial!Reverse(list)[i]>> \o q \in Seq(Clean)
      BY <3>2, ConcatProperties
    <3> QED BY <2>2, <3>3
  <2>3. CASE ~Dial!Admissible(q, seen, Dial!Reverse(list)[i])
    BY <2>3
  <2> QED BY <2>2, <2>3
<1>3. op \in [1..n -> [X -> X]] /\ \A i \in 1..n, q \in X : op[i][q] = next(i, q)
  BY <1>2
<1>4. PICK g : g = CHOOSE f : f = [i \in 0..n |-> IF i = 0 THEN line ELSE next(i, f[i - 1])]
  OBVIOUS
<1>5. Dial!OfferSeeded(line, seen, list) = g[n]
  BY <1>4 DEF Dial!OfferSeeded, Dial!Folded
<1> HIDE DEF X, n, next, op
<1>6. PICK h : Unrolls(h, X, line, n, op)
  <2>1. PICK Y, b, m, o : Y = X /\ b = line /\ m = n /\ o = op
    OBVIOUS
  <2>2. b \in Y /\ m \in Nat /\ o \in [1..m -> [Y -> Y]]
    BY <1>1, <1>3, <2>1
  <2>3. \E h : Unrolls(h, Y, b, m, o)
    BY <2>2, FoldExists
  <2> QED BY <2>1, <2>3
<1>7. h = [i \in 0..n |-> IF i = 0 THEN line ELSE next(i, h[i - 1])]
  <2>1. ASSUME NEW i \in 1..n PROVE h[i] = next(i, h[i - 1])
    <3>1. i - 1 \in 0..n
      BY <1>1
    <3> QED BY <1>3, <1>6, <3>1 DEF Unrolls
  <2>2. ASSUME NEW i \in 0..n PROVE h[i] = IF i = 0 THEN line ELSE next(i, h[i - 1])
    <3>1. i = 0 \/ i \in 1..n
      BY <1>1
    <3> QED BY <1>6, <2>1, <3>1 DEF Unrolls
  <2>3. h = [i \in 0..n |-> h[i]]
    BY <1>6 DEF Unrolls
  <2> QED BY <2>2, <2>3
<1>8. g = [i \in 0..n |-> IF i = 0 THEN line ELSE next(i, g[i - 1])]
  BY <1>4, <1>7
<1>9. g[0] \in X
  BY <1>1, <1>8
<1>10. ASSUME NEW i \in 1..n, g[i - 1] \in X PROVE g[i] \in X
  BY <1>1, <1>2, <1>8, <1>10
<1>11. \A i \in 0..n : g[i] \in X
  BY <1>1, <1>9, <1>10, FoldKeeps
<1> QED BY <1>1, <1>5, <1>11 DEF X

LEMMA GossipClean ==
  ASSUME NEW line \in Seq(Clean), NEW list \in Seq(Permitted), NEW seen
  PROVE  Dial!OfferGossip(line, seen, list) \in Seq(Clean)
<1> DEFINE X == Seq(Clean)
           n == Len(list)
           next(i, q) == IF Dial!Admissible(q, seen, list[i]) THEN Append(q, list[i]) ELSE q
           op == [i \in 1..n |-> [q \in X |-> next(i, q)]]
<1>1. n \in Nat /\ line \in X
  OBVIOUS
<1>2. ASSUME NEW i \in 1..n, NEW q \in X PROVE next(i, q) \in X
  <2>1. list[i] \in Permitted
    OBVIOUS
  <2>2. CASE Dial!Admissible(q, seen, list[i])
    <3>1. list[i] \in Clean
      BY <2>1, <2>2 DEF Dial!Admissible, Dial!Barred, Clean
    <3> QED BY <2>2, <3>1, AppendProperties
  <2>3. CASE ~Dial!Admissible(q, seen, list[i])
    BY <2>3
  <2> QED BY <2>2, <2>3
<1>3. op \in [1..n -> [X -> X]] /\ \A i \in 1..n, q \in X : op[i][q] = next(i, q)
  BY <1>2
<1>4. PICK g : g = CHOOSE f : f = [i \in 0..n |-> IF i = 0 THEN line ELSE next(i, f[i - 1])]
  OBVIOUS
<1>5. Dial!OfferGossip(line, seen, list) = g[n]
  BY <1>4 DEF Dial!OfferGossip, Dial!Folded
<1> HIDE DEF X, n, next, op
<1>6. PICK h : Unrolls(h, X, line, n, op)
  <2>1. PICK Y, b, m, o : Y = X /\ b = line /\ m = n /\ o = op
    OBVIOUS
  <2>2. b \in Y /\ m \in Nat /\ o \in [1..m -> [Y -> Y]]
    BY <1>1, <1>3, <2>1
  <2>3. \E h : Unrolls(h, Y, b, m, o)
    BY <2>2, FoldExists
  <2> QED BY <2>1, <2>3
<1>7. h = [i \in 0..n |-> IF i = 0 THEN line ELSE next(i, h[i - 1])]
  <2>1. ASSUME NEW i \in 1..n PROVE h[i] = next(i, h[i - 1])
    <3>1. i - 1 \in 0..n
      BY <1>1
    <3> QED BY <1>3, <1>6, <3>1 DEF Unrolls
  <2>2. ASSUME NEW i \in 0..n PROVE h[i] = IF i = 0 THEN line ELSE next(i, h[i - 1])
    <3>1. i = 0 \/ i \in 1..n
      BY <1>1
    <3> QED BY <1>6, <2>1, <3>1 DEF Unrolls
  <2>3. h = [i \in 0..n |-> h[i]]
    BY <1>6 DEF Unrolls
  <2> QED BY <2>2, <2>3
<1>8. g = [i \in 0..n |-> IF i = 0 THEN line ELSE next(i, g[i - 1])]
  BY <1>4, <1>7
<1>9. g[0] \in X
  BY <1>1, <1>8
<1>10. ASSUME NEW i \in 1..n, g[i - 1] \in X PROVE g[i] \in X
  BY <1>1, <1>2, <1>8, <1>10
<1>11. \A i \in 0..n : g[i] \in X
  BY <1>1, <1>9, <1>10, FoldKeeps
<1> QED BY <1>1, <1>5, <1>11 DEF X

(* Dropped peers are dialled again, in some order. *)
LEMMA DroppedPermitted ==
  ASSUME NEW F, NEW line \in Seq(F), NEW list \in Seq(F)
  PROVE  Dial!Folded(Dial!Dropped, line, list) \in Seq(F)
<1> DEFINE X == Seq(F)
           n == Len(list)
           next(i, q) == Dial!Dropped(q, list[i])
           op == [i \in 1..n |-> [q \in X |-> next(i, q)]]
<1>1. n \in Nat /\ line \in X
  OBVIOUS
<1>2. ASSUME NEW i \in 1..n, NEW q \in X PROVE next(i, q) \in X
  BY AppendProperties DEF Dial!Dropped
<1>3. op \in [1..n -> [X -> X]] /\ \A i \in 1..n, q \in X : op[i][q] = next(i, q)
  BY <1>2
<1>4. PICK g : g = CHOOSE f : f = [i \in 0..n |-> IF i = 0 THEN line ELSE next(i, f[i - 1])]
  OBVIOUS
<1>5. Dial!Folded(Dial!Dropped, line, list) = g[n]
  BY <1>4 DEF Dial!Folded
<1> HIDE DEF X, n, next, op
<1>6. PICK h : Unrolls(h, X, line, n, op)
  <2>1. PICK Y, b, m, o : Y = X /\ b = line /\ m = n /\ o = op
    OBVIOUS
  <2>2. b \in Y /\ m \in Nat /\ o \in [1..m -> [Y -> Y]]
    BY <1>1, <1>3, <2>1
  <2>3. \E h : Unrolls(h, Y, b, m, o)
    BY <2>2, FoldExists
  <2> QED BY <2>1, <2>3
<1>7. h = [i \in 0..n |-> IF i = 0 THEN line ELSE next(i, h[i - 1])]
  <2>1. ASSUME NEW i \in 1..n PROVE h[i] = next(i, h[i - 1])
    <3>1. i - 1 \in 0..n
      BY <1>1
    <3> QED BY <1>3, <1>6, <3>1 DEF Unrolls
  <2>2. ASSUME NEW i \in 0..n PROVE h[i] = IF i = 0 THEN line ELSE next(i, h[i - 1])
    <3>1. i = 0 \/ i \in 1..n
      BY <1>1
    <3> QED BY <1>6, <2>1, <3>1 DEF Unrolls
  <2>3. h = [i \in 0..n |-> h[i]]
    BY <1>6 DEF Unrolls
  <2> QED BY <2>2, <2>3
<1>8. g = [i \in 0..n |-> IF i = 0 THEN line ELSE next(i, g[i - 1])]
  BY <1>4, <1>7
<1>9. g[0] \in X
  BY <1>1, <1>8
<1>10. ASSUME NEW i \in 1..n, g[i - 1] \in X PROVE g[i] \in X
  BY <1>1, <1>2, <1>8, <1>10
<1>11. \A i \in 0..n : g[i] \in X
  BY <1>1, <1>9, <1>10, FoldKeeps
<1> QED BY <1>1, <1>5, <1>11 DEF X

(* readmit, for one list after the other. *)
LEMMA ReadmitClean ==
  ASSUME NEW lists \in Seq(Seq(Permitted))
  PROVE  Dial!Readmit(<<>>, lists).pool \in Seq(Clean)
<1> DEFINE again == Dial!Readmit(<<>>, lists).tried
<1> DEFINE X == Seq(Clean)
           n == Len(lists)
           next(i, q) == Dial!OfferSeeded(q, again, lists[i])
           op == [i \in 1..n |-> [q \in X |-> next(i, q)]]
<1>1. n \in Nat /\ <<>> \in X
  OBVIOUS
<1>2. ASSUME NEW i \in 1..n, NEW q \in X PROVE next(i, q) \in X
  BY SeededClean
<1>3. op \in [1..n -> [X -> X]] /\ \A i \in 1..n, q \in X : op[i][q] = next(i, q)
  BY <1>2
<1>4. PICK g : g = CHOOSE f : f = [i \in 0..n |-> IF i = 0 THEN <<>> ELSE next(i, f[i - 1])]
  OBVIOUS
<1>5. Dial!Readmit(<<>>, lists).pool = g[n]
  BY <1>4 DEF Dial!Readmit, Dial!Folded
<1> HIDE DEF X, n, next, op
<1>6. PICK h : Unrolls(h, X, <<>>, n, op)
  <2>1. PICK Y, b, m, o : Y = X /\ b = <<>> /\ m = n /\ o = op
    OBVIOUS
  <2>2. b \in Y /\ m \in Nat /\ o \in [1..m -> [Y -> Y]]
    BY <1>1, <1>3, <2>1
  <2>3. \E h : Unrolls(h, Y, b, m, o)
    BY <2>2, FoldExists
  <2> QED BY <2>1, <2>3
<1>7. h = [i \in 0..n |-> IF i = 0 THEN <<>> ELSE next(i, h[i - 1])]
  <2>1. ASSUME NEW i \in 1..n PROVE h[i] = next(i, h[i - 1])
    <3>1. i - 1 \in 0..n
      BY <1>1
    <3> QED BY <1>3, <1>6, <3>1 DEF Unrolls
  <2>2. ASSUME NEW i \in 0..n PROVE h[i] = IF i = 0 THEN <<>> ELSE next(i, h[i - 1])
    <3>1. i = 0 \/ i \in 1..n
      BY <1>1
    <3> QED BY <1>6, <2>1, <3>1 DEF Unrolls
  <2>3. h = [i \in 0..n |-> h[i]]
    BY <1>6 DEF Unrolls
  <2> QED BY <2>2, <2>3
<1>8. g = [i \in 0..n |-> IF i = 0 THEN <<>> ELSE next(i, g[i - 1])]
  BY <1>4, <1>7
<1>9. g[0] \in X
  BY <1>1, <1>8
<1>10. ASSUME NEW i \in 1..n, g[i - 1] \in X PROVE g[i] \in X
  BY <1>1, <1>2, <1>8, <1>10
<1>11. \A i \in 0..n : g[i] \in X
  BY <1>1, <1>9, <1>10, FoldKeeps
<1> QED BY <1>1, <1>5, <1>11 DEF X

-----------------------------------------------------------------------------
(* Who is dialled. *)

(* With pins only they are, and nothing in the pool is banned. *)
PermitInv ==
    /\ pinned \in Seq(Addresses) /\ book \subseteq Addresses
    /\ pool \in Seq(Clean) /\ redial \in Seq(Permitted)
    /\ dialing \subseteq Permitted /\ connected \subseteq Permitted

(* The orders of a finite set are sequences of its elements. *)
LEMMA OrderIn ==
  ASSUME Dial!PeerSetAssumption, NEW S \in SUBSET Addresses, NEW order \in Dial!SetToSeqs(S)
  PROVE  order \in Seq(S)
<1>1. IsFiniteSet(S)
  <2>1. IsFiniteSet(Addresses)
    BY DEF Dial!PeerSetAssumption, Dial!IsFiniteSet, IsFiniteSet
  <2> QED BY <2>1, FS_Subset
<1>2. Cardinality(S) \in Nat
  BY <1>1, FS_CardinalityType
<1>3. order \in [1..Cardinality(S) -> S]
  BY SameSize DEF Dial!SetToSeqs
<1>4. ASSUME NEW n \in Nat, NEW T, NEW f \in [1..n -> T]  PROVE f \in Seq(T)
  OBVIOUS
<1> HIDE DEF Dial!SetToSeqs
<1> QED BY ONLY <1>2, <1>3, <1>4

(* A sequence whose elements are of a set. *)
LEMMA SeqInto ==
  ASSUME NEW F, NEW G, NEW s \in Seq(F), \A i \in 1..Len(s) : s[i] \in G
  PROVE  s \in Seq(G)
<1>1. Len(s) \in Nat /\ s \in [1..Len(s) -> G]
  OBVIOUS
<1> QED BY <1>1

(* Without pins everybody is permitted. *)
LEMMA AllPermitted ==
  ASSUME pinned = <<>>
  PROVE  Permitted = Addresses
  BY DEF Permitted

(* Shorter queues of the same addresses. *)
LEMMA WithoutStays ==
  ASSUME NEW F, NEW q \in Seq(F), NEW gone
  PROVE  Dial!Without(q, gone) \in Seq(F)
<1>1. PICK left : left = Dial!Without(q, gone)
  OBVIOUS
<1>2. left \in Seq(F \ gone)
  BY <1>1, WithoutLeaves
<1>3. left \in Seq(F)
  BY <1>2
<1> QED BY <1>1, <1>3

(* At first, and in a new process, nothing waits. *)
LEMMA PermitFresh ==
  ASSUME Dial!PeerSetAssumption, NEW kept \in Dial!Books, NEW v6, pinned' \in Seq(Addresses),
         pool' = <<>>, redial' = <<>>, dialing' = {}, connected' = {}, book' = kept
  PROVE  PermitInv'
  BY DEF PermitInv, Dial!Books, Dial!PeerSetAssumption

LEMMA PermitInit == Dial!PeerSetAssumption /\ Dial!Init => PermitInv
<1> SUFFICES ASSUME Dial!PeerSetAssumption, Dial!Init PROVE PermitInv
  OBVIOUS
<1>1. /\ pool = <<>> /\ redial = <<>> /\ dialing = {} /\ connected = {}
      /\ pinned \in Pinnings /\ book \in Dial!Books
  BY DEF Dial!Init, Dial!Start
<1>2. pinned \in Seq(Addresses) /\ book \subseteq Addresses
  BY <1>1 DEF Dial!PeerSetAssumption, Dial!Books
<1> QED BY <1>1, <1>2 DEF PermitInv

(* What gossip and resolvers may add. *)
LEMMA GossipedClean ==
  ASSUME PermitInv, NEW list \in Seq(Addresses), pinned = <<>>
  PROVE  Dial!OfferGossip(pool, tried, Dial!Without(list, Addresses \ Routable)) \in Seq(Clean)
<1>1. PICK left : left = Dial!Without(list, Addresses \ Routable)
  OBVIOUS
<1>2. left \in Seq(Addresses)
  BY <1>1, WithoutStays
<1>3. left \in Seq(Permitted)
  BY <1>2, AllPermitted
<1>4. pool \in Seq(Clean)
  BY DEF PermitInv
<1>5. Dial!OfferGossip(pool, tried, left) \in Seq(Clean)
  BY <1>3, <1>4, GossipClean
<1> QED BY <1>1, <1>5

(* A pass of the worker begins: lost peers are to be dialled again. *)
LEMMA PermitMaintain ==
  ASSUME Dial!PeerSetAssumption, PermitInv, Dial!Maintain
  PROVE  PermitInv' /\ dialing' = dialing
<1>1. /\ UNCHANGED <<hosts, pinned, book, dialing>>
      /\ connected' = connected \ (connected \ up)
  BY DEF Dial!Maintain
<1>2. PICK order \in Dial!SetToSeqs(connected \ up) :
          redial' = Dial!Folded(Dial!Dropped, redial, order)
  BY DEF Dial!Maintain
<1>3. redial' \in Seq(Permitted)
  <2>1. PICK S \in SUBSET Addresses : S = connected \ up
    BY DEF PermitInv, Permitted
  <2>2. order \in Seq(S)
    BY <1>2, <2>1, OrderIn
  <2>3. S \subseteq Permitted
    BY <2>1 DEF PermitInv
  <2>4. order \in Seq(Permitted) /\ redial \in Seq(Permitted)
    BY <2>2, <2>3 DEF PermitInv
  <2> QED BY <1>2, <2>4, DroppedPermitted
<1>4. pool' \in Seq(Clean)
  <2>1. PICK learned \in {<<>>} \cup {<<a>> : a \in Resolved} : pool' = Dial!Gossiped(learned)
    BY DEF Dial!Maintain
  <2>2. learned \in Seq(Addresses)
    <3>1. CASE learned = <<>>
      BY <3>1
    <3>2. ASSUME NEW a \in Resolved, learned = <<a>> PROVE learned \in Seq(Addresses)
      <4>1. a \in Addresses
        BY DEF Dial!PeerSetAssumption
      <4> QED BY <3>2, <4>1
    <3> QED BY <2>1, <3>1, <3>2
  <2>3. CASE pinned = <<>>
    BY <2>1, <2>2, <2>3, GossipedClean DEF Dial!Gossiped
  <2>4. CASE pinned # <<>>
    BY <2>1, <2>4 DEF Dial!Gossiped, PermitInv
  <2> QED BY <2>3, <2>4
<1>5. Permitted' = Permitted /\ Clean' = Clean
  BY <1>1 DEF Permitted, Clean
<1> QED BY <1>1, <1>3, <1>4, <1>5 DEF PermitInv

(* Resolvers that answered, *)
LEMMA PermitDiscover ==
  ASSUME Dial!PeerSetAssumption, PermitInv, Dial!Discover
  PROVE  PermitInv' /\ dialing' = dialing
<1>1. UNCHANGED <<hosts, redial, pinned, book, dialing, connected>> /\ pool' \in Dial!Collected
  BY DEF Dial!Discover, Dial!peerVars
<1>2. pool' \in Seq(Clean)
  <2>1. CASE pool' = pool
    BY <2>1 DEF PermitInv
  <2>2. CASE pool' # pool
    <3>1. pinned = <<>>
      BY <1>1, <2>2 DEF Dial!Collected
    <3>2. PICK list \in {<<>>} \cup Dial!SetToSeqs(Resolved) :
              pool' = Dial!OfferGossip(pool, tried, Dial!Without(list, Addresses \ Routable))
      BY <1>1, <2>2 DEF Dial!Collected
    <3>3. PICK S \in SUBSET Addresses : S = Resolved
      BY DEF Dial!PeerSetAssumption
    <3>4. list = <<>> \/ list \in Seq(S)
      <4>1. list = <<>> \/ list \in Dial!SetToSeqs(S)
        BY <3>2, <3>3
      <4> QED BY <4>1, OrderIn
    <3>5. list \in Seq(Addresses)
      <4>1. CASE list = <<>>
        BY <4>1
      <4>2. CASE list \in Seq(S)
        BY <4>2, SeqInto
      <4> QED BY <3>4, <4>1, <4>2
    <3> QED BY <3>1, <3>2, <3>5, GossipedClean
  <2> QED BY <2>1, <2>2
<1>3. Permitted' = Permitted /\ Clean' = Clean
  BY <1>1 DEF Permitted, Clean
<1> QED BY <1>1, <1>2, <1>3 DEF PermitInv

(* and seeding, from the pins or from fixed seeds and the book. *)
LEMMA PermitSeed ==
  ASSUME Dial!PeerSetAssumption, PermitInv, Dial!Seed
  PROVE  PermitInv' /\ dialing' = dialing
<1>1. UNCHANGED <<hosts, redial, pinned, book, dialing, connected>>
  BY DEF Dial!Seed, Dial!peerVars
<1>2. PICK fixed \in Dial!SetToSeqs(Dial!Range(Fixed)), kept \in Dial!SetToSeqs(book) :
          pool' = Dial!Readmit(<<>>, IF pinned = <<>> THEN <<fixed, kept>> ELSE <<pinned>>).pool
  BY DEF Dial!Seed
<1>3. PICK lists : lists = IF pinned = <<>> THEN <<fixed, kept>> ELSE <<pinned>>
  OBVIOUS
<1>4. lists \in Seq(Seq(Permitted))
  <2>1. CASE pinned = <<>>
    <3>1. Dial!Range(Fixed) \in SUBSET Addresses /\ book \in SUBSET Addresses
      BY DEF Dial!Range, Dial!PeerSetAssumption, PermitInv
    <3>2. PICK S \in SUBSET Addresses, T \in SUBSET Addresses : S = Dial!Range(Fixed) /\ T = book
      BY <3>1
    <3>3. fixed \in Seq(S) /\ kept \in Seq(T)
      <4>1. fixed \in Dial!SetToSeqs(S) /\ kept \in Dial!SetToSeqs(T)
        BY <1>2, <3>2
      <4> QED BY <4>1, OrderIn
    <3>4. fixed \in Seq(Addresses) /\ kept \in Seq(Addresses)
      BY <3>3
    <3>5. lists = <<fixed, kept>>
      BY <1>3, <2>1
    <3> QED BY <2>1, <3>4, <3>5, AllPermitted
  <2>2. CASE pinned # <<>>
    <3>1. \A i \in 1..Len(pinned) : pinned[i] \in Permitted
      BY DEF PermitInv, Permitted, Range
    <3>2. pinned \in Seq(Permitted)
      <4>1. PICK pins, G : pins = pinned /\ G = Permitted
        OBVIOUS
      <4>2. pins \in Seq(Addresses) /\ \A i \in 1..Len(pins) : pins[i] \in G
        BY <3>1, <4>1 DEF PermitInv
      <4>3. pins \in Seq(G)
        BY <4>2, SeqInto
      <4> QED BY <4>1, <4>3
    <3>3. lists = <<pinned>>
      BY <1>3, <2>2
    <3> QED BY <3>2, <3>3
  <2> QED BY <2>1, <2>2
<1>5. pool' \in Seq(Clean)
  BY <1>2, <1>3, <1>4, ReadmitClean
<1>6. Permitted' = Permitted /\ Clean' = Clean
  BY <1>1 DEF Permitted, Clean
<1> QED BY <1>1, <1>5, <1>6 DEF PermitInv

(* launch takes what is not banned, from the redials or from the pool. *)
LEMMA PermitLaunch ==
  ASSUME PermitInv, NEW due \in BOOLEAN, Dial!Launch(due)
  PROVE  PermitInv' /\ \A a \in dialing' \ dialing : Ip[a] \notin hosts
<1>1. /\ UNCHANGED <<hosts, pinned, book, connected>> /\ (due => redial # <<>>)
      /\ redial' = Dial!NextAddress(due).redial /\ pool' = Dial!NextAddress(due).pool
      /\ dialing' \subseteq dialing \cup {Dial!NextAddress(due).address}
      /\ Dial!NextAddress(due).address = None => dialing' = dialing
  BY DEF Dial!Launch
<1>2. PICK n : n = Dial!NextAddress(due)
  OBVIOUS
<1>3. pool \in Seq(Clean) /\ redial \in Seq(Permitted)
  BY DEF PermitInv
<1>4. /\ due => Head(redial) \in Permitted /\ Tail(redial) \in Seq(Permitted)
      /\ pool # <<>> => Head(pool) \in Clean /\ Tail(pool) \in Seq(Clean)
  BY <1>1, <1>3, HeadTailProperties
<1>5. /\ n.redial \in Seq(Permitted) /\ n.pool \in Seq(Clean)
      /\ n.address = None \/ n.address \in Clean
  <2>1. CASE due /\ ~Dial!Barred(Head(redial))
    <3>1. n = [address |-> Head(redial), redial |-> Tail(redial), pool |-> pool]
      BY <1>2, <2>1 DEF Dial!NextAddress
    <3>2. Head(redial) \in Clean
      BY <1>4, <2>1 DEF Dial!Barred, Clean
    <3> QED BY <1>3, <1>4, <2>1, <3>1, <3>2
  <2>2. CASE ~(due /\ ~Dial!Barred(Head(redial))) /\ pool = <<>>
    <3>1. n = [address |-> None, redial |-> IF due THEN Tail(redial) ELSE redial, pool |-> pool]
      BY <1>2, <2>2 DEF Dial!NextAddress
    <3> QED BY <1>3, <1>4, <3>1
  <2>3. CASE ~(due /\ ~Dial!Barred(Head(redial))) /\ pool # <<>>
    <3>1. n = [address |-> Head(pool), redial |-> IF due THEN Tail(redial) ELSE redial,
               pool |-> Tail(pool)]
      BY <1>2, <2>3 DEF Dial!NextAddress
    <3> QED BY <1>3, <1>4, <2>3, <3>1
  <2> QED BY <2>1, <2>2, <2>3
<1>6. \A a \in dialing' \ dialing : a \in Clean
  BY <1>1, <1>2, <1>5
<1>7. Permitted' = Permitted /\ Clean' = Clean
  BY <1>1 DEF Permitted, Clean
<1>8. dialing' \subseteq Permitted
  BY <1>6 DEF PermitInv, Clean
<1>9. \A a \in dialing' \ dialing : Ip[a] \notin hosts
  BY <1>6 DEF Clean
<1> QED BY <1>1, <1>2, <1>5, <1>7, <1>8, <1>9 DEF PermitInv

(* settle: whoever is connected was dialled. *)
LEMMA PermitReceive ==
  ASSUME PermitInv, DialInv, Dial!Receive
  PROVE  PermitInv' /\ dialing' \subseteq dialing
<1>1. /\ UNCHANGED <<hosts, pinned>> /\ dialing' = dialing \ {Head(results).address}
  BY DEF Dial!Receive
<1>2. PICK a \in Permitted : a = Head(results).address
  BY DialReceive DEF PermitInv
<1>3. a \in Addresses
  BY DEF Permitted
<1>4. \/ Dial!Connected(a) \/ Dial!UnreachableV6
      \/ UNCHANGED <<pool, redial, skipV6, book, connected>>
  BY <1>2 DEF Dial!Receive
<1>5. /\ book' \subseteq Addresses /\ connected' \subseteq Permitted
      /\ pool' \in Seq(Clean) /\ redial' \in Seq(Permitted)
  <2>1. CASE Dial!Connected(a)
    BY <1>2, <1>3, <2>1 DEF Dial!Connected, Dial!Recorded, PermitInv
  <2>2. CASE Dial!UnreachableV6
    <3>1. pool' = Dial!Without(pool, V6) /\ redial' = Dial!Without(redial, V6)
      BY <2>2 DEF Dial!UnreachableV6
    <3>2. PICK q, r, F, G : q = pool /\ r = redial /\ F = Clean /\ G = Permitted
      OBVIOUS
    <3>3. q \in Seq(F) /\ r \in Seq(G)
      BY <3>2 DEF PermitInv
    <3>4. Dial!Without(q, V6) \in Seq(F) /\ Dial!Without(r, V6) \in Seq(G)
      BY <3>3, WithoutStays
    <3> QED BY <2>2, <3>1, <3>2, <3>4 DEF Dial!UnreachableV6, PermitInv
  <2>3. CASE UNCHANGED <<pool, redial, skipV6, book, connected>>
    BY <2>3 DEF PermitInv
  <2> QED BY <1>4, <2>1, <2>2, <2>3
<1>6. Permitted' = Permitted /\ Clean' = Clean
  BY <1>1 DEF Permitted, Clean
<1> QED BY <1>1, <1>5, <1>6 DEF PermitInv

(* A dropped peer is dialled again later, *)
LEMMA PermitDrop ==
  ASSUME PermitInv, NEW a \in Addresses, Dial!DropPeer(a)
  PROVE  PermitInv' /\ dialing' = dialing
<1>1. /\ UNCHANGED <<hosts, pinned, book, pool, dialing>> /\ a \in connected
      /\ connected' = connected \ {a} /\ redial' = Dial!Dropped(redial, a)
  BY DEF Dial!DropPeer
<1>2. redial' \in Seq(Permitted)
  <2>1. PICK F, q : F = Permitted /\ q = redial
    OBVIOUS
  <2>2. q \in Seq(F) /\ a \in F
    BY <1>1, <2>1 DEF PermitInv
  <2>3. Append(q, a) \in Seq(F)
    BY <2>2, AppendProperties
  <2> QED BY <1>1, <2>1, <2>2, <2>3 DEF Dial!Dropped
<1>3. Permitted' = Permitted /\ Clean' = Clean
  BY <1>1 DEF Permitted, Clean
<1> QED BY <1>1, <1>2, <1>3 DEF PermitInv

(* and a banned host leaves every queue. *)
LEMMA PermitBan ==
  ASSUME PermitInv, NEW a \in Addresses, Dial!BanPeer(a)
  PROVE  PermitInv' /\ dialing' = dialing
<1>1. /\ UNCHANGED <<pinned, book, dialing>> /\ connected' = connected \ {a}
      /\ hosts' = hosts \cup {Ip[a]}
      /\ pool' = Dial!Without(pool, Dial!Behind(Ip[a]))
      /\ redial' = Dial!Without(redial, Dial!Behind(Ip[a]))
  BY DEF Dial!BanPeer, Dial!Ban
<1>2. PICK q, r, F, G, gone : /\ q = pool /\ r = redial /\ F = Clean /\ G = Permitted
                              /\ gone = Dial!Behind(Ip[a])
  OBVIOUS
<1>3. q \in Seq(F) /\ r \in Seq(G)
  BY <1>2 DEF PermitInv
<1>4. Dial!Without(q, gone) \in Seq(F \ gone) /\ Dial!Without(r, gone) \in Seq(G)
  BY <1>3, WithoutStays, WithoutLeaves
<1>5. Permitted' = Permitted
  BY <1>1 DEF Permitted
<1>6. Clean' = F \ gone
  BY <1>1, <1>2, <1>5 DEF Clean, Permitted, Dial!Behind
<1> QED BY <1>1, <1>2, <1>4, <1>5, <1>6 DEF PermitInv

(* Every step keeps it, and no step dials a banned host. *)
LEMMA PermitNext ==
  ASSUME Dial!PeerSetAssumption, PermitInv, DialInv, [Dial!Next]_(Dial!vars)
  PROVE  PermitInv' /\ \A a \in dialing' \ dialing : Ip[a] \notin hosts
<1>1. CASE UNCHANGED <<pinned, book, hosts, pool, redial, dialing, connected>>
  <2>1. Permitted' = Permitted /\ Clean' = Clean
    BY <1>1 DEF Permitted, Clean
  <2> QED BY <1>1, <2>1 DEF PermitInv
<1>2. CASE ~UNCHANGED <<pinned, book, hosts, pool, redial, dialing, connected>>
  <2>1. Dial!Next
    BY <1>2 DEF Dial!vars, Dial!peerVars, Dial!discoveryVars
  <2>2. \/ Dial!Maintain \/ Dial!Discover \/ Dial!Seed \/ Dial!Receive \/ Dial!Restart
        \/ \E due \in BOOLEAN : Dial!Launch(due)
        \/ \E a \in Addresses : Dial!DropPeer(a) \/ Dial!BanPeer(a)
    <3>1. ASSUME \/ Dial!LaunchEnds \/ Dial!SettleEnds \/ Dial!NetChange
                 \/ \E a \in Addresses : Dial!DialEnds(a)
          PROVE  UNCHANGED <<pinned, book, hosts, pool, redial, dialing, connected>>
      BY <3>1 DEF Dial!LaunchEnds, Dial!SettleEnds, Dial!NetChange, Dial!DialEnds,
                  Dial!peerVars, Dial!discoveryVars
    <3> QED BY <1>2, <2>1, <3>1 DEF Dial!Next, Dial!Worker
  <2>3. CASE Dial!Restart
    <3>1. /\ pool' = <<>> /\ redial' = <<>> /\ dialing' = {} /\ connected' = {}
          /\ pinned' = pinned /\ book' \in Dial!Books
      BY <2>3 DEF Dial!Restart, Dial!Start
    <3> QED BY <3>1, PermitFresh DEF PermitInv
  <2> QED BY <2>2, <2>3, PermitMaintain, PermitDiscover, PermitSeed, PermitReceive, PermitLaunch,
             PermitDrop, PermitBan
<1> QED BY <1>1, <1>2

(* A host that was banned is not dialled again while the process runs,      *)
(* whatever named it, and with pinned peers nobody else is ever dialled     *)
(* (Discovery::ban, admissible, dropped, next; Peers::discover).            *)
THEOREM DialsArePermitted == Dial!PeerSetAssumption => (Dial!Spec => Dial!DialsPermitted)
<1> SUFFICES ASSUME Dial!PeerSetAssumption PROVE Dial!Spec => Dial!DialsPermitted
  OBVIOUS
<1>1. Dial!Init => PermitInv /\ DialInv
  BY PermitInit, DialInit
<1>2. PermitInv /\ DialInv /\ [Dial!Next]_(Dial!vars) => PermitInv' /\ DialInv'
  BY PermitNext, DialNext
<1>3. PermitInv => Dial!PinnedOnly
  BY SameRange DEF PermitInv, Permitted, Dial!PinnedOnly
<1>4. PermitInv /\ DialInv /\ [Dial!Next]_(Dial!vars)
        => [\A a \in dialing' \ dialing : Ip[a] \notin hosts]_(Dial!vars)
  BY PermitNext
<1> QED BY <1>1, <1>2, <1>3, <1>4, PTL DEF Dial!Spec, Dial!DialsPermitted, Dial!BannedNotDialled
=============================================================================
