-------------------------- MODULE NamesSyncProofs --------------------------
(***************************************************************************)
(* What sync persists, for every tree of blocks, every catalogue of        *)
(* commits and reveals and every behaviour of the source: one chain that   *)
(* loads and can be undone and, except for what a window mixed inside      *)
(* rebuild_window does, the observations of a fresh scan of that chain.    *)
(***************************************************************************)
EXTENDS NamesSync, FiniteSetTheorems, SequenceTheorems, TLAPS

-----------------------------------------------------------------------------
(* Types. *)

Windows == UNION {[D -> Blocks] : D \in SUBSET Nat}
Entry == [block : Blocks,
          obs : {Observations(w, b, h) : w \in Windows, b \in Blocks, h \in Nat},
          mixed : BOOLEAN]
Index == [genesis_hash : Blocks, blocks : Seq(Blocks), window : Windows,
          registry : Seq(Entry), undo : Nat, rebuilt : Nat]

(* The index x is that of the chain c, and its checkpoints are the newest   *)
(* blocks it connected; all of them can be undone.                          *)
Chained(x, c) ==
    /\ Height(x) <= Len(c) /\ x.genesis_hash = c[GenesisHeight]
    /\ \A i \in 1..Len(x.registry) : x.registry[i].block = c[GenesisHeight + i]
Tailed(x) ==
    /\ Len(x.blocks) <= Len(x.registry) /\ x.undo = Len(x.blocks)
    /\ \A i \in 1..Len(x.blocks) :
          x.blocks[i] = x.registry[Len(x.registry) - Len(x.blocks) + i].block
Linked(x) == x \in Index /\ Tailed(x) /\ \E c \in Chains : Chained(x, c)

(* What the next call asks of the file. *)
Based(x) == x.blocks = <<>> => x.registry = <<>>
Below(x) == \A h \in DOMAIN x.window : h <= Height(x)

(* rebuild_window has read the blocks of the window up to some height. *)
Lowest(x) == IF Height(x) > GenesisHeight + RevealMax THEN Height(x) - RevealMax ELSE GenesisHeight
Spanned(x) == \E k \in Lowest(x) .. Height(x) : DOMAIN x.window = Lowest(x) + 1 .. k

IInv ==
    /\ chain \in Chains /\ removed \in Nat /\ locator \in Windows
    /\ pc \in {"off", "anchor", "tip"} => removed = 0
    /\ disk # None => Linked(disk) /\ Based(disk) /\ Below(disk)
    /\ pc # "off" => Linked(index)
    /\ pc \notin {"off", "rollback"} => Based(index)
    /\ pc # "off" /\ (pc # "rollback" \/ removed = 0) => Below(index)
    /\ pc = "rebuild" => Spanned(index)
    /\ pc = "connect" =>
          /\ block \in Blocks
          /\ \E c \in Chains : Chained(index, c) /\ Height(index) + 1 \in DOMAIN c
                               /\ c[Height(index) + 1] = block

-----------------------------------------------------------------------------
(* Chains. *)

LEMMA Numbers ==
    /\ GenesisHeight \in Nat \ {0} /\ RevealMax \in Nat \ {0} /\ Reversible \in Nat \ {0}
    /\ MaxBlocks \in Nat \ {0}
    /\ \A c \in Chains : c \in Seq(Blocks) /\ DOMAIN c = 1..Len(c) /\ Len(c) \in Nat
  BY NumberAssumption, ChainAssumption

(* A hash determines what is below it. *)
LEMMA SameBelow ==
  ASSUME NEW c \in Chains, NEW d \in Chains, NEW i \in DOMAIN c, i \in DOMAIN d, c[i] = d[i],
         NEW k \in 1..i
  PROVE  c[k] = d[k]
<1>1. SubSeq(c, 1, i) = SubSeq(d, 1, i)
  BY ChainAssumption
<1>2. i \in Nat /\ i <= Len(c) /\ i <= Len(d) /\ c \in Seq(Blocks) /\ d \in Seq(Blocks)
  BY Numbers
<1>3. SubSeq(c, 1, i)[k] = c[k] /\ SubSeq(d, 1, i)[k] = d[k]
  BY <1>2
<1> QED BY <1>1, <1>3

LEMMA HeightType ==
  ASSUME NEW x \in Index
  PROVE  /\ Height(x) \in Nat /\ Height(x) >= GenesisHeight /\ Len(x.registry) \in Nat
         /\ Len(x.blocks) \in Nat /\ x.registry \in Seq(Entry) /\ x.blocks \in Seq(Blocks)
         /\ Height(x) = GenesisHeight + Len(x.registry)
  BY Numbers DEF Height, Index

LEMMA EmptyType ==
    /\ \A s \in Seq(Blocks) : s = <<>> <=> Len(s) = 0
    /\ \A s \in Seq(Entry) : s = <<>> <=> Len(s) = 0
<1>1. \A s \in Seq(Blocks) : s = <<>> <=> Len(s) = 0
  BY EmptySeq
<1>2. \A s \in Seq(Entry) : s = <<>> <=> Len(s) = 0
  BY EmptySeq
<1> QED BY <1>1, <1>2

(* The last checkpoint is the block at the height of the index. *)
LEMMA LastIsTop ==
  ASSUME NEW x, Linked(x), Based(x) \/ x.blocks # <<>>, NEW c \in Chains, Chained(x, c)
  PROVE  Height(x) \in DOMAIN c /\ LastOf(x) = c[Height(x)]
<1>1. Height(x) \in DOMAIN c
  BY HeightType, Numbers DEF Linked, Chained
<1>2. CASE x.blocks = <<>>
  <2>1. x.registry = <<>>
    BY <1>2 DEF Based
  <2>2. Height(x) = GenesisHeight
    BY <2>1, Numbers DEF Height
  <2> QED BY <1>1, <1>2, <2>2 DEF LastOf, Chained
<1>3. CASE x.blocks # <<>>
  <2>0. x.blocks \in Seq(Blocks) /\ Len(x.blocks) \in Nat /\ Len(x.registry) \in Nat
    BY HeightType DEF Linked
  <2>1. Len(x.blocks) # 0
    BY <1>3, <2>0, EmptyType
  <2>a. /\ Len(x.registry) - Len(x.blocks) + Len(x.blocks) = Len(x.registry)
        /\ Len(x.blocks) \in 1..Len(x.blocks)
    BY <2>0, <2>1
  <2>2. x.blocks[Len(x.blocks)] = x.registry[Len(x.registry)].block
    BY <2>a DEF Linked, Tailed
  <2>3. Len(x.registry) \in 1..Len(x.registry)
    BY <2>0, <2>1 DEF Linked, Tailed
  <2> QED BY <1>1, <1>3, <2>2, <2>3 DEF LastOf, Chained, Height
<1> QED BY <1>2, <1>3

(* A chain that agrees at the height of the index is a chain of the index. *)
LEMMA Rechained ==
  ASSUME NEW x, Linked(x), Based(x) \/ x.blocks # <<>>, NEW d \in Chains,
         Height(x) \in DOMAIN d, d[Height(x)] = LastOf(x)
  PROVE  Chained(x, d)
<1>1. PICK c \in Chains : Chained(x, c)
  BY DEF Linked
<1>2. Height(x) \in DOMAIN c /\ c[Height(x)] = d[Height(x)]
  BY <1>1, LastIsTop
<1>3. \A k \in 1..Height(x) : c[k] = d[k]
  BY <1>2, SameBelow
<1>4. x \in Index
  BY DEF Linked
<1>5. GenesisHeight \in 1..Height(x) /\ \A i \in 1..Len(x.registry) : GenesisHeight + i \in 1..Height(x)
  BY <1>4, HeightType, Numbers
<1>6. Height(x) <= Len(d)
  BY Numbers
<1> QED BY <1>1, <1>3, <1>5, <1>6 DEF Chained

-----------------------------------------------------------------------------
(* The operations on an index. *)

(* disconnect *)
LEMMA DisconnectedLinked ==
  ASSUME NEW x, Linked(x), x.blocks # <<>>, x.undo > 0
  PROVE  Linked(Disconnected(x)) /\ Height(Disconnected(x)) = Height(x) - 1
<1>1. /\ x \in Index /\ x.blocks \in Seq(Blocks) /\ x.registry \in Seq(Entry)
      /\ Len(x.blocks) \in Nat /\ Len(x.registry) \in Nat
  BY HeightType DEF Linked
<1>2. Len(x.blocks) # 0 /\ Len(x.blocks) <= Len(x.registry) /\ x.undo = Len(x.blocks)
  BY <1>1, EmptyType DEF Linked, Tailed
<1>3. PICK bs : bs = Tail1(x.blocks)
  OBVIOUS
<1>4. PICK rs : rs = Tail1(x.registry)
  OBVIOUS
<1>5. /\ bs \in Seq(Blocks) /\ Len(bs) = Len(x.blocks) - 1
      /\ \A i \in 1..Len(bs) : bs[i] = x.blocks[i]
  BY <1>1, <1>2, <1>3 DEF Tail1
<1>6. /\ rs \in Seq(Entry) /\ Len(rs) = Len(x.registry) - 1
      /\ \A i \in 1..Len(rs) : rs[i] = x.registry[i]
  <2>1. Len(x.registry) > 0
    BY <1>1, <1>2
  <2> QED BY <1>1, <2>1, <1>4 DEF Tail1
<1>7. PICK y : y = Disconnected(x)
  OBVIOUS
<1>8. y = [x EXCEPT !.blocks = bs, !.registry = rs, !.undo = x.undo - 1]
  BY <1>3, <1>4, <1>7 DEF Disconnected
<1>9. /\ y.genesis_hash = x.genesis_hash /\ y.blocks = bs /\ y.registry = rs /\ y.undo = x.undo - 1
      /\ y.window = x.window /\ y \in Index
  <2>1. x.undo - 1 \in Nat
    BY <1>1, <1>2
  <2> QED BY <1>1, <1>5, <1>6, <1>8, <2>1 DEF Index
<1>10. Tailed(y)
  <2>1. Len(y.blocks) <= Len(y.registry) /\ y.undo = Len(y.blocks)
    BY <1>1, <1>2, <1>5, <1>6, <1>9
  <2>2. ASSUME NEW i \in 1..Len(bs)
        PROVE  bs[i] = rs[Len(rs) - Len(bs) + i].block
    <3>1. /\ i \in 1..Len(x.blocks) /\ Len(rs) - Len(bs) + i \in 1..Len(rs)
          /\ Len(rs) - Len(bs) + i = Len(x.registry) - Len(x.blocks) + i
      <4>1. i \in 1..(Len(x.blocks) - 1)
        BY <1>5
      <4>2. PICK b \in Nat : b = Len(x.blocks)
        BY <1>1
      <4>3. PICK r \in Nat : r = Len(x.registry)
        BY <1>1
      <4>4. b # 0 /\ b <= r /\ i \in 1..(b - 1)
        BY <1>2, <4>1, <4>2, <4>3
      <4>5. /\ i \in 1..b /\ (r - 1) - (b - 1) + i \in 1..(r - 1)
            /\ (r - 1) - (b - 1) + i = r - b + i
        BY <4>4
      <4> QED BY <1>5, <1>6, <4>2, <4>3, <4>5
    <3> QED BY <1>5, <1>6, <3>1 DEF Linked, Tailed
  <2> QED BY <1>9, <2>1, <2>2 DEF Tailed
<1>11. Height(y) = Height(x) - 1
  <2>1. Height(y) = GenesisHeight + (Len(x.registry) - 1) /\ Height(x) = GenesisHeight + Len(x.registry)
    BY <1>6, <1>9 DEF Height
  <2> QED BY <1>1, <2>1, Numbers
<1>12. \E c \in Chains : Chained(y, c)
  <2>1. PICK c \in Chains : Chained(x, c)
    BY DEF Linked
  <2>2. \A i \in 1..Len(rs) : i \in 1..Len(x.registry)
    BY <1>1, <1>6
  <2>3. Height(y) <= Len(c)
    BY <1>1, <1>11, <2>1, HeightType, Numbers DEF Chained
  <2>4. Chained(y, c)
    BY <1>6, <1>9, <2>1, <2>2, <2>3 DEF Chained
  <2> QED BY <2>4
<1> QED BY <1>7, <1>9, <1>10, <1>11, <1>12 DEF Linked

(* Only the window changes. *)
LEMMA WindowLinked ==
  ASSUME NEW x, Linked(x), NEW w \in Windows
  PROVE  LET y == [x EXCEPT !.window = w]
         IN  /\ Linked(y) /\ Height(y) = Height(x) /\ y.window = w
             /\ y.blocks = x.blocks /\ y.registry = x.registry /\ y.rebuilt = x.rebuilt
<1>1. PICK y : y = [x EXCEPT !.window = w]
  OBVIOUS
<1>2. /\ y \in Index /\ y.window = w /\ y.blocks = x.blocks /\ y.registry = x.registry
      /\ y.undo = x.undo /\ y.genesis_hash = x.genesis_hash /\ y.rebuilt = x.rebuilt
  BY <1>1 DEF Linked, Index
<1> QED BY <1>1, <1>2 DEF Linked, Tailed, Chained, Height

LEMMA NoWindowType == NoWindow \in Windows /\ DOMAIN NoWindow = {}
<1>1. NoWindow \in [{} -> Blocks] /\ {} \in SUBSET Nat
  BY DEF NoWindow
<1> QED BY <1>1 DEF Windows

(* The start of rebuild_window. *)
LEMMA ClearedLinked ==
  ASSUME NEW x, Linked(x)
  PROVE  LET y == [x EXCEPT !.window = NoWindow, !.rebuilt = Height(x)]
         IN  /\ Linked(y) /\ Height(y) = Height(x) /\ y.window = NoWindow /\ y.rebuilt = Height(x)
             /\ y.blocks = x.blocks /\ y.registry = x.registry
<1>1. PICK y : y = [x EXCEPT !.window = NoWindow, !.rebuilt = Height(x)]
  OBVIOUS
<1>2. Height(x) \in Nat
  BY HeightType DEF Linked
<1>3. /\ y \in Index /\ y.window = NoWindow /\ y.blocks = x.blocks /\ y.registry = x.registry
      /\ y.undo = x.undo /\ y.genesis_hash = x.genesis_hash /\ y.rebuilt = Height(x)
  BY <1>1, <1>2, NoWindowType DEF Linked, Index
<1> QED BY <1>1, <1>3 DEF Linked, Tailed, Chained, Height

(* The checkpoints that trim keeps. *)
Keep == Larger(RevealMax, Reversible)

(* trim: fewer checkpoints and fewer blocks in the window. *)
LEMMA TrimLinked ==
  ASSUME NEW x, Linked(x), x.blocks # <<>>
  PROVE  /\ Linked(Trim(x)) /\ Trim(x).registry = x.registry /\ Trim(x).blocks # <<>>
         /\ Trim(x).genesis_hash = x.genesis_hash
         /\ Trim(x).rebuilt = x.rebuilt
         /\ \/ /\ Len(x.blocks) < Keep
               /\ Trim(x).window = x.window /\ Trim(x).blocks = x.blocks
            \/ /\ Trim(x).window = Retain(x.window, Height(x) + 1)
               /\ Len(Trim(x).blocks) = Keep
<1>1. /\ x \in Index /\ x.blocks \in Seq(Blocks) /\ x.registry \in Seq(Entry)
      /\ Len(x.blocks) \in Nat /\ Len(x.registry) \in Nat
  BY HeightType DEF Linked
<1>2. Len(x.blocks) # 0 /\ Len(x.blocks) <= Len(x.registry) /\ x.undo = Len(x.blocks)
  BY <1>1, EmptyType DEF Linked, Tailed
<1>3. PICK keep \in Nat \ {0} : keep = Larger(RevealMax, Reversible)
  BY Numbers DEF Larger
<1>4. CASE Len(x.blocks) < keep
  <2>1. Trim(x) = x
    BY <1>3, <1>4 DEF Trim
  <2> QED BY <1>3, <1>4, <2>1 DEF Keep
<1>5. CASE ~(Len(x.blocks) < keep)
  <2>1. PICK bs : bs = SubSeq(x.blocks, Len(x.blocks) - keep + 1, Len(x.blocks))
    OBVIOUS
  <2>2. Len(x.blocks) - keep + 1 \in 1..Len(x.blocks) /\ Len(x.blocks) - keep \in Nat
    BY <1>1, <1>2, <1>3, <1>5
  <2>3. /\ bs \in Seq(Blocks) /\ Len(bs) = keep
        /\ \A i \in 1..keep : bs[i] = x.blocks[Len(x.blocks) - keep + i]
    <3>1. bs \in Seq(Blocks) /\ Len(bs) = keep
      BY <1>1, <1>3, <2>1, <2>2, SubSeqProperties
    <3>2. ASSUME NEW i \in 1..keep PROVE bs[i] = x.blocks[Len(x.blocks) - keep + i]
      <4>1. keep <= Len(x.blocks)
        BY <1>1, <1>3, <1>5
      <4>2. PICK m \in Int : m = Len(x.blocks) - keep + 1
        <5>1. Len(x.blocks) - keep + 1 \in Int
          BY <1>1, <1>3
        <5> QED BY <5>1
      <4>3. i \in 1 .. Len(x.blocks) - m + 1 /\ m + i - 1 = Len(x.blocks) - keep + i
        BY <1>1, <1>3, <4>1, <4>2
      <4>4. \A k \in m .. Len(x.blocks) : x.blocks[k] \in Blocks
        BY <1>1, <2>2, <4>2
      <4>5. bs[i] = x.blocks[m + i - 1]
        BY <1>1, <2>1, <4>2, <4>3, <4>4, SubSeqProperties
      <4> QED BY <4>3, <4>5
    <3> QED BY <3>1, <3>2
  <2>4. PICK w : w = Retain(x.window, Height(x) + 1)
    OBVIOUS
  <2>5. w \in Windows
    <3>1. PICK D \in SUBSET Nat : x.window \in [D -> Blocks]
      BY <1>1 DEF Index, Windows
    <3>2. PICK E : E = {k \in DOMAIN x.window : k + RevealMax >= Height(x) + 1}
      OBVIOUS
    <3>3. w \in [E -> Blocks] /\ E \in SUBSET Nat
      BY <2>4, <3>1, <3>2 DEF Retain
    <3> QED BY <3>3 DEF Windows
  <2>6. PICK y : y = Trim(x)
    OBVIOUS
  <2>7. y = [x EXCEPT !.blocks = bs, !.undo = keep, !.window = w]
    <3>1. x.undo >= keep
      BY <1>1, <1>2, <1>3, <1>5
    <3> QED BY <1>3, <1>5, <2>1, <2>4, <2>6, <3>1 DEF Trim
  <2>8. /\ y \in Index /\ y.window = w /\ y.blocks = bs /\ y.registry = x.registry
        /\ y.undo = keep /\ y.genesis_hash = x.genesis_hash /\ y.rebuilt = x.rebuilt
    BY <1>1, <2>3, <2>5, <2>7 DEF Index
  <2>9. Tailed(y)
    <3>1. keep <= Len(x.registry)
      BY <1>1, <1>2, <1>3, <1>5
    <3>2. ASSUME NEW i \in 1..keep
          PROVE  bs[i] = x.registry[Len(x.registry) - keep + i].block
      <4>1. PICK j : j = Len(x.blocks) - keep + i
        OBVIOUS
      <4>2. j \in 1..Len(x.blocks) /\ Len(x.registry) - Len(x.blocks) + j = Len(x.registry) - keep + i
        <5>1. keep <= Len(x.blocks)
          BY <1>1, <1>3, <1>5
        <5>2. PICK b \in Nat : b = Len(x.blocks)
          BY <1>1
        <5>3. PICK r \in Nat : r = Len(x.registry)
          BY <1>1
        <5>4. b <= r /\ keep <= b /\ keep \in Nat
          BY <1>2, <1>3, <5>1, <5>2, <5>3
        <5>5. b - keep + i \in 1..b /\ r - b + (b - keep + i) = r - keep + i
          BY <5>4
        <5> QED BY <4>1, <5>2, <5>3, <5>5
      <4>3. x.blocks[j] = x.registry[Len(x.registry) - Len(x.blocks) + j].block
        BY <4>2 DEF Linked, Tailed
      <4> QED BY <2>3, <4>1, <4>2, <4>3
    <3> QED BY <2>3, <2>8, <3>1, <3>2 DEF Tailed
  <2>10. \E c \in Chains : Chained(y, c)
    BY <2>8 DEF Linked, Chained, Height
  <2>11. y.blocks # <<>>
    BY <1>3, <2>3, <2>8, EmptyType
  <2> QED BY <1>3, <2>3, <2>4, <2>6, <2>8, <2>9, <2>10, <2>11 DEF Linked, Keep
<1> QED BY <1>4, <1>5

(* One more block in a window. *)
Widened(w, h, b) == [k \in DOMAIN w \cup {h} |-> IF k = h THEN b ELSE w[k]]

LEMMA WidenedType ==
  ASSUME NEW w \in Windows, NEW h \in Nat, NEW b \in Blocks
  PROVE  Widened(w, h, b) \in Windows
<1>1. PICK D \in SUBSET Nat : w \in [D -> Blocks]
  BY DEF Windows
<1>2. Widened(w, h, b) \in [D \cup {h} -> Blocks]
  BY <1>1 DEF Widened
<1> QED BY <1>2 DEF Windows

(* The end of scan_block. *)
LEMMA ConnectedLinked ==
  ASSUME NEW x, Linked(x), NEW b \in Blocks, NEW e \in Entry, e.block = b,
         NEW c \in Chains, Chained(x, c), Height(x) + 1 \in DOMAIN c, c[Height(x) + 1] = b
  PROVE  LET y == Connected(x, e)
             W == Widened(x.window, Height(x) + 1, b)
         IN  /\ Linked(y) /\ Based(y) /\ y.registry = Append(x.registry, e)
             /\ Height(y) = Height(x) + 1 /\ y.rebuilt = x.rebuilt
             /\ \/ /\ Len(x.blocks) + 1 < Keep
                   /\ y.window = W /\ Len(y.blocks) = Len(x.blocks) + 1
                \/ y.window = Retain(W, Height(x) + 2) /\ Len(y.blocks) = Keep
<1>1. /\ x \in Index /\ x.blocks \in Seq(Blocks) /\ x.registry \in Seq(Entry) /\ Height(x) \in Nat
      /\ Len(x.blocks) \in Nat /\ Len(x.registry) \in Nat /\ Height(x) = GenesisHeight + Len(x.registry)
  BY HeightType DEF Linked
<1>3. PICK bs : bs = Append(x.blocks, b)
  OBVIOUS
<1>4. PICK rs : rs = Append(x.registry, e)
  OBVIOUS
<1>5. /\ bs \in Seq(Blocks) /\ Len(bs) = Len(x.blocks) + 1 /\ bs[Len(x.blocks) + 1] = b
      /\ \A i \in 1..Len(x.blocks) : bs[i] = x.blocks[i]
  BY <1>1, <1>3
<1>6. /\ rs \in Seq(Entry) /\ Len(rs) = Len(x.registry) + 1 /\ rs[Len(x.registry) + 1] = e
      /\ \A i \in 1..Len(x.registry) : rs[i] = x.registry[i]
  BY <1>1, <1>4
<1>7. PICK w : w = Widened(x.window, Height(x) + 1, b)
  OBVIOUS
<1>8. w \in Windows
  <2>1. x.window \in Windows /\ Height(x) + 1 \in Nat
    BY <1>1 DEF Index
  <2> QED BY <1>7, <2>1, WidenedType
<1>9. PICK z : z = [x EXCEPT !.registry = rs, !.undo = x.undo + 1, !.window = w, !.blocks = bs]
  OBVIOUS
<1>10. /\ z \in Index /\ z.registry = rs /\ z.undo = x.undo + 1 /\ z.window = w /\ z.blocks = bs
       /\ z.genesis_hash = x.genesis_hash /\ z.rebuilt = x.rebuilt
  <2>1. x.undo + 1 \in Nat
    BY <1>1 DEF Index
  <2> QED BY <1>1, <1>5, <1>6, <1>8, <1>9, <2>1 DEF Index
<1>11. Connected(x, e) = Trim(z)
  <2>1. Widened(x.window, Height(x) + 1, b)
          = [k \in DOMAIN x.window \cup {Height(x) + 1} |-> IF k = Height(x) + 1 THEN b ELSE x.window[k]]
    BY DEF Widened
  <2> QED BY <1>3, <1>4, <1>7, <1>9, <2>1 DEF Connected
<1>12. Height(z) = Height(x) + 1
  <2>1. Height(z) = GenesisHeight + (Len(x.registry) + 1)
    BY <1>6, <1>10 DEF Height
  <2> QED BY <1>1, <2>1, Numbers
<1>13. Tailed(z)
  <2>1. PICK m \in Nat : m = Len(x.blocks)
    BY <1>1
  <2>2. PICK r \in Nat : r = Len(x.registry)
    BY <1>1
  <2>3. m <= r /\ x.undo = m
    BY <2>1, <2>2 DEF Linked, Tailed
  <2>4. Len(bs) = m + 1 /\ Len(rs) = r + 1
    BY <1>5, <1>6, <2>1, <2>2
  <2>5. ASSUME NEW i \in 1..(m + 1)
        PROVE  bs[i] = rs[(r + 1) - (m + 1) + i].block
    <3>1. CASE i = m + 1
      <4>1. (r + 1) - (m + 1) + i = r + 1
        BY <2>3, <3>1
      <4>2. bs[m + 1] = b /\ rs[r + 1].block = b
        BY <1>5, <1>6, <2>1, <2>2
      <4> QED BY <3>1, <4>1, <4>2
    <3>2. CASE i # m + 1
      <4>1. i \in 1..m /\ (r + 1) - (m + 1) + i = r - m + i /\ r - m + i \in 1..r
        BY <2>3, <2>5, <3>2
      <4>2. x.blocks[i] = x.registry[r - m + i].block
        BY <2>1, <2>2, <4>1 DEF Linked, Tailed
      <4> QED BY <1>5, <1>6, <2>1, <2>2, <4>1, <4>2
    <3> QED BY <3>1, <3>2
  <2>6. m + 1 <= r + 1 /\ x.undo + 1 = m + 1
    BY <2>3
  <2> QED BY <1>10, <2>4, <2>5, <2>6 DEF Tailed
<1>14. Chained(z, c)
  <2>1. Height(z) <= Len(c)
    BY <1>12, Numbers
  <2>2. ASSUME NEW i \in 1..Len(rs)
        PROVE  rs[i].block = c[GenesisHeight + i]
    <3>1. CASE i = Len(x.registry) + 1
      <4>1. GenesisHeight + i = Height(x) + 1
        BY <1>1, <3>1, Numbers
      <4> QED BY <1>6, <3>1, <4>1
    <3>2. CASE i # Len(x.registry) + 1
      <4>1. i \in 1..Len(x.registry)
        BY <1>1, <1>6, <3>2
      <4> QED BY <1>6, <4>1 DEF Chained
    <3> QED BY <3>1, <3>2
  <2>3. z.genesis_hash = c[GenesisHeight]
    BY <1>10 DEF Chained
  <2> QED BY <1>10, <2>1, <2>2, <2>3 DEF Chained
<1>15. Linked(z) /\ z.blocks # <<>>
  <2>1. Len(bs) # 0
    BY <1>1, <1>5
  <2> QED BY <1>5, <1>10, <1>13, <1>14, <2>1, EmptyType DEF Linked
<1>16. PICK y : y = Trim(z)
  OBVIOUS
<1>17. /\ Linked(y) /\ y.registry = rs /\ y.blocks # <<>> /\ y.rebuilt = x.rebuilt
       /\ \/ Len(bs) < Keep /\ y.window = w /\ y.blocks = bs
          \/ y.window = Retain(w, Height(z) + 1) /\ Len(y.blocks) = Keep
  BY <1>10, <1>15, <1>16, TrimLinked
<1>18. Height(y) = Height(x) + 1
  BY <1>10, <1>12, <1>17 DEF Height
<1>19. Height(z) + 1 = Height(x) + 2
  BY <1>1, <1>12
<1> QED BY <1>4, <1>5, <1>7, <1>11, <1>16, <1>17, <1>18, <1>19 DEF Based

-----------------------------------------------------------------------------
(* One chain that loads. *)

LEMMA InitInv == Init => IInv
  BY NoWindowType DEF Init, IInv

(* The end of a call, and what the environment does. *)
LEMMA OffInv ==
  ASSUME IInv, Off, UNCHANGED <<chain, disk>>
  PROVE  IInv'
  BY NoWindowType DEF IInv, Off

LEMMA ReorgInv ==
  ASSUME IInv, Reorg
  PROVE  IInv'
  BY DEF IInv, Reorg

(* A first index is that of the genesis block alone. *)
LEMMA NewIndexLinked ==
  ASSUME NEW c \in Chains, GenesisHeight \in DOMAIN c
  PROVE  LET x == NewIndex(c[GenesisHeight])
         IN  /\ Linked(x) /\ Based(x) /\ Below(x) /\ Height(x) = GenesisHeight /\ x.window = NoWindow
             /\ x.rebuilt = GenesisHeight
<1>1. PICK x : x = NewIndex(c[GenesisHeight])
  OBVIOUS
<1>2. /\ x.genesis_hash = c[GenesisHeight] /\ x.blocks = <<>> /\ x.window = NoWindow
      /\ x.registry = <<>> /\ x.undo = 0 /\ x.rebuilt = GenesisHeight
  BY <1>1 DEF NewIndex
<1>3. c[GenesisHeight] \in Blocks /\ GenesisHeight <= Len(c) /\ GenesisHeight \in Nat
  BY Numbers
<1>4. x \in Index
  <2>1. <<>> \in Seq(Blocks) /\ <<>> \in Seq(Entry)
    OBVIOUS
  <2> QED BY <1>1, <1>3, <2>1, NoWindowType DEF NewIndex, Index
<1>5. Len(x.registry) = 0 /\ Len(x.blocks) = 0 /\ 1..0 = {}
  BY <1>2
<1>6. Height(x) = GenesisHeight
  BY <1>3, <1>5 DEF Height
<1>7. Tailed(x) /\ Chained(x, c)
  BY <1>2, <1>3, <1>5, <1>6 DEF Tailed, Chained
<1> QED BY <1>1, <1>2, <1>4, <1>6, <1>7, NoWindowType DEF Linked, Based, Below

LEMMA StartInv ==
  ASSUME IInv, Start
  PROVE  IInv'
<1>1. /\ pc = "off" /\ pc' = "anchor" /\ UNCHANGED <<chain, disk, locator, removed>>
  BY DEF Start
<1>2. Linked(index') /\ Based(index') /\ Below(index')
  <2>1. CASE disk # None /\ index' = disk
    BY <2>1 DEF IInv
  <2>2. CASE VerifyGenesis /\ index' = NewIndex(chain[GenesisHeight])
    BY <2>2, NewIndexLinked DEF IInv, VerifyGenesis
  <2> QED BY <2>1, <2>2 DEF Start
<1> QED BY <1>1, <1>2 DEF IInv

(* The heights that rebuild_window reads. *)
LEMMA LowestType ==
  ASSUME NEW x \in Index
  PROVE  /\ Height(x) \in Nat /\ Lowest(x) \in Nat /\ Lowest(x) <= Height(x)
         /\ GenesisHeight <= Lowest(x) /\ Lowest(x) + RevealMax >= Height(x)
         /\ Lowest(x) + RevealMax > Height(x) => Lowest(x) = GenesisHeight
<1>1. Height(x) \in Nat /\ Height(x) >= GenesisHeight
  BY HeightType
<1> QED BY <1>1, Numbers DEF Lowest

LEMMA EmptySpanned ==
  ASSUME NEW x \in Index, DOMAIN x.window = {}
  PROVE  Spanned(x)
<1>1. Lowest(x) \in Lowest(x) .. Height(x) /\ Lowest(x) + 1 .. Lowest(x) = {}
  BY LowestType
<1> QED BY <1>1 DEF Spanned

LEMMA RolledBackInv ==
  ASSUME IInv, pc = "rollback", RolledBack, UNCHANGED <<chain, disk>>, Based(index)
  PROVE  IInv'
<1>1. UNCHANGED <<locator, removed>> /\ Linked(index)
  BY DEF RolledBack, IInv
<1>2. CASE removed > 0
  <2>1. pc' = "rebuild" /\ index' = [index EXCEPT !.window = NoWindow, !.rebuilt = Height(index)]
    BY <1>2 DEF RolledBack
  <2>2. PICK y : y = [index EXCEPT !.window = NoWindow, !.rebuilt = Height(index)]
    OBVIOUS
  <2>3. Linked(y) /\ y.window = NoWindow /\ y.blocks = index.blocks /\ y.registry = index.registry
    BY <1>1, <2>2, ClearedLinked
  <2>4. Based(y) /\ Below(y)
    BY <2>3, NoWindowType DEF Based, Below
  <2>5. Spanned(y)
    BY <2>3, EmptySpanned, NoWindowType DEF Linked
  <2> QED BY <1>1, <2>1, <2>2, <2>3, <2>4, <2>5 DEF IInv
<1>3. CASE ~(removed > 0)
  <2>1. pc' = "persist" /\ index' = index
    BY <1>3 DEF RolledBack
  <2>2. removed = 0
    BY <1>3 DEF IInv
  <2> QED BY <1>1, <2>1, <2>2 DEF IInv
<1> QED BY <1>2, <1>3

LEMMA RollbackInv ==
  ASSUME IInv, Rollback
  PROVE  IInv'
<1>1. pc = "rollback" /\ UNCHANGED <<chain, disk>> /\ Linked(index) /\ index \in Index
  BY DEF Rollback, IInv, Linked
<1>2. CASE Off
  BY <1>1, <1>2, OffInv
<1>3. CASE RolledBack /\ index.blocks # <<>>
  BY <1>1, <1>3, RolledBackInv DEF Based
<1>4. CASE RolledBack /\ Height(index) = GenesisHeight
  <2>1. Len(index.registry) = 0
    <3>1. Len(index.registry) \in Nat
      BY <1>1, HeightType
    <3> QED BY <1>4, <3>1, Numbers DEF Height
  <2>2. index.registry = <<>>
    BY <1>1, <2>1, HeightType, EmptyType
  <2> QED BY <1>1, <1>4, <2>2, RolledBackInv DEF Based
<1>5. CASE /\ index.blocks # <<>> /\ index.undo > 0 /\ index' = Disconnected(index)
           /\ removed' = removed + 1 /\ UNCHANGED <<locator, pc>>
  <2>1. Linked(index')
    BY <1>1, <1>5, DisconnectedLinked
  <2>2. removed' \in Nat \ {0}
    BY <1>5 DEF IInv
  <2> QED BY <1>1, <1>5, <2>1, <2>2 DEF IInv
<1> QED BY <1>2, <1>3, <1>4, <1>5 DEF Rollback

LEMMA FloorType ==
  ASSUME NEW k \in Nat, index \in Index, Floor <= k, DOMAIN index.window = Floor + 1 .. k
  PROVE  Rebuilt = k
<1>1. Floor = Lowest(index)
  BY DEF Floor, Lowest
<1>2. Floor \in Nat
  BY <1>1, LowestType
<1>3. Cardinality(Floor + 1 .. k) = k - Floor
  <2>1. PICK a \in Int : a = Floor + 1
    BY <1>2
  <2>2. Cardinality(a .. k) = IF a > k THEN 0 ELSE k - a + 1
    BY FS_Interval
  <2> QED BY <1>2, <2>1, <2>2
<1> QED BY <1>2, <1>3 DEF Rebuilt

(* What rebuild_window has read so far. *)
LEMMA RebuiltSpan ==
  ASSUME IInv, pc = "rebuild"
  PROVE  /\ Rebuilt \in Nat /\ DOMAIN index.window = Floor + 1 .. Rebuilt
         /\ Floor <= Rebuilt /\ Rebuilt <= Height(index) /\ Floor = Lowest(index)
<1>1. index \in Index /\ Floor = Lowest(index)
  BY DEF IInv, Linked, Floor, Lowest
<1>2. PICK k \in Lowest(index) .. Height(index) : DOMAIN index.window = Lowest(index) + 1 .. k
  BY DEF IInv, Spanned
<1>3. k \in Nat /\ Floor <= k /\ k <= Height(index)
  BY <1>1, <1>2, LowestType
<1> QED BY <1>1, <1>2, <1>3, FloorType

LEMMA RebuildInv ==
  ASSUME IInv, RebuildWindow
  PROVE  IInv'
<1>1. pc = "rebuild" /\ UNCHANGED <<chain, disk>> /\ Linked(index)
  BY DEF RebuildWindow, IInv
<1>0. Rebuilt \in Nat /\ DOMAIN index.window = Floor + 1 .. Rebuilt /\ Floor <= Rebuilt
  BY <1>1, RebuiltSpan
<1>2. CASE Off
  BY <1>1, <1>2, OffInv
<1>3. CASE pc' = "persist" /\ UNCHANGED <<index, locator, removed>>
  BY <1>1, <1>3 DEF IInv
<1>4. CASE /\ Rebuilt < Height(index) /\ Rebuilt + 1 \in DOMAIN chain
           /\ index' = [index EXCEPT !.window =
                [h \in Floor + 1 .. Rebuilt + 1 |-> IF h = Rebuilt + 1 THEN chain[h] ELSE @[h]]]
           /\ UNCHANGED <<locator, pc, removed>>
  <2>1. PICK w : w = [h \in Floor + 1 .. Rebuilt + 1 |->
                        IF h = Rebuilt + 1 THEN chain[h] ELSE index.window[h]]
    OBVIOUS
  <2>2. index' = [index EXCEPT !.window = w]
    BY <1>4, <2>1
  <2>3. Floor \in Nat /\ Height(index) \in Nat /\ Floor = Lowest(index)
    BY <1>1, LowestType DEF Linked, Floor, Lowest
  <2>4. w \in Windows
    <3>1. PICK D \in SUBSET Nat : index.window \in [D -> Blocks]
      BY <1>1 DEF Linked, Index, Windows
    <3>2. ASSUME NEW h \in Floor + 1 .. Rebuilt + 1
          PROVE  (IF h = Rebuilt + 1 THEN chain[h] ELSE index.window[h]) \in Blocks
      <4>1. CASE h = Rebuilt + 1
        BY <1>4, <4>1, Numbers DEF IInv
      <4>2. CASE h # Rebuilt + 1
        <5>1. h \in Floor + 1 .. Rebuilt
          BY <1>0, <2>3, <3>2, <4>2
        <5> QED BY <1>0, <3>1, <4>2, <5>1
      <4> QED BY <4>1, <4>2
    <3>3. PICK R : R = Floor + 1 .. Rebuilt + 1
      OBVIOUS
    <3>4. R \in SUBSET Nat
      BY <2>3, <3>3
    <3>5. w \in [R -> Blocks]
      BY <2>1, <3>2, <3>3
    <3> QED BY <3>4, <3>5 DEF Windows
  <2>5. PICK y : y = [index EXCEPT !.window = w]
    OBVIOUS
  <2>6. /\ Linked(y) /\ y.window = w /\ y.blocks = index.blocks /\ y.registry = index.registry
        /\ Height(y) = Height(index)
    BY <1>1, <2>4, <2>5, WindowLinked
  <2>7. Based(y)
    BY <1>1, <2>6 DEF Based, IInv
  <2>8. Below(y)
    <3>1. DOMAIN w = Floor + 1 .. Rebuilt + 1
      BY <2>1
    <3>2. \A h \in Floor + 1 .. Rebuilt + 1 : h <= Height(index)
      BY <1>0, <1>4, <2>3
    <3> QED BY <2>6, <3>1, <3>2 DEF Below
  <2>9. Spanned(y)
    <3>1. Lowest(y) = Floor /\ DOMAIN y.window = Floor + 1 .. Rebuilt + 1
      BY <2>1, <2>3, <2>6 DEF Lowest
    <3>2. Rebuilt + 1 \in Floor .. Height(index)
      BY <1>0, <1>4, <2>3
    <3> QED BY <2>6, <3>1, <3>2 DEF Spanned
  <2> QED BY <1>1, <1>4, <2>2, <2>5, <2>6, <2>7, <2>8, <2>9 DEF IInv
<1> QED BY <1>2, <1>3, <1>4 DEF RebuildWindow

LEMMA QuietInv ==
  ASSUME IInv, Anchor \/ TipHeight \/ Persist \/ Save \/ Report \/ Stop
  PROVE  IInv'
<1>1. CASE Off /\ UNCHANGED <<chain, disk>>
  BY <1>1, OffInv
<1>2. CASE Anchor /\ ~Off
  BY <1>2 DEF Anchor, IInv
<1>3. CASE TipHeight
  BY <1>3 DEF TipHeight, IInv
<1>4. CASE Persist
  <2>1. index.window \in Windows
    BY <1>4 DEF Persist, IInv, Linked, Index
  <2> QED BY <1>4, <2>1 DEF Persist, IInv
<1>5. CASE Save
  BY <1>5 DEF Save, IInv
<1>6. CASE Report \/ Stop
  BY <1>1, <1>6 DEF Report, Stop
<1>7. CASE Anchor /\ Off
  BY <1>1, <1>7 DEF Anchor
<1> QED BY <1>2, <1>3, <1>4, <1>5, <1>6, <1>7

(* The block that scan_block takes is the next one of a chain of the index. *)
LEMMA FollowsChained ==
  ASSUME NEW b, Linked(index), Based(index), Follows(b)
  PROVE  /\ b \in Blocks
         /\ \E c \in Chains : Chained(index, c) /\ Height(index) + 1 \in DOMAIN c
                              /\ c[Height(index) + 1] = b
<1>1. PICK c \in Chains : /\ Height(index) + 1 \in DOMAIN c /\ c[Height(index) + 1] = b
                          /\ c[Height(index)] = LastOf(index)
  BY DEF Follows
<1>2. Height(index) \in Nat /\ Height(index) >= GenesisHeight
  BY HeightType DEF Linked
<1>3. Height(index) \in DOMAIN c /\ b \in Blocks
  BY <1>1, <1>2, Numbers
<1>4. Chained(index, c)
  BY <1>1, <1>3, Rechained
<1> QED BY <1>1, <1>3, <1>4

LEMMA ScanInv ==
  ASSUME IInv, ScanBlock
  PROVE  IInv'
<1>1. pc = "scan" /\ UNCHANGED <<chain, disk>> /\ Linked(index) /\ Based(index) /\ Below(index)
  BY DEF ScanBlock, IInv
<1>2. CASE Off
  BY <1>1, <1>2, OffInv
<1>3. CASE ~Off
  <2>1. PICK h : h = Height(index) + 1
    OBVIOUS
  <2>2. /\ Follows(chain[h]) /\ block' = chain[h] /\ pc' = "connect" /\ UNCHANGED <<index, removed>>
        /\ locator' = [k \in DOMAIN locator \cup {h} |-> IF k = h THEN chain[h] ELSE locator[k]]
    BY <1>3, <2>1 DEF ScanBlock
  <2>3. /\ chain[h] \in Blocks
        /\ \E c \in Chains : Chained(index, c) /\ Height(index) + 1 \in DOMAIN c
                             /\ c[Height(index) + 1] = chain[h]
    BY <1>1, <2>2, FollowsChained
  <2>4. h \in Nat /\ locator \in Windows
    BY <1>1, <2>1, HeightType DEF Linked, IInv
  <2>5. locator' \in Windows
    BY <2>2, <2>3, <2>4, WidenedType DEF Widened
  <2> QED BY <1>1, <2>2, <2>3, <2>5 DEF IInv
<1> QED BY <1>2, <1>3

LEMMA RetainType ==
  ASSUME NEW w \in Windows, NEW n
  PROVE  /\ Retain(w, n) \in Windows /\ DOMAIN Retain(w, n) \subseteq DOMAIN w
         /\ \A k \in DOMAIN Retain(w, n) : k + RevealMax >= n /\ Retain(w, n)[k] = w[k]
         /\ \A k \in DOMAIN w : k + RevealMax >= n => k \in DOMAIN Retain(w, n)
<1>1. PICK D \in SUBSET Nat : w \in [D -> Blocks]
  BY DEF Windows
<1>2. PICK E : E = {k \in DOMAIN w : k + RevealMax >= n}
  OBVIOUS
<1>3. /\ Retain(w, n) \in [E -> Blocks] /\ E \in SUBSET Nat /\ DOMAIN Retain(w, n) = E
      /\ \A k \in E : Retain(w, n)[k] = w[k]
  BY <1>1, <1>2 DEF Retain
<1> QED BY <1>2, <1>3 DEF Windows

LEMMA ConnectInv ==
  ASSUME IInv, ConnectBlock
  PROVE  IInv'
<1>1. /\ pc = "connect" /\ UNCHANGED <<chain, disk>> /\ Linked(index) /\ Below(index)
      /\ block \in Blocks /\ locator \in Windows
  BY DEF ConnectBlock, IInv
<1>2. CASE Off
  BY <1>1, <1>2, OffInv
<1>3. CASE ~Off
  <2>1. PICK h : h = Height(index) + 1
    OBVIOUS
  <2>2. h \in Nat /\ Height(index) \in Nat /\ index \in Index
    BY <1>1, <2>1, HeightType DEF Linked
  <2>3. PICK e : e = [block |-> block, mixed |-> Mixed(locator, index),
                      obs |-> Observations(locator, block, h)]
    OBVIOUS
  <2>4. /\ index' = Connected(index, e) /\ locator' = Retain(locator, h + 1)
        /\ pc' = "save" /\ UNCHANGED <<removed, block>>
    BY <1>3, <2>1, <2>3 DEF ConnectBlock
  <2>5. e \in Entry /\ e.block = block
    <3>1. Mixed(locator, index) \in BOOLEAN
      BY DEF Mixed
    <3> QED BY <1>1, <2>2, <2>3, <3>1 DEF Entry
  <2>6. PICK c \in Chains : Chained(index, c) /\ Height(index) + 1 \in DOMAIN c
                            /\ c[Height(index) + 1] = block
    BY <1>1 DEF IInv
  <2>7. PICK W : W = Widened(index.window, Height(index) + 1, block)
    OBVIOUS
  <2>8. PICK y : y = Connected(index, e)
    OBVIOUS
  <2>9. /\ Linked(y) /\ Based(y) /\ Height(y) = Height(index) + 1
        /\ y.window \in {W, Retain(W, Height(index) + 2)}
    BY <1>1, <2>5, <2>6, <2>7, <2>8, ConnectedLinked
  <2>10. W \in Windows /\ DOMAIN W = DOMAIN index.window \cup {h}
    <3>1. index.window \in Windows
      BY <2>2 DEF Index
    <3>2. W \in Windows
      BY <1>1, <2>1, <2>2, <2>7, <3>1, WidenedType
    <3> QED BY <2>1, <2>7, <3>2 DEF Widened
  <2>11. DOMAIN y.window \subseteq DOMAIN W
    BY <2>9, <2>10, RetainType
  <2>12. \A k \in DOMAIN index.window : k \in Nat
    BY <2>2 DEF Index, Windows
  <2>13. Below(y)
    BY <1>1, <2>1, <2>2, <2>9, <2>10, <2>11, <2>12 DEF Below
  <2>14. locator' \in Windows
    BY <1>1, <2>4, RetainType
  <2> QED BY <1>1, <2>4, <2>8, <2>9, <2>13, <2>14 DEF IInv
<1> QED BY <1>2, <1>3

LEMMA NextInv == IInv /\ [Next]_vars => IInv'
<1>1. ASSUME IInv, UNCHANGED vars PROVE IInv'
  BY <1>1 DEF IInv, vars
<1> QED BY <1>1, StartInv, QuietInv, RollbackInv, RebuildInv, ScanInv, ConnectInv, ReorgInv
        DEF Next, SyncStep

-----------------------------------------------------------------------------
(* From the shape of an index to what a run checks of it. *)

LEMMA PathType ==
  ASSUME NEW x \in Index
  PROVE  /\ Path(x) \in Seq(Blocks) /\ Len(Path(x)) = Len(x.registry) + 1 /\ Path(x)[1] = x.genesis_hash
         /\ \A i \in 1..Len(x.registry) : Path(x)[i + 1] = x.registry[i].block
<1>1. x.registry \in Seq(Entry) /\ Len(x.registry) \in Nat /\ x.genesis_hash \in Blocks
  BY HeightType DEF Index
<1>2. PICK n \in Nat : n = Len(x.registry)
  BY <1>1
<1>3. PICK q : q = [i \in 1..n |-> x.registry[i].block]
  OBVIOUS
<1>4. \A i \in 1..n : x.registry[i].block \in Blocks
  <2>1. \A e \in Entry : e.block \in Blocks
    BY DEF Entry
  <2>2. \A i \in 1..n : x.registry[i] \in Entry
    BY <1>1, <1>2
  <2> QED BY <2>1, <2>2
<1>5. q \in Seq(Blocks) /\ Len(q) = n /\ \A i \in 1..n : q[i] = x.registry[i].block
  BY <1>3, <1>4
<1>6. PICK g : g = <<x.genesis_hash>>
  OBVIOUS
<1>7. g \in Seq(Blocks) /\ Len(g) = 1 /\ g[1] = x.genesis_hash
  BY <1>1, <1>6
<1>8. PICK p : p = g \o q
  OBVIOUS
<1>9. /\ p \in Seq(Blocks) /\ Len(p) = Len(g) + Len(q)
      /\ \A i \in 1 .. Len(g) + Len(q) : p[i] = IF i <= Len(g) THEN g[i] ELSE q[i - Len(g)]
  <2>1. g \in Seq(Blocks) /\ q \in Seq(Blocks)
    BY <1>5, <1>7
  <2> QED BY <1>8, <2>1, ConcatProperties
<1>10. Len(p) = 1 + n /\ \A i \in 1 .. 1 + n : p[i] = IF i <= 1 THEN g[i] ELSE q[i - 1]
  <2>1. Len(g) = 1 /\ Len(q) = n
    BY <1>5, <1>7
  <2> QED BY <1>9, <2>1
<1>11. p[1] = x.genesis_hash /\ \A i \in 1..n : p[i + 1] = q[i]
  <2>1. 1 \in 1 .. 1 + n
    OBVIOUS
  <2>2. p[1] = g[1]
    BY <1>10, <2>1
  <2>3. ASSUME NEW i \in 1..n PROVE p[i + 1] = q[i]
    <3>1. i + 1 \in 1 .. 1 + n /\ ~(i + 1 <= 1) /\ (i + 1) - 1 = i
      OBVIOUS
    <3> QED BY <1>10, <3>1
  <2> QED BY <1>7, <2>2, <2>3
<1>12. Path(x) = p
  BY <1>2, <1>3, <1>6, <1>8 DEF Path
<1> QED BY <1>2, <1>5, <1>9, <1>10, <1>11, <1>12

LEMMA SameSeq ==
  ASSUME NEW s \in Seq(Blocks), NEW t \in Seq(Blocks), Len(s) = Len(t),
         \A i \in 1..Len(s) : s[i] = t[i]
  PROVE  s = t
  OBVIOUS

(* A slice of a sequence, element by element. *)
LEMMA Slice ==
  ASSUME NEW s \in Seq(Blocks), NEW a \in Nat \ {0}, NEW n \in Nat, a + n - 1 <= Len(s)
  PROVE  /\ SubSeq(s, a, a + n - 1) \in Seq(Blocks) /\ Len(SubSeq(s, a, a + n - 1)) = n
         /\ \A i \in 1..n : SubSeq(s, a, a + n - 1)[i] = s[a + i - 1]
<1>1. PICK m \in Int : m = a + n - 1
  OBVIOUS
<1>2. \A k \in a .. m : s[k] \in Blocks
  BY <1>1
<1>3. SubSeq(s, a, m) \in Seq(Blocks) /\ Len(SubSeq(s, a, m)) = n
  BY <1>1, <1>2, SubSeqProperties
<1>4. ASSUME NEW i \in 1..n PROVE SubSeq(s, a, m)[i] = s[a + i - 1]
  <2>1. i \in 1 .. m - a + 1
    BY <1>1
  <2> QED BY <1>1, <1>2, <2>1, SubSeqProperties
<1> QED BY <1>1, <1>3, <1>4

LEMMA LinkedIsOneChain ==
  ASSUME NEW x, Linked(x)
  PROVE  /\ \E c \in Chains : Len(c) >= Height(x) /\ Path(x) = SubSeq(c, GenesisHeight, Height(x))
         /\ x.blocks = SubSeq(Path(x), Len(Path(x)) - Len(x.blocks) + 1, Len(Path(x)))
<1>1. /\ x \in Index /\ x.blocks \in Seq(Blocks) /\ Len(x.blocks) \in Nat /\ Height(x) \in Nat
      /\ Len(x.registry) \in Nat /\ Height(x) = GenesisHeight + Len(x.registry)
  BY HeightType DEF Linked
<1>2. PICK c \in Chains : Chained(x, c)
  BY DEF Linked
<1>3. PICK n \in Nat : n = Len(x.registry)
  BY <1>1
<1>4. PICK m \in Nat : m = Len(x.blocks)
  BY <1>1
<1>5. m <= n
  BY <1>3, <1>4 DEF Linked, Tailed
<1>6. PICK p : p = Path(x)
  OBVIOUS
<1>7. p \in Seq(Blocks) /\ Len(p) = n + 1 /\ p[1] = x.genesis_hash
      /\ \A i \in 1..n : p[i + 1] = x.registry[i].block
  BY <1>1, <1>3, <1>6, PathType
<1>8. c \in Seq(Blocks) /\ GenesisHeight \in Nat \ {0} /\ Len(c) \in Nat
  BY Numbers
<1>9. GenesisHeight + (n + 1) - 1 = Height(x) /\ Height(x) <= Len(c)
  BY <1>1, <1>2, <1>3, <1>8 DEF Chained
<1>10. PICK s : s = SubSeq(c, GenesisHeight, Height(x))
  OBVIOUS
<1>11. s \in Seq(Blocks) /\ Len(s) = n + 1 /\ \A i \in 1..(n + 1) : s[i] = c[GenesisHeight + i - 1]
  <2>1. n + 1 \in Nat /\ GenesisHeight + (n + 1) - 1 <= Len(c)
    BY <1>9
  <2> QED BY <1>8, <1>9, <1>10, <2>1, Slice
<1>12. ASSUME NEW i \in 1..(n + 1) PROVE p[i] = s[i]
  <2>1. CASE i = 1
    <3>1. GenesisHeight + i - 1 = GenesisHeight
      BY <1>8, <2>1
    <3> QED BY <1>2, <1>7, <1>11, <2>1, <3>1 DEF Chained
  <2>2. CASE i # 1
    <3>1. PICK j \in 1..n : i = j + 1
      <4>1. i - 1 \in 1..n /\ i = (i - 1) + 1
        BY <2>2
      <4> QED BY <4>1
    <3>2. GenesisHeight + i - 1 = GenesisHeight + j
      BY <1>8, <3>1
    <3>3. p[j + 1] = c[GenesisHeight + j]
      BY <1>2, <1>3, <1>7 DEF Chained
    <3> QED BY <1>11, <3>1, <3>2, <3>3
  <2> QED BY <2>1, <2>2
<1>13. p = s
  BY <1>7, <1>11, <1>12, SameSeq
<1>14. PICK a \in Nat \ {0} : a = n + 1 - m + 1
  <2>1. n + 1 - m + 1 \in Nat \ {0}
    BY <1>5
  <2> QED BY <2>1
<1>15. a + m - 1 = n + 1
  BY <1>14
<1>16. PICK t : t = SubSeq(p, a, n + 1)
  OBVIOUS
<1>17. t \in Seq(Blocks) /\ Len(t) = m /\ \A i \in 1..m : t[i] = p[a + i - 1]
  BY <1>7, <1>15, <1>16, Slice
<1>18. ASSUME NEW i \in 1..m PROVE x.blocks[i] = t[i]
  <2>1. PICK j \in 1..n : j = n - m + i
    <3>1. n - m + i \in 1..n
      BY <1>5
    <3> QED BY <3>1
  <2>2. a + i - 1 = j + 1
    BY <1>14, <2>1
  <2>3. x.blocks[i] = x.registry[j].block
    BY <1>3, <1>4, <2>1 DEF Linked, Tailed
  <2> QED BY <1>7, <1>17, <2>2, <2>3
<1>19. x.blocks = t
  BY <1>1, <1>4, <1>17, <1>18, SameSeq
<1>20. t = SubSeq(Path(x), Len(Path(x)) - Len(x.blocks) + 1, Len(Path(x)))
  <2>1. Len(Path(x)) - Len(x.blocks) + 1 = a /\ Len(Path(x)) = n + 1
    BY <1>4, <1>6, <1>7, <1>14
  <2> QED BY <1>6, <1>16, <2>1
<1> QED BY <1>6, <1>8, <1>9, <1>10, <1>13, <1>19, <1>20

LEMMA InvSound == IInv => PersistedSound
<1> SUFFICES ASSUME IInv, disk # None PROVE PersistedSound
  BY DEF PersistedSound, OneChain, LoadAccepts
<1>1. Linked(disk) /\ Based(disk) /\ Below(disk)
  BY DEF IInv
<1>2. OneChain
  BY <1>1, LinkedIsOneChain DEF OneChain
<1>3. disk.blocks = <<>> => Height(disk) = GenesisHeight
  <2>1. disk.blocks = <<>> => Len(disk.registry) = 0
    BY <1>1 DEF Based
  <2> QED BY <2>1, Numbers DEF Height
<1>4. LoadAccepts
  BY <1>1, <1>3 DEF LoadAccepts, Load, Below, Linked, Tailed
<1> QED BY <1>2, <1>4 DEF PersistedSound

(* Whatever chain the source answers each call of sync from, and wherever   *)
(* the call is cut off, the persisted index is the index of one chain: its  *)
(* connected blocks follow each other from the genesis block, the           *)
(* checkpoints are the newest of them, NamesIndex::load accepts it and      *)
(* every checkpointed block can be undone.                                  *)
THEOREM PersistedIndexSound == Spec => []PersistedSound
<1>1. Init => IInv
  BY InitInv
<1>2. IInv /\ [Next]_vars => IInv'
  BY NextInv
<1>3. IInv => PersistedSound
  BY InvSound
<1> QED BY <1>1, <1>2, <1>3, PTL DEF Spec

-----------------------------------------------------------------------------
(* The observations of a fresh scan. *)

(* The window w holds all the blocks that a reveal in the next block may    *)
(* still reach.  Those above the height at which it was last read anew are  *)
(* blocks that x connected; some of the others may be left over from        *)
(* another branch, and they are gone Keep blocks later.                     *)
Covers(w, x) ==
    /\ \A k \in DOMAIN w : /\ k \in GenesisHeight + 1 .. Height(x)
                           /\ k > x.rebuilt => w[k] = BlockAt(x, k)
    /\ \A k \in GenesisHeight + 1 .. Height(x) : k + RevealMax > Height(x) => k \in DOMAIN w
    /\ Height(x) >= x.rebuilt + Keep => \A k \in DOMAIN w : k + RevealMax > Height(x)

(* The locator between the two looks at the block b that x connects next. *)
Ahead(w, x, b) ==
    /\ \A k \in DOMAIN w : /\ k \in GenesisHeight + 1 .. Height(x) + 1
                           /\ k = Height(x) + 1 => w[k] = b
                           /\ k <= Height(x) /\ k > x.rebuilt => w[k] = BlockAt(x, k)
    /\ \A k \in GenesisHeight + 1 .. Height(x) + 1 : k + RevealMax > Height(x) => k \in DOMAIN w
    /\ Height(x) >= x.rebuilt + Keep => \A k \in DOMAIN w : k + RevealMax > Height(x)

(* The index has the checkpoints of the blocks since then, up to Keep. *)
Long(x) == Len(x.blocks) >= Keep \/ Len(x.blocks) >= Height(x) - x.rebuilt

Kept(x) == Covers(x.window, x) /\ Long(x)

Observed(x) ==
    \A i \in 1..Len(x.registry) :
        Differs(x, i) => x.registry[i].mixed /\ GenesisHeight + i <= x.rebuilt + Keep

EInv ==
    /\ disk # None => Observed(disk) /\ Kept(disk)
    /\ pc # "off" => Observed(index)
    /\ pc \in {"anchor", "tip", "persist", "scan", "connect", "save"} => Kept(index)
    /\ pc = "rollback" /\ removed = 0 => Kept(index)
    /\ pc = "rebuild" => index.rebuilt = Height(index)
    /\ pc \in {"scan", "save"} => Covers(locator, index)
    /\ pc = "connect" => Ahead(locator, index, block)

LEMMA KeepType == Keep \in Nat \ {0} /\ RevealMax <= Keep
  BY Numbers DEF Keep, Larger

(* A commit is found in at most one block of a chain, so windows of one     *)
(* chain that have the same blocks in reach give the same observations.     *)
LEMMA OnePlace ==
  ASSUME NEW c \in Chains, NEW w, \A k \in DOMAIN w : k \in DOMAIN c /\ w[k] = c[k],
         NEW t, NEW k \in Located(w, t)
  PROVE  Locate(w, t) = k /\ Located(w, t) # {}
<1>1. \A j \in Located(w, t) : j = k
  <2> TAKE j \in Located(w, t)
  <2>1. /\ j \in DOMAIN c /\ k \in DOMAIN c /\ t \in DOMAIN CommitsIn[c[j]]
        /\ t \in DOMAIN CommitsIn[c[k]]
    BY DEF Located
  <2> QED BY <2>1, OnceAssumption
<1>2. k \in Nat
  BY Numbers DEF Located
<1>3. Located(w, t) = {k}
  BY <1>1
<1>4. k <= k
  BY <1>2
<1> QED BY <1>3, <1>4 DEF Locate

LEMMA SameReach ==
  ASSUME NEW c \in Chains, NEW v, NEW w, NEW b, NEW h,
         \A k \in DOMAIN v : k \in DOMAIN c /\ v[k] = c[k],
         \A k \in DOMAIN w : k \in DOMAIN c /\ w[k] = c[k],
         \A k \in DOMAIN v : h - k \in 1..RevealMax => k \in DOMAIN w
  PROVE  Observations(v, b, h) \subseteq Observations(w, b, h)
<1> SUFFICES ASSUME NEW o \in Observations(v, b, h) PROVE o \in Observations(w, b, h)
  OBVIOUS
<1>1. PICK t \in RevealsIn[b] :
         /\ Located(v, t) # {} /\ h - Locate(v, t) \in 1..RevealMax
         /\ o = [txid |-> t, height |-> Locate(v, t), position |-> CommitsIn[v[Locate(v, t)]][t]]
  BY DEF Observations
<1>2. PICK k \in Located(v, t) : TRUE
  BY <1>1
<1>3. Locate(v, t) = k
  BY <1>2, OnePlace
<1>4. k \in DOMAIN v /\ t \in DOMAIN CommitsIn[v[k]]
  BY <1>2 DEF Located
<1>5. k \in DOMAIN w /\ v[k] = w[k]
  BY <1>1, <1>3, <1>4
<1>6. k \in Located(w, t)
  BY <1>4, <1>5 DEF Located
<1>7. Locate(w, t) = k /\ Located(w, t) # {}
  BY <1>6, OnePlace
<1>8. /\ Located(w, t) # {} /\ h - Locate(w, t) \in 1..RevealMax
      /\ o = [txid |-> t, height |-> Locate(w, t), position |-> CommitsIn[w[Locate(w, t)]][t]]
  BY <1>1, <1>3, <1>5, <1>7
<1> QED BY <1>8 DEF Observations

(* A fresh scan of a block only looks at the blocks up to it. *)
LEMMA FreshPrefix ==
  ASSUME NEW x \in Index, NEW y, NEW i \in Nat \ {0},
         \A j \in 1..i : x.registry[j] = y.registry[j]
  PROVE  Fresh(x, i) = Fresh(y, i)
<1>1. PICK h \in Nat : h = GenesisHeight + i
  BY Numbers
<1>2. PICK low \in Int : low = Larger(GenesisHeight + 1, h - RevealMax)
  <2>1. Larger(GenesisHeight + 1, h - RevealMax) \in Int
    BY Numbers DEF Larger
  <2> QED BY <2>1
<1>3. low >= GenesisHeight + 1
  BY <1>2, Numbers DEF Larger
<1>4. \A k \in low .. h : BlockAt(x, k) = BlockAt(y, k)
  <2> TAKE k \in low .. h
  <2>1. k - GenesisHeight \in 1..i
    BY <1>1, <1>3, Numbers
  <2> QED BY <2>1 DEF BlockAt
<1>5. BlockAt(x, h) = BlockAt(y, h)
  <2>1. h - GenesisHeight \in 1..i
    BY <1>1, Numbers
  <2> QED BY <2>1 DEF BlockAt
<1>6. [k \in low .. h |-> BlockAt(x, k)] = [k \in low .. h |-> BlockAt(y, k)]
  BY <1>4
<1>7. Fresh(x, i) = Observations([k \in low .. h |-> BlockAt(x, k)], BlockAt(x, h), h)
  BY <1>1, <1>2 DEF Fresh
<1>8. Fresh(y, i) = Observations([k \in low .. h |-> BlockAt(y, k)], BlockAt(y, h), h)
  BY <1>1, <1>2 DEF Fresh
<1> QED BY <1>5, <1>6, <1>7, <1>8

(* Fewer blocks of the same index, or the same with another window. *)
LEMMA ObservedPrefix ==
  ASSUME NEW x \in Index, NEW y \in Index, Observed(x), Len(y.registry) <= Len(x.registry),
         \A j \in 1..Len(y.registry) : x.registry[j] = y.registry[j],
         y.rebuilt = x.rebuilt \/ y.rebuilt = Height(y)
  PROVE  Observed(y)
<1> SUFFICES ASSUME NEW i \in 1..Len(y.registry), Differs(y, i)
             PROVE  y.registry[i].mixed /\ GenesisHeight + i <= y.rebuilt + Keep
  BY DEF Observed
<1>1. Len(x.registry) \in Nat /\ Len(y.registry) \in Nat
  BY HeightType
<1>2. i \in Nat \ {0} /\ i \in 1..Len(x.registry) /\ \A j \in 1..i : j \in 1..Len(y.registry)
  BY <1>1
<1>3. Fresh(x, i) = Fresh(y, i)
  BY <1>2, FreshPrefix
<1>4. Differs(x, i)
  BY <1>2, <1>3 DEF Differs
<1>5. y.registry[i].mixed /\ GenesisHeight + i <= x.rebuilt + Keep
  BY <1>2, <1>4 DEF Observed
<1>6. GenesisHeight + i <= Height(y) /\ Height(y) \in Nat
  BY <1>1, Numbers DEF Height
<1> QED BY <1>2, <1>5, <1>6, KeepType, Numbers

(* The window over an index that has connected nothing. *)
LEMMA GenesisCovers ==
  ASSUME NEW x \in Index, Height(x) = GenesisHeight, x.window = NoWindow,
         x.rebuilt = GenesisHeight, Len(x.blocks) \in Nat
  PROVE  Kept(x) /\ Observed(x)
<1>1. GenesisHeight + 1 .. Height(x) = {}
  BY Numbers
<1>2. Len(x.registry) = 0
  BY HeightType, Numbers
<1>3. Covers(x.window, x) /\ Observed(x)
  BY <1>1, <1>2, NoWindowType DEF Covers, Observed
<1>4. Long(x)
  BY Numbers DEF Long
<1> QED BY <1>3, <1>4 DEF Kept

LEMMA EInit == Init => EInv
  BY DEF Init, EInv

LEMMA EOff ==
  ASSUME EInv, Off, UNCHANGED <<chain, disk>>
  PROVE  EInv'
  BY DEF EInv, Off

LEMMA EReorg ==
  ASSUME EInv, Reorg
  PROVE  EInv'
  BY DEF EInv, Reorg

LEMMA EStart ==
  ASSUME IInv, EInv, Start
  PROVE  EInv'
<1>1. /\ pc = "off" /\ pc' = "anchor" /\ UNCHANGED <<chain, disk, locator, removed>>
  BY DEF Start
<1>2. Observed(index') /\ Kept(index')
  <2>1. CASE disk # None /\ index' = disk
    BY <2>1 DEF EInv
  <2>2. CASE VerifyGenesis /\ index' = NewIndex(chain[GenesisHeight])
    <3>1. PICK x : x = NewIndex(chain[GenesisHeight])
      OBVIOUS
    <3>2. /\ x \in Index /\ Height(x) = GenesisHeight /\ x.window = NoWindow
         /\ x.rebuilt = GenesisHeight /\ Len(x.blocks) \in Nat
      BY <2>2, <3>1, NewIndexLinked, HeightType DEF IInv, VerifyGenesis, Linked
    <3> QED BY <2>2, <3>1, <3>2, GenesisCovers
  <2> QED BY <2>1, <2>2 DEF Start
<1> QED BY <1>1, <1>2 DEF EInv

LEMMA ERolledBack ==
  ASSUME IInv, EInv, pc = "rollback", RolledBack, UNCHANGED <<chain, disk>>
  PROVE  EInv'
<1>1. UNCHANGED <<locator, removed>> /\ Linked(index) /\ index \in Index /\ Observed(index)
  BY DEF RolledBack, IInv, EInv, Linked
<1>2. CASE removed > 0
  <2>1. pc' = "rebuild" /\ index' = [index EXCEPT !.window = NoWindow, !.rebuilt = Height(index)]
    BY <1>2 DEF RolledBack
  <2>2. PICK y : y = [index EXCEPT !.window = NoWindow, !.rebuilt = Height(index)]
    OBVIOUS
  <2>3. y \in Index /\ y.registry = index.registry /\ y.rebuilt = Height(y)
    BY <1>1, <2>2, ClearedLinked DEF Linked
  <2>4. Len(y.registry) <= Len(index.registry)
    BY <1>1, <2>3, HeightType
  <2>5. Observed(y)
    BY <1>1, <2>3, <2>4, ObservedPrefix
  <2> QED BY <1>1, <2>1, <2>2, <2>3, <2>5 DEF EInv
<1>3. CASE ~(removed > 0)
  <2>1. pc' = "persist" /\ index' = index
    BY <1>3 DEF RolledBack
  <2>2. removed = 0
    BY <1>3 DEF IInv
  <2> QED BY <1>1, <2>1, <2>2 DEF EInv
<1> QED BY <1>2, <1>3

LEMMA DisconnectedRegistry ==
  ASSUME NEW x, Linked(x), x.blocks # <<>>
  PROVE  /\ Len(Disconnected(x).registry) <= Len(x.registry)
         /\ \A j \in 1..Len(Disconnected(x).registry) : x.registry[j] = Disconnected(x).registry[j]
         /\ Disconnected(x).rebuilt = x.rebuilt
<1>1. /\ x \in Index /\ x.blocks \in Seq(Blocks) /\ x.registry \in Seq(Entry)
      /\ Len(x.blocks) \in Nat /\ Len(x.registry) \in Nat
  BY HeightType DEF Linked
<1>2. Len(x.blocks) # 0 /\ Len(x.blocks) <= Len(x.registry)
  BY <1>1, EmptyType DEF Linked, Tailed
<1>3. Len(x.registry) > 0
  BY <1>1, <1>2
<1>4. PICK rs : rs = Tail1(x.registry)
  OBVIOUS
<1>5. rs \in Seq(Entry) /\ Len(rs) = Len(x.registry) - 1 /\ \A i \in 1..Len(rs) : rs[i] = x.registry[i]
  BY <1>1, <1>3, <1>4 DEF Tail1
<1>6. Disconnected(x).registry = rs /\ Disconnected(x).rebuilt = x.rebuilt
  BY <1>1, <1>4 DEF Disconnected, Index
<1>7. Len(rs) <= Len(x.registry)
  BY <1>1, <1>5
<1> QED BY <1>5, <1>6, <1>7

LEMMA ERollback ==
  ASSUME IInv, EInv, Rollback
  PROVE  EInv'
<1>1. /\ pc = "rollback" /\ UNCHANGED <<chain, disk>> /\ Linked(index) /\ index \in Index
  BY DEF Rollback, IInv, Linked
<1>2. CASE Off
  BY <1>1, <1>2, EOff
<1>3. CASE RolledBack
  BY <1>1, <1>3, ERolledBack
<1>4. CASE /\ index.blocks # <<>> /\ index.undo > 0 /\ index' = Disconnected(index)
           /\ removed' = removed + 1 /\ UNCHANGED <<locator, pc>>
  <2>1. PICK y : y = Disconnected(index)
    OBVIOUS
  <2>2. y \in Index
    BY <1>1, <1>4, <2>1, DisconnectedLinked DEF Linked
  <2>3. /\ Len(y.registry) <= Len(index.registry)
        /\ \A j \in 1..Len(y.registry) : index.registry[j] = y.registry[j]
        /\ y.rebuilt = index.rebuilt
    BY <1>1, <1>4, <2>1, DisconnectedRegistry
  <2>4. Observed(y)
    BY <1>1, <2>2, <2>3, ObservedPrefix DEF EInv
  <2>5. removed' # 0
    BY <1>4 DEF IInv
  <2> QED BY <1>1, <1>4, <2>1, <2>4, <2>5 DEF EInv
<1> QED BY <1>2, <1>3, <1>4 DEF Rollback

LEMMA ERebuild ==
  ASSUME IInv, EInv, RebuildWindow
  PROVE  EInv'
<1>1. /\ pc = "rebuild" /\ UNCHANGED <<chain, disk>> /\ Linked(index) /\ index \in Index
      /\ Observed(index) /\ index.rebuilt = Height(index)
  BY DEF RebuildWindow, IInv, EInv, Linked
<1>2. /\ Rebuilt \in Nat /\ DOMAIN index.window = Floor + 1 .. Rebuilt
      /\ Floor <= Rebuilt /\ Rebuilt <= Height(index) /\ Floor = Lowest(index)
  BY <1>1, RebuiltSpan
<1>3. /\ Height(index) \in Nat /\ Floor \in Nat /\ GenesisHeight <= Floor
      /\ Floor + RevealMax > Height(index) => Floor = GenesisHeight
      /\ Floor + RevealMax >= Height(index)
  BY <1>1, <1>2, LowestType
<1>4. CASE Off
  BY <1>1, <1>4, EOff
<1>5. CASE /\ Rebuilt >= Height(index) /\ pc' = "persist"
           /\ UNCHANGED <<index, locator, removed>>
  <2>1. DOMAIN index.window = Floor + 1 .. Height(index)
    BY <1>2, <1>3, <1>5
  <2>2. ASSUME NEW k \in DOMAIN index.window
        PROVE  k \in GenesisHeight + 1 .. Height(index) /\ ~(k > index.rebuilt)
    BY <1>1, <1>3, <2>1, <2>2, Numbers
  <2>3. ASSUME NEW k \in GenesisHeight + 1 .. Height(index), k + RevealMax > Height(index)
        PROVE  k \in DOMAIN index.window
    <3>1. k >= Floor + 1
      BY <1>3, <2>3, Numbers
    <3> QED BY <1>3, <2>1, <3>1, Numbers
  <2>4. ~(Height(index) >= index.rebuilt + Keep)
    BY <1>1, <1>3, KeepType
  <2>5. Covers(index.window, index)
    BY <2>2, <2>3, <2>4 DEF Covers
  <2>6. Long(index)
    <3>1. Len(index.blocks) \in Nat
      BY <1>1, HeightType
    <3> QED BY <1>1, <1>3, <3>1 DEF Long
  <2> QED BY <1>1, <1>5, <2>5, <2>6 DEF EInv, Kept
<1>6. CASE /\ Rebuilt < Height(index) /\ Rebuilt + 1 \in DOMAIN chain
           /\ index' = [index EXCEPT !.window =
                [h \in Floor + 1 .. Rebuilt + 1 |-> IF h = Rebuilt + 1 THEN chain[h] ELSE @[h]]]
           /\ UNCHANGED <<locator, pc, removed>>
  <2>1. PICK w : w = [h \in Floor + 1 .. Rebuilt + 1 |->
                        IF h = Rebuilt + 1 THEN chain[h] ELSE index.window[h]]
    OBVIOUS
  <2>2. index' = [index EXCEPT !.window = w]
    BY <1>6, <2>1
  <2>3. PICK y : y = index'
    OBVIOUS
  <2>4. y.registry = index.registry /\ y.rebuilt = index.rebuilt /\ y \in Index
    <3>1. IInv'
      BY RebuildInv
    <3>2. y \in Index
      BY <1>1, <1>6, <2>3, <3>1 DEF IInv, Linked
    <3> QED BY <1>1, <2>2, <2>3, <3>2 DEF Index
  <2>5. Len(y.registry) <= Len(index.registry)
    BY <1>1, <2>4, HeightType
  <2>6. Observed(y)
    BY <1>1, <2>4, <2>5, ObservedPrefix
  <2>7. y.rebuilt = Height(y)
    BY <1>1, <2>4 DEF Height
  <2> QED BY <1>1, <1>6, <2>3, <2>6, <2>7 DEF EInv
<1> QED BY <1>4, <1>5, <1>6 DEF RebuildWindow

LEMMA EQuiet ==
  ASSUME IInv, EInv, Anchor \/ TipHeight \/ Persist \/ Save \/ Report \/ Stop
  PROVE  EInv'
<1>1. CASE Off /\ UNCHANGED <<chain, disk>>
  BY <1>1, EOff
<1>2. CASE Anchor /\ ~Off
  BY <1>2 DEF Anchor, EInv
<1>3. CASE TipHeight
  BY <1>3 DEF TipHeight, EInv
<1>4. CASE Persist
  BY <1>4 DEF Persist, EInv, Kept
<1>5. CASE Save
  BY <1>5 DEF Save, EInv
<1>6. CASE Report \/ Stop
  BY <1>1, <1>6 DEF Report, Stop
<1>7. CASE Anchor /\ Off
  BY <1>1, <1>7 DEF Anchor
<1> QED BY <1>2, <1>3, <1>4, <1>5, <1>6, <1>7

LEMMA WidenedAhead ==
  ASSUME NEW x \in Index, NEW w, Covers(w, x), NEW b
  PROVE  Ahead(Widened(w, Height(x) + 1, b), x, b)
<1>1. PICK h : h = Height(x) + 1
  OBVIOUS
<1>2. Height(x) \in Nat /\ Height(x) >= GenesisHeight
  BY HeightType
<1>3. PICK v : v = Widened(w, h, b)
  OBVIOUS
<1>4. /\ DOMAIN v = DOMAIN w \cup {h}
      /\ \A k \in DOMAIN v : v[k] = IF k = h THEN b ELSE w[k]
  BY <1>3 DEF Widened
<1>5. ASSUME NEW k \in DOMAIN v
      PROVE  /\ k \in GenesisHeight + 1 .. Height(x) + 1
             /\ k = Height(x) + 1 => v[k] = b
             /\ k <= Height(x) /\ k > x.rebuilt => v[k] = BlockAt(x, k)
  <2>1. CASE k = h
    BY <1>1, <1>2, <1>4, <2>1, Numbers
  <2>2. CASE k # h
    <3>1. k \in DOMAIN w /\ v[k] = w[k]
      BY <1>4, <2>2
    <3>2. k \in GenesisHeight + 1 .. Height(x) /\ (k > x.rebuilt => v[k] = BlockAt(x, k))
      BY <3>1 DEF Covers
    <3> QED BY <1>1, <1>2, <2>2, <3>2, Numbers
  <2> QED BY <2>1, <2>2
<1>6. ASSUME NEW k \in GenesisHeight + 1 .. Height(x) + 1, k + RevealMax > Height(x)
      PROVE  k \in DOMAIN v
  <2>1. CASE k = h
    BY <1>4, <2>1
  <2>2. CASE k # h
    <3>1. k \in GenesisHeight + 1 .. Height(x)
      BY <1>1, <1>2, <1>6, <2>2, Numbers
    <3> QED BY <1>4, <1>6, <3>1 DEF Covers
  <2> QED BY <2>1, <2>2
<1>7. ASSUME Height(x) >= x.rebuilt + Keep, NEW k \in DOMAIN v
      PROVE  k + RevealMax > Height(x)
  <2>1. CASE k = h
    BY <1>1, <1>2, <2>1, Numbers
  <2>2. CASE k # h
    <3>1. k \in DOMAIN w
      BY <1>4, <2>2
    <3> QED BY <1>7, <3>1 DEF Covers
  <2> QED BY <2>1, <2>2
<1> QED BY <1>1, <1>3, <1>5, <1>6, <1>7 DEF Ahead

LEMMA EScan ==
  ASSUME IInv, EInv, ScanBlock
  PROVE  EInv'
<1>1. /\ pc = "scan" /\ UNCHANGED <<chain, disk>> /\ index \in Index /\ Covers(locator, index)
  BY DEF ScanBlock, IInv, EInv, Linked
<1>2. CASE Off
  BY <1>1, <1>2, EOff
<1>3. CASE ~Off
  <2>1. PICK h : h = Height(index) + 1
    OBVIOUS
  <2>2. /\ block' = chain[h] /\ pc' = "connect" /\ UNCHANGED <<index, removed>>
        /\ locator' = Widened(locator, h, chain[h])
    BY <1>3, <2>1 DEF ScanBlock, Widened
  <2>3. Ahead(locator', index, chain[h])
    BY <1>1, <2>1, <2>2, WidenedAhead
  <2> QED BY <1>1, <2>2, <2>3 DEF EInv
<1> QED BY <1>2, <1>3

(* A locator that is ahead, before and after its trim, covers the index     *)
(* that has connected the block; before it only as long as nothing from     *)
(* another branch had to be gone.                                           *)
LEMMA AheadCovers ==
  ASSUME NEW x \in Index, NEW y \in Index, NEW w \in Windows, NEW b, Ahead(w, x, b),
         Height(y) = Height(x) + 1, BlockAt(y, Height(x) + 1) = b, y.rebuilt = x.rebuilt,
         \A k \in GenesisHeight + 1 .. Height(x) : BlockAt(y, k) = BlockAt(x, k)
  PROVE  /\ Height(y) < y.rebuilt + Keep => Covers(w, y)
         /\ Covers(Retain(w, Height(x) + 2), y)
<1>1. /\ Height(x) \in Nat /\ GenesisHeight \in Nat /\ RevealMax \in Nat
      /\ y.rebuilt \in Nat /\ Keep \in Nat
  BY HeightType, Numbers, KeepType DEF Index
<1>2. ASSUME NEW k \in DOMAIN w
      PROVE  k \in GenesisHeight + 1 .. Height(y) /\ (k > y.rebuilt => w[k] = BlockAt(y, k))
  <2>1. /\ k \in GenesisHeight + 1 .. Height(x) + 1
        /\ k = Height(x) + 1 => w[k] = b
        /\ k <= Height(x) /\ k > x.rebuilt => w[k] = BlockAt(x, k)
    BY <1>2 DEF Ahead
  <2>2. k # Height(x) + 1 => k \in GenesisHeight + 1 .. Height(x)
    BY <1>1, <2>1
  <2> QED BY <1>1, <2>1, <2>2
<1>3. ASSUME NEW k \in GenesisHeight + 1 .. Height(y), k + RevealMax > Height(y)
      PROVE  k \in DOMAIN w /\ k + RevealMax >= Height(x) + 2
  <2>1. k + RevealMax > Height(x) /\ k + RevealMax >= Height(x) + 2
    BY <1>1, <1>3
  <2> QED BY <1>3, <2>1 DEF Ahead
<1>4. Height(y) < y.rebuilt + Keep => Covers(w, y)
  <2>1. Height(y) < y.rebuilt + Keep => ~(Height(y) >= y.rebuilt + Keep)
    BY <1>1
  <2> QED BY <1>2, <1>3, <2>1 DEF Covers
<1>5. PICK v : v = Retain(w, Height(x) + 2)
  OBVIOUS
<1>6. /\ DOMAIN v \subseteq DOMAIN w
      /\ \A k \in DOMAIN v : k + RevealMax >= Height(x) + 2 /\ v[k] = w[k]
      /\ \A k \in DOMAIN w : k + RevealMax >= Height(x) + 2 => k \in DOMAIN v
  BY <1>5, RetainType
<1>7. \A k \in DOMAIN v : k + RevealMax > Height(y)
  <2> TAKE k \in DOMAIN v
  <2>1. k \in Int /\ k + RevealMax >= Height(x) + 2
    BY <1>1, <1>2, <1>6
  <2> QED BY <1>1, <2>1
<1>8. Covers(v, y)
  BY <1>2, <1>3, <1>6, <1>7 DEF Covers
<1> QED BY <1>4, <1>5, <1>8

(* With no stray block in the window, Registry::connect is fed what a fresh *)
(* scan would feed it.                                                      *)
LEMMA LastFresh ==
  ASSUME NEW x \in Index, NEW y \in Index, NEW w, NEW b, NEW c \in Chains, Ahead(w, x, b), ~Mixed(w, x),
         Chained(y, c), Height(y) = Height(x) + 1, BlockAt(y, Height(x) + 1) = b,
         \A k \in GenesisHeight + 1 .. Height(x) : BlockAt(y, k) = BlockAt(x, k)
  PROVE  Fresh(y, Len(y.registry)) = Observations(w, b, Height(x) + 1)
<1>1. PICK h \in Nat : h = Height(x) + 1
  BY HeightType
<1>2. GenesisHeight + Len(y.registry) = h /\ GenesisHeight \in Nat /\ RevealMax \in Nat /\ h > GenesisHeight
  BY <1>1, HeightType, Numbers
<1>3. PICK low \in Int : low = Larger(GenesisHeight + 1, h - RevealMax)
  <2>1. Larger(GenesisHeight + 1, h - RevealMax) \in Int
    BY <1>2 DEF Larger
  <2> QED BY <2>1
<1>4. /\ low >= GenesisHeight + 1
      /\ \A k \in Int : k >= GenesisHeight + 1 /\ k >= h - RevealMax => k >= low
  BY <1>2, <1>3 DEF Larger
<1>5. PICK v : v = [k \in low .. h |-> BlockAt(y, k)]
  OBVIOUS
<1>6. Fresh(y, Len(y.registry)) = Observations(v, b, h)
  <2>1. PICK n : n = Len(y.registry)
    OBVIOUS
  <2>2. GenesisHeight + n = h
    BY <1>2, <2>1
  <2>3. BlockAt(y, h) = b
    BY <1>1
  <2>4. Fresh(y, n) = Observations(v, BlockAt(y, h), h)
    BY <1>3, <1>5, <2>2 DEF Fresh
  <2> QED BY <2>1, <2>3, <2>4
<1>7. \A k \in GenesisHeight + 1 .. h : k \in DOMAIN c /\ BlockAt(y, k) = c[k]
  <2> TAKE k \in GenesisHeight + 1 .. h
  <2>1. PICK i : i = k - GenesisHeight
    OBVIOUS
  <2>2. i \in 1..Len(y.registry) /\ GenesisHeight + i = k
    BY <1>2, <2>1, HeightType
  <2>3. BlockAt(y, k) = c[k]
    BY <2>1, <2>2 DEF BlockAt, Chained
  <2>4. h <= Len(c) /\ k \in Nat /\ k >= 1
    BY <1>1, <1>2 DEF Chained
  <2>5. k \in DOMAIN c
    BY <1>1, <2>4, Numbers
  <2> QED BY <2>3, <2>5
<1>8. \A k \in DOMAIN v : k \in GenesisHeight + 1 .. h /\ v[k] = BlockAt(y, k)
  BY <1>2, <1>4, <1>5
<1>9. \A k \in DOMAIN w : k \in GenesisHeight + 1 .. h /\ w[k] = BlockAt(y, k)
  <2> TAKE k \in DOMAIN w
  <2>1. /\ k \in GenesisHeight + 1 .. h
        /\ k = h => w[k] = b
    BY <1>1 DEF Ahead
  <2>2. k # h => k \in GenesisHeight + 1 .. Height(x) /\ k <= Height(x)
    BY <1>1, <1>2, <2>1, HeightType
  <2>3. k # h => w[k] = BlockAt(x, k)
    BY <2>2 DEF Mixed
  <2> QED BY <1>1, <2>1, <2>2, <2>3
<1>10. \A k \in DOMAIN v : h - k \in 1..RevealMax => k \in DOMAIN w
  <2> TAKE k \in DOMAIN v
  <2>1. k \in GenesisHeight + 1 .. h
    BY <1>8
  <2>2. h - k \in 1..RevealMax => k + RevealMax > Height(x)
    BY <1>1, <1>2, <2>1, HeightType
  <2> QED BY <1>1, <2>1, <2>2 DEF Ahead
<1>11. \A k \in DOMAIN w : h - k \in 1..RevealMax => k \in DOMAIN v
  <2> TAKE k \in DOMAIN w
  <2>1. k \in GenesisHeight + 1 .. h
    BY <1>9
  <2>0. k \in Int /\ k >= GenesisHeight + 1
    BY <1>2, <2>1
  <2>2. h - k \in 1..RevealMax => k >= low
    <3>1. h - k \in 1..RevealMax => k >= h - RevealMax
      BY <1>2, <2>0
    <3> QED BY <1>4, <2>0, <3>1
  <2>3. k >= low => k \in low .. h
    BY <1>2, <2>1
  <2> QED BY <1>5, <2>2, <2>3
<1>12. /\ \A k \in DOMAIN v : k \in DOMAIN c /\ v[k] = c[k]
       /\ \A k \in DOMAIN w : k \in DOMAIN c /\ w[k] = c[k]
  BY <1>7, <1>8, <1>9
<1>13. Observations(v, b, h) \subseteq Observations(w, b, h)
  BY <1>10, <1>12, SameReach
<1>14. Observations(w, b, h) \subseteq Observations(v, b, h)
  BY <1>11, <1>12, SameReach
<1>15. \A S, T : S \subseteq T /\ T \subseteq S => S = T
  OBVIOUS
<1>16. Observations(v, b, h) = Observations(w, b, h)
  BY <1>13, <1>14, <1>15
<1> QED BY <1>1, <1>6, <1>16

(* A stray block is one that rebuild_window read, and it is not kept long. *)
LEMMA StraySoon ==
  ASSUME NEW x \in Index, NEW w, NEW b, Ahead(w, x, b), Mixed(w, x)
  PROVE  Height(x) < x.rebuilt + Keep
<1>1. PICK k \in DOMAIN w : k <= Height(x) /\ w[k] # BlockAt(x, k)
  BY DEF Mixed
<1>2. k \in Int /\ Height(x) \in Int /\ x.rebuilt \in Int /\ Keep \in Int /\ RevealMax \in Int
  BY <1>1, HeightType, KeepType, Numbers DEF Ahead, Index
<1>3. ~(k > x.rebuilt)
  BY <1>1 DEF Ahead
<1>4. Height(x) >= x.rebuilt + Keep => k + RevealMax > Height(x)
  BY DEF Ahead
<1> QED BY <1>2, <1>3, <1>4, KeepType

LEMMA EConnect ==
  ASSUME IInv, EInv, ConnectBlock
  PROVE  EInv'
<1>1. /\ pc = "connect" /\ UNCHANGED <<chain, disk>> /\ Linked(index) /\ index \in Index
      /\ block \in Blocks /\ locator \in Windows /\ index.window \in Windows
      /\ Observed(index) /\ Kept(index) /\ Ahead(locator, index, block)
  BY DEF ConnectBlock, IInv, EInv, Linked, Index
<1>2. CASE Off
  BY <1>1, <1>2, EOff
<1>3. CASE ~Off
  <2>1. PICK h \in Nat : h = Height(index) + 1
    BY <1>1, HeightType
  <2>2. PICK obs : obs = Observations(locator, block, h)
    OBVIOUS
  <2>3. PICK e : e = [block |-> block, mixed |-> Mixed(locator, index), obs |-> obs]
    OBVIOUS
  <2>4. /\ index' = Connected(index, e) /\ locator' = Retain(locator, h + 1)
        /\ pc' = "save" /\ UNCHANGED <<removed, block>>
    BY <1>3, <2>1, <2>2, <2>3 DEF ConnectBlock
  <2>0. /\ e \in Entry /\ e.block = block /\ e.obs = obs
        /\ e.mixed = Mixed(locator, index)
    <3>1. Mixed(locator, index) \in BOOLEAN
      BY DEF Mixed
    <3>2. obs \in {Observations(w, b, k) : w \in Windows, b \in Blocks, k \in Nat}
      BY <1>1, <2>1, <2>2
    <3> QED BY <1>1, <2>3, <3>1, <3>2 DEF Entry
  <2>5. PICK c \in Chains : Chained(index, c) /\ Height(index) + 1 \in DOMAIN c
                            /\ c[Height(index) + 1] = block
    BY <1>1 DEF IInv
  <2>6. PICK W : W = Widened(index.window, Height(index) + 1, block)
    OBVIOUS
  <2>7. PICK y : y = Connected(index, e)
    OBVIOUS
  <2>8. /\ Linked(y) /\ y.registry = Append(index.registry, e) /\ Height(y) = Height(index) + 1
        /\ y.rebuilt = index.rebuilt
        /\ \/ /\ Len(index.blocks) + 1 < Keep
              /\ y.window = W /\ Len(y.blocks) = Len(index.blocks) + 1
           \/ y.window = Retain(W, Height(index) + 2) /\ Len(y.blocks) = Keep
    BY <1>1, <2>0, <2>5, <2>6, <2>7, ConnectedLinked
  <2>9. PICK n \in Nat : n = Len(index.registry)
    BY <1>1, HeightType
  <2>10. Height(index) = GenesisHeight + n /\ h = GenesisHeight + n + 1
    BY <2>1, <2>9, Numbers DEF Height
  <2>11. /\ y \in Index /\ Len(y.registry) = n + 1 /\ y.registry[n + 1] = e
         /\ \A i \in 1..n : y.registry[i] = index.registry[i]
    BY <1>1, <2>0, <2>8, <2>9, HeightType DEF Linked
  <2>12. \A k \in GenesisHeight + 1 .. Height(index) : BlockAt(y, k) = BlockAt(index, k)
    <3> TAKE k \in GenesisHeight + 1 .. Height(index)
    <3>1. k - GenesisHeight \in 1..n
      BY <2>10, Numbers
    <3> QED BY <2>11, <3>1 DEF BlockAt
  <2>13. BlockAt(y, Height(index) + 1) = block
    <3>1. (Height(index) + 1) - GenesisHeight = n + 1
      BY <2>10, Numbers
    <3> QED BY <2>0, <2>11, <3>1 DEF BlockAt
  <2>14. \E d \in Chains : Chained(y, d)
    BY <2>8 DEF Linked
  <2>15. Differs(y, n + 1) => e.mixed /\ GenesisHeight + (n + 1) <= y.rebuilt + Keep
    <3>1. CASE ~Mixed(locator, index)
      <4>1. Fresh(y, n + 1) = obs
        BY <1>1, <2>1, <2>2, <2>8, <2>11, <2>12, <2>13, <2>14, <3>1, LastFresh
      <4> QED BY <2>0, <2>11, <4>1 DEF Differs
    <3>2. CASE Mixed(locator, index)
      <4>1. Height(index) < index.rebuilt + Keep
        BY <1>1, <3>2, StraySoon
      <4>2. Height(index) \in Nat /\ index.rebuilt \in Nat /\ Keep \in Nat /\ GenesisHeight \in Nat
        BY <1>1, HeightType, KeepType, Numbers DEF Index
      <4> QED BY <2>0, <2>8, <2>10, <3>2, <4>1, <4>2
    <3> QED BY <3>1, <3>2
  <2>16. Observed(y)
    <3> SUFFICES ASSUME NEW i \in 1..(n + 1), Differs(y, i)
                 PROVE  y.registry[i].mixed /\ GenesisHeight + i <= y.rebuilt + Keep
      BY <2>11 DEF Observed
    <3>1. CASE i = n + 1
      BY <2>11, <2>15, <3>1
    <3>2. CASE i # n + 1
      <4>1. i \in Nat \ {0} /\ i \in 1..n /\ \A j \in 1..i : j \in 1..n
        BY <3>2
      <4>2. Fresh(index, i) = Fresh(y, i)
        BY <1>1, <2>11, <4>1, FreshPrefix
      <4>3. Differs(index, i)
        BY <2>11, <4>1, <4>2 DEF Differs
      <4> QED BY <1>1, <2>8, <2>9, <2>11, <4>1, <4>3 DEF Observed
    <3> QED BY <3>1, <3>2
  <2>17. Covers(locator', y)
    <3>1. h + 1 = Height(index) + 2
      BY <2>1, <2>10, Numbers
    <3> QED BY <1>1, <2>4, <2>8, <2>11, <2>12, <2>13, <3>1, AheadCovers
  <2>18. Kept(y)
    <3>1. Ahead(W, index, block)
      BY <1>1, <2>6, WidenedAhead DEF Kept
    <3>2. W \in Windows
      BY <1>1, <2>1, <2>6, WidenedType
    <3>3. /\ Height(y) < y.rebuilt + Keep => Covers(W, y)
          /\ Covers(Retain(W, Height(index) + 2), y)
      BY <1>1, <2>8, <2>11, <2>12, <2>13, <3>1, <3>2, AheadCovers
    <3>4. /\ Height(index) \in Nat /\ index.rebuilt \in Nat /\ Keep \in Nat
          /\ Len(index.blocks) \in Nat
      BY <1>1, HeightType, KeepType DEF Index
    <3>5. CASE y.window = Retain(W, Height(index) + 2) /\ Len(y.blocks) = Keep
      BY <3>3, <3>4, <3>5 DEF Kept, Long
    <3>6. CASE /\ Len(index.blocks) + 1 < Keep
               /\ y.window = W /\ Len(y.blocks) = Len(index.blocks) + 1
      <4>1. Len(index.blocks) >= Height(index) - index.rebuilt
        BY <1>1, <3>4, <3>6 DEF Kept, Long
      <4>2. Height(y) < y.rebuilt + Keep /\ Len(y.blocks) >= Height(y) - y.rebuilt
        BY <2>8, <3>4, <3>6, <4>1
      <4> QED BY <3>3, <3>6, <4>2 DEF Kept, Long
    <3> QED BY <2>8, <3>5, <3>6
  <2> QED BY <1>1, <2>4, <2>7, <2>16, <2>17, <2>18 DEF EInv
<1> QED BY <1>2, <1>3

LEMMA ENext ==
  ASSUME IInv, EInv, [Next]_vars
  PROVE  EInv'
<1>1. CASE UNCHANGED vars
  BY <1>1 DEF EInv, vars
<1> QED BY <1>1, EStart, EQuiet, ERollback, ERebuild, EScan, EConnect, EReorg DEF Next, SyncStep

LEMMA EAgrees ==
  ASSUME IInv, EInv
  PROVE  OnlyMixedDiffers
<1> SUFFICES ASSUME disk # None, NEW i \in DOMAIN disk.registry, Differs(disk, i)
             PROVE  disk.registry[i].mixed /\ GenesisHeight + i <= disk.rebuilt + Keep
  BY DEF OnlyMixedDiffers, Keep
<1>1. disk.registry \in Seq(Entry)
  BY HeightType DEF IInv, Linked
<1>2. DOMAIN disk.registry = 1..Len(disk.registry)
  BY <1>1
<1> QED BY <1>2 DEF EInv, Observed

(* Whatever the source switches to between two answers, in rebuild_window   *)
(* too: a persisted observation differs from that of a fresh scan of the    *)
(* blocks of the index only when its block was scanned with a window that   *)
(* rebuild_window had mixed, and no longer after than checkpoints are kept. *)
(* No reorganization elsewhere, no crash, no trim of the window and no      *)
(* reuse of it by a later call adds or loses a reveal.                      *)
THEOREM FreshScan == Spec => []OnlyMixedDiffers
<1>1. Init => IInv /\ EInv
  BY InitInv, EInit
<1>2. IInv /\ EInv /\ [Next]_vars => IInv' /\ EInv'
  BY NextInv, ENext
<1>3. IInv /\ EInv => OnlyMixedDiffers
  BY EAgrees
<1> QED BY <1>1, <1>2, <1>3, PTL DEF Spec
=============================================================================
