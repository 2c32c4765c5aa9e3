-------------------------- MODULE SelectionProofs --------------------------
(***************************************************************************)
(* Proofs about the selection rules: which cells a diffusion pass unmasks  *)
(* (BlockDraft) and which bytes a sampled step can draw (GreedyLoop).      *)
(*                                                                         *)
(* blt_draft_block, for every block size, both rules, and all scores and   *)
(* thresholds: a pass always unmasks a cell, so the passes left bound the  *)
(* cells still masked, and the entropy-bounded rule unmasks as many as     *)
(* gamma allows.  blt_decode_select, for all logits and options: the       *)
(* nucleus is the smallest set that reaches top_p, and with every knob off *)
(* generate_loop is greedy decoding.                                       *)
(***************************************************************************)
EXTENDS BlockDraft, GreedyLoop, NumberProofs, SequenceTheorems

PassesInv ==
    /\ left + nfes = B
    /\ Cardinality(Masked) <= left
    /\ pc = "pass" <=> Masked # {}
    /\ pc \in {"return", "done"} => nfes >= 1
    /\ pc # "abort"

IInv == TypeOK /\ PassesInv
-----------------------------------------------------------------------------
(* The cells of a block are finitely many and counted by its size, and the *)
(* masked ones are some of them (blt_draft_block).                         *)
LEMMA CellsAre ==
    ASSUME TypeOK
    PROVE  /\ B \in Nat /\ B >= 1 /\ Cells \subseteq Nat
           /\ IsFiniteSet(Cells) /\ Cardinality(Cells) = B
           /\ Masked \subseteq Cells /\ IsFiniteSet(Masked) /\ Cardinality(Masked) \in Nat
<1>1. B \in 1..MaxB /\ MaxB \in Nat  BY BlockDraftAssumption DEF TypeOK, B
<1>2. B \in Nat /\ B >= 1  BY <1>1
<1>3. IsFiniteSet(Cells) /\ Cardinality(Cells) = B  BY <1>2, FS_Interval DEF Cells
<1>4. Masked \subseteq Cells  BY DEF Masked
<1>5. IsFiniteSet(Masked)  BY <1>3, <1>4, FS_Subset
<1>6. Cardinality(Masked) \in Nat  BY <1>5, FS_CardinalityType
<1>7. QED  BY <1>2, <1>3, <1>4, <1>5, <1>6 DEF Cells

(* Among the cells with an extreme score there is a first one.             *)
LEMMA FirstOf ==
    ASSUME NEW C \in SUBSET Nat, C # {}
    PROVE  \E b \in C : \A c \in C : b <= c
<1>1. Min(C) \in C /\ \A c \in C : Min(C) <= c  BY MinIsLeast
<1>2. QED  BY <1>1

(* A nonempty set of cells has one of lowest score, the first of equals:   *)
(* what a selection sort by score finds first.                             *)
LEMMA LowestFirst ==
    ASSUME NEW s \in [Cells -> Scores], NEW C \in SUBSET Cells, C # {}, Cells \subseteq Nat
    PROVE  \E b \in C : \A c \in C : s[b] < s[c] \/ (s[b] = s[c] /\ b <= c)
<1> DEFINE V == {s[c] : c \in C}
<1>1. V \in SUBSET Nat /\ V # {}  BY BlockDraftAssumption
<1>2. PICK v \in V : \A w \in V : v <= w
  <2> HIDE DEF V
  <2> QED  BY <1>1, FirstOf
<1> DEFINE D == {c \in C : s[c] = v}
<1>3. D \in SUBSET Nat /\ D # {}  BY <1>2
<1>4. PICK b \in D : \A c \in D : b <= c
  <2> HIDE DEF D
  <2> QED  BY <1>3, FirstOf
<1>5. ASSUME NEW c \in C  PROVE s[b] < s[c] \/ (s[b] = s[c] /\ b <= c)
  <2>1. s[c] \in V /\ v <= s[c] /\ s[b] = v /\ s[c] \in Nat /\ v \in Nat  BY <1>1, <1>2, <1>5
  <2>2. CASE s[c] = v  BY <1>4, <1>5, <2>1, <2>2
  <2>3. CASE s[c] # v  BY <2>1, <2>3
  <2>4. QED  BY <2>2, <2>3
<1>6. QED  BY <1>5

(* A nonempty set of cells has one of highest score, so the forced cell of *)
(* a pass exists.                                                          *)
LEMMA HighestFirst ==
    ASSUME NEW s \in [Cells -> Scores], NEW C \in SUBSET Cells, C # {},
           Cells \subseteq Nat, IsFiniteSet(Cells)
    PROVE  Best(s, C) # {}
<1> DEFINE Beyond(c) == {d \in C : s[d] > s[c]}
           F == {Beyond(c) : c \in C}
<1>1. \A c \in C : s[c] \in Nat  BY BlockDraftAssumption
<1>2. PICK top \in C : \A d \in C : s[d] <= s[top]
  <2>1. (\A x \in F : x \subseteq C) /\ F # {} /\ IsFiniteSet(C)
    <3>1. IsFiniteSet(C)  BY FS_Subset
    <3>2. QED  BY <3>1
  <2>2. PICK x \in F : \A y \in F : y \subseteq x => y = x
    <3> HIDE DEF F, Beyond
    <3>1. F # {} /\ IsFiniteSet(C) /\ \A x \in F : x \subseteq C  BY <2>1
    <3>2. QED  BY <3>1, SmallestSet
  <2>3. PICK c \in C : x = Beyond(c)  BY <2>2
  <2>4. ASSUME NEW d \in C, s[d] > s[c]  PROVE FALSE
    <3>1. Beyond(d) \subseteq Beyond(c)
      <4>1. ASSUME NEW e \in C, s[e] > s[d]  PROVE s[e] > s[c]  BY <1>1, <2>4, <4>1
      <4>2. QED  BY <4>1
    <3>2. d \in Beyond(c) /\ d \notin Beyond(d)  BY <1>1, <2>4
    <3>3. Beyond(d) \in F  OBVIOUS
    <3>4. QED  BY <2>2, <2>3, <3>1, <3>2, <3>3
  <2>5. QED  BY <1>1, <2>4
<1> DEFINE v == s[top]
<1> DEFINE D == {c \in C : s[c] = v}
<1>3. D \in SUBSET Nat /\ D # {}  BY <1>2
<1>4. PICK b \in D : \A c \in D : b <= c
  <2> HIDE DEF D
  <2> QED  BY <1>3, FirstOf
<1>5. ASSUME NEW c \in C  PROVE s[c] < s[b] \/ (s[c] = s[b] /\ b <= c)
  <2>1. s[c] <= v /\ s[b] = v /\ s[c] \in Nat /\ v \in Nat  BY <1>1, <1>2, <1>5
  <2>2. CASE s[c] = v  BY <1>4, <1>5, <2>1, <2>2
  <2>3. CASE s[c] # v  BY <2>1, <2>3
  <2>4. QED  BY <2>2, <2>3
<1>6. b \in Best(s, C)  BY <1>5 DEF Best
<1>7. QED  BY <1>6

(* Either rule picks at least one masked cell, whatever the threshold.     *)
LEMMA SelectsSome ==
    ASSUME TypeOK, Masked # {}, NEW s \in [Cells -> Scores]
    PROVE  Select(s) \subseteq Masked /\ Select(s) # {}
<1>1. /\ Masked \subseteq Cells /\ Cells \subseteq Nat /\ IsFiniteSet(Cells)
  BY CellsAre
<1>2. CASE config.strategy = "confidence"
  <2>1. Best(s, Masked) # {} /\ Best(s, Masked) \subseteq Masked
    BY <1>1, HighestFirst DEF Best
  <2>2. Select(s) = SelectConfidence(s, Masked)  BY <1>2 DEF Select
  <2>3. QED  BY <2>1, <2>2 DEF SelectConfidence
<1>3. CASE config.strategy # "confidence"
  <2>1. Select(s) = SelectEB(s, Masked)  BY <1>3 DEF Select
  <2>2. PICK b \in Masked : \A c \in Masked : s[b] < s[c] \/ (s[b] = s[c] /\ b <= c)
    BY <1>1, LowestFirst
  <2>3. ASSUME NEW c \in UpTo(s, Masked, b)  PROVE c = b
    <3>1. /\ c \in Masked /\ (s[c] < s[b] \/ (s[c] = s[b] /\ c <= b))
          /\ s[b] < s[c] \/ (s[b] = s[c] /\ b <= c)
      BY <2>2, <2>3 DEF UpTo
    <3>2. s[b] \in Nat /\ s[c] \in Nat /\ b \in Nat /\ c \in Nat
      BY <1>1, <3>1, BlockDraftAssumption
    <3>3. QED  BY <3>1, <3>2
  <2>4. b \in UpTo(s, Masked, b)
    <3>1. b \in Nat  BY <1>1
    <3>2. QED  BY <3>1 DEF UpTo
  <2>5. UpTo(s, Masked, b) = {b}  BY <2>3, <2>4
  <2>6. b \in SelectEB(s, Masked)  BY <2>5 DEF SelectEB
  <2>7. QED  BY <2>1, <2>6 DEF SelectEB
<1>4. QED  BY <1>2, <1>3
-----------------------------------------------------------------------------
(* The inductive invariant holds when a draft begins.                      *)
LEMMA InitIInv == Init => IInv
<1> SUFFICES ASSUME Init PROVE IInv  OBVIOUS
<1>1. /\ config \in [size : Sizes, strategy : {"confidence", "eb"}, threshold : Thresholds]
      /\ tokens = [b \in Cells |-> Mask] /\ left = B /\ nfes = 0 /\ pc = "pass"
  BY DEF Init, Passes
<1>2. B \in Nat /\ B >= 1
  <2>1. B \in 1..MaxB /\ MaxB \in Nat  BY <1>1, BlockDraftAssumption DEF B
  <2>2. QED  BY <2>1
<1>3. TypeOK  BY <1>1, <1>2 DEF TypeOK
<1>4. Masked = Cells  BY <1>1 DEF Masked
<1>5. Cardinality(Masked) = B /\ 1 \in Masked
  <2>1. Cardinality(Cells) = B  BY <1>3, CellsAre
  <2>2. 1 \in Cells  BY <1>2 DEF Cells
  <2>3. QED  BY <1>4, <2>1, <2>2
<1>6. QED  BY <1>1, <1>2, <1>3, <1>5 DEF IInv, PassesInv

(* A decoder pass unmasks at least one cell and keeps the invariant.       *)
LEMMA PassStep == ASSUME IInv, Pass PROVE IInv'
<1>1. /\ TypeOK /\ left + nfes = B /\ Cardinality(Masked) <= left /\ Masked # {}
      /\ pc = "pass" /\ left > 0
  BY DEF IInv, PassesInv, Pass
<1>2. PICK s \in [Cells -> Scores], pred \in [Cells -> ByteToken] :
        tokens' = [b \in Cells |-> IF b \in Select(s) THEN pred[b] ELSE tokens[b]]
  BY DEF Pass
<1>3. /\ left' = left - 1 /\ nfes' = nfes + 1 /\ config' = config
      /\ pc' = IF left' = 0 \/ \A b \in Cells : tokens'[b] # Mask THEN "return" ELSE "pass"
  BY DEF Pass
<1>4. /\ B \in Nat /\ Masked \subseteq Cells /\ IsFiniteSet(Masked)
      /\ Cardinality(Masked) \in Nat /\ left \in 0..B /\ nfes \in 0..B
  BY <1>1, CellsAre DEF TypeOK
<1>5. B' = B /\ Cells' = Cells  BY <1>3 DEF B, Cells
<1>6. TypeOK'
  <2>1. tokens' \in [Cells -> ByteToken \cup {Mask}]  BY <1>1, <1>2 DEF TypeOK
  <2>2. left' \in 0..B /\ nfes' \in 0..B  BY <1>1, <1>3, <1>4
  <2>3. QED  BY <1>1, <1>3, <1>5, <2>1, <2>2 DEF TypeOK
<1>7. Masked' = {b \in Cells : tokens'[b] = Mask}  BY <1>5 DEF Masked
<1>8. PICK b \in Masked : b \in Select(s)  BY <1>1, SelectsSome
<1>9. Masked' \subseteq Masked \ {b}
  <2>1. Mask \notin ByteToken  BY BlockDraftAssumption
  <2>2. ASSUME NEW c \in Cells, tokens'[c] = Mask  PROVE c \in Masked /\ c # b
    <3>1. c \notin Select(s)  BY <1>2, <2>1, <2>2
    <3>2. tokens[c] = Mask  BY <1>2, <2>2, <3>1
    <3>3. QED  BY <1>8, <2>2, <3>1, <3>2 DEF Masked
  <2>3. QED  BY <1>7, <2>2
<1>10. IsFiniteSet(Masked') /\ Cardinality(Masked') \in Nat /\ Cardinality(Masked') <= left'
  <2>1. /\ IsFiniteSet(Masked \ {b}) /\ Cardinality(Masked \ {b}) = Cardinality(Masked) - 1
    BY <1>4, <1>8, FS_RemoveElement
  <2>2. /\ IsFiniteSet(Masked') /\ Cardinality(Masked') <= Cardinality(Masked \ {b})
        /\ Cardinality(Masked') \in Nat
    BY <1>9, <2>1, FS_Subset, FS_CardinalityType
  <2>3. QED  BY <1>1, <1>3, <1>4, <2>1, <2>2
<1>11. pc' \in {"pass", "return"} /\ (pc' = "pass" <=> Masked' # {})
  <2>1. (\A c \in Cells : tokens'[c] # Mask) <=> Masked' = {}  BY <1>7
  <2>2. CASE left' = 0
    <3>1. Cardinality(Masked') = 0  BY <1>10, <2>2
    <3>2. Masked' = {}  BY <1>10, <3>1, FS_EmptySet
    <3>3. QED  BY <1>3, <2>2, <3>2
  <2>3. CASE left' # 0  BY <1>3, <2>1, <2>3
  <2>4. QED  BY <2>2, <2>3
<1>12. PassesInv'
  <2>1. left' + nfes' = B' /\ nfes' >= 1  BY <1>1, <1>3, <1>4, <1>5
  <2>2. QED  BY <1>10, <1>11, <2>1 DEF PassesInv
<1>13. QED  BY <1>6, <1>12 DEF IInv

(* Every step keeps the inductive invariant.                               *)
LEMMA Inductive == IInv /\ [Next]_vars => IInv'
<1> SUFFICES ASSUME IInv, [Next]_vars PROVE IInv'  OBVIOUS
<1>1. CASE Pass  BY <1>1, PassStep
<1>2. CASE Return
  <2>1. UNCHANGED <<config, tokens, left, nfes>> /\ pc = "return" /\ Masked = {} /\ pc' = "done"
    BY <1>2 DEF Return, IInv, PassesInv
  <2>2. B' = B /\ Cells' = Cells /\ Masked' = Masked  BY <2>1 DEF B, Cells, Masked
  <2>3. QED  BY <2>1, <2>2 DEF IInv, TypeOK, PassesInv
<1>3. CASE Returned \/ UNCHANGED vars
  <2>1. UNCHANGED vars  BY <1>3 DEF Returned
  <2>2. B' = B /\ Cells' = Cells /\ Masked' = Masked  BY <2>1 DEF vars, B, Cells, Masked
  <2>3. QED  BY <2>1, <2>2 DEF IInv, TypeOK, PassesInv, vars
<1>4. QED  BY <1>1, <1>2, <1>3 DEF Next

(* The inductive invariant holds in every reachable state.                 *)
LEMMA InvariantHolds == Spec => []IInv
<1>1. QED  BY InitIInv, Inductive, PTL DEF Spec

(* A draft is all bytes after at least one and at most block_size decoder  *)
(* passes, and the check at its end never fails (blt_draft_block), for     *)
(* both selection rules, all scores, ties, thresholds and block sizes.     *)
THEOREM DraftsAreBytes == Spec => []DraftContract
<1>1. IInv => DraftContract
  <2> SUFFICES ASSUME IInv PROVE DraftContract  OBVIOUS
  <2>1. TypeOK /\ PassesInv /\ pc # "abort"  BY DEF IInv, PassesInv
  <2>2. ASSUME pc = "done"  PROVE tokens \in [Cells -> ByteToken] /\ nfes \in 1..B
    <3>1. Masked = {} /\ nfes >= 1 /\ nfes \in 0..B /\ B \in Nat
      BY <2>1, <2>2, CellsAre DEF PassesInv, TypeOK
    <3>2. tokens \in [Cells -> ByteToken \cup {Mask}] /\ \A b \in Cells : tokens[b] # Mask
      BY <2>1, <3>1 DEF TypeOK, Masked
    <3>3. QED  BY <3>1, <3>2
  <2>3. QED  BY <2>1, <2>2 DEF DraftContract
<1>2. QED  BY <1>1, InvariantHolds, PTL
-----------------------------------------------------------------------------
(* A pass takes masked cells in the order of their scores, stable in the   *)
(* cell number: c comes before b, or is b.                                 *)
NotAfter(s, c, b) == s[c] < s[b] \/ (s[c] = s[b] /\ c <= b)

(* That order is total, and transitive.                                    *)
LEMMA CellOrder ==
    ASSUME NEW s \in [Cells -> Scores], Cells \subseteq Nat
    PROVE  /\ \A c \in Cells : s[c] \in Nat
           /\ \A a, b \in Cells : NotAfter(s, a, b) \/ NotAfter(s, b, a)
           /\ \A a, b, c \in Cells :
                 NotAfter(s, a, b) /\ NotAfter(s, b, c) => NotAfter(s, a, c)
           /\ \A a, b \in Cells : NotAfter(s, a, b) /\ NotAfter(s, b, a) => a = b
<1>1. ASSUME NEW c \in Cells  PROVE s[c] \in Nat /\ c \in Nat  BY BlockDraftAssumption
<1>2. ASSUME NEW a \in Cells, NEW b \in Cells  PROVE NotAfter(s, a, b) \/ NotAfter(s, b, a)
  BY <1>1 DEF NotAfter
<1>3. ASSUME NEW a \in Cells, NEW b \in Cells, NEW c \in Cells,
             NotAfter(s, a, b), NotAfter(s, b, c)
      PROVE  NotAfter(s, a, c)
  <2>1. /\ s[a] \in Nat /\ s[b] \in Nat /\ s[c] \in Nat /\ a \in Nat /\ b \in Nat /\ c \in Nat
    BY <1>1
  <2>2. QED  BY <1>3, <2>1 DEF NotAfter
<1>4. ASSUME NEW a \in Cells, NEW b \in Cells, NotAfter(s, a, b), NotAfter(s, b, a)
      PROVE  a = b
  <2>1. s[a] \in Nat /\ s[b] \in Nat /\ a \in Nat /\ b \in Nat  BY <1>1
  <2>2. QED  BY <1>4, <2>1 DEF NotAfter
<1>5. QED  BY <1>1, <1>2, <1>3, <1>4

(* A nonempty set of cells has a last one in that order.                   *)
LEMMA LastOf ==
    ASSUME NEW s \in [Cells -> Scores], NEW C \in SUBSET Cells, C # {},
           Cells \subseteq Nat, IsFiniteSet(Cells)
    PROVE  \E b \in C : \A c \in C : NotAfter(s, c, b)
<1> DEFINE R == {cc \in C \X C : NotAfter(s, cc[1], cc[2])}
<1>1. \A a, b \in C : <<a, b>> \in R <=> NotAfter(s, a, b)  OBVIOUS
<1>2. IsFiniteSet(C)  BY FS_Subset
<1> HIDE DEF R
<1>3. \A a, b \in C : <<a, b>> \in R \/ <<b, a>> \in R  BY <1>1, CellOrder
<1>4. \A a, b, c \in C : <<a, b>> \in R /\ <<b, c>> \in R => <<a, c>> \in R
  BY <1>1, CellOrder
<1>5. \E b \in C : \A c \in C : <<c, b>> \in R  BY <1>2, <1>3, <1>4, LastInOrder
<1>6. QED  BY <1>1, <1>5

(* And a first one (LowestFirst, in terms of the order).                   *)
LEMMA FirstInOrder ==
    ASSUME NEW s \in [Cells -> Scores], NEW C \in SUBSET Cells, C # {}, Cells \subseteq Nat
    PROVE  \E b \in C : \A c \in C : NotAfter(s, b, c)
BY LowestFirst DEF NotAfter

(* The running sum of blt_unmask_select_eb is a sum over a finite set.     *)
LEMMA RunningSum ==
    ASSUME NEW s, NEW T
    PROVE  Sum(s, T) = SumOf(s, T)
BY DEF Sum, SumOf, MapThenSumSet, MapThenFoldSet

(* The entropy-bounded rule takes an initial part of the order: with a     *)
(* cell it takes every masked cell before it (the loop stops at the first  *)
(* cell that exceeds gamma).                                               *)
LEMMA SelectsInitialPart ==
    ASSUME TypeOK, NEW s \in [Cells -> Scores],
           NEW b \in SelectEB(s, Masked), NEW c \in Masked, NotAfter(s, c, b)
    PROVE  c \in SelectEB(s, Masked)
<1>1. /\ Masked \subseteq Cells /\ Cells \subseteq Nat /\ IsFiniteSet(Cells)
  BY CellsAre
<1>2. b \in Masked /\ (UpTo(s, Masked, b) = {b} \/ Sum(s, UpTo(s, Masked, b)) <= config.threshold)
  BY DEF SelectEB
<1>3. /\ UpTo(s, Masked, b) = {d \in Masked : NotAfter(s, d, b)}
      /\ UpTo(s, Masked, c) = {d \in Masked : NotAfter(s, d, c)}
  BY DEF UpTo, NotAfter
<1>4. c \in UpTo(s, Masked, b)  BY <1>3
<1>5. CASE UpTo(s, Masked, b) = {b}
  <2>1. c = b  BY <1>4, <1>5
  <2>2. QED  BY <2>1
<1>6. CASE Sum(s, UpTo(s, Masked, b)) <= config.threshold
  <2>1. UpTo(s, Masked, c) \subseteq UpTo(s, Masked, b)
    <3>1. ASSUME NEW d \in Masked, NotAfter(s, d, c)  PROVE NotAfter(s, d, b)
      BY <1>1, <1>2, <3>1, CellOrder
    <3>2. QED  BY <1>3, <3>1
  <2> DEFINE U == UpTo(s, Masked, b)
             V == UpTo(s, Masked, c)
  <2>2. U \in SUBSET Cells /\ V \in SUBSET U /\ V \in SUBSET Cells  BY <1>1, <1>3, <2>1
  <2>3. \A x \in Cells : s[x] \in Nat  BY <1>1, CellOrder
  <2>4. Sum(s, U) = SumOf(s, U) /\ Sum(s, V) = SumOf(s, V)  BY RunningSum
  <2>5. config.threshold \in Int  BY BlockDraftAssumption DEF TypeOK
  <2> HIDE DEF U, V
  <2>6. SumOf(s, V) <= SumOf(s, U)  BY <1>1, <2>2, <2>3, SumOfPart
  <2>7. SumOf(s, V) \in Nat /\ SumOf(s, U) \in Nat  BY <1>1, <2>2, <2>3, SumAdds
  <2>8. Sum(s, U) <= config.threshold  BY <1>6 DEF U
  <2>9. Sum(s, V) <= config.threshold  BY <2>4, <2>5, <2>6, <2>7, <2>8
  <2>10. QED  BY <2>9 DEF V, SelectEB
<1>7. QED  BY <1>2, <1>5, <1>6

(* More than one cell is only taken within gamma.                          *)
LEMMA StaysWithin ==
    ASSUME TypeOK, NEW s \in [Cells -> Scores], Cardinality(SelectEB(s, Masked)) > 1
    PROVE  Sum(s, SelectEB(s, Masked)) <= config.threshold
<1> DEFINE R == SelectEB(s, Masked)
<1>1. /\ Masked \subseteq Cells /\ Cells \subseteq Nat /\ IsFiniteSet(Cells)
  BY CellsAre
<1>2. R \subseteq Masked /\ R \in SUBSET Cells  BY <1>1 DEF SelectEB
<1>3. Cardinality(R) > 1  OBVIOUS
<1>4. R # {}
  <2> HIDE DEF R
  <2>1. Cardinality({}) = 0  BY FS_EmptySet
  <2>2. QED  BY <1>3, <2>1
<1>5. PICK m \in R : \A c \in R : NotAfter(s, c, m)
  <2> HIDE DEF R
  <2>1. QED  BY <1>1, <1>2, <1>4, LastOf
<1>6. UpTo(s, Masked, m) = {d \in Masked : NotAfter(s, d, m)}  BY DEF UpTo, NotAfter
<1>7. UpTo(s, Masked, m) = R
  <2>1. ASSUME NEW d \in Masked, NotAfter(s, d, m)  PROVE d \in R  BY <1>5, <2>1, SelectsInitialPart
  <2>2. QED  BY <1>2, <1>5, <1>6, <2>1
<1>8. R # {m}
  <2> HIDE DEF R
  <2>1. Cardinality({m}) = 1  BY FS_Singleton
  <2>2. QED  BY <1>3, <2>1
<1>9. UpTo(s, Masked, m) = {m} \/ Sum(s, UpTo(s, Masked, m)) <= config.threshold
  BY <1>5 DEF SelectEB
<1>10. QED  BY <1>7, <1>8, <1>9

(* No set of masked cells within gamma is larger: the first cell the rule  *)
(* leaves out ends an initial part that exceeds gamma, and a larger set    *)
(* costs at least as much, its other cells coming later in the order.      *)
LEMMA NoneIsLarger ==
    ASSUME TypeOK, NEW s \in [Cells -> Scores], NEW T \in SUBSET Masked,
           Sum(s, T) <= config.threshold
    PROVE  Cardinality(T) <= Cardinality(SelectEB(s, Masked))
<1> DEFINE R == SelectEB(s, Masked)
<1>1. /\ Masked \subseteq Cells /\ Cells \subseteq Nat /\ IsFiniteSet(Cells)
      /\ IsFiniteSet(Masked)
  BY CellsAre
<1>2. R \subseteq Masked  BY DEF SelectEB
<1>3. /\ IsFiniteSet(R) /\ Cardinality(R) \in Nat /\ IsFiniteSet(T) /\ Cardinality(T) \in Nat
  <2> HIDE DEF R
  <2>1. IsFiniteSet(R) /\ IsFiniteSet(T)  BY <1>1, <1>2, FS_Subset
  <2>2. QED  BY <2>1, FS_CardinalityType
<1>4. SUFFICES ASSUME Cardinality(T) > Cardinality(R)  PROVE FALSE
  <2> HIDE DEF R
  <2>1. Cardinality(T) > Cardinality(R) \/ Cardinality(T) <= Cardinality(R)  BY <1>3
  <2>2. QED  BY <2>1 DEF R
<1>5. Masked \ R # {}
  <2> HIDE DEF R
  <2>1. ASSUME T \subseteq R  PROVE FALSE
    <3>1. Cardinality(T) <= Cardinality(R)  BY <1>3, <2>1, FS_Subset
    <3>2. QED  BY <1>3, <1>4, <3>1
  <2>2. QED  BY <2>1
<1>6. PICK n \in Masked \ R : \A c \in Masked \ R : NotAfter(s, n, c)
  <2> DEFINE Left == Masked \ R
  <2>1. Left \in SUBSET Cells /\ Left # {}  BY <1>1, <1>5
  <2> HIDE DEF Left
  <2>2. \E b \in Left : \A c \in Left : NotAfter(s, b, c)  BY <1>1, <2>1, FirstInOrder
  <2>3. QED  BY <2>2 DEF Left
<1> DEFINE D == UpTo(s, Masked, n)
<1>7. D = {d \in Masked : NotAfter(s, d, n)}  BY DEF UpTo, NotAfter
<1>8. D \subseteq R \cup {n}
  <2>1. ASSUME NEW d \in Masked, NotAfter(s, d, n), d \notin R  PROVE d = n
    <3>1. NotAfter(s, n, d)  BY <1>6, <2>1
    <3>2. QED  BY <1>1, <1>6, <2>1, <3>1, CellOrder
  <2>2. QED  BY <1>7, <2>1
<1>9. Sum(s, D) > config.threshold
  <2>1. D \in SUBSET Cells /\ config.threshold \in Int
    BY <1>1, <1>7, BlockDraftAssumption DEF TypeOK
  <2>2. \A x \in Cells : s[x] \in Nat  BY <1>1, CellOrder
  <2>3. ~ (Sum(s, D) <= config.threshold)  BY <1>6 DEF SelectEB
  <2>4. Sum(s, D) = SumOf(s, D)  BY RunningSum
  <2> HIDE DEF D
  <2>5. SumOf(s, D) \in Nat  BY <1>1, <2>1, <2>2, SumAdds
  <2>6. QED  BY <2>1, <2>3, <2>4, <2>5
<1>10. Cardinality(D) <= Cardinality(T)
  <2> HIDE DEF R, D
  <2>1. /\ IsFiniteSet(R \cup {n}) /\ Cardinality(R \cup {n}) = Cardinality(R) + 1
    BY <1>3, <1>6, FS_AddElement
  <2>2. IsFiniteSet(D) /\ Cardinality(D) <= Cardinality(R) + 1 /\ Cardinality(D) \in Nat
    BY <1>8, <2>1, FS_Subset, FS_CardinalityType
  <2>3. QED  BY <1>3, <1>4, <2>2
<1>11. \A d \in D \ T, t \in T \ D : s[d] <= s[t]
  <2>1. ASSUME NEW d \in D \ T, NEW t \in T \ D  PROVE s[d] <= s[t]
    <3>1. d \in Cells /\ t \in Cells /\ n \in Cells  BY <1>1, <1>6, <1>7
    <3>2. NotAfter(s, d, n) /\ ~ NotAfter(s, t, n)  BY <1>7
    <3>3. NotAfter(s, d, t)  BY <1>1, <3>1, <3>2, CellOrder
    <3>4. s[d] \in Nat /\ s[t] \in Nat  BY <1>1, <3>1, CellOrder
    <3>5. QED  BY <3>3, <3>4 DEF NotAfter
  <2>2. QED  BY <2>1
<1>12. SumOf(s, D) <= SumOf(s, T)
  <2> HIDE DEF R
  <2>1. /\ D \in SUBSET Cells /\ T \in SUBSET Cells /\ \A x \in Cells : s[x] \in Nat
    BY <1>1, <1>7, CellOrder
  <2> HIDE DEF D
  <2>2. QED  BY <1>1, <1>10, <1>11, <2>1, SumOfExchange
<1>13. QED
  <2>1. D \in SUBSET Cells /\ T \in SUBSET Cells /\ config.threshold \in Int
    BY <1>1, <1>7, BlockDraftAssumption DEF TypeOK
  <2>2. \A x \in Cells : s[x] \in Nat  BY <1>1, CellOrder
  <2>3. Sum(s, D) = SumOf(s, D) /\ Sum(s, T) = SumOf(s, T)  BY RunningSum
  <2> HIDE DEF D
  <2>4. SumOf(s, D) \in Nat /\ SumOf(s, T) \in Nat  BY <1>1, <2>1, <2>2, SumAdds
  <2>5. QED  BY <1>9, <1>12, <2>1, <2>3, <2>4

(* The entropy-bounded rule is optimal (blt_unmask_select_eb): for all     *)
(* entropies, ties, thresholds and masked sets, it stays within gamma      *)
(* unless it takes a single cell, and no set of masked cells within gamma  *)
(* is larger.                                                              *)
THEOREM EntropyBoundTakesMost == Spec => []EntropyBoundOptimal
<1>1. IInv => EntropyBoundOptimal
  <2> SUFFICES ASSUME IInv, config.strategy = "eb", NEW s \in [Cells -> Scores]
               PROVE  /\ Cardinality(Select(s)) > 1 => Sum(s, Select(s)) <= config.threshold
                      /\ \A T \in SUBSET Masked :
                            Sum(s, T) <= config.threshold => Cardinality(T) <= Cardinality(Select(s))
    BY DEF EntropyBoundOptimal
  <2>1. TypeOK  BY DEF IInv
  <2>2. Select(s) = SelectEB(s, Masked)  BY DEF Select
  <2>3. QED  BY <2>1, <2>2, StaysWithin, NoneIsLarger
<1>2. QED  BY <1>1, InvariantHolds, PTL
-----------------------------------------------------------------------------
(***************************************************************************)
(* generate_loop and blt_decode_select.                                    *)
(***************************************************************************)
(* The bytes in descending order of mass, ties by number, are totally      *)
(* ordered.                                                                *)
LEMMA ByteOrder ==
    ASSUME NEW p \in [Byte -> Nat]
    PROVE  /\ \A b \in Byte : b \notin Ahead(p, b)
           /\ \A b, c \in Byte : b = c \/ b \in Ahead(p, c) \/ c \in Ahead(p, b)
           /\ \A b, c, d \in Byte :
                 b \in Ahead(p, c) /\ c \in Ahead(p, d) => b \in Ahead(p, d)
           /\ \A b, c \in Byte : c \in Ahead(p, b) => p[b] <= p[c]
           /\ \A b, c \in Byte : c \notin Ahead(p, b) => p[c] <= p[b]
<1>1. ASSUME NEW b \in Byte  PROVE b \in Nat /\ p[b] \in Nat  BY GreedyLoopAssumption
<1>2. ASSUME NEW b \in Byte, NEW c \in Byte
      PROVE  /\ b \notin Ahead(p, b)
             /\ b = c \/ b \in Ahead(p, c) \/ c \in Ahead(p, b)
             /\ c \in Ahead(p, b) => p[b] <= p[c]
             /\ c \notin Ahead(p, b) => p[c] <= p[b]
  BY <1>1 DEF Ahead
<1>3. ASSUME NEW b \in Byte, NEW c \in Byte, NEW d \in Byte,
             b \in Ahead(p, c), c \in Ahead(p, d)
      PROVE  b \in Ahead(p, d)
  BY <1>1, <1>3 DEF Ahead
<1>4. QED  BY <1>2, <1>3

(* A nonempty set of bytes has a first and a last one in that order.       *)
LEMMA EndsOfOrder ==
    ASSUME NEW p \in [Byte -> Nat], NEW C \in SUBSET Byte, C # {}
    PROVE  /\ \E b \in C : \A c \in C : c = b \/ b \in Ahead(p, c)
           /\ \E b \in C : \A c \in C : c = b \/ c \in Ahead(p, b)
<1> DEFINE Down == {cc \in C \X C : cc[1] = cc[2] \/ cc[1] \in Ahead(p, cc[2])}
           Up == {cc \in C \X C : cc[1] = cc[2] \/ cc[2] \in Ahead(p, cc[1])}
<1>1. \A a, b \in C : /\ <<a, b>> \in Down <=> a = b \/ a \in Ahead(p, b)
                      /\ <<a, b>> \in Up <=> a = b \/ b \in Ahead(p, a)
  OBVIOUS
<1>2. IsFiniteSet(C)  BY FS_Subset, GreedyLoopAssumption
<1> HIDE DEF Down, Up
<1>3. /\ \A a, b \in C : <<a, b>> \in Down \/ <<b, a>> \in Down
      /\ \A a, b, c \in C : <<a, b>> \in Down /\ <<b, c>> \in Down => <<a, c>> \in Down
  BY <1>1, ByteOrder
<1>4. /\ \A a, b \in C : <<a, b>> \in Up \/ <<b, a>> \in Up
      /\ \A a, b, c \in C : <<a, b>> \in Up /\ <<b, c>> \in Up => <<a, c>> \in Up
  BY <1>1, ByteOrder
<1>5. \E b \in C : \A c \in C : <<c, b>> \in Down  BY <1>2, <1>3, LastInOrder
<1>6. \E b \in C : \A c \in C : <<c, b>> \in Up  BY <1>2, <1>4, LastInOrder
<1>7. QED  BY <1>1, <1>5, <1>6

(* Products keep the order of their first factors.                         *)
LEMMA TimesKeepsOrder ==
    ASSUME NEW x \in Int, NEW y \in Int, x <= y, NEW k \in Nat
    PROVE  x * k \in Int /\ y * k \in Int /\ x * k <= y * k
<1>1. y - x \in Nat /\ (y - x) * k \in Nat  OBVIOUS
<1>2. y * k = x * k + (y - x) * k  OBVIOUS
<1>3. QED  BY <1>1, <1>2

(* The mass of a set is a sum over a finite set.                           *)
LEMMA MassIsSum ==
    ASSUME NEW p \in [Byte -> Nat]
    PROVE  /\ \A T \in SUBSET Byte : MassOf(p, T) = SumOf(p, T) /\ MassOf(p, T) \in Nat
           /\ MassOf(p, {}) = 0
           /\ \A T \in SUBSET Byte : \A U \in SUBSET T : MassOf(p, U) <= MassOf(p, T)
<1>1. \A T : MassOf(p, T) = SumOf(p, T)
  BY DEF MassOf, SumOf, MapThenSumSet, MapThenFoldSet
<1>2. IsFiniteSet(Byte) /\ \A b \in Byte : p[b] \in Nat  BY GreedyLoopAssumption
<1>3. SumOf(p, {}) = 0 /\ \A T \in SUBSET Byte : SumOf(p, T) \in Nat  BY <1>2, SumAdds
<1>4. \A T \in SUBSET Byte : \A U \in SUBSET T : SumOf(p, U) <= SumOf(p, T)  BY <1>2, SumOfPart
<1>5. QED  BY <1>1, <1>3, <1>4

(* The nucleus reaches top_p: it is everything, or the first byte it       *)
(* leaves out found top_p reached by the bytes ahead of it.                *)
LEMMA NucleusReaches ==
    ASSUME NEW p \in [Byte -> Nat], o.topP \in Nat, o.topP < Parts
    PROVE  MassOf(p, Nucleus(p)) * Parts >= o.topP * MassOf(p, Byte)
<1> DEFINE N == Nucleus(p)
           all == MassOf(p, Byte)
           kept == MassOf(p, N)
<1>1. N \in SUBSET Byte  BY DEF Nucleus
<1>2. Parts \in Nat  BY GreedyLoopAssumption
<1>3. all \in Nat /\ kept \in Nat  BY <1>1, MassIsSum
<1>4. CASE N = Byte
  <2>1. all * o.topP <= all * Parts  BY <1>2, <1>3, TimesKeepsOrder
  <2>2. kept = all  BY <1>4
  <2>3. kept * Parts >= o.topP * all
    <3> HIDE DEF N, all, kept
    <3> QED  BY <1>2, <1>3, <2>1, <2>2
  <2>4. QED  BY <2>3
<1>5. CASE N # Byte
  <2> DEFINE Rest == Byte \ N
  <2>1. Rest \in SUBSET Byte /\ Rest # {}  BY <1>1, <1>5
  <2>2. PICK n \in Rest : \A c \in Rest : c = n \/ n \in Ahead(p, c)
    <3> HIDE DEF Rest
    <3> QED  BY <2>1, EndsOfOrder
  <2>3. Ahead(p, n) \in SUBSET N
    <3>1. ASSUME NEW c \in Byte, c \in Ahead(p, n), c \notin N  PROVE FALSE
      <4>1. c = n \/ n \in Ahead(p, c)  BY <2>2, <3>1
      <4>2. n \in Byte  OBVIOUS
      <4>3. QED  BY <3>1, <4>1, <4>2, ByteOrder
    <3>2. QED  BY <3>1 DEF Ahead
  <2> DEFINE ahead == MassOf(p, Ahead(p, n))
  <2>4. ~(ahead * Parts < o.topP * all)  BY <2>2 DEF Nucleus
  <2>5. ahead \in Nat /\ ahead <= kept
    <3>1. N \in SUBSET Byte /\ Ahead(p, n) \in SUBSET N  BY <1>1, <2>3
    <3> HIDE DEF N
    <3>2. QED  BY <3>1, MassIsSum
  <2> HIDE DEF ahead, all, kept
  <2>6. ahead * Parts <= kept * Parts  BY <1>2, <1>3, <2>5, TimesKeepsOrder
  <2>7. kept * Parts >= o.topP * all  BY <1>2, <1>3, <2>4, <2>5, <2>6
  <2>8. QED  BY <2>7 DEF kept, all
<1>6. QED  BY <1>4, <1>5

(* No smaller set does: the bytes ahead of the nucleus' last one fall      *)
(* short of top_p, and a smaller set weighs no more than they do.          *)
LEMMA NoneSmallerReaches ==
    ASSUME NEW p \in [Byte -> Nat], o.topP \in Nat,
           NEW T \in SUBSET Byte, Cardinality(T) < Cardinality(Nucleus(p))
    PROVE  MassOf(p, T) * Parts < o.topP * MassOf(p, Byte)
<1> DEFINE N == Nucleus(p)
           all == MassOf(p, Byte)
           mine == MassOf(p, T)
<1>1. N \in SUBSET Byte  BY DEF Nucleus
<1>2. Parts \in Nat /\ IsFiniteSet(Byte)  BY GreedyLoopAssumption
<1>3. all \in Nat /\ mine \in Nat  BY MassIsSum
<1>4. IsFiniteSet(N) /\ Cardinality(N) \in Nat /\ IsFiniteSet(T) /\ Cardinality(T) \in Nat
  <2> HIDE DEF N
  <2>1. IsFiniteSet(N) /\ IsFiniteSet(T)  BY <1>1, <1>2, FS_Subset
  <2>2. QED  BY <2>1, FS_CardinalityType
<1>5. N # {}
  <2> HIDE DEF N
  <2>1. Cardinality({}) = 0  BY FS_EmptySet
  <2>2. Cardinality(T) < Cardinality(N)  BY DEF N
  <2>3. QED  BY <1>4, <2>1, <2>2
<1>6. PICK m \in N : \A c \in N : c = m \/ c \in Ahead(p, m)
  <2> HIDE DEF N
  <2> QED  BY <1>1, <1>5, EndsOfOrder
<1> DEFINE D == Ahead(p, m)
           ahead == MassOf(p, D)
<1>7. D \in SUBSET Byte /\ m \in Byte  BY <1>1 DEF Ahead
<1>8. ahead * Parts < o.topP * all  BY <1>6 DEF Nucleus
<1>9. ahead \in Nat
  <2> HIDE DEF D
  <2> QED  BY <1>7, MassIsSum
<1>10. Cardinality(T) <= Cardinality(D)
  <2>1. N \subseteq D \cup {m} /\ m \notin D  BY <1>6, <1>7, ByteOrder
  <2>2. Cardinality(T) < Cardinality(N)  OBVIOUS
  <2> HIDE DEF N, D
  <2>3. IsFiniteSet(D)  BY <1>2, <1>7, FS_Subset
  <2>4. Cardinality(D) \in Nat  BY <2>3, FS_CardinalityType
  <2>5. IsFiniteSet(D \cup {m}) /\ Cardinality(D \cup {m}) = Cardinality(D) + 1
    BY <2>1, <2>3, FS_AddElement
  <2>6. Cardinality(N) <= Cardinality(D) + 1  BY <2>1, <2>5, FS_Subset
  <2>7. QED  BY <1>4, <2>2, <2>4, <2>6
<1>11. \A t \in T \ D, d \in D \ T : p[t] <= p[d]
  <2>1. ASSUME NEW t \in T \ D, NEW d \in D \ T  PROVE p[t] <= p[d]
    <3>1. p[t] <= p[m] /\ p[m] <= p[d]  BY <1>7, ByteOrder
    <3>2. p[t] \in Nat /\ p[m] \in Nat /\ p[d] \in Nat  BY <1>7
    <3>3. QED  BY <3>1, <3>2
  <2>2. QED  BY <2>1
<1>12. mine <= ahead
  <2> HIDE DEF D
  <2>1. \A b \in Byte : p[b] \in Nat  OBVIOUS
  <2>2. SumOf(p, T) <= SumOf(p, D)  BY <1>2, <1>7, <1>10, <1>11, <2>1, SumOfExchange
  <2>3. QED  BY <1>7, <2>2, MassIsSum
<1>13. mine * Parts <= ahead * Parts
  <2> HIDE DEF mine, ahead
  <2> QED  BY <1>2, <1>3, <1>9, <1>12, TimesKeepsOrder
<1>14. mine * Parts < o.topP * all
  <2> HIDE DEF mine, ahead, all
  <2> QED  BY <1>2, <1>3, <1>8, <1>9, <1>13
<1>15. QED  BY <1>14
-----------------------------------------------------------------------------
(* Committed bytes: the prompt, then bytes, in number within the target.   *)
Grown == \E t \in Seq(Byte) : out = req.prompt \o t

GenInv == GenTypeOK /\ Grown

(* What is committed is a text the network has logits for, so the last row *)
(* of a pass over it holds bounded integers (generate_loop).               *)
LEMMA LastRowIs ==
    ASSUME GenInv
    PROVE  LastRow \in [Byte -> -MaxLogit..MaxLogit]
<1>1. PICK t \in Seq(Byte) : out = req.prompt \o t  BY DEF GenInv, Grown
<1>2. /\ req \in Request /\ req.target <= Len(req.prompt) + MaxNew
      /\ Len(out) <= req.target
  BY DEF GenInv, GenTypeOK
<1>3. /\ req.em \in EntropyModels /\ req.model \in Models /\ req.prompt \in Prompts
      /\ req.target \in Nat
  BY <1>2 DEF Request
<1>4. req.prompt \in Seq(Byte) /\ MaxNew \in Nat  BY <1>3, GreedyLoopAssumption
<1>5. Len(out) = Len(req.prompt) + Len(t)  BY <1>1, <1>4
<1>6. Len(t) \in 0..MaxNew  BY <1>2, <1>3, <1>4, <1>5
<1>7. t \in [1..Len(t) -> Byte]  OBVIOUS
<1>8. t \in NewBytes  BY <1>6, <1>7 DEF NewBytes
<1>9. out \in Texts
  <2>1. out \in {req.prompt \o u : u \in NewBytes}  BY <1>1, <1>8
  <2>2. QED  BY <1>3, <2>1 DEF Texts
<1>10. Logits(req.model, FullView(req.em, out, Len(out) - 1)) \in [Byte -> -MaxLogit..MaxLogit]
  BY <1>3, <1>9, NetworkAssumption
<1>11. QED  BY <1>10 DEF LastRow, l

(* A row has a first largest byte.                                         *)
LEMMA ArgmaxIs ==
    ASSUME NEW row \in [Byte -> -MaxLogit..MaxLogit]
    PROVE  ArgmaxByte(row) \in Byte
<1> DEFINE V == {row[b] : b \in Byte}
           C == {b \in Byte : \A c \in Byte : row[c] <= row[b]}
<1>1. IsFiniteSet(Byte) /\ Byte # {} /\ Byte \subseteq Nat /\ MaxLogit \in Nat
  BY GreedyLoopAssumption
<1>2. IsFiniteSet(V)  BY <1>1, ImageIsFinite
<1>3. V \in SUBSET Int /\ V # {}
  <2>1. \A b \in Byte : row[b] \in -MaxLogit..MaxLogit  OBVIOUS
  <2>2. \A i \in -MaxLogit..MaxLogit : i \in Int  BY <1>1
  <2>3. \A b \in Byte : row[b] \in Int  BY <2>1, <2>2
  <2>4. QED  BY <1>1, <2>3
<1>4. Max(V) \in V /\ \A v \in V : v <= Max(V)
  <2> HIDE DEF V
  <2> QED  BY <1>2, <1>3, MaxOfFinite
<1>5. PICK b \in Byte : Max(V) = row[b]  BY <1>4
<1>6. C \in SUBSET Nat /\ C # {}  BY <1>1, <1>4, <1>5
<1>7. Min(C) \in C
  <2> HIDE DEF C
  <2> QED  BY <1>6, MinIsLeast
<1>8. QED  BY <1>7 DEF ArgmaxByte

(* A bounded number times two small naturals is bounded.                   *)
LEMMA TimesIsBounded ==
    ASSUME NEW m \in Nat, NEW r \in -m..m, NEW k \in Nat, NEW x \in 0..k, NEW y \in 0..k
    PROVE  r * x * y \in -(m * k * k)..(m * k * k)
<1>1. ASSUME NEW n \in Nat, NEW q \in -n..n, NEW z \in 0..k
      PROVE  q * z \in -(n * k)..(n * k)
  <2>1. q * z <= n * z /\ (-n) * z <= q * z  BY TimesKeepsOrder
  <2>2. z * n <= k * n  BY TimesKeepsOrder
  <2>3. n * z = z * n /\ n * k = k * n /\ (-n) * z = -(z * n)  OBVIOUS
  <2>4. q * z \in Int /\ n * k \in Nat  OBVIOUS
  <2>5. q * z <= n * k /\ -(n * k) <= q * z  BY <2>1, <2>2, <2>3, <2>4
  <2>6. QED  BY <2>4, <2>5
<1>2. r * x \in -(m * k)..(m * k) /\ m * k \in Nat  BY <1>1
<1>3. QED  BY <1>1, <1>2

(* The penalised logits are integers, at most so far apart.                *)
LEMMA PenalisedIs ==
    ASSUME NEW row \in [Byte -> -MaxLogit..MaxLogit], o \in Options
    PROVE  /\ Penalised(row) \in [Byte -> Int]
           /\ \A b, c \in Byte :
                 Penalised(row)[c] - Penalised(row)[b] <= Widest(o)
<1> DEFINE k == o.num + o.den
           m == MaxLogit
           w == Penalised(row)
<1>1. o.num \in Nat /\ o.den \in Nat /\ m \in Nat /\ k \in Nat
  BY GreedyLoopAssumption
<1>2. o.num \in 0..k /\ o.den \in 0..k  BY <1>1
<1>3. ASSUME NEW b \in Byte  PROVE w[b] \in -(m * k * k)..(m * k * k)
  <2>1. row[b] \in -m..m  OBVIOUS
  <2> HIDE DEF m, k
  <2>2. /\ row[b] * o.den * o.den \in -(m * k * k)..(m * k * k)
        /\ row[b] * o.num * o.num \in -(m * k * k)..(m * k * k)
        /\ row[b] * o.num * o.den \in -(m * k * k)..(m * k * k)
    BY <1>1, <1>2, <2>1, TimesIsBounded
  <2>3. w[b] = CASE b \in Seen /\ row[b] > 0 -> row[b] * o.den * o.den
                 [] b \in Seen /\ row[b] <= 0 -> row[b] * o.num * o.num
                 [] OTHER -> row[b] * o.num * o.den
    BY DEF Penalised
  <2>4. QED  BY <2>2, <2>3
<1>4. m * k * k \in Nat  BY <1>1
<1>5. Widest(o) = 2 * (m * k * k)  BY <1>1 DEF Widest
<1>6. w \in [Byte -> Int]
  <2>1. \A b \in Byte : w[b] \in Int  BY <1>3, <1>4
  <2>2. QED  BY <2>1 DEF Penalised
<1>7. ASSUME NEW b \in Byte, NEW c \in Byte  PROVE w[c] - w[b] <= Widest(o)
  <2> HIDE DEF w, m, k
  <2> DEFINE n == m * k * k
  <2>1. w[b] \in -n..n /\ w[c] \in -n..n /\ n \in Nat  BY <1>3, <1>4
  <2> HIDE DEF n
  <2>2. w[c] - w[b] <= 2 * n  BY <2>1
  <2>3. QED  BY <1>5, <2>2 DEF n
<1>8. QED  BY <1>6, <1>7

(* The softmax gives every byte a natural mass, one of them a positive     *)
(* one, and a byte of no larger logit no larger mass.                      *)
LEMMA SoftmaxIs ==
    ASSUME o \in Options, NEW w \in [Byte -> Int],
           \A b, c \in Byte : w[c] - w[b] <= Widest(o)
    PROVE  /\ Softmax(w) \in [Byte -> Nat]
           /\ \E b \in Byte : Softmax(w)[b] > 0
           /\ \A b, c \in Byte : w[b] <= w[c] => Softmax(w)[b] <= Softmax(w)[c]
<1> DEFINE V == {w[c] : c \in Byte}
           top == Max(V)
<1>1. IsFiniteSet(Byte) /\ Byte # {}  BY GreedyLoopAssumption
<1>2. IsFiniteSet(V) /\ V \in SUBSET Int /\ V # {}  BY <1>1, ImageIsFinite
<1>3. top \in V /\ \A v \in V : v <= top
  <2> HIDE DEF V
  <2> QED  BY <1>2, MaxOfFinite
<1>4. PICK best \in Byte : top = w[best]  BY <1>3
<1>5. ASSUME NEW b \in Byte  PROVE top - w[b] \in 0..Widest(o) /\ w[b] \in Int
  <2>1. w[b] <= top  BY <1>3
  <2>2. top - w[b] <= Widest(o)  BY <1>4
  <2>3. Widest(o) \in Int
    <3>1. o.num \in Nat /\ o.den \in Nat /\ MaxLogit \in Nat  BY GreedyLoopAssumption
    <3>2. QED  BY <3>1 DEF Widest
  <2>4. w[b] \in Int /\ top \in Int  BY <1>4
  <2> HIDE DEF top
  <2>5. QED  BY <2>1, <2>2, <2>3, <2>4
<1>6. \A b \in Byte : Softmax(w)[b] = Mass(o, top - w[b])  BY DEF Softmax
<1>7. Softmax(w) \in [Byte -> Nat]
  <2>1. \A b \in Byte : Mass(o, top - w[b]) \in Nat  BY <1>5, MassAssumption
  <2>2. QED  BY <2>1 DEF Softmax
<1>8. Softmax(w)[best] > 0
  <2>1. top - w[best] = 0  BY <1>4, <1>5
  <2>2. QED  BY <1>6, <2>1, MassAssumption
<1>9. ASSUME NEW b \in Byte, NEW c \in Byte, w[b] <= w[c]
      PROVE  Softmax(w)[b] <= Softmax(w)[c]
  <2>1. top \in Int  BY <1>4
  <2> HIDE DEF top
  <2>2. top - w[c] <= top - w[b]  BY <1>5, <1>9, <2>1
  <2>3. Mass(o, top - w[b]) <= Mass(o, top - w[c])  BY <1>5, <2>2, MassAssumption
  <2>4. QED  BY <1>6, <2>3
<1>10. QED  BY <1>7, <1>8, <1>9

(* The masses of a step are naturals, and some byte has one.               *)
LEMMA MassesAre ==
    ASSUME GenInv
    PROVE  /\ o \in Options /\ Masses \in [Byte -> Nat]
           /\ \E b \in Byte : Masses[b] > 0
           /\ \A b, c \in Byte :
                 Penalised(LastRow)[b] <= Penalised(LastRow)[c] => Masses[b] <= Masses[c]
<1>1. o \in Options  BY DEF GenInv, GenTypeOK, Request, o
<1>2. LastRow \in [Byte -> -MaxLogit..MaxLogit]  BY LastRowIs
<1>3. /\ Penalised(LastRow) \in [Byte -> Int]
      /\ \A b, c \in Byte : Penalised(LastRow)[c] - Penalised(LastRow)[b] <= Widest(o)
  BY <1>1, <1>2, PenalisedIs
<1> DEFINE w == Penalised(LastRow)
<1>4. /\ Softmax(w) \in [Byte -> Nat]
      /\ \E b \in Byte : Softmax(w)[b] > 0
      /\ \A b, c \in Byte : w[b] <= w[c] => Softmax(w)[b] <= Softmax(w)[c]
  <2> HIDE DEF w
  <2>1. w \in [Byte -> Int] /\ \A b, c \in Byte : w[c] - w[b] <= Widest(o)  BY <1>3 DEF w
  <2>2. QED  BY <1>1, <2>1, SoftmaxIs
<1>5. Masses = Softmax(w)  BY DEF Masses
<1> HIDE DEF w
<1>6. QED  BY <1>1, <1>4, <1>5 DEF w

(* The first byte in order survives every filter: top-k keeps at least one *)
(* byte, and the nucleus is not empty while some byte has mass.            *)
LEMMA KeepsSome ==
    ASSUME o \in Options, NEW p \in [Byte -> Nat], \E b \in Byte : p[b] > 0
    PROVE  Kept(p) # {}
<1>1. Byte \in SUBSET Byte /\ Byte # {} /\ IsFiniteSet(Byte)  BY GreedyLoopAssumption
<1>2. PICK first \in Byte : \A c \in Byte : c = first \/ first \in Ahead(p, c)
  BY <1>1, EndsOfOrder
<1>3. Ahead(p, first) = {}
  <2>1. ASSUME NEW c \in Byte, c \in Ahead(p, first)  PROVE FALSE
    <3>1. c = first \/ first \in Ahead(p, c)  BY <1>2
    <3>2. QED  BY <2>1, <3>1, ByteOrder
  <2>2. QED  BY <2>1 DEF Ahead
<1>4. Cardinality(Ahead(p, first)) = 0  BY <1>3, FS_EmptySet
<1>5. o.topK \in Nat /\ o.topP \in Nat /\ Parts \in Nat  BY GreedyLoopAssumption
<1>6. TopKOn => Cardinality(Ahead(p, first)) < o.topK  BY <1>4 DEF TopKOn
<1>7. TopPOn => first \in Nucleus(p)
  <2>1. SUFFICES ASSUME o.topP > 0 PROVE first \in Nucleus(p)  BY DEF TopPOn
  <2>2. PICK b \in Byte : p[b] > 0  OBVIOUS
  <2> DEFINE all == MassOf(p, Byte)
  <2>3. all \in Nat /\ all > 0
    <3>1. {} \in SUBSET Byte /\ b \in Byte \ {} /\ \A x \in Byte : p[x] \in Nat  OBVIOUS
    <3>2. SumOf(p, {} \cup {b}) = SumOf(p, {}) + p[b] /\ SumOf(p, {}) = 0
      <4>1. /\ SumOf(p, {}) = 0
            /\ \A T \in SUBSET Byte : \A x \in Byte \ T : SumOf(p, T \cup {x}) = SumOf(p, T) + p[x]
        BY <1>1, <3>1, SumAdds
      <4>2. QED  BY <3>1, <4>1
    <3>3. {} \cup {b} = {b}  OBVIOUS
    <3>4. SumOf(p, {b}) = p[b]  BY <3>2, <3>3
    <3>5. /\ MassOf(p, {b}) <= all /\ MassOf(p, {b}) = SumOf(p, {b})
          /\ all \in Nat /\ MassOf(p, {b}) \in Nat
      <4>1. {b} \in SUBSET Byte /\ Byte \in SUBSET Byte  OBVIOUS
      <4>2. QED  BY <4>1, MassIsSum
    <3> HIDE DEF all
    <3>6. QED  BY <2>2, <3>4, <3>5
  <2>4. MassOf(p, Ahead(p, first)) = 0  BY <1>3, MassIsSum
  <2> HIDE DEF all
  <2>5. 0 < o.topP * all  BY <1>5, <2>1, <2>3
  <2>6. MassOf(p, Ahead(p, first)) * Parts < o.topP * all  BY <1>5, <2>4, <2>5
  <2>7. QED  BY <2>6 DEF all, Nucleus
<1>8. QED  BY <1>6, <1>7 DEF Kept

(* A step draws a byte (blt_decode_select).                                *)
LEMMA SelectsBytes ==
    ASSUME GenInv
    PROVE  DecodeSelect \subseteq Byte
<1>1. LastRow \in [Byte -> -MaxLogit..MaxLogit]  BY LastRowIs
<1>2. ArgmaxByte(LastRow) \in Byte  BY <1>1, ArgmaxIs
<1> DEFINE p == Masses
<1>3. o \in Options /\ p \in [Byte -> Nat] /\ \E b \in Byte : p[b] > 0  BY MassesAre
<1> HIDE DEF p
<1>4. Kept(p) # {} /\ Kept(p) \in SUBSET Byte  BY <1>3, KeepsSome DEF Kept
<1>5. \E b \in Kept(p) : \A c \in Kept(p) : c = b \/ c \in Ahead(p, b)
  BY <1>3, <1>4, EndsOfOrder
<1> DEFINE last == CHOOSE b \in Kept(p) : \A c \in Kept(p) : c = b \/ c \in Ahead(p, b)
<1>6. last \in Byte  BY <1>4, <1>5
<1>7. Max(Byte) \in Byte
  <2>1. Byte \in SUBSET Int /\ IsFiniteSet(Byte) /\ Byte # {}  BY GreedyLoopAssumption
  <2>2. QED  BY <2>1, MaxOfFinite
<1>8. Drawable(p) \subseteq Byte
  <2> HIDE DEF last
  <2>1. Drawable(p) = {b \in Kept(p) : p[b] > 0} \cup
                        {IF TopKOn \/ TopPOn THEN last ELSE Max(Byte)}
    BY DEF Drawable, last
  <2>2. QED  BY <1>4, <1>6, <1>7, <2>1
<1>9. QED  BY <1>2, <1>8 DEF DecodeSelect, p
-----------------------------------------------------------------------------
(* A call starts with its prompt.                                          *)
LEMMA GenInitInv == GenInit => GenInv
<1> SUFFICES ASSUME GenInit PROVE GenInv  OBVIOUS
<1>1. PICK e \in EntropyModels, m \in Models, p \in Prompts, k \in 0..MaxNew, opt \in Options :
        /\ req = [em |-> e, model |-> m, prompt |-> p, target |-> Len(p) + k, options |-> opt]
        /\ out = p
  BY DEF GenInit
<1>2. p \in Seq(Byte) /\ MaxNew \in Nat /\ phase = "step"  BY GreedyLoopAssumption DEF GenInit
<1>3. /\ req.prompt = p /\ req.target = Len(p) + k /\ req.em = e /\ req.model = m
      /\ req.options = opt
  BY <1>1
<1>4. req \in Request  BY <1>1, <1>2 DEF Request
<1>5. GenTypeOK  BY <1>1, <1>2, <1>3, <1>4 DEF GenTypeOK
<1>6. out = req.prompt \o <<>> /\ <<>> \in Seq(Byte)  BY <1>1, <1>2, <1>3
<1>7. QED  BY <1>5, <1>6 DEF GenInv, Grown

(* Every step keeps the invariant: a pass appends a byte it selected.      *)
LEMMA GenInductive == GenInv /\ [GenNext]_genVars => GenInv'
<1> SUFFICES ASSUME GenInv, [GenNext]_genVars PROVE GenInv'  OBVIOUS
<1>1. /\ req \in Request /\ req.target <= Len(req.prompt) + MaxNew /\ out \in Seq(Byte)
      /\ Len(req.prompt) <= Len(out) /\ Len(out) <= req.target
      /\ phase \in {"step", "done", "abort"}
  BY DEF GenInv, GenTypeOK
<1>2. /\ req.target \in Nat /\ req.prompt \in Seq(Byte)
  BY <1>1, GreedyLoopAssumption DEF Request
<1>3. CASE Step
  <2>1. PICK b \in DecodeSelect : out' = Append(out, b)  BY <1>3 DEF Step
  <2>2. b \in Byte  BY SelectsBytes
  <2>3. req' = req /\ phase' = phase /\ Len(out) < req.target
    BY <1>3 DEF Step, Unfinished, l
  <2>4. out' \in Seq(Byte) /\ Len(out') = Len(out) + 1  BY <1>1, <2>1, <2>2
  <2>5. Len(req.prompt) <= Len(out') /\ Len(out') <= req.target
    BY <1>1, <1>2, <2>3, <2>4
  <2>6. GenTypeOK'  BY <1>1, <2>3, <2>4, <2>5 DEF GenTypeOK
  <2>7. PICK t \in Seq(Byte) : out = req.prompt \o t  BY DEF GenInv, Grown
  <2>8. Append(t, b) \in Seq(Byte)  BY <2>2
  <2>9. Append(req.prompt \o t, b) = req.prompt \o Append(t, b)
    <3>1. /\ Append(req.prompt \o t, b) = (req.prompt \o t) \o <<b>>
          /\ Append(t, b) = t \o <<b>>
      BY <1>2, <2>2, AppendIsConcat
    <3>2. (req.prompt \o t) \o <<b>> = req.prompt \o (t \o <<b>>)
      <4>1. <<b>> \in Seq(Byte)  BY <2>2
      <4>2. PICK r \in Seq(Byte) : r = req.prompt  BY <1>2
      <4>3. (r \o t) \o <<b>> = r \o (t \o <<b>>)  BY <4>1, ConcatAssociative
      <4>4. QED  BY <4>2, <4>3
    <3>3. QED  BY <3>1, <3>2
  <2>10. out' = req'.prompt \o Append(t, b)  BY <2>1, <2>3, <2>7, <2>9
  <2>11. QED  BY <2>6, <2>8, <2>10 DEF GenInv, Grown
<1>4. CASE Finish \/ Abort
  <2>1. req' = req /\ out' = out /\ phase' \in {"done", "abort"}  BY <1>4 DEF Finish, Abort
  <2>2. QED  BY <1>1, <2>1 DEF GenInv, GenTypeOK, Grown
<1>5. CASE Over \/ UNCHANGED genVars
  <2>1. UNCHANGED genVars  BY <1>5 DEF Over
  <2>2. QED  BY <1>1, <2>1 DEF GenInv, GenTypeOK, Grown, genVars
<1>6. QED  BY <1>3, <1>4, <1>5 DEF GenNext

(* The invariant holds in every reachable state.                           *)
LEMMA GenInvariantHolds == GenSpec => []GenInv
<1>1. QED  BY GenInitInv, GenInductive, PTL DEF GenSpec
-----------------------------------------------------------------------------
(* The repeat penalty orders an emitted byte behind every other byte of at *)
(* least its logit, whatever the sign (blt_decode_select: a positive logit *)
(* is divided by the penalty, a negative one multiplied by it).            *)
LEMMA PenaltyOrders ==
    ASSUME o \in Options, o.num >= o.den, NEW row \in [Byte -> -MaxLogit..MaxLogit],
           NEW u \in Seen \cap Byte, NEW v \in Byte \ Seen, row[u] <= row[v]
    PROVE  Penalised(row)[u] <= Penalised(row)[v]
<1>1. o.num \in Nat /\ o.den \in Nat  BY GreedyLoopAssumption
<1>2. row[u] \in Int /\ row[v] \in Int
  <2>1. MaxLogit \in Nat  BY GreedyLoopAssumption
  <2>2. row[u] \in -MaxLogit..MaxLogit /\ row[v] \in -MaxLogit..MaxLogit  OBVIOUS
  <2>3. QED  BY <2>1, <2>2
<1>3. PICK a \in Int, b \in Int, n \in Nat, d \in Nat :
        a = row[u] /\ b = row[v] /\ n = o.num /\ d = o.den
  BY <1>1, <1>2
<1>4. a <= b /\ d <= n  BY <1>3
<1>5. Penalised(row)[v] = b * n * d  BY <1>3 DEF Penalised
<1>6. a * n <= b * n /\ (a * n) * d <= (b * n) * d
  <2>1. \A x, y \in Int, k \in Nat : x <= y => x * k <= y * k  BY TimesKeepsOrder
  <2>2. a * n \in Int /\ b * n \in Int  OBVIOUS
  <2>3. QED  BY <1>4, <2>1, <2>2
<1>7. CASE a > 0
  <2>1. Penalised(row)[u] = a * d * d  BY <1>3, <1>7 DEF Penalised
  <2>2. a \in Nat  BY <1>7
  <2>3. d * a <= n * a  BY <1>4, <2>2, TimesKeepsOrder
  <2>4. a * d <= a * n /\ a * d \in Int /\ a * n \in Int  BY <2>3
  <2>5. (a * d) * d <= (a * n) * d  BY <2>4, TimesKeepsOrder
  <2>6. (a * d) * d \in Int /\ (a * n) * d \in Int /\ (b * n) * d \in Int  OBVIOUS
  <2>7. QED  BY <1>5, <1>6, <2>1, <2>5, <2>6
<1>8. CASE ~(a > 0)
  <2>1. Penalised(row)[u] = a * n * n
    <3>1. a <= 0  BY <1>8
    <3>2. QED  BY <1>3, <1>8, <3>1 DEF Penalised
  <2>2. -a \in Nat /\ (-a) * n \in Nat  BY <1>8
  <2>3. PICK c \in Nat : c = (-a) * n  BY <2>2
  <2>4. d * c <= n * c  BY <1>4, TimesKeepsOrder
  <2>5. a * n = -c  BY <2>3
  <2>6. (a * n) * n = -(n * c) /\ (a * n) * d = -(d * c)  BY <2>5
  <2>7. n * c \in Int /\ d * c \in Int /\ (b * n) * d \in Int  OBVIOUS
  <2>8. (a * n) * n <= (b * n) * d  BY <1>6, <2>4, <2>6, <2>7
  <2>9. QED  BY <1>5, <2>1, <2>8
<1>9. QED  BY <1>7, <1>8

(* What decode_select.h promises of the knobs, for every network, vector   *)
(* of options and history: the nucleus reaches top_p of the mass and no    *)
(* smaller set of bytes does, and a penalty of at least 1 makes no emitted *)
(* byte more likely than a byte of at least its logit not emitted lately.  *)
THEOREM KnobsKeepTheirPromise == GenSpec => []SamplingContract
<1>1. GenInv => SamplingContract
  <2> SUFFICES ASSUME GenInv PROVE SamplingContract  OBVIOUS
  <2>1. GenTypeOK  BY DEF GenInv
  <2>2. PICK p \in [Byte -> Nat] : p = Masses  BY MassesAre
  <2>3. o \in Options /\ o.topP \in Nat
    <3>1. o \in Options  BY MassesAre
    <3>2. Parts \in Nat  BY GreedyLoopAssumption
    <3>3. QED  BY <3>1, <3>2, GreedyLoopAssumption
  <2>4. NucleusIsSmallest
    <3> SUFFICES ASSUME TopPOn
                 PROVE  /\ MassOf(p, Nucleus(p)) * Parts >= o.topP * MassOf(p, Byte)
                        /\ \A T \in SUBSET Byte :
                              Cardinality(T) < Cardinality(Nucleus(p))
                                => MassOf(p, T) * Parts < o.topP * MassOf(p, Byte)
      BY <2>2 DEF NucleusIsSmallest
    <3>1. o.topP < Parts  BY DEF TopPOn
    <3>2. MassOf(p, Nucleus(p)) * Parts >= o.topP * MassOf(p, Byte)
      BY <2>3, <3>1, NucleusReaches
    <3>3. ASSUME NEW T \in SUBSET Byte, Cardinality(T) < Cardinality(Nucleus(p))
          PROVE  MassOf(p, T) * Parts < o.topP * MassOf(p, Byte)
      BY <2>3, <3>3, NoneSmallerReaches
    <3>4. QED  BY <3>2, <3>3
  <2>5. PenaltyNeverHelps
    <3> SUFFICES ASSUME o.num >= o.den, NEW u \in Seen, NEW v \in Byte \ Seen,
                        LastRow[u] <= LastRow[v]
                 PROVE  Masses[u] <= Masses[v]
      BY DEF PenaltyNeverHelps
    <3>1. u \in Byte
      <4>1. out \in Seq(Byte) /\ l = Len(out)  BY <2>1 DEF GenTypeOK, l
      <4>2. QED  BY <4>1, ElementOfSeq DEF Seen
    <3>2. LastRow \in [Byte -> -MaxLogit..MaxLogit]  BY LastRowIs
    <3>3. Penalised(LastRow)[u] <= Penalised(LastRow)[v]
      <4>1. PICK row \in [Byte -> -MaxLogit..MaxLogit] : row = LastRow  BY <3>2
      <4>2. u \in Seen \cap Byte /\ row[u] <= row[v]  BY <3>1, <4>1
      <4>3. Penalised(row)[u] <= Penalised(row)[v]  BY <2>3, <4>2, PenaltyOrders
      <4>4. QED  BY <4>1, <4>3
    <3>4. QED  BY <3>1, <3>3, MassesAre
  <2>6. QED  BY <2>1, <2>4, <2>5 DEF SamplingContract
<1>2. QED  BY <1>1, GenInvariantHolds, PTL

(* generate_loop is what the speculative loops are measured against: for   *)
(* every network, with every knob off (and with top_k alone), each byte it *)
(* commits is the argmax of a full pass over the bytes before it; and with *)
(* any knobs it only ever appends bytes, up to the requested length.       *)
THEOREM PlainLoopIsGreedy == GenSpec => ImplementsGreedy
<1>1. GenInit => Greedy!Init
  <2> SUFFICES ASSUME GenInit PROVE Greedy!Init  OBVIOUS
  <2>1. GenTypeOK  BY GenInitInv DEF GenInv
  <2>2. /\ req \in Request /\ out \in Seq(Byte) /\ Len(req.prompt) <= Len(out)
        /\ Len(out) <= req.target
    BY <2>1 DEF GenTypeOK
  <2>3. /\ req.em \in EntropyModels /\ req.model \in Models /\ req.target \in Nat
        /\ req.prompt \in Seq(Byte) /\ Len(req.prompt) >= 2
    BY <2>2, GreedyLoopAssumption DEF Request
  <2>4. out # <<>> /\ req.target >= Len(out)  BY <2>2, <2>3
  <2>5. [model |-> req.model, plain |-> Plain] \in Call  BY <2>3 DEF Call, Plain
  <2>6. QED  BY <2>2, <2>3, <2>4, <2>5 DEF Greedy!Init
<1>2. ASSUME GenInv, [GenNext]_genVars
      PROVE  [Greedy!Commit]_<<Greedy!call, out>>
  <2>1. CASE Step
    <3>1. PICK b \in DecodeSelect : out' = Append(out, b)  BY <2>1 DEF Step
    <3>2. b \in Byte  BY <1>2, SelectsBytes
    <3>3. req' = req /\ Len(out) < req.target  BY <2>1 DEF Step, Unfinished, l
    <3>4. out \in Seq(Byte) /\ req \in Request  BY <1>2 DEF GenInv, GenTypeOK
    <3>5. req.target \in Nat  BY <3>4 DEF Request
    <3>6. /\ Len(out') = Len(out) + 1 /\ SubSeq(out', 1, Len(out)) = out
          /\ out'[Len(out) + 1] = b
      <4>1. /\ Len(out') = Len(out) + 1 /\ out'[Len(out) + 1] = b
            /\ \A i \in 1..Len(out) : out'[i] = out[i]
        BY <3>1, <3>2, <3>4
      <4>2. out' \in Seq(Byte)  BY <3>1, <3>2, <3>4
      <4>3. SubSeq(out', 1, Len(out)) = out  BY <3>1, <3>2, <3>4
      <4>4. QED  BY <4>1, <4>3
    <3>7. b \in CallAllowed(req.em, [model |-> req.model, plain |-> Plain], out)
      <4>1. CASE Plain
        <5>1. ~IsSampling
          <6>1. o.topP \in Nat /\ o.temperature \in Nat
            <7>1. o \in Options /\ Parts \in Nat
              BY <3>4, GreedyLoopAssumption DEF Request, o
            <7>2. QED  BY <7>1, GreedyLoopAssumption
          <6>2. QED  BY <4>1, <6>1, GreedyLoopAssumption, <3>4 DEF Plain, IsSampling, PenaltyOn, o, Request
        <5>2. b = ArgmaxByte(LastRow)  BY <3>1, <5>1 DEF DecodeSelect
        <5> DEFINE rows == FullView(req.em, out, Len(out) - 1)
        <5>3. b = Predict(req.model, rows)  BY <5>2 DEF LastRow, Predict, l
        <5> HIDE DEF rows
        <5>4. Argmax(req.model, rows) = b  BY <3>2, <5>3 DEF Argmax
        <5>5. NextByte(req.em, req.model, out) = b  BY <5>4 DEF NextByte, rows
        <5>6. QED  BY <4>1, <5>5 DEF CallAllowed
      <4>2. CASE ~Plain  BY <3>2, <4>2 DEF CallAllowed
      <4>3. QED  BY <4>1, <4>2
    <3>8. ASSUME NEW i \in (Len(out) + 1)..Len(out')
          PROVE  out'[i] \in CallAllowed(req.em, [model |-> req.model, plain |-> Plain],
                                         SubSeq(out', 1, i - 1))
      <4>1. i = Len(out) + 1 /\ i - 1 = Len(out)  BY <3>4, <3>6
      <4>2. QED  BY <3>6, <3>7, <4>1
    <3>9. Plain' = Plain  BY <3>3 DEF Plain
    <3>10. Len(out) < Len(out') /\ Len(out') <= req.target  BY <3>3, <3>4, <3>5, <3>6
    <3>11. Greedy!Commit
      BY <3>3, <3>6, <3>8, <3>9, <3>10 DEF Greedy!Commit, Greedy!call
    <3>12. QED  BY <3>11
  <2>2. CASE Finish \/ Abort \/ Over \/ UNCHANGED genVars
    <3>1. req' = req /\ out' = out  BY <2>2 DEF Finish, Abort, Over, genVars
    <3>2. Plain' = Plain  BY <3>1 DEF Plain
    <3>3. QED  BY <3>1, <3>2 DEF Greedy!call
  <2>3. QED  BY <1>2, <2>1, <2>2 DEF GenNext
<1>3. QED  BY <1>1, <1>2, GenInvariantHolds, PTL DEF GenSpec, ImplementsGreedy, Greedy!Spec
=============================================================================
