-------------------------- MODULE ConversationProofs --------------------------
(***************************************************************************)
(* Theorems about Conversation, the parsers of the proxy behind a reply    *)
(* that is streamed in any number of pieces and may be cut anywhere, and   *)
(* the turns that captured exchanges are put in.                           *)
(*                                                                         *)
(* For every reply, every way of cutting it into chunks, every count of    *)
(* its usage and every vendor:                                             *)
(*                                                                         *)
(*   - ParserHoldsReply: what the parser holds is what was sent of the     *)
(*     reply so far. This is the inductive invariant IInv, one predicate   *)
(*     per parser: the blocks of the anthropic parser, the text and the    *)
(*     tool calls of chat completions, the items of the responses API,     *)
(*     the merged parts of gemini.                                         *)
(*   - RepliesStreamAsWhole: at the end of a stream the messages and the   *)
(*     counts are those of the same reply sent as one body (but for the    *)
(*     input that anthropic did not report).                               *)
(*   - CutRepliesKeepSent: a stream that is cut keeps the text that was    *)
(*     sent, and every tool call whose arguments were, which the responses *)
(*     API keeps only with its last event.                                 *)
(*   - PromptsHaveTurns: as long as requests are sent whole, the           *)
(*     exchanges of one prompt have one turn, and those of two prompts     *)
(*     have two. Its inductive invariant is TalkInv.                       *)
(*                                                                         *)
(* The parsers are loops over chunks, choices, parts and items, in the     *)
(* model folds of the community modules. The first sections prove by       *)
(* induction what such a fold has after each of its steps (Runs); the      *)
(* induction theorems of the library take an operator, so every induction  *)
(* is one over a set of numbers (UpTo). The sections on the parsers say    *)
(* what a chunk does to what is held, and the last two put the steps       *)
(* together.                                                               *)
(***************************************************************************)
EXTENDS Conversation, FiniteSetTheorems, SequenceTheorems, WellFoundedInduction, TLAPS

------------------------------------------------------------------------------
(* Induction *)

\* Every set of natural numbers has a least one.
LEMMA LeastNatural ==
    ASSUME NEW S \in SUBSET Nat, S # {}
    PROVE  \E x \in S : \A y \in S : x <= y
<1>1. PICK x \in S : \A y \in S : ~ (<<y, x>> \in OpToRel(<, Nat))
  BY WFMin, NatLessThanWellFounded
<1>2. \A y \in S : ~ (y < x)
  BY <1>1 DEF OpToRel
<1>. QED
  BY <1>2

\* Induction up to n, over the numbers of a set.
LEMMA UpTo ==
    ASSUME NEW n \in Nat, NEW C \in SUBSET (0 .. n), 0 \in C,
           \A i \in 0 .. n - 1 : i \in C => i + 1 \in C
    PROVE  C = 0 .. n
<1>1. ASSUME (0 .. n) \ C # {} PROVE FALSE
  <2>1. PICK m \in (0 .. n) \ C : \A k \in (0 .. n) \ C : m <= k
    <3>1. (0 .. n) \ C \in SUBSET Nat
      OBVIOUS
    <3>. QED
      BY <1>1, <3>1, LeastNatural
  <2>2. m \in 1 .. n /\ m - 1 \in 0 .. n - 1
    BY <2>1
  <2>. QED
    BY <2>1, <2>2
<1>. QED
  BY <1>1

------------------------------------------------------------------------------
(* The loops of the parsers are folds *)

\* One step of the loop that is named.
Step(loop, acc0, x) ==
    CASE loop = "AddFinishOf"     -> AddFinishOf(acc0, x)
      [] loop = "ToolDelta"       -> ToolDelta(acc0, x)
      [] loop = "AddPart"         -> AddPart(acc0, x)
      [] loop = "MergeGeminiPart" -> MergeGeminiPart(acc0, x)
      [] loop = "MergeItem"       -> MergeItem(acc0, x)
      [] loop = "AddLength"       -> AddLength(acc0, x)
      [] OTHER                    -> ReadChunk(loop, acc0, x)

\* iter is the loop over the elements of s whose numbers are in a subset of D.
Iterates(loop, iter, base, s, D) ==
    iter = [T \in SUBSET D |-> IF T = {} THEN base
                               ELSE Step(loop, iter[T \ {Max(T)}], s[Max(T)])]

\* h[i] is what the loop has after i elements.
Runs(loop, h, base, s, n) ==
    h[0] = base /\ \A i \in 0 .. n - 1 : h[i + 1] = Step(loop, h[i], s[i + 1])

\* The last of the first numbers, and of a set with the number above them.
LEMMA MaxIsLast ==
    ASSUME NEW n \in Nat, NEW T \in SUBSET (1 .. n), n \in T
    PROVE  Max(T) = n
<1>1. \E x \in T : \A y \in T : x >= y
  OBVIOUS
<1>2. PICK m : m = Max(T) /\ m \in T /\ \A y \in T : m >= y
  BY <1>1 DEF Max
<1>. QED
  BY <1>2

\* A loop over a sequence exists.
LEMMA LoopExists ==
    ASSUME NEW loop, NEW base, NEW s, NEW n \in Nat
    PROVE  \E iter : Iterates(loop, iter, base, s, 1 .. n)
<1>. DEFINE C == {k \in 0 .. n : \E iter : Iterates(loop, iter, base, s, 1 .. k)}
<1>1. 0 \in C
  <2>. DEFINE f == [T \in SUBSET (1 .. 0) |-> base]
  <2>1. \A T \in SUBSET (1 .. 0) : T = {}
    OBVIOUS
  <2>2. Iterates(loop, f, base, s, 1 .. 0)
    BY <2>1 DEF Iterates
  <2>. QED
    BY <2>2
<1>2. ASSUME NEW k \in 0 .. n - 1, k \in C PROVE k + 1 \in C
  <2>1. PICK f : Iterates(loop, f, base, s, 1 .. k)
    BY <1>2
  <2>. DEFINE g == [T \in SUBSET (1 .. k + 1) |->
                       IF k + 1 \in T THEN Step(loop, f[T \ {k + 1}], s[k + 1]) ELSE f[T]]
  <2>2. ASSUME NEW T \in SUBSET (1 .. k + 1)
        PROVE  g[T] = IF T = {} THEN base ELSE Step(loop, g[T \ {Max(T)}], s[Max(T)])
    <3>1. CASE k + 1 \in T
      <4>1. Max(T) = k + 1
        BY <3>1, MaxIsLast
      <4>2. T \ {k + 1} \in SUBSET (1 .. k + 1) /\ ~ (k + 1 \in T \ {k + 1})
        OBVIOUS
      <4>3. g[T \ {k + 1}] = f[T \ {k + 1}]
        BY <4>2
      <4>. QED
        BY <3>1, <4>1, <4>3
    <3>2. CASE k + 1 \notin T
      <4>1. T \in SUBSET (1 .. k)
        BY <3>2
      <4>2. f[T] = IF T = {} THEN base ELSE Step(loop, f[T \ {Max(T)}], s[Max(T)])
        BY <2>1, <4>1 DEF Iterates
      <4>3. g[T] = f[T] /\ g[T \ {Max(T)}] = f[T \ {Max(T)}]
        BY <3>2
      <4>. QED
        BY <4>2, <4>3
    <3>. QED
      BY <3>1, <3>2
  <2>3. Iterates(loop, g, base, s, 1 .. k + 1)
    <3>. HIDE DEF C
    <3>1. g = [T \in SUBSET (1 .. k + 1) |-> g[T]]
      OBVIOUS
    <3>. HIDE DEF g
    <3>. QED
      BY <2>2, <3>1 DEF Iterates
  <2>. QED
    BY <2>3
<1>3. C = 0 .. n
  <2>. HIDE DEF C
  <2>1. C \in SUBSET (0 .. n)
    BY DEF C
  <2>. QED
    BY <1>1, <1>2, <2>1, UpTo
<1>. QED
  BY <1>3

\* What a loop has after each of its steps.
LEMMA LoopSteps ==
    ASSUME NEW loop, NEW base, NEW s, NEW n \in Nat, NEW iter,
           Iterates(loop, iter, base, s, 1 .. n),
           NEW h, Runs(loop, h, base, s, n)
    PROVE  iter[1 .. n] = h[n]
<1>. DEFINE C == {k \in 0 .. n : iter[1 .. k] = h[k]}
<1>1. 0 \in C
  BY DEF Iterates, Runs
<1>2. ASSUME NEW k \in 0 .. n - 1, k \in C PROVE k + 1 \in C
  <2>1. Max(1 .. k + 1) = k + 1 /\ (1 .. k + 1) \ {k + 1} = 1 .. k
    BY MaxIsLast
  <2>2. 1 .. k + 1 \in SUBSET (1 .. n) /\ k + 1 \in 1 .. k + 1
    OBVIOUS
  <2>3. iter[1 .. k + 1] = Step(loop, iter[1 .. k], s[k + 1])
    BY <2>1, <2>2 DEF Iterates
  <2>. QED
    BY <1>2, <2>3 DEF Runs
<1>3. C = 0 .. n
  <2>. HIDE DEF C
  <2>1. C \in SUBSET (0 .. n)
    BY DEF C
  <2>. QED
    BY <1>1, <1>2, <2>1, UpTo
<1>. QED
  BY <1>3

\* What a loop has after each step can be listed.
LEMMA RunExists ==
    ASSUME NEW loop, NEW base, NEW s, NEW n \in Nat
    PROVE  \E h : Runs(loop, h, base, s, n)
<1>. DEFINE C == {k \in 0 .. n : \E h : Runs(loop, h, base, s, k)}
<1>1. 0 \in C
  <2>. DEFINE h == [i \in 0 .. 0 |-> base]
  <2>1. Runs(loop, h, base, s, 0)
    BY DEF Runs
  <2>. QED
    BY <2>1
<1>2. ASSUME NEW k \in 0 .. n - 1, k \in C PROVE k + 1 \in C
  <2>1. PICK h : Runs(loop, h, base, s, k)
    BY <1>2
  <2>. DEFINE g == [i \in 0 .. k + 1 |-> IF i = k + 1 THEN Step(loop, h[k], s[k + 1]) ELSE h[i]]
  <2>2. \A i \in 0 .. k : g[i] = h[i]
    OBVIOUS
  <2>3. g[k + 1] = Step(loop, h[k], s[k + 1])
    OBVIOUS
  <2>. HIDE DEF g
  <2>4. Runs(loop, g, base, s, k + 1)
    <3>1. ASSUME NEW i \in 0 .. k PROVE g[i + 1] = Step(loop, g[i], s[i + 1])
      <4>1. CASE i = k
        BY <2>2, <2>3, <4>1
      <4>2. CASE i # k
        <5>1. i + 1 \in 0 .. k /\ i \in 0 .. k - 1
          BY <4>2
        <5>2. h[i + 1] = Step(loop, h[i], s[i + 1])
          BY <2>1, <5>1 DEF Runs
        <5>. QED
          BY <2>2, <5>1, <5>2
      <4>. QED
        BY <4>1, <4>2
    <3>2. g[0] = base
      BY <2>1, <2>2 DEF Runs
    <3>. QED
      BY <3>1, <3>2 DEF Runs
  <2>. QED
    BY <2>4
<1>3. C = 0 .. n
  <2>. HIDE DEF C
  <2>1. C \in SUBSET (0 .. n)
    BY DEF C
  <2>. QED
    BY <1>1, <1>2, <2>1, UpTo
<1>. QED
  BY <1>3

\* The loop over the choices of a chunk, for their finish reasons.
LEMMA FoldAddFinishOf ==
    ASSUME NEW base, NEW s, NEW n \in Nat, DOMAIN s = 1 .. n, NEW h, Runs("AddFinishOf", h, base, s, n)
    PROVE  AddFinishes(base, s) = h[n]
<1>. DEFINE Loops(iter) ==
         iter = [T \in SUBSET DOMAIN s |-> IF T = {} THEN base
                                           ELSE AddFinishOf(iter[T \ {Max(T)}], s[Max(T)])]
<1>1. AddFinishes(base, s) = (CHOOSE iter : Loops(iter))[DOMAIN s]
  BY DEF AddFinishes, FoldLeft, MapThenFoldSet
<1>2. \A iter : Loops(iter) <=> Iterates("AddFinishOf", iter, base, s, 1 .. n)
  BY DEF Iterates, Step
<1>. HIDE DEF Loops
<1>3. PICK f : f = (CHOOSE iter : Loops(iter)) /\ Loops(f)
  BY <1>2, LoopExists
<1>4. Iterates("AddFinishOf", f, base, s, 1 .. n)
  BY <1>2, <1>3
<1>5. f[1 .. n] = h[n]
  BY <1>4, LoopSteps
<1>. QED
  BY <1>1, <1>3, <1>5

\* The loop over the tool calls of a chunk.
LEMMA FoldToolDelta ==
    ASSUME NEW base, NEW s, NEW n \in Nat, DOMAIN s = 1 .. n, NEW h, Runs("ToolDelta", h, base, s, n)
    PROVE  ToolDeltas(base, s) = h[n]
<1>. DEFINE Loops(iter) ==
         iter = [T \in SUBSET DOMAIN s |-> IF T = {} THEN base
                                           ELSE ToolDelta(iter[T \ {Max(T)}], s[Max(T)])]
<1>1. ToolDeltas(base, s) = (CHOOSE iter : Loops(iter))[DOMAIN s]
  BY DEF ToolDeltas, FoldLeft, MapThenFoldSet
<1>2. \A iter : Loops(iter) <=> Iterates("ToolDelta", iter, base, s, 1 .. n)
  BY DEF Iterates, Step
<1>. HIDE DEF Loops
<1>3. PICK f : f = (CHOOSE iter : Loops(iter)) /\ Loops(f)
  BY <1>2, LoopExists
<1>4. Iterates("ToolDelta", f, base, s, 1 .. n)
  BY <1>2, <1>3
<1>5. f[1 .. n] = h[n]
  BY <1>4, LoopSteps
<1>. QED
  BY <1>1, <1>3, <1>5

\* The loop over the parts of a chunk.
LEMMA FoldAddPart ==
    ASSUME NEW base, NEW s, NEW n \in Nat, DOMAIN s = 1 .. n, NEW h, Runs("AddPart", h, base, s, n)
    PROVE  AddParts(base, s) = h[n]
<1>. DEFINE Loops(iter) ==
         iter = [T \in SUBSET DOMAIN s |-> IF T = {} THEN base
                                           ELSE AddPart(iter[T \ {Max(T)}], s[Max(T)])]
<1>1. AddParts(base, s) = (CHOOSE iter : Loops(iter))[DOMAIN s]
  BY DEF AddParts, FoldLeft, MapThenFoldSet
<1>2. \A iter : Loops(iter) <=> Iterates("AddPart", iter, base, s, 1 .. n)
  BY DEF Iterates, Step
<1>. HIDE DEF Loops
<1>3. PICK f : f = (CHOOSE iter : Loops(iter)) /\ Loops(f)
  BY <1>2, LoopExists
<1>4. Iterates("AddPart", f, base, s, 1 .. n)
  BY <1>2, <1>3
<1>5. f[1 .. n] = h[n]
  BY <1>4, LoopSteps
<1>. QED
  BY <1>1, <1>3, <1>5

\* The loop of mergeGeminiParts.
LEMMA FoldMergeGeminiPart ==
    ASSUME NEW s, NEW n \in Nat, DOMAIN s = 1 .. n, NEW h, Runs("MergeGeminiPart", h, <<>>, s, n)
    PROVE  MergeGeminiParts(s) = h[n]
<1>. DEFINE Loops(iter) ==
         iter = [T \in SUBSET DOMAIN s |-> IF T = {} THEN <<>>
                                           ELSE MergeGeminiPart(iter[T \ {Max(T)}], s[Max(T)])]
<1>1. MergeGeminiParts(s) = (CHOOSE iter : Loops(iter))[DOMAIN s]
  BY DEF MergeGeminiParts, FoldLeft, MapThenFoldSet
<1>2. \A iter : Loops(iter) <=> Iterates("MergeGeminiPart", iter, <<>>, s, 1 .. n)
  BY DEF Iterates, Step
<1>. HIDE DEF Loops
<1>3. PICK f : f = (CHOOSE iter : Loops(iter)) /\ Loops(f)
  BY <1>2, LoopExists
<1>4. Iterates("MergeGeminiPart", f, <<>>, s, 1 .. n)
  BY <1>2, <1>3
<1>5. f[1 .. n] = h[n]
  BY <1>4, LoopSteps
<1>. QED
  BY <1>1, <1>3, <1>5

\* s is what the items streamed and the items of the last event come to together.
Joins(s, output, items) == s = output \o items

\* The loop of parseStream that merges the items of the responses API.
LEMMA FoldMergeItem ==
    ASSUME NEW output, NEW items, NEW s, NEW n \in Nat, NEW h,
           Joins(s, output, items), DOMAIN s = 1 .. n, Runs("MergeItem", h, <<>>, s, n)
    PROVE  MergeItems(output, items) = h[n]
<1>. DEFINE Loops(iter) ==
         iter = [T \in SUBSET DOMAIN s |-> IF T = {} THEN <<>>
                                           ELSE MergeItem(iter[T \ {Max(T)}], s[Max(T)])]
<1>1. MergeItems(output, items) = (CHOOSE iter : Loops(iter))[DOMAIN s]
  BY DEF Joins, MergeItems, FoldLeft, MapThenFoldSet
<1>2. \A iter : Loops(iter) <=> Iterates("MergeItem", iter, <<>>, s, 1 .. n)
  BY DEF Iterates, Step
<1>. HIDE DEF Loops
<1>3. PICK f : f = (CHOOSE iter : Loops(iter)) /\ Loops(f)
  BY <1>2, LoopExists
<1>4. Iterates("MergeItem", f, <<>>, s, 1 .. n)
  BY <1>2, <1>3
<1>5. f[1 .. n] = h[n]
  BY <1>4, LoopSteps
<1>. QED
  BY <1>1, <1>3, <1>5

\* The loop that counts tokens.
LEMMA FoldAddLength ==
    ASSUME NEW s, s = SubSeq(reply, 1, item - 1), NEW n \in Nat, DOMAIN s = 1 .. n,
           NEW h, Runs("AddLength", h, offset, s, n)
    PROVE  Sent = h[n]
<1>. DEFINE Loops(iter) ==
         iter = [T \in SUBSET DOMAIN s |-> IF T = {} THEN offset
                                           ELSE AddLength(iter[T \ {Max(T)}], s[Max(T)])]
<1>1. Sent = (CHOOSE iter : Loops(iter))[DOMAIN s]
  BY DEF Sent, FoldLeft, MapThenFoldSet
<1>2. \A iter : Loops(iter) <=> Iterates("AddLength", iter, offset, s, 1 .. n)
  BY DEF Iterates, Step
<1>. HIDE DEF Loops
<1>3. PICK f : f = (CHOOSE iter : Loops(iter)) /\ Loops(f)
  BY <1>2, LoopExists
<1>4. Iterates("AddLength", f, offset, s, 1 .. n)
  BY <1>2, <1>3
<1>5. f[1 .. n] = h[n]
  BY <1>4, LoopSteps
<1>. QED
  BY <1>1, <1>3, <1>5

\* The parsers.
Four == {"anthropic", "chat", "responses", "gemini"}

\* The loop of a parser over the chunks.
LEMMA FoldReadChunk ==
    ASSUME NEW v \in Four, NEW base, NEW s, NEW n \in Nat, DOMAIN s = 1 .. n, NEW h, Runs(v, h, base, s, n)
    PROVE  ReadChunks(v, base, s) = h[n]
<1>. DEFINE Loops(iter) ==
         iter = [T \in SUBSET DOMAIN s |-> IF T = {} THEN base
                                           ELSE ReadChunk(v, iter[T \ {Max(T)}], s[Max(T)])]
<1>1. ReadChunks(v, base, s) = (CHOOSE iter : Loops(iter))[DOMAIN s]
  BY DEF ReadChunks, FoldLeft, MapThenFoldSet
<1>2. \A a, x : Step(v, a, x) = ReadChunk(v, a, x)
  BY DEF Step, Four
<1>3. \A iter : Loops(iter) <=> Iterates(v, iter, base, s, 1 .. n)
  BY <1>2 DEF Iterates
<1>. HIDE DEF Loops
<1>4. PICK f : f = (CHOOSE iter : Loops(iter)) /\ Loops(f)
  BY <1>3, LoopExists
<1>5. Iterates(v, f, base, s, 1 .. n)
  BY <1>3, <1>4
<1>6. f[1 .. n] = h[n]
  BY <1>5, LoopSteps
<1>. QED
  BY <1>1, <1>4, <1>6

\* What the parser has read of no chunk, of one, and of two.
LEMMA Sends ==
    ASSUME vendor \in Four, NEW c, NEW d
    PROVE  /\ Send(<<>>) => acc' = acc
           /\ Send(<<c>>) => acc' = ReadChunk(vendor, acc, c)
           /\ Send(<<c, d>>) => acc' = ReadChunk(vendor, ReadChunk(vendor, acc, c), d)
<1>1. ASSUME Send(<<>>) PROVE acc' = acc
  <2>. DEFINE h == [i \in 0 .. 0 |-> acc]
  <2>1. DOMAIN <<>> = 1 .. 0 /\ h[0] = acc
    OBVIOUS
  <2>2. Runs(vendor, h, acc, <<>>, 0)
    BY DEF Runs, Step, Four
  <2>. HIDE DEF h
  <2>3. ReadChunks(vendor, acc, <<>>) = h[0]
    BY <2>1, <2>2, FoldReadChunk
  <2>. QED
    BY <1>1, <2>1, <2>3 DEF Send
<1>2. ASSUME Send(<<c>>) PROVE acc' = ReadChunk(vendor, acc, c)
  <2>. DEFINE g == [i \in 0 .. 1 |-> IF i = 0 THEN acc ELSE ReadChunk(vendor, acc, c)]
  <2>1. PICK s, h : s = <<c>> /\ h = g
    OBVIOUS
  <2>2. DOMAIN s = 1 .. 1 /\ h[0] = acc /\ h[1] = ReadChunk(vendor, acc, c) /\ s[1] = c
    BY <2>1
  <2>. HIDE DEF g
  <2>3. Runs(vendor, h, acc, s, 1)
    BY <2>2 DEF Runs, Step, Four
  <2>4. DOMAIN s = 1 .. 1 /\ 1 \in Nat
    BY <2>2
  <2>5. ReadChunks(vendor, acc, s) = h[1]
    BY <2>3, <2>4, FoldReadChunk
  <2>6. acc' = ReadChunks(vendor, acc, s)
    BY <1>2, <2>1, Zenon DEF Send
  <2>. QED
    BY <2>2, <2>5, <2>6
<1>3. ASSUME Send(<<c, d>>) PROVE acc' = ReadChunk(vendor, ReadChunk(vendor, acc, c), d)
  <2>. DEFINE one == ReadChunk(vendor, acc, c)
              two == ReadChunk(vendor, one, d)
              g == [i \in 0 .. 2 |-> IF i = 0 THEN acc ELSE IF i = 1 THEN one ELSE two]
  <2>1. PICK s, h : s = <<c, d>> /\ h = g
    OBVIOUS
  <2>2. s[1] = c /\ s[2] = d /\ h[0] = acc /\ h[1] = one
    BY <2>1
  <2>3. DOMAIN s = 1 .. 2 /\ 2 \in Nat
    BY <2>1
  <2>4. h[2] = two
    BY <2>1
  <2>. HIDE DEF g
  <2>5. Runs(vendor, h, acc, s, 2)
    BY <2>2, <2>4 DEF Runs, Step, Four
  <2>6. ReadChunks(vendor, acc, s) = h[2]
    BY <2>3, <2>5, FoldReadChunk
  <2>. QED
    BY <1>3, <2>1, <2>4, <2>6 DEF Send
<1>. QED
  BY <1>1, <1>2, <1>3

------------------------------------------------------------------------------
(* Texts *)

\* f flattens the first n of s.
Flattens(f, s, n) == f = [i \in 1 .. n |-> IF i = 1 THEN s[i] ELSE f[i - 1] \o s[i]]

\* Sequences can be flattened.
LEMMA FlattenExists ==
    ASSUME NEW s, NEW n \in Nat
    PROVE  \E f : Flattens(f, s, n)
<1>. DEFINE C == {k \in 0 .. n : \E f : Flattens(f, s, k)}
<1>1. 0 \in C
  <2>. DEFINE f == [i \in 1 .. 0 |-> s[i]]
  <2>1. Flattens(f, s, 0)
    BY DEF Flattens
  <2>. QED
    BY <2>1
<1>2. ASSUME NEW k \in 0 .. n - 1, k \in C PROVE k + 1 \in C
  <2>1. PICK f : Flattens(f, s, k)
    BY <1>2
  <2>. DEFINE g == [i \in 1 .. k + 1 |-> IF i <= k THEN f[i]
                                         ELSE IF i = 1 THEN s[i] ELSE f[k] \o s[i]]
  <2>2. ASSUME NEW i \in 1 .. k + 1 PROVE g[i] = IF i = 1 THEN s[i] ELSE g[i - 1] \o s[i]
    <3>1. CASE i = k + 1
      BY <3>1
    <3>2. CASE i \in 1 .. k
      <4>1. f[i] = IF i = 1 THEN s[i] ELSE f[i - 1] \o s[i]
        BY <2>1, <3>2 DEF Flattens
      <4>. QED
        BY <3>2, <4>1
    <3>. QED
      BY <3>1, <3>2
  <2>3. Flattens(g, s, k + 1)
    BY <2>2 DEF Flattens
  <2>. QED
    BY <2>3
<1>3. C = 0 .. n
  <2>. HIDE DEF C
  <2>1. C \in SUBSET (0 .. n)
    BY DEF C
  <2>. QED
    BY <1>1, <1>2, <2>1, UpTo
<1>. QED
  BY <1>3

\* One step of it.
LEMMA FlattensAt ==
    ASSUME NEW s, NEW n, NEW f, Flattens(f, s, n), NEW i \in 1 .. n
    PROVE  f[i] = IF i = 1 THEN s[i] ELSE f[i - 1] \o s[i]
BY DEF Flattens

\* Whatever flattens a sequence has what FlattenSeq has.
LEMMA FlattenIs ==
    ASSUME NEW s, NEW n \in Nat \ {0}, Len(s) = n, NEW f, Flattens(f, s, n)
    PROVE  FlattenSeq(s) = f[n]
<1>1. FlattenSeq(s) = (CHOOSE g : Flattens(g, s, n))[n]
  BY DEF FlattenSeq, Flattens
<1>2. PICK g : g = (CHOOSE h : Flattens(h, s, n)) /\ Flattens(g, s, n)
  OBVIOUS
<1>. DEFINE C == {k \in 0 .. n : k > 0 => g[k] = f[k]}
<1>3. 0 \in C
  OBVIOUS
<1>4. ASSUME NEW k \in 0 .. n - 1, k \in C PROVE k + 1 \in C
  <2>1. k + 1 \in 1 .. n /\ k + 1 - 1 = k /\ (k = 0 <=> k + 1 = 1)
    OBVIOUS
  <2>2. g[k + 1] = IF k + 1 = 1 THEN s[k + 1] ELSE g[k + 1 - 1] \o s[k + 1]
    BY <1>2, <2>1, FlattensAt
  <2>3. f[k + 1] = IF k + 1 = 1 THEN s[k + 1] ELSE f[k + 1 - 1] \o s[k + 1]
    BY <2>1, FlattensAt
  <2>. QED
    BY <1>4, <2>1, <2>2, <2>3
<1>5. C = 0 .. n
  <2>. HIDE DEF C
  <2>1. C \in SUBSET (0 .. n)
    BY DEF C
  <2>. QED
    BY <1>3, <1>4, <2>1, UpTo
<1>. QED
  BY <1>1, <1>2, <1>5

\* A longer sequence, flattened.
LEMMA FlattenStep ==
    ASSUME NEW n \in Nat, NEW s, NEW t, Len(s) = n, Len(t) = n + 1, \A i \in 1 .. n : s[i] = t[i]
    PROVE  FlattenSeq(t) = IF n = 0 THEN t[1] ELSE FlattenSeq(s) \o t[n + 1]
<1>1. PICK f : Flattens(f, t, n + 1)
  <2>1. n + 1 \in Nat
    OBVIOUS
  <2>. QED
    BY <2>1, FlattenExists
<1>2. FlattenSeq(t) = f[n + 1]
  BY <1>1, FlattenIs
<1>3. CASE n = 0
  BY <1>1, <1>2, <1>3 DEF Flattens
<1>4. CASE n # 0
  <2>. DEFINE g == [i \in 1 .. n |-> f[i]]
  <2>1. \A i \in 1 .. n + 1 : f[i] = IF i = 1 THEN t[i] ELSE f[i - 1] \o t[i]
    BY <1>1 DEF Flattens
  <2>2. \A i \in 1 .. n : g[i] = IF i = 1 THEN s[i] ELSE g[i - 1] \o s[i]
    BY <2>1
  <2>3. Flattens(g, s, n)
    BY <2>2 DEF Flattens
  <2>4. FlattenSeq(s) = g[n]
    BY <1>4, <2>3, FlattenIs
  <2>5. n \in 1 .. n /\ n + 1 \in 1 .. n + 1 /\ n + 1 # 1 /\ n + 1 - 1 = n
    BY <1>4
  <2>6. f[n + 1] = f[n] \o t[n + 1]
    <3>1. PICK k \in 1 .. n + 1 : k = n + 1
      BY <2>5
    <3>2. f[k] = IF k = 1 THEN t[k] ELSE f[k - 1] \o t[k]
      BY <2>1
    <3>3. k - 1 = n /\ k # 1
      BY <2>5, <3>1
    <3>4. f[k] = f[n] \o t[k]
      BY <3>2, <3>3
    <3>. QED
      BY <3>1, <3>4, Zenon
  <2>. QED
    BY <1>2, <1>4, <2>4, <2>5, <2>6
<1>. QED
  BY <1>3, <1>4

\* What a part adds to the text of its message.
TextBody(part) == IF part.kind = "text" THEN part.body ELSE <<>>

\* m has n parts, and its texts are sequences over T.
HasTexts(m, n, T) == DOMAIN m = 1 .. n /\ \A i \in 1 .. n : TextBody(m[i]) \in Seq(T)

\* The text of a message depends on the texts of its parts alone.
LEMMA TextSame ==
    ASSUME NEW m, NEW w, NEW n \in Nat, DOMAIN m = 1 .. n, DOMAIN w = 1 .. n,
           \A i \in 1 .. n : TextBody(m[i]) = TextBody(w[i])
    PROVE  TextOf(m) = TextOf(w)
<1>1. [i \in DOMAIN m |-> TextBody(m[i])] = [i \in DOMAIN w |-> TextBody(w[i])]
  OBVIOUS
<1>2. /\ TextOf(m) = FlattenSeq([i \in DOMAIN m |-> TextBody(m[i])])
      /\ TextOf(w) = FlattenSeq([i \in DOMAIN w |-> TextBody(w[i])])
  BY DEF TextOf, TextBody
<1>. QED
  BY <1>1, <1>2

\* A message without parts has no text.
LEMMA TextOfNone ==
    ASSUME NEW m, DOMAIN m = 1 .. 0
    PROVE  TextOf(m) = <<>>
<1>1. PICK s : s = [i \in DOMAIN m |-> TextBody(m[i])]
  OBVIOUS
<1>2. s = <<>>
  BY <1>1
<1>3. FlattenSeq(s) = s
  BY <1>2 DEF FlattenSeq
<1>4. TextOf(m) = FlattenSeq([i \in DOMAIN m |-> TextBody(m[i])])
  BY DEF TextOf, TextBody
<1>. QED
  BY <1>1, <1>2, <1>3, <1>4

\* The text of a message with one more part.
LEMMA TextStep ==
    ASSUME NEW n \in Nat, NEW m, NEW w, DOMAIN m = 1 .. n, DOMAIN w = 1 .. n + 1,
           \A i \in 1 .. n : m[i] = w[i]
    PROVE  TextOf(w) = IF n = 0 THEN TextBody(w[1]) ELSE TextOf(m) \o TextBody(w[n + 1])
<1>1. PICK s, t : s = [i \in 1 .. n |-> TextBody(m[i])] /\ t = [i \in 1 .. n + 1 |-> TextBody(w[i])]
  OBVIOUS
<1>2. Len(s) = n /\ Len(t) = n + 1
  BY <1>1
<1>3. \A i \in 1 .. n : s[i] = t[i]
  BY <1>1
<1>4. FlattenSeq(t) = IF n = 0 THEN t[1] ELSE FlattenSeq(s) \o t[n + 1]
  BY <1>2, <1>3, FlattenStep
<1>5. TextOf(m) = FlattenSeq(s) /\ TextOf(w) = FlattenSeq(t)
  BY <1>1 DEF TextOf, TextBody
<1>6. t[1] = TextBody(w[1]) /\ t[n + 1] = TextBody(w[n + 1])
  BY <1>1
<1>. QED
  BY <1>4, <1>5, <1>6

\* The text of a message is a sequence as its parts' texts are.
LEMMA TextTyped ==
    ASSUME NEW n \in Nat, NEW T, NEW m, HasTexts(m, n, T)
    PROVE  TextOf(m) \in Seq(T)
<1>. DEFINE p(k) == [i \in 1 .. k |-> m[i]]
            C == {k \in 0 .. n : TextOf(p(k)) \in Seq(T)}
<1>1. 0 \in C
  <2>1. DOMAIN p(0) = 1 .. 0
    OBVIOUS
  <2>2. TextOf(p(0)) = <<>>
    BY <2>1, TextOfNone
  <2>3. 0 \in 0 .. n /\ <<>> \in Seq(T)
    OBVIOUS
  <2>. QED
    BY <2>2, <2>3, Zenon
<1>2. ASSUME NEW k \in 0 .. n - 1, k \in C PROVE k + 1 \in C
  <2>. DEFINE u == p(k)
              v == p(k + 1)
  <2>1. DOMAIN u = 1 .. k /\ DOMAIN v = 1 .. k + 1 /\ \A i \in 1 .. k : u[i] = v[i]
    OBVIOUS
  <2>2. k + 1 \in 1 .. n /\ v[k + 1] = m[k + 1] /\ (k = 0 => v[1] = m[k + 1])
    OBVIOUS
  <2>3. TextOf(u) \in Seq(T) /\ k \in Nat
    BY <1>2
  <2>. HIDE DEF u, v
  <2>4. TextOf(v) = IF k = 0 THEN TextBody(v[1]) ELSE TextOf(u) \o TextBody(v[k + 1])
    BY <2>1, <2>3, TextStep
  <2>5. TextBody(m[k + 1]) \in Seq(T)
    BY <2>2 DEF HasTexts
  <2>6. TextOf(v) \in Seq(T)
    BY <2>2, <2>3, <2>4, <2>5
  <2>. QED
    BY <2>2, <2>6 DEF v
<1>3. C = 0 .. n
  <2>. HIDE DEF C
  <2>1. C \in SUBSET (0 .. n)
    BY DEF C
  <2>. QED
    BY <1>1, <1>2, <2>1, UpTo
<1>4. TextOf(p(n)) \in Seq(T)
  BY <1>3
<1>5. TextOf(m) = TextOf(p(n))
  <2>1. DOMAIN m = 1 .. n /\ DOMAIN p(n) = 1 .. n /\ \A i \in 1 .. n : TextBody(m[i]) = TextBody(p(n)[i])
    BY DEF HasTexts
  <2>. HIDE DEF p
  <2>. QED
    BY <2>1, TextSame
<1>. QED
  BY <1>4, <1>5

\* One more part appends its text.
LEMMA TextAppend ==
    ASSUME NEW n \in Nat, NEW T, NEW m, HasTexts(m, n, T), NEW w, HasTexts(w, n + 1, T),
           \A i \in 1 .. n : m[i] = w[i]
    PROVE  TextOf(w) = TextOf(m) \o TextBody(w[n + 1])
<1>1. DOMAIN m = 1 .. n /\ DOMAIN w = 1 .. n + 1 /\ n + 1 \in 1 .. n + 1
  BY DEF HasTexts
<1>2. TextOf(w) = IF n = 0 THEN TextBody(w[1]) ELSE TextOf(m) \o TextBody(w[n + 1])
  BY <1>1, TextStep
<1>3. CASE n = 0
  <2>1. TextOf(m) = <<>>
    BY <1>1, <1>3, TextOfNone
  <2>2. TextBody(w[n + 1]) \in Seq(T)
    BY <1>1 DEF HasTexts
  <2>3. <<>> \o TextBody(w[n + 1]) = TextBody(w[n + 1])
    BY <2>2
  <2>. QED
    BY <1>2, <1>3, <2>1, <2>3
<1>4. CASE n # 0
  BY <1>2, <1>4
<1>. QED
  BY <1>3, <1>4

\* w is m with one more part.
OneMore(m, n, w, T) ==
    /\ n \in Nat /\ HasTexts(m, n, T) /\ HasTexts(w, n + 1, T)
    /\ \A i \in 1 .. n : m[i] = w[i]

\* So it has one more text.
LEMMA OneMoreText ==
    ASSUME NEW m, NEW n, NEW w, NEW T, OneMore(m, n, w, T)
    PROVE  TextOf(w) = TextOf(m) \o TextBody(w[n + 1])
<1>1. /\ n \in Nat /\ HasTexts(m, n, T) /\ HasTexts(w, n + 1, T)
      /\ \A i \in 1 .. n : m[i] = w[i]
  BY DEF OneMore
<1>. QED
  BY <1>1, TextAppend

------------------------------------------------------------------------------
(* Sets of numbers in their order *)

\* e lists the c numbers of S in their order.
Lists(e, S, c) ==
    /\ e \in [1 .. c -> S]
    /\ \A i, j \in 1 .. c : i < j => e[i] < e[j]
    /\ \A x \in S : \E i \in 1 .. c : e[i] = x

\* A function on the first c numbers that grows leaves each where it is.
LEMMA GrowingIsIdentity ==
    ASSUME NEW c \in Nat, NEW p \in [1 .. c -> 1 .. c], \A i, j \in 1 .. c : i < j => p[i] < p[j]
    PROVE  \A i \in 1 .. c : p[i] = i
<1>. DEFINE C == {k \in 0 .. c : k > 0 => p[k] >= k}
            D == {k \in 0 .. c : k > 0 => p[c + 1 - k] <= c + 1 - k}
<1>1. C = 0 .. c
  <2>1. 0 \in C
    OBVIOUS
  <2>2. ASSUME NEW k \in 0 .. c - 1, k \in C PROVE k + 1 \in C
    <3>1. CASE k = 0
      BY <3>1
    <3>2. CASE k > 0
      <4>1. k \in 1 .. c /\ k + 1 \in 1 .. c /\ k < k + 1
        BY <3>2
      <4>2. p[k] < p[k + 1] /\ p[k] \in 1 .. c /\ p[k + 1] \in 1 .. c
        BY <4>1
      <4>. QED
        BY <2>2, <3>2, <4>1, <4>2
    <3>. QED
      BY <3>1, <3>2
  <2>3. C \in SUBSET (0 .. c)
    OBVIOUS
  <2>. HIDE DEF C
  <2>. QED
    BY <2>1, <2>2, <2>3, UpTo
<1>2. D = 0 .. c
  <2>1. 0 \in D
    OBVIOUS
  <2>2. ASSUME NEW k \in 0 .. c - 1, k \in D PROVE k + 1 \in D
    <3>. DEFINE a == c + 1 - (k + 1)
                b == c + 1 - k
    <3>1. a \in 1 .. c /\ b = a + 1
      OBVIOUS
    <3>2. CASE k = 0
      <4>1. p[a] <= a
        BY <3>1, <3>2
      <4>. QED
        BY <4>1
    <3>3. CASE k > 0
      <4>1. b \in 1 .. c
        BY <3>3
      <4>2. p[a] < p[b] /\ p[a] \in 1 .. c /\ p[b] \in 1 .. c
        BY <3>1, <4>1
      <4>3. p[b] <= b
        BY <2>2, <3>3
      <4>4. p[a] <= a
        BY <3>1, <4>2, <4>3
      <4>. QED
        BY <4>4
    <3>. QED
      BY <3>2, <3>3
  <2>3. D \in SUBSET (0 .. c)
    OBVIOUS
  <2>. HIDE DEF D
  <2>. QED
    BY <2>1, <2>2, <2>3, UpTo
<1>3. ASSUME NEW i \in 1 .. c PROVE p[i] = i
  <2>1. i \in C
    BY <1>1
  <2>2. p[i] >= i /\ p[i] \in 1 .. c
    BY <2>1
  <2>. DEFINE k == c + 1 - i
  <2>3. k \in 0 .. c /\ k > 0 /\ c + 1 - k = i
    OBVIOUS
  <2>4. k \in D
    BY <1>2, <2>3
  <2>5. p[c + 1 - k] <= c + 1 - k
    BY <2>3, <2>4
  <2>. QED
    BY <2>2, <2>3, <2>5
<1>. QED
  BY <1>3

\* There is one list of a set, which is the one that Ordered has.
LEMMA OrderedIs ==
    ASSUME NEW S \in SUBSET Int, NEW c \in Nat, Cardinality(S) = c, NEW e, Lists(e, S, c)
    PROVE  Ordered(S) = e
<1>. DEFINE Grows(s) == \A i, j \in DOMAIN s : i < j => s[i] < s[j]
<1>1. Ordered(S) = CHOOSE s \in [1 .. c -> S] : Grows(s)
  BY DEF Ordered
<1>2. e \in [1 .. c -> S] /\ Grows(e)
  BY DEF Lists
<1>3. PICK s \in [1 .. c -> S] : s = Ordered(S) /\ Grows(s)
  <2>. HIDE DEF Grows
  <2>. QED
    BY <1>1, <1>2
<1>. DEFINE p == [i \in 1 .. c |-> CHOOSE k \in 1 .. c : e[k] = s[i]]
<1>4. ASSUME NEW i \in 1 .. c PROVE p[i] \in 1 .. c /\ e[p[i]] = s[i]
  <2>1. \E k \in 1 .. c : e[k] = s[i]
    BY DEF Lists
  <2>. QED
    BY <2>1
<1>5. p \in [1 .. c -> 1 .. c]
  <2>1. \A i \in 1 .. c : p[i] \in 1 .. c
    BY <1>4
  <2>. QED
    BY <2>1
<1>. HIDE DEF p
<1>6. ASSUME NEW i \in 1 .. c, NEW j \in 1 .. c, i < j PROVE p[i] < p[j]
  <2>1. s[i] < s[j] /\ s[i] \in Int /\ s[j] \in Int
    BY <1>3, <1>6
  <2>2. e[p[i]] = s[i] /\ e[p[j]] = s[j] /\ p[i] \in 1 .. c /\ p[j] \in 1 .. c
    BY <1>4
  <2>3. p[j] < p[i] => e[p[j]] < e[p[i]]
    BY <2>2 DEF Lists
  <2>4. p[i] # p[j]
    BY <2>1, <2>2
  <2>5. ~ (p[j] < p[i])
    BY <2>1, <2>2, <2>3
  <2>. QED
    BY <2>2, <2>4, <2>5
<1>7. \A i \in 1 .. c : p[i] = i
  BY <1>5, <1>6, GrowingIsIdentity
<1>8. \A i \in 1 .. c : s[i] = e[i]
  BY <1>4, <1>7
<1>. QED
  BY <1>2, <1>3, <1>8

\* S is finite and has a list.
Listed(S) ==
    IsFiniteSet(S) /\ \E c \in Nat : Cardinality(S) = c /\ \E e : Lists(e, S, c)

\* A set with one more number above its own has a list if it has one without.
LEMMA ListedMore ==
    ASSUME NEW k \in Nat, NEW S \in SUBSET (1 .. k), Listed(S)
    PROVE  Listed(S \cup {k + 1})
<1>0. PICK c \in Nat : IsFiniteSet(S) /\ Cardinality(S) = c /\ \E e : Lists(e, S, c)
  BY DEF Listed
<1>1. PICK e : IsFiniteSet(S) /\ Cardinality(S) = c /\ Lists(e, S, c)
  BY <1>0
<1>. DEFINE d == [i \in 1 .. c + 1 |-> IF i = c + 1 THEN k + 1 ELSE e[i]]
            V == S \cup {k + 1}
<1>2. k + 1 \notin S
  OBVIOUS
<1>3. IsFiniteSet(V) /\ Cardinality(V) = c + 1
  BY <1>1, <1>2, FS_AddElement
<1>4. \A i \in 1 .. c : e[i] \in S
  BY <1>1 DEF Lists
<1>5. \A i \in 1 .. c : e[i] \in 1 .. k
  BY <1>4
<1>6. d \in [1 .. c + 1 -> V]
  BY <1>4
<1>7. ASSUME NEW i \in 1 .. c + 1, NEW j \in 1 .. c + 1, i < j PROVE d[i] < d[j]
  <2>1. i \in 1 .. c /\ d[i] = e[i]
    BY <1>7
  <2>2. CASE j = c + 1
    BY <1>5, <2>1, <2>2
  <2>3. CASE j # c + 1
    BY <1>1, <1>7, <2>1, <2>3 DEF Lists
  <2>. QED
    BY <2>2, <2>3
<1>8. ASSUME NEW x \in V PROVE \E i \in 1 .. c + 1 : d[i] = x
  <2>1. CASE x = k + 1
    BY <2>1
  <2>2. CASE x \in S
    <3>1. PICK i \in 1 .. c : e[i] = x
      BY <1>1, <2>2 DEF Lists
    <3>2. i \in 1 .. c + 1 /\ d[i] = x
      BY <3>1
    <3>. QED
      BY <3>2
  <2>. QED
    BY <2>1, <2>2
<1>. HIDE DEF d, V
<1>9. Lists(d, V, c + 1) /\ c + 1 \in Nat
  BY <1>6, <1>7, <1>8 DEF Lists
<1>10. Listed(V)
  BY <1>3, <1>9 DEF Listed
<1>. QED
  BY <1>10 DEF V

\* A finite set of numbers has a list.
LEMMA ListExists ==
    ASSUME NEW n \in Nat, NEW S \in SUBSET (1 .. n)
    PROVE  Listed(S)
<1>. DEFINE C == {k \in 0 .. n : Listed(S \cap (1 .. k))}
<1>1. 0 \in C
  <2>1. S \cap (1 .. 0) = {} /\ 0 \in 0 .. n
    OBVIOUS
  <2>2. IsFiniteSet({}) /\ Cardinality({}) = 0
    BY FS_EmptySet
  <2>3. Lists([i \in 1 .. 0 |-> i], {}, 0)
    BY DEF Lists
  <2>4. Listed({})
    BY <2>2, <2>3 DEF Listed
  <2>. QED
    BY <2>1, <2>4
<1>2. ASSUME NEW k \in 0 .. n - 1, k \in C PROVE k + 1 \in C
  <2>1. k + 1 \in 0 .. n /\ k \in Nat
    OBVIOUS
  <2>2. Listed(S \cap (1 .. k)) /\ S \cap (1 .. k) \in SUBSET (1 .. k)
    BY <1>2
  <2>3. Listed((S \cap (1 .. k)) \cup {k + 1})
    BY <2>1, <2>2, ListedMore
  <2>4. S \cap (1 .. k + 1) = S \cap (1 .. k) \/ S \cap (1 .. k + 1) = (S \cap (1 .. k)) \cup {k + 1}
    OBVIOUS
  <2>5. Listed(S \cap (1 .. k + 1))
    BY <2>2, <2>3, <2>4
  <2>. QED
    BY <2>1, <2>5
<1>3. C = 0 .. n
  <2>. HIDE DEF C
  <2>1. C \in SUBSET (0 .. n)
    BY DEF C
  <2>. QED
    BY <1>1, <1>2, <2>1, UpTo
<1>4. Listed(S \cap (1 .. n))
  BY <1>3
<1>5. S \cap (1 .. n) = S
  OBVIOUS
<1>. QED
  BY <1>4, <1>5

------------------------------------------------------------------------------
(* Replies, and what of them is sent *)

\* The tokens of a reply, and the one that an argument breaks off with.
Tokens(r) == (UNION {ToSet(r[i].body) : i \in DOMAIN r}) \cup {"."}

\* What IsItem says, with the tokens of the whole reply.
ItemOver(it, T) ==
    /\ it \in [kind : {it.kind}, call : {it.call}, body : {it.body}]
    /\ it.kind \in Kinds
    /\ it.body \in Seq(T) /\ Len(it.body) \in Nat \ {0}
    /\ it.kind = "call" =>
          /\ it.call \in [id : {it.call.id}, tool : {it.call.tool}]
          /\ \A k \in 1 .. Len(it.body) : it.body[k] = "}" <=> k = Len(it.body)

\* A reply has items, over its tokens.
LEMMA ReplyItems ==
    ASSUME NEW r, IsReply(r)
    PROVE  /\ Len(r) \in Nat \ {0} /\ DOMAIN r = 1 .. Len(r)
           /\ r = [k \in 1 .. Len(r) |-> r[k]]
           /\ \A i \in 1 .. Len(r) : ItemOver(r[i], Tokens(r))
<1>1. r \in Seq(ToSet(r)) /\ r # <<>>
  BY DEF IsReply
<1>2. Len(r) \in Nat \ {0} /\ DOMAIN r = 1 .. Len(r) /\ r = [k \in 1 .. Len(r) |-> r[k]]
  BY <1>1, EmptySeq, LenProperties
<1>3. ASSUME NEW i \in 1 .. Len(r) PROVE ItemOver(r[i], Tokens(r))
  <2>1. PICK it : it = r[i]
    OBVIOUS
  <2>2. IsItem(it)
    BY <1>2, <2>1 DEF IsReply
  <2>3. it \in [kind : Kinds, call : {it.call}, body : Seq(ToSet(it.body)) \ {<<>>}]
    BY <2>2 DEF IsItem
  <2>4. it.body \in Seq(ToSet(it.body)) /\ it.body # <<>>
    BY <2>3
  <2>5. ToSet(it.body) \subseteq Tokens(r)
    BY <1>2, <2>1 DEF Tokens
  <2>6. it.body \in Seq(Tokens(r))
    BY <2>4, <2>5, SeqMonotonic
  <2>7. Len(it.body) \in Nat \ {0} /\ DOMAIN it.body = 1 .. Len(it.body)
    BY <2>4, EmptySeq, LenProperties
  <2>8. it.kind \in Kinds /\ it \in [kind : {it.kind}, call : {it.call}, body : {it.body}]
    BY <2>3
  <2>9. ASSUME it.kind = "call"
        PROVE  /\ it.call \in [id : {it.call.id}, tool : {it.call.tool}]
               /\ \A k \in 1 .. Len(it.body) : it.body[k] = "}" <=> k = Len(it.body)
    <3>1. it.call \in [id : {it.call.id}, tool : {it.call.tool}]
      BY <2>2, <2>9 DEF IsItem
    <3>2. \A k \in DOMAIN it.body : it.body[k] = "}" <=> k = Len(it.body)
      BY <2>2, <2>9 DEF IsItem
    <3>. QED
      BY <2>7, <3>1, <3>2
  <2>. QED
    BY <2>1, <2>6, <2>7, <2>8, <2>9 DEF ItemOver
<1>. QED
  BY <1>2, <1>3

\* An item of a reply, by its parts.
LEMMA ItemIs ==
    ASSUME NEW r, IsReply(r), NEW i \in 1 .. Len(r), NEW T, T = Tokens(r)
    PROVE  /\ r[i] \in [kind : {r[i].kind}, call : {r[i].call}, body : {r[i].body}]
           /\ r[i].kind \in Kinds
           /\ r[i].body \in Seq(T) /\ Len(r[i].body) \in Nat \ {0}
BY ReplyItems DEF ItemOver

\* The first i items, the last of them up to its o-th token.
CutAt(r, i, o) ==
    [k \in 1 .. i |-> IF k < i THEN r[k] ELSE [r[k] EXCEPT !.body = SubSeq(@, 1, o)]]

\* A body up to one of its tokens.
LEMMA BodyUpTo ==
    ASSUME NEW T, NEW b \in Seq(T), NEW o \in 0 .. Len(b)
    PROVE  /\ SubSeq(b, 1, o) \in Seq(T) /\ Len(SubSeq(b, 1, o)) = o
           /\ o = 0 => SubSeq(b, 1, o) = <<>>
           /\ o = Len(b) => SubSeq(b, 1, o) = b
           /\ \A k \in 1 .. o : SubSeq(b, 1, o)[k] = b[k]
<1>1. Len(b) \in Nat /\ \A i \in 1 .. o : b[i] \in T
  BY ElementOfSeq, LenProperties
<1>2. /\ SubSeq(b, 1, o) \in Seq(T)
      /\ Len(SubSeq(b, 1, o)) = IF 1 <= o THEN o - 1 + 1 ELSE 0
      /\ \A i \in 1 .. o - 1 + 1 : SubSeq(b, 1, o)[i] = b[1 + i - 1]
  BY <1>1, SubSeqProperties
<1>3. o = 0 => SubSeq(b, 1, o) = <<>>
  BY <1>1, SubSeqEmpty
<1>4. o = Len(b) => SubSeq(b, 1, o) = b
  BY SubSeqFull
<1>. QED
  BY <1>1, <1>2, <1>3, <1>4

\* A piece of a body goes on where the one before it ends.
LEMMA BodyGrows ==
    ASSUME NEW T, NEW b \in Seq(T), NEW o \in Nat, NEW n \in Nat \ {0}, o + n <= Len(b)
    PROVE  /\ SubSeq(b, 1, o + n) = SubSeq(b, 1, o) \o SubSeq(b, o + 1, o + n)
           /\ SubSeq(b, o + 1, o + n) \in Seq(T) /\ SubSeq(b, o + 1, o + n) # <<>>
           /\ Len(SubSeq(b, o + 1, o + n)) = n
<1>1. Len(b) \in Nat /\ \A i \in o + 1 .. o + n : b[i] \in T
  <2>1. Len(b) \in Nat /\ o + n \in Nat
    BY LenProperties
  <2>2. \A i \in o + 1 .. o + n : i \in 1 .. Len(b)
    BY <2>1
  <2>. QED
    BY <2>1, <2>2, ElementOfSeq
<1>2. /\ SubSeq(b, o + 1, o + n) \in Seq(T)
      /\ Len(SubSeq(b, o + 1, o + n)) = IF o + 1 <= o + n THEN o + n - (o + 1) + 1 ELSE 0
  <2>1. o + 1 \in Int /\ o + n \in Int
    OBVIOUS
  <2>. QED
    BY <1>1, <2>1, SubSeqProperties
<1>3. SubSeq(b, 1, o) \o SubSeq(b, o + 1, o + n) = SubSeq(b, 1, o + n)
  <2>1. 1 \in 1 .. Len(b) + 1 /\ o \in 1 - 1 .. Len(b) /\ o + n \in o .. Len(b)
    BY <1>1
  <2>. QED
    BY <2>1, ConcatAdjacentSubSeq
<1>4. Len(SubSeq(b, o + 1, o + n)) = n
  BY <1>2
<1>5. SubSeq(b, o + 1, o + n) # <<>>
  BY <1>4
<1>. QED
  BY <1>2, <1>3, <1>4, <1>5

\* r is a reply and (i, o) a place in it.
Place(r, i, o) == IsReply(r) /\ i \in 1 .. Len(r) /\ o \in 0 .. Len(r[i].body)

\* An item with another body.
LEMMA ExceptBody ==
    ASSUME NEW it, NEW kind, NEW call, NEW body,
           it \in [kind : {kind}, call : {call}, body : {body}], NEW x
    PROVE  [it EXCEPT !.body = x] = [kind |-> kind, call |-> call, body |-> x]
OBVIOUS

\* The items up to a place.
LEMMA CutItems ==
    ASSUME NEW r, NEW i, NEW o, Place(r, i, o), NEW T, T = Tokens(r)
    PROVE  /\ DOMAIN CutAt(r, i, o) = 1 .. i
           /\ \A k \in 1 .. i : k < i => CutAt(r, i, o)[k] = r[k]
           /\ CutAt(r, i, o)[i] =
                [kind |-> r[i].kind, call |-> r[i].call, body |-> SubSeq(r[i].body, 1, o)]
           /\ HasTexts(CutAt(r, i, o), i, T)
<1>. DEFINE c == CutAt(r, i, o)
            last == [kind |-> r[i].kind, call |-> r[i].call, body |-> SubSeq(r[i].body, 1, o)]
<1>1. IsReply(r) /\ i \in 1 .. Len(r) /\ o \in 0 .. Len(r[i].body) /\ Len(r) \in Nat
  BY ReplyItems DEF Place
<1>2. /\ r[i] \in [kind : {r[i].kind}, call : {r[i].call}, body : {r[i].body}]
      /\ r[i].body \in Seq(T)
  BY <1>1, ItemIs
<1>3. [r[i] EXCEPT !.body = SubSeq(@, 1, o)] = last
  BY <1>2, ExceptBody, Zenon
<1>4. DOMAIN c = 1 .. i /\ (\A k \in 1 .. i : k < i => c[k] = r[k]) /\ c[i] = last
  BY <1>1, <1>3 DEF CutAt
<1>5. SubSeq(r[i].body, 1, o) \in Seq(T) /\ <<>> \in Seq(T)
  BY <1>1, <1>2, BodyUpTo
<1>6. TextBody(last) \in Seq(T)
  BY <1>5 DEF TextBody
<1>7. ASSUME NEW k \in 1 .. i PROVE TextBody(c[k]) \in Seq(T)
  <2>1. CASE k < i
    <3>1. c[k] = r[k] /\ k \in 1 .. Len(r)
      BY <1>1, <1>4, <2>1
    <3>2. r[k].body \in Seq(T)
      BY <1>1, <3>1, ItemIs
    <3>. QED
      BY <1>5, <3>1, <3>2 DEF TextBody
  <2>2. CASE k = i
    BY <1>4, <1>6, <2>2
  <2>. QED
    BY <1>1, <2>1, <2>2
<1>. HIDE DEF c
<1>8. HasTexts(c, i, T)
  BY <1>4, <1>7 DEF HasTexts
<1>. QED
  BY <1>4, <1>8 DEF c

\* The text up to a place is that of the items before, and of the last one so far.
LEMMA CutText ==
    ASSUME NEW r, NEW i, NEW o, Place(r, i, o), NEW T, T = Tokens(r)
    PROVE  /\ HasTexts([k \in 1 .. i - 1 |-> r[k]], i - 1, T)
           /\ TextOf([k \in 1 .. i - 1 |-> r[k]]) \in Seq(T)
           /\ TextOf(CutAt(r, i, o)) \in Seq(T)
           /\ TextOf(CutAt(r, i, o)) =
                TextOf([k \in 1 .. i - 1 |-> r[k]])
                \o (IF r[i].kind = "text" THEN SubSeq(r[i].body, 1, o) ELSE <<>>)
<1>1. PICK c, m, n : c = CutAt(r, i, o) /\ m = [k \in 1 .. i - 1 |-> r[k]] /\ n = i - 1
  OBVIOUS
<1>2. i \in 1 .. Len(r) /\ IsReply(r) /\ Len(r) \in Nat
  BY ReplyItems DEF Place
<1>3. n \in Nat /\ n + 1 = i /\ DOMAIN m = 1 .. n
  BY <1>1, <1>2
<1>4. /\ HasTexts(c, n + 1, T) /\ \A k \in 1 .. i : k < i => c[k] = r[k]
      /\ c[i] = [kind |-> r[i].kind, call |-> r[i].call, body |-> SubSeq(r[i].body, 1, o)]
  BY <1>1, <1>3, CutItems
<1>5. \A k \in 1 .. n : m[k] = c[k] /\ k \in 1 .. n + 1
  BY <1>1, <1>3, <1>4
<1>6. HasTexts(m, n, T)
  BY <1>3, <1>4, <1>5 DEF HasTexts
<1>7. TextOf(c) = TextOf(m) \o TextBody(c[n + 1])
  BY <1>3, <1>4, <1>5, <1>6, TextAppend
<1>8. TextBody(c[n + 1]) = IF r[i].kind = "text" THEN SubSeq(r[i].body, 1, o) ELSE <<>>
  <2>1. PICK last : last = c[i]
    OBVIOUS
  <2>2. last.kind = r[i].kind /\ last.body = SubSeq(r[i].body, 1, o)
    <3>1. last = [kind |-> r[i].kind, call |-> r[i].call, body |-> SubSeq(r[i].body, 1, o)]
      BY <1>4, <2>1
    <3>. QED
      BY <3>1
  <2>3. c[n + 1] = last
    BY <1>3, <2>1
  <2>. QED
    BY <2>2, <2>3 DEF TextBody
<1>9. TextOf(m) \in Seq(T) /\ TextOf(c) \in Seq(T)
  BY <1>3, <1>4, <1>6, TextTyped
<1>. QED
  BY <1>1, <1>6, <1>7, <1>8, <1>9

\* More of an item adds its text, if it is one.
LEMMA CutMore ==
    ASSUME NEW r, NEW i, NEW o, Place(r, i, o), NEW n \in Nat \ {0}, Place(r, i, o + n)
    PROVE  TextOf(CutAt(r, i, o + n)) =
             TextOf(CutAt(r, i, o))
             \o (IF r[i].kind = "text" THEN SubSeq(r[i].body, o + 1, o + n) ELSE <<>>)
<1>1. PICK T, m, b : T = Tokens(r) /\ m = [k \in 1 .. i - 1 |-> r[k]] /\ b = r[i].body
  OBVIOUS
<1>2. b \in Seq(T) /\ o \in Nat /\ o + n <= Len(b) /\ o \in 0 .. Len(b) /\ Len(b) \in Nat
  <2>1. IsReply(r) /\ i \in 1 .. Len(r) /\ o \in 0 .. Len(b) /\ o + n \in 0 .. Len(b)
    BY <1>1 DEF Place
  <2>2. b \in Seq(T) /\ Len(b) \in Nat
    BY <1>1, <2>1, ItemIs
  <2>. QED
    BY <2>1, <2>2
<1>3. /\ TextOf(m) \in Seq(T) /\ TextOf(CutAt(r, i, o)) \in Seq(T)
      /\ TextOf(CutAt(r, i, o)) =
           TextOf(m) \o (IF r[i].kind = "text" THEN SubSeq(b, 1, o) ELSE <<>>)
      /\ TextOf(CutAt(r, i, o + n)) =
           TextOf(m) \o (IF r[i].kind = "text" THEN SubSeq(b, 1, o + n) ELSE <<>>)
  BY <1>1, CutText
<1>4. CASE r[i].kind = "text"
  <2>1. /\ SubSeq(b, 1, o + n) = SubSeq(b, 1, o) \o SubSeq(b, o + 1, o + n)
        /\ SubSeq(b, o + 1, o + n) \in Seq(T)
    BY <1>2, BodyGrows
  <2>2. SubSeq(b, 1, o) \in Seq(T)
    BY <1>2, BodyUpTo
  <2>3. (TextOf(m) \o SubSeq(b, 1, o)) \o SubSeq(b, o + 1, o + n)
        = TextOf(m) \o (SubSeq(b, 1, o) \o SubSeq(b, o + 1, o + n))
    <3>1. PICK x, y, z : x = TextOf(m) /\ y = SubSeq(b, 1, o) /\ z = SubSeq(b, o + 1, o + n)
      OBVIOUS
    <3>2. x \in Seq(T) /\ y \in Seq(T) /\ z \in Seq(T)
      BY <1>3, <2>1, <2>2, <3>1
    <3>3. (x \o y) \o z = x \o (y \o z)
      BY <3>2, ConcatAssociative
    <3>. QED
      BY <3>1, <3>3
  <2>. QED
    BY <1>1, <1>3, <1>4, <2>1, <2>3
<1>5. CASE r[i].kind # "text"
  <2>1. TextOf(CutAt(r, i, o)) \o <<>> = TextOf(CutAt(r, i, o))
    BY <1>3, ConcatEmptySeq
  <2>. QED
    BY <1>3, <1>5, <2>1
<1>. QED
  BY <1>4, <1>5

\* An item in full is sent as it is, and the next one begins with no text.
LEMMA CutNext ==
    ASSUME NEW r, NEW i, Place(r, i, Len(r[i].body))
    PROVE  /\ CutAt(r, i, Len(r[i].body)) = [k \in 1 .. i |-> r[k]]
           /\ i = Len(r) => CutAt(r, i, Len(r[i].body)) = r
           /\ i < Len(r) => TextOf(CutAt(r, i + 1, 0)) = TextOf(CutAt(r, i, Len(r[i].body)))
<1>1. PICK T, b, c : T = Tokens(r) /\ b = r[i].body /\ c = CutAt(r, i, Len(r[i].body))
  OBVIOUS
<1>2. /\ i \in 1 .. Len(r) /\ IsReply(r) /\ Len(r) \in Nat /\ r = [k \in 1 .. Len(r) |-> r[k]]
      /\ b \in Seq(T) /\ Len(b) \in 0 .. Len(b)
      /\ r[i] \in [kind : {r[i].kind}, call : {r[i].call}, body : {b}]
  BY <1>1, ReplyItems, ItemIs DEF Place
<1>3. SubSeq(b, 1, Len(b)) = b
  BY <1>2, BodyUpTo
<1>4. /\ \A k \in 1 .. i : k < i => c[k] = r[k]
      /\ c[i] = [kind |-> r[i].kind, call |-> r[i].call, body |-> SubSeq(b, 1, Len(b))]
  BY <1>1, CutItems
<1>5. \A k \in 1 .. i : c[k] = r[k]
  BY <1>2, <1>3, <1>4
<1>6. c = [k \in 1 .. i |-> r[k]]
  <2>1. c = [k \in 1 .. i |-> c[k]]
    BY <1>1 DEF CutAt
  <2>. QED
    BY <1>5, <2>1
<1>7. i = Len(r) => c = r
  BY <1>2, <1>6
<1>8. ASSUME i < Len(r) PROVE TextOf(CutAt(r, i + 1, 0)) = TextOf(c)
  <2>1. PICK j : j = i + 1
    OBVIOUS
  <2>2. j \in 1 .. Len(r) /\ j - 1 = i
    BY <1>2, <1>8, <2>1
  <2>3. r[j].body \in Seq(T) /\ Len(r[j].body) \in Nat \ {0}
    BY <1>1, <1>2, <2>2, ItemIs
  <2>4. Place(r, j, 0)
    BY <1>2, <2>2, <2>3 DEF Place
  <2>5. SubSeq(r[j].body, 1, 0) = <<>>
    BY <2>3, BodyUpTo
  <2>6. TextOf(CutAt(r, j, 0)) = TextOf([k \in 1 .. j - 1 |-> r[k]]) \o <<>>
    BY <1>1, <2>4, <2>5, CutText
  <2>7. TextOf([k \in 1 .. j - 1 |-> r[k]]) \in Seq(T)
    BY <1>1, <2>4, CutText
  <2>8. TextOf([k \in 1 .. j - 1 |-> r[k]]) \o <<>> = TextOf([k \in 1 .. j - 1 |-> r[k]])
    BY <2>7, ConcatEmptySeq
  <2>. QED
    BY <1>6, <2>1, <2>2, <2>6, <2>8
<1>. QED
  BY <1>1, <1>6, <1>7, <1>8

\* Before the first token there is no text.
LEMMA CutFirst ==
    ASSUME NEW r, IsReply(r)
    PROVE  /\ TextOf(CutAt(r, 1, 0)) = <<>>
           /\ \A o : CutAt(r, 0, o) = <<>> /\ TextOf(CutAt(r, 0, o)) = <<>>
<1>1. PICK T, b : T = Tokens(r) /\ b = r[1].body
  OBVIOUS
<1>2. Len(r) \in Nat \ {0} /\ 1 \in 1 .. Len(r)
  BY ReplyItems
<1>3. b \in Seq(T) /\ Len(b) \in Nat
  BY <1>1, <1>2, ItemIs
<1>4. Place(r, 1, 0)
  BY <1>1, <1>2, <1>3 DEF Place
<1>5. SubSeq(b, 1, 0) = <<>>
  BY <1>3, BodyUpTo
<1>6. DOMAIN [k \in 1 .. 1 - 1 |-> r[k]] = 1 .. 0
  OBVIOUS
<1>7. TextOf([k \in 1 .. 1 - 1 |-> r[k]]) = <<>>
  BY <1>6, TextOfNone
<1>8. TextOf(CutAt(r, 1, 0)) = <<>> \o <<>>
  BY <1>1, <1>4, <1>5, <1>7, CutText
<1>9. ASSUME NEW o PROVE CutAt(r, 0, o) = <<>> /\ TextOf(CutAt(r, 0, o)) = <<>>
  <2>1. CutAt(r, 0, o) = <<>> /\ DOMAIN CutAt(r, 0, o) = 1 .. 0
    BY DEF CutAt
  <2>. QED
    BY <2>1, TextOfNone
<1>. QED
  BY <1>8, <1>9

------------------------------------------------------------------------------
(* Results *)

\* A parsedResponse of these parts.
Result(id, finish, hasUsage, input, output, read, created, messages) ==
    [id |-> id, finish |-> finish, hasUsage |-> hasUsage, input |-> input, output |-> output,
     read |-> read, created |-> created, messages |-> messages]

\* A result has all its parts.
IsResult(r) ==
    r = Result(r.id, r.finish, r.hasUsage, r.input, r.output, r.read, r.created, r.messages)

\* A result with one of its parts set.
LEMMA ResultSet ==
    ASSUME NEW r, IsResult(r), NEW x
    PROVE  /\ [r EXCEPT !.id = x] =
                Result(x, r.finish, r.hasUsage, r.input, r.output, r.read, r.created, r.messages)
           /\ [r EXCEPT !.finish = x] =
                Result(r.id, x, r.hasUsage, r.input, r.output, r.read, r.created, r.messages)
           /\ [r EXCEPT !.hasUsage = x] =
                Result(r.id, r.finish, x, r.input, r.output, r.read, r.created, r.messages)
           /\ [r EXCEPT !.input = x] =
                Result(r.id, r.finish, r.hasUsage, x, r.output, r.read, r.created, r.messages)
           /\ [r EXCEPT !.output = x] =
                Result(r.id, r.finish, r.hasUsage, r.input, x, r.read, r.created, r.messages)
           /\ [r EXCEPT !.read = x] =
                Result(r.id, r.finish, r.hasUsage, r.input, r.output, x, r.created, r.messages)
           /\ [r EXCEPT !.created = x] =
                Result(r.id, r.finish, r.hasUsage, r.input, r.output, r.read, x, r.messages)
           /\ [r EXCEPT !.messages = x] =
                Result(r.id, r.finish, r.hasUsage, r.input, r.output, r.read, r.created, x)
<1>1. PICK id, finish, has, input, output, read, created, messages :
         r = Result(id, finish, has, input, output, read, created, messages)
  BY DEF IsResult
<1>2. r \in [id : {id}, finish : {finish}, hasUsage : {has}, input : {input}, output : {output},
             read : {read}, created : {created}, messages : {messages}]
  BY <1>1 DEF Result
<1>3. /\ r.id = id /\ r.finish = finish /\ r.hasUsage = has /\ r.input = input /\ r.output = output
      /\ r.read = read /\ r.created = created /\ r.messages = messages
  BY <1>2
<1>4. [r EXCEPT !.id = x] = Result(x, finish, has, input, output, read, created, messages)
  BY <1>2 DEF Result
<1>5. [r EXCEPT !.finish = x] = Result(id, x, has, input, output, read, created, messages)
  BY <1>2 DEF Result
<1>6. [r EXCEPT !.hasUsage = x] = Result(id, finish, x, input, output, read, created, messages)
  BY <1>2 DEF Result
<1>7. [r EXCEPT !.input = x] = Result(id, finish, has, x, output, read, created, messages)
  BY <1>2 DEF Result
<1>8. [r EXCEPT !.output = x] = Result(id, finish, has, input, x, read, created, messages)
  BY <1>2 DEF Result
<1>9. [r EXCEPT !.read = x] = Result(id, finish, has, input, output, x, created, messages)
  BY <1>2 DEF Result
<1>10. [r EXCEPT !.created = x] = Result(id, finish, has, input, output, read, x, messages)
  BY <1>2 DEF Result
<1>11. [r EXCEPT !.messages = x] = Result(id, finish, has, input, output, read, created, x)
  BY <1>2 DEF Result
<1>. QED
  BY <1>3, <1>4, <1>5, <1>6, <1>7, <1>8, <1>9, <1>10, <1>11, Zenon

\* A result that is given its messages.
LEMMA ResultGiven ==
    ASSUME NEW r, IsResult(r), NEW m
    PROVE  [r EXCEPT !.messages = m] =
             Result(r.id, r.finish, r.hasUsage, r.input, r.output, r.read, r.created, m)
<1>1. PICK id, finish, has, input, output, read, created, messages :
         r = Result(id, finish, has, input, output, read, created, messages)
  BY DEF IsResult
<1>2. r \in [id : {id}, finish : {finish}, hasUsage : {has}, input : {input}, output : {output},
             read : {read}, created : {created}, messages : {messages}]
  BY <1>1 DEF Result
<1>3. /\ r.id = id /\ r.finish = finish /\ r.hasUsage = has /\ r.input = input /\ r.output = output
      /\ r.read = read /\ r.created = created
  BY <1>2
<1>4. [r EXCEPT !.messages = m] = Result(id, finish, has, input, output, read, created, m)
  BY <1>2 DEF Result
<1>. QED
  BY <1>3, <1>4, Zenon

\* The parts of a result.
LEMMA ResultParts ==
    ASSUME NEW id, NEW finish, NEW has, NEW input, NEW output, NEW read, NEW created, NEW messages,
           NEW r, r = Result(id, finish, has, input, output, read, created, messages)
    PROVE  /\ IsResult(r)
           /\ r.id = id /\ r.finish = finish /\ r.hasUsage = has /\ r.input = input
           /\ r.output = output /\ r.read = read /\ r.created = created /\ r.messages = messages
BY DEF IsResult, Result

\* A result with the counts of its usage set.
LEMMA ResultCounted ==
    ASSUME NEW r, IsResult(r), NEW i, NEW o, NEW c
    PROVE  Counted(r, i, o, c) = Result(r.id, r.finish, TRUE, i, o, c, r.created, r.messages)
<1>1. PICK x : x = [r EXCEPT !.hasUsage = TRUE]
  OBVIOUS
<1>2. PICK y : y = [x EXCEPT !.input = i]
  OBVIOUS
<1>3. PICK z : z = [y EXCEPT !.output = o]
  OBVIOUS
<1>4. Counted(r, i, o, c) = [z EXCEPT !.read = c]
  BY <1>1, <1>2, <1>3, Zenon DEF Counted
<1>5. x = Result(r.id, r.finish, TRUE, r.input, r.output, r.read, r.created, r.messages)
  BY <1>1, ResultSet, Zenon
<1>6. IsResult(x) /\ x.id = r.id /\ x.finish = r.finish /\ x.hasUsage = TRUE /\ x.output = r.output
      /\ x.read = r.read /\ x.created = r.created /\ x.messages = r.messages
  BY <1>5 DEF Result, IsResult
<1>7. y = Result(r.id, r.finish, TRUE, i, r.output, r.read, r.created, r.messages)
  <2>1. y = Result(x.id, x.finish, x.hasUsage, i, x.output, x.read, x.created, x.messages)
    <3>1. IsResult(x)
      BY <1>6
    <3>. QED
      BY <1>2, <3>1, ResultSet, Zenon
  <2>. QED
    BY <1>6, <2>1
<1>8. IsResult(y) /\ y.id = r.id /\ y.finish = r.finish /\ y.hasUsage = TRUE /\ y.input = i
      /\ y.read = r.read /\ y.created = r.created /\ y.messages = r.messages
  BY <1>7 DEF Result, IsResult
<1>9. z = Result(r.id, r.finish, TRUE, i, o, r.read, r.created, r.messages)
  <2>1. z = Result(y.id, y.finish, y.hasUsage, y.input, o, y.read, y.created, y.messages)
    <3>1. IsResult(y)
      BY <1>8
    <3>. QED
      BY <1>3, <3>1, ResultSet, Zenon
  <2>. QED
    BY <1>8, <2>1
<1>10. IsResult(z) /\ z.id = r.id /\ z.finish = r.finish /\ z.hasUsage = TRUE /\ z.input = i
      /\ z.output = o /\ z.created = r.created /\ z.messages = r.messages
  BY <1>9 DEF Result, IsResult
<1>11. [z EXCEPT !.read = c]
       = Result(z.id, z.finish, z.hasUsage, z.input, z.output, c, z.created, z.messages)
  <2>1. IsResult(z)
    BY <1>10
  <2>. QED
    BY <2>1, ResultSet, Zenon
<1>. QED
  BY <1>4, <1>10, <1>11

\* A result without its counts of the input.
LEMMA ResultBare ==
    ASSUME NEW r, IsResult(r)
    PROVE  [r EXCEPT !.input = 0, !.read = 0, !.created = 0]
           = Result(r.id, r.finish, r.hasUsage, 0, r.output, 0, 0, r.messages)
<1>1. PICK x : x = [r EXCEPT !.input = 0]
  OBVIOUS
<1>2. PICK y : y = [x EXCEPT !.read = 0]
  OBVIOUS
<1>3. [r EXCEPT !.input = 0, !.read = 0, !.created = 0] = [y EXCEPT !.created = 0]
  BY <1>1, <1>2, Zenon
<1>4. x = Result(r.id, r.finish, r.hasUsage, 0, r.output, r.read, r.created, r.messages)
  BY <1>1, ResultSet, Zenon
<1>5. /\ IsResult(x) /\ x.id = r.id /\ x.finish = r.finish /\ x.hasUsage = r.hasUsage
      /\ x.input = 0 /\ x.output = r.output /\ x.created = r.created /\ x.messages = r.messages
  BY <1>4 DEF Result, IsResult
<1>6. y = Result(x.id, x.finish, x.hasUsage, x.input, x.output, 0, x.created, x.messages)
  BY <1>2, <1>5, ResultSet, Zenon
<1>7. /\ IsResult(y) /\ y.id = r.id /\ y.finish = r.finish /\ y.hasUsage = r.hasUsage
      /\ y.input = 0 /\ y.output = r.output /\ y.read = 0 /\ y.messages = r.messages
  BY <1>5, <1>6 DEF Result, IsResult
<1>8. [y EXCEPT !.created = 0]
      = Result(y.id, y.finish, y.hasUsage, y.input, y.output, y.read, 0, y.messages)
  BY <1>7, ResultSet, Zenon
<1>. QED
  BY <1>3, <1>7, <1>8

\* The result that parsing begins with.
LEMMA BlankIs ==
    /\ Blank = Result(NULL, <<>>, FALSE, 0, 0, 0, 0, <<>>)
    /\ IsResult(Blank) /\ Blank.id = NULL /\ Blank.finish = <<>> /\ Blank.hasUsage = FALSE
    /\ Blank.input = 0 /\ Blank.output = 0 /\ Blank.read = 0 /\ Blank.created = 0
    /\ Blank.messages = <<>>
BY DEF Blank, Result, IsResult

\* The reason to finish, once.
LEMMA Stops ==
    /\ \A finish : AddFinish(finish, NULL) = finish
    /\ AddFinish(<<>>, "stop") = <<"stop">> /\ AddFinish(<<"stop">>, "stop") = <<"stop">>
<1>1. NULL # "stop"
  BY NullIsAbsent
<1>2. ToSet(<<>>) = {} /\ ToSet(<<"stop">>) = {"stop"}
  BY DEF ToSet
<1>3. Append(<<>>, "stop") = <<"stop">>
  OBVIOUS
<1>. QED
  BY <1>1, <1>2, <1>3 DEF AddFinish

\* The id stays that of the reply.
LEMMA IdsAre ==
    /\ TakeId(NULL, ReplyId) = ReplyId /\ TakeId(ReplyId, ReplyId) = ReplyId
    /\ TakeId(NULL, NULL) = NULL /\ TakeId(ReplyId, NULL) = ReplyId
BY NullIsAbsent DEF TakeId, ReplyId

------------------------------------------------------------------------------
(* What the anthropic parser makes of a chunk *)

\* The counts of a report.
Report(input, read, created, output) ==
    [input |-> input, read |-> read, created |-> created, output |-> output]

\* u reports these counts.
ReportOf(u, i, c, w, o) ==
    i \in Nat /\ c \in Nat /\ w \in Nat /\ o \in Nat /\ u = Report(i, c, w, o)

\* A report that has all counts overwrites them.
LEMMA AnthropicReports ==
    ASSUME NEW r, IsResult(r), NEW u, NEW i, NEW c, NEW w, NEW o, ReportOf(u, i, c, w, o)
    PROVE  ApplyAnthropicUsage(r, u)
           = Result(r.id, r.finish, TRUE, i + c + w, o, c, w, r.messages)
<1>0. i \in Nat /\ c \in Nat /\ w \in Nat /\ o \in Nat /\ u = Report(i, c, w, o)
  BY DEF ReportOf
<1>1. NULL \notin Nat /\ NULL # u
  <2>1. u \in [input : Nat \cup {NULL}, read : Nat \cup {NULL}, created : Nat \cup {NULL},
               output : Nat]
    BY <1>0 DEF Report
  <2>. QED
    BY <2>1, NullIsAbsent DEF UsageObjects
<1>2. /\ Number(u.input) = i /\ Number(u.read) = c /\ Number(u.created) = w
      /\ u.output = o /\ u.output # NULL /\ u # NULL
  BY <1>0, <1>1 DEF Report, Number
<1>3. PICK q : q = Counted(r, i + c + w, o, c)
  OBVIOUS
<1>4. ApplyAnthropicUsage(r, u) = [q EXCEPT !.created = w]
  BY <1>2, <1>3, Zenon DEF ApplyAnthropicUsage
<1>5. q = Result(r.id, r.finish, TRUE, i + c + w, o, c, r.created, r.messages)
  BY <1>3, ResultCounted, Zenon
<1>6. /\ IsResult(q) /\ q.id = r.id /\ q.finish = r.finish /\ q.hasUsage = TRUE
      /\ q.input = i + c + w /\ q.output = o /\ q.read = c /\ q.messages = r.messages
  BY <1>5 DEF Result, IsResult
<1>7. [q EXCEPT !.created = w]
      = Result(q.id, q.finish, q.hasUsage, q.input, q.output, q.read, w, q.messages)
  <2>1. IsResult(q)
    BY <1>6
  <2>. QED
    BY <2>1, ResultSet, Zenon
<1>. QED
  BY <1>4, <1>6, <1>7

\* One of the output alone clears the others.
LEMMA BareReport ==
    ASSUME NEW r, IsResult(r), NEW o \in Nat, NEW v, v = Report(NULL, NULL, NULL, o)
    PROVE  ApplyAnthropicUsage(r, v) = Result(r.id, r.finish, TRUE, 0, o, 0, 0, r.messages)
<1>1. NULL \notin Nat /\ NULL # v
  <2>1. v \in [input : Nat \cup {NULL}, read : Nat \cup {NULL}, created : Nat \cup {NULL},
               output : Nat]
    BY DEF Report
  <2>. QED
    BY <2>1, NullIsAbsent DEF UsageObjects
<1>2. /\ Number(v.input) = 0 /\ Number(v.read) = 0 /\ Number(v.created) = 0
      /\ v.output = o /\ v.output # NULL /\ v # NULL
  BY <1>1 DEF Report, Number
<1>3. PICK p : p = Counted(r, 0, o, 0)
  OBVIOUS
<1>4. ApplyAnthropicUsage(r, v) = [p EXCEPT !.created = 0]
  <2>1. 0 + 0 + 0 = 0
    OBVIOUS
  <2>. QED
    BY <1>2, <1>3, <2>1, Zenon DEF ApplyAnthropicUsage
<1>5. p = Result(r.id, r.finish, TRUE, 0, o, 0, r.created, r.messages)
  BY <1>3, ResultCounted, Zenon
<1>6. /\ IsResult(p) /\ p.id = r.id /\ p.finish = r.finish /\ p.hasUsage = TRUE
      /\ p.input = 0 /\ p.output = o /\ p.read = 0 /\ p.messages = r.messages
  BY <1>5 DEF Result, IsResult
<1>7. [p EXCEPT !.created = 0]
      = Result(p.id, p.finish, p.hasUsage, p.input, p.output, p.read, 0, p.messages)
  <2>1. IsResult(p)
    BY <1>6
  <2>. QED
    BY <2>1, ResultSet, Zenon
<1>. QED
  BY <1>4, <1>6, <1>7

\* What a chunk of each type changes: the first one of a reply,
LEMMA AnthropicStarts ==
    ASSUME NEW a, NEW c, c.type = "message_start"
    PROVE  AnthropicChunk(a, c) =
             [result |-> ApplyAnthropicUsage([a.result EXCEPT !.id = c.id], c.usage),
              blocks |-> a.blocks]
BY Zenon DEF AnthropicChunk

\* one that begins a block,
LEMMA AnthropicOpens ==
    ASSUME NEW a, NEW c, c.type = "content_block_start"
    PROVE  AnthropicChunk(a, c) =
             [result |-> a.result,
              blocks |-> Put(a.blocks, c.index, Block(c.kind, c.call, c.body))]
BY Zenon DEF AnthropicChunk

\* one that goes on with a block,
LEMMA AnthropicGoesOn ==
    ASSUME NEW a, NEW c, c.type = "content_block_delta", c.index \in DOMAIN a.blocks
    PROVE  AnthropicChunk(a, c) =
             [result |-> a.result,
              blocks |-> Put(a.blocks, c.index, Extended(a.blocks[c.index], c.kind, c.body))]
BY Zenon DEF AnthropicChunk

\* and the last one.
LEMMA AnthropicReasons ==
    ASSUME NEW a, NEW c, c.type = "message_delta"
    PROVE  AnthropicChunk(a, c) =
             [result |-> ApplyAnthropicUsage(
                           [a.result EXCEPT !.finish = AddFinish(a.result.finish, c.finish)],
                           c.usage),
              blocks |-> a.blocks]
BY Zenon DEF AnthropicChunk

\* The block that holds a body.
SentBlock(kind, call, body) ==
    [kind |-> kind, call |-> call,
     body |-> CASE kind = "text"     -> body
                [] kind = "thinking" -> Redacted(body)
                [] kind = "call"     -> <<>>,
     partial |-> IF kind = "call" THEN body ELSE <<>>]

\* The length of two bodies is that of one.
LEMMA RedactedConcat ==
    ASSUME NEW T, "." \in T, NEW b \in Seq(T), NEW p \in Seq(T)
    PROVE  /\ Redacted(b) \in Seq(T) /\ Redacted(<<>>) = <<>>
           /\ Redacted(b \o p) = Redacted(b) \o Redacted(p)
<1>1. /\ Len(b) \in Nat /\ DOMAIN b = 1 .. Len(b) /\ Len(p) \in Nat /\ DOMAIN p = 1 .. Len(p)
      /\ b \o p \in Seq(T) /\ Len(b \o p) = Len(b) + Len(p)
  BY LenProperties, ConcatProperties
<1>2. DOMAIN (b \o p) = 1 .. Len(b) + Len(p)
  BY <1>1, LenProperties
<1>3. \A n \in Nat : [k \in 1 .. n |-> "."] \in Seq(T) /\ Len([k \in 1 .. n |-> "."]) = n
  OBVIOUS
<1>4. Redacted(b) = [k \in 1 .. Len(b) |-> "."] /\ Redacted(p) = [k \in 1 .. Len(p) |-> "."]
  BY <1>1 DEF Redacted
<1>5. Redacted(b \o p) = [k \in 1 .. Len(b) + Len(p) |-> "."]
  BY <1>2 DEF Redacted
<1>6. PICK x, y, z : x = Redacted(b) /\ y = Redacted(p) /\ z = Redacted(b \o p)
  OBVIOUS
<1>7. /\ x \in Seq(T) /\ Len(x) = Len(b) /\ y \in Seq(T) /\ Len(y) = Len(p)
      /\ z \in Seq(T) /\ Len(z) = Len(b) + Len(p)
  <2>1. Len(b) + Len(p) \in Nat
    BY <1>1
  <2>. QED
    BY <1>1, <1>3, <1>4, <1>5, <1>6, <2>1
<1>8. /\ \A k \in 1 .. Len(b) : x[k] = "."
      /\ \A k \in 1 .. Len(p) : y[k] = "."
      /\ \A k \in 1 .. Len(b) + Len(p) : z[k] = "."
  BY <1>4, <1>5, <1>6
<1>9. /\ x \o y \in Seq(T) /\ Len(x \o y) = Len(x) + Len(y)
      /\ \A i \in 1 .. Len(x) + Len(y) : (x \o y)[i] = IF i <= Len(x) THEN x[i] ELSE y[i - Len(x)]
  <2>1. x \in Seq(T) /\ y \in Seq(T)
    BY <1>7
  <2>. QED
    BY <2>1, ConcatProperties, Zenon
<1>10. ASSUME NEW i \in 1 .. Len(z) PROVE z[i] = (x \o y)[i]
  <2>1. i \in 1 .. Len(b) + Len(p) /\ i \in 1 .. Len(x) + Len(y)
    BY <1>7
  <2>2. z[i] = "."
    BY <1>8, <2>1
  <2>3. CASE i <= Len(x)
    <3>1. i \in 1 .. Len(b)
      BY <1>1, <1>7, <2>1, <2>3
    <3>2. (x \o y)[i] = x[i]
      BY <1>9, <2>1, <2>3
    <3>. QED
      BY <1>8, <2>2, <3>1, <3>2
  <2>4. CASE ~ (i <= Len(x))
    <3>1. i - Len(x) \in 1 .. Len(p)
      BY <1>1, <1>7, <2>1, <2>4
    <3>2. (x \o y)[i] = y[i - Len(x)]
      BY <1>9, <2>1, <2>4
    <3>. QED
      BY <1>8, <2>2, <3>1, <3>2
  <2>. QED
    BY <2>3, <2>4
<1>11. z = x \o y
  BY <1>7, <1>9, <1>10, SeqEqual
<1>12. Redacted(<<>>) = <<>>
  BY DEF Redacted
<1>. QED
  BY <1>6, <1>7, <1>11, <1>12

\* A block begins empty, and grows with each delta.
LEMMA BlockGrows ==
    ASSUME NEW T, "." \in T, NEW kind \in Kinds, NEW call, NEW b \in Seq(T), NEW p \in Seq(T)
    PROVE  /\ Block(kind, call, <<>>) = SentBlock(kind, call, <<>>)
           /\ Extended(SentBlock(kind, call, b), kind, p) = SentBlock(kind, call, b \o p)
<1>1. Redacted(<<>>) = <<>> /\ Redacted(b \o p) = Redacted(b) \o Redacted(p)
  BY RedactedConcat
<1>2. kind = "text" \/ kind = "thinking" \/ kind = "call"
  BY DEF Kinds
<1>3. Block(kind, call, <<>>) = SentBlock(kind, call, <<>>)
  BY <1>1, <1>2 DEF Block, SentBlock
<1>4. PICK block : block = SentBlock(kind, call, b)
  OBVIOUS
<1>5. CASE kind = "text"
  <2>1. block \in [kind : {kind}, call : {call}, body : {b}, partial : {<<>>}] /\ block.body = b
    BY <1>4, <1>5 DEF SentBlock
  <2>2. PICK x : x = b \o p
    OBVIOUS
  <2>3. [block EXCEPT !.body = x] = SentBlock(kind, call, x)
    BY <1>5, <2>1 DEF SentBlock
  <2>4. Extended(block, kind, p) = [block EXCEPT !.body = x]
    BY <1>5, <2>1, <2>2, Zenon DEF Extended
  <2>. QED
    BY <1>3, <1>4, <2>2, <2>3, <2>4, Zenon
<1>6. CASE kind = "thinking"
  <2>1. /\ block \in [kind : {kind}, call : {call}, body : {Redacted(b)}, partial : {<<>>}]
        /\ block.body = Redacted(b)
    BY <1>4, <1>6 DEF SentBlock
  <2>2. PICK x : x = Redacted(b) \o Redacted(p)
    OBVIOUS
  <2>3. [block EXCEPT !.body = x] = [kind |-> kind, call |-> call, body |-> x, partial |-> <<>>]
    BY <2>1
  <2>4. Extended(block, kind, p) = [block EXCEPT !.body = x]
    BY <1>6, <2>1, <2>2, Zenon DEF Extended
  <2>5. SentBlock(kind, call, b \o p) = [kind |-> kind, call |-> call, body |-> x, partial |-> <<>>]
    BY <1>1, <1>6, <2>2 DEF SentBlock
  <2>. QED
    BY <1>3, <1>4, <2>3, <2>4, <2>5, Zenon
<1>7. CASE kind = "call"
  <2>1. block \in [kind : {kind}, call : {call}, body : {<<>>}, partial : {b}] /\ block.partial = b
    BY <1>4, <1>7 DEF SentBlock
  <2>2. PICK x : x = b \o p
    OBVIOUS
  <2>3. [block EXCEPT !.partial = x] = SentBlock(kind, call, x)
    BY <1>7, <2>1 DEF SentBlock
  <2>4. Extended(block, kind, p) = [block EXCEPT !.partial = x]
    BY <1>7, <2>1, <2>2, Zenon DEF Extended
  <2>. QED
    BY <1>3, <1>4, <2>2, <2>3, <2>4, Zenon
<1>. QED
  BY <1>2, <1>5, <1>6, <1>7

\* The body of a part that has a body.
Shown(kind, body) == IF kind = "thinking" THEN Redacted(body) ELSE body

\* The part that a block of a stream becomes, and one that came whole.
LEMMA BlockFinished ==
    ASSUME NEW kind \in Kinds, NEW call, NEW body
    PROVE  /\ Finished(SentBlock(kind, call, body)) =
                Part(kind, NULL, call, Shown(kind, body),
                     IF kind = "call" /\ body # <<>> /\ ~ ParsesAsJSON(body) THEN "raw" ELSE "json")
           /\ Finished(Block(kind, call, body)) = Part(kind, NULL, call, Shown(kind, body), "json")
<1>1. kind = "text" \/ kind = "thinking" \/ kind = "call"
  BY DEF Kinds
<1>2. Finished(Block(kind, call, body)) = Part(kind, NULL, call, Shown(kind, body), "json")
  BY DEF Finished, Block, Shown
<1>3. CASE kind # "call"
  BY <1>1, <1>2, <1>3 DEF Finished, SentBlock, Shown
<1>4. CASE kind = "call"
  <2>1. CASE body = <<>>
    BY <1>2, <1>4, <2>1 DEF Finished, SentBlock, Shown
  <2>2. CASE body # <<>>
    BY <1>2, <1>4, <2>2 DEF Finished, SentBlock, Shown
  <2>. QED
    BY <2>1, <2>2
<1>. QED
  BY <1>3, <1>4

\* g is f with a value for x.
PutsTo(f, x, v, g) ==
    /\ g = [y \in DOMAIN g |-> g[y]]
    /\ DOMAIN g = DOMAIN f \cup {x}
    /\ g[x] = v
    /\ \A y \in DOMAIN f : y # x => g[y] = f[y]

\* Put is the only function that PutsTo describes.
LEMMA PutIs ==
    ASSUME NEW f, NEW x, NEW v, NEW g, PutsTo(f, x, v, g)
    PROVE  Put(f, x, v) = g
<1>1. Put(f, x, v) = [y \in DOMAIN f \cup {x} |-> IF y = x THEN v ELSE f[y]]
  BY DEF Put
<1>2. /\ g = [y \in DOMAIN g |-> g[y]] /\ DOMAIN g = DOMAIN f \cup {x}
      /\ \A y \in DOMAIN f \cup {x} : g[y] = IF y = x THEN v ELSE f[y]
  BY DEF PutsTo
<1>. QED
  BY <1>1, <1>2

\* BlockGrows, for each kind and each piece.
LEMMA BlockExtends ==
    ASSUME NEW T, "." \in T
    PROVE  \A kind \in Kinds : \A b, p \in Seq(T) : \A call :
             Extended(SentBlock(kind, call, b), kind, p) = SentBlock(kind, call, b \o p)
BY BlockGrows

\* The blocks that hold the first i items, the last up to its o-th token.
BlockOf(it) == SentBlock(it.kind, it.call, it.body)

\* The content blocks that the anthropic parser holds at a place of the reply.
SentBlocks(r, i, o) == [j \in 0 .. i - 1 |-> BlockOf(CutAt(r, i, o)[j + 1])]

\* Every block but the last is that of a whole item, the last has what was sent.
LEMMA SentBlocksAt ==
    ASSUME NEW r, NEW i, NEW o, Place(r, i, o), NEW b, b = SentBlocks(r, i, o)
    PROVE  /\ i \in Nat \ {0} /\ DOMAIN b = 0 .. i - 1 /\ b = [j \in DOMAIN b |-> b[j]]
           /\ \A j \in 0 .. i - 1 : j # i - 1 => b[j] = BlockOf(r[j + 1])
           /\ b[i - 1] = SentBlock(r[i].kind, r[i].call, SubSeq(r[i].body, 1, o))
<1>1. i \in 1 .. Len(r) /\ Len(r) \in Nat
  BY ReplyItems DEF Place
<1>2. /\ \A k \in 1 .. i : k < i => CutAt(r, i, o)[k] = r[k]
      /\ CutAt(r, i, o)[i] = [kind |-> r[i].kind, call |-> r[i].call, body |-> SubSeq(r[i].body, 1, o)]
  BY CutItems
<1>3. ASSUME NEW j \in 0 .. i - 1, j # i - 1 PROVE b[j] = BlockOf(r[j + 1])
  <2>1. j + 1 \in 1 .. i /\ j + 1 < i
    BY <1>1, <1>3
  <2>2. CutAt(r, i, o)[j + 1] = r[j + 1]
    BY <1>2, <2>1
  <2>. QED
    BY <2>2 DEF SentBlocks
<1>4. b[i - 1] = SentBlock(r[i].kind, r[i].call, SubSeq(r[i].body, 1, o))
  <2>1. i - 1 \in 0 .. i - 1 /\ (i - 1) + 1 = i
    BY <1>1
  <2>2. b[i - 1] = BlockOf(CutAt(r, i, o)[i])
    BY <2>1 DEF SentBlocks
  <2>. QED
    BY <1>2, <2>2 DEF BlockOf
<1>5. DOMAIN b = 0 .. i - 1 /\ b = [j \in DOMAIN b |-> b[j]]
  BY DEF SentBlocks
<1>. QED
  BY <1>1, <1>3, <1>4, <1>5

\* There is none before the first item; the next item begins one.
LEMMA BlocksBegin ==
    ASSUME NEW r, IsReply(r)
    PROVE  /\ \A o : SentBlocks(r, 0, o) = <<>>
           /\ Put(<<>>, 0, Block(r[1].kind, r[1].call, <<>>)) = SentBlocks(r, 1, 0)
           /\ \A i \in 1 .. Len(r) : i < Len(r) =>
                Put(SentBlocks(r, i, Len(r[i].body)), i, Block(r[i + 1].kind, r[i + 1].call, <<>>))
                = SentBlocks(r, i + 1, 0)
<1>0. Len(r) \in Nat \ {0} /\ "." \in Tokens(r)
  <2>1. \A x, X : x \in X \cup {x}
    OBVIOUS
  <2>2. "." \in Tokens(r)
    BY <2>1, Zenon DEF Tokens
  <2>. QED
    BY <2>2, ReplyItems
<1>1. ASSUME NEW k \in 1 .. Len(r)
      PROVE  /\ Place(r, k, 0) /\ Place(r, k, Len(r[k].body))
             /\ SubSeq(r[k].body, 1, 0) = <<>> /\ SubSeq(r[k].body, 1, Len(r[k].body)) = r[k].body
             /\ Block(r[k].kind, r[k].call, <<>>) = SentBlock(r[k].kind, r[k].call, <<>>)
  <2>1. r[k].kind \in Kinds /\ r[k].body \in Seq(Tokens(r)) /\ Len(r[k].body) \in Nat \ {0}
    BY ItemIs
  <2>2. 0 \in 0 .. Len(r[k].body) /\ Len(r[k].body) \in 0 .. Len(r[k].body)
    BY <2>1
  <2>3. SubSeq(r[k].body, 1, 0) = <<>> /\ SubSeq(r[k].body, 1, Len(r[k].body)) = r[k].body
    BY <2>1, <2>2, BodyUpTo
  <2>4. Block(r[k].kind, r[k].call, <<>>) = SentBlock(r[k].kind, r[k].call, <<>>)
    BY <1>0, <2>1, BlockGrows, EmptySeq
  <2>. QED
    BY <1>1, <2>2, <2>3, <2>4 DEF Place
<1>2. ASSUME NEW o PROVE SentBlocks(r, 0, o) = <<>>
  BY DEF SentBlocks
<1>3. Put(<<>>, 0, Block(r[1].kind, r[1].call, <<>>)) = SentBlocks(r, 1, 0)
  <2>0. PICK g : g = SentBlocks(r, 1, 0)
    OBVIOUS
  <2>1. 1 \in 1 .. Len(r)
    BY <1>0
  <2>2. Place(r, 1, 0) /\ SubSeq(r[1].body, 1, 0) = <<>>
    BY <1>1, <2>1
  <2>3. DOMAIN g = 0 .. 1 - 1 /\ g = [j \in DOMAIN g |-> g[j]]
    <3>1. PICK k : k = 1
      OBVIOUS
    <3>2. Place(r, k, 0) /\ g = SentBlocks(r, k, 0)
      BY <2>0, <2>2, <3>1
    <3>3. DOMAIN g = 0 .. k - 1 /\ g = [j \in DOMAIN g |-> g[j]]
      BY <3>2, SentBlocksAt
    <3>. QED
      BY <3>1, <3>3
  <2>4. g[1 - 1] = SentBlock(r[1].kind, r[1].call, SubSeq(r[1].body, 1, 0))
    BY <2>0, <2>2, SentBlocksAt
  <2>5. g[0] = Block(r[1].kind, r[1].call, <<>>)
    <3>1. 1 - 1 = 0 /\ g[1 - 1] = g[0]
      OBVIOUS
    <3>2. Block(r[1].kind, r[1].call, <<>>) = SentBlock(r[1].kind, r[1].call, <<>>)
      BY <1>1, <2>1
    <3>. QED
      BY <2>2, <2>4, <3>1, <3>2, Zenon
  <2>6. DOMAIN g = DOMAIN <<>> \cup {0} /\ \A y \in DOMAIN <<>> : y # 0 => g[y] = <<>>[y]
    BY <2>3
  <2>. QED
    <3>1. PutsTo(<<>>, 0, Block(r[1].kind, r[1].call, <<>>), g)
      BY <2>3, <2>5, <2>6, Zenon DEF PutsTo
    <3>. QED
      BY <2>0, <3>1, PutIs, Zenon
<1>4. ASSUME NEW i \in 1 .. Len(r), i < Len(r)
      PROVE  Put(SentBlocks(r, i, Len(r[i].body)), i, Block(r[i + 1].kind, r[i + 1].call, <<>>))
             = SentBlocks(r, i + 1, 0)
  <2>0. PICK f, g : f = SentBlocks(r, i, Len(r[i].body)) /\ g = SentBlocks(r, i + 1, 0)
    OBVIOUS
  <2>1. PICK k : k = i + 1
    OBVIOUS
  <2>2. k \in 1 .. Len(r) /\ k - 1 = i /\ i \in Nat \ {0}
    BY <1>0, <1>4, <2>1
  <2>3. Place(r, k, 0) /\ Place(r, i, Len(r[i].body))
    BY <1>1, <2>2
  <2>4. /\ DOMAIN g = 0 .. k - 1 /\ g = [j \in DOMAIN g |-> g[j]]
        /\ \A j \in 0 .. k - 1 : j # k - 1 => g[j] = BlockOf(r[j + 1])
        /\ g[k - 1] = SentBlock(r[k].kind, r[k].call, SubSeq(r[k].body, 1, 0))
    BY <2>0, <2>1, <2>3, SentBlocksAt
  <2>5. /\ DOMAIN f = 0 .. i - 1
        /\ \A j \in 0 .. i - 1 : j # i - 1 => f[j] = BlockOf(r[j + 1])
        /\ f[i - 1] = SentBlock(r[i].kind, r[i].call, SubSeq(r[i].body, 1, Len(r[i].body)))
    BY <2>0, <2>3, SentBlocksAt
  <2>6. g[i] = Block(r[k].kind, r[k].call, <<>>)
    BY <1>1, <2>2, <2>4
  <2>7. DOMAIN g = DOMAIN f \cup {i}
    BY <2>2, <2>4, <2>5
  <2>8. ASSUME NEW y \in DOMAIN f, y # i PROVE g[y] = f[y]
    <3>1. y \in 0 .. k - 1 /\ y # k - 1 /\ y \in 0 .. i - 1
      BY <2>2, <2>5, <2>8
    <3>2. g[y] = BlockOf(r[y + 1])
      BY <2>4, <3>1
    <3>3. CASE y # i - 1
      BY <2>5, <3>1, <3>2, <3>3
    <3>4. CASE y = i - 1
      <4>1. y + 1 = i
        BY <2>2, <3>4
      <4>2. f[y] = BlockOf(r[i])
        BY <1>1, <1>4, <2>5, <3>4 DEF BlockOf
      <4>. QED
        BY <3>2, <4>1, <4>2
    <3>. QED
      BY <3>3, <3>4
  <2>9. g = [j \in DOMAIN g |-> g[j]]
    BY <2>4
  <2>10. Put(f, i, Block(r[k].kind, r[k].call, <<>>)) = g
    <3>1. PutsTo(f, i, Block(r[k].kind, r[k].call, <<>>), g)
      BY <2>6, <2>7, <2>8, <2>9, Zenon DEF PutsTo
    <3>. QED
      BY <3>1, PutIs, Zenon
  <2>. QED
    BY <2>0, <2>1, <2>10
<1>. QED
  BY <1>2, <1>3, <1>4

\* A piece of the last item goes to its block.
LEMMA BlocksGrow ==
    ASSUME NEW r, NEW i, NEW o, Place(r, i, o), NEW n \in Nat \ {0}, Place(r, i, o + n),
           NEW f, f = SentBlocks(r, i, o)
    PROVE  /\ i - 1 \in DOMAIN f
           /\ Put(f, i - 1, Extended(f[i - 1], r[i].kind, SubSeq(r[i].body, o + 1, o + n)))
              = SentBlocks(r, i, o + n)
<1>16. PICK g, p : g = SentBlocks(r, i, o + n) /\ p = SubSeq(r[i].body, o + 1, o + n)
  OBVIOUS
<1>0. i \in 1 .. Len(r) /\ Len(r) \in Nat /\ IsReply(r) /\ "." \in Tokens(r)
  <2>1. \A x, X : x \in X \cup {x}
    OBVIOUS
  <2>2. "." \in Tokens(r)
    BY <2>1, Zenon DEF Tokens
  <2>. QED
    BY <2>2, ReplyItems DEF Place
<1>1. r[i].kind \in Kinds /\ r[i].body \in Seq(Tokens(r)) /\ Len(r[i].body) \in Nat \ {0}
  BY <1>0, ItemIs
<1>2. o \in 0 .. Len(r[i].body) /\ o + n \in 0 .. Len(r[i].body)
  BY DEF Place
<1>3. o \in Nat /\ o + n <= Len(r[i].body)
  BY <1>1, <1>2
<1>4. /\ SubSeq(r[i].body, 1, o) \in Seq(Tokens(r)) /\ p \in Seq(Tokens(r))
      /\ SubSeq(r[i].body, 1, o + n) = SubSeq(r[i].body, 1, o) \o p
  BY <1>16, <1>1, <1>2, <1>3, BodyUpTo, BodyGrows
<1>5. Extended(SentBlock(r[i].kind, r[i].call, SubSeq(r[i].body, 1, o)), r[i].kind, p)
      = SentBlock(r[i].kind, r[i].call, SubSeq(r[i].body, 1, o + n))
  <2>1. Extended(SentBlock(r[i].kind, r[i].call, SubSeq(r[i].body, 1, o)), r[i].kind, p)
        = SentBlock(r[i].kind, r[i].call, SubSeq(r[i].body, 1, o) \o p)
    <3>1. PICK T, b : T = Tokens(r) /\ b = SubSeq(r[i].body, 1, o)
      OBVIOUS
    <3>2. "." \in T /\ r[i].kind \in Kinds /\ b \in Seq(T) /\ p \in Seq(T)
      BY <1>0, <1>1, <1>4, <3>1
    <3>3. PICK kind, call : kind = r[i].kind /\ call = r[i].call
      OBVIOUS
    <3>4. kind \in Kinds
      BY <3>2, <3>3
    <3>5. Extended(SentBlock(kind, call, b), kind, p) = SentBlock(kind, call, b \o p)
      BY <3>2, <3>4, BlockExtends
    <3>. QED
      BY <3>1, <3>3, <3>5
  <2>. QED
    BY <1>4, <2>1
<1>6. /\ DOMAIN f = 0 .. i - 1
      /\ \A j \in 0 .. i - 1 : j # i - 1 => f[j] = BlockOf(r[j + 1])
      /\ f[i - 1] = SentBlock(r[i].kind, r[i].call, SubSeq(r[i].body, 1, o))
  BY SentBlocksAt
<1>7. /\ DOMAIN g = 0 .. i - 1 /\ g = [j \in DOMAIN g |-> g[j]]
      /\ \A j \in 0 .. i - 1 : j # i - 1 => g[j] = BlockOf(r[j + 1])
      /\ g[i - 1] = SentBlock(r[i].kind, r[i].call, SubSeq(r[i].body, 1, o + n))
  BY <1>16, SentBlocksAt
<1>8. i - 1 \in DOMAIN f
  BY <1>0, <1>6
<1>9. g[i - 1] = Extended(f[i - 1], r[i].kind, p)
  BY <1>5, <1>6, <1>7
<1>10. DOMAIN g = DOMAIN f \cup {i - 1} /\ \A y \in DOMAIN f : y # i - 1 => g[y] = f[y]
  BY <1>6, <1>7, <1>8
<1>11. g = [j \in DOMAIN g |-> g[j]]
  BY <1>7
<1>12. Put(f, i - 1, Extended(f[i - 1], r[i].kind, p)) = g
  <2>1. PutsTo(f, i - 1, Extended(f[i - 1], r[i].kind, p), g)
    BY <1>9, <1>10, <1>11, Zenon DEF PutsTo
  <2>. QED
    BY <2>1, PutIs, Zenon
<1>. QED
  BY <1>16, <1>8, <1>12

\* The blocks in their order.
LEMMA BlocksOrdered ==
    ASSUME NEW n \in Nat, NEW b, DOMAIN b = 0 .. n - 1
    PROVE  OrderedBlocks(b) = [k \in 1 .. n |-> Finished(b[k - 1])]
<1>. DEFINE e == [k \in 1 .. n |-> k - 1]
<1>1. 0 .. n - 1 \in SUBSET Int /\ Cardinality(0 .. n - 1) = n
  <2>1. 0 \in Int /\ n - 1 \in Int
    OBVIOUS
  <2>2. Cardinality(0 .. n - 1) = IF 0 > n - 1 THEN 0 ELSE (n - 1) - 0 + 1
    BY <2>1, FS_Interval
  <2>. QED
    BY <2>2
<1>2. Lists(e, 0 .. n - 1, n)
  <2>1. e \in [1 .. n -> 0 .. n - 1]
    OBVIOUS
  <2>2. \A i, j \in 1 .. n : i < j => e[i] < e[j]
    OBVIOUS
  <2>3. ASSUME NEW x \in 0 .. n - 1 PROVE \E i \in 1 .. n : e[i] = x
    <3>1. x + 1 \in 1 .. n /\ e[x + 1] = x
      OBVIOUS
    <3>. QED
      BY <3>1
  <2>. QED
    BY <2>1, <2>2, <2>3 DEF Lists
<1>3. Ordered(DOMAIN b) = e
  BY <1>1, <1>2, OrderedIs
<1>4. OrderedBlocks(b) = [k \in DOMAIN e |-> Finished(b[e[k]])]
  BY <1>3, Zenon DEF OrderedBlocks
<1>5. DOMAIN e = 1 .. n /\ \A k \in 1 .. n : e[k] = k - 1
  OBVIOUS
<1>6. [k \in DOMAIN e |-> Finished(b[e[k]])] = [k \in 1 .. n |-> Finished(b[k - 1])]
  BY <1>5, Zenon
<1>. QED
  BY <1>4, <1>6

------------------------------------------------------------------------------
(* How far a reply is sent *)

\* How far the reply is sent, which only the responses API may end early.
PlaceInv ==
    /\ vendor \in Vendors /\ IsReply(reply)
    /\ counts \in [{"fresh", "read", "created", "thought"} -> Nat]
    /\ item \in 0 .. Len(reply)
    /\ offset \in 0 .. IF item = 0 THEN 0 ELSE Len(reply[item].body)
    /\ phase \in {"items", "end", "bare", "incomplete"}
    /\ phase # "items" => item > 0
    /\ phase \in {"end", "bare"} => item = Len(reply) /\ AtEnd
    /\ phase = "bare" => vendor = "anthropic"
    /\ phase = "incomplete" => vendor = "responses"

\* What a place is, once the reply has begun.
LEMMA PlaceIs ==
    ASSUME PlaceInv
    PROVE  /\ vendor \in Four /\ IsReply(reply) /\ item \in Nat /\ Len(reply) \in Nat \ {0}
           /\ item # 0 => /\ Place(reply, item, offset) /\ item \in 1 .. Len(reply)
                          /\ offset \in 0 .. Len(reply[item].body)
                          /\ Len(reply[item].body) \in Nat \ {0}
           /\ item = 0 => offset = 0 /\ phase = "items"
<1>1. IsReply(reply) /\ vendor \in Four
  BY VendorsAreKnown DEF PlaceInv, Four
<1>2. Len(reply) \in Nat \ {0}
  BY <1>1, ReplyItems
<1>3. item \in 0 .. Len(reply)
  BY DEF PlaceInv
<1>4. offset \in 0 .. IF item = 0 THEN 0 ELSE Len(reply[item].body)
  BY DEF PlaceInv
<1>5. ASSUME item # 0
      PROVE  /\ Place(reply, item, offset) /\ item \in 1 .. Len(reply)
             /\ offset \in 0 .. Len(reply[item].body)
             /\ Len(reply[item].body) \in Nat \ {0}
  <2>1. item \in 1 .. Len(reply)
    BY <1>2, <1>3, <1>5
  <2>2. offset \in 0 .. Len(reply[item].body)
    BY <1>4, <1>5
  <2>3. Len(reply[item].body) \in Nat \ {0}
    BY <1>1, <2>1, ItemIs
  <2>. QED
    BY <1>1, <2>1, <2>2, <2>3 DEF Place
<1>6. ASSUME item = 0 PROVE offset = 0 /\ phase = "items"
  <2>1. offset \in 0 .. 0
    BY <1>4, <1>6
  <2>2. (phase # "items") => item > 0
    BY DEF PlaceInv
  <2>. QED
    BY <1>6, <2>1, <2>2
<1>. QED
  BY <1>1, <1>2, <1>3, <1>5, <1>6

\* What a reply has cost up to its place is counted in numbers.
LEMMA CountsAre ==
    ASSUME PlaceInv
    PROVE  /\ counts.fresh \in Nat /\ counts.read \in Nat /\ counts.created \in Nat
           /\ counts.thought \in Nat /\ Input \in Nat
           /\ item # 0 => Sent \in Nat /\ Output \in Nat
<1>1. counts \in [{"fresh", "read", "created", "thought"} -> Nat]
  BY DEF PlaceInv
<1>2. /\ counts.fresh \in Nat /\ counts.read \in Nat /\ counts.created \in Nat
      /\ counts.thought \in Nat
  BY <1>1
<1>3. Input \in Nat
  BY <1>2 DEF Input
<1>4. ASSUME item # 0 PROVE Sent \in Nat
  <2>1. IsReply(reply) /\ item \in 1 .. Len(reply) /\ offset \in Nat /\ Len(reply) \in Nat
    <3>1. offset \in 0 .. Len(reply[item].body) /\ Len(reply[item].body) \in Nat
      BY <1>4, PlaceIs
    <3>. QED
      BY <1>4, <3>1, PlaceIs
  <2>2. PICK n, s : n = item - 1 /\ s = SubSeq(reply, 1, item - 1)
    OBVIOUS
  <2>3. n \in 0 .. Len(reply) /\ n \in Nat
    BY <2>1, <2>2
  <2>4. reply \in Seq(ToSet(reply))
    BY <2>1 DEF IsReply
  <2>5. DOMAIN s = 1 .. n /\ \A k \in 1 .. n : s[k] = reply[k]
    <3>1. s \in Seq(ToSet(reply)) /\ Len(s) = n
      BY <2>2, <2>3, <2>4, BodyUpTo
    <3>2. \A k \in 1 .. n : s[k] = reply[k]
      BY <2>2, <2>3, <2>4, BodyUpTo
    <3>. QED
      BY <3>1, <3>2, LenProperties
  <2>6. PICK h : Runs("AddLength", h, offset, s, n)
    BY <2>3, RunExists
  <2>7. h[0] = offset
    BY <2>6 DEF Runs
  <2>. DEFINE C == {k \in 0 .. n : h[k] \in Nat}
  <2>8. 0 \in C
    BY <2>1, <2>3, <2>7
  <2>9. ASSUME NEW k \in 0 .. n - 1, k \in C PROVE k + 1 \in C
    <3>1. k + 1 \in 1 .. n /\ k + 1 \in 1 .. Len(reply)
      BY <2>3
    <3>2. PICK i : i = k + 1
      OBVIOUS
    <3>3. h[i] = Step("AddLength", h[k], s[i])
      BY <2>6, <3>2 DEF Runs
    <3>4. h[i] = h[k] + Len(s[i].body)
      BY <3>3 DEF Step, AddLength
    <3>5. Len(s[i].body) \in Nat
      BY <2>1, <2>5, <3>1, <3>2, ItemIs
    <3>. QED
      BY <2>9, <3>1, <3>2, <3>4, <3>5
  <2>10. C = 0 .. n
    <3>1. C \in SUBSET (0 .. n)
      OBVIOUS
    <3>. HIDE DEF C
    <3>. QED
      BY <2>3, <2>8, <2>9, <3>1, UpTo
  <2>11. h[n] \in Nat
    BY <2>3, <2>10
  <2>. QED
    BY <2>2, <2>3, <2>5, <2>6, <2>11, FoldAddLength
<1>5. ASSUME item # 0 PROVE Output \in Nat
  BY <1>2, <1>4, <1>5 DEF Output
<1>. QED
  BY <1>2, <1>3, <1>4, <1>5

------------------------------------------------------------------------------
(* The anthropic parser, chunk by chunk *)

\* The lengths of items, added to a number.
Lengths(o, items) == FoldLeft(AddLength, o, items)

\* What a reply costs does not change where its place does not.
LEMMA CountsStay ==
    ASSUME UNCHANGED <<reply, counts, item, offset>>
    PROVE  Input' = Input /\ Sent' = Sent /\ Output' = Output
<1>1. Sent = Lengths(offset, SubSeq(reply, 1, item - 1))
  BY Zenon DEF Sent, Lengths
<1>2. Sent' = Lengths(offset', SubSeq(reply', 1, item' - 1))
  BY Zenon DEF Sent, Lengths
<1>3. Sent' = Sent
  BY <1>1, <1>2
<1>. QED
  BY <1>3 DEF Input, Output

\* A chunk moves the place on, by an item or a piece, or ends the reply.
LEMMA PlaceStep ==
    ASSUME PlaceInv, Next
    PROVE  PlaceInv' /\ UNCHANGED <<vendor, reply, counts>>
<1>0. /\ vendor \in Vendors /\ IsReply(reply)
      /\ counts \in [{"fresh", "read", "created", "thought"} -> Nat]
      /\ item \in 0 .. Len(reply) /\ Len(reply) \in Nat \ {0}
      /\ phase \in {"items", "end", "bare", "incomplete"}
      /\ phase # "items" => item > 0
  BY PlaceIs DEF PlaceInv
<1>1. UNCHANGED <<vendor, reply, counts>>
  BY DEF Next, Start, SendPiece, NextItem, Finish, FinishBare, StopEarly
<1>2. \A i \in 1 .. Len(reply) : Len(reply[i].body) \in Nat \ {0}
  BY <1>0, ItemIs
<1>3. offset \in 0 .. IF item = 0 THEN 0 ELSE Len(reply[item].body)
  BY DEF PlaceInv
<1>4. CASE Start
  <2>1. item' = 1 /\ offset' = 0 /\ phase' = "items" /\ 1 \in 1 .. Len(reply)
    BY <1>0, <1>4 DEF Start
  <2>2. offset' \in 0 .. Len(reply[1].body)
    BY <1>2, <2>1
  <2>. QED
    BY <1>0, <1>1, <2>1, <2>2 DEF PlaceInv
<1>5. CASE SendPiece
  <2>1. PICK n \in 1 .. MaxPiece : offset + n <= Len(reply[item].body) /\ offset' = offset + n
    BY <1>5 DEF SendPiece
  <2>2. item' = item /\ phase' = "items" /\ item # 0
    BY <1>5 DEF SendPiece, AtEnd
  <2>3. offset' \in 0 .. Len(reply[item].body)
    <3>1. Len(reply[item].body) \in Nat /\ offset \in 0 .. Len(reply[item].body)
      BY <1>0, <1>2, <1>3, <2>2
    <3>2. n \in Nat
      BY PiecesAreBounded
    <3>. QED
      BY <2>1, <3>1, <3>2
  <2>. QED
    BY <1>0, <1>1, <2>2, <2>3 DEF PlaceInv
<1>6. CASE NextItem
  <2>1. item' = item + 1 /\ offset' = 0 /\ phase' = "items" /\ item > 0 /\ item < Len(reply)
    BY <1>6 DEF NextItem
  <2>2. item' \in 1 .. Len(reply)
    BY <1>0, <2>1
  <2>3. offset' \in 0 .. Len(reply[item'].body)
    BY <1>2, <2>1, <2>2
  <2>. QED
    BY <1>0, <1>1, <2>1, <2>2, <2>3 DEF PlaceInv
<1>7. CASE Finish
  <2>1. item' = item /\ offset' = offset /\ phase' = "end" /\ item = Len(reply) /\ AtEnd
    BY <1>7 DEF Finish
  <2>2. AtEnd'
    BY <1>1, <2>1 DEF AtEnd
  <2>. QED
    BY <1>0, <1>1, <1>3, <2>1, <2>2 DEF PlaceInv
<1>8. CASE FinishBare
  <2>1. /\ item' = item /\ offset' = offset /\ phase' = "bare" /\ item = Len(reply) /\ AtEnd
        /\ vendor = "anthropic"
    BY <1>8 DEF FinishBare
  <2>2. AtEnd'
    BY <1>1, <2>1 DEF AtEnd
  <2>. QED
    BY <1>0, <1>1, <1>3, <2>1, <2>2 DEF PlaceInv
<1>9. CASE StopEarly
  <2>1. item' = item /\ offset' = offset /\ phase' = "incomplete" /\ item > 0 /\ vendor = "responses"
    BY <1>9 DEF StopEarly
  <2>. QED
    BY <1>0, <1>1, <1>3, <2>1 DEF PlaceInv
<1>10. PlaceInv'
  BY <1>4, <1>5, <1>6, <1>7, <1>8, <1>9 DEF Next
<1>. QED
  BY <1>1, <1>10

\* The result of the anthropic parser, before the last report and after it.
AnthropicResult ==
    IF item = 0 THEN Blank
    ELSE CASE phase = "bare"  -> Result(ReplyId, <<"stop">>, TRUE, 0, Output, 0, 0, <<>>)
           [] phase = "end"   -> Result(ReplyId, <<"stop">>, TRUE, Input, Output, counts.read,
                                        counts.created, <<>>)
           [] phase = "items" -> Result(ReplyId, <<>>, TRUE, Input, 1, counts.read,
                                        counts.created, <<>>)

\* The anthropic parser holds the result and the blocks of what was sent.
AnthropicInv ==
    acc = [result |-> AnthropicResult, blocks |-> SentBlocks(reply, item, offset)]

\* Two chunks, one after the other.
LEMMA Two ==
    ASSUME NEW c, NEW d
    PROVE  <<c>> \o <<d>> = <<c, d>> /\ <<>> \o <<c>> = <<c>> /\ <<c>> \o <<>> = <<c>>
<1>1. <<c>> \in Seq({c, d}) /\ <<d>> \in Seq({c, d}) /\ <<c, d>> \in Seq({c, d})
  OBVIOUS
<1>2. PICK x, y, z : x = <<c>> /\ y = <<d>> /\ z = <<c, d>>
  OBVIOUS
<1>3. /\ Len(x) = 1 /\ Len(y) = 1 /\ Len(z) = 2 /\ x[1] = c /\ y[1] = d /\ z[1] = c /\ z[2] = d
      /\ x \in Seq({c, d}) /\ y \in Seq({c, d}) /\ z \in Seq({c, d})
  BY <1>1, <1>2
<1>4. /\ x \o y \in Seq({c, d}) /\ Len(x \o y) = Len(x) + Len(y)
      /\ \A i \in 1 .. Len(x) + Len(y) : (x \o y)[i] = IF i <= Len(x) THEN x[i] ELSE y[i - Len(x)]
  BY <1>3, ConcatProperties, Zenon
<1>5. (x \o y)[1] = c /\ (x \o y)[2] = d /\ Len(x \o y) = 2
  <2>1. 1 \in 1 .. Len(x) + Len(y) /\ 2 \in 1 .. Len(x) + Len(y) /\ 2 - Len(x) = 1
    BY <1>3
  <2>. QED
    BY <1>3, <1>4, <2>1
<1>6. \A i \in 1 .. Len(z) : z[i] = (x \o y)[i]
  BY <1>3, <1>5
<1>7. z = x \o y
  BY <1>3, <1>4, <1>5, <1>6, SeqEqual
<1>8. <<>> \o x = x /\ x \o <<>> = x
  BY <1>3, ConcatEmptySeq
<1>. QED
  BY <1>2, <1>7, <1>8
\* Send, for the chunks of anthropic: one, or the first two at once.
LEMMA AnthropicSends ==
    ASSUME vendor = "anthropic", NEW c, NEW d
    PROVE  /\ Send(<<c>>) => acc' = AnthropicChunk(acc, c)
           /\ Send(<<c>> \o <<d>>) => acc' = AnthropicChunk(AnthropicChunk(acc, c), d)
<1>1. vendor \in Four
  BY DEF Four
<1>2. <<c>> \o <<d>> = <<c, d>>
  BY Two
<1>3. \A a, b : ReadChunk(vendor, a, b) = AnthropicChunk(a, b)
  BY DEF ReadChunk
<1>4. Send(<<c>>) => acc' = ReadChunk(vendor, acc, c)
  BY <1>1, Sends
<1>5. Send(<<c, d>>) => acc' = ReadChunk(vendor, ReadChunk(vendor, acc, c), d)
  BY <1>1, Sends
<1>6. Send(<<c>>) => acc' = AnthropicChunk(acc, c)
  BY <1>3, <1>4, Zenon
<1>7. Send(<<c>> \o <<d>>) => acc' = AnthropicChunk(AnthropicChunk(acc, c), d)
  <2>1. Send(<<c, d>>) => acc' = AnthropicChunk(AnthropicChunk(acc, c), d)
    BY <1>3, <1>5, Zenon
  <2>. QED
    BY <1>2, <2>1, Zenon
<1>. QED
  BY <1>6, <1>7

\* An empty result, once the reply is named.
LEMMA BlankNamed == [Blank EXCEPT !.id = ReplyId] = Result(ReplyId, <<>>, FALSE, 0, 0, 0, 0, <<>>)
<1>1. PICK x : x = Blank
  OBVIOUS
<1>2. IsResult(x)
  BY <1>1, BlankIs
<1>3. [x EXCEPT !.id = ReplyId]
      = Result(ReplyId, x.finish, x.hasUsage, x.input, x.output, x.read, x.created, x.messages)
  BY <1>2, ResultSet, Zenon
<1>4. Result(ReplyId, x.finish, x.hasUsage, x.input, x.output, x.read, x.created, x.messages)
      = Result(ReplyId, <<>>, FALSE, 0, 0, 0, 0, <<>>)
  BY <1>1, BlankIs
<1>. QED
  BY <1>1, <1>3, <1>4, Zenon

\* A report of this reply's usage.
LEMMA AnthropicUsed ==
    ASSUME PlaceInv, NEW r, IsResult(r), NEW o \in Nat
    PROVE  ApplyAnthropicUsage(r, AnthropicUsage(o))
           = Result(r.id, r.finish, TRUE, Input, o, counts.read, counts.created, r.messages)
<1>1. PICK i, k, w : i = counts.fresh /\ k = counts.read /\ w = counts.created
  OBVIOUS
<1>2. i \in Nat /\ k \in Nat /\ w \in Nat
  BY <1>1, CountsAre
<1>3. ApplyAnthropicUsage(r, Report(i, k, w, o))
      = Result(r.id, r.finish, TRUE, i + k + w, o, k, w, r.messages)
  <2>1. ReportOf(Report(i, k, w, o), i, k, w, o)
    BY <1>2 DEF ReportOf
  <2>. QED
    BY <2>1, AnthropicReports
<1>4. AnthropicUsage(o) = Report(i, k, w, o) /\ Input = i + k + w
  BY <1>1 DEF AnthropicUsage, Report, Input
<1>. QED
  BY <1>1, <1>3, <1>4

\* Each action of an anthropic reply keeps what its parser holds.
LEMMA AnthropicStep ==
    ASSUME PlaceInv, Next, vendor = "anthropic", AnthropicInv
    PROVE  AnthropicInv'
<1>0. /\ UNCHANGED <<vendor, reply, counts>> /\ PlaceInv'
      /\ IsReply(reply) /\ Len(reply) \in Nat \ {0} /\ item \in Nat
      /\ item # 0 => /\ Place(reply, item, offset) /\ item \in 1 .. Len(reply)
                     /\ offset \in 0 .. Len(reply[item].body)
      /\ item = 0 => offset = 0 /\ phase = "items"
  BY PlaceIs, PlaceStep
<1>1. acc = [result |-> AnthropicResult, blocks |-> SentBlocks(reply, item, offset)]
  BY DEF AnthropicInv
<1>2. /\ counts.fresh \in Nat /\ counts.read \in Nat /\ counts.created \in Nat /\ Input \in Nat
      /\ item # 0 => Output \in Nat
  BY CountsAre
<1>3. CASE Start
  <2>1. /\ phase = "items" /\ item = 0 /\ item' = 1 /\ offset' = 0 /\ phase' = "items"
        /\ Send(Opening \o Beginning(1))
    BY <1>3 DEF Start
  <2>2. PICK c, d : /\ c = [type |-> "message_start", id |-> ReplyId, usage |-> AnthropicUsage(1)]
                    /\ d = [type |-> "content_block_start", index |-> 1 - 1, kind |-> reply[1].kind,
                            call |-> reply[1].call, body |-> <<>>]
    OBVIOUS
  <2>3. Opening = <<c>> /\ Beginning(1) = <<d>>
    BY <2>2 DEF Opening, Beginning
  <2>4. acc' = AnthropicChunk(AnthropicChunk(acc, c), d)
    BY <2>1, <2>3, AnthropicSends
  <2>5. PICK r, x : r = Result(ReplyId, <<>>, TRUE, Input, 1, counts.read, counts.created, <<>>)
                    /\ x = Blank
    OBVIOUS
  <2>6. acc = [result |-> x, blocks |-> <<>>]
    BY <1>0, <1>1, <2>1, <2>5, BlocksBegin DEF AnthropicResult
  <2>7. AnthropicChunk(acc, c) = [result |-> r, blocks |-> <<>>]
    <3>1. AnthropicChunk(acc, c)
          = [result |-> ApplyAnthropicUsage([x EXCEPT !.id = ReplyId], AnthropicUsage(1)),
             blocks |-> <<>>]
      <4>1. /\ c.type = "message_start" /\ c.id = ReplyId /\ c.usage = AnthropicUsage(1)
            /\ acc.result = x /\ acc.blocks = <<>>
        BY <2>2, <2>6
      <4>. QED
        BY <4>1, AnthropicStarts, Zenon
    <3>2. PICK y : y = [x EXCEPT !.id = ReplyId]
      OBVIOUS
    <3>3. y = Result(ReplyId, <<>>, FALSE, 0, 0, 0, 0, <<>>)
      BY <2>5, <3>2, BlankNamed, Zenon
    <3>4. IsResult(y) /\ y.id = ReplyId /\ y.finish = <<>> /\ y.messages = <<>>
      BY <3>3 DEF Result, IsResult
    <3>5. ApplyAnthropicUsage(y, AnthropicUsage(1))
          = Result(ReplyId, <<>>, TRUE, Input, 1, counts.read, counts.created, <<>>)
      BY <3>4, AnthropicUsed
    <3>. QED
      BY <2>5, <3>1, <3>2, <3>5, Zenon
  <2>8. acc' = [result |-> r, blocks |-> Put(<<>>, 0, Block(reply[1].kind, reply[1].call, <<>>))]
    <3>1. 1 - 1 = 0
      OBVIOUS
    <3>2. PICK a : a = AnthropicChunk(acc, c)
      OBVIOUS
    <3>3. AnthropicChunk(a, d)
          = [result |-> r, blocks |-> Put(<<>>, 1 - 1, Block(reply[1].kind, reply[1].call, <<>>))]
      <4>1. /\ d.type = "content_block_start" /\ d.index = 1 - 1 /\ d.kind = reply[1].kind
            /\ d.call = reply[1].call /\ d.body = <<>>
        BY <2>2
      <4>2. a.result = r /\ a.blocks = <<>>
        BY <2>7, <3>2
      <4>. QED
        BY <4>1, <4>2, AnthropicOpens, Zenon
    <3>. QED
      BY <2>4, <3>1, <3>2, <3>3
  <2>9. SentBlocks(reply', item', offset') = Put(<<>>, 0, Block(reply[1].kind, reply[1].call, <<>>))
    BY <1>0, <2>1, BlocksBegin
  <2>10. AnthropicResult' = r
    <3>1. Input' = Input
      BY <1>0 DEF Input
    <3>. QED
      BY <1>0, <2>1, <2>5, <3>1 DEF AnthropicResult
  <2>. QED
    BY <2>8, <2>9, <2>10, Zenon DEF AnthropicInv
<1>4. CASE SendPiece
  <2>1. PICK n \in 1 .. MaxPiece :
          /\ offset + n <= Len(reply[item].body) /\ offset' = offset + n
          /\ Send(Carrying(item, SubSeq(reply[item].body, offset + 1, offset + n),
                           offset' = Len(reply[item].body)))
    BY <1>4 DEF SendPiece
  <2>2. item' = item /\ phase' = "items" /\ phase = "items" /\ item # 0
    BY <1>4 DEF SendPiece, AtEnd
  <2>3. PICK c, p : /\ p = SubSeq(reply[item].body, offset + 1, offset + n)
                    /\ c = [type |-> "content_block_delta", index |-> item - 1,
                            kind |-> reply[item].kind, body |-> p]
    OBVIOUS
  <2>4. Carrying(item, p, offset' = Len(reply[item].body)) = <<c>>
    BY <2>3 DEF Carrying
  <2>5. acc' = AnthropicChunk(acc, c)
    <3>1. Send(<<c>>)
      BY <2>1, <2>3, <2>4, Zenon
    <3>. QED
      BY <3>1, AnthropicSends, Zenon
  <2>6. PICK x, b : x = AnthropicResult /\ b = SentBlocks(reply, item, offset)
    OBVIOUS
  <2>7. n \in Nat \ {0} /\ Place(reply, item, offset) /\ Place(reply, item, offset + n)
    <3>1. n \in Nat \ {0}
      BY PiecesAreBounded
    <3>2. item \in 1 .. Len(reply) /\ Len(reply[item].body) \in Nat /\ Place(reply, item, offset)
      BY <2>2, PlaceIs
    <3>3. offset \in 0 .. Len(reply[item].body)
      BY <3>2 DEF Place
    <3>4. offset + n \in 0 .. Len(reply[item].body)
      BY <2>1, <3>1, <3>2, <3>3
    <3>. QED
      BY <3>1, <3>2, <3>4 DEF Place
  <2>8. /\ item - 1 \in DOMAIN b
        /\ Put(b, item - 1, Extended(b[item - 1], reply[item].kind, p))
           = SentBlocks(reply, item, offset + n)
    BY <2>3, <2>6, <2>7, BlocksGrow
  <2>9. AnthropicChunk(acc, c)
        = [result |-> x, blocks |-> Put(b, item - 1, Extended(b[item - 1], reply[item].kind, p))]
    <3>1. /\ c.type = "content_block_delta" /\ c.index = item - 1 /\ c.kind = reply[item].kind
          /\ c.body = p
      BY <2>3
    <3>2. acc.result = x /\ acc.blocks = b
      BY <1>1, <2>6
    <3>. QED
      BY <2>8, <3>1, <3>2, AnthropicGoesOn, Zenon
  <2>10. acc' = [result |-> x, blocks |-> SentBlocks(reply, item, offset + n)]
    BY <2>5, <2>8, <2>9, Zenon
  <2>11. AnthropicResult' = x
    BY <1>0, <2>2, <2>6 DEF AnthropicResult, Input
  <2>12. SentBlocks(reply', item', offset') = SentBlocks(reply, item, offset + n)
    BY <1>0, <2>1, <2>2
  <2>. QED
    BY <2>10, <2>11, <2>12, Zenon DEF AnthropicInv
<1>5. CASE NextItem
  <2>1. /\ phase = "items" /\ item > 0 /\ AtEnd /\ item < Len(reply) /\ item' = item + 1
        /\ offset' = 0 /\ phase' = "items" /\ Send(Beginning(item + 1))
    BY <1>5 DEF NextItem
  <2>2. PICK k : k = item + 1
    OBVIOUS
  <2>3. item \in 1 .. Len(reply) /\ k \in 1 .. Len(reply) /\ k - 1 = item /\ item # 0
    BY <1>0, <2>1, <2>2
  <2>4. offset = Len(reply[item].body)
    BY <2>1, <2>3 DEF AtEnd
  <2>5. PICK c : c = [type |-> "content_block_start", index |-> k - 1, kind |-> reply[k].kind,
                      call |-> reply[k].call, body |-> <<>>]
    OBVIOUS
  <2>6. acc' = AnthropicChunk(acc, c)
    <3>1. Beginning(k) = <<c>>
      BY <2>5 DEF Beginning
    <3>2. Send(<<c>>)
      BY <2>1, <2>2, <3>1
    <3>. QED
      BY <3>2, AnthropicSends, Zenon
  <2>7. PICK x, b : x = AnthropicResult /\ b = SentBlocks(reply, item, offset)
    OBVIOUS
  <2>8. AnthropicChunk(acc, c)
        = [result |-> x, blocks |-> Put(b, item, Block(reply[k].kind, reply[k].call, <<>>))]
    <3>1. /\ c.type = "content_block_start" /\ c.index = item /\ c.kind = reply[k].kind
          /\ c.call = reply[k].call /\ c.body = <<>>
      BY <2>3, <2>5
    <3>2. acc.result = x /\ acc.blocks = b
      BY <1>1, <2>7
    <3>. QED
      BY <3>1, <3>2, AnthropicOpens, Zenon
  <2>9. Put(b, item, Block(reply[k].kind, reply[k].call, <<>>)) = SentBlocks(reply, k, 0)
    BY <1>0, <2>1, <2>2, <2>3, <2>4, <2>7, BlocksBegin
  <2>10. AnthropicResult' = x
    <3>1. item' # 0
      BY <2>1, <2>2, <2>3
    <3>. QED
      BY <1>0, <2>1, <2>3, <2>7, <3>1 DEF AnthropicResult, Input
  <2>11. SentBlocks(reply', item', offset') = SentBlocks(reply, k, 0)
    BY <1>0, <2>1, <2>2
  <2>12. acc' = [result |-> x, blocks |-> SentBlocks(reply, k, 0)]
    BY <2>6, <2>8, <2>9
  <2>. QED
    BY <2>10, <2>11, <2>12, Zenon DEF AnthropicInv
<1>6. ASSUME NEW usage, NEW i, NEW k, NEW w, phase = "items", item # 0,
             Send(<<[type |-> "message_delta", finish |-> "stop", usage |-> usage]>>),
             \A r : IsResult(r) => ApplyAnthropicUsage(r, usage)
                                   = Result(r.id, r.finish, TRUE, i, Output, k, w, r.messages)
      PROVE  acc' = [result |-> Result(ReplyId, <<"stop">>, TRUE, i, Output, k, w, <<>>),
                     blocks |-> SentBlocks(reply, item, offset)]
  <2>1. PICK c : c = [type |-> "message_delta", finish |-> "stop", usage |-> usage]
    OBVIOUS
  <2>2. acc' = AnthropicChunk(acc, c)
    BY <1>6, <2>1, AnthropicSends
  <2>3. PICK x, b : x = AnthropicResult /\ b = SentBlocks(reply, item, offset)
    OBVIOUS
  <2>4. x = Result(ReplyId, <<>>, TRUE, Input, 1, counts.read, counts.created, <<>>)
    BY <1>6, <2>3 DEF AnthropicResult
  <2>5. IsResult(x) /\ x.id = ReplyId /\ x.finish = <<>> /\ x.hasUsage = TRUE /\ x.messages = <<>>
    BY <2>4 DEF Result, IsResult
  <2>6. PICK f : f = [x EXCEPT !.finish = <<"stop">>]
    OBVIOUS
  <2>7. f = Result(x.id, <<"stop">>, x.hasUsage, x.input, x.output, x.read, x.created, x.messages)
    BY <2>5, <2>6, ResultSet, Zenon
  <2>8. IsResult(f) /\ f.id = ReplyId /\ f.finish = <<"stop">> /\ f.messages = <<>>
    BY <2>5, <2>7 DEF Result, IsResult
  <2>9. AnthropicChunk(acc, c) = [result |-> ApplyAnthropicUsage(f, usage), blocks |-> b]
    <3>1. c.type = "message_delta" /\ c.finish = "stop" /\ c.usage = usage
      BY <2>1
    <3>2. acc.result = x /\ acc.blocks = b
      BY <1>1, <2>3
    <3>3. AddFinish(x.finish, "stop") = <<"stop">>
      BY <2>5, Stops
    <3>4. AnthropicChunk(acc, c)
          = [result |-> ApplyAnthropicUsage([x EXCEPT !.finish = AddFinish(x.finish, "stop")], usage),
             blocks |-> b]
      BY <3>1, <3>2, AnthropicReasons, Zenon
    <3>. QED
      BY <2>6, <3>3, <3>4, Zenon
  <2>10. ApplyAnthropicUsage(f, usage) = Result(ReplyId, <<"stop">>, TRUE, i, Output, k, w, <<>>)
    BY <1>6, <2>8
  <2>. QED
    BY <2>2, <2>3, <2>9, <2>10, Zenon
<1>7. CASE Finish
  <2>1. /\ item = Len(reply) /\ item' = item /\ offset' = offset /\ phase' = "end" /\ phase = "items"
        /\ \E ending \in Endings : Send(ending)
    BY <1>7 DEF Finish
  <2>2. item # 0
    BY <1>0, <2>1
  <2>3. Send(<<[type |-> "message_delta", finish |-> "stop", usage |-> AnthropicUsage(Output)]>>)
    BY <2>1 DEF Endings
  <2>4. \A r : IsResult(r) => ApplyAnthropicUsage(r, AnthropicUsage(Output))
                              = Result(r.id, r.finish, TRUE, Input, Output, counts.read,
                                       counts.created, r.messages)
    BY <1>2, <2>2, AnthropicUsed
  <2>5. acc' = [result |-> Result(ReplyId, <<"stop">>, TRUE, Input, Output, counts.read,
                                  counts.created, <<>>),
                blocks |-> SentBlocks(reply, item, offset)]
    BY <1>6, <2>1, <2>2, <2>3, <2>4
  <2>6. AnthropicResult' = Result(ReplyId, <<"stop">>, TRUE, Input, Output, counts.read,
                                  counts.created, <<>>)
    <3>1. Input' = Input /\ Output' = Output /\ counts' = counts
      BY <1>0, <2>1, CountsStay
    <3>. QED
      BY <2>1, <2>2, <3>1 DEF AnthropicResult
  <2>7. SentBlocks(reply', item', offset') = SentBlocks(reply, item, offset)
    BY <1>0, <2>1
  <2>. QED
    BY <2>5, <2>6, <2>7 DEF AnthropicInv
<1>8. CASE FinishBare
  <2>1. /\ item = Len(reply) /\ item' = item /\ offset' = offset /\ phase' = "bare"
        /\ phase = "items"
        /\ Send(<<[type |-> "message_delta", finish |-> "stop", usage |-> BareUsage]>>)
    BY <1>8 DEF FinishBare
  <2>2. item # 0
    BY <1>0, <2>1
  <2>3. BareUsage = Report(NULL, NULL, NULL, Output)
    BY DEF BareUsage, Report
  <2>4. \A r : IsResult(r) => ApplyAnthropicUsage(r, BareUsage)
                              = Result(r.id, r.finish, TRUE, 0, Output, 0, 0, r.messages)
    BY <1>2, <2>2, <2>3, BareReport
  <2>5. acc' = [result |-> Result(ReplyId, <<"stop">>, TRUE, 0, Output, 0, 0, <<>>),
                blocks |-> SentBlocks(reply, item, offset)]
    BY <1>6, <2>1, <2>2, <2>4
  <2>6. AnthropicResult' = Result(ReplyId, <<"stop">>, TRUE, 0, Output, 0, 0, <<>>)
    <3>1. Output' = Output
      BY <1>0, <2>1, CountsStay
    <3>. QED
      BY <2>1, <2>2, <3>1 DEF AnthropicResult
  <2>7. SentBlocks(reply', item', offset') = SentBlocks(reply, item, offset)
    BY <1>0, <2>1
  <2>. QED
    BY <2>5, <2>6, <2>7 DEF AnthropicInv
<1>9. CASE StopEarly
  BY <1>9 DEF StopEarly
<1>. QED
  BY <1>3, <1>4, <1>5, <1>7, <1>8, <1>9 DEF Next

\* A complete call is the only one whose body is JSON.
LEMMA CallComplete ==
    ASSUME NEW r, NEW i, NEW o, Place(r, i, o), r[i].kind = "call",
           NEW b, b = SubSeq(r[i].body, 1, o)
    PROVE  ParsesAsJSON(b) <=> o = Len(r[i].body)
<1>1. i \in 1 .. Len(r) /\ IsReply(r) /\ o \in 0 .. Len(r[i].body)
  BY DEF Place
<1>2. PICK x, T : x = r[i].body /\ T = Tokens(r)
  OBVIOUS
<1>3. ItemOver(r[i], T)
  BY <1>1, <1>2, ReplyItems
<1>4. /\ x \in Seq(T) /\ Len(x) \in Nat \ {0} /\ o \in 0 .. Len(x)
      /\ \A k \in 1 .. Len(x) : x[k] = "}" <=> k = Len(x)
  BY <1>1, <1>2, <1>3 DEF ItemOver
<1>5. b \in Seq(T) /\ Len(b) = o /\ \A k \in 1 .. o : b[k] = x[k]
  <2>1. x \in Seq(T) /\ o \in 0 .. Len(x)
    BY <1>4
  <2>2. /\ SubSeq(x, 1, o) \in Seq(T) /\ Len(SubSeq(x, 1, o)) = o
        /\ \A k \in 1 .. o : SubSeq(x, 1, o)[k] = x[k]
    BY <2>1, BodyUpTo
  <2>. QED
    BY <1>2, <2>2
<1>6. CASE o = 0
  <2>1. b = <<>>
    BY <1>2, <1>4, <1>6, BodyUpTo
  <2>. QED
    BY <1>2, <1>4, <1>6, <2>1 DEF ParsesAsJSON
<1>7. CASE o # 0
  <2>1. o \in 1 .. Len(x) /\ o \in 1 .. o
    <3>1. o \in 0 .. Len(x) /\ Len(x) \in Nat
      BY <1>4
    <3>. QED
      BY <1>7, <3>1
  <2>2. b # <<>>
    BY <1>5, <1>7, EmptySeq
  <2>3. Last(b) = x[o]
    BY <1>5, <2>1 DEF Last
  <2>. QED
    BY <1>2, <1>4, <2>1, <2>2, <2>3 DEF ParsesAsJSON
<1>. QED
  BY <1>6, <1>7

\* What is sent of a reply is the reply cut at its place.
LEMMA SentIsCut == SentItems = CutAt(reply, item, offset)
BY Zenon DEF SentItems, CutAt

\* m has every call that is sent in full.
KeepsCalls(m) ==
    \A k \in 1 .. item :
        reply[k].kind = "call" /\ (k = item => offset = Len(reply[k].body)) =>
          \E j \in DOMAIN m :
             m[j].kind = "call" /\ m[j].call = reply[k].call /\ m[j].body = reply[k].body

\* Messages that keep the calls of the reply have every call whose arguments were sent.
LEMMA SentCallsKept ==
    ASSUME PlaceInv, NEW m, KeepsCalls(m)
    PROVE  SentCalls \subseteq CallsOf(m)
<1>1. SUFFICES ASSUME NEW c \in SentCalls PROVE c \in CallsOf(m)
  OBVIOUS
<1>2. PICK s : s = SentItems
  OBVIOUS
<1>3. c \in CallsOf(s) /\ ParsesAsJSON(c.body)
  BY <1>2 DEF SentCalls
<1>4. PICK k \in DOMAIN s : s[k].kind = "call" /\ c = [call |-> s[k].call, body |-> s[k].body]
  BY <1>3 DEF CallsOf
<1>5. s = CutAt(reply, item, offset)
  BY <1>2, SentIsCut
<1>6. item # 0 /\ Place(reply, item, offset) /\ item \in 1 .. Len(reply) /\ Len(reply) \in Nat
  <2>1. CASE item = 0
    <3>1. s = <<>>
      BY <1>5, <2>1, CutFirst, PlaceIs
    <3>. QED
      BY <1>4, <3>1
  <2>2. CASE item # 0
    BY <2>2, PlaceIs
  <2>. QED
    BY <2>1, <2>2
<1>7. /\ DOMAIN s = 1 .. item /\ \A n \in 1 .. item : n < item => s[n] = reply[n]
      /\ s[item] = [kind |-> reply[item].kind, call |-> reply[item].call,
                    body |-> SubSeq(reply[item].body, 1, offset)]
  BY <1>5, <1>6, CutItems
<1>8. /\ k \in 1 .. item /\ reply[k].kind = "call" /\ (k = item => offset = Len(reply[k].body))
      /\ s[k].call = reply[k].call /\ s[k].body = reply[k].body
  <2>1. CASE k # item
    BY <1>4, <1>6, <1>7, <2>1
  <2>2. CASE k = item
    <3>1. PICK b : b = SubSeq(reply[item].body, 1, offset)
      OBVIOUS
    <3>2. reply[item].kind = "call" /\ s[k].call = reply[item].call /\ s[k].body = b /\ c.body = b
      BY <1>4, <1>7, <2>2, <3>1
    <3>3. offset = Len(reply[item].body)
      BY <1>3, <1>6, <3>1, <3>2, CallComplete
    <3>4. b = reply[item].body
      <4>1. IsReply(reply)
        BY <1>6 DEF Place
      <4>2. reply[item].body \in Seq(Tokens(reply)) /\ offset \in 0 .. Len(reply[item].body)
        BY <1>6, <4>1, ItemIs DEF Place
      <4>. QED
        BY <3>1, <3>3, <4>2, BodyUpTo
    <3>. QED
      BY <1>4, <1>7, <2>2, <3>2, <3>3, <3>4
  <2>. QED
    BY <2>1, <2>2
<1>9. PICK j \in DOMAIN m : m[j].kind = "call" /\ m[j].call = reply[k].call /\ m[j].body = reply[k].body
  BY <1>8 DEF KeepsCalls
<1>10. c = [call |-> m[j].call, body |-> m[j].body]
  BY <1>4, <1>8, <1>9
<1>. QED
  BY <1>9, <1>10 DEF CallsOf

\* The message of an anthropic reply: a part for each item that has begun.
LEMMA AnthropicMessages ==
    ASSUME NEW r, NEW i, NEW o, Place(r, i, o), NEW m, m = OrderedBlocks(SentBlocks(r, i, o))
    PROVE  /\ m = [k \in 1 .. i |-> m[k]]
           /\ \A k \in 1 .. i : k < i \/ o = Len(r[i].body) =>
                m[k] = Part(r[k].kind, NULL, r[k].call, Shown(r[k].kind, r[k].body), "json")
           /\ m[i].kind = r[i].kind
           /\ m[i].body = Shown(r[i].kind, SubSeq(r[i].body, 1, o))
<1>1. i \in 1 .. Len(r) /\ IsReply(r) /\ Len(r) \in Nat
  BY ReplyItems DEF Place
<1>2. PICK b : b = SentBlocks(r, i, o)
  OBVIOUS
<1>3. /\ i \in Nat \ {0} /\ DOMAIN b = 0 .. i - 1
      /\ \A j \in 0 .. i - 1 : j # i - 1 => b[j] = BlockOf(r[j + 1])
      /\ b[i - 1] = SentBlock(r[i].kind, r[i].call, SubSeq(r[i].body, 1, o))
  BY <1>2, SentBlocksAt
<1>4. m = [k \in 1 .. i |-> Finished(b[k - 1])]
  BY <1>2, <1>3, BlocksOrdered
<1>5. ASSUME NEW k \in 1 .. i
      PROVE  /\ r[k].kind \in Kinds /\ Place(r, k, Len(r[k].body))
             /\ Finished(SentBlock(r[k].kind, r[k].call, r[k].body))
                = Part(r[k].kind, NULL, r[k].call, Shown(r[k].kind, r[k].body), "json")
  <2>1. k \in 1 .. Len(r)
    BY <1>1
  <2>2. r[k].kind \in Kinds /\ r[k].body \in Seq(Tokens(r)) /\ Len(r[k].body) \in Nat \ {0}
    BY <1>1, <2>1, ItemIs
  <2>3. Len(r[k].body) \in 0 .. Len(r[k].body)
    BY <2>2
  <2>4. Place(r, k, Len(r[k].body)) /\ SubSeq(r[k].body, 1, Len(r[k].body)) = r[k].body
    BY <1>1, <2>1, <2>2, <2>3, BodyUpTo DEF Place
  <2>5. r[k].kind = "call" => ParsesAsJSON(r[k].body)
    BY <2>4, CallComplete
  <2>6. Finished(SentBlock(r[k].kind, r[k].call, r[k].body)) =
          Part(r[k].kind, NULL, r[k].call, Shown(r[k].kind, r[k].body),
               IF r[k].kind = "call" /\ r[k].body # <<>> /\ ~ ParsesAsJSON(r[k].body)
               THEN "raw" ELSE "json")
    BY <2>2, BlockFinished
  <2>. QED
    BY <2>2, <2>4, <2>5, <2>6
<1>6. ASSUME NEW k \in 1 .. i, k < i \/ o = Len(r[i].body)
      PROVE  m[k] = Part(r[k].kind, NULL, r[k].call, Shown(r[k].kind, r[k].body), "json")
  <2>1. m[k] = Finished(b[k - 1])
    BY <1>4
  <2>2. CASE k # i
    <3>1. k - 1 \in 0 .. i - 1 /\ k - 1 # i - 1 /\ (k - 1) + 1 = k
      BY <1>3, <2>2
    <3>2. b[k - 1] = BlockOf(r[k])
      BY <1>3, <3>1
    <3>. QED
      BY <1>5, <2>1, <3>2 DEF BlockOf
  <2>3. CASE k = i
    <3>1. i \in 1 .. i /\ r[i].body \in Seq(Tokens(r)) /\ o = Len(r[i].body) /\ o \in 0 .. Len(r[i].body)
      BY <1>1, <1>6, <2>3, ItemIs DEF Place
    <3>2. b[i - 1] = SentBlock(r[i].kind, r[i].call, r[i].body)
      <4>1. SubSeq(r[i].body, 1, o) = r[i].body
        BY <3>1, BodyUpTo
      <4>. QED
        BY <1>3, <4>1
    <3>3. m[i] = Part(r[i].kind, NULL, r[i].call, Shown(r[i].kind, r[i].body), "json")
      BY <1>5, <2>1, <2>3, <3>1, <3>2
    <3>. QED
      BY <2>3, <3>3
  <2>. QED
    BY <2>2, <2>3
<1>7. /\ m[i].kind = r[i].kind /\ m[i].body = Shown(r[i].kind, SubSeq(r[i].body, 1, o))
  <2>1. i \in 1 .. i
    BY <1>3
  <2>2. m[i] = Finished(b[i - 1])
    BY <1>4, <2>1
  <2>3. r[i].kind \in Kinds
    BY <1>5, <2>1
  <2>4. PICK form : m[i] = Part(r[i].kind, NULL, r[i].call,
                                Shown(r[i].kind, SubSeq(r[i].body, 1, o)), form)
    BY <1>3, <2>2, <2>3, BlockFinished
  <2>. QED
    BY <2>4 DEF Part
<1>8. m = [k \in 1 .. i |-> m[k]]
  BY <1>4
<1>. QED
  BY <1>6, <1>7, <1>8

\* The same reply, answered whole.
LEMMA AnthropicWhole ==
    ASSUME PlaceInv, item # 0, vendor = "anthropic",
           NEW m, m = [k \in 1 .. Len(reply) |->
                         Part(reply[k].kind, NULL, reply[k].call,
                              Shown(reply[k].kind, reply[k].body), "json")]
    PROVE  Whole = Result(ReplyId, <<"stop">>, TRUE, Input, Output, counts.read, counts.created, m)
<1>1. PICK object : object = [id |-> ReplyId, finish |-> "stop", content |-> reply,
                              usage |-> AnthropicUsage(Output)]
  OBVIOUS
<1>2. /\ object.id = ReplyId /\ object.finish = "stop" /\ object.content = reply
      /\ object.usage = AnthropicUsage(Output)
  BY <1>1
<1>3. Whole = ParseAnthropicJSON(object)
  BY <1>1, Zenon DEF Whole
<1>4. PICK q : q = ApplyAnthropicUsage(Blank, AnthropicUsage(Output))
  OBVIOUS
<1>5. q = Result(NULL, <<>>, TRUE, Input, Output, counts.read, counts.created, <<>>)
  <2>1. Output \in Nat
    BY CountsAre
  <2>2. PICK x : x = Blank
    OBVIOUS
  <2>3. IsResult(x) /\ x.id = NULL /\ x.finish = <<>> /\ x.messages = <<>>
    BY <2>2, BlankIs
  <2>4. ApplyAnthropicUsage(x, AnthropicUsage(Output))
        = Result(x.id, x.finish, TRUE, Input, Output, counts.read, counts.created, x.messages)
    BY <2>1, <2>3, AnthropicUsed
  <2>. QED
    BY <1>4, <2>2, <2>3, <2>4
<1>6. PICK content : content = [i \in DOMAIN object.content |->
                                  LET block == object.content[i]
                                  IN  Finished(Block(block.kind, block.call, block.body))]
  OBVIOUS
<1>7. content = m
  <2>1. DOMAIN reply = 1 .. Len(reply) /\ IsReply(reply)
    BY PlaceIs, ReplyItems
  <2>2. content = [i \in 1 .. Len(reply) |->
                     Finished(Block(reply[i].kind, reply[i].call, reply[i].body))]
    BY <1>2, <1>6, <2>1, Zenon
  <2>3. ASSUME NEW i \in 1 .. Len(reply)
        PROVE  Finished(Block(reply[i].kind, reply[i].call, reply[i].body))
               = Part(reply[i].kind, NULL, reply[i].call, Shown(reply[i].kind, reply[i].body), "json")
    <3>1. reply[i].kind \in Kinds
      BY <2>1, ItemIs
    <3>. QED
      BY <3>1, BlockFinished
  <2>. QED
    BY <2>2, <2>3, Zenon
<1>8. PICK x : x = [q EXCEPT !.id = ReplyId]
  OBVIOUS
<1>9. x = Result(ReplyId, <<>>, TRUE, Input, Output, counts.read, counts.created, <<>>)
  <2>1. IsResult(q)
    BY <1>5 DEF Result, IsResult
  <2>2. x = Result(ReplyId, q.finish, q.hasUsage, q.input, q.output, q.read, q.created, q.messages)
    BY <1>8, <2>1, ResultSet, Zenon
  <2>. QED
    BY <1>5, <2>2 DEF Result
<1>10. PICK y : y = [x EXCEPT !.finish = <<"stop">>]
  OBVIOUS
<1>11. y = Result(ReplyId, <<"stop">>, TRUE, Input, Output, counts.read, counts.created, <<>>)
  <2>1. IsResult(x)
    BY <1>9 DEF Result, IsResult
  <2>2. y = Result(x.id, <<"stop">>, x.hasUsage, x.input, x.output, x.read, x.created, x.messages)
    BY <1>10, <2>1, ResultSet, Zenon
  <2>. QED
    BY <1>9, <2>2 DEF Result
<1>12. PICK z : z = [y EXCEPT !.messages = content]
  OBVIOUS
<1>13. z = Result(ReplyId, <<"stop">>, TRUE, Input, Output, counts.read, counts.created, content)
  <2>1. IsResult(y)
    BY <1>11 DEF Result, IsResult
  <2>2. z = Result(y.id, y.finish, y.hasUsage, y.input, y.output, y.read, y.created, content)
    BY <1>12, <2>1, ResultGiven, Zenon
  <2>. QED
    BY <1>11, <2>2 DEF Result
<1>14. ParseAnthropicJSON(object) = z
  <2>1. q.finish = <<>> /\ AddFinish(q.finish, "stop") = <<"stop">>
    <3>1. q.finish = <<>>
      BY <1>5 DEF Result
    <3>. QED
      BY <3>1, Stops
  <2>2. x.finish = <<>> /\ AddFinish(x.finish, "stop") = <<"stop">>
    <3>1. x.finish = <<>>
      BY <1>9 DEF Result
    <3>. QED
      BY <3>1, Stops
  <2>. QED
    BY <1>2, <1>4, <1>6, <1>8, <1>10, <1>12, <2>1, <2>2, Zenon DEF ParseAnthropicJSON
<1>. QED
  BY <1>3, <1>7, <1>13, <1>14

\* What the invariant says of an anthropic reply: its span is the one of the whole
\* reply, or has what was sent.
LEMMA AnthropicKeeps ==
    ASSUME PlaceInv, vendor = "anthropic", AnthropicInv
    PROVE  StreamedAsWhole /\ CutKeepsSent
<1>1. PICK x, b, m, p : /\ x = AnthropicResult /\ b = SentBlocks(reply, item, offset)
                        /\ m = OrderedBlocks(b) /\ p = Parsed
  OBVIOUS
<1>2. acc.result = x /\ acc.blocks = b
  BY <1>1 DEF AnthropicInv
<1>3. p = [x EXCEPT !.messages = m]
  BY <1>1, <1>2, Zenon DEF Parsed, ParseStream, ParseAnthropicChunks
<1>7. ASSUME NEW id, NEW f, NEW h, NEW i, NEW o, NEW c, NEW w,
             x = Result(id, f, h, i, o, c, w, <<>>)
      PROVE  p = Result(id, f, h, i, o, c, w, m)
  <2>1. /\ IsResult(x) /\ x.id = id /\ x.finish = f /\ x.hasUsage = h /\ x.input = i
        /\ x.output = o /\ x.read = c /\ x.created = w
    BY <1>7 DEF Result, IsResult
  <2>2. p = Result(x.id, x.finish, x.hasUsage, x.input, x.output, x.read, x.created, m)
    <3>1. IsResult(x)
      BY <2>1
    <3>. QED
      BY <1>3, <3>1, ResultGiven, Zenon
  <2>. QED
    BY <2>1, <2>2
<1>4. /\ IsReply(reply) /\ item \in Nat /\ Len(reply) \in Nat
      /\ item # 0 => Place(reply, item, offset) /\ item \in 1 .. Len(reply)
      /\ item = 0 => offset = 0 /\ phase = "items"
  BY PlaceIs
<1>5. CASE item = 0
  <2>1. x = Blank /\ b = <<>>
    BY <1>1, <1>4, <1>5, BlocksBegin DEF AnthropicResult
  <2>2. DOMAIN b = 0 .. 0 - 1
    BY <2>1
  <2>3. m = [k \in 1 .. 0 |-> Finished(b[k - 1])]
    BY <1>1, <2>2, BlocksOrdered
  <2>4. DOMAIN m = 1 .. 0
    BY <2>3
  <2>5. p.messages = m
    <3>1. x = Result(NULL, <<>>, FALSE, 0, 0, 0, 0, <<>>)
      BY <2>1, BlankIs
    <3>2. p = Result(NULL, <<>>, FALSE, 0, 0, 0, 0, m)
      BY <1>7, <3>1
    <3>. QED
      BY <3>2 DEF Result
  <2>6. TextOf(m) = <<>> /\ TextOf(SentItems) = <<>>
    BY <1>4, <1>5, <2>4, TextOfNone, SentIsCut, CutFirst
  <2>7. KeepsCalls(m)
    BY <1>5 DEF KeepsCalls
  <2>8. SentCalls \subseteq CallsOf(m)
    BY <2>7, SentCallsKept
  <2>. QED
    BY <1>1, <1>4, <1>5, <2>5, <2>6, <2>8 DEF StreamedAsWhole, CutKeepsSent
<1>6. CASE item # 0
  <2>1. /\ m = [k \in 1 .. item |-> m[k]]
        /\ \A k \in 1 .. item : k < item \/ offset = Len(reply[item].body) =>
             m[k] = Part(reply[k].kind, NULL, reply[k].call, Shown(reply[k].kind, reply[k].body), "json")
        /\ m[item].kind = reply[item].kind
        /\ m[item].body = Shown(reply[item].kind, SubSeq(reply[item].body, 1, offset))
    BY <1>1, <1>4, <1>6, AnthropicMessages
  <2>2. PICK f, i, o, r, w : x = Result(ReplyId, f, TRUE, i, o, r, w, <<>>)
    <3>1. phase \in {"items", "end", "bare"}
      BY DEF PlaceInv
    <3>. QED
      BY <1>1, <1>6, <3>1 DEF AnthropicResult
  <2>3. p.messages = m
    <3>1. p = Result(ReplyId, f, TRUE, i, o, r, w, m)
      BY <1>7, <2>2
    <3>. QED
      BY <3>1 DEF Result
  <2>4. TextOf(m) = TextOf(SentItems)
    <3>1. PICK s : s = SentItems
      OBVIOUS
    <3>2. /\ DOMAIN s = 1 .. item /\ \A k \in 1 .. item : k < item => s[k] = reply[k]
          /\ s[item] = [kind |-> reply[item].kind, call |-> reply[item].call,
                        body |-> SubSeq(reply[item].body, 1, offset)]
      BY <1>4, <1>6, <3>1, SentIsCut, CutItems
    <3>3. ASSUME NEW k \in 1 .. item PROVE TextBody(m[k]) = TextBody(s[k])
      <4>1. CASE k < item
        <5>1. m[k] = Part(reply[k].kind, NULL, reply[k].call, Shown(reply[k].kind, reply[k].body), "json")
          BY <2>1, <4>1
        <5>2. s[k] = reply[k]
          BY <3>2, <4>1
        <5>. QED
          BY <5>1, <5>2 DEF TextBody, Part, Shown
      <4>2. CASE k = item
        <5>1. s[item].kind = reply[item].kind /\ s[item].body = SubSeq(reply[item].body, 1, offset)
          <6>1. s[item] = [kind |-> reply[item].kind, call |-> reply[item].call,
                           body |-> SubSeq(reply[item].body, 1, offset)]
            BY <3>2
          <6>2. PICK e, y, z : e = s[item] /\ y = reply[item].kind
                               /\ z = SubSeq(reply[item].body, 1, offset)
            OBVIOUS
          <6>3. e = [kind |-> y, call |-> reply[item].call, body |-> z]
            BY <6>1, <6>2
          <6>4. e.kind = y /\ e.body = z
            BY <6>3
          <6>. QED
            BY <6>2, <6>4
        <5>. QED
          BY <2>1, <4>2, <5>1 DEF TextBody, Shown
      <4>. QED
        BY <1>4, <4>1, <4>2
    <3>4. DOMAIN m = 1 .. item
      BY <2>1
    <3>. QED
      BY <1>4, <3>1, <3>2, <3>3, <3>4, TextSame
  <2>5. KeepsCalls(m)
    <3>1. SUFFICES ASSUME NEW k \in 1 .. item, reply[k].kind = "call",
                          k = item => offset = Len(reply[k].body)
                   PROVE  /\ k \in DOMAIN m /\ m[k].kind = "call" /\ m[k].call = reply[k].call
                          /\ m[k].body = reply[k].body
      BY Zenon DEF KeepsCalls
    <3>2. k < item \/ offset = Len(reply[item].body)
      BY <1>4, <3>1
    <3>3. m[k] = Part(reply[k].kind, NULL, reply[k].call, Shown(reply[k].kind, reply[k].body), "json")
      BY <2>1, <3>2
    <3>. QED
      BY <2>1, <3>1, <3>3 DEF Part, Shown
  <2>6. SentCalls \subseteq CallsOf(m)
    BY <2>5, SentCallsKept
  <2>7. CutKeepsSent
    BY <1>1, <2>3, <2>4, <2>6 DEF CutKeepsSent
  <2>8. ASSUME phase \in {"end", "bare"}
        PROVE  /\ m = [k \in 1 .. Len(reply) |-> Part(reply[k].kind, NULL, reply[k].call,
                                                      Shown(reply[k].kind, reply[k].body), "json")]
               /\ Whole = Result(ReplyId, <<"stop">>, TRUE, Input, Output, counts.read, counts.created, m)
    <3>1. item = Len(reply) /\ offset = Len(reply[item].body)
      BY <1>6, <2>8 DEF PlaceInv, AtEnd
    <3>2. m = [k \in 1 .. Len(reply) |-> Part(reply[k].kind, NULL, reply[k].call,
                                              Shown(reply[k].kind, reply[k].body), "json")]
      <4>1. \A k \in 1 .. item :
              m[k] = Part(reply[k].kind, NULL, reply[k].call, Shown(reply[k].kind, reply[k].body), "json")
        BY <2>1, <3>1
      <4>2. m = [k \in 1 .. item |-> Part(reply[k].kind, NULL, reply[k].call,
                                          Shown(reply[k].kind, reply[k].body), "json")]
        BY <2>1, <4>1
      <4>. QED
        BY <3>1, <4>2
    <3>. QED
      BY <1>6, <3>2, AnthropicWhole
  <2>9. ASSUME phase = "end" PROVE p = Whole
    <3>1. x = Result(ReplyId, <<"stop">>, TRUE, Input, Output, counts.read, counts.created, <<>>)
      BY <1>1, <1>6, <2>9 DEF AnthropicResult
    <3>2. p = Result(ReplyId, <<"stop">>, TRUE, Input, Output, counts.read, counts.created, m)
      BY <1>7, <3>1
    <3>. QED
      BY <2>8, <2>9, <3>2
  <2>10. ASSUME phase = "bare" PROVE p = [Whole EXCEPT !.input = 0, !.read = 0, !.created = 0]
    <3>1. x = Result(ReplyId, <<"stop">>, TRUE, 0, Output, 0, 0, <<>>)
      BY <1>1, <1>6, <2>10 DEF AnthropicResult
    <3>2. p = Result(ReplyId, <<"stop">>, TRUE, 0, Output, 0, 0, m)
      BY <1>7, <3>1
    <3>3. PICK z : z = Whole
      OBVIOUS
    <3>4. z = Result(ReplyId, <<"stop">>, TRUE, Input, Output, counts.read, counts.created, m)
      BY <2>8, <2>10, <3>3
    <3>5. /\ IsResult(z) /\ z.id = ReplyId /\ z.finish = <<"stop">> /\ z.hasUsage = TRUE
          /\ z.output = Output /\ z.messages = m
      BY <3>4 DEF Result, IsResult
    <3>6. [z EXCEPT !.input = 0, !.read = 0, !.created = 0]
          = Result(z.id, z.finish, z.hasUsage, 0, z.output, 0, 0, z.messages)
      <4>1. IsResult(z)
        BY <3>5
      <4>. QED
        BY <4>1, ResultBare, Zenon
    <3>7. Result(z.id, z.finish, z.hasUsage, 0, z.output, 0, 0, z.messages) = p
      BY <3>2, <3>5
    <3>. QED
      BY <3>3, <3>6, <3>7, Zenon
  <2>11. StreamedAsWhole
    BY <1>1, <2>9, <2>10, Zenon DEF StreamedAsWhole
  <2>. QED
    BY <2>7, <2>11
<1>. QED
  BY <1>5, <1>6

------------------------------------------------------------------------------
(* What the openai parser makes of a chunk *)

\* What the choices of a chunk hold.
ContentOf(choices) == FlattenSeq([i \in DOMAIN choices |-> choices[i].content])
DeltasOf(choices)  == FlattenSeq([i \in DOMAIN choices |-> choices[i].tools])

\* The response that a chunk carries, if it does.
ChunkResponse(chunk) ==
    IF "response" \in DOMAIN chunk THEN chunk.response ELSE [id |-> NULL, usage |-> NULL]

\* The choices of a chunk, if it has any.
ChunkChoices(chunk) == IF "choices" \in DOMAIN chunk THEN chunk.choices ELSE <<>>

\* What OpenAIChunk reads of a chunk, and the result with the chunk's id and usage.
Reads(a, c, t, response, choices, named, used) ==
    /\ t = Field(c, "type") /\ response = ChunkResponse(c) /\ choices = ChunkChoices(c)
    /\ named = [a.result EXCEPT !.id = TakeId(TakeId(a.result.id, response.id), Field(c, "id"))]
    /\ used = ApplyOpenAIUsage(ApplyResponsesUsage(named, response.usage), Field(c, "usage"))

\* What OpenAIChunk leaves in the parser, from what it read of the chunk.
AfterChunk(a, c, t, response, choices, used) ==
    [result    |-> [used EXCEPT !.finish = AddFinishes(used.finish, choices)],
     content   |-> a.content \o TextDelta(c) \o ContentOf(choices),
     tools     |-> ToolDeltas(a.tools, DeltasOf(choices)),
     sawChoice |-> a.sawChoice \/ choices # <<>> \/ t = "response.output_text.delta",
     items     |-> IF t = "response.output_item.done" THEN Append(a.items, c.item) ELSE a.items,
     completed |-> a.completed \/ t = "response.completed",
     final     |-> IF t = "response.completed" THEN ParseResponsesCompleted(response)
                   ELSE a.final]

\* The parts of what OpenAIChunk returns, one by one.
LEMMA OpenAIChunkIs ==
    ASSUME NEW a, NEW c, NEW t, NEW response, NEW choices, NEW named, NEW used,
           Reads(a, c, t, response, choices, named, used)
    PROVE  OpenAIChunk(a, c) = AfterChunk(a, c, t, response, choices, used)
BY Zenon DEF Reads, AfterChunk, OpenAIChunk, ChunkResponse, ChunkChoices, ContentOf, DeltasOf

\* No choice, and one.
LEMMA ChoicesAre ==
    ASSUME NEW choice
    PROVE  /\ ContentOf(<<>>) = <<>> /\ DeltasOf(<<>>) = <<>>
           /\ ContentOf(<<choice>>) = choice.content /\ DeltasOf(<<choice>>) = choice.tools
<1>1. ContentOf(<<>>) = <<>> /\ DeltasOf(<<>>) = <<>>
  <2>1. PICK s : s = [i \in DOMAIN <<>> |-> <<>>[i].content]
    OBVIOUS
  <2>2. PICK t : t = [i \in DOMAIN <<>> |-> <<>>[i].tools]
    OBVIOUS
  <2>3. s = <<>> /\ t = <<>>
    BY <2>1, <2>2
  <2>4. FlattenSeq(s) = s /\ FlattenSeq(t) = t
    BY <2>3 DEF FlattenSeq
  <2>. QED
    BY <2>1, <2>2, <2>3, <2>4 DEF ContentOf, DeltasOf
<1>2. PICK choices : choices = <<choice>>
  OBVIOUS
<1>3. DOMAIN choices = 1 .. 1 /\ choices[1] = choice
  BY <1>2
<1>4. Len(<<>>) = 0 /\ 0 \in Nat
  OBVIOUS
<1>5. PICK s, t : /\ s = [i \in DOMAIN choices |-> choices[i].content]
                  /\ t = [i \in DOMAIN choices |-> choices[i].tools]
  OBVIOUS
<1>6. Len(s) = 0 + 1 /\ s[1] = choice.content /\ Len(t) = 0 + 1 /\ t[1] = choice.tools
  BY <1>3, <1>5
<1>7. FlattenSeq(s) = s[1] /\ FlattenSeq(t) = t[1]
  <2>1. ASSUME NEW z, Len(z) = 1 PROVE FlattenSeq(z) = z[1]
    <3>1. PICK e : e = <<>>
      OBVIOUS
    <3>2. PICK n : n = 0
      OBVIOUS
    <3>3. n \in Nat /\ Len(e) = n /\ Len(z) = n + 1 /\ \A i \in 1 .. n : e[i] = z[i]
      BY <2>1, <3>1, <3>2
    <3>4. FlattenSeq(z) = IF n = 0 THEN z[1] ELSE FlattenSeq(e) \o z[n + 1]
      BY <3>3, FlattenStep
    <3>. QED
      BY <3>2, <3>4
  <2>. QED
    BY <1>6, <2>1
<1>. QED
  BY <1>1, <1>2, <1>5, <1>6, <1>7 DEF ContentOf, DeltasOf

\* The loops over no element, and over one.
LEMMA NoneAndOne ==
    ASSUME NEW f, NEW tools, NEW x
    PROVE  /\ AddFinishes(f, <<>>) = f /\ AddFinishes(f, <<x>>) = AddFinish(f, x.finish)
           /\ ToolDeltas(tools, <<>>) = tools /\ ToolDeltas(tools, <<x>>) = ToolDelta(tools, x)
<1>1. PICK e, o : e = <<>> /\ o = <<x>>
  OBVIOUS
<1>2. DOMAIN e = 1 .. 0 /\ DOMAIN o = 1 .. 1 /\ o[1] = x /\ 0 \in Nat /\ 1 \in Nat
  BY <1>1
<1>3. AddFinishes(f, e) = f /\ AddFinishes(f, o) = AddFinish(f, x.finish)
  <2>1. PICK h : h = [i \in 0 .. 1 |-> IF i = 0 THEN f ELSE AddFinish(f, x.finish)]
    OBVIOUS
  <2>2. h[0] = f /\ h[1] = AddFinish(f, x.finish)
    BY <2>1
  <2>3. Runs("AddFinishOf", h, f, e, 0)
    BY <2>2 DEF Runs
  <2>4. Runs("AddFinishOf", h, f, o, 1)
    BY <1>2, <2>2 DEF Runs, Step, AddFinishOf
  <2>5. AddFinishes(f, e) = h[0]
    BY <1>2, <2>3, FoldAddFinishOf
  <2>6. AddFinishes(f, o) = h[1]
    BY <1>2, <2>4, FoldAddFinishOf
  <2>. QED
    BY <2>2, <2>5, <2>6
<1>4. ToolDeltas(tools, e) = tools /\ ToolDeltas(tools, o) = ToolDelta(tools, x)
  <2>1. PICK h : h = [i \in 0 .. 1 |-> IF i = 0 THEN tools ELSE ToolDelta(tools, x)]
    OBVIOUS
  <2>2. h[0] = tools /\ h[1] = ToolDelta(tools, x)
    BY <2>1
  <2>3. Runs("ToolDelta", h, tools, e, 0)
    BY <2>2 DEF Runs
  <2>4. Runs("ToolDelta", h, tools, o, 1)
    BY <1>2, <2>2 DEF Runs, Step
  <2>5. ToolDeltas(tools, e) = h[0]
    BY <1>2, <2>3, FoldToolDelta
  <2>6. ToolDeltas(tools, o) = h[1]
    BY <1>2, <2>4, FoldToolDelta
  <2>. QED
    BY <2>2, <2>5, <2>6
<1>. QED
  BY <1>1, <1>3, <1>4

\* The variables of the openai parser.
OpenAIAcc(result, content, tools, sawChoice, items, completed, final) ==
    [result |-> result, content |-> content, tools |-> tools, sawChoice |-> sawChoice,
     items |-> items, completed |-> completed, final |-> final]

\* A result that gets the id of its reply.
Renamed(x) ==
    Result(ReplyId, x.finish, x.hasUsage, x.input, x.output, x.read, x.created, x.messages)

\* A result with another reason to finish.
Ended(x, finish) ==
    Result(x.id, finish, x.hasUsage, x.input, x.output, x.read, x.created, x.messages)

\* Setting the reason or the id of a result gives such a result.
LEMMA EndedIs ==
    ASSUME NEW r, IsResult(r), NEW f
    PROVE  [r EXCEPT !.finish = f] = Ended(r, f) /\ [r EXCEPT !.id = ReplyId] = Renamed(r)
<1>1. [r EXCEPT !.finish = f]
      = Result(r.id, f, r.hasUsage, r.input, r.output, r.read, r.created, r.messages)
  BY ResultSet, Zenon
<1>2. [r EXCEPT !.id = ReplyId]
      = Result(ReplyId, r.finish, r.hasUsage, r.input, r.output, r.read, r.created, r.messages)
  BY ResultSet, Zenon
<1>. QED
  BY <1>1, <1>2, Zenon DEF Ended, Renamed

\* What a chunk of chat completions has of the fields that the parser asks for.
LEMMA ChatFields ==
    ASSUME NEW choices, NEW usage, NEW c, c = ChatChunk(choices, usage)
    PROVE  /\ Field(c, "type") = NULL /\ Field(c, "id") = ReplyId /\ Field(c, "usage") = usage
           /\ ChunkChoices(c) = choices /\ ChunkResponse(c).id = NULL
           /\ ChunkResponse(c).usage = NULL /\ TextDelta(c) = <<>>
<1>1. c = [id |-> ReplyId, choices |-> choices, usage |-> usage]
  BY DEF ChatChunk
<1>2. DOMAIN c = {"id", "choices", "usage"}
  BY <1>1
<1>3. /\ "type" \notin DOMAIN c /\ "response" \notin DOMAIN c /\ "id" \in DOMAIN c
      /\ "usage" \in DOMAIN c /\ "choices" \in DOMAIN c
  BY <1>2
<1>4. c["id"] = ReplyId /\ c["usage"] = usage /\ c.choices = choices
  BY <1>1
<1>5. NULL # "response.output_text.delta"
  BY NullIsAbsent
<1>6. Field(c, "type") = NULL /\ Field(c, "id") = ReplyId /\ Field(c, "usage") = usage
  BY <1>3, <1>4, Zenon DEF Field
<1>7. ChunkChoices(c) = choices
  BY <1>3, <1>4, Zenon DEF ChunkChoices
<1>8. ChunkResponse(c) = [id |-> NULL, usage |-> NULL]
  BY <1>3, Zenon DEF ChunkResponse
<1>9. TextDelta(c) = <<>>
  BY <1>5, <1>6, Zenon DEF TextDelta
<1>. QED
  BY <1>6, <1>7, <1>8, <1>9

\* A chunk of chat completions.
HoldsChat(a) ==
    /\ a = OpenAIAcc(a.result, a.content, a.tools, a.sawChoice, <<>>, FALSE, Blank)
    /\ IsResult(a.result) /\ a.sawChoice \in BOOLEAN /\ \E T : a.content \in Seq(T)

\* The parser reads the chunk c of chat completions; used is the result with its usage.
ReadsChat(a, c, used) ==
    /\ HoldsChat(a) /\ c = ChatChunk(c.choices, c.usage)
    /\ used = ApplyOpenAIUsage(Renamed(a.result), c.usage) /\ IsResult(used)

\* What the parser has after such a chunk.
AfterChat(a, choices, used) ==
    OpenAIAcc(Ended(used, AddFinishes(used.finish, choices)), a.content \o ContentOf(choices),
              ToolDeltas(a.tools, DeltasOf(choices)), a.sawChoice \/ choices # <<>>, <<>>, FALSE,
              Blank)

\* A chunk of chat completions adds its content, its tool deltas and its reasons.
LEMMA ChatChunkIs ==
    ASSUME NEW a, NEW c, NEW used, ReadsChat(a, c, used)
    PROVE  OpenAIChunk(a, c) = AfterChat(a, c.choices, used)
<1>a. PICK x, t, u, w, choices, usage :
        /\ x = a.result /\ t = a.content /\ u = a.tools /\ w = a.sawChoice
        /\ choices = c.choices /\ usage = c.usage
  OBVIOUS
<1>b. PICK T : t \in Seq(T)
  BY <1>a DEF ReadsChat, HoldsChat
<1>. USE <1>b
<1>c. /\ a = OpenAIAcc(x, t, u, w, <<>>, FALSE, Blank) /\ c = ChatChunk(choices, usage)
      /\ IsResult(x) /\ w \in BOOLEAN
      /\ used = ApplyOpenAIUsage(Renamed(x), usage) /\ IsResult(used)
  BY <1>a DEF ReadsChat, HoldsChat
<1>. USE <1>c
<1>1. /\ a.result = x /\ a.content = t /\ a.tools = u /\ a.sawChoice = w /\ a.items = <<>>
      /\ a.completed = FALSE /\ a.final = Blank
  BY DEF OpenAIAcc
<1>2. /\ Field(c, "type") = NULL /\ Field(c, "id") = ReplyId /\ Field(c, "usage") = usage
      /\ ChunkChoices(c) = choices /\ ChunkResponse(c).id = NULL
      /\ ChunkResponse(c).usage = NULL /\ TextDelta(c) = <<>>
  BY ChatFields
<1>3. /\ NULL # "response.output_text.delta" /\ NULL # "response.output_item.done"
      /\ NULL # "response.completed" /\ NULL # ReplyId
  BY NullIsAbsent DEF ReplyId
<1>4. TakeId(TakeId(x.id, NULL), ReplyId) = ReplyId
  BY <1>3 DEF TakeId
<1>5. PICK named : named = [x EXCEPT !.id = ReplyId]
  OBVIOUS
<1>6. named = Renamed(x)
  <2>1. [x EXCEPT !.id = ReplyId] = Renamed(x)
    BY EndedIs
  <2>. QED
    BY <1>5, <2>1, Zenon
<1>7. ApplyResponsesUsage(named, NULL) = named
  BY DEF ApplyResponsesUsage
<1>8. PICK response, type : response = ChunkResponse(c) /\ type = NULL
  OBVIOUS
<1>9. /\ named = [a.result EXCEPT !.id = TakeId(TakeId(a.result.id, response.id), Field(c, "id"))]
      /\ used = ApplyOpenAIUsage(ApplyResponsesUsage(named, response.usage), Field(c, "usage"))
  <2>1. response.id = NULL /\ response.usage = NULL
    BY <1>2, <1>8
  <2>2. named = [a.result EXCEPT !.id = TakeId(TakeId(a.result.id, response.id), Field(c, "id"))]
    BY <1>1, <1>2, <1>4, <1>5, <2>1, Zenon
  <2>3. used = ApplyOpenAIUsage(ApplyResponsesUsage(named, response.usage), Field(c, "usage"))
    BY <1>2, <1>6, <1>7, <2>1, Zenon
  <2>. QED
    BY <2>2, <2>3
<1>10. PICK y : y = [used EXCEPT !.finish = AddFinishes(used.finish, choices)]
  OBVIOUS
<1>11. y = Ended(used, AddFinishes(used.finish, choices))
  BY <1>10, EndedIs, Zenon
<1>12. t \o <<>> \o ContentOf(choices) = t \o ContentOf(choices)
  BY ConcatEmptySeq
<1>13. OpenAIChunk(a, c) = AfterChunk(a, c, type, response, choices, used)
  <2>1. Reads(a, c, type, response, choices, named, used)
    BY <1>2, <1>8, <1>9, Zenon DEF Reads
  <2>. QED
    BY <2>1, OpenAIChunkIs, Zenon
<1>14. /\ (a.sawChoice \/ choices # <<>> \/ type = "response.output_text.delta")
          = (w \/ choices # <<>>)
       /\ (a.completed \/ type = "response.completed") = FALSE
  BY <1>1, <1>3, <1>8
<1>15. /\ (IF type = "response.output_item.done" THEN Append(a.items, c.item) ELSE a.items) = <<>>
       /\ (IF type = "response.completed" THEN ParseResponsesCompleted(response) ELSE a.final)
          = Blank
  BY <1>1, <1>3, <1>8, Zenon
<1>. QED
  <2>1. OpenAIChunk(a, c)
        = OpenAIAcc(Ended(used, AddFinishes(used.finish, choices)), t \o ContentOf(choices),
                    ToolDeltas(u, DeltasOf(choices)), w \/ choices # <<>>, <<>>, FALSE, Blank)
    BY <1>1, <1>2, <1>10, <1>11, <1>12, <1>13, <1>14, <1>15, Zenon DEF OpenAIAcc, AfterChunk
  <2>. QED
    BY <1>a, <2>1, Zenon DEF AfterChat

------------------------------------------------------------------------------
(* The calls of chat completions *)

\* A call as far as its arguments are sent.
CallPart(call, body) == Part("call", NULL, call, body, "raw")

\* A call has an id and the name of its tool.
HasNames(call) == call \in [id : {call.id}, tool : {call.tool}]

\* The first delta of a call names it, the others go on with its arguments.
LEMMA ToolDeltaIs ==
    ASSUME NEW tools, NEW d, NEW call, HasNames(call)
    PROVE  /\ d.index \notin DOMAIN tools /\ d.call = call /\ d.body = <<>> =>
                ToolDelta(tools, d) = Put(tools, d.index, CallPart(call, <<>>))
           /\ \A b : d.index \in DOMAIN tools /\ tools[d.index] = CallPart(call, b) /\ d.call = NoCall =>
                ToolDelta(tools, d) = Put(tools, d.index, CallPart(call, b \o d.body))
<1>1. call = [id |-> call.id, tool |-> call.tool]
  BY DEF HasNames
<1>2. ASSUME d.index \notin DOMAIN tools, d.call = call, d.body = <<>>
      PROVE  ToolDelta(tools, d) = Put(tools, d.index, CallPart(call, <<>>))
  <2>1. PICK p : p = Part("call", NULL, NoCall, <<>>, "raw")
    OBVIOUS
  <2>2. p.call.id = NULL /\ p.call.tool = NULL /\ p.body = <<>>
    BY <2>1 DEF Part, NoCall
  <2>3. TakeId(NULL, call.id) = call.id /\ TakeId(NULL, call.tool) = call.tool
    BY DEF TakeId
  <2>4. <<>> \o <<>> = <<>>
    <3>1. <<>> \in Seq({NULL})
      OBVIOUS
    <3>. QED
      BY <3>1, ConcatEmptySeq
  <2>5. ToolDelta(tools, d)
        = Put(tools, d.index, Part("call", NULL, [id   |-> TakeId(p.call.id, d.call.id),
                                                  tool |-> TakeId(p.call.tool, d.call.tool)],
                                   p.body \o d.body, "raw"))
    BY <1>2, <2>1, Zenon DEF ToolDelta
  <2>. QED
    BY <1>1, <1>2, <2>2, <2>3, <2>4, <2>5, Zenon DEF CallPart
<1>3. ASSUME NEW b, d.index \in DOMAIN tools, tools[d.index] = CallPart(call, b), d.call = NoCall
      PROVE  ToolDelta(tools, d) = Put(tools, d.index, CallPart(call, b \o d.body))
  <2>1. PICK p : p = tools[d.index]
    OBVIOUS
  <2>2. p.call = call /\ p.body = b /\ NoCall.id = NULL /\ NoCall.tool = NULL
    BY <1>3, <2>1 DEF CallPart, Part, NoCall
  <2>3. TakeId(call.id, NULL) = call.id /\ TakeId(call.tool, NULL) = call.tool
    BY DEF TakeId
  <2>4. ToolDelta(tools, d)
        = Put(tools, d.index, Part("call", NULL, [id   |-> TakeId(p.call.id, d.call.id),
                                                  tool |-> TakeId(p.call.tool, d.call.tool)],
                                   p.body \o d.body, "raw"))
    BY <1>3, <2>1, Zenon DEF ToolDelta
  <2>. QED
    BY <1>1, <1>3, <2>2, <2>3, <2>4, Zenon DEF CallPart
<1>. QED
  BY <1>2, <1>3

\* The calls among the first i items, the last item up to its o-th token.
CallsUpTo(r, i) == {k \in 1 .. i : r[k].kind = "call"}

\* The tool calls that the openai parser holds at a place of the reply.
ChatTools(r, i, o) == [k \in CallsUpTo(r, i) |-> CallPart(r[k].call, CutAt(r, i, o)[k].body)]

\* Every call before the last item is whole, the last has what was sent of it.
LEMMA ChatToolsAt ==
    ASSUME NEW r, NEW i, NEW o, Place(r, i, o), NEW f, f = ChatTools(r, i, o)
    PROVE  /\ DOMAIN f = CallsUpTo(r, i) /\ f = [k \in DOMAIN f |-> f[k]]
           /\ \A k \in DOMAIN f : k # i => f[k] = CallPart(r[k].call, r[k].body)
           /\ i \in DOMAIN f => f[i] = CallPart(r[i].call, SubSeq(r[i].body, 1, o))
<1>1. i \in 1 .. Len(r) /\ Len(r) \in Nat
  BY ReplyItems DEF Place
<1>2. /\ \A k \in 1 .. i : k < i => CutAt(r, i, o)[k] = r[k]
      /\ CutAt(r, i, o)[i] = [kind |-> r[i].kind, call |-> r[i].call, body |-> SubSeq(r[i].body, 1, o)]
  BY CutItems
<1>3. DOMAIN f = CallsUpTo(r, i) /\ f = [k \in DOMAIN f |-> f[k]]
  BY DEF ChatTools
<1>4. ASSUME NEW k \in DOMAIN f
      PROVE  k \in 1 .. i /\ f[k] = CallPart(r[k].call, CutAt(r, i, o)[k].body)
  BY <1>3 DEF ChatTools, CallsUpTo
<1>5. ASSUME NEW k \in DOMAIN f, k # i PROVE f[k] = CallPart(r[k].call, r[k].body)
  <2>1. k \in 1 .. i /\ k < i
    BY <1>1, <1>4, <1>5
  <2>. QED
    BY <1>2, <1>4, <2>1
<1>6. ASSUME i \in DOMAIN f PROVE f[i] = CallPart(r[i].call, SubSeq(r[i].body, 1, o))
  <2>1. CutAt(r, i, o)[i].body = SubSeq(r[i].body, 1, o)
    <3>1. PICK e, y, z : e = CutAt(r, i, o)[i] /\ y = r[i].kind /\ z = SubSeq(r[i].body, 1, o)
      OBVIOUS
    <3>2. e = [kind |-> y, call |-> r[i].call, body |-> z]
      BY <1>2, <3>1
    <3>3. e.body = z
      BY <3>2
    <3>. QED
      BY <3>1, <3>3
  <2>. QED
    BY <1>4, <1>6, <2>1
<1>. QED
  BY <1>3, <1>5, <1>6

\* There is none before the first item; one more item adds its call if it is one.
LEMMA ToolsBegin ==
    ASSUME NEW r, NEW k \in 1 .. Len(r), IsReply(r), NEW f,
           IF k = 1 THEN f = <<>> ELSE f = ChatTools(r, k - 1, Len(r[k - 1].body)),
           NEW g, g = ChatTools(r, k, 0)
    PROVE  /\ r[k].kind # "call" => g = f
           /\ r[k].kind = "call" =>
                /\ k \notin DOMAIN f
                /\ Put(f, k, CallPart(r[k].call, <<>>)) = g
<1>1. Len(r) \in Nat \ {0}
  BY ReplyItems
<1>2. /\ Place(r, k, 0) /\ SubSeq(r[k].body, 1, 0) = <<>>
  <2>1. r[k].body \in Seq(Tokens(r)) /\ Len(r[k].body) \in Nat \ {0}
    BY ItemIs
  <2>2. 0 \in 0 .. Len(r[k].body)
    BY <2>1
  <2>. QED
    BY <2>1, <2>2, BodyUpTo DEF Place
<1>3. /\ DOMAIN g = CallsUpTo(r, k) /\ g = [j \in DOMAIN g |-> g[j]]
      /\ \A j \in DOMAIN g : j # k => g[j] = CallPart(r[j].call, r[j].body)
      /\ k \in DOMAIN g => g[k] = CallPart(r[k].call, <<>>)
  <2>1. /\ DOMAIN g = CallsUpTo(r, k) /\ g = [j \in DOMAIN g |-> g[j]]
        /\ \A j \in DOMAIN g : j # k => g[j] = CallPart(r[j].call, r[j].body)
        /\ k \in DOMAIN g => g[k] = CallPart(r[k].call, SubSeq(r[k].body, 1, 0))
    BY <1>2, ChatToolsAt
  <2>. QED
    BY <1>2, <2>1
<1>4. /\ DOMAIN f = CallsUpTo(r, k - 1) /\ f = [j \in DOMAIN f |-> f[j]]
      /\ \A j \in DOMAIN f : f[j] = CallPart(r[j].call, r[j].body)
  <2>1. CASE k = 1
    BY <2>1 DEF CallsUpTo
  <2>2. CASE k # 1
    <3>1. PICK i : i = k - 1
      OBVIOUS
    <3>2. i \in 1 .. Len(r) /\ f = ChatTools(r, i, Len(r[i].body))
      BY <1>1, <2>2, <3>1
    <3>3. r[i].body \in Seq(Tokens(r)) /\ Len(r[i].body) \in Nat \ {0}
      BY <3>2, ItemIs
    <3>4. Len(r[i].body) \in 0 .. Len(r[i].body)
      BY <3>3
    <3>5. Place(r, i, Len(r[i].body)) /\ SubSeq(r[i].body, 1, Len(r[i].body)) = r[i].body
      BY <3>2, <3>3, <3>4, BodyUpTo DEF Place
    <3>6. /\ DOMAIN f = CallsUpTo(r, i) /\ f = [j \in DOMAIN f |-> f[j]]
          /\ \A j \in DOMAIN f : j # i => f[j] = CallPart(r[j].call, r[j].body)
          /\ i \in DOMAIN f => f[i] = CallPart(r[i].call, SubSeq(r[i].body, 1, Len(r[i].body)))
      BY <3>2, <3>5, ChatToolsAt
    <3>. QED
      BY <3>1, <3>5, <3>6
  <2>. QED
    BY <2>1, <2>2
<1>5. /\ CallsUpTo(r, k) = CallsUpTo(r, k - 1) \cup (IF r[k].kind = "call" THEN {k} ELSE {})
      /\ k \notin CallsUpTo(r, k - 1)
  BY <1>1 DEF CallsUpTo
<1>6. ASSUME r[k].kind # "call" PROVE g = f
  <2>1. DOMAIN g = DOMAIN f /\ k \notin DOMAIN f
    BY <1>3, <1>4, <1>5, <1>6
  <2>2. \A j \in DOMAIN f : g[j] = f[j]
    BY <1>3, <1>4, <2>1
  <2>. QED
    BY <1>3, <1>4, <2>1, <2>2
<1>7. ASSUME r[k].kind = "call" PROVE k \notin DOMAIN f /\ Put(f, k, CallPart(r[k].call, <<>>)) = g
  <2>1. DOMAIN g = DOMAIN f \cup {k} /\ k \notin DOMAIN f
    BY <1>3, <1>4, <1>5, <1>7
  <2>2. \A j \in DOMAIN f : j # k => g[j] = f[j]
    BY <1>3, <1>4, <2>1
  <2>3. g[k] = CallPart(r[k].call, <<>>)
    BY <1>3, <2>1
  <2>4. PutsTo(f, k, CallPart(r[k].call, <<>>), g)
    BY <1>3, <2>1, <2>2, <2>3, Zenon DEF PutsTo
  <2>. QED
    BY <2>1, <2>4, PutIs, Zenon
<1>. QED
  BY <1>6, <1>7

\* A piece of the last item goes to its call if it is one.
LEMMA ToolsGrow ==
    ASSUME NEW r, NEW i, NEW o, Place(r, i, o), NEW n \in Nat \ {0}, Place(r, i, o + n),
           NEW f, f = ChatTools(r, i, o), NEW g, g = ChatTools(r, i, o + n)
    PROVE  /\ r[i].kind # "call" => g = f
           /\ r[i].kind = "call" =>
                /\ i \in DOMAIN f
                /\ f[i] = CallPart(r[i].call, SubSeq(r[i].body, 1, o))
                /\ Put(f, i, CallPart(r[i].call, SubSeq(r[i].body, 1, o)
                                                 \o SubSeq(r[i].body, o + 1, o + n))) = g
<1>1. i \in 1 .. Len(r) /\ Len(r) \in Nat /\ IsReply(r)
  BY ReplyItems DEF Place
<1>2. /\ DOMAIN f = CallsUpTo(r, i) /\ f = [k \in DOMAIN f |-> f[k]]
      /\ \A k \in DOMAIN f : k # i => f[k] = CallPart(r[k].call, r[k].body)
      /\ i \in DOMAIN f => f[i] = CallPart(r[i].call, SubSeq(r[i].body, 1, o))
  BY ChatToolsAt
<1>3. PICK m : m = o + n
  OBVIOUS
<1>4. /\ DOMAIN g = CallsUpTo(r, i) /\ g = [k \in DOMAIN g |-> g[k]]
      /\ \A k \in DOMAIN g : k # i => g[k] = CallPart(r[k].call, r[k].body)
      /\ i \in DOMAIN g => g[i] = CallPart(r[i].call, SubSeq(r[i].body, 1, m))
  BY <1>3, ChatToolsAt
<1>5. i \in CallsUpTo(r, i) <=> r[i].kind = "call"
  BY <1>1 DEF CallsUpTo
<1>6. ASSUME r[i].kind # "call" PROVE g = f
  BY <1>2, <1>4, <1>5, <1>6
<1>7. ASSUME r[i].kind = "call"
      PROVE  /\ i \in DOMAIN f
             /\ f[i] = CallPart(r[i].call, SubSeq(r[i].body, 1, o))
             /\ Put(f, i, CallPart(r[i].call, SubSeq(r[i].body, 1, o)
                                              \o SubSeq(r[i].body, o + 1, o + n))) = g
  <2>1. i \in DOMAIN f /\ DOMAIN g = DOMAIN f \cup {i}
    BY <1>2, <1>4, <1>5, <1>7
  <2>2. SubSeq(r[i].body, 1, m) = SubSeq(r[i].body, 1, o) \o SubSeq(r[i].body, o + 1, o + n)
    <3>1. r[i].body \in Seq(Tokens(r)) /\ Len(r[i].body) \in Nat
      BY <1>1, ItemIs
    <3>2. o \in 0 .. Len(r[i].body) /\ m \in 0 .. Len(r[i].body)
      BY <1>3 DEF Place
    <3>3. o \in Nat /\ o + n <= Len(r[i].body)
      BY <1>3, <3>1, <3>2
    <3>. QED
      BY <1>3, <3>1, <3>3, BodyGrows
  <2>3. g[i] = CallPart(r[i].call, SubSeq(r[i].body, 1, o) \o SubSeq(r[i].body, o + 1, o + n))
    BY <1>4, <2>1, <2>2
  <2>4. \A k \in DOMAIN f : k # i => g[k] = f[k]
    BY <1>2, <1>4, <2>1
  <2>5. PutsTo(f, i, CallPart(r[i].call, SubSeq(r[i].body, 1, o) \o SubSeq(r[i].body, o + 1, o + n)), g)
    BY <1>4, <2>1, <2>3, <2>4, Zenon DEF PutsTo
  <2>6. Put(f, i, CallPart(r[i].call, SubSeq(r[i].body, 1, o) \o SubSeq(r[i].body, o + 1, o + n))) = g
    BY <2>5, PutIs, Zenon
  <2>7. f[i] = CallPart(r[i].call, SubSeq(r[i].body, 1, o))
    BY <1>2, <2>1
  <2>. QED
    BY <2>1, <2>6, <2>7
<1>. QED
  BY <1>6, <1>7

\* The parts of a chunk of chat completions.
LEMMA ChatParts ==
    ASSUME NEW choices, NEW usage
    PROVE  /\ ChatChunk(choices, usage).choices = choices /\ ChatChunk(choices, usage).usage = usage
           /\ ChatChunk(choices, usage)
              = ChatChunk(ChatChunk(choices, usage).choices, ChatChunk(choices, usage).usage)
BY DEF ChatChunk

\* A delta of a chat completion.
LEMMA ChatDelta ==
    ASSUME NEW a, HoldsChat(a), NEW f, NEW y, NEW z
    PROVE  OpenAIChunk(a, ChatChunk(<<Choice(f, y, z)>>, NULL)) =
             OpenAIAcc(Ended(Renamed(a.result), AddFinish(a.result.finish, f)), a.content \o y,
                       ToolDeltas(a.tools, z), TRUE, <<>>, FALSE, Blank)
<1>. PICK c : c = ChatChunk(<<Choice(f, y, z)>>, NULL)
  OBVIOUS
<1>1. PICK choice, choices, used : /\ choice = Choice(f, y, z) /\ choices = <<choice>>
                                   /\ used = Renamed(a.result)
  OBVIOUS
<1>2. used = ApplyOpenAIUsage(Renamed(a.result), NULL)
  BY <1>1, Zenon DEF ApplyOpenAIUsage
<1>3. IsResult(used) /\ used.finish = a.result.finish
  <2>1. IsResult(a.result)
    BY DEF HoldsChat
  <2>. QED
    BY <1>1, <2>1 DEF Renamed, Result, IsResult
<1>4. choice.finish = f /\ choice.content = y /\ choice.tools = z
  BY <1>1 DEF Choice
<1>5. ContentOf(choices) = y /\ DeltasOf(choices) = z
  BY <1>1, <1>4, ChoicesAre
<1>6. AddFinishes(used.finish, choices) = AddFinish(a.result.finish, f)
  BY <1>1, <1>3, <1>4, NoneAndOne
<1>7. choices # <<>> /\ (a.sawChoice \/ choices # <<>>) = TRUE
  BY <1>1
<1>8. OpenAIChunk(a, c) = AfterChat(a, c.choices, used)
  <2>1. c = ChatChunk(c.choices, c.usage) /\ c.usage = NULL
    BY ChatParts
  <2>2. ReadsChat(a, c, used)
    BY <1>2, <1>3, <2>1, Zenon DEF ReadsChat
  <2>. QED
    BY <2>2, ChatChunkIs
<1>9. c.choices = choices
  BY <1>1, ChatParts
<1>10. OpenAIChunk(a, c) =
         OpenAIAcc(Ended(Renamed(a.result), AddFinish(a.result.finish, f)), a.content \o y,
                   ToolDeltas(a.tools, z), TRUE, <<>>, FALSE, Blank)
  BY <1>1, <1>5, <1>6, <1>7, <1>8, <1>9, Zenon DEF AfterChat
<1>. QED
  BY <1>10

\* A delta that ends nothing keeps all but the id.
LEMMA EndedSame ==
    ASSUME NEW x
    PROVE  /\ Ended(Renamed(x), AddFinish(x.finish, NULL)) = Renamed(x)
           /\ IsResult(x) /\ x.id = ReplyId => Renamed(x) = x
<1>1. AddFinish(x.finish, NULL) = x.finish
  BY Stops
<1>2. Ended(Renamed(x), x.finish) = Renamed(x)
  BY DEF Ended, Renamed, Result
<1>3. ASSUME IsResult(x), x.id = ReplyId PROVE Renamed(x) = x
  BY <1>3 DEF IsResult, Renamed
<1>. QED
  BY <1>1, <1>2, <1>3

\* What chat completions counts: nothing, if the input is none.
ChatCount(n) == IF Input # 0 THEN n ELSE 0

\* The counts that either API of openai sets in a result.
LEMMA OpenAIReports ==
    ASSUME PlaceInv, item # 0, NEW r, IsResult(r)
    PROVE  /\ ApplyOpenAIUsage(r, OpenAIUsage("chat"))
              = Result(r.id, r.finish, TRUE, ChatCount(Input), ChatCount(Output),
                       ChatCount(counts.read), r.created, r.messages)
           /\ ApplyOpenAIUsage(r, OpenAIUsage("responses"))
              = Result(r.id, r.finish, TRUE, Input, Output, counts.read, r.created, r.messages)
           /\ ApplyResponsesUsage(r, OpenAIUsage("responses"))
              = Result(r.id, r.finish, TRUE, Input, Output, counts.read, r.created, r.messages)
<1>1. counts.read \in Nat /\ Input \in Nat /\ Output \in Nat
  BY CountsAre
<1>2. ASSUME NEW api \in {"chat", "responses"}
      PROVE  /\ OpenAIUsage(api) # NULL /\ OpenAIUsage(api).api = api
             /\ OpenAIUsage(api).input = Input
             /\ OpenAIUsage(api).output = Output /\ OpenAIUsage(api).read = counts.read
  <2>1. OpenAIUsage(api) \in [api : {"chat", "responses"}, input : Nat, output : Nat, read : Nat]
    BY <1>1 DEF OpenAIUsage
  <2>2. OpenAIUsage(api) # NULL
    BY <2>1, NullIsAbsent DEF UsageObjects
  <2>. QED
    BY <2>2 DEF OpenAIUsage
<1>3. PICK p, q : p = OpenAIUsage("chat") /\ q = OpenAIUsage("responses")
  OBVIOUS
<1>4. /\ p # NULL /\ p.api = "chat" /\ p.api # "responses" /\ p.input = Input
      /\ p.output = Output /\ p.read = counts.read
  BY <1>2, <1>3
<1>5. /\ q # NULL /\ q.api = "responses" /\ q.api # "chat" /\ q.input = Input
      /\ q.output = Output /\ q.read = counts.read
  BY <1>2, <1>3
<1>6. ApplyOpenAIUsage(r, p) = Result(r.id, r.finish, TRUE, ChatCount(Input), ChatCount(Output),
                                      ChatCount(counts.read), r.created, r.messages)
  <2>1. CASE Input # 0
    <3>1. ApplyOpenAIUsage(r, p) = Counted(r, Input, Output, counts.read)
      BY <1>4, <2>1, Zenon DEF ApplyOpenAIUsage
    <3>2. Counted(r, Input, Output, counts.read)
          = Result(r.id, r.finish, TRUE, Input, Output, counts.read, r.created, r.messages)
      BY ResultCounted, Zenon
    <3>. QED
      BY <2>1, <3>1, <3>2, Zenon DEF ChatCount
  <2>2. CASE Input = 0
    <3>1. ApplyOpenAIUsage(r, p) = Counted(r, 0, 0, 0)
      BY <1>4, <2>2, Zenon DEF ApplyOpenAIUsage, ApplyResponsesUsage
    <3>2. Counted(r, 0, 0, 0) = Result(r.id, r.finish, TRUE, 0, 0, 0, r.created, r.messages)
      BY ResultCounted, Zenon
    <3>. QED
      BY <2>2, <3>1, <3>2, Zenon DEF ChatCount
  <2>. QED
    BY <2>1, <2>2
<1>7. /\ ApplyOpenAIUsage(r, q)
         = Result(r.id, r.finish, TRUE, Input, Output, counts.read, r.created, r.messages)
      /\ ApplyResponsesUsage(r, q)
         = Result(r.id, r.finish, TRUE, Input, Output, counts.read, r.created, r.messages)
  <2>1. Counted(r, Input, Output, counts.read)
        = Result(r.id, r.finish, TRUE, Input, Output, counts.read, r.created, r.messages)
    BY ResultCounted, Zenon
  <2>2. ApplyResponsesUsage(r, q) = Counted(r, Input, Output, counts.read)
    BY <1>5, Zenon DEF ApplyResponsesUsage
  <2>3. ApplyOpenAIUsage(r, q) = ApplyResponsesUsage(r, q)
    BY <1>5, Zenon DEF ApplyOpenAIUsage
  <2>. QED
    BY <2>1, <2>2, <2>3
<1>. QED
  BY <1>3, <1>6, <1>7

\* The chunk of a chat completion that holds its usage.
LEMMA ChatUsage ==
    ASSUME PlaceInv, item # 0, NEW a, HoldsChat(a), NEW c, c = ChatChunk(<<>>, OpenAIUsage("chat"))
    PROVE  OpenAIChunk(a, c) =
             OpenAIAcc(Result(ReplyId, a.result.finish, TRUE, ChatCount(Input), ChatCount(Output),
                              ChatCount(counts.read), a.result.created, a.result.messages),
                       a.content, a.tools, a.sawChoice, <<>>, FALSE, Blank)
<1>1. PICK x, n, e : x = a.result /\ n = Renamed(x) /\ e = <<>>
  OBVIOUS
<1>2. /\ IsResult(n) /\ n.id = ReplyId /\ n.finish = x.finish /\ n.created = x.created
      /\ n.messages = x.messages
  BY <1>1 DEF Renamed, Result, IsResult, HoldsChat
<1>3. PICK used : used = ApplyOpenAIUsage(n, OpenAIUsage("chat"))
  OBVIOUS
<1>4. used = Result(n.id, n.finish, TRUE, ChatCount(Input), ChatCount(Output),
                    ChatCount(counts.read), n.created, n.messages)
  BY <1>2, <1>3, OpenAIReports
<1>5. IsResult(used) /\ used.finish = x.finish
  BY <1>2, <1>4 DEF Result, IsResult
<1>6. /\ a.content \o ContentOf(e) = a.content /\ (a.sawChoice \/ e # <<>>) = a.sawChoice
      /\ AddFinishes(x.finish, e) = x.finish
      /\ ToolDeltas(a.tools, DeltasOf(e)) = a.tools
  <2>1. a.content \o <<>> = a.content /\ (a.sawChoice \/ e # <<>>) = a.sawChoice
    BY <1>1, ConcatEmptySeq DEF HoldsChat
  <2>2. ContentOf(e) = <<>> /\ DeltasOf(e) = <<>>
    BY <1>1, ChoicesAre
  <2>3. AddFinishes(x.finish, e) = x.finish /\ ToolDeltas(a.tools, <<>>) = a.tools
    BY <1>1, NoneAndOne
  <2>. QED
    BY <2>1, <2>2, <2>3, Zenon
<1>7. OpenAIChunk(a, c) = AfterChat(a, e, used)
  <2>1. c = ChatChunk(c.choices, c.usage) /\ c.usage = OpenAIUsage("chat") /\ c.choices = e
    BY <1>1, ChatParts
  <2>2. ReadsChat(a, c, used)
    BY <1>1, <1>3, <1>5, <2>1, Zenon DEF ReadsChat
  <2>3. OpenAIChunk(a, c) = AfterChat(a, c.choices, used)
    BY <2>2, ChatChunkIs
  <2>. QED
    BY <2>1, <2>3
<1>8. Ended(used, x.finish) = Result(ReplyId, x.finish, TRUE, ChatCount(Input), ChatCount(Output),
                                     ChatCount(counts.read), x.created, x.messages)
  BY <1>2, <1>4 DEF Ended, Result
<1>. QED
  BY <1>1, <1>5, <1>6, <1>7, <1>8, Zenon DEF AfterChat

------------------------------------------------------------------------------
(* The openai parser on chat completions, chunk by chunk *)

\* Send, for the chunks of openai: none, one, or two at once.
LEMMA OpenAISends ==
    ASSUME vendor \in {"chat", "responses"}, NEW c, NEW d
    PROVE  /\ Send(<<>>) => acc' = acc
           /\ Send(<<c>>) => acc' = OpenAIChunk(acc, c)
           /\ Send(<<c, d>>) => acc' = OpenAIChunk(OpenAIChunk(acc, c), d)
<1>1. vendor \in Four
  BY DEF Four
<1>2. \A a, b : ReadChunk(vendor, a, b) = OpenAIChunk(a, b)
  BY DEF ReadChunk
<1>3. Send(<<>>) => acc' = acc
  BY <1>1, Sends
<1>4. Send(<<c>>) => acc' = ReadChunk(vendor, acc, c)
  BY <1>1, Sends
<1>5. Send(<<c, d>>) => acc' = ReadChunk(vendor, ReadChunk(vendor, acc, c), d)
  BY <1>1, Sends
<1>. QED
  BY <1>2, <1>3, <1>4, <1>5

\* The result until the last chunk.
Begun == Result(ReplyId, <<>>, FALSE, 0, 0, 0, 0, <<>>)

\* The result after the first chunk: it has the id of the reply and nothing else.
LEMMA BegunIs ==
    /\ IsResult(Begun) /\ Begun.finish = <<>> /\ Begun.id = ReplyId /\ Begun.created = 0
    /\ Begun.messages = <<>> /\ Begun.hasUsage = FALSE
    /\ Renamed(Blank) = Begun /\ Renamed(Begun) = Begun
    /\ Ended(Begun, <<"stop">>) = Result(ReplyId, <<"stop">>, FALSE, 0, 0, 0, 0, <<>>)
    /\ Ended(Begun, <<>>) = Begun
<1>1. IsResult(Blank) /\ Blank = Result(NULL, <<>>, FALSE, 0, 0, 0, 0, <<>>)
  BY BlankIs
<1>2. PICK b : b = Blank
  OBVIOUS
<1>. QED
  BY <1>1, <1>2 DEF Begun, Result, IsResult, Renamed, Ended

\* What the parser holds of the first i items, the last up to its o-th token.
ChatState(x, r, i, o) ==
    OpenAIAcc(x, TextOf(CutAt(r, i, o)), ChatTools(r, i, o), TRUE, <<>>, FALSE, Blank)

\* The parts of what the parser holds.
LEMMA AccParts ==
    ASSUME NEW x, NEW t, NEW u, NEW w, NEW s, NEW d, NEW f, NEW a, a = OpenAIAcc(x, t, u, w, s, d, f)
    PROVE  /\ a.result = x /\ a.content = t /\ a.tools = u /\ a.sawChoice = w /\ a.items = s
           /\ a.completed = d /\ a.final = f
BY DEF OpenAIAcc

\* A state of the chat parser, by its parts.
LEMMA ChatStateHolds ==
    ASSUME NEW x, NEW r, NEW i, NEW o, IsResult(x), Place(r, i, o)
    PROVE  /\ HoldsChat(ChatState(x, r, i, o)) /\ ChatState(x, r, i, o).result = x
           /\ ChatState(x, r, i, o).content = TextOf(CutAt(r, i, o))
           /\ ChatState(x, r, i, o).tools = ChatTools(r, i, o)
           /\ ChatState(x, r, i, o).sawChoice = TRUE
<1>. PICK a : a = ChatState(x, r, i, o)
  OBVIOUS
<1>1. /\ a.result = x /\ a.content = TextOf(CutAt(r, i, o)) /\ a.tools = ChatTools(r, i, o)
      /\ a.sawChoice = TRUE
  BY DEF ChatState, OpenAIAcc
<1>2. TextOf(CutAt(r, i, o)) \in Seq(Tokens(r))
  BY CutText
<1>3. a = OpenAIAcc(a.result, a.content, a.tools, a.sawChoice, <<>>, FALSE, Blank)
  BY <1>1, Zenon DEF ChatState
<1>. QED
  BY <1>1, <1>2, <1>3 DEF HoldsChat

\* The result that the chat parser holds.
ChatResult ==
    IF phase = "items" THEN Begun
    ELSE Result(ReplyId, <<"stop">>, TRUE, ChatCount(Input), ChatCount(Output),
                ChatCount(counts.read), 0, <<>>)

\* The chat parser holds that result, and the text and the calls of what was sent.
ChatInv ==
    acc = IF item = 0 THEN OpenAIAcc(Blank, <<>>, <<>>, FALSE, <<>>, FALSE, Blank)
          ELSE ChatState(ChatResult, reply, item, offset)

\* A call of a reply has its names.
LEMMA CallsHaveNames ==
    ASSUME NEW r, IsReply(r), NEW k \in 1 .. Len(r), r[k].kind = "call"
    PROVE  HasNames(r[k].call)
<1>1. ItemOver(r[k], Tokens(r))
  BY ReplyItems
<1>. QED
  BY <1>1 DEF ItemOver, HasNames

\* The parser has all that comes before the k-th item.
BeforeItem(a, k) ==
    /\ HoldsChat(a) /\ a.result = Begun /\ a.sawChoice = TRUE
    /\ a.tools = IF k = 1 THEN <<>> ELSE ChatTools(reply, k - 1, Len(reply[k - 1].body))
    /\ a.content = TextOf(CutAt(reply, k, 0))

\* The next item of a chat completion begins with a chunk if it is a call.
LEMMA ChatBegins ==
    ASSUME vendor = "chat", IsReply(reply), NEW k \in 1 .. Len(reply), NEW a, BeforeItem(a, k)
    PROVE  /\ reply[k].kind # "call" => Beginning(k) = <<>> /\ a = ChatState(Begun, reply, k, 0)
           /\ reply[k].kind = "call" =>
                \E c : Beginning(k) = <<c>> /\ OpenAIChunk(a, c) = ChatState(Begun, reply, k, 0)
<1>. PICK b : b = ChatState(Begun, reply, k, 0)
  OBVIOUS
<1>0. /\ HoldsChat(a) /\ a.result = Begun /\ a.sawChoice = TRUE
      /\ b = OpenAIAcc(Begun, a.content, ChatTools(reply, k, 0), TRUE, <<>>, FALSE, Blank)
  BY Zenon DEF BeforeItem, ChatState
<1>. USE <1>0
<1>1. PICK f, g : f = a.tools /\ g = ChatTools(reply, k, 0)
  OBVIOUS
<1>2. /\ reply[k].kind # "call" => g = f
      /\ reply[k].kind = "call" => /\ k \notin DOMAIN f
                                   /\ Put(f, k, CallPart(reply[k].call, <<>>)) = g
  <2>1. IF k = 1 THEN f = <<>> ELSE f = ChatTools(reply, k - 1, Len(reply[k - 1].body))
    BY <1>1 DEF BeforeItem
  <2>. QED
    BY <1>1, <2>1, ToolsBegin
<1>3. a = OpenAIAcc(Begun, a.content, f, TRUE, <<>>, FALSE, Blank)
  BY <1>1, Zenon DEF HoldsChat
<1>4. CASE reply[k].kind # "call"
  <2>1. Beginning(k) = <<>>
    BY <1>4 DEF Beginning
  <2>. QED
    BY <1>1, <1>2, <1>3, <1>4, <2>1, Zenon
<1>5. CASE reply[k].kind = "call"
  <2>1. PICK d, z, c : /\ d = [index |-> k, call |-> reply[k].call, body |-> <<>>]
                       /\ z = <<d>> /\ c = ChatChunk(<<Choice(NULL, <<>>, z)>>, NULL)
    OBVIOUS
  <2>2. Beginning(k) = <<c>>
    BY <1>5, <2>1 DEF Beginning
  <2>3. d.index = k /\ d.call = reply[k].call /\ d.body = <<>>
    BY <2>1
  <2>4. ToolDeltas(f, z) = g
    <3>1. ToolDeltas(f, z) = ToolDelta(f, d)
      BY <2>1, NoneAndOne
    <3>2. ToolDelta(f, d) = Put(f, d.index, CallPart(reply[k].call, <<>>))
      BY <1>2, <1>5, <2>3, CallsHaveNames, ToolDeltaIs
    <3>. QED
      BY <1>2, <1>5, <2>3, <3>1, <3>2
  <2>5. OpenAIChunk(a, c) =
             OpenAIAcc(Ended(Renamed(a.result), AddFinish(a.result.finish, NULL)), a.content \o <<>>,
                       ToolDeltas(a.tools, z), TRUE, <<>>, FALSE, Blank)
    BY <2>1, ChatDelta
  <2>6. Ended(Renamed(Begun), AddFinish(Begun.finish, NULL)) = Begun
    BY BegunIs, EndedSame
  <2>7. a.content \o <<>> = a.content
    BY ConcatEmptySeq DEF HoldsChat
  <2>8. OpenAIChunk(a, c) = b
    BY <1>1, <2>4, <2>5, <2>6, <2>7, Zenon
  <2>. QED
    BY <1>5, <2>2, <2>8
<1>. QED
  BY <1>4, <1>5

\* A piece of an item.
LEMMA ChatPiece ==
    ASSUME vendor = "chat", NEW o, Place(reply, item, o), NEW n \in Nat \ {0},
           Place(reply, item, o + n), NEW done, NEW p, p = SubSeq(reply[item].body, o + 1, o + n),
           acc = ChatState(Begun, reply, item, o), Send(Carrying(item, p, done))
    PROVE  acc' = ChatState(Begun, reply, item, o + n)
<1>a. PICK a : a = acc
  OBVIOUS
<1>1. /\ HoldsChat(a) /\ a.result = Begun /\ a.content = TextOf(CutAt(reply, item, o))
      /\ a.tools = ChatTools(reply, item, o) /\ a.sawChoice = TRUE
  <2>1. IsResult(Begun)
    BY BegunIs
  <2>2. PICK x : x = Begun
    OBVIOUS
  <2>3. /\ HoldsChat(ChatState(x, reply, item, o)) /\ ChatState(x, reply, item, o).result = x
        /\ ChatState(x, reply, item, o).content = TextOf(CutAt(reply, item, o))
        /\ ChatState(x, reply, item, o).tools = ChatTools(reply, item, o)
        /\ ChatState(x, reply, item, o).sawChoice = TRUE
    <3>1. IsResult(x)
      BY <2>1, <2>2
    <3>. QED
      BY <3>1, ChatStateHolds
  <2>. QED
    BY <1>a, <2>2, <2>3, Zenon
<1>h. HoldsChat(a)
  BY <1>1
<1>2. PICK f, g, it : /\ f = ChatTools(reply, item, o) /\ g = ChatTools(reply, item, o + n)
                      /\ it = reply[item]
  OBVIOUS
<1>3. /\ it.kind # "call" => g = f
      /\ it.kind = "call" =>
           /\ item \in DOMAIN f
           /\ f[item] = CallPart(it.call, SubSeq(it.body, 1, o))
           /\ Put(f, item, CallPart(it.call, SubSeq(it.body, 1, o) \o p)) = g
  BY <1>2, ToolsGrow
<1>4. TextOf(CutAt(reply, item, o + n)) =
        TextOf(CutAt(reply, item, o)) \o (IF it.kind = "text" THEN p ELSE <<>>)
  BY <1>2, CutMore
<1>5. TextOf(CutAt(reply, item, o)) \o <<>> = TextOf(CutAt(reply, item, o))
  BY <1>1, ConcatEmptySeq DEF HoldsChat
<1>6. Ended(Renamed(Begun), AddFinish(Begun.finish, NULL)) = Begun
  BY BegunIs, EndedSame
<1>7. it.kind \in Kinds /\ item \in 1 .. Len(reply) /\ IsReply(reply)
  BY <1>2, ItemIs DEF Place
<1>8. CASE it.kind = "text"
  <2>1. PICK c : c = ChatChunk(<<Choice(NULL, p, <<>>)>>, NULL)
    OBVIOUS
  <2>2. Carrying(item, p, done) = <<c>>
    BY <1>2, <1>8, <2>1 DEF Carrying
  <2>3. acc' = OpenAIChunk(a, c)
    BY <1>a, <2>2, OpenAISends
  <2>4. OpenAIChunk(a, c) =
             OpenAIAcc(Ended(Renamed(a.result), AddFinish(a.result.finish, NULL)), a.content \o p,
                       ToolDeltas(a.tools, <<>>), TRUE, <<>>, FALSE, Blank)
    BY <1>h, <2>1, ChatDelta
  <2>5. ToolDeltas(f, <<>>) = f
    BY NoneAndOne
  <2>6. g = f /\ TextOf(CutAt(reply, item, o + n)) = a.content \o p
    BY <1>1, <1>3, <1>4, <1>8
  <2>. QED
    BY <1>1, <1>2, <1>6, <2>3, <2>4, <2>5, <2>6, Zenon DEF ChatState
<1>9. CASE it.kind = "call"
  <2>1. PICK d, z, c : /\ d = [index |-> item, call |-> NoCall, body |-> p]
                       /\ z = <<d>> /\ c = ChatChunk(<<Choice(NULL, <<>>, z)>>, NULL)
    OBVIOUS
  <2>2. Carrying(item, p, done) = <<c>>
    BY <1>2, <1>9, <2>1 DEF Carrying
  <2>3. acc' = OpenAIChunk(a, c)
    BY <1>a, <2>2, OpenAISends
  <2>4. OpenAIChunk(a, c) =
             OpenAIAcc(Ended(Renamed(a.result), AddFinish(a.result.finish, NULL)), a.content \o <<>>,
                       ToolDeltas(a.tools, z), TRUE, <<>>, FALSE, Blank)
    BY <1>h, <2>1, ChatDelta
  <2>5. ToolDeltas(f, z) = g
    <3>1. ToolDeltas(f, z) = ToolDelta(f, d)
      BY <2>1, NoneAndOne
    <3>2. d.index = item /\ d.call = NoCall /\ d.body = p
      BY <2>1
    <3>3. HasNames(it.call)
      BY <1>2, <1>7, <1>9, CallsHaveNames
    <3>4. ToolDelta(f, d) = Put(f, d.index, CallPart(it.call, SubSeq(it.body, 1, o) \o d.body))
      <4>1. PICK e : e = SubSeq(it.body, 1, o)
        OBVIOUS
      <4>2. d.index \in DOMAIN f /\ f[d.index] = CallPart(it.call, e)
        BY <1>3, <1>9, <3>2, <4>1
      <4>. QED
        BY <3>2, <3>3, <4>1, <4>2, ToolDeltaIs
    <3>. QED
      BY <1>3, <1>9, <3>1, <3>2, <3>4
  <2>6. TextOf(CutAt(reply, item, o + n)) = a.content \o <<>>
    BY <1>1, <1>4, <1>9
  <2>. QED
    BY <1>1, <1>2, <1>6, <2>3, <2>4, <2>5, <2>6, Zenon DEF ChatState
<1>10. CASE it.kind = "thinking"
  <2>1. Carrying(item, p, done) = <<>>
    BY <1>2, <1>10 DEF Carrying
  <2>2. acc' = a
    BY <1>a, <2>1, OpenAISends
  <2>3. g = f /\ TextOf(CutAt(reply, item, o + n)) = a.content
    BY <1>1, <1>3, <1>4, <1>5, <1>10
  <2>. QED
    BY <1>1, <1>2, <2>2, <2>3, Zenon DEF ChatState, HoldsChat
<1>. QED
  BY <1>7, <1>8, <1>9, <1>10 DEF Kinds

\* The parser has all that comes before an item, if it holds its calls and its text.
LEMMA IsBeforeItem ==
    ASSUME IsReply(reply), NEW k \in 1 .. Len(reply), NEW t, t = TextOf(CutAt(reply, k, 0)),
           NEW u, u = IF k = 1 THEN <<>> ELSE ChatTools(reply, k - 1, Len(reply[k - 1].body)),
           NEW a, a = OpenAIAcc(Begun, t, u, TRUE, <<>>, FALSE, Blank)
    PROVE  BeforeItem(a, k)
<1>1. Place(reply, k, 0)
  <2>1. Len(reply[k].body) \in Nat
    BY ItemIs
  <2>. QED
    BY <2>1 DEF Place
<1>2. t \in Seq(Tokens(reply))
  BY <1>1, CutText
<1>3. /\ a.result = Begun /\ a.content = t /\ a.tools = u /\ a.sawChoice = TRUE
      /\ a = OpenAIAcc(a.result, a.content, a.tools, a.sawChoice, <<>>, FALSE, Blank)
  BY DEF OpenAIAcc
<1>4. HoldsChat(a)
  <2>1. IsResult(a.result)
    BY <1>3, BegunIs
  <2>. QED
    BY <1>2, <1>3, <2>1 DEF HoldsChat
<1>. QED
  BY <1>3, <1>4, Zenon DEF BeforeItem

\* Each action of a chat completion keeps what its parser holds.
LEMMA ChatStep ==
    ASSUME PlaceInv, Next, vendor = "chat", ChatInv
    PROVE  ChatInv'
<1>0. /\ UNCHANGED <<vendor, reply, counts>> /\ PlaceInv'
      /\ IsReply(reply) /\ Len(reply) \in Nat \ {0} /\ item \in Nat
      /\ item # 0 => /\ Place(reply, item, offset) /\ item \in 1 .. Len(reply)
                     /\ offset \in 0 .. Len(reply[item].body)
      /\ item = 0 => offset = 0 /\ phase = "items"
  BY PlaceIs, PlaceStep
<1>1. /\ item = 0 => acc = OpenAIAcc(Blank, <<>>, <<>>, FALSE, <<>>, FALSE, Blank)
      /\ item # 0 /\ phase = "items" => acc = ChatState(Begun, reply, item, offset)
  BY DEF ChatInv, ChatResult
<1>2. ASSUME item' # 0, phase' = "items", acc' = ChatState(Begun, reply, item', offset')
      PROVE  ChatInv'
  BY <1>0, <1>2 DEF ChatInv, ChatResult
<1>3. CASE Start
  <2>1. /\ phase = "items" /\ item = 0 /\ item' = 1 /\ offset' = 0 /\ phase' = "items"
        /\ Send(Opening \o Beginning(1))
    BY <1>3 DEF Start
  <2>2. PICK c : c = ChatChunk(<<Choice(NULL, <<>>, <<>>)>>, NULL)
    OBVIOUS
  <2>3. Opening = <<c>>
    BY <2>2 DEF Opening
  <2>4. PICK a : a = OpenAIChunk(acc, c)
    OBVIOUS
  <2>5. a = OpenAIAcc(Begun, <<>>, <<>>, TRUE, <<>>, FALSE, Blank)
    <3>1. /\ acc.result = Blank /\ acc.content = <<>> /\ acc.tools = <<>> /\ acc.sawChoice = FALSE
          /\ acc = OpenAIAcc(acc.result, acc.content, acc.tools, acc.sawChoice, <<>>, FALSE, Blank)
      BY <1>1, <2>1 DEF OpenAIAcc
    <3>2. IsResult(acc.result)
      BY <3>1, BlankIs
    <3>3. acc.content \in Seq({})
      BY <3>1
    <3>4. HoldsChat(acc)
      BY <3>1, <3>2, <3>3 DEF HoldsChat
    <3>5. OpenAIChunk(acc, c) =
             OpenAIAcc(Ended(Renamed(acc.result), AddFinish(acc.result.finish, NULL)),
                       acc.content \o <<>>, ToolDeltas(acc.tools, <<>>), TRUE, <<>>, FALSE, Blank)
      BY <2>2, <3>4, ChatDelta
    <3>6. Ended(Renamed(Blank), AddFinish(Blank.finish, NULL)) = Begun
      BY BegunIs, EndedSame
    <3>7. ToolDeltas(<<>>, <<>>) = <<>> /\ <<>> \o <<>> = <<>>
      <4>1. PICK e : e = <<>>
        OBVIOUS
      <4>2. ToolDeltas(e, <<>>) = e
        BY NoneAndOne
      <4>. QED
        BY <4>1, <4>2
    <3>. QED
      BY <2>4, <3>1, <3>5, <3>6, <3>7, Zenon
  <2>6. PICK k, t : k = 1 /\ t = <<>>
    OBVIOUS
  <2>7. k \in 1 .. Len(reply) /\ t = TextOf(CutAt(reply, k, 0))
    BY <1>0, <2>6, CutFirst
  <2>8. BeforeItem(a, k)
    <3>1. PICK u : u = IF k = 1 THEN <<>> ELSE ChatTools(reply, k - 1, Len(reply[k - 1].body))
      OBVIOUS
    <3>2. a = OpenAIAcc(Begun, t, u, TRUE, <<>>, FALSE, Blank)
      BY <2>5, <2>6, <3>1
    <3>. QED
      BY <1>0, <2>7, <3>1, <3>2, IsBeforeItem
  <2>9. /\ reply[k].kind # "call" => Beginning(k) = <<>> /\ ChatState(Begun, reply, k, 0) = a
        /\ reply[k].kind = "call" =>
             \E d : Beginning(k) = <<d>> /\ OpenAIChunk(a, d) = ChatState(Begun, reply, k, 0)
    BY <1>0, <2>7, <2>8, ChatBegins
  <2>10. acc' = ChatState(Begun, reply, 1, 0)
    <3>1. CASE reply[k].kind # "call"
      <4>1. Beginning(1) = <<>> /\ ChatState(Begun, reply, 1, 0) = a
        BY <2>6, <2>9, <3>1
      <4>2. Send(<<c>>)
        BY <2>1, <2>3, <4>1, Two
      <4>. QED
        BY <2>4, <4>1, <4>2, OpenAISends
    <3>2. CASE reply[k].kind = "call"
      <4>1. PICK d : Beginning(1) = <<d>> /\ OpenAIChunk(a, d) = ChatState(Begun, reply, 1, 0)
        BY <2>6, <2>9, <3>2
      <4>2. Send(<<c, d>>)
        BY <2>1, <2>3, <4>1, Two
      <4>. QED
        BY <2>4, <4>1, <4>2, OpenAISends
    <3>. QED
      BY <3>1, <3>2
  <2>. QED
    BY <1>2, <2>1, <2>10
<1>4. CASE SendPiece
  <2>1. PICK n \in 1 .. MaxPiece :
          /\ offset + n <= Len(reply[item].body) /\ offset' = offset + n
          /\ Send(Carrying(item, SubSeq(reply[item].body, offset + 1, offset + n),
                           offset' = Len(reply[item].body)))
    BY <1>4 DEF SendPiece
  <2>2. item' = item /\ phase' = "items" /\ phase = "items" /\ item # 0
    BY <1>4 DEF SendPiece, AtEnd
  <2>3. n \in Nat \ {0} /\ Place(reply, item, offset) /\ Place(reply, item, offset + n)
    <3>1. n \in Nat \ {0}
      BY PiecesAreBounded
    <3>2. item \in 1 .. Len(reply) /\ Len(reply[item].body) \in Nat /\ Place(reply, item, offset)
      BY <2>2, PlaceIs
    <3>3. offset \in 0 .. Len(reply[item].body)
      BY <3>2 DEF Place
    <3>4. offset + n \in 0 .. Len(reply[item].body)
      BY <2>1, <3>1, <3>2, <3>3
    <3>. QED
      BY <3>1, <3>2, <3>4 DEF Place
  <2>4. PICK done, p : /\ p = SubSeq(reply[item].body, offset + 1, offset + n)
                       /\ done = (offset' = Len(reply[item].body))
    OBVIOUS
  <2>5. Send(Carrying(item, p, done)) /\ acc = ChatState(Begun, reply, item, offset)
    BY <1>1, <2>1, <2>2, <2>4, Zenon
  <2>6. acc' = ChatState(Begun, reply, item, offset + n)
    BY <2>3, <2>4, <2>5, ChatPiece
  <2>. QED
    BY <1>2, <2>1, <2>2, <2>6
<1>5. CASE NextItem
  <2>1. /\ phase = "items" /\ item > 0 /\ AtEnd /\ item < Len(reply) /\ item' = item + 1
        /\ offset' = 0 /\ phase' = "items" /\ Send(Beginning(item + 1))
    BY <1>5 DEF NextItem
  <2>2. PICK k, t : k = item + 1 /\ t = TextOf(CutAt(reply, item, offset))
    OBVIOUS
  <2>3. item \in 1 .. Len(reply) /\ k \in 1 .. Len(reply) /\ k - 1 = item /\ item # 0 /\ k # 1
    BY <1>0, <2>1, <2>2
  <2>4. offset = Len(reply[item].body)
    BY <2>1, <2>3 DEF AtEnd
  <2>5. t = TextOf(CutAt(reply, k, 0))
    <3>1. Place(reply, item, Len(reply[item].body)) /\ item < Len(reply)
      BY <1>0, <2>1, <2>4
    <3>2. TextOf(CutAt(reply, item + 1, 0)) = TextOf(CutAt(reply, item, Len(reply[item].body)))
      BY <3>1, CutNext
    <3>. QED
      BY <2>2, <2>4, <3>2
  <2>6. PICK a : a = acc
    OBVIOUS
  <2>7. BeforeItem(a, k)
    <3>1. PICK u : u = IF k = 1 THEN <<>> ELSE ChatTools(reply, k - 1, Len(reply[k - 1].body))
      OBVIOUS
    <3>2. u = ChatTools(reply, item, offset)
      BY <2>3, <2>4, <3>1
    <3>3. a = OpenAIAcc(Begun, t, u, TRUE, <<>>, FALSE, Blank)
      BY <1>1, <2>1, <2>2, <2>3, <2>6, <3>2 DEF ChatState
    <3>. QED
      BY <1>0, <2>3, <2>5, <3>1, <3>3, IsBeforeItem
  <2>8. /\ reply[k].kind # "call" => Beginning(k) = <<>> /\ ChatState(Begun, reply, k, 0) = a
        /\ reply[k].kind = "call" =>
             \E d : Beginning(k) = <<d>> /\ OpenAIChunk(a, d) = ChatState(Begun, reply, k, 0)
    BY <1>0, <2>3, <2>7, ChatBegins
  <2>9. Send(Beginning(k))
    BY <2>1, <2>2
  <2>10. acc' = ChatState(Begun, reply, k, 0)
    <3>1. CASE reply[k].kind # "call"
      BY <2>6, <2>8, <2>9, <3>1, OpenAISends
    <3>2. CASE reply[k].kind = "call"
      <4>1. PICK d : Beginning(k) = <<d>> /\ OpenAIChunk(a, d) = ChatState(Begun, reply, k, 0)
        BY <2>8, <3>2
      <4>2. Send(<<d>>)
        BY <2>9, <4>1
      <4>. QED
        BY <2>6, <4>1, <4>2, OpenAISends
    <3>. QED
      BY <3>1, <3>2
  <2>. QED
    BY <1>2, <2>1, <2>2, <2>3, <2>10
<1>6. CASE Finish
  <2>1. /\ phase = "items" /\ item = Len(reply) /\ phase' = "end" /\ item # 0
        /\ item' = item /\ offset' = offset
        /\ \E ending \in Endings : Send(ending)
    BY <1>0, <1>6 DEF Finish
  <2>2. PICK c, d : /\ c = ChatChunk(<<Choice("stop", <<>>, <<>>)>>, NULL)
                    /\ d = ChatChunk(<<>>, OpenAIUsage("chat"))
    OBVIOUS
  <2>3. Endings = {<<c, d>>}
    BY <2>2 DEF Endings
  <2>4. acc' = OpenAIChunk(OpenAIChunk(acc, c), d)
    <3>1. Send(<<c, d>>)
      BY <2>1, <2>3
    <3>. QED
      BY <3>1, OpenAISends
  <2>5. PICK x, t, u : x = Begun /\ t = TextOf(CutAt(reply, item, offset)) /\ u = ChatTools(reply, item, offset)
    OBVIOUS
  <2>6. /\ HoldsChat(acc) /\ acc.result = x /\ acc.content = t /\ acc.tools = u
    <3>1. /\ HoldsChat(ChatState(x, reply, item, offset)) /\ ChatState(x, reply, item, offset).result = x
          /\ ChatState(x, reply, item, offset).content = TextOf(CutAt(reply, item, offset))
          /\ ChatState(x, reply, item, offset).tools = ChatTools(reply, item, offset)
          /\ ChatState(x, reply, item, offset).sawChoice = TRUE
      <4>1. IsResult(x) /\ Place(reply, item, offset)
        BY <1>0, <2>1, <2>5, BegunIs
      <4>. QED
        BY <4>1, ChatStateHolds
    <3>. QED
      BY <1>1, <2>1, <2>5, <3>1, Zenon
  <2>7. PICK a, y : a = OpenAIChunk(acc, c) /\ y = Result(ReplyId, <<"stop">>, FALSE, 0, 0, 0, 0, <<>>)
    OBVIOUS
  <2>8. a = OpenAIAcc(y, t, u, TRUE, <<>>, FALSE, Blank)
    <3>1. a = OpenAIAcc(Ended(Renamed(acc.result), AddFinish(acc.result.finish, "stop")),
                        acc.content \o <<>>, ToolDeltas(acc.tools, <<>>), TRUE, <<>>, FALSE, Blank)
      BY <2>2, <2>6, <2>7, ChatDelta
    <3>2. Ended(Renamed(Begun), AddFinish(Begun.finish, "stop")) = y
      BY <2>7, BegunIs, Stops, Zenon
    <3>3. ToolDeltas(u, <<>>) = u
      BY NoneAndOne
    <3>4. t \o <<>> = t
      BY <2>6, ConcatEmptySeq DEF HoldsChat
    <3>. QED
      BY <2>5, <2>6, <3>1, <3>2, <3>3, <3>4, Zenon
  <2>9. /\ HoldsChat(a) /\ a.result = y /\ a.content = t /\ a.tools = u /\ a.sawChoice = TRUE
        /\ y.finish = <<"stop">> /\ y.created = 0 /\ y.messages = <<>>
    <3>1. IsResult(y) /\ y.finish = <<"stop">> /\ y.created = 0 /\ y.messages = <<>>
      BY <2>7 DEF Result, IsResult
    <3>2. /\ a.result = y /\ a.content = t /\ a.tools = u /\ a.sawChoice = TRUE
          /\ a = OpenAIAcc(a.result, a.content, a.tools, a.sawChoice, <<>>, FALSE, Blank)
      BY <2>8 DEF OpenAIAcc
    <3>3. \E T : t \in Seq(T)
      BY <2>6 DEF HoldsChat
    <3>. QED
      BY <3>1, <3>2, <3>3 DEF HoldsChat
  <2>10. OpenAIChunk(a, d) =
             OpenAIAcc(Result(ReplyId, a.result.finish, TRUE, ChatCount(Input), ChatCount(Output),
                              ChatCount(counts.read), a.result.created, a.result.messages),
                       a.content, a.tools, a.sawChoice, <<>>, FALSE, Blank)
    <3>1. HoldsChat(a) /\ item # 0
      BY <2>1, <2>9
    <3>. QED
      BY <2>2, <3>1, ChatUsage
  <2>11. PICK z : z = Result(ReplyId, <<"stop">>, TRUE, ChatCount(Input), ChatCount(Output),
                             ChatCount(counts.read), 0, <<>>)
    OBVIOUS
  <2>12. acc' = ChatState(z, reply, item, offset)
    BY <2>4, <2>5, <2>7, <2>9, <2>10, <2>11, Zenon DEF ChatState
  <2>13. ChatResult' = z
    <3>1. Input' = Input /\ Output' = Output
      BY <1>0, <2>1, CountsStay
    <3>. QED
      BY <1>0, <2>1, <2>11, <3>1 DEF ChatResult, ChatCount
  <2>. QED
    BY <1>0, <2>1, <2>12, <2>13 DEF ChatInv
<1>7. ~ FinishBare /\ ~ StopEarly
  BY DEF FinishBare, StopEarly
<1>. QED
  BY <1>3, <1>4, <1>5, <1>6, <1>7 DEF Next

\* A result that is named, ended and given its messages.
EndedWith(q, i, s, m) == [q EXCEPT !.id = i, !.finish = AddFinish(@, s), !.messages = m]

\* The parts of such a result.
LEMMA ResultEnded ==
    ASSUME NEW q, IsResult(q), NEW i, NEW s, NEW m
    PROVE  EndedWith(q, i, s, m)
           = Result(i, AddFinish(q.finish, s), q.hasUsage, q.input, q.output, q.read, q.created, m)
<1>1. PICK x : x = [q EXCEPT !.id = i]
  OBVIOUS
<1>2. x = Result(i, q.finish, q.hasUsage, q.input, q.output, q.read, q.created, q.messages)
  BY <1>1, ResultSet, Zenon
<1>3. IsResult(x) /\ x.finish = q.finish
  BY <1>2 DEF Result, IsResult
<1>4. PICK y : y = [x EXCEPT !.finish = AddFinish(x.finish, s)]
  OBVIOUS
<1>5. y = Result(i, AddFinish(q.finish, s), q.hasUsage, q.input, q.output, q.read, q.created,
                 q.messages)
  <2>1. y = Result(x.id, AddFinish(x.finish, s), x.hasUsage, x.input, x.output, x.read, x.created,
                   x.messages)
    <3>1. IsResult(x)
      BY <1>3
    <3>. QED
      BY <1>4, <3>1, ResultSet, Zenon
  <2>. QED
    BY <1>2, <1>3, <2>1 DEF Result
<1>6. IsResult(y)
  BY <1>5 DEF Result, IsResult
<1>7. PICK z : z = [y EXCEPT !.messages = m]
  OBVIOUS
<1>8. z = Result(y.id, y.finish, y.hasUsage, y.input, y.output, y.read, y.created, m)
  BY <1>6, <1>7, ResultGiven, Zenon
<1>9. z = Result(i, AddFinish(q.finish, s), q.hasUsage, q.input, q.output, q.read, q.created, m)
  BY <1>5, <1>8 DEF Result
<1>10. EndedWith(q, i, s, m) = z
  BY <1>1, <1>4, <1>7, ZenonT(30) DEF EndedWith
<1>. QED
  BY <1>9, <1>10

\* The text of a message whose first part is its only text.
LEMMA TextOfFirst ==
    ASSUME NEW n \in Nat, NEW m, DOMAIN m = 1 .. n + 1, NEW T, m[1].body \in Seq(T),
           m[1].kind = "text", \A k \in 2 .. n + 1 : m[k].kind # "text"
    PROVE  TextOf(m) = m[1].body
<1>. DEFINE First(j) == [k \in 1 .. j + 1 |-> m[k]]
            C == {j \in 0 .. n : TextOf(First(j)) = m[1].body}
<1>1. m[1].body \o <<>> = m[1].body
  BY ConcatEmptySeq
<1>2. 0 \in C
  <2>1. PICK e, w : e = <<>> /\ w = First(0)
    OBVIOUS
  <2>2. PICK z : z = 0
    OBVIOUS
  <2>3. /\ z \in Nat /\ DOMAIN e = 1 .. z /\ DOMAIN w = 1 .. z + 1
        /\ \A i \in 1 .. z : e[i] = w[i]
    BY <2>1, <2>2
  <2>4. TextOf(w) = IF z = 0 THEN TextBody(w[1]) ELSE TextOf(e) \o TextBody(w[z + 1])
    BY <2>3, TextStep
  <2>5. w[1] = m[1]
    BY <2>1
  <2>. QED
    BY <2>1, <2>2, <2>4, <2>5 DEF TextBody
<1>3. ASSUME NEW j \in 0 .. n - 1, j \in C PROVE j + 1 \in C
  <2>1. PICK i, s, w : i = j + 1 /\ s = First(j) /\ w = First(j + 1)
    OBVIOUS
  <2>2. i \in Nat /\ i # 0 /\ i \in 1 .. n /\ i + 1 \in 2 .. n + 1
    BY <2>1
  <2>3. DOMAIN s = 1 .. i /\ DOMAIN w = 1 .. i + 1 /\ \A k \in 1 .. i : s[k] = w[k]
    BY <2>1, <2>2
  <2>4. TextOf(w) = IF i = 0 THEN TextBody(w[1]) ELSE TextOf(s) \o TextBody(w[i + 1])
    BY <2>2, <2>3, TextStep
  <2>5. w[i + 1] = m[i + 1]
    BY <2>1, <2>2
  <2>6. TextBody(w[i + 1]) = <<>>
    BY <2>2, <2>5 DEF TextBody
  <2>7. TextOf(s) = m[1].body
    BY <1>3, <2>1
  <2>8. TextOf(w) = m[1].body
    BY <1>1, <2>2, <2>4, <2>6, <2>7
  <2>. QED
    BY <2>1, <2>8
<1>4. C = 0 .. n
  <2>1. C \in SUBSET (0 .. n)
    OBVIOUS
  <2>. HIDE DEF C
  <2>. QED
    BY <1>2, <1>3, <2>1, UpTo
<1>5. TextOf(First(n)) = m[1].body
  <2>1. n \in 0 .. n
    OBVIOUS
  <2>2. n \in C
    BY <1>4, <2>1
  <2>. QED
    BY <2>2, Zenon
<1>6. TextOf(m) = TextOf(First(n))
  <2>1. PICK w, c : w = First(n) /\ c = n + 1
    OBVIOUS
  <2>2. /\ c \in Nat /\ DOMAIN m = 1 .. c /\ DOMAIN w = 1 .. c
        /\ \A i \in 1 .. c : TextBody(m[i]) = TextBody(w[i])
    BY <2>1
  <2>. QED
    BY <2>1, <2>2, TextSame
<1>. QED
  BY <1>5, <1>6

\* The message of a chat completion: its text, and its calls in their order.
ChatMessage(content, tools) ==
    LET indexes == Ordered(DOMAIN tools)
    IN  <<Part("text", NULL, NULL, content, "raw")>> \o [i \in DOMAIN indexes |-> tools[indexes[i]]]

\* f has calls, under numbers of the first i items.
AreCalls(f, i) == DOMAIN f \in SUBSET (1 .. i) /\ \A k \in DOMAIN f : f[k].kind = "call"

\* Such a message has the text that was streamed, and every call.
LEMMA ChatMessages ==
    ASSUME NEW i \in Nat, NEW f, AreCalls(f, i), NEW T, NEW t \in Seq(T), NEW m, m = ChatMessage(t, f)
    PROVE  /\ TextOf(m) = t
           /\ \A k \in DOMAIN f : \E j \in DOMAIN m : m[j] = f[k]
<1>1. PICK S : S = DOMAIN f
  OBVIOUS
<1>2. DOMAIN f = S /\ S \in SUBSET (1 .. i) /\ \A k \in S : f[k].kind = "call"
  BY <1>1 DEF AreCalls
<1>3. Listed(S)
  BY <1>2, ListExists
<1>4. PICK c \in Nat : Cardinality(S) = c /\ \E e : Lists(e, S, c)
  BY <1>3 DEF Listed
<1>5. PICK e : Lists(e, S, c)
  BY <1>4
<1>6. Ordered(S) = e
  <2>1. S \in SUBSET Int
    BY <1>2
  <2>. QED
    BY <1>4, <1>5, <2>1, OrderedIs
<1>7. e \in [1 .. c -> S] /\ \A x \in S : \E k \in 1 .. c : e[k] = x
  BY <1>5 DEF Lists
<1>8. PICK p, g : p = Part("text", NULL, NULL, t, "raw") /\ g = [k \in 1 .. c |-> f[e[k]]]
  OBVIOUS
<1>9. m = <<p>> \o g
  BY <1>2, <1>6, <1>7, <1>8 DEF ChatMessage
<1>10. /\ DOMAIN m = 1 .. c + 1 /\ m[1] = p
       /\ \A k \in 2 .. c + 1 : m[k] = g[k - 1]
       /\ \A k \in 1 .. c : m[k + 1] = g[k]
  BY <1>8, <1>9
<1>11. \A k \in 2 .. c + 1 : m[k].kind # "text"
  <2>1. ASSUME NEW k \in 2 .. c + 1 PROVE m[k].kind # "text"
    <3>1. PICK j : j = k - 1
      OBVIOUS
    <3>2. j \in 1 .. c /\ m[k] = g[j]
      BY <1>10, <3>1
    <3>3. g[j] = f[e[j]] /\ e[j] \in S
      BY <1>7, <1>8, <3>2
    <3>. QED
      BY <1>2, <3>2, <3>3
  <2>. QED
    BY <2>1
<1>12. m[1].kind = "text" /\ m[1].body = t
  BY <1>8, <1>10 DEF Part
<1>13. TextOf(m) = t
  BY <1>10, <1>11, <1>12, TextOfFirst
<1>14. ASSUME NEW k \in S PROVE \E j \in DOMAIN m : m[j] = f[k]
  <2>1. PICK j \in 1 .. c : e[j] = k
    BY <1>7
  <2>2. m[j + 1] = f[k] /\ j + 1 \in DOMAIN m
    BY <1>8, <1>10, <2>1
  <2>. QED
    BY <2>2
<1>. QED
  BY <1>1, <1>13, <1>14

\* A chat completion, answered whole: the same message, with every call in full.
LEMMA ChatWhole ==
    ASSUME PlaceInv, item = Len(reply), offset = Len(reply[item].body), vendor = "chat",
           NEW m, m = ChatMessage(TextOf(CutAt(reply, item, offset)), ChatTools(reply, item, offset))
    PROVE  Whole = Result(ReplyId, <<"stop">>, TRUE, ChatCount(Input), ChatCount(Output),
                          ChatCount(counts.read), 0, m)
<1>0. /\ IsReply(reply) /\ item # 0 /\ item \in Nat /\ Place(reply, item, offset)
      /\ DOMAIN reply = 1 .. item
  BY PlaceIs, ReplyItems
<1>1. PICK t, u, S : /\ t = TextOf(reply) /\ u = OpenAIUsage("chat")
                     /\ S = {i \in DOMAIN reply : reply[i].kind = "call"}
  OBVIOUS
<1>2. PICK e : e = Ordered(S)
  OBVIOUS
<1>3. PICK calls : calls = [k \in DOMAIN e |-> LET it == reply[e[k]]
                                               IN  Part("call", NULL, it.call, it.body, "raw")]
  OBVIOUS
<1>4. PICK w : w = <<Part("text", NULL, NULL, t, "raw")>> \o calls
  OBVIOUS
<1>5. PICK object : object = [id |-> ReplyId, finish |-> "stop", usage |-> u, output |-> w]
  OBVIOUS
<1>6. Whole = ParseOpenAIJSON(object)
  BY <1>1, <1>2, <1>3, <1>4, <1>5, Zenon DEF Whole
<1>7. CutAt(reply, item, offset) = reply
  BY <1>0, CutNext
<1>8. w = m
  <2>1. PICK f : f = ChatTools(reply, item, offset)
    OBVIOUS
  <2>2. DOMAIN f = S /\ \A k \in S : f[k] = CallPart(reply[k].call, reply[k].body)
    <3>1. S = CallsUpTo(reply, item)
      BY <1>0, <1>1 DEF CallsUpTo
    <3>2. \A k \in S : f[k] = CallPart(reply[k].call, reply[k].body)
      BY <1>7, <2>1, <3>1 DEF ChatTools
    <3>3. DOMAIN f = S
      BY <2>1, <3>1 DEF ChatTools
    <3>. QED
      BY <3>2, <3>3
  <2>3. \A k \in DOMAIN e : e[k] \in S
    <3>1. S \in SUBSET (1 .. item)
      BY <1>0, <1>1
    <3>2. Listed(S)
      BY <1>0, <3>1, ListExists
    <3>3. PICK c \in Nat : Cardinality(S) = c /\ \E l : Lists(l, S, c)
      BY <3>2 DEF Listed
    <3>4. PICK l : Lists(l, S, c)
      BY <3>3
    <3>5. S \in SUBSET Int
      BY <3>1
    <3>6. e = l
      BY <1>2, <3>3, <3>4, <3>5, OrderedIs
    <3>. QED
      BY <3>4, <3>6 DEF Lists
  <2>4. \A k \in DOMAIN e : CallPart(reply[e[k]].call, reply[e[k]].body) = f[e[k]]
    BY <2>2, <2>3
  <2>5. calls = [k \in DOMAIN e |-> f[e[k]]]
    <3>1. calls = [k \in DOMAIN e |-> CallPart(reply[e[k]].call, reply[e[k]].body)]
      BY <1>3, Zenon DEF CallPart
    <3>. QED
      BY <2>4, <3>1, Zenon
  <2>6. m = <<Part("text", NULL, NULL, t, "raw")>> \o [k \in DOMAIN e |-> f[e[k]]]
    BY <1>1, <1>2, <1>7, <2>1, <2>2, Zenon DEF ChatMessage
  <2>. QED
    BY <1>4, <2>5, <2>6
<1>9. PICK q, b : q = ApplyOpenAIUsage(b, u) /\ b = Blank
  OBVIOUS
<1>10. q = Result(NULL, <<>>, TRUE, ChatCount(Input), ChatCount(Output), ChatCount(counts.read),
                  0, <<>>)
  <2>1. IsResult(b) /\ b.id = NULL /\ b.finish = <<>> /\ b.created = 0 /\ b.messages = <<>>
    BY <1>9, BlankIs
  <2>2. ApplyOpenAIUsage(b, OpenAIUsage("chat"))
        = Result(b.id, b.finish, TRUE, ChatCount(Input), ChatCount(Output),
                 ChatCount(counts.read), b.created, b.messages)
    BY <1>0, <2>1, OpenAIReports
  <2>. QED
    BY <1>1, <1>9, <2>1, <2>2
<1>11. PICK z : z = EndedWith(q, ReplyId, "stop", w)
  OBVIOUS
<1>12. z = Result(ReplyId, AddFinish(q.finish, "stop"), q.hasUsage, q.input, q.output, q.read,
                  q.created, w)
  <2>1. IsResult(q)
    BY <1>10 DEF Result, IsResult
  <2>. QED
    BY <1>11, <2>1, ResultEnded
<1>13. ParseOpenAIJSON(object) = z
  <2>1. object.id = ReplyId /\ object.finish = "stop" /\ object.usage = u /\ object.output = w
    BY <1>5
  <2>. QED
    BY <1>9, <1>11, <2>1, Zenon DEF ParseOpenAIJSON, EndedWith
<1>14. /\ AddFinish(q.finish, "stop") = <<"stop">> /\ q.hasUsage = TRUE /\ q.input = ChatCount(Input)
       /\ q.output = ChatCount(Output) /\ q.read = ChatCount(counts.read) /\ q.created = 0
  <2>1. /\ q.finish = <<>> /\ q.hasUsage = TRUE /\ q.input = ChatCount(Input)
        /\ q.output = ChatCount(Output) /\ q.read = ChatCount(counts.read) /\ q.created = 0
    BY <1>10 DEF Result
  <2>. QED
    BY <2>1, Stops
<1>. QED
  BY <1>6, <1>8, <1>12, <1>13, <1>14, Zenon

\* What the invariant says of a chat completion: its span is the one of the whole
\* reply, or has what was sent.
LEMMA ChatKeeps ==
    ASSUME PlaceInv, vendor = "chat", ChatInv
    PROVE  StreamedAsWhole /\ CutKeepsSent
<1>1. /\ IsReply(reply) /\ item \in Nat /\ Len(reply) \in Nat
      /\ item # 0 => /\ Place(reply, item, offset) /\ item \in 1 .. Len(reply)
                     /\ offset \in 0 .. Len(reply[item].body)
      /\ item = 0 => offset = 0 /\ phase = "items"
  BY PlaceIs
<1>2. PICK x, t, f, w : /\ x = acc.result /\ t = acc.content /\ f = acc.tools /\ w = acc.sawChoice
  OBVIOUS
<1>3. PICK m, p : m = (IF w THEN ChatMessage(t, f) ELSE <<>>) /\ p = Parsed
  OBVIOUS
<1>4. /\ acc.completed = FALSE
      /\ item = 0 => x = Blank /\ w = FALSE
      /\ item # 0 => /\ x = ChatResult /\ t = TextOf(CutAt(reply, item, offset))
                     /\ f = ChatTools(reply, item, offset) /\ w = TRUE
  <2>1. CASE item = 0
    BY <1>2, <2>1 DEF ChatInv, OpenAIAcc
  <2>2. CASE item # 0
    BY <1>2, <2>2 DEF ChatInv, ChatState, OpenAIAcc
  <2>. QED
    BY <2>1, <2>2
<1>5. p = [x EXCEPT !.messages = m]
  <2>1. p = ParseOpenAIChunks(acc)
    BY <1>3, <1>4 DEF Parsed, ParseStream, ParseResponsesChunks
  <2>. QED
    BY <1>2, <1>3, <2>1, Zenon DEF ParseOpenAIChunks, ChatMessage
<1>6. PICK fi, h, i, o, c : x = Result(IF item = 0 THEN NULL ELSE ReplyId, fi, h, i, o, c, 0, <<>>)
  <2>1. CASE item = 0
    <3>1. x = Result(NULL, <<>>, FALSE, 0, 0, 0, 0, <<>>)
      BY <1>4, <2>1, BlankIs
    <3>. QED
      BY <2>1, <3>1
  <2>2. CASE item # 0
    BY <1>4, <2>2 DEF ChatResult, Begun
  <2>. QED
    BY <2>1, <2>2
<1>7. p = Result(x.id, x.finish, x.hasUsage, x.input, x.output, x.read, x.created, m)
  <2>1. IsResult(x)
    BY <1>6 DEF Result, IsResult
  <2>. QED
    BY <1>5, <2>1, ResultGiven, Zenon
<1>8. p.messages = m
  BY <1>7 DEF Result
<1>9. CASE item = 0
  <2>1. m = <<>> /\ DOMAIN m = 1 .. 0
    BY <1>3, <1>4, <1>9
  <2>2. TextOf(m) = <<>> /\ TextOf(SentItems) = <<>>
    BY <1>1, <1>9, <2>1, TextOfNone, SentIsCut, CutFirst
  <2>3. KeepsCalls(m)
    BY <1>9 DEF KeepsCalls
  <2>4. SentCalls \subseteq CallsOf(m)
    BY <2>3, SentCallsKept
  <2>. QED
    BY <1>1, <1>3, <1>8, <1>9, <2>2, <2>4 DEF StreamedAsWhole, CutKeepsSent
<1>10. CASE item # 0
  <2>1. m = ChatMessage(t, f)
    BY <1>3, <1>4, <1>10
  <2>2. t \in Seq(Tokens(reply))
    BY <1>1, <1>4, <1>10, CutText
  <2>3. TextOf(m) = t /\ \A k \in CallsUpTo(reply, item) : \E j \in DOMAIN m : m[j] = f[k]
    <3>1. DOMAIN f = CallsUpTo(reply, item)
      BY <1>4, <1>10 DEF ChatTools
    <3>2. ASSUME NEW k \in DOMAIN f PROVE f[k].kind = "call"
      <4>1. f[k] = CallPart(reply[k].call, CutAt(reply, item, offset)[k].body)
        BY <1>4, <1>10, <3>1 DEF ChatTools
      <4>. QED
        BY <4>1 DEF CallPart, Part
    <3>3. AreCalls(f, item)
      BY <3>1, <3>2 DEF AreCalls, CallsUpTo
    <3>. QED
      BY <1>1, <2>1, <2>2, <3>1, <3>3, ChatMessages
  <2>4. TextOf(m) = TextOf(SentItems)
    BY <1>4, <1>10, <2>3, SentIsCut
  <2>5. KeepsCalls(m)
    <3>1. SUFFICES ASSUME NEW k \in 1 .. item, reply[k].kind = "call",
                          k = item => offset = Len(reply[k].body)
                   PROVE  \E j \in DOMAIN m : m[j].kind = "call" /\ m[j].call = reply[k].call
                                              /\ m[j].body = reply[k].body
      BY DEF KeepsCalls
    <3>2. k \in CallsUpTo(reply, item)
      BY <3>1 DEF CallsUpTo
    <3>3. PICK j \in DOMAIN m : m[j] = f[k]
      BY <2>3, <3>2
    <3>4. f[k] = CallPart(reply[k].call, CutAt(reply, item, offset)[k].body)
      BY <1>4, <1>10, <3>2 DEF ChatTools
    <3>5. CutAt(reply, item, offset)[k].body = reply[k].body
      <4>1. CASE k < item
        <5>1. CutAt(reply, item, offset)[k] = reply[k]
          BY <4>1, Zenon DEF CutAt
        <5>. QED
          BY <5>1
      <4>2. CASE k = item
        <5>1. CutAt(reply, item, offset) = [n \in 1 .. item |-> reply[n]]
          <6>1. offset = Len(reply[item].body) /\ Place(reply, item, Len(reply[item].body))
            BY <1>1, <1>10, <3>1, <4>2
          <6>2. CutAt(reply, item, Len(reply[item].body)) = [n \in 1 .. item |-> reply[n]]
            BY <6>1, CutNext
          <6>. QED
            BY <6>1, <6>2
        <5>. QED
          BY <3>1, <5>1
      <4>. QED
        BY <1>1, <1>10, <4>1, <4>2
    <3>. QED
      BY <3>3, <3>4, <3>5 DEF CallPart, Part
  <2>6. SentCalls \subseteq CallsOf(m)
    BY <2>5, SentCallsKept
  <2>7. CutKeepsSent
    BY <1>3, <1>8, <2>4, <2>6 DEF CutKeepsSent
  <2>8. phase # "bare"
    BY DEF PlaceInv
  <2>9. ASSUME phase = "end" PROVE Parsed = Whole
    <3>1. item = Len(reply) /\ offset = Len(reply[item].body)
      BY <1>10, <2>9 DEF PlaceInv, AtEnd
    <3>2. x = Result(ReplyId, <<"stop">>, TRUE, ChatCount(Input), ChatCount(Output),
                     ChatCount(counts.read), 0, <<>>)
      BY <1>4, <1>10, <2>9 DEF ChatResult
    <3>3. /\ x.id = ReplyId /\ x.finish = <<"stop">> /\ x.hasUsage = TRUE /\ x.input = ChatCount(Input)
          /\ x.output = ChatCount(Output) /\ x.read = ChatCount(counts.read) /\ x.created = 0
      BY <3>2 DEF Result
    <3>4. p = Result(ReplyId, <<"stop">>, TRUE, ChatCount(Input), ChatCount(Output),
                     ChatCount(counts.read), 0, m)
      BY <1>7, <3>3, Zenon
    <3>5. m = ChatMessage(TextOf(CutAt(reply, item, offset)), ChatTools(reply, item, offset))
      BY <1>4, <1>10, <2>1
    <3>. QED
      BY <1>3, <3>1, <3>4, <3>5, ChatWhole
  <2>. QED
    BY <2>7, <2>8, <2>9 DEF StreamedAsWhole
<1>. QED
  BY <1>9, <1>10

------------------------------------------------------------------------------
(* The openai parser on the responses API, chunk by chunk *)

\* A chunk of the responses API has a type, perhaps a response, and no more of what
\* chunks of chat completions have.
IsEvent(c) ==
    /\ "type" \in DOMAIN c /\ "id" \notin DOMAIN c /\ "usage" \notin DOMAIN c
    /\ "choices" \notin DOMAIN c
    /\ ChunkResponse(c).usage \in {NULL, OpenAIUsage("responses")}

\* What the parser holds on the responses API.
HoldsOutput(a, t, items, done) ==
    /\ a = OpenAIAcc(a.result, t, <<>>, a.sawChoice, items, done, a.final)
    /\ IsResult(a.result) /\ a.sawChoice \in BOOLEAN /\ (a.sawChoice \/ t = <<>>)
    /\ done \in BOOLEAN /\ \E T : t \in Seq(T)

\* A report of the responses API leaves a result one.
LEMMA ReportKept ==
    ASSUME NEW r, IsResult(r), NEW u, u \in {NULL, OpenAIUsage("responses")}
    PROVE  IsResult(ApplyResponsesUsage(r, u))
<1>1. CASE u = NULL
  BY <1>1, Zenon DEF ApplyResponsesUsage
<1>2. CASE u # NULL
  <2>1. PICK v : v = OpenAIUsage("responses")
    OBVIOUS
  <2>2. u = v /\ v.api = "responses"
    BY <1>2, <2>1 DEF OpenAIUsage
  <2>3. ApplyResponsesUsage(r, u) = Counted(r, u.input, u.output, u.read)
    BY <1>2, <2>2, Zenon DEF ApplyResponsesUsage
  <2>4. Counted(r, u.input, u.output, u.read)
        = Result(r.id, r.finish, TRUE, u.input, u.output, u.read, r.created, r.messages)
    BY ResultCounted
  <2>. QED
    BY <2>3, <2>4 DEF Result, IsResult
<1>. QED
  BY <1>1, <1>2

\* What a chunk of the responses API adds.
AfterEvent(x, a, c) ==
    OpenAIAcc(x, a.content \o TextDelta(c), a.tools,
              a.sawChoice \/ c.type = "response.output_text.delta",
              IF c.type = "response.output_item.done" THEN Append(a.items, c.item) ELSE a.items,
              a.completed \/ c.type = "response.completed",
              IF c.type = "response.completed" THEN ParseResponsesCompleted(ChunkResponse(c))
              ELSE a.final)

\* What any event of the responses API leaves in the parser.
LEMMA EventIs ==
    ASSUME NEW a, NEW t, NEW items, NEW done, HoldsOutput(a, t, items, done), NEW c, IsEvent(c)
    PROVE  \E x : IsResult(x) /\ OpenAIChunk(a, c) = AfterEvent(x, a, c)
<1>1. PICK type, response, choices : type = c.type /\ response = ChunkResponse(c) /\ choices = <<>>
  OBVIOUS
<1>2. /\ Field(c, "type") = type /\ Field(c, "id") = NULL /\ Field(c, "usage") = NULL
      /\ ChunkChoices(c) = choices
  BY <1>1 DEF IsEvent, Field, ChunkChoices
<1>3. PICK named : named = [a.result EXCEPT !.id = TakeId(TakeId(a.result.id, response.id), NULL)]
  OBVIOUS
<1>4. IsResult(named)
  <2>1. PICK r, y : r = a.result /\ y = TakeId(TakeId(a.result.id, response.id), NULL)
    OBVIOUS
  <2>2. IsResult(r)
    BY <2>1 DEF HoldsOutput
  <2>3. named = Result(y, r.finish, r.hasUsage, r.input, r.output, r.read, r.created, r.messages)
    <3>1. [r EXCEPT !.id = y]
          = Result(y, r.finish, r.hasUsage, r.input, r.output, r.read, r.created, r.messages)
      BY <2>2, ResultSet
    <3>. QED
      BY <1>3, <2>1, <3>1, Zenon
  <2>. QED
    BY <2>3 DEF Result, IsResult
<1>5. PICK used : used = ApplyOpenAIUsage(ApplyResponsesUsage(named, response.usage), NULL)
  OBVIOUS
<1>6. IsResult(used)
  <2>1. used = ApplyResponsesUsage(named, response.usage)
    BY <1>5, Zenon DEF ApplyOpenAIUsage
  <2>2. response.usage \in {NULL, OpenAIUsage("responses")}
    BY <1>1 DEF IsEvent
  <2>. QED
    BY <1>4, <2>1, <2>2, ReportKept
<1>7. Reads(a, c, type, response, choices, named, used)
  BY <1>1, <1>2, <1>3, <1>5, Zenon DEF Reads
<1>8. OpenAIChunk(a, c) = AfterChunk(a, c, type, response, choices, used)
  BY <1>7, OpenAIChunkIs, Zenon
<1>9. PICK x : x = [used EXCEPT !.finish = AddFinishes(used.finish, choices)]
  OBVIOUS
<1>10. IsResult(x)
  <2>1. [used EXCEPT !.finish = AddFinishes(used.finish, choices)]
        = Ended(used, AddFinishes(used.finish, choices))
    BY <1>6, EndedIs
  <2>. QED
    BY <1>9, <2>1 DEF Ended, Result, IsResult
<1>11. /\ a.content \o TextDelta(c) \o ContentOf(choices) = a.content \o TextDelta(c)
       /\ ToolDeltas(a.tools, DeltasOf(choices)) = a.tools
       /\ (a.sawChoice \/ choices # <<>> \/ type = "response.output_text.delta")
          = (a.sawChoice \/ type = "response.output_text.delta")
  <2>1. ContentOf(choices) = <<>> /\ DeltasOf(choices) = <<>>
    BY <1>1, ChoicesAre
  <2>2. ToolDeltas(a.tools, <<>>) = a.tools
    BY NoneAndOne
  <2>3. a.content \o TextDelta(c) \o <<>> = a.content \o TextDelta(c)
    OBVIOUS
  <2>4. choices = <<>>
    BY <1>1
  <2>. QED
    BY <2>1, <2>2, <2>3, <2>4, Zenon
<1>12. OpenAIChunk(a, c) = AfterEvent(x, a, c)
  BY <1>1, <1>8, <1>9, <1>11, Zenon DEF AfterChunk, AfterEvent, OpenAIAcc
<1>. QED
  BY <1>10, <1>12

\* An item of the responses API as the reply has it.
OutputPart(r, i) == Part(r[i].kind, i, r[i].call, r[i].body, "raw")
OutputItems(r, n) == [i \in 1 .. n |-> OutputPart(r, i)]

\* The chunks of the responses API are events, and what each of them adds.
LEMMA Events ==
    ASSUME NEW a, NEW t, NEW items, NEW done, HoldsOutput(a, t, items, done), NEW c
    PROVE  /\ \A p : c = [type |-> "response.output_text.delta", delta |-> p]
                     /\ (\E T : t \o p \in Seq(T)) =>
                HoldsOutput(OpenAIChunk(a, c), t \o p, items, done)
           /\ \A it : c = [type |-> "response.output_item.done", item |-> it] =>
                HoldsOutput(OpenAIChunk(a, c), t, Append(items, it), done)
           /\ c = [type |-> "response.created", response |-> [id |-> ReplyId, usage |-> NULL]] =>
                HoldsOutput(OpenAIChunk(a, c), t, items, done)
           /\ \A output : c = [type |-> "response.incomplete", response |-> Response(output)] =>
                HoldsOutput(OpenAIChunk(a, c), t, items, done)
           /\ \A output : c = [type |-> "response.completed", response |-> Response(output)] =>
                /\ HoldsOutput(OpenAIChunk(a, c), t, items, TRUE)
                /\ OpenAIChunk(a, c).final = ParseResponsesCompleted(Response(output))
<1>1. /\ a.content = t /\ a.tools = <<>> /\ a.items = items /\ a.completed = done
      /\ a.sawChoice \in BOOLEAN /\ (a.sawChoice \/ t = <<>>) /\ done \in BOOLEAN
  BY DEF HoldsOutput, OpenAIAcc
<1>2. PICK T0 : t \in Seq(T0)
  BY DEF HoldsOutput
<1>3. t \o <<>> = t
  BY <1>2, ConcatEmptySeq
<1>a. ASSUME IsEvent(c), NEW p, TextDelta(c) = p, (\E T : t \o p \in Seq(T)),
             p # <<>> => c.type = "response.output_text.delta"
      PROVE  /\ HoldsOutput(OpenAIChunk(a, c), t \o p,
                            IF c.type = "response.output_item.done" THEN Append(items, c.item) ELSE items,
                            done \/ c.type = "response.completed")
             /\ OpenAIChunk(a, c).final = IF c.type = "response.completed"
                                          THEN ParseResponsesCompleted(ChunkResponse(c)) ELSE a.final
  <2>1. PICK x : IsResult(x) /\ OpenAIChunk(a, c) = AfterEvent(x, a, c)
    BY <1>a, EventIs
  <2>2. PICK b : b = OpenAIChunk(a, c)
    OBVIOUS
  <2>3. PICK its, d, w, f :
           /\ its = (IF c.type = "response.output_item.done" THEN Append(items, c.item) ELSE items)
           /\ d = (done \/ c.type = "response.completed")
           /\ w = (a.sawChoice \/ c.type = "response.output_text.delta")
           /\ f = (IF c.type = "response.completed"
                   THEN ParseResponsesCompleted(ChunkResponse(c)) ELSE a.final)
    OBVIOUS
  <2>4. b = OpenAIAcc(x, t \o p, <<>>, w, its, d, f)
    BY <1>1, <1>a, <2>1, <2>2, <2>3, Zenon DEF AfterEvent
  <2>5. b.result = x /\ b.sawChoice = w /\ b.final = f
    BY <2>4 DEF OpenAIAcc
  <2>6. w \in BOOLEAN /\ d \in BOOLEAN
    BY <1>1, <2>3
  <2>7. w \/ t \o p = <<>>
    <3>1. CASE p # <<>>
      BY <1>a, <2>3, <3>1
    <3>2. CASE p = <<>>
      BY <1>1, <1>3, <2>3, <3>2
    <3>. QED
      BY <3>1, <3>2
  <2>8. HoldsOutput(b, t \o p, its, d)
    <3>1. b = OpenAIAcc(b.result, t \o p, <<>>, b.sawChoice, its, d, b.final)
      BY <2>4, <2>5
    <3>. QED
      BY <1>a, <2>1, <2>5, <2>6, <2>7, <3>1, Zenon DEF HoldsOutput
  <2>. QED
    BY <2>2, <2>3, <2>5, <2>8, Zenon
<1>4. ASSUME NEW p, c = [type |-> "response.output_text.delta", delta |-> p],
             \E T : t \o p \in Seq(T)
      PROVE  HoldsOutput(OpenAIChunk(a, c), t \o p, items, done)
  <2>1. /\ c.type = "response.output_text.delta" /\ "response" \notin DOMAIN c
        /\ "type" \in DOMAIN c /\ "id" \notin DOMAIN c /\ "usage" \notin DOMAIN c
        /\ "choices" \notin DOMAIN c /\ c.delta = p
    BY <1>4
  <2>2. IsEvent(c) /\ TextDelta(c) = p
    BY <2>1 DEF IsEvent, ChunkResponse, TextDelta, Field
  <2>. QED
    BY <1>1, <1>4, <1>a, <2>1, <2>2
<1>5. ASSUME NEW it, c = [type |-> "response.output_item.done", item |-> it]
      PROVE  HoldsOutput(OpenAIChunk(a, c), t, Append(items, it), done)
  <2>1. /\ c.type = "response.output_item.done" /\ "response" \notin DOMAIN c
        /\ "type" \in DOMAIN c /\ "id" \notin DOMAIN c /\ "usage" \notin DOMAIN c
        /\ "choices" \notin DOMAIN c /\ c.item = it
    BY <1>5
  <2>2. IsEvent(c) /\ TextDelta(c) = <<>>
    BY <2>1 DEF IsEvent, ChunkResponse, TextDelta, Field
  <2>. QED
    BY <1>1, <1>2, <1>3, <1>a, <2>1, <2>2
<1>6. ASSUME NEW type \in {"response.created", "response.incomplete", "response.completed"}, NEW r,
             r.usage \in {NULL, OpenAIUsage("responses")}, c = [type |-> type, response |-> r]
      PROVE  /\ HoldsOutput(OpenAIChunk(a, c), t, items, done \/ type = "response.completed")
             /\ type = "response.completed" => OpenAIChunk(a, c).final = ParseResponsesCompleted(r)
  <2>1. /\ c.type = type /\ "response" \in DOMAIN c
        /\ "type" \in DOMAIN c /\ "id" \notin DOMAIN c /\ "usage" \notin DOMAIN c
        /\ "choices" \notin DOMAIN c /\ c.response = r
    BY <1>6
  <2>2. IsEvent(c) /\ TextDelta(c) = <<>> /\ ChunkResponse(c) = r
    BY <1>6, <2>1 DEF IsEvent, ChunkResponse, TextDelta, Field
  <2>3. /\ HoldsOutput(OpenAIChunk(a, c), t \o <<>>,
                       IF c.type = "response.output_item.done" THEN Append(items, c.item) ELSE items,
                       done \/ c.type = "response.completed")
        /\ OpenAIChunk(a, c).final = IF c.type = "response.completed"
                                     THEN ParseResponsesCompleted(ChunkResponse(c)) ELSE a.final
    BY <1>2, <1>3, <1>a, <2>2
  <2>4. c.type # "response.output_item.done"
    BY <1>6, <2>1
  <2>. QED
    BY <1>3, <2>1, <2>2, <2>3, <2>4
<1>7. ASSUME c = [type |-> "response.created", response |-> [id |-> ReplyId, usage |-> NULL]]
      PROVE  HoldsOutput(OpenAIChunk(a, c), t, items, done)
  <2>1. PICK r, type : r = [id |-> ReplyId, usage |-> NULL] /\ type = "response.created"
    OBVIOUS
  <2>2. r.usage = NULL /\ c = [type |-> type, response |-> r]
    BY <1>7, <2>1
  <2>3. (done \/ type = "response.completed") = done
    BY <1>1, <2>1
  <2>. QED
    BY <1>6, <2>1, <2>2, <2>3
<1>8. ASSUME NEW output PROVE Response(output).usage = OpenAIUsage("responses")
  BY DEF Response
<1>9. ASSUME NEW output, c = [type |-> "response.incomplete", response |-> Response(output)]
      PROVE  HoldsOutput(OpenAIChunk(a, c), t, items, done)
  <2>1. PICK r, type : r = Response(output) /\ type = "response.incomplete"
    OBVIOUS
  <2>2. r.usage = OpenAIUsage("responses") /\ c = [type |-> type, response |-> r]
    BY <1>8, <1>9, <2>1
  <2>3. (done \/ type = "response.completed") = done
    BY <1>1, <2>1
  <2>. QED
    BY <1>6, <2>1, <2>2, <2>3
<1>10. ASSUME NEW output, c = [type |-> "response.completed", response |-> Response(output)]
       PROVE  /\ HoldsOutput(OpenAIChunk(a, c), t, items, TRUE)
              /\ OpenAIChunk(a, c).final = ParseResponsesCompleted(Response(output))
  <2>1. PICK r, type : r = Response(output) /\ type = "response.completed"
    OBVIOUS
  <2>2. r.usage = OpenAIUsage("responses") /\ c = [type |-> type, response |-> r]
    BY <1>8, <1>10, <2>1
  <2>3. PICK d : d = (done \/ type = "response.completed")
    OBVIOUS
  <2>4. d = TRUE
    BY <1>1, <2>1, <2>3
  <2>5. /\ HoldsOutput(OpenAIChunk(a, c), t, items, d)
        /\ OpenAIChunk(a, c).final = ParseResponsesCompleted(r)
    BY <1>6, <2>1, <2>2, <2>3
  <2>. QED
    BY <2>1, <2>4, <2>5
<1>. QED
  BY <1>4, <1>5, <1>7, <1>9, <1>10

\* The number of items that are sent in full.
Done == IF item > 0 /\ offset < Len(reply[item].body) THEN item - 1 ELSE item

\* All items of the reply.
AllOutput == OutputItems(reply, Len(reply))

\* The parser holds the text that was sent and the items that are done, and after the end
\* a final response with all of the items or with none.
ResponsesInv ==
    /\ HoldsOutput(acc, TextOf(CutAt(reply, item, offset)), OutputItems(reply, Done), phase = "end")
    /\ phase = "end" =>
          \E output \in {<<>>, AllOutput} : acc.final = ParseResponsesCompleted(Response(output))

\* One more item is done.
LEMMA OutputGrows ==
    ASSUME NEW r, NEW i \in Nat \ {0}
    PROVE  /\ Append(OutputItems(r, i - 1), OutputPart(r, i)) = OutputItems(r, i)
           /\ OutputItems(r, 0) = <<>>
<1>1. PICK s, w, p : s = OutputItems(r, i - 1) /\ w = OutputItems(r, i) /\ p = OutputPart(r, i)
  OBVIOUS
<1>2. i - 1 \in Nat /\ (i - 1) + 1 = i
  OBVIOUS
<1>3. /\ s = [k \in 1 .. i - 1 |-> s[k]] /\ \A k \in 1 .. i - 1 : s[k] = OutputPart(r, k)
      /\ w = [k \in 1 .. i |-> w[k]] /\ \A k \in 1 .. i : w[k] = OutputPart(r, k)
  BY <1>1 DEF OutputItems
<1>4. Len(s) = i - 1 /\ s \in Seq({s[k] : k \in 1 .. i - 1})
  BY <1>2, <1>3
<1>5. Append(s, p) = [k \in 1 .. i |-> IF k = i THEN p ELSE s[k]]
  BY <1>2, <1>3, <1>4
<1>6. \A k \in 1 .. i : (IF k = i THEN p ELSE s[k]) = w[k]
  BY <1>1, <1>3
<1>7. Append(s, p) = w
  BY <1>3, <1>5, <1>6
<1>8. OutputItems(r, 0) = <<>>
  BY DEF OutputItems
<1>. QED
  BY <1>1, <1>7, <1>8

\* The chunks of a piece: its text, and the item if it is done.
LEMMA ResponsesPiece ==
    ASSUME vendor = "responses", NEW o, Place(reply, item, o), NEW n \in Nat \ {0},
           Place(reply, item, o + n), NEW done \in BOOLEAN, NEW p,
           p = SubSeq(reply[item].body, o + 1, o + n),
           NEW items, HoldsOutput(acc, TextOf(CutAt(reply, item, o)), items, FALSE),
           Send(Carrying(item, p, done))
    PROVE  HoldsOutput(acc', TextOf(CutAt(reply, item, o + n)),
                       IF done THEN Append(items, OutputPart(reply, item)) ELSE items, FALSE)
<1>1. PICK t, w, it, x : /\ t = TextOf(CutAt(reply, item, o)) /\ w = TextOf(CutAt(reply, item, o + n))
                         /\ it = reply[item] /\ x = OutputPart(reply, item)
  OBVIOUS
<1>2. /\ w = t \o (IF it.kind = "text" THEN p ELSE <<>>)
      /\ t \in Seq(Tokens(reply)) /\ w \in Seq(Tokens(reply))
  <2>1. w = t \o (IF it.kind = "text" THEN p ELSE <<>>)
    BY <1>1, CutMore
  <2>2. PICK T : T = Tokens(reply)
    OBVIOUS
  <2>3. t \in Seq(T)
    BY <1>1, <2>2, CutText
  <2>4. w \in Seq(T)
    <3>1. PICK e : e = o + n
      OBVIOUS
    <3>2. Place(reply, item, e)
      BY <3>1
    <3>. QED
      BY <1>1, <2>2, <3>1, <3>2, CutText
  <2>. QED
    BY <2>1, <2>2, <2>3, <2>4
<1>3. HoldsOutput(acc, t, items, FALSE)
  BY <1>1
<1>4. PICK c, d : /\ c = [type |-> "response.output_text.delta", delta |-> p]
                  /\ d = [type |-> "response.output_item.done", item |-> x]
  OBVIOUS
<1>5. PICK ct, cd : /\ ct = (IF it.kind = "text" THEN <<c>> ELSE <<>>)
                    /\ cd = (IF done THEN <<d>> ELSE <<>>)
  OBVIOUS
<1>6. Carrying(item, p, done) = ct \o cd
  <2>1. OutputItem(item) = x
    BY <1>1 DEF OutputItem, OutputPart
  <2>. QED
    BY <1>1, <1>4, <1>5, <2>1 DEF Carrying
<1>7. Send(ct \o cd)
  BY <1>6
<1>8. PICK b : b = IF it.kind = "text" THEN OpenAIChunk(acc, c) ELSE acc
  OBVIOUS
<1>9. HoldsOutput(b, w, items, FALSE)
  <2>1. CASE it.kind = "text"
    <3>1. w = t \o p /\ t \o p \in Seq(Tokens(reply))
      BY <1>2, <2>1
    <3>2. HoldsOutput(OpenAIChunk(acc, c), t \o p, items, FALSE)
      BY <1>3, <1>4, <3>1, Events
    <3>. QED
      BY <1>8, <2>1, <3>1, <3>2
  <2>2. CASE it.kind # "text"
    <3>1. w = t
      BY <1>2, <2>2, ConcatEmptySeq
    <3>. QED
      BY <1>3, <1>8, <2>2, <3>1
  <2>. QED
    BY <2>1, <2>2
<1>10. CASE done
  <2>1. acc' = OpenAIChunk(b, d)
    <3>1. CASE it.kind = "text"
      <4>1. Send(<<c, d>>)
        BY <1>5, <1>7, <1>10, <3>1, Two
      <4>. QED
        BY <1>8, <3>1, <4>1, OpenAISends
    <3>2. CASE it.kind # "text"
      <4>1. Send(<<d>>)
        BY <1>5, <1>7, <1>10, <3>2, Two
      <4>. QED
        BY <1>8, <3>2, <4>1, OpenAISends
    <3>. QED
      BY <3>1, <3>2
  <2>2. HoldsOutput(OpenAIChunk(b, d), w, Append(items, x), FALSE)
    BY <1>4, <1>9, Events
  <2>. QED
    BY <1>1, <1>10, <2>1, <2>2
<1>11. CASE ~ done
  <2>1. acc' = b
    <3>1. CASE it.kind = "text"
      <4>1. Send(<<c>>)
        BY <1>5, <1>7, <1>11, <3>1, Two
      <4>. QED
        BY <1>8, <3>1, <4>1, OpenAISends
    <3>2. CASE it.kind # "text"
      <4>1. Send(<<>>)
        BY <1>5, <1>7, <1>11, <3>2
      <4>. QED
        BY <1>8, <3>2, <4>1, OpenAISends
    <3>. QED
      BY <3>1, <3>2
  <2>. QED
    BY <1>1, <1>9, <1>11, <2>1
<1>. QED
  BY <1>10, <1>11

\* Each action of a reply of the responses API keeps what its parser holds.
LEMMA ResponsesStep ==
    ASSUME PlaceInv, Next, vendor = "responses", ResponsesInv
    PROVE  ResponsesInv'
<1>0. /\ UNCHANGED <<vendor, reply, counts>> /\ PlaceInv'
      /\ IsReply(reply) /\ Len(reply) \in Nat \ {0} /\ item \in Nat
      /\ item # 0 => /\ Place(reply, item, offset) /\ item \in 1 .. Len(reply)
                     /\ offset \in 0 .. Len(reply[item].body)
                     /\ Len(reply[item].body) \in Nat \ {0}
      /\ item = 0 => offset = 0 /\ phase = "items"
  BY PlaceIs, PlaceStep
<1>1. PICK t, items : t = TextOf(CutAt(reply, item, offset)) /\ items = OutputItems(reply, Done)
  OBVIOUS
<1>2. phase = "items" => HoldsOutput(acc, t, items, FALSE)
  BY <1>1 DEF ResponsesInv
<1>3. ASSUME NEW s, NEW l, s = TextOf(CutAt(reply, item', offset')), l = OutputItems(reply, Done'),
             HoldsOutput(acc', s, l, FALSE), phase' # "end"
      PROVE  ResponsesInv'
  BY <1>0, <1>3 DEF ResponsesInv
<1>4. CASE Start
  <2>1. /\ phase = "items" /\ item = 0 /\ item' = 1 /\ offset' = 0 /\ phase' = "items"
        /\ Send(Opening \o Beginning(1))
    BY <1>4 DEF Start
  <2>2. PICK c : c = [type |-> "response.created", response |-> [id |-> ReplyId, usage |-> NULL]]
    OBVIOUS
  <2>3. Opening = <<c>> /\ Beginning(1) = <<>>
    BY <2>2 DEF Opening, Beginning
  <2>4. acc' = OpenAIChunk(acc, c)
    <3>1. Send(<<c>>)
      BY <2>1, <2>3, Two
    <3>. QED
      BY <3>1, OpenAISends
  <2>5. HoldsOutput(OpenAIChunk(acc, c), t, items, FALSE)
    <3>1. HoldsOutput(acc, t, items, FALSE)
      BY <1>2, <2>1
    <3>. QED
      BY <2>2, <3>1, Events
  <2>6. t = TextOf(CutAt(reply, 1, 0))
    BY <1>0, <1>1, <2>1, CutFirst
  <2>7. Done' = 0 /\ Done = 0
    <3>1. Len(reply[1].body) \in Nat \ {0}
      BY <1>0, ItemIs
    <3>. QED
      BY <1>0, <2>1, <3>1 DEF Done
  <2>. QED
    BY <1>1, <1>3, <2>1, <2>4, <2>5, <2>6, <2>7
<1>5. CASE SendPiece
  <2>1. PICK n \in 1 .. MaxPiece :
          /\ offset + n <= Len(reply[item].body) /\ offset' = offset + n
          /\ Send(Carrying(item, SubSeq(reply[item].body, offset + 1, offset + n),
                           offset' = Len(reply[item].body)))
    BY <1>5 DEF SendPiece
  <2>2. item' = item /\ phase' = "items" /\ phase = "items" /\ item # 0 /\ offset # Len(reply[item].body)
    BY <1>5 DEF SendPiece, AtEnd
  <2>3. n \in Nat \ {0} /\ Place(reply, item, offset) /\ Place(reply, item, offset + n)
    <3>1. n \in Nat \ {0}
      BY PiecesAreBounded
    <3>2. item \in 1 .. Len(reply) /\ Len(reply[item].body) \in Nat /\ Place(reply, item, offset)
      BY <2>2, PlaceIs
    <3>3. offset \in 0 .. Len(reply[item].body)
      BY <3>2 DEF Place
    <3>4. offset + n \in 0 .. Len(reply[item].body)
      BY <2>1, <3>1, <3>2, <3>3
    <3>. QED
      BY <3>1, <3>2, <3>4 DEF Place
  <2>4. PICK done, p : /\ p = SubSeq(reply[item].body, offset + 1, offset + n)
                       /\ done = (offset' = Len(reply[item].body))
    OBVIOUS
  <2>5. done \in BOOLEAN
    BY <2>4
  <2>6. Send(Carrying(item, p, done)) /\ HoldsOutput(acc, TextOf(CutAt(reply, item, offset)), items, FALSE)
    BY <1>1, <1>2, <2>1, <2>2, <2>4, Zenon
  <2>7. PICK l : l = IF done THEN Append(items, OutputPart(reply, item)) ELSE items
    OBVIOUS
  <2>8. HoldsOutput(acc', TextOf(CutAt(reply, item, offset + n)), l, FALSE)
    <3>1. HoldsOutput(acc', TextOf(CutAt(reply, item, offset + n)),
                      IF done THEN Append(items, OutputPart(reply, item)) ELSE items, FALSE)
      BY <2>3, <2>4, <2>5, <2>6, ResponsesPiece
    <3>. QED
      BY <2>7, <3>1
  <2>9. l = OutputItems(reply, Done')
    <3>1. Done = item - 1
      BY <1>0, <2>2 DEF Done
    <3>2. Done' = IF done THEN item ELSE item - 1
      <4>1. PICK q, z : q = Len(reply[item].body) /\ z = offset + n
        OBVIOUS
      <4>2. q \in Nat /\ z \in Nat /\ z <= q /\ offset' = z /\ item' = item /\ item > 0
        BY <1>0, <2>1, <2>2, <2>3, <4>1
      <4>3. Done' = IF z < q THEN item - 1 ELSE item
        BY <1>0, <4>1, <4>2 DEF Done
      <4>4. done <=> z = q
        BY <2>4, <4>1, <4>2
      <4>. QED
        BY <4>2, <4>3, <4>4
    <3>3. Append(OutputItems(reply, item - 1), OutputPart(reply, item)) = OutputItems(reply, item)
      BY <1>0, <2>2, OutputGrows
    <3>. QED
      BY <1>1, <2>5, <2>7, <3>1, <3>2, <3>3
  <2>. QED
    BY <1>3, <2>1, <2>2, <2>8, <2>9
<1>6. CASE NextItem
  <2>1. /\ phase = "items" /\ item > 0 /\ AtEnd /\ item < Len(reply) /\ item' = item + 1
        /\ offset' = 0 /\ phase' = "items" /\ Send(Beginning(item + 1))
    BY <1>6 DEF NextItem
  <2>2. PICK k : k = item + 1
    OBVIOUS
  <2>3. item \in 1 .. Len(reply) /\ k \in 1 .. Len(reply) /\ item # 0
    BY <1>0, <2>1, <2>2
  <2>4. offset = Len(reply[item].body)
    BY <2>1, <2>3 DEF AtEnd
  <2>5. t = TextOf(CutAt(reply, k, 0))
    <3>1. Place(reply, item, Len(reply[item].body))
      BY <1>0, <2>3, <2>4
    <3>2. TextOf(CutAt(reply, item + 1, 0)) = TextOf(CutAt(reply, item, Len(reply[item].body)))
      BY <2>1, <3>1, CutNext
    <3>. QED
      BY <1>1, <2>2, <2>4, <3>2
  <2>6. Beginning(k) = <<>>
    BY DEF Beginning
  <2>7. acc' = acc
    <3>1. Send(<<>>)
      BY <2>1, <2>2, <2>6
    <3>. QED
      BY <3>1, OpenAISends
  <2>8. Done' = Done
    <3>1. Done = item
      BY <2>4 DEF Done
    <3>2. Len(reply[k].body) \in Nat \ {0}
      BY <1>0, <2>3, ItemIs
    <3>3. Done' = item
      BY <1>0, <2>1, <2>2, <2>3, <3>2 DEF Done
    <3>. QED
      BY <3>1, <3>3
  <2>9. HoldsOutput(acc', t, items, FALSE)
    BY <1>2, <2>1, <2>7
  <2>. QED
    BY <1>1, <1>3, <2>1, <2>2, <2>5, <2>8, <2>9
<1>7. CASE Finish
  <2>1. /\ phase = "items" /\ phase' = "end" /\ item' = item /\ offset' = offset
        /\ \E ending \in Endings : Send(ending)
    BY <1>7 DEF Finish
  <2>2. PICK output \in {<<>>, AllOutput} :
           Send(<<[type |-> "response.completed", response |-> Response(output)]>>)
    <3>1. AllOutput = [i \in DOMAIN reply |-> OutputItem(i)]
      <4>1. DOMAIN reply = 1 .. Len(reply)
        BY <1>0, ReplyItems
      <4>. QED
        BY <4>1 DEF AllOutput, OutputItems, OutputPart, OutputItem
    <3>2. Endings = {<<[type |-> "response.completed", response |-> Response(output)]>> :
                       output \in {<<>>, AllOutput}}
      BY <3>1, Zenon DEF Endings
    <3>. QED
      BY <2>1, <3>2
  <2>3. PICK c : c = [type |-> "response.completed", response |-> Response(output)]
    OBVIOUS
  <2>4. acc' = OpenAIChunk(acc, c)
    <3>1. Send(<<c>>)
      BY <2>2, <2>3
    <3>. QED
      BY <3>1, OpenAISends
  <2>5. /\ HoldsOutput(OpenAIChunk(acc, c), t, items, TRUE)
        /\ OpenAIChunk(acc, c).final = ParseResponsesCompleted(Response(output))
    <3>1. HoldsOutput(acc, t, items, FALSE)
      BY <1>2, <2>1
    <3>. QED
      BY <2>3, <3>1, Events
  <2>6. Done' = Done
    BY <1>0, <2>1 DEF Done
  <2>7. ParseResponsesCompleted(Response(output))' = ParseResponsesCompleted(Response(output))
    <3>1. Input' = Input /\ Output' = Output
      BY <1>0, <2>1, CountsStay
    <3>2. Response(output)' = Response(output)
      BY <1>0, <3>1 DEF Response, OpenAIUsage
    <3>. QED
      BY <3>2
  <2>8. AllOutput' = AllOutput
    BY <1>0 DEF AllOutput
  <2>9. HoldsOutput(acc', TextOf(CutAt(reply, item, offset))', OutputItems(reply, Done)', TRUE)
    BY <1>0, <1>1, <2>1, <2>4, <2>5, <2>6
  <2>10. \E o \in {<<>>, AllOutput'} : acc'.final = ParseResponsesCompleted(Response(o))'
    BY <2>4, <2>5, <2>7, <2>8
  <2>11. PICK e : e = (phase' = "end")
    OBVIOUS
  <2>12. e = TRUE
    BY <2>1, <2>11
  <2>. QED
    BY <2>9, <2>10, <2>11, <2>12 DEF ResponsesInv
<1>8. CASE StopEarly
  <2>1. /\ phase = "items" /\ phase' = "incomplete" /\ item' = item /\ offset' = offset
        /\ Send(<<[type |-> "response.incomplete", response |-> Response(<<>>)]>>)
    BY <1>8 DEF StopEarly
  <2>2. PICK c : c = [type |-> "response.incomplete", response |-> Response(<<>>)]
    OBVIOUS
  <2>3. acc' = OpenAIChunk(acc, c)
    <3>1. Send(<<c>>)
      BY <2>1, <2>2
    <3>. QED
      BY <3>1, OpenAISends
  <2>4. HoldsOutput(OpenAIChunk(acc, c), t, items, FALSE)
    <3>1. HoldsOutput(acc, t, items, FALSE)
      BY <1>2, <2>1
    <3>. QED
      BY <2>2, <3>1, Events
  <2>5. Done' = Done
    BY <1>0, <2>1 DEF Done
  <2>. QED
    BY <1>1, <1>3, <2>1, <2>3, <2>4, <2>5
<1>9. ~ FinishBare
  BY DEF FinishBare
<1>. QED
  BY <1>4, <1>5, <1>6, <1>7, <1>8, <1>9 DEF Next

\* The items of the responses API have numbers for names, each its own.
LEMMA OutputAt ==
    ASSUME NEW r, NEW n \in Nat, NEW s, s = OutputItems(r, n)
    PROVE  /\ DOMAIN s = 1 .. n /\ Len(s) = n /\ s = [k \in 1 .. n |-> s[k]]
           /\ \A k \in 1 .. n : s[k] = OutputPart(r, k) /\ s[k].id = k /\ s[k].id # NULL
<1>1. /\ DOMAIN s = 1 .. n /\ s = [k \in 1 .. n |-> s[k]]
      /\ \A k \in 1 .. n : s[k] = OutputPart(r, k)
  BY DEF OutputItems
<1>2. Len(s) = n
  BY <1>1
<1>3. \A k \in 1 .. n : s[k].id = k
  <2>1. ASSUME NEW k \in 1 .. n PROVE s[k].id = k
    <3>1. PICK e : e = s[k]
      OBVIOUS
    <3>2. e = OutputPart(r, k)
      BY <1>1, <3>1
    <3>3. e.id = k
      BY <3>2 DEF OutputPart, Part
    <3>. QED
      BY <3>1, <3>3
  <2>. QED
    BY <2>1
<1>4. \A k \in 1 .. n : k # NULL
  BY NullIsAbsent
<1>. QED
  BY <1>1, <1>2, <1>3, <1>4

\* Merging an item that is there, and one that is not.
LEMMA MergesItem ==
    ASSUME NEW r, NEW n \in Nat, NEW i \in 1 .. n
    PROVE  /\ MergeItem(OutputItems(r, i - 1), OutputPart(r, i)) = OutputItems(r, i)
           /\ MergeItem(OutputItems(r, n), OutputPart(r, i)) = OutputItems(r, n)
<1>1. PICK s, w, it, j : /\ s = OutputItems(r, i - 1) /\ w = OutputItems(r, n) /\ it = OutputPart(r, i)
                         /\ j = i - 1
  OBVIOUS
<1>2. it.id = i /\ it.id # NULL /\ j \in Nat
  BY <1>1, NullIsAbsent DEF OutputPart, Part
<1>3. MergeItem(s, it) = Append(s, it)
  <2>1. \A k \in DOMAIN s : s[k].id # it.id
    <3>1. DOMAIN s = 1 .. j /\ \A k \in 1 .. j : s[k].id = k
      BY <1>1, <1>2, OutputAt
    <3>. QED
      BY <1>1, <1>2, <3>1
  <2>. QED
    BY <2>1 DEF MergeItem
<1>4. MergeItem(w, it) = w
  <2>1. i \in DOMAIN w /\ w[i].id = it.id
    BY <1>1, <1>2, OutputAt
  <2>. QED
    BY <1>2, <2>1 DEF MergeItem
<1>5. Append(s, it) = OutputItems(r, i)
  BY <1>1, OutputGrows
<1>. QED
  BY <1>1, <1>3, <1>4, <1>5

\* Merging the items that were done with an output that is empty or has them all
\* makes each of them appear once.
LEMMA MergedOnce ==
    ASSUME NEW r, NEW n \in Nat, NEW all, all = OutputItems(r, n)
    PROVE  MergeItems(<<>>, all) = all /\ MergeItems(all, all) = all
<1>1. /\ DOMAIN all = 1 .. n /\ Len(all) = n /\ all = [k \in 1 .. n |-> all[k]]
      /\ \A k \in 1 .. n : all[k] = OutputPart(r, k)
  BY OutputAt
<1>2. all \in Seq({all[k] : k \in 1 .. n})
  BY <1>1
<1>3. MergeItems(<<>>, all) = all
  <2>1. PICK s, h : s = <<>> \o all /\ h = [i \in 0 .. n |-> OutputItems(r, i)]
    OBVIOUS
  <2>2. s = all
    BY <1>2, <2>1, ConcatEmptySeq
  <2>3. h[0] = <<>>
    <3>1. OutputItems(r, 0) = <<>>
      BY DEF OutputItems
    <3>. QED
      BY <2>1, <3>1
  <2>4. ASSUME NEW i \in 0 .. n - 1 PROVE h[i + 1] = Step("MergeItem", h[i], s[i + 1])
    <3>1. PICK k : k = i + 1
      OBVIOUS
    <3>2. k \in 1 .. n /\ k - 1 = i /\ i \in 0 .. n /\ k \in 0 .. n
      BY <3>1
    <3>3. MergeItem(OutputItems(r, k - 1), OutputPart(r, k)) = OutputItems(r, k)
      BY <3>2, MergesItem
    <3>4. s[k] = OutputPart(r, k) /\ h[i] = OutputItems(r, k - 1) /\ h[k] = OutputItems(r, k)
      BY <1>1, <2>1, <2>2, <3>2
    <3>. QED
      BY <3>1, <3>3, <3>4 DEF Step
  <2>5. Runs("MergeItem", h, <<>>, s, n)
    BY <2>3, <2>4 DEF Runs
  <2>6. DOMAIN s = 1 .. n
    BY <1>1, <2>2
  <2>7. MergeItems(<<>>, all) = h[n]
    <3>1. Joins(s, <<>>, all)
      BY <2>1 DEF Joins
    <3>. QED
      BY <2>5, <2>6, <3>1, FoldMergeItem
  <2>. QED
    BY <2>1, <2>7
<1>4. MergeItems(all, all) = all
  <2>c. PICK c \in Nat : c = n + n
    OBVIOUS
  <2>1. PICK s, h : /\ s = all \o all /\ c = n + n
                    /\ h = [i \in 0 .. n + n |-> OutputItems(r, IF i < n THEN i ELSE n)]
    BY <2>c
  <2>2. /\ DOMAIN s = 1 .. c /\ c \in Nat
        /\ \A k \in 1 .. c : s[k] = IF k <= n THEN all[k] ELSE all[k - n]
    BY <1>1, <1>2, <2>1
  <2>3. h[0] = <<>>
    <3>1. OutputItems(r, 0) = <<>>
      BY DEF OutputItems
    <3>2. (IF 0 < n THEN 0 ELSE n) = 0
      OBVIOUS
    <3>. QED
      BY <2>1, <3>1, <3>2
  <2>4. ASSUME NEW i \in 0 .. c - 1 PROVE h[i + 1] = Step("MergeItem", h[i], s[i + 1])
    <3>1. PICK k : k = i + 1
      OBVIOUS
    <3>2. k \in 1 .. c /\ k - 1 = i /\ i \in 0 .. c /\ k \in 0 .. c
      BY <2>2, <3>1
    <3>3. CASE k <= n
      <4>1. MergeItem(OutputItems(r, k - 1), OutputPart(r, k)) = OutputItems(r, k)
        <5>1. k \in 1 .. n
          BY <3>2, <3>3
        <5>. QED
          BY <5>1, MergesItem
      <4>2. s[k] = OutputPart(r, k)
        <5>1. k \in 1 .. n
          BY <3>2, <3>3
        <5>2. s[k] = all[k]
          BY <2>2, <3>2, <3>3
        <5>. QED
          BY <1>1, <5>1, <5>2
      <4>3. (IF i < n THEN i ELSE n) = k - 1 /\ (IF k < n THEN k ELSE n) = k
        BY <3>2, <3>3
      <4>4. h[i] = OutputItems(r, k - 1) /\ h[k] = OutputItems(r, k)
        BY <2>1, <3>2, <4>3
      <4>. QED
        BY <3>1, <4>1, <4>2, <4>4 DEF Step
    <3>4. CASE ~ (k <= n)
      <4>1. PICK j : j = k - n
        OBVIOUS
      <4>2. j \in 1 .. n
        BY <2>1, <3>2, <3>4, <4>1
      <4>3. MergeItem(OutputItems(r, n), OutputPart(r, j)) = OutputItems(r, n)
        BY <4>2, MergesItem
      <4>4. s[k] = OutputPart(r, j)
        BY <1>1, <2>2, <3>2, <3>4, <4>1, <4>2
      <4>5. (IF i < n THEN i ELSE n) = n /\ (IF k < n THEN k ELSE n) = n
        BY <3>2, <3>4
      <4>6. h[i] = OutputItems(r, n) /\ h[k] = OutputItems(r, n)
        BY <2>1, <3>2, <4>5
      <4>. QED
        BY <3>1, <4>3, <4>4, <4>6 DEF Step
    <3>. QED
      BY <3>3, <3>4
  <2>5. Runs("MergeItem", h, <<>>, s, c)
    BY <2>3, <2>4 DEF Runs
  <2>6. MergeItems(all, all) = h[c]
    <3>1. Joins(s, all, all)
      BY <2>1 DEF Joins
    <3>2. DOMAIN s = 1 .. c /\ c \in Nat
      BY <2>2
    <3>. QED
      BY <2>5, <3>1, <3>2, FoldMergeItem
  <2>7. (IF c < n THEN c ELSE n) = n /\ c \in 0 .. n + n
    BY <2>1
  <2>. QED
    BY <2>1, <2>6, <2>7
<1>. QED
  BY <1>3, <1>4

\* The response that ends a reply.
LEMMA CompletedIs ==
    ASSUME PlaceInv, item # 0, NEW output
    PROVE  ParseResponsesCompleted(Response(output))
           = Result(ReplyId, <<"stop">>, TRUE, Input, Output, counts.read, 0, output)
<1>1. PICK r, u, b, q : /\ r = Response(output) /\ u = OpenAIUsage("responses") /\ b = Blank
                        /\ q = ApplyResponsesUsage(b, u)
  OBVIOUS
<1>2. r.id = ReplyId /\ r.status = "stop" /\ r.usage = u /\ r.output = output
  BY <1>1 DEF Response
<1>3. q = Result(NULL, <<>>, TRUE, Input, Output, counts.read, 0, <<>>)
  <2>1. IsResult(b) /\ b.id = NULL /\ b.finish = <<>> /\ b.created = 0 /\ b.messages = <<>>
    BY <1>1, BlankIs
  <2>2. ApplyResponsesUsage(b, OpenAIUsage("responses"))
        = Result(b.id, b.finish, TRUE, Input, Output, counts.read, b.created, b.messages)
    BY <2>1, OpenAIReports
  <2>. QED
    BY <1>1, <2>1, <2>2
<1>4. /\ IsResult(q) /\ q.finish = <<>> /\ q.hasUsage = TRUE /\ q.input = Input /\ q.output = Output
      /\ q.read = counts.read /\ q.created = 0
  BY <1>3 DEF Result, IsResult
<1>5. EndedWith(q, ReplyId, "stop", output)
      = Result(ReplyId, AddFinish(q.finish, "stop"), q.hasUsage, q.input, q.output, q.read, q.created,
               output)
  BY <1>4, ResultEnded
<1>6. ParseResponsesCompleted(r) = EndedWith(q, ReplyId, "stop", output)
  BY <1>1, <1>2, Zenon DEF ParseResponsesCompleted, EndedWith
<1>7. AddFinish(q.finish, "stop") = <<"stop">>
  BY <1>4, Stops
<1>. QED
  BY <1>1, <1>4, <1>5, <1>6, <1>7, Zenon

\* The same reply, answered whole.
LEMMA ResponsesWhole ==
    ASSUME PlaceInv, item # 0, vendor = "responses"
    PROVE  Whole = Result(ReplyId, <<"stop">>, TRUE, Input, Output, counts.read, 0, AllOutput)
<1>1. PICK u, b, q, w : /\ u = OpenAIUsage("responses") /\ b = Blank
                        /\ q = ApplyOpenAIUsage(b, u) /\ w = [i \in DOMAIN reply |-> OutputItem(i)]
  OBVIOUS
<1>2. w = AllOutput
  <2>1. DOMAIN reply = 1 .. Len(reply)
    BY PlaceIs, ReplyItems
  <2>. QED
    BY <1>1, <2>1 DEF AllOutput, OutputItems, OutputPart, OutputItem
<1>3. PICK r : r = [id |-> ReplyId, finish |-> "stop", usage |-> u, output |-> w]
  OBVIOUS
<1>4. Whole = ParseOpenAIJSON(r)
  BY <1>1, <1>3, Zenon DEF Whole
<1>5. q = Result(NULL, <<>>, TRUE, Input, Output, counts.read, 0, <<>>)
  <2>1. IsResult(b) /\ b.id = NULL /\ b.finish = <<>> /\ b.created = 0 /\ b.messages = <<>>
    BY <1>1, BlankIs
  <2>2. ApplyOpenAIUsage(b, OpenAIUsage("responses"))
        = Result(b.id, b.finish, TRUE, Input, Output, counts.read, b.created, b.messages)
    BY <2>1, OpenAIReports
  <2>. QED
    BY <1>1, <2>1, <2>2
<1>6. /\ IsResult(q) /\ q.finish = <<>> /\ q.hasUsage = TRUE /\ q.input = Input /\ q.output = Output
      /\ q.read = counts.read /\ q.created = 0
  BY <1>5 DEF Result, IsResult
<1>7. EndedWith(q, ReplyId, "stop", w)
      = Result(ReplyId, AddFinish(q.finish, "stop"), q.hasUsage, q.input, q.output, q.read, q.created, w)
  BY <1>6, ResultEnded
<1>8. ParseOpenAIJSON(r) = EndedWith(q, ReplyId, "stop", w)
  <2>1. r.id = ReplyId /\ r.finish = "stop" /\ r.usage = u /\ r.output = w
    BY <1>3
  <2>. QED
    BY <1>1, <2>1, Zenon DEF ParseOpenAIJSON, EndedWith
<1>9. AddFinish(q.finish, "stop") = <<"stop">>
  BY <1>6, Stops
<1>. QED
  BY <1>2, <1>4, <1>6, <1>7, <1>8, <1>9, Zenon

\* What the invariant says of a reply of the responses API: its span is the one of the
\* whole reply, or has the text that was sent; the calls too once it is complete.
LEMMA ResponsesKeeps ==
    ASSUME PlaceInv, vendor = "responses", ResponsesInv
    PROVE  StreamedAsWhole /\ CutKeepsSent
<1>1. /\ IsReply(reply) /\ item \in Nat /\ Len(reply) \in Nat \ {0}
      /\ item # 0 => /\ Place(reply, item, offset) /\ item \in 1 .. Len(reply)
                     /\ offset \in 0 .. Len(reply[item].body)
      /\ item = 0 => offset = 0 /\ phase = "items"
  BY PlaceIs
<1>2. PICK t, done, items, T : /\ t = TextOf(CutAt(reply, item, offset)) /\ done = (phase = "end")
                               /\ items = OutputItems(reply, Done) /\ T = Tokens(reply)
  OBVIOUS
<1>3. HoldsOutput(acc, t, items, done)
  BY <1>2 DEF ResponsesInv
<1>4. /\ acc.content = t /\ acc.tools = <<>> /\ acc.items = items /\ acc.completed = done
      /\ IsResult(acc.result) /\ (acc.sawChoice \/ t = <<>>) /\ acc.sawChoice \in BOOLEAN
  BY <1>3 DEF HoldsOutput, OpenAIAcc
<1>5. t \in Seq(T)
  <2>1. CASE item = 0
    <3>1. TextOf(CutAt(reply, 0, offset)) = <<>>
      BY <1>1, CutFirst
    <3>2. t = <<>>
      BY <1>2, <2>1, <3>1
    <3>. QED
      BY <3>2
  <2>2. CASE item # 0
    BY <1>1, <1>2, <2>2, CutText
  <2>. QED
    BY <2>1, <2>2
<1>6. TextOf(SentItems) = t
  BY <1>2, SentIsCut
<1>7. phase # "bare"
  BY DEF PlaceInv
<1>8. CASE phase # "end"
  <2>1. PICK x, f, w, m, p :
           /\ x = acc.result /\ f = acc.tools /\ w = acc.sawChoice
           /\ m = (IF w THEN ChatMessage(t, f) ELSE <<>>) /\ p = Parsed
    OBVIOUS
  <2>2. p = ParseOpenAIChunks(acc)
    BY <1>2, <1>4, <1>8, <2>1 DEF Parsed, ParseStream, ParseResponsesChunks
  <2>3. p = [x EXCEPT !.messages = m]
    BY <1>4, <2>1, <2>2, Zenon DEF ParseOpenAIChunks, ChatMessage
  <2>4. p.messages = m
    <3>1. [x EXCEPT !.messages = m]
          = Result(x.id, x.finish, x.hasUsage, x.input, x.output, x.read, x.created, m)
      <4>1. IsResult(x)
        BY <1>4, <2>1
      <4>. QED
        BY <4>1, ResultGiven
    <3>. QED
      BY <2>3, <3>1 DEF Result
  <2>5. TextOf(m) = t
    <3>1. CASE w
      <4>1. AreCalls(f, 0)
        BY <1>4, <2>1 DEF AreCalls
      <4>2. m = ChatMessage(t, f)
        BY <2>1, <3>1
      <4>. QED
        BY <1>5, <4>1, <4>2, ChatMessages
    <3>2. CASE ~ w
      <4>1. m = <<>> /\ DOMAIN m = 1 .. 0 /\ t = <<>>
        BY <1>4, <2>1, <3>2
      <4>. QED
        BY <4>1, TextOfNone
    <3>. QED
      BY <3>1, <3>2
  <2>. QED
    BY <1>6, <1>7, <1>8, <2>1, <2>4, <2>5 DEF StreamedAsWhole, CutKeepsSent
<1>9. CASE phase = "end"
  <2>1. item = Len(reply) /\ item # 0 /\ offset = Len(reply[item].body)
    BY <1>1, <1>9 DEF PlaceInv, AtEnd
  <2>2. PICK all, n : all = AllOutput /\ n = Len(reply)
    OBVIOUS
  <2>3. items = all /\ all = OutputItems(reply, n) /\ n \in Nat \ {0}
    BY <1>1, <1>2, <2>1, <2>2 DEF Done, AllOutput
  <2>4. /\ DOMAIN all = 1 .. n /\ Len(all) = n
        /\ \A k \in 1 .. n : all[k] = OutputPart(reply, k)
    BY <2>3, OutputAt
  <2>5. PICK output \in {<<>>, all} : acc.final = ParseResponsesCompleted(Response(output))
    BY <1>9, <2>2 DEF ResponsesInv
  <2>6. PICK x, p : x = acc.final /\ p = Parsed
    OBVIOUS
  <2>7. x = Result(ReplyId, <<"stop">>, TRUE, Input, Output, counts.read, 0, output)
    BY <2>1, <2>5, <2>6, CompletedIs
  <2>8. p = [x EXCEPT !.messages = MergeItems(output, all)]
    <3>1. x.messages = output
      BY <2>7 DEF Result
    <3>2. items # <<>>
      BY <2>3, <2>4
    <3>3. p = [x EXCEPT !.messages = MergeItems(@, items)]
      BY <1>2, <1>4, <1>9, <2>6, <3>2, Zenon DEF Parsed, ParseStream, ParseResponsesChunks
    <3>. QED
      BY <2>3, <3>1, <3>3, Zenon
  <2>9. MergeItems(output, all) = all
    BY <2>3, <2>5, MergedOnce
  <2>10. p = Result(ReplyId, <<"stop">>, TRUE, Input, Output, counts.read, 0, all)
    <3>1. IsResult(x)
      BY <2>7 DEF Result, IsResult
    <3>2. [x EXCEPT !.messages = all]
          = Result(x.id, x.finish, x.hasUsage, x.input, x.output, x.read, x.created, all)
      BY <3>1, ResultGiven
    <3>3. /\ x.id = ReplyId /\ x.finish = <<"stop">> /\ x.hasUsage = TRUE /\ x.input = Input
          /\ x.output = Output /\ x.read = counts.read /\ x.created = 0
      BY <2>7 DEF Result
    <3>. QED
      BY <2>8, <2>9, <3>2, <3>3, Zenon
  <2>11. Parsed = Whole
    BY <2>1, <2>2, <2>6, <2>10, ResponsesWhole
  <2>12. p.messages = all
    BY <2>10 DEF Result
  <2>13. TextOf(all) = t
    <3>1. CutAt(reply, item, offset) = reply
      BY <1>1, <2>1, CutNext
    <3>2. DOMAIN reply = 1 .. n
      BY <1>1, <2>2, ReplyItems
    <3>3. \A k \in 1 .. n : TextBody(all[k]) = TextBody(reply[k])
      BY <2>4 DEF TextBody, OutputPart, Part
    <3>4. TextOf(all) = TextOf(reply)
      BY <2>3, <2>4, <3>2, <3>3, TextSame
    <3>. QED
      BY <1>2, <3>1, <3>4
  <2>14. KeepsCalls(all)
    <3>1. SUFFICES ASSUME NEW k \in 1 .. item, reply[k].kind = "call"
                   PROVE  \E j \in DOMAIN all : all[j].kind = "call" /\ all[j].call = reply[k].call
                                                /\ all[j].body = reply[k].body
      BY DEF KeepsCalls
    <3>2. k \in DOMAIN all /\ all[k] = OutputPart(reply, k)
      BY <2>1, <2>2, <2>4
    <3>. QED
      BY <3>1, <3>2 DEF OutputPart, Part
  <2>15. SentCalls \subseteq CallsOf(all)
    BY <2>14, SentCallsKept
  <2>. QED
    BY <1>6, <1>7, <2>6, <2>11, <2>12, <2>13, <2>15 DEF StreamedAsWhole, CutKeepsSent
<1>. QED
  BY <1>8, <1>9

------------------------------------------------------------------------------
(* The parts of a gemini reply *)

\* A message of n parts, whose bodies are sequences over T.
PartOver(p, T) ==
    p = Part(p.kind, p.id, p.call, p.body, p.form) /\ p.kind \in Kinds /\ p.body \in Seq(T)
MessageOver(m, n, T) == m = [k \in 1 .. n |-> m[k]] /\ \A k \in 1 .. n : PartOver(m[k], T)

\* A message whose last part has more text, and one with another part.
Grown(m, n, b) ==
    [k \in 1 .. n |-> IF k = n THEN Part("text", m[n].id, m[n].call, m[n].body \o b, m[n].form)
                      ELSE m[k]]
Added(m, n, p) == [k \in 1 .. n + 1 |-> IF k = n + 1 THEN p ELSE m[k]]

\* A part with another body.
LEMMA PartExcept ==
    ASSUME NEW p, NEW T, PartOver(p, T), NEW b
    PROVE  [p EXCEPT !.body = b] = Part(p.kind, p.id, p.call, b, p.form)
<1>1. PICK kind, id, call, body, form : /\ kind = p.kind /\ id = p.id /\ call = p.call
                                        /\ body = p.body /\ form = p.form
  OBVIOUS
<1>2. p \in [kind : {kind}, id : {id}, call : {call}, body : {body}, form : {form}]
  BY <1>1 DEF PartOver, Part
<1>3. [p EXCEPT !.body = b] = [kind |-> kind, id |-> id, call |-> call, body |-> b, form |-> form]
  BY <1>2
<1>. QED
  BY <1>1, <1>3 DEF Part

\* What mergeGeminiParts does with one more part.
LEMMA Merges ==
    ASSUME NEW n \in Nat, NEW m, NEW T, MessageOver(m, n, T), NEW p
    PROVE  /\ p.kind = "text" /\ n # 0 /\ m[n].kind = "text" =>
                MergeGeminiPart(m, p) = Grown(m, n, p.body)
           /\ p.kind # "text" \/ n = 0 \/ m[n].kind # "text" =>
                MergeGeminiPart(m, p) = Added(m, n, p)
<1>1. m = [k \in 1 .. n |-> m[k]] /\ DOMAIN m = 1 .. n /\ Len(m) = n /\ m \in Seq({m[k] : k \in 1 .. n})
  BY DEF MessageOver
<1>2. (m # <<>> <=> n # 0) /\ Last(m) = m[n]
  BY <1>1 DEF Last
<1>3. ASSUME p.kind = "text", n # 0, m[n].kind = "text"
      PROVE  MergeGeminiPart(m, p) = Grown(m, n, p.body)
  <2>1. MergeGeminiPart(m, p) = [m EXCEPT ![Len(m)].body = m[Len(m)].body \o p.body]
    BY <1>2, <1>3, Zenon DEF MergeGeminiPart
  <2>2. [m EXCEPT ![Len(m)].body = m[Len(m)].body \o p.body]
        = [m EXCEPT ![n].body = m[n].body \o p.body]
    BY <1>1, Zenon
  <2>3. PICK e, f, b : e = m[n] /\ b = e.body \o p.body /\ f = [e EXCEPT !.body = b]
    OBVIOUS
  <2>4. [m EXCEPT ![n].body = m[n].body \o p.body] = [m EXCEPT ![n] = f]
    BY <2>3, Zenon
  <2>5. [m EXCEPT ![n] = f] = [k \in 1 .. n |-> IF k = n THEN f ELSE m[k]]
    BY <1>1
  <2>6. f = Part("text", e.id, e.call, b, e.form)
    <3>1. PartOver(e, T) /\ e.kind = "text"
      BY <1>3, <2>3 DEF MessageOver
    <3>2. [e EXCEPT !.body = b] = Part(e.kind, e.id, e.call, b, e.form)
      BY <3>1, PartExcept
    <3>. QED
      BY <2>3, <3>1, <3>2, Zenon
  <2>. QED
    BY <2>1, <2>2, <2>3, <2>4, <2>5, <2>6, Zenon DEF Grown
<1>4. ASSUME p.kind # "text" \/ n = 0 \/ m[n].kind # "text"
      PROVE  MergeGeminiPart(m, p) = Added(m, n, p)
  <2>1. MergeGeminiPart(m, p) = Append(m, p)
    BY <1>2, <1>4, Zenon DEF MergeGeminiPart
  <2>2. Append(m, p) = [k \in 1 .. n + 1 |-> IF k = n + 1 THEN p ELSE m[k]]
    BY <1>1
  <2>. QED
    BY <2>1, <2>2 DEF Added
<1>. QED
  BY <1>3, <1>4

\* One part more, for the loop of mergeGeminiParts.
LEMMA MergeStep ==
    ASSUME NEW n \in Nat, NEW s, DOMAIN s = 1 .. n, NEW w, DOMAIN w = 1 .. n + 1,
           \A k \in 1 .. n : w[k] = s[k]
    PROVE  MergeGeminiParts(w) = MergeGeminiPart(MergeGeminiParts(s), w[n + 1])
<1>1. PICK c : c = n + 1
  OBVIOUS
<1>2. c \in Nat /\ DOMAIN w = 1 .. c
  BY <1>1
<1>3. PICK h : Runs("MergeGeminiPart", h, <<>>, w, c)
  BY <1>2, RunExists
<1>4. h[0] = <<>> /\ \A i \in 0 .. n : h[i + 1] = Step("MergeGeminiPart", h[i], w[i + 1])
  <2>1. c - 1 = n
    BY <1>1
  <2>. QED
    BY <1>3, <2>1 DEF Runs
<1>5. Runs("MergeGeminiPart", h, <<>>, s, n)
  <2>1. ASSUME NEW i \in 0 .. n - 1 PROVE h[i + 1] = Step("MergeGeminiPart", h[i], s[i + 1])
    <3>1. PICK j : j = i + 1
      OBVIOUS
    <3>2. j \in 1 .. n /\ i \in 0 .. n
      BY <3>1
    <3>3. w[j] = s[j]
      BY <3>2
    <3>4. h[j] = Step("MergeGeminiPart", h[i], w[j])
      BY <1>4, <3>1, <3>2
    <3>. QED
      BY <3>1, <3>3, <3>4
  <2>. QED
    BY <1>4, <2>1 DEF Runs
<1>6. MergeGeminiParts(s) = h[n]
  BY <1>5, FoldMergeGeminiPart
<1>7. MergeGeminiParts(w) = h[c]
  BY <1>2, <1>3, FoldMergeGeminiPart
<1>8. h[n + 1] = Step("MergeGeminiPart", h[n], w[n + 1])
  BY <1>4
<1>. QED
  BY <1>1, <1>6, <1>7, <1>8 DEF Step

\* No part at all.
LEMMA MergeNone ==
    ASSUME NEW s, DOMAIN s = 1 .. 0
    PROVE  MergeGeminiParts(s) = <<>>
<1>1. PICK h : Runs("MergeGeminiPart", h, <<>>, s, 0)
  BY RunExists
<1>2. h[0] = <<>>
  BY <1>1 DEF Runs
<1>3. MergeGeminiParts(s) = h[0]
  BY <1>1, FoldMergeGeminiPart
<1>. QED
  BY <1>2, <1>3

\* A piece of a text, with the mark u of what Gemini shows of its thinking or none.
TextPart(u, b) == Part("text", NULL, u, b, "json")

\* Two pieces of a text merge as the text does.
LEMMA MergesTwice ==
    ASSUME NEW n \in Nat, NEW m, NEW T, MessageOver(m, n, T), NEW u,
           NEW b \in Seq(T), NEW c \in Seq(T)
    PROVE  MergeGeminiPart(MergeGeminiPart(m, TextPart(u, b)), TextPart(u, c))
           = MergeGeminiPart(m, TextPart(u, b \o c))
<1>1. PICK p, q, r : p = TextPart(u, b) /\ q = TextPart(u, c) /\ r = TextPart(u, b \o c)
  OBVIOUS
<1>2. /\ p.kind = "text" /\ p.body = b /\ q.kind = "text" /\ q.body = c /\ r.kind = "text"
      /\ r.body = b \o c /\ b \o c \in Seq(T)
  BY <1>1 DEF TextPart, Part
<1>3. CASE n # 0 /\ m[n].kind = "text"
  <2>1. PICK e, x : e = m[n] /\ x = Grown(m, n, b)
    OBVIOUS
  <2>2. MergeGeminiPart(m, p) = x /\ MergeGeminiPart(m, r) = Grown(m, n, b \o c)
    <3>1. p.kind = "text" /\ n # 0 /\ m[n].kind = "text"
      BY <1>2, <1>3
    <3>2. r.kind = "text" /\ n # 0 /\ m[n].kind = "text"
      BY <1>2, <1>3
    <3>3. MergeGeminiPart(m, p) = Grown(m, n, p.body)
      BY <3>1, Merges
    <3>4. MergeGeminiPart(m, r) = Grown(m, n, r.body)
      BY <3>2, Merges
    <3>. QED
      BY <1>2, <2>1, <3>3, <3>4, Zenon
  <2>3. n \in 1 .. n /\ PartOver(e, T) /\ e.body \in Seq(T)
    BY <1>3, <2>1 DEF MessageOver, PartOver
  <2>4. /\ x = [k \in 1 .. n |-> x[k]]
        /\ x[n] = Part("text", e.id, e.call, e.body \o b, e.form)
        /\ \A k \in 1 .. n : k # n => x[k] = m[k]
    BY <2>1, <2>3 DEF Grown
  <2>5. PICK y : y = x[n]
    OBVIOUS
  <2>6. y.kind = "text" /\ y.id = e.id /\ y.call = e.call /\ y.body = e.body \o b /\ y.form = e.form
    BY <2>4, <2>5 DEF Part
  <2>7. PartOver(y, T)
    <3>1. e.body \o b \in Seq(T)
      BY <2>3
    <3>. QED
      BY <2>4, <2>5, <2>6, <3>1 DEF PartOver, Kinds
  <2>8. MessageOver(x, n, T)
    BY <2>4, <2>5, <2>7 DEF MessageOver
  <2>9. MergeGeminiPart(x, q) = Grown(x, n, c)
    BY <1>2, <1>3, <2>5, <2>6, <2>8, Merges
  <2>10. (e.body \o b) \o c = e.body \o (b \o c)
    <3>1. PICK f : f = e.body
      OBVIOUS
    <3>2. f \in Seq(T)
      BY <2>3, <3>1
    <3>3. (f \o b) \o c = f \o (b \o c)
      BY <3>2
    <3>. QED
      BY <3>1, <3>3, Zenon
  <2>11. Part("text", y.id, y.call, y.body \o c, y.form)
         = Part("text", e.id, e.call, e.body \o (b \o c), e.form)
    BY <2>6, <2>10
  <2>12. Grown(x, n, c) = [k \in 1 .. n |-> IF k = n THEN Part("text", e.id, e.call, e.body \o (b \o c), e.form)
                                            ELSE m[k]]
    <3>1. Grown(x, n, c) = [k \in 1 .. n |-> IF k = n THEN Part("text", e.id, e.call, e.body \o (b \o c), e.form)
                                             ELSE x[k]]
      BY <2>5, <2>11, Zenon DEF Grown
    <3>2. \A k \in 1 .. n : (IF k = n THEN Part("text", e.id, e.call, e.body \o (b \o c), e.form) ELSE x[k])
                          = (IF k = n THEN Part("text", e.id, e.call, e.body \o (b \o c), e.form) ELSE m[k])
      BY <2>4
    <3>. QED
      BY <3>1, <3>2, Zenon
  <2>. QED
    BY <1>1, <2>1, <2>2, <2>9, <2>12, Zenon DEF Grown
<1>4. CASE n = 0 \/ m[n].kind # "text"
  <2>1. PICK x, j : x = Added(m, n, p) /\ j = n + 1
    OBVIOUS
  <2>2. MergeGeminiPart(m, p) = x /\ MergeGeminiPart(m, r) = Added(m, n, r)
    BY <1>2, <1>4, <2>1, Merges
  <2>3. /\ x = [k \in 1 .. j |-> x[k]] /\ x[j] = p /\ j \in Nat \ {0} /\ j \in 1 .. j
        /\ \A k \in 1 .. j : k # j => x[k] = m[k] /\ k \in 1 .. n
    BY <2>1 DEF Added
  <2>4. p.id = NULL /\ p.call = u /\ p.form = "json"
    BY <1>1 DEF TextPart, Part
  <2>5. PartOver(p, T)
    BY <1>1, <1>2, <2>4 DEF PartOver, Kinds, TextPart
  <2>6. MessageOver(x, j, T)
    <3>1. ASSUME NEW k \in 1 .. j PROVE PartOver(x[k], T)
      BY <2>3, <2>5 DEF MessageOver
    <3>. QED
      BY <2>3, <3>1 DEF MessageOver
  <2>7. MergeGeminiPart(x, q) = Grown(x, j, c)
    <3>1. x[j].kind = "text"
      BY <1>2, <2>3
    <3>. QED
      BY <1>2, <2>3, <2>6, <3>1, Merges
  <2>8. Part("text", p.id, p.call, p.body \o c, p.form) = r
    BY <1>1, <1>2, <2>4 DEF TextPart
  <2>9. Grown(x, j, c) = [k \in 1 .. j |-> IF k = j THEN r ELSE m[k]]
    <3>1. Grown(x, j, c) = [k \in 1 .. j |-> IF k = j THEN r ELSE x[k]]
      BY <2>3, <2>8, Zenon DEF Grown
    <3>2. \A k \in 1 .. j : (IF k = j THEN r ELSE x[k]) = (IF k = j THEN r ELSE m[k])
      BY <2>3
    <3>. QED
      BY <3>1, <3>2, Zenon
  <2>10. Added(m, n, r) = [k \in 1 .. j |-> IF k = j THEN r ELSE m[k]]
    BY <2>1, Zenon DEF Added
  <2>. QED
    BY <1>1, <2>2, <2>7, <2>9, <2>10, Zenon
<1>. QED
  BY <1>3, <1>4

\* Merging one part more, and none.
LEMMA MergeAppend ==
    ASSUME NEW X, NEW s \in Seq(X), NEW p
    PROVE  /\ MergeGeminiParts(Append(s, p)) = MergeGeminiPart(MergeGeminiParts(s), p)
           /\ MergeGeminiParts(<<>>) = <<>>
<1>1. PICK n, w : n = Len(s) /\ w = Append(s, p)
  OBVIOUS
<1>2. n \in Nat /\ DOMAIN s = 1 .. n /\ DOMAIN w = 1 .. n + 1 /\ w[n + 1] = p
  BY <1>1
<1>3. \A k \in 1 .. n : w[k] = s[k]
  BY <1>1
<1>4. MergeGeminiParts(w) = MergeGeminiPart(MergeGeminiParts(s), w[n + 1])
  BY <1>2, <1>3, MergeStep
<1>5. PICK z : z = <<>> /\ DOMAIN z = 1 .. 0
  OBVIOUS
<1>6. MergeGeminiParts(z) = <<>>
  BY <1>5, MergeNone
<1>. QED
  BY <1>1, <1>2, <1>4, <1>5, <1>6, Zenon

\* What a message has after one part more: w has the text of m and of p, and every
\* part of m that is no text.
Follows(w, j, m, n, p, T) ==
    /\ j \in Nat /\ MessageOver(w, j, T)
    /\ TextOf(w) = TextOf(m) \o TextBody(p)
    /\ \A k \in 1 .. n : m[k].kind # "text" => \E i \in 1 .. j : w[i] = m[k]
    /\ p.kind # "text" => \E i \in 1 .. j : w[i] = p

\* A message has texts.
LEMMA MessageHasTexts ==
    ASSUME NEW n \in Nat, NEW m, NEW T, MessageOver(m, n, T)
    PROVE  HasTexts(m, n, T)
<1>1. DOMAIN m = 1 .. n /\ \A k \in 1 .. n : PartOver(m[k], T)
  BY DEF MessageOver
<1>2. <<>> \in Seq(T)
  OBVIOUS
<1>3. ASSUME NEW k \in 1 .. n PROVE TextBody(m[k]) \in Seq(T)
  BY <1>1, <1>2 DEF PartOver, TextBody
<1>. QED
  BY <1>1, <1>3 DEF HasTexts

\* A part that is added.
LEMMA AddedFollows ==
    ASSUME NEW n \in Nat, NEW m, NEW T, MessageOver(m, n, T), NEW p, PartOver(p, T)
    PROVE  Follows(Added(m, n, p), n + 1, m, n, p, T)
<1>1. PICK w, j : w = Added(m, n, p) /\ j = n + 1
  OBVIOUS
<1>2. /\ w = [k \in 1 .. j |-> w[k]] /\ DOMAIN w = 1 .. n + 1 /\ w[n + 1] = p /\ j \in Nat /\ j \in 1 .. j
      /\ \A k \in 1 .. n : w[k] = m[k] /\ k \in 1 .. j
      /\ \A k \in 1 .. j : k # j => k \in 1 .. n
  BY <1>1 DEF Added
<1>3. MessageOver(w, j, T)
  <2>1. ASSUME NEW k \in 1 .. j PROVE PartOver(w[k], T)
    BY <1>1, <1>2 DEF MessageOver
  <2>. QED
    BY <1>2, <2>1 DEF MessageOver
<1>4. TextOf(w) = TextOf(m) \o TextBody(w[n + 1])
  <2>1. HasTexts(m, n, T)
    BY MessageHasTexts
  <2>2. HasTexts(w, n + 1, T)
    BY <1>1, <1>2, <1>3, MessageHasTexts
  <2>. QED
    BY <1>2, <2>1, <2>2, TextAppend
<1>. QED
  BY <1>1, <1>2, <1>3, <1>4 DEF Follows

\* A text that is appended to the last part.
LEMMA GrownFollows ==
    ASSUME NEW n \in Nat \ {0}, NEW m, NEW T, MessageOver(m, n, T), m[n].kind = "text",
           NEW p, PartOver(p, T), p.kind = "text"
    PROVE  Follows(Grown(m, n, p.body), n, m, n, p, T)
<1>1. PICK w, c, l : w = Grown(m, n, p.body) /\ c = n - 1 /\ l = [k \in 1 .. c |-> m[k]]
  OBVIOUS
<1>2. /\ c \in Nat /\ n = c + 1 /\ n \in 1 .. n /\ DOMAIN l = 1 .. c /\ DOMAIN m = 1 .. c + 1
      /\ DOMAIN w = 1 .. c + 1 /\ w = [k \in 1 .. n |-> w[k]]
      /\ w[n] = Part("text", m[n].id, m[n].call, m[n].body \o p.body, m[n].form)
      /\ \A k \in 1 .. c : k \in 1 .. n /\ w[k] = m[k] /\ l[k] = m[k]
      /\ \A k \in 1 .. n : k # n => k \in 1 .. c
  BY <1>1 DEF Grown, MessageOver
<1>3. PICK b, d : b = m[n].body /\ d = p.body /\ b \in Seq(T) /\ d \in Seq(T)
  BY <1>2 DEF MessageOver, PartOver
<1>4. w[n].kind = "text" /\ w[n].body = b \o d
  <2>1. PICK i, a, f, x, y : /\ i = m[n].id /\ a = m[n].call /\ f = m[n].form /\ x = b \o d /\ y = w[n]
    OBVIOUS
  <2>2. y = Part("text", i, a, x, f)
    BY <1>2, <1>3, <2>1, Zenon
  <2>3. y.kind = "text" /\ y.body = x
    BY <2>2 DEF Part
  <2>. QED
    BY <2>1, <2>3, Zenon
<1>5. MessageOver(w, n, T)
  <2>1. b \o d \in Seq(T)
    BY <1>3
  <2>2. PartOver(w[n], T)
    BY <1>2, <1>3, <1>4, <2>1 DEF PartOver, Part, Kinds
  <2>3. ASSUME NEW k \in 1 .. n PROVE PartOver(w[k], T)
    <3>1. CASE k = n
      BY <2>2, <3>1
    <3>2. CASE k # n
      BY <1>2, <3>2 DEF MessageOver
    <3>. QED
      BY <3>1, <3>2
  <2>. QED
    BY <1>2, <2>3 DEF MessageOver
<1>6. HasTexts(m, n, T) /\ HasTexts(w, n, T)
  BY <1>5, MessageHasTexts
<1>7. HasTexts(l, c, T)
  BY <1>2, <1>6 DEF HasTexts
<1>8. TextOf(m) = TextOf(l) \o TextBody(m[n])
  <2>1. HasTexts(m, c + 1, T) /\ \A k \in 1 .. c : l[k] = m[k]
    BY <1>2, <1>6
  <2>2. TextOf(m) = TextOf(l) \o TextBody(m[c + 1])
    BY <1>2, <1>7, <2>1, TextAppend
  <2>. QED
    BY <1>2, <2>2
<1>9. TextOf(w) = TextOf(l) \o TextBody(w[n])
  <2>1. HasTexts(w, c + 1, T)
    BY <1>2, <1>6
  <2>3. \A k \in 1 .. c : l[k] = w[k]
    BY <1>2
  <2>4. OneMore(l, c, w, T)
    BY <1>2, <1>7, <2>1, <2>3 DEF OneMore
  <2>2. TextOf(w) = TextOf(l) \o TextBody(w[c + 1])
    BY <2>4, OneMoreText
  <2>. QED
    BY <1>2, <2>2
<1>10. PICK t : t = TextOf(l) /\ t \in Seq(T)
  BY <1>2, <1>7, TextTyped
<1>11. TextBody(m[n]) = b /\ TextBody(w[n]) = b \o d /\ TextBody(p) = d
  BY <1>3, <1>4 DEF TextBody
<1>12. t \o (b \o d) = (t \o b) \o d
  <2>1. t \in Seq(T) /\ b \in Seq(T) /\ d \in Seq(T)
    BY <1>3, <1>10
  <2>. QED
    BY <2>1
<1>13. TextOf(w) = TextOf(m) \o TextBody(p)
  BY <1>8, <1>9, <1>10, <1>11, <1>12, Zenon
<1>14. ASSUME NEW k \in 1 .. n, m[k].kind # "text" PROVE \E i \in 1 .. n : w[i] = m[k]
  BY <1>2, <1>14
<1>. QED
  BY <1>1, <1>5, <1>13, <1>14 DEF Follows

\* Either way nothing is lost.
LEMMA MergeFollows ==
    ASSUME NEW n \in Nat, NEW m, NEW T, MessageOver(m, n, T), NEW p, PartOver(p, T)
    PROVE  \E j : Follows(MergeGeminiPart(m, p), j, m, n, p, T)
<1>1. CASE p.kind = "text" /\ n # 0 /\ m[n].kind = "text"
  <2>1. MergeGeminiPart(m, p) = Grown(m, n, p.body)
    BY <1>1, Merges
  <2>2. n \in Nat \ {0} /\ m[n].kind = "text" /\ p.kind = "text"
    BY <1>1
  <2>3. Follows(Grown(m, n, p.body), n, m, n, p, T)
    BY <2>2, GrownFollows
  <2>. QED
    BY <2>1, <2>3, Zenon
<1>2. CASE p.kind # "text" \/ n = 0 \/ m[n].kind # "text"
  <2>1. MergeGeminiPart(m, p) = Added(m, n, p)
    BY <1>2, Merges
  <2>2. Follows(Added(m, n, p), n + 1, m, n, p, T)
    BY AddedFollows
  <2>. QED
    BY <2>1, <2>2, Zenon
<1>. QED
  BY <1>1, <1>2

\* The first n items as parts of a gemini message, and merged.
GeminiPart(r, k) == Part(r[k].kind, NULL, r[k].call, r[k].body, "json")
Merged(r, n)     == MergeGeminiParts([k \in 1 .. n |-> GeminiPart(r, k)])

\* One item more.
LEMMA MergedMore ==
    ASSUME NEW r, NEW n \in Nat
    PROVE  /\ Merged(r, n + 1) = MergeGeminiPart(Merged(r, n), GeminiPart(r, n + 1))
           /\ Merged(r, 0) = <<>>
<1>1. PICK s, w, z : /\ s = [k \in 1 .. n |-> GeminiPart(r, k)]
                     /\ w = [k \in 1 .. n + 1 |-> GeminiPart(r, k)]
                     /\ z = [k \in 1 .. 0 |-> GeminiPart(r, k)]
  OBVIOUS
<1>2. /\ DOMAIN s = 1 .. n /\ DOMAIN w = 1 .. n + 1 /\ w[n + 1] = GeminiPart(r, n + 1)
      /\ DOMAIN z = 1 .. 0
  BY <1>1
<1>3. \A k \in 1 .. n : w[k] = s[k]
  BY <1>1
<1>4. MergeGeminiParts(w) = MergeGeminiPart(MergeGeminiParts(s), w[n + 1])
  BY <1>2, <1>3, MergeStep
<1>5. MergeGeminiParts(z) = <<>>
  BY <1>2, MergeNone
<1>. QED
  BY <1>1, <1>2, <1>4, <1>5, Zenon DEF Merged

\* An item of a reply is a part over its tokens.
LEMMA GeminiPartIs ==
    ASSUME NEW r, IsReply(r), NEW k \in 1 .. Len(r)
    PROVE  /\ PartOver(GeminiPart(r, k), Tokens(r))
           /\ GeminiPart(r, k).kind = r[k].kind /\ GeminiPart(r, k).call = r[k].call
           /\ GeminiPart(r, k).body = r[k].body
           /\ r[k].kind = "text" => GeminiPart(r, k) = TextPart(r[k].call, r[k].body)
<1>1. PICK p : p = GeminiPart(r, k)
  OBVIOUS
<1>2. ItemOver(r[k], Tokens(r))
  BY ReplyItems
<1>3. /\ p.kind = r[k].kind /\ p.call = r[k].call /\ p.body = r[k].body /\ p.id = NULL
      /\ p.form = "json" /\ p = Part(p.kind, p.id, p.call, p.body, p.form)
  BY <1>1 DEF GeminiPart, Part
<1>4. r[k].kind \in Kinds /\ r[k].body \in Seq(Tokens(r))
  BY <1>2 DEF ItemOver
<1>5. r[k].kind = "text" => p = TextPart(r[k].call, r[k].body)
  BY <1>3, <1>4, Zenon DEF TextPart
<1>. QED
  BY <1>1, <1>3, <1>4, <1>5 DEF PartOver

\* What the merged items have: the text of the items, and every other item.
MergedIs(r, n) ==
    \E j \in Nat :
       /\ MessageOver(Merged(r, n), j, Tokens(r))
       /\ TextOf(Merged(r, n)) = TextOf([k \in 1 .. n |-> r[k]])
       /\ \A k \in 1 .. n : r[k].kind # "text" =>
             \E i \in 1 .. j : Merged(r, n)[i] = GeminiPart(r, k)

\* One item more keeps it so.
LEMMA MergedGrows ==
    ASSUME NEW r, IsReply(r), NEW n \in Nat, NEW c, c = n + 1, c \in 1 .. Len(r), MergedIs(r, n)
    PROVE  MergedIs(r, c)
<1>1. PICK m, w, p, T : m = Merged(r, n) /\ w = Merged(r, c) /\ p = GeminiPart(r, c) /\ T = Tokens(r)
  OBVIOUS
<1>2. PICK j \in Nat : /\ MessageOver(m, j, T)
                       /\ TextOf(m) = TextOf([k \in 1 .. n |-> r[k]])
                       /\ \A k \in 1 .. n : r[k].kind # "text" => \E i \in 1 .. j : m[i] = GeminiPart(r, k)
  BY <1>1, Zenon DEF MergedIs
<1>3. PartOver(p, T) /\ p.kind = r[c].kind /\ p.body = r[c].body
  BY <1>1, GeminiPartIs
<1>4. w = MergeGeminiPart(m, p)
  BY <1>1, MergedMore
<1>5. PICK d : Follows(w, d, m, j, p, T)
  <2>1. MessageOver(m, j, T) /\ PartOver(p, T)
    BY <1>2, <1>3
  <2>2. \E d : Follows(MergeGeminiPart(m, p), d, m, j, p, T)
    BY <2>1, MergeFollows
  <2>. QED
    BY <1>4, <2>2
<1>6. /\ d \in Nat /\ MessageOver(w, d, T) /\ TextOf(w) = TextOf(m) \o TextBody(p)
      /\ \A k \in 1 .. j : m[k].kind # "text" => \E i \in 1 .. d : w[i] = m[k]
      /\ p.kind # "text" => \E i \in 1 .. d : w[i] = p
  BY <1>5 DEF Follows
<1>7. TextOf(w) = TextOf([k \in 1 .. c |-> r[k]])
  <2>1. PICK o : o = Len(r[c].body) /\ Place(r, c, o)
    BY ItemIs DEF Place
  <2>2. TextOf(CutAt(r, c, o)) =
          TextOf([k \in 1 .. c - 1 |-> r[k]])
          \o (IF r[c].kind = "text" THEN SubSeq(r[c].body, 1, o) ELSE <<>>)
    BY <2>1, CutText
  <2>3. CutAt(r, c, o) = [k \in 1 .. c |-> r[k]]
    BY <2>1, CutNext
  <2>4. SubSeq(r[c].body, 1, o) = r[c].body
    <3>1. r[c].body \in Seq(T)
      BY <1>1, ItemIs
    <3>. QED
      BY <2>1, <3>1
  <2>5. TextBody(p) = IF r[c].kind = "text" THEN r[c].body ELSE <<>>
    BY <1>3 DEF TextBody
  <2>6. c - 1 = n
    OBVIOUS
  <2>. QED
    BY <1>2, <1>6, <2>2, <2>3, <2>4, <2>5, <2>6
<1>8. ASSUME NEW k \in 1 .. c, r[k].kind # "text"
      PROVE  \E i \in 1 .. d : w[i] = GeminiPart(r, k)
  <2>1. CASE k = c
    BY <1>1, <1>3, <1>6, <1>8, <2>1
  <2>2. CASE k # c
    <3>1. k \in 1 .. n /\ k \in 1 .. Len(r)
      BY <2>2
    <3>2. PICK i \in 1 .. j : m[i] = GeminiPart(r, k)
      BY <1>2, <1>8, <3>1
    <3>3. GeminiPart(r, k).kind = r[k].kind
      BY <3>1, GeminiPartIs
    <3>4. m[i].kind # "text"
      BY <1>8, <3>2, <3>3
    <3>. QED
      BY <1>6, <3>2, <3>4
  <2>. QED
    BY <2>1, <2>2
<1>. QED
  BY <1>1, <1>6, <1>7, <1>8, Zenon DEF MergedIs

\* So have all.
LEMMA MergedHas ==
    ASSUME NEW r, IsReply(r)
    PROVE  \A n \in 0 .. Len(r) : MergedIs(r, n)
<1> DEFINE C == {n \in 0 .. Len(r) : MergedIs(r, n)}
<1>1. Len(r) \in Nat
  BY ReplyItems
<1>2. 0 \in C
  <2>1. Merged(r, 0) = <<>>
    BY MergedMore
  <2>2. PICK z, e : z = Merged(r, 0) /\ e = [k \in 1 .. 0 |-> r[k]]
    OBVIOUS
  <2>3. DOMAIN z = 1 .. 0 /\ DOMAIN e = 1 .. 0 /\ z = [k \in 1 .. 0 |-> z[k]]
    BY <2>1, <2>2
  <2>4. TextOf(z) = <<>> /\ TextOf(e) = <<>>
    BY <2>3, TextOfNone
  <2>5. MessageOver(z, 0, Tokens(r))
    BY <2>3 DEF MessageOver
  <2>6. \A k \in 1 .. 0 : r[k].kind # "text" => \E i \in 1 .. 0 : z[i] = GeminiPart(r, k)
    OBVIOUS
  <2>7. MergedIs(r, 0)
    <3>1. 0 \in Nat
      OBVIOUS
    <3>. QED
      BY <2>2, <2>4, <2>5, <2>6, <3>1, Zenon DEF MergedIs
  <2>. QED
    BY <1>1, <2>7
<1>3. ASSUME NEW n \in 0 .. Len(r) - 1, n \in C PROVE n + 1 \in C
  <2>1. PICK c : c = n + 1
    OBVIOUS
  <2>2. c \in 1 .. Len(r) /\ n \in Nat /\ MergedIs(r, n) /\ c \in 0 .. Len(r)
    BY <1>1, <1>3, <2>1
  <2>3. MergedIs(r, c)
    BY <2>1, <2>2, MergedGrows
  <2>. QED
    BY <2>1, <2>2, <2>3
<1>4. C \in SUBSET (0 .. Len(r))
  OBVIOUS
<1> HIDE DEF C
<1>5. C = 0 .. Len(r)
  BY <1>1, <1>2, <1>3, <1>4, UpTo
<1>. QED
  BY <1>5 DEF C

\* The merged parts of a reply up to a place: a text comes with what is sent of it,
\* any other item once it is sent in full.
GeminiMessage(r, i, o) ==
    IF i = 0 THEN <<>>
    ELSE IF o > 0 /\ r[i].kind = "text"
    THEN MergeGeminiPart(Merged(r, i - 1), TextPart(r[i].call, SubSeq(r[i].body, 1, o)))
    ELSE IF o > 0 /\ o = Len(r[i].body) THEN Merged(r, i)
    ELSE Merged(r, i - 1)

\* An item that begins adds no part; one that is sent in full is merged as a whole.
LEMMA GeminiItem ==
    ASSUME NEW r, IsReply(r), NEW i \in 1 .. Len(r)
    PROVE  /\ GeminiMessage(r, i, Len(r[i].body)) = Merged(r, i)
           /\ GeminiMessage(r, i, 0) = Merged(r, i - 1)
<1>1. PICK b, o, n : b = r[i].body /\ o = Len(b) /\ n = i - 1
  OBVIOUS
<1>2. b \in Seq(Tokens(r)) /\ o \in Nat \ {0} /\ n \in Nat /\ n + 1 = i /\ Len(r) \in Nat
  BY <1>1, ItemIs, ReplyItems
<1>3. GeminiMessage(r, i, 0) = Merged(r, i - 1)
  BY <1>2 DEF GeminiMessage
<1>4. GeminiMessage(r, i, o) = Merged(r, i)
  <2>1. CASE r[i].kind = "text"
    <3>1. SubSeq(b, 1, o) = b
      BY <1>1, <1>2
    <3>2. GeminiMessage(r, i, o)
          = MergeGeminiPart(Merged(r, i - 1), TextPart(r[i].call, SubSeq(b, 1, o)))
      BY <1>1, <1>2, <2>1 DEF GeminiMessage
    <3>3. GeminiPart(r, i) = TextPart(r[i].call, b)
      BY <1>1, <2>1, GeminiPartIs
    <3>4. Merged(r, n + 1) = MergeGeminiPart(Merged(r, n), GeminiPart(r, n + 1))
      BY <1>2, MergedMore
    <3>. QED
      BY <1>1, <1>2, <3>1, <3>2, <3>3, <3>4
  <2>2. CASE r[i].kind # "text"
    BY <1>1, <1>2, <2>2 DEF GeminiMessage
  <2>. QED
    BY <2>1, <2>2
<1>. QED
  BY <1>1, <1>3, <1>4

\* A piece of a text goes to the text, and so does one after it.
LEMMA GeminiMore ==
    ASSUME NEW r, NEW i, NEW o, Place(r, i, o), NEW n \in Nat \ {0}, Place(r, i, o + n)
    PROVE  /\ r[i].kind = "text" =>
                MergeGeminiPart(GeminiMessage(r, i, o),
                                TextPart(r[i].call, SubSeq(r[i].body, o + 1, o + n)))
                = GeminiMessage(r, i, o + n)
           /\ r[i].kind # "text" /\ o + n = Len(r[i].body) =>
                MergeGeminiPart(GeminiMessage(r, i, o), GeminiPart(r, i)) = GeminiMessage(r, i, o + n)
           /\ r[i].kind # "text" /\ o + n # Len(r[i].body) =>
                GeminiMessage(r, i, o + n) = GeminiMessage(r, i, o)
<1>1. PICK b, T, c, m : b = r[i].body /\ T = Tokens(r) /\ c = i - 1 /\ m = Merged(r, c)
  OBVIOUS
<1>2. /\ IsReply(r) /\ i \in 1 .. Len(r) /\ Len(r) \in Nat /\ b \in Seq(T) /\ Len(b) \in Nat \ {0}
      /\ o \in 0 .. Len(b) /\ o + n \in 0 .. Len(b) /\ o \in Nat /\ o + n > 0
  <2>1. IsReply(r) /\ i \in 1 .. Len(r)
    BY DEF Place
  <2>2. Len(r) \in Nat /\ b \in Seq(T) /\ Len(b) \in Nat \ {0}
    BY <1>1, <2>1, ReplyItems, ItemIs
  <2>. QED
    BY <1>1, <2>1, <2>2 DEF Place
<1>3. c \in Nat /\ c + 1 = i /\ c \in 0 .. Len(r)
  BY <1>1, <1>2
<1>4. PICK j \in Nat : MessageOver(m, j, T)
  <2>1. MergedIs(r, c)
    BY <1>2, <1>3, MergedHas
  <2>. QED
    BY <1>1, <2>1 DEF MergedIs
<1>5. o + n <= Len(b)
  BY <1>2
<1>6. PICK x, y, z : x = SubSeq(b, 1, o) /\ y = SubSeq(b, o + 1, o + n) /\ z = SubSeq(b, 1, o + n)
  OBVIOUS
<1>7. z = x \o y /\ y \in Seq(T)
  <2>1. /\ SubSeq(b, 1, o + n) = SubSeq(b, 1, o) \o SubSeq(b, o + 1, o + n)
        /\ SubSeq(b, o + 1, o + n) \in Seq(T)
    BY <1>2, <1>5, BodyGrows
  <2>. QED
    BY <1>6, <2>1
<1>8. x \in Seq(T) /\ (o = 0 => x = <<>>)
  BY <1>2, <1>6, BodyUpTo
<1>9. CASE r[i].kind = "text"
  <2>1. GeminiMessage(r, i, o + n) = MergeGeminiPart(m, TextPart(r[i].call, z))
    BY <1>1, <1>2, <1>6, <1>9 DEF GeminiMessage
  <2>2. MergeGeminiPart(GeminiMessage(r, i, o), TextPart(r[i].call, y))
        = MergeGeminiPart(m, TextPart(r[i].call, z))
    <3>1. CASE o = 0
      <4>1. GeminiMessage(r, i, o) = m
        BY <1>1, <1>2, <3>1 DEF GeminiMessage
      <4>2. z = y
        BY <1>7, <1>8, <3>1, ConcatEmptySeq
      <4>. QED
        BY <4>1, <4>2
    <3>2. CASE o # 0
      <4>1. GeminiMessage(r, i, o) = MergeGeminiPart(m, TextPart(r[i].call, x))
        BY <1>1, <1>2, <1>6, <1>9, <3>2 DEF GeminiMessage
      <4>2. MergeGeminiPart(MergeGeminiPart(m, TextPart(r[i].call, x)), TextPart(r[i].call, y))
            = MergeGeminiPart(m, TextPart(r[i].call, x \o y))
        BY <1>4, <1>7, <1>8, MergesTwice
      <4>. QED
        BY <1>7, <4>1, <4>2
    <3>. QED
      BY <3>1, <3>2
  <2>. QED
    BY <1>1, <1>6, <1>9, <2>1, <2>2
<1>10. CASE r[i].kind # "text"
  <2>1. ASSUME o + n = Len(b)
        PROVE  MergeGeminiPart(GeminiMessage(r, i, o), GeminiPart(r, i)) = GeminiMessage(r, i, o + n)
    <3>1. GeminiMessage(r, i, o + n) = Merged(r, i)
      BY <1>1, <1>2, <1>10, <2>1 DEF GeminiMessage
    <3>2. GeminiMessage(r, i, o) = m
      BY <1>1, <1>2, <1>10, <2>1 DEF GeminiMessage
    <3>3. Merged(r, c + 1) = MergeGeminiPart(Merged(r, c), GeminiPart(r, c + 1))
      BY <1>3, MergedMore
    <3>. QED
      BY <1>1, <1>3, <3>1, <3>2, <3>3
  <2>2. ASSUME o + n # Len(b)
        PROVE  GeminiMessage(r, i, o + n) = GeminiMessage(r, i, o)
    BY <1>1, <1>2, <1>10, <2>2 DEF GeminiMessage
  <2>. QED
    BY <1>1, <1>10, <2>1, <2>2
<1>. QED
  BY <1>9, <1>10

\* The merged parts have the text that is sent, and every other item that is sent.
GeminiHas(m, r, i, o) ==
    /\ TextOf(m) = TextOf(CutAt(r, i, o))
    /\ \A k \in 1 .. i : r[k].kind # "text" /\ (k = i => o = Len(r[k].body)) =>
          \E j \in DOMAIN m : m[j] = GeminiPart(r, k)

\* A message of gemini has the text that was sent and every other part that was.
LEMMA GeminiKept ==
    ASSUME NEW r, NEW i, NEW o, Place(r, i, o)
    PROVE  GeminiHas(GeminiMessage(r, i, o), r, i, o)
<1>1. PICK b, T, c, m : b = r[i].body /\ T = Tokens(r) /\ c = i - 1 /\ m = Merged(r, c)
  OBVIOUS
<1>2. /\ IsReply(r) /\ i \in 1 .. Len(r) /\ Len(r) \in Nat /\ b \in Seq(T) /\ Len(b) \in Nat \ {0}
      /\ o \in 0 .. Len(b) /\ o \in Nat
  <2>1. IsReply(r) /\ i \in 1 .. Len(r)
    BY DEF Place
  <2>2. Len(r) \in Nat /\ b \in Seq(T) /\ Len(b) \in Nat \ {0}
    BY <1>1, <2>1, ReplyItems, ItemIs
  <2>. QED
    BY <1>1, <2>1, <2>2 DEF Place
<1>3. c \in Nat /\ c + 1 = i /\ c \in 0 .. Len(r) /\ i \in 0 .. Len(r)
  BY <1>1, <1>2
<1>4. PICK j \in Nat : /\ MessageOver(m, j, T)
                       /\ TextOf(m) = TextOf([k \in 1 .. c |-> r[k]])
                       /\ \A k \in 1 .. c : r[k].kind # "text" => \E d \in 1 .. j : m[d] = GeminiPart(r, k)
  <2>1. MergedIs(r, c)
    BY <1>2, <1>3, MergedHas
  <2>. QED
    BY <1>1, <2>1, Zenon DEF MergedIs
<1>5. PICK x : x = SubSeq(b, 1, o) /\ x \in Seq(T) /\ (o = 0 => x = <<>>)
  BY <1>2, BodyUpTo
<1>6. /\ TextOf(CutAt(r, i, o)) = TextOf(m) \o (IF r[i].kind = "text" THEN x ELSE <<>>)
      /\ TextOf(m) \in Seq(T)
  <2>1. /\ TextOf(CutAt(r, i, o)) =
             TextOf([k \in 1 .. i - 1 |-> r[k]])
             \o (IF r[i].kind = "text" THEN SubSeq(r[i].body, 1, o) ELSE <<>>)
        /\ TextOf([k \in 1 .. i - 1 |-> r[k]]) \in Seq(T)
    BY <1>1, CutText
  <2>. QED
    BY <1>1, <1>4, <1>5, <2>1
<1>7. DOMAIN m = 1 .. j
  BY <1>4 DEF MessageOver
<1>8. CASE o > 0 /\ r[i].kind = "text"
  <2>1. PICK w, p : w = GeminiMessage(r, i, o) /\ p = TextPart(r[i].call, x)
    OBVIOUS
  <2>2. w = MergeGeminiPart(m, p)
    BY <1>1, <1>2, <1>5, <1>8, <2>1 DEF GeminiMessage
  <2>3. PartOver(p, T) /\ TextBody(p) = x
    BY <1>5, <2>1 DEF PartOver, TextPart, Part, Kinds, TextBody
  <2>4. PICK d : Follows(w, d, m, j, p, T)
    <3>1. MessageOver(m, j, T)
      BY <1>4
    <3>2. \E d : Follows(MergeGeminiPart(m, p), d, m, j, p, T)
      BY <2>3, <3>1, MergeFollows
    <3>. QED
      BY <2>2, <3>2
  <2>5. /\ DOMAIN w = 1 .. d /\ TextOf(w) = TextOf(m) \o x
        /\ \A k \in 1 .. j : m[k].kind # "text" => \E e \in 1 .. d : w[e] = m[k]
    BY <2>3, <2>4 DEF Follows, MessageOver
  <2>6. ASSUME NEW k \in 1 .. i, r[k].kind # "text"
        PROVE  \E e \in DOMAIN w : w[e] = GeminiPart(r, k)
    <3>1. k \in 1 .. c /\ k \in 1 .. Len(r)
      BY <1>2, <1>3, <1>8, <2>6
    <3>2. PICK e \in 1 .. j : m[e] = GeminiPart(r, k)
      BY <1>4, <2>6, <3>1
    <3>3. m[e].kind # "text"
      BY <1>2, <2>6, <3>1, <3>2, GeminiPartIs
    <3>. QED
      BY <2>5, <3>2, <3>3
  <2>. QED
    BY <1>6, <1>8, <2>1, <2>5, <2>6 DEF GeminiHas
<1>9. CASE o = Len(b) /\ r[i].kind # "text"
  <2>1. GeminiMessage(r, i, o) = Merged(r, i)
    BY <1>1, <1>2, <1>9, GeminiItem
  <2>2. PICK w : w = Merged(r, i)
    OBVIOUS
  <2>3. PICK d \in Nat : /\ MessageOver(w, d, T)
                         /\ TextOf(w) = TextOf([k \in 1 .. i |-> r[k]])
                         /\ \A k \in 1 .. i : r[k].kind # "text" => \E e \in 1 .. d : w[e] = GeminiPart(r, k)
    <3>1. MergedIs(r, i)
      BY <1>2, <1>3, MergedHas
    <3>. QED
      BY <1>1, <2>2, <3>1, Zenon DEF MergedIs
  <2>4. CutAt(r, i, o) = [k \in 1 .. i |-> r[k]]
    BY <1>1, <1>9, CutNext
  <2>5. DOMAIN w = 1 .. d
    BY <2>3 DEF MessageOver
  <2>. QED
    BY <2>1, <2>2, <2>3, <2>4, <2>5 DEF GeminiHas
<1>10. CASE (o = 0 /\ r[i].kind = "text") \/ (o # Len(b) /\ r[i].kind # "text")
  <2>1. GeminiMessage(r, i, o) = m
    BY <1>1, <1>2, <1>10 DEF GeminiMessage
  <2>2. TextOf(CutAt(r, i, o)) = TextOf(m)
    <3>1. (IF r[i].kind = "text" THEN x ELSE <<>>) = <<>>
      BY <1>5, <1>10
    <3>2. PICK t : t = TextOf(m) /\ t \in Seq(T)
      BY <1>6
    <3>3. t \o <<>> = t
      BY <3>2, ConcatEmptySeq
    <3>. QED
      BY <1>6, <3>1, <3>2, <3>3
  <2>3. ASSUME NEW k \in 1 .. i, r[k].kind # "text", k = i => o = Len(r[k].body)
        PROVE  \E e \in DOMAIN m : m[e] = GeminiPart(r, k)
    <3>1. k \in 1 .. c
      BY <1>1, <1>2, <1>3, <1>10, <2>3
    <3>. QED
      BY <1>4, <1>7, <2>3, <3>1
  <2>. QED
    BY <2>1, <2>2, <2>3 DEF GeminiHas
<1>. QED
  BY <1>2, <1>8, <1>9, <1>10

------------------------------------------------------------------------------
(* The gemini parser, chunk by chunk *)

\* The loop over the parts of a chunk: one part, and the items of a whole reply.
LEMMA PartsAdded ==
    ASSUME NEW s, NEW p
    PROVE  AddParts(s, <<p>>) = AddPart(s, p)
<1>1. PICK o : o = <<p>>
  OBVIOUS
<1>2. DOMAIN o = 1 .. 1 /\ o[1] = p /\ 1 \in Nat
  BY <1>1
<1>3. PICK h : h = [i \in 0 .. 1 |-> IF i = 0 THEN s ELSE AddPart(s, p)]
  OBVIOUS
<1>4. h[0] = s /\ h[1] = AddPart(s, p)
  BY <1>3
<1>5. Runs("AddPart", h, s, o, 1)
  BY <1>2, <1>4 DEF Runs, Step
<1>6. AddParts(s, o) = h[1]
  BY <1>2, <1>5, FoldAddPart
<1>. QED
  BY <1>1, <1>4, <1>6

\* The parts of a whole reply are all added, for none is an empty text.
LEMMA ItemsAdded ==
    ASSUME NEW r, IsReply(r), NEW s, s = [k \in 1 .. Len(r) |-> GeminiPart(r, k)]
    PROVE  AddParts(<<>>, s) = s
<1>1. PICK n : n = Len(r)
  OBVIOUS
<1>2. n \in Nat /\ DOMAIN s = 1 .. n /\ \A k \in 1 .. n : s[k] = GeminiPart(r, k)
  BY <1>1, ReplyItems
<1>3. PICK h : h = [i \in 0 .. n |-> [k \in 1 .. i |-> GeminiPart(r, k)]]
  OBVIOUS
<1>4. h[0] = <<>>
  BY <1>2, <1>3
<1>5. ASSUME NEW i \in 0 .. n - 1 PROVE h[i + 1] = Step("AddPart", h[i], s[i + 1])
  <2>1. PICK c, p, l : c = i + 1 /\ p = GeminiPart(r, c) /\ l = [k \in 1 .. i |-> GeminiPart(r, k)]
    OBVIOUS
  <2>2. /\ i \in Nat /\ c \in 1 .. n /\ c \in 0 .. n /\ i \in 0 .. n /\ h[i] = l /\ s[c] = p
        /\ h[c] = [k \in 1 .. c |-> GeminiPart(r, k)]
    BY <1>2, <1>3, <2>1
  <2>3. p.body # <<>>
    <3>1. p.body = r[c].body /\ Len(r[c].body) \in Nat \ {0}
      BY <1>1, <2>1, <2>2, GeminiPartIs, ItemIs
    <3>. QED
      BY <3>1
  <2>4. Step("AddPart", l, p) = Append(l, p)
    BY <2>3 DEF Step, AddPart
  <2>5. Append(l, p) = [k \in 1 .. c |-> GeminiPart(r, k)]
    <3>1. DOMAIN l = 1 .. i /\ l = [k \in 1 .. i |-> l[k]] /\ i \in Nat
      BY <2>1, <2>2
    <3>4. Len(l) = i /\ l \in Seq({l[k] : k \in 1 .. i})
      BY <3>1
    <3>2. Append(l, p) = [k \in 1 .. i + 1 |-> IF k = i + 1 THEN p ELSE l[k]]
      BY <3>1, <3>4
    <3>3. \A k \in 1 .. i + 1 : (IF k = i + 1 THEN p ELSE l[k]) = GeminiPart(r, k)
      BY <2>1, <2>2
    <3>. QED
      BY <2>1, <3>2, <3>3, Zenon
  <2>. QED
    BY <2>1, <2>2, <2>4, <2>5
<1>6. Runs("AddPart", h, <<>>, s, n)
  BY <1>4, <1>5 DEF Runs
<1>7. AddParts(<<>>, s) = h[n]
  BY <1>2, <1>6, FoldAddPart
<1>8. h[n] = s
  BY <1>1, <1>2, <1>3
<1>. QED
  BY <1>7, <1>8

\* A chunk of gemini, and the result after it.
GeminiSent(f, n, ps) == [id |-> ReplyId, finish |-> f, usage |-> GeminiUsage(n), parts |-> ps]

\* The result x after a chunk with the reason f and n tokens of output.
GeminiResult(x, f, n) ==
    Result(ReplyId, AddFinish(x.finish, f), TRUE, Input, n + counts.thought, counts.read, x.created,
           x.messages)

\* A result that is named and ended.
NamedWith(q, i, s) == [q EXCEPT !.id = TakeId(@, i), !.finish = AddFinish(@, s)]

\* The parts of such a result.
LEMMA ResultNamed ==
    ASSUME NEW q, IsResult(q), NEW s
    PROVE  NamedWith(q, ReplyId, s)
           = Result(ReplyId, AddFinish(q.finish, s), q.hasUsage, q.input, q.output, q.read,
                    q.created, q.messages)
<1>1. PICK x : x = [q EXCEPT !.id = TakeId(q.id, ReplyId)]
  OBVIOUS
<1>2. TakeId(q.id, ReplyId) = ReplyId
  BY NullIsAbsent DEF TakeId, ReplyId
<1>3. x = Result(ReplyId, q.finish, q.hasUsage, q.input, q.output, q.read, q.created, q.messages)
  <2>1. [q EXCEPT !.id = ReplyId] =
          Result(ReplyId, q.finish, q.hasUsage, q.input, q.output, q.read, q.created, q.messages)
    BY ResultSet
  <2>. QED
    BY <1>1, <1>2, <2>1, Zenon
<1>4. IsResult(x) /\ x.finish = q.finish
  BY <1>3 DEF Result, IsResult
<1>5. PICK y : y = [x EXCEPT !.finish = AddFinish(x.finish, s)]
  OBVIOUS
<1>6. y = Result(x.id, AddFinish(x.finish, s), x.hasUsage, x.input, x.output, x.read, x.created,
                 x.messages)
  <2>1. IsResult(x)
    BY <1>4
  <2>. QED
    BY <1>5, <2>1, ResultSet, Zenon
<1>7. y = Result(ReplyId, AddFinish(q.finish, s), q.hasUsage, q.input, q.output, q.read, q.created,
                 q.messages)
  BY <1>3, <1>4, <1>6 DEF Result
<1>8. NamedWith(q, ReplyId, s) = y
  BY <1>1, <1>5, ZenonT(30) DEF NamedWith
<1>. QED
  BY <1>7, <1>8

\* Every chunk has a usage, which overwrites the one before it.
LEMMA GeminiChunkIs ==
    ASSUME PlaceInv, NEW a, IsResult(a.result), NEW f, NEW n \in Nat, NEW ps
    PROVE  GeminiChunk(a, GeminiSent(f, n, ps)) =
             [result |-> GeminiResult(a.result, f, n), parts |-> AddParts(a.parts, ps)]
<1>1. PICK c, u, x : c = GeminiSent(f, n, ps) /\ u = GeminiUsage(n) /\ x = a.result
  OBVIOUS
<1>2. c.id = ReplyId /\ c.finish = f /\ c.usage = u /\ c.parts = ps
  BY <1>1 DEF GeminiSent
<1>3. /\ u.input = Input /\ u.read = counts.read /\ u.candidates = n /\ u.thoughts = counts.thought
      /\ u # NULL
  <2>1. counts.read \in Nat /\ counts.thought \in Nat /\ Input \in Nat
    BY CountsAre
  <2>2. PICK i, d, t : i = Input /\ d = counts.read /\ t = counts.thought
    OBVIOUS
  <2>3. u = [input |-> i, read |-> d, candidates |-> n, thoughts |-> t]
    BY <1>1, <2>2, Zenon DEF GeminiUsage
  <2>4. i \in Nat /\ d \in Nat /\ t \in Nat
    BY <2>1, <2>2
  <2>5. u \in [input : Nat, read : Nat, candidates : Nat, thoughts : Nat]
    BY <2>3, <2>4
  <2>6. u \in UsageObjects
    BY <2>5 DEF UsageObjects
  <2>7. NULL \notin UsageObjects
    BY NullIsAbsent
  <2>. QED
    BY <2>2, <2>3, <2>6, <2>7
<1>4. PICK q : q = Counted(x, Input, n + counts.thought, counts.read)
  OBVIOUS
<1>5. GeminiChunk(a, c) = [result |-> NamedWith(q, ReplyId, f), parts |-> AddParts(a.parts, ps)]
  <2>1. q = IF c.usage = NULL THEN a.result
            ELSE Counted(a.result, c.usage.input, c.usage.candidates + c.usage.thoughts, c.usage.read)
    BY <1>1, <1>2, <1>3, <1>4
  <2>2. GeminiChunk(a, c) = [result |-> NamedWith(q, c.id, c.finish), parts |-> AddParts(a.parts, c.parts)]
    BY <2>1, Zenon DEF GeminiChunk, NamedWith
  <2>. QED
    BY <1>2, <2>2
<1>6. q = Result(x.id, x.finish, TRUE, Input, n + counts.thought, counts.read, x.created, x.messages)
  <2>1. IsResult(x)
    BY <1>1
  <2>. QED
    BY <1>4, <2>1, ResultCounted, Zenon
<1>7. /\ IsResult(q) /\ q.finish = x.finish /\ q.hasUsage = TRUE /\ q.input = Input
      /\ q.output = n + counts.thought /\ q.read = counts.read /\ q.created = x.created
      /\ q.messages = x.messages
  BY <1>6 DEF Result, IsResult
<1>8. NamedWith(q, ReplyId, f) = GeminiResult(x, f, n)
  <2>1. IsResult(q)
    BY <1>7
  <2>2. NamedWith(q, ReplyId, f)
        = Result(ReplyId, AddFinish(q.finish, f), q.hasUsage, q.input, q.output, q.read,
                 q.created, q.messages)
    BY <2>1, ResultNamed
  <2>. QED
    BY <1>7, <2>2, Zenon DEF GeminiResult
<1>. QED
  BY <1>1, <1>5, <1>8

\* Send, for the chunks of gemini: none, or one.
LEMMA GeminiSends ==
    ASSUME vendor = "gemini", NEW c
    PROVE  /\ Send(<<>>) => acc' = acc
           /\ Send(<<c>>) => acc' = GeminiChunk(acc, c)
<1>1. vendor \in Four
  BY DEF Four
<1>2. \A a, b : ReadChunk(vendor, a, b) = GeminiChunk(a, b)
  BY DEF ReadChunk
<1>3. Send(<<>>) => acc' = acc
  BY <1>1, Sends
<1>4. Send(<<c>>) => acc' = ReadChunk(vendor, acc, c)
  BY <1>1, Sends
<1>. QED
  BY <1>2, <1>3, <1>4

\* What the parser holds before the last chunk, besides the counts.
HoldsParts(a) ==
    /\ a = [result |-> a.result, parts |-> a.parts]
    /\ IsResult(a.result) /\ a.result.id \in {NULL, ReplyId}
    /\ a.result.finish \in {<<>>, <<"stop">>} /\ a.result.created = 0 /\ a.result.messages = <<>>
    /\ \E X : a.parts \in Seq(X)

\* The parts that the gemini parser holds merge to what was sent, and after the last chunk
\* its result has the counts of the reply.
GeminiInv ==
    /\ HoldsParts(acc)
    /\ MergeGeminiParts(acc.parts) = GeminiMessage(reply, item, offset)
    /\ phase = "end" =>
          acc.result = Result(ReplyId, <<"stop">>, TRUE, Input, Output, counts.read, 0, <<>>)

\* b is what the parser holds after a chunk of one part, which it adds unless it is an
\* empty text without a mark.
AddsPart(b, a, f, n, p) ==
    /\ HoldsParts(b)
    /\ f = "stop" =>
          b.result = Result(ReplyId, <<"stop">>, TRUE, Input, n + counts.thought, counts.read, 0, <<>>)
    /\ p.body = <<>> /\ p.kind = "text" /\ p.call = NULL => b.parts = a.parts
    /\ p.body # <<>> => MergeGeminiParts(b.parts) = MergeGeminiPart(MergeGeminiParts(a.parts), p)

\* That is what a chunk of one part does.
LEMMA GeminiAdds ==
    ASSUME PlaceInv, NEW a, HoldsParts(a), NEW f \in {NULL, "stop"}, NEW n \in Nat, NEW p
    PROVE  AddsPart(GeminiChunk(a, GeminiSent(f, n, <<p>>)), a, f, n, p)
<1>0. PICK b : b = GeminiChunk(a, GeminiSent(f, n, <<p>>))
  OBVIOUS
<1>1. PICK x, s, X : x = a.result /\ s = a.parts /\ s \in Seq(X)
  BY DEF HoldsParts
<1>2. IsResult(x) /\ x.finish \in {<<>>, <<"stop">>} /\ x.created = 0 /\ x.messages = <<>>
  BY <1>1 DEF HoldsParts
<1>3. b = [result |-> GeminiResult(x, f, n), parts |-> AddPart(s, p)]
  <2>1. IsResult(a.result)
    BY DEF HoldsParts
  <2>2. GeminiChunk(a, GeminiSent(f, n, <<p>>)) =
          [result |-> GeminiResult(a.result, f, n), parts |-> AddParts(a.parts, <<p>>)]
    BY <2>1, GeminiChunkIs
  <2>3. AddParts(a.parts, <<p>>) = AddPart(a.parts, p)
    BY PartsAdded
  <2>. QED
    BY <1>0, <1>1, <2>2, <2>3
<1>4. b.result = GeminiResult(x, f, n) /\ b.parts = AddPart(s, p)
      /\ b = [result |-> b.result, parts |-> b.parts]
  BY <1>3
<1>5. PICK g : g = AddFinish(x.finish, f) /\ g \in {<<>>, <<"stop">>} /\ (f = "stop" => g = <<"stop">>)
  BY <1>2, Stops
<1>6. b.result = Result(ReplyId, g, TRUE, Input, n + counts.thought, counts.read, 0, <<>>)
  BY <1>2, <1>4, <1>5, Zenon DEF GeminiResult
<1>7. /\ IsResult(b.result) /\ b.result.id = ReplyId /\ b.result.finish = g /\ b.result.created = 0
      /\ b.result.messages = <<>>
  BY <1>6 DEF Result, IsResult
<1>8. /\ p.body = <<>> /\ p.kind = "text" /\ p.call = NULL => b.parts = s
      /\ p.body # <<>> => b.parts = Append(s, p)
      /\ b.parts = s \/ b.parts = Append(s, p)
  BY <1>4 DEF AddPart
<1>9. \E Y : b.parts \in Seq(Y)
  <2>1. s \in Seq(X \cup {p}) /\ Append(s, p) \in Seq(X \cup {p})
    BY <1>1
  <2>. QED
    BY <1>8, <2>1, Zenon
<1>10. HoldsParts(b)
  BY <1>4, <1>5, <1>7, <1>9 DEF HoldsParts
<1>11. MergeGeminiParts(Append(s, p)) = MergeGeminiPart(MergeGeminiParts(s), p)
  BY <1>1, MergeAppend
<1>. QED
  BY <1>0, <1>1, <1>5, <1>6, <1>8, <1>10, <1>11, Zenon DEF AddsPart

\* Each action of a gemini reply keeps what its parser holds.
LEMMA GeminiStep ==
    ASSUME PlaceInv, Next, vendor = "gemini", GeminiInv
    PROVE  GeminiInv'
<1>0. /\ UNCHANGED <<vendor, reply, counts>> /\ PlaceInv'
      /\ IsReply(reply) /\ Len(reply) \in Nat \ {0} /\ item \in Nat
      /\ item # 0 => /\ Place(reply, item, offset) /\ item \in 1 .. Len(reply)
                     /\ offset \in 0 .. Len(reply[item].body)
                     /\ Len(reply[item].body) \in Nat \ {0}
      /\ item = 0 => offset = 0 /\ phase = "items"
  BY PlaceIs, PlaceStep
<1>1. PICK m : m = GeminiMessage(reply, item, offset) /\ MergeGeminiParts(acc.parts) = m
  BY DEF GeminiInv
<1>2. HoldsParts(acc)
  BY DEF GeminiInv
<1>3. ASSUME phase' # "end", HoldsParts(acc'),
             MergeGeminiParts(acc'.parts) = GeminiMessage(reply, item', offset')
      PROVE  GeminiInv'
  BY <1>0, <1>3 DEF GeminiInv
<1>4. CASE Start
  <2>1. /\ item = 0 /\ item' = 1 /\ offset' = 0 /\ phase' = "items" /\ Send(Opening \o Beginning(1))
    BY <1>4 DEF Start
  <2>2. Opening = <<>> /\ Beginning(1) = <<>> /\ <<>> \o <<>> = <<>>
    BY DEF Opening, Beginning
  <2>3. acc' = acc
    <3>1. Send(<<>>)
      BY <2>1, <2>2
    <3>. QED
      BY <3>1, GeminiSends
  <2>4. m = <<>>
    BY <1>1, <2>1 DEF GeminiMessage
  <2>5. GeminiMessage(reply, 1, 0) = <<>>
    <3>1. GeminiMessage(reply, 1, 0) = Merged(reply, 1 - 1)
      BY <1>0, GeminiItem
    <3>2. Merged(reply, 0) = <<>>
      BY MergedMore
    <3>. QED
      BY <3>1, <3>2
  <2>. QED
    BY <1>1, <1>2, <1>3, <2>1, <2>3, <2>4, <2>5
<1>5. CASE SendPiece
  <2>1. PICK n \in 1 .. MaxPiece :
          /\ offset + n <= Len(reply[item].body) /\ offset' = offset + n
          /\ Send(Carrying(item, SubSeq(reply[item].body, offset + 1, offset + n),
                           offset' = Len(reply[item].body)))
    BY <1>5 DEF SendPiece
  <2>2. item' = item /\ phase' = "items" /\ item # 0
    BY <1>5 DEF SendPiece, AtEnd
  <2>3. n \in Nat \ {0} /\ Place(reply, item, offset) /\ Place(reply, item, offset + n)
    <3>1. n \in Nat \ {0}
      BY PiecesAreBounded
    <3>2. item \in 1 .. Len(reply) /\ Len(reply[item].body) \in Nat /\ Place(reply, item, offset)
      BY <2>2, PlaceIs
    <3>3. offset \in 0 .. Len(reply[item].body)
      BY <3>2 DEF Place
    <3>4. offset + n \in 0 .. Len(reply[item].body)
      BY <2>1, <3>1, <3>2, <3>3
    <3>. QED
      BY <3>1, <3>2, <3>4 DEF Place
  <2>4. PICK done, p, w : /\ p = SubSeq(reply[item].body, offset + 1, offset + n)
                          /\ done = (offset' = Len(reply[item].body))
                          /\ w = GeminiMessage(reply, item, offset + n)
    OBVIOUS
  <2>5. done <=> offset + n = Len(reply[item].body)
    BY <2>1, <2>4
  <2>6. Send(Carrying(item, p, done))
    BY <2>1, <2>4, Zenon
  <2>7. p # <<>> /\ Len(p) = n
    <3>1. PICK b : b = reply[item].body
      OBVIOUS
    <3>2. b \in Seq(Tokens(reply)) /\ offset \in Nat /\ n \in Nat \ {0} /\ offset + n <= Len(b)
      BY <1>0, <2>1, <2>2, <2>3, <3>1, ItemIs
    <3>3. /\ SubSeq(b, offset + 1, offset + n) # <<>>
          /\ Len(SubSeq(b, offset + 1, offset + n)) = n
      BY <3>2, BodyGrows
    <3>. QED
      BY <2>4, <3>1, <3>3
  <2>8. PICK t : t = Sent + n /\ t \in Nat
    BY <2>2, <2>3, CountsAre
  <2>9. CASE reply[item].kind = "text"
    <3>1. PICK q, c : q = TextPart(reply[item].call, p) /\ c = GeminiSent(NULL, t, <<q>>)
      OBVIOUS
    <3>2. Carrying(item, p, done) = <<c>>
      BY <2>7, <2>8, <2>9, <3>1 DEF Carrying, GeminiSent, TextPart
    <3>3. acc' = GeminiChunk(acc, c)
      <4>1. Send(<<c>>)
        BY <2>6, <3>2
      <4>. QED
        BY <4>1, GeminiSends
    <3>4. q.body = p
      BY <3>1 DEF TextPart, Part
    <3>5. PICK b : b = GeminiChunk(acc, GeminiSent(NULL, t, <<q>>))
      OBVIOUS
    <3>6. /\ HoldsParts(b)
          /\ q.body # <<>> =>
                MergeGeminiParts(b.parts) = MergeGeminiPart(MergeGeminiParts(acc.parts), q)
      <4>1. AddsPart(GeminiChunk(acc, GeminiSent(NULL, t, <<q>>)), acc, NULL, t, q)
        BY <1>2, <2>8, GeminiAdds
      <4>. QED
        BY <3>5, <4>1, Zenon DEF AddsPart
    <3>7. MergeGeminiPart(m, q) = w
      BY <1>1, <2>3, <2>4, <2>9, <3>1, GeminiMore
    <3>. QED
      BY <1>1, <1>3, <2>1, <2>2, <2>4, <2>7, <3>1, <3>3, <3>4, <3>5, <3>6, <3>7, Zenon
  <2>10. CASE reply[item].kind # "text" /\ done
    <3>1. PICK q, c : q = GeminiPart(reply, item) /\ c = GeminiSent("stop", t, <<q>>)
      OBVIOUS
    <3>2. Carrying(item, p, done) = <<c>>
      BY <2>7, <2>8, <2>10, <3>1 DEF Carrying, GeminiSent, GeminiPart, Item
    <3>3. acc' = GeminiChunk(acc, c)
      <4>1. Send(<<c>>)
        BY <2>6, <3>2
      <4>. QED
        BY <4>1, GeminiSends
    <3>4. q.body # <<>>
      <4>1. q.body = reply[item].body /\ Len(reply[item].body) \in Nat \ {0}
        BY <1>0, <2>2, <3>1, GeminiPartIs
      <4>. QED
        BY <4>1
    <3>5. PICK b : b = GeminiChunk(acc, GeminiSent("stop", t, <<q>>))
      OBVIOUS
    <3>6. /\ HoldsParts(b)
          /\ q.body # <<>> =>
                MergeGeminiParts(b.parts) = MergeGeminiPart(MergeGeminiParts(acc.parts), q)
      <4>1. AddsPart(GeminiChunk(acc, GeminiSent("stop", t, <<q>>)), acc, "stop", t, q)
        BY <1>2, <2>8, GeminiAdds
      <4>. QED
        BY <3>5, <4>1, Zenon DEF AddsPart
    <3>7. MergeGeminiPart(m, q) = w
      BY <1>1, <2>3, <2>4, <2>5, <2>10, <3>1, GeminiMore
    <3>. QED
      BY <1>1, <1>3, <2>1, <2>2, <2>4, <3>1, <3>3, <3>4, <3>5, <3>6, <3>7, Zenon
  <2>11. CASE reply[item].kind # "text" /\ ~ done
    <3>1. Carrying(item, p, done) = <<>>
      BY <2>11 DEF Carrying
    <3>2. acc' = acc
      <4>1. Send(<<>>)
        BY <2>6, <3>1
      <4>. QED
        BY <4>1, GeminiSends
    <3>3. w = m
      BY <1>1, <2>3, <2>4, <2>5, <2>11, GeminiMore
    <3>. QED
      BY <1>1, <1>2, <1>3, <2>1, <2>2, <2>4, <3>2, <3>3
  <2>. QED
    BY <2>9, <2>10, <2>11
<1>6. CASE NextItem
  <2>1. /\ item > 0 /\ AtEnd /\ item < Len(reply) /\ item' = item + 1
        /\ offset' = 0 /\ phase' = "items" /\ Send(Beginning(item + 1))
    BY <1>6 DEF NextItem
  <2>2. PICK k : k = item + 1
    OBVIOUS
  <2>3. item \in 1 .. Len(reply) /\ k \in 1 .. Len(reply) /\ item # 0 /\ k - 1 = item
    BY <1>0, <2>1, <2>2
  <2>4. offset = Len(reply[item].body)
    BY <2>1, <2>3 DEF AtEnd
  <2>5. m = Merged(reply, item)
    BY <1>0, <1>1, <2>3, <2>4, GeminiItem
  <2>6. GeminiMessage(reply, k, 0) = Merged(reply, k - 1)
    BY <1>0, <2>3, GeminiItem
  <2>7. Beginning(k) = <<>>
    BY DEF Beginning
  <2>8. acc' = acc
    <3>1. Send(<<>>)
      BY <2>1, <2>2, <2>7
    <3>. QED
      BY <3>1, GeminiSends
  <2>. QED
    BY <1>1, <1>2, <1>3, <2>1, <2>2, <2>3, <2>5, <2>6, <2>8
<1>7. CASE Finish
  <2>1. /\ phase' = "end" /\ item' = item /\ offset' = offset /\ item = Len(reply)
        /\ \E ending \in Endings : Send(ending)
    BY <1>7 DEF Finish
  <2>2. PICK p, t, c : p = TextPart(NULL, <<>>) /\ t = Sent /\ c = GeminiSent("stop", t, <<p>>)
    OBVIOUS
  <2>3. Endings = {<<c>>}
    BY <2>2 DEF Endings, GeminiSent, TextPart
  <2>4. acc' = GeminiChunk(acc, c)
    <3>1. Send(<<c>>)
      BY <2>1, <2>3
    <3>. QED
      BY <3>1, GeminiSends
  <2>5. t \in Nat /\ t + counts.thought = Output
    <3>1. item # 0
      BY <1>0, <2>1
    <3>. QED
      BY <2>2, <3>1, CountsAre DEF Output
  <2>6. p.body = <<>> /\ p.kind = "text" /\ p.call = NULL
    BY <2>2 DEF TextPart, Part
  <2>7. PICK b : b = GeminiChunk(acc, GeminiSent("stop", t, <<p>>))
    OBVIOUS
  <2>8. /\ HoldsParts(b)
        /\ b.result = Result(ReplyId, <<"stop">>, TRUE, Input, t + counts.thought, counts.read, 0, <<>>)
        /\ p.body = <<>> /\ p.kind = "text" /\ p.call = NULL => b.parts = acc.parts
    <3>1. AddsPart(GeminiChunk(acc, GeminiSent("stop", t, <<p>>)), acc, "stop", t, p)
      BY <1>2, <2>5, GeminiAdds
    <3>. QED
      BY <2>7, <3>1, Zenon DEF AddsPart
  <2>9. Input' = Input /\ Output' = Output /\ counts' = counts
    BY <1>0, <2>1, CountsStay
  <2>10. acc' = b
    BY <2>2, <2>4, <2>7
  <2>11. /\ HoldsParts(acc')
         /\ MergeGeminiParts(acc'.parts) = GeminiMessage(reply, item, offset)'
    BY <1>0, <1>1, <2>1, <2>6, <2>8, <2>10
  <2>12. acc'.result = Result(ReplyId, <<"stop">>, TRUE, Input, Output, counts.read, 0, <<>>)'
    BY <2>5, <2>8, <2>9, <2>10
  <2>. QED
    BY <2>11, <2>12 DEF GeminiInv
<1>8. ~ StopEarly /\ ~ FinishBare
  BY DEF StopEarly, FinishBare
<1>. QED
  BY <1>4, <1>5, <1>6, <1>7, <1>8 DEF Next

\* A gemini reply, answered whole: one chunk with all items.
LEMMA GeminiWhole ==
    ASSUME PlaceInv, item # 0, vendor = "gemini"
    PROVE  Whole = Result(ReplyId, <<"stop">>, TRUE, Input, Output, counts.read, 0,
                          Merged(reply, Len(reply)))
<1>1. PICK s, n, m : /\ s = [k \in 1 .. Len(reply) |-> GeminiPart(reply, k)] /\ n = Sent
                     /\ m = Merged(reply, Len(reply))
  OBVIOUS
<1>2. IsReply(reply) /\ DOMAIN reply = 1 .. Len(reply) /\ n \in Nat
  BY <1>1, PlaceIs, ReplyItems, CountsAre
<1>3. [i \in DOMAIN reply |-> Item(i)] = s
  BY <1>1, <1>2 DEF Item, GeminiPart
<1>4. PICK a : a = NoChunks("gemini")
  OBVIOUS
<1>5. a.result = Blank /\ a.parts = <<>>
  BY <1>4 DEF NoChunks
<1>6. PICK b, x : b = GeminiChunk(a, GeminiSent("stop", n, s)) /\ x = GeminiResult(Blank, "stop", n)
  OBVIOUS
<1>7. Whole = [b.result EXCEPT !.messages = MergeGeminiParts(b.parts)]
  <2>1. GeminiSent("stop", n, s)
        = [id |-> ReplyId, finish |-> "stop", usage |-> GeminiUsage(Sent),
           parts |-> [i \in DOMAIN reply |-> Item(i)]]
    BY <1>1, <1>3, Zenon DEF GeminiSent
  <2>2. Whole = ParseGeminiChunks(GeminiChunk(NoChunks("gemini"),
                   [id |-> ReplyId, finish |-> "stop", usage |-> GeminiUsage(Sent),
                    parts |-> [i \in DOMAIN reply |-> Item(i)]]))
    BY DEF Whole
  <2>. QED
    BY <1>4, <1>6, <2>1, <2>2, Zenon DEF ParseGeminiChunks
<1>8. b = [result |-> x, parts |-> AddParts(<<>>, s)]
  <2>1. IsResult(a.result)
    BY <1>5, BlankIs
  <2>2. GeminiChunk(a, GeminiSent("stop", n, s)) =
          [result |-> GeminiResult(a.result, "stop", n), parts |-> AddParts(a.parts, s)]
    BY <1>2, <2>1, GeminiChunkIs
  <2>. QED
    BY <1>5, <1>6, <2>2
<1>9. AddParts(<<>>, s) = s
  BY <1>1, <1>2, ItemsAdded
<1>10. MergeGeminiParts(s) = m
  BY <1>1, Zenon DEF Merged
<1>11. x = Result(ReplyId, <<"stop">>, TRUE, Input, Output, counts.read, 0, <<>>)
  <2>1. n + counts.thought = Output
    BY <1>1 DEF Output
  <2>2. AddFinish(<<>>, "stop") = <<"stop">>
    BY Stops
  <2>3. Blank.finish = <<>> /\ Blank.created = 0 /\ Blank.messages = <<>>
    BY BlankIs
  <2>. QED
    BY <1>6, <2>1, <2>2, <2>3, Zenon DEF GeminiResult
<1>12. Whole = [x EXCEPT !.messages = m]
  <2>1. b.result = x /\ b.parts = s
    BY <1>8, <1>9
  <2>. QED
    BY <1>7, <1>10, <2>1, Zenon
<1>13. /\ IsResult(x) /\ x.id = ReplyId /\ x.finish = <<"stop">> /\ x.hasUsage = TRUE
       /\ x.input = Input /\ x.output = Output /\ x.read = counts.read /\ x.created = 0
  BY <1>11 DEF Result, IsResult
<1>14. [x EXCEPT !.messages = m]
       = Result(x.id, x.finish, x.hasUsage, x.input, x.output, x.read, x.created, m)
  <2>1. IsResult(x)
    BY <1>13
  <2>. QED
    BY <2>1, ResultGiven
<1>. QED
  BY <1>1, <1>12, <1>13, <1>14

\* What the invariant says of a gemini reply: its span is the one of the whole reply, or
\* has what was sent.
LEMMA GeminiKeeps ==
    ASSUME PlaceInv, vendor = "gemini", GeminiInv
    PROVE  StreamedAsWhole /\ CutKeepsSent
<1>1. /\ IsReply(reply) /\ item \in Nat /\ Len(reply) \in Nat \ {0}
      /\ item # 0 => /\ Place(reply, item, offset) /\ item \in 1 .. Len(reply)
                     /\ offset \in 0 .. Len(reply[item].body)
      /\ item = 0 => offset = 0 /\ phase = "items"
  BY PlaceIs
<1>2. PICK x, m, p : /\ x = acc.result /\ m = GeminiMessage(reply, item, offset) /\ p = Parsed
  OBVIOUS
<1>3. IsResult(x) /\ MergeGeminiParts(acc.parts) = m
  BY <1>2 DEF GeminiInv, HoldsParts
<1>4. p = [x EXCEPT !.messages = m]
  <2>1. Parsed = ParseGeminiChunks(acc)
    BY DEF Parsed, ParseStream
  <2>. QED
    BY <1>2, <1>3, <2>1, Zenon DEF ParseGeminiChunks
<1>5. p = Result(x.id, x.finish, x.hasUsage, x.input, x.output, x.read, x.created, m)
  <2>1. [x EXCEPT !.messages = m]
        = Result(x.id, x.finish, x.hasUsage, x.input, x.output, x.read, x.created, m)
    <3>1. IsResult(x)
      BY <1>3
    <3>. QED
      BY <3>1, ResultGiven
  <2>. QED
    BY <1>4, <2>1
<1>6. p.messages = m
  BY <1>5 DEF Result
<1>7. phase # "bare"
  BY DEF PlaceInv
<1>8. ASSUME phase = "end" PROVE Parsed = Whole
  <2>1. item = Len(reply) /\ item # 0 /\ offset = Len(reply[item].body)
    BY <1>1, <1>8 DEF PlaceInv, AtEnd
  <2>2. m = Merged(reply, Len(reply))
    BY <1>1, <1>2, <2>1, GeminiItem
  <2>3. x = Result(ReplyId, <<"stop">>, TRUE, Input, Output, counts.read, 0, <<>>)
    BY <1>2, <1>8 DEF GeminiInv
  <2>4. /\ x.id = ReplyId /\ x.finish = <<"stop">> /\ x.hasUsage = TRUE /\ x.input = Input
        /\ x.output = Output /\ x.read = counts.read /\ x.created = 0
    BY <2>3 DEF Result
  <2>5. Whole = Result(ReplyId, <<"stop">>, TRUE, Input, Output, counts.read, 0,
                       Merged(reply, Len(reply)))
    BY <2>1, GeminiWhole
  <2>. QED
    BY <1>2, <1>5, <2>2, <2>4, <2>5, Zenon
<1>9. TextOf(m) = TextOf(SentItems) /\ KeepsCalls(m)
  <2>1. CASE item = 0
    <3>1. m = <<>> /\ DOMAIN m = 1 .. 0
      BY <1>2, <2>1 DEF GeminiMessage
    <3>2. TextOf(m) = <<>>
      BY <3>1, TextOfNone
    <3>3. TextOf(SentItems) = <<>>
      BY <1>1, <2>1, SentIsCut, CutFirst
    <3>4. KeepsCalls(m)
      BY <2>1 DEF KeepsCalls
    <3>. QED
      BY <3>2, <3>3, <3>4
  <2>2. CASE item # 0
    <3>1. GeminiHas(m, reply, item, offset)
      BY <1>1, <1>2, <2>2, GeminiKept
    <3>2. TextOf(m) = TextOf(SentItems)
      BY <3>1, SentIsCut DEF GeminiHas
    <3>3. ASSUME NEW k \in 1 .. item, reply[k].kind = "call", k = item => offset = Len(reply[k].body)
          PROVE  \E j \in DOMAIN m :
                    m[j].kind = "call" /\ m[j].call = reply[k].call /\ m[j].body = reply[k].body
      <4>1. PICK j \in DOMAIN m : m[j] = GeminiPart(reply, k)
        BY <3>1, <3>3 DEF GeminiHas
      <4>2. k \in 1 .. Len(reply)
        BY <1>1, <2>2
      <4>. QED
        BY <1>1, <3>3, <4>1, <4>2, GeminiPartIs
    <3>4. KeepsCalls(m)
      BY <3>3 DEF KeepsCalls
    <3>. QED
      BY <3>2, <3>4
  <2>. QED
    BY <2>1, <2>2
<1>10. SentCalls \subseteq CallsOf(m)
  BY <1>9, SentCallsKept
<1>. QED
  BY <1>2, <1>6, <1>7, <1>8, <1>9, <1>10 DEF StreamedAsWhole, CutKeepsSent

------------------------------------------------------------------------------
(* Every reply of every conversation *)

\* What the parser of the vendor holds.
IInv ==
    /\ PlaceInv
    /\ vendor = "anthropic" => AnthropicInv
    /\ vendor = "chat"      => ChatInv
    /\ vendor = "responses" => ResponsesInv
    /\ vendor = "gemini"    => GeminiInv

\* A reply that is about to begin.
Begins ==
    /\ vendor \in Vendors /\ IsReply(reply)
    /\ counts \in [{"fresh", "read", "created", "thought"} -> Nat]
    /\ item = 0 /\ offset = 0 /\ acc = NoChunks(vendor) /\ phase = "items"

\* A reply of which nothing is sent has the invariant.
LEMMA BeginsWell == Begins => IInv
<1>1. SUFFICES ASSUME Begins PROVE IInv
  OBVIOUS
<1>2. /\ vendor \in Vendors /\ IsReply(reply) /\ item = 0 /\ offset = 0 /\ phase = "items"
      /\ counts \in [{"fresh", "read", "created", "thought"} -> Nat] /\ acc = NoChunks(vendor)
  BY <1>1 DEF Begins
<1>3. PlaceInv
  <2>1. Len(reply) \in Nat
    BY <1>2, ReplyItems
  <2>. QED
    BY <1>2, <2>1 DEF PlaceInv
<1>4. PICK b : b = Blank /\ IsResult(b) /\ b.id = NULL /\ b.finish = <<>> /\ b.created = 0
               /\ b.messages = <<>>
  BY BlankIs
<1>5. ASSUME vendor = "anthropic" PROVE AnthropicInv
  <2>1. SentBlocks(reply, 0, 0) = <<>>
    BY <1>2, BlocksBegin
  <2>. QED
    BY <1>2, <1>5, <2>1 DEF AnthropicInv, AnthropicResult, NoChunks
<1>6. ASSUME vendor = "chat" PROVE ChatInv
  BY <1>2, <1>6 DEF ChatInv, NoChunks, OpenAIAcc
<1>7. ASSUME vendor = "responses" PROVE ResponsesInv
  <2>1. PICK t : t = TextOf(CutAt(reply, item, offset)) /\ t = <<>>
    BY <1>2, CutFirst
  <2>2. Done = 0
    BY <1>2 DEF Done
  <2>3. OutputItems(reply, Done) = <<>>
    BY <2>2 DEF OutputItems
  <2>4. acc = OpenAIAcc(b, t, <<>>, FALSE, <<>>, FALSE, b)
    BY <1>2, <1>4, <1>7, <2>1, Zenon DEF NoChunks, OpenAIAcc
  <2>5. HoldsOutput(acc, t, <<>>, FALSE)
    <3>1. /\ acc.result = b /\ acc.sawChoice = FALSE /\ acc.final = b
      BY <2>4 DEF OpenAIAcc
    <3>2. t \in Seq({0})
      BY <2>1
    <3>3. acc = OpenAIAcc(acc.result, t, <<>>, acc.sawChoice, <<>>, FALSE, acc.final)
      BY <2>4, <3>1, Zenon
    <3>. QED
      BY <1>4, <2>1, <3>1, <3>2, <3>3 DEF HoldsOutput
  <2>6. PICK e : e = (phase = "end") /\ e = FALSE
    BY <1>2
  <2>. QED
    BY <1>2, <2>1, <2>3, <2>5, <2>6 DEF ResponsesInv
<1>8. ASSUME vendor = "gemini" PROVE GeminiInv
  <2>1. acc = [result |-> b, parts |-> <<>>]
    BY <1>2, <1>4, <1>8 DEF NoChunks
  <2>2. acc.result = b /\ acc.parts = <<>>
    BY <2>1
  <2>3. <<>> \in Seq({0})
    OBVIOUS
  <2>4. HoldsParts(acc)
    BY <1>4, <2>1, <2>2, <2>3 DEF HoldsParts
  <2>5. MergeGeminiParts(<<>>) = <<>>
    BY <2>3, MergeAppend
  <2>6. GeminiMessage(reply, 0, 0) = <<>>
    BY DEF GeminiMessage
  <2>. QED
    BY <1>2, <2>2, <2>4, <2>5, <2>6 DEF GeminiInv
<1>. QED
  BY <1>3, <1>5, <1>6, <1>7, <1>8 DEF IInv

\* A chunk keeps it.
LEMMA ChunkKeepsInv ==
    ASSUME IInv, Next
    PROVE  IInv'
<1>1. PlaceInv /\ PlaceInv' /\ vendor' = vendor
  BY PlaceStep DEF IInv
<1>2. vendor = "anthropic" => AnthropicInv'
  BY <1>1, AnthropicStep DEF IInv
<1>3. vendor = "chat" => ChatInv'
  BY <1>1, ChatStep DEF IInv
<1>4. vendor = "responses" => ResponsesInv'
  BY <1>1, ResponsesStep DEF IInv
<1>5. vendor = "gemini" => GeminiInv'
  BY <1>1, GeminiStep DEF IInv
<1>. QED
  BY <1>1, <1>2, <1>3, <1>4, <1>5 DEF IInv

\* Where the reply and the parser stay as they are, so does it.
LEMMA InvStays ==
    ASSUME IInv, UNCHANGED vars
    PROVE  IInv'
<1>1. /\ vendor' = vendor /\ reply' = reply /\ counts' = counts /\ item' = item
      /\ offset' = offset /\ acc' = acc /\ phase' = phase
  BY DEF vars
<1>2. Input' = Input /\ Sent' = Sent /\ Output' = Output
  BY <1>1, CountsStay
<1>3. PlaceInv'
  BY <1>1 DEF IInv, PlaceInv, AtEnd
<1>4. AnthropicInv' <=> AnthropicInv
  BY <1>1, <1>2 DEF AnthropicInv, AnthropicResult
<1>5. ChatInv' <=> ChatInv
  BY <1>1, <1>2 DEF ChatInv, ChatResult, ChatCount
<1>6. ResponsesInv' <=> ResponsesInv
  <2>1. Done' = Done /\ AllOutput' = AllOutput
    BY <1>1 DEF Done, AllOutput
  <2>2. \A o : ParseResponsesCompleted(Response(o))' = ParseResponsesCompleted(Response(o))
    BY <1>1, <1>2 DEF Response, OpenAIUsage
  <2>. QED
    BY <1>1, <2>1, <2>2 DEF ResponsesInv
<1>7. GeminiInv' <=> GeminiInv
  BY <1>1, <1>2 DEF GeminiInv
<1>. QED
  BY <1>1, <1>3, <1>4, <1>5, <1>6, <1>7 DEF IInv

\* Another request begins another reply.
LEMMA AskBegins ==
    ASSUME IInv, NEW r, Ask(r)
    PROVE  Begins'
BY FollowUpsAreReplies, FollowUsageIsUsage DEF IInv, PlaceInv, Ask, Begins

\* In every conversation the parser holds what the inductive invariant says.
THEOREM ParserHoldsReply == ConversationSpec => []IInv
<1>1. ConversationInit => IInv
  <2>1. ConversationInit => Begins
    BY RepliesAreReplies, UsagesAreUsages DEF ConversationInit, Init, Begins
  <2>. QED
    BY <2>1, BeginsWell
<1>2. IInv /\ [ConversationNext]_<<vars, talk>> => IInv'
  <2>1. SUFFICES ASSUME IInv, [ConversationNext]_<<vars, talk>> PROVE IInv'
    OBVIOUS
  <2>2. Begins' => IInv'
    BY BeginsWell, PTL
  <2>3. CASE Receive
    BY <2>1, <2>3, ChunkKeepsInv DEF Receive
  <2>4. CASE Capture
    BY <2>1, <2>4, InvStays DEF Capture
  <2>5. CASE AskAgain
    BY <2>1, <2>2, <2>5, AskBegins DEF AskAgain
  <2>6. CASE SendResults
    BY <2>1, <2>2, <2>6, AskBegins DEF SendResults, GoOn
  <2>7. CASE SendPrompt
    BY <2>1, <2>2, <2>7, AskBegins DEF SendPrompt, GoOn
  <2>8. CASE UNCHANGED <<vars, talk>>
    BY <2>1, <2>8, InvStays
  <2>. QED
    BY <2>1, <2>3, <2>4, <2>5, <2>6, <2>7, <2>8 DEF ConversationNext
<1>. QED
  BY <1>1, <1>2, PTL DEF ConversationSpec

\* However a reply is cut into chunks, its span is the one of the same reply sent whole:
\* parseStream agrees with the parsers of whole answers, for every reply of every vendor.
THEOREM RepliesStreamAsWhole == ConversationSpec => []StreamedAsWhole
<1>1. IInv => StreamedAsWhole
  <2>1. SUFFICES ASSUME IInv PROVE StreamedAsWhole
    OBVIOUS
  <2>2. PlaceInv /\ vendor \in Four
    BY <2>1, PlaceIs DEF IInv
  <2>. QED
    BY <2>1, <2>2, AnthropicKeeps, ChatKeeps, ResponsesKeeps, GeminiKeeps DEF IInv, Four
<1>. QED
  BY <1>1, ParserHoldsReply, PTL

\* Wherever a stream ends, its span has the text that was sent, and the calls whose
\* arguments were; those of the responses API only after its last event.
THEOREM CutRepliesKeepSent == ConversationSpec => []CutKeepsSent
<1>1. IInv => CutKeepsSent
  <2>1. SUFFICES ASSUME IInv PROVE CutKeepsSent
    OBVIOUS
  <2>2. PlaceInv /\ vendor \in Four
    BY <2>1, PlaceIs DEF IInv
  <2>. QED
    BY <2>1, <2>2, AnthropicKeeps, ChatKeeps, ResponsesKeeps, GeminiKeeps DEF IInv, Four
<1>. QED
  BY <1>1, ParserHoldsReply, PTL

------------------------------------------------------------------------------
(* The prompt that a request belongs to *)

\* A set of numbers up to n has a greatest one, which Max finds.
LEMMA MaxOf ==
    ASSUME NEW n \in Nat, NEW S \in SUBSET (-1 .. n), S # {}
    PROVE  Max(S) \in S /\ \A y \in S : y <= Max(S)
<1>1. PICK C : C = {n - x : x \in S}
  OBVIOUS
<1>2. C \in SUBSET Nat /\ C # {}
  <2>1. \A x \in S : n - x \in Nat
    OBVIOUS
  <2>2. \A c \in C : c \in Nat
    BY <1>1, <2>1
  <2>3. PICK x \in S : TRUE
    OBVIOUS
  <2>4. n - x \in C
    BY <1>1
  <2>. QED
    BY <2>2, <2>4
<1>3. PICK c \in C : \A y \in C : c <= y
  BY <1>2, LeastNatural
<1>4. PICK x \in S : c = n - x
  BY <1>1, <1>3
<1>5. \A y \in S : x >= y
  <2>1. TAKE y \in S
  <2>2. n - y \in C
    BY <1>1
  <2>. QED
    BY <1>3, <1>4, <2>2
<1>6. Max(S) \in S /\ \A y \in S : Max(S) >= y
  BY <1>5 DEF Max
<1>. QED
  BY <1>6

\* a is the position of the last prompt of m, which has n messages, or -1.
IsAnchor(v, m, n, a) ==
    /\ a \in -1 .. n - 1
    /\ a # -1 => IsPrompt(v, m[a + 1])
    /\ \A j \in 1 .. n : IsPrompt(v, m[j]) => j - 1 <= a

\* turnAnchor finds it.
LEMMA AnchorIs ==
    ASSUME NEW v, NEW n \in Nat, NEW m, DOMAIN m = 1 .. n
    PROVE  IsAnchor(v, m, n, TurnAnchor(v, m))
<1>1. PICK S : S = {i - 1 : i \in {j \in DOMAIN m : IsPrompt(v, m[j])}} \cup {-1}
  OBVIOUS
<1>2. S \in SUBSET (-1 .. n) /\ S # {}
  BY <1>1
<1>3. PICK a : a = TurnAnchor(v, m)
  OBVIOUS
<1>4. a = Max(S)
  BY <1>1, <1>3 DEF TurnAnchor
<1>5. a \in S /\ \A y \in S : y <= a
  BY <1>2, <1>4, MaxOf
<1>6. a # -1 => \E j \in 1 .. n : IsPrompt(v, m[j]) /\ a = j - 1
  BY <1>1, <1>5
<1>7. \A j \in 1 .. n : IsPrompt(v, m[j]) => j - 1 <= a
  BY <1>1, <1>5
<1>8. a # -1 => IsPrompt(v, m[a + 1]) /\ a \in 0 .. n - 1
  <2>1. SUFFICES ASSUME a # -1 PROVE IsPrompt(v, m[a + 1]) /\ a \in 0 .. n - 1
    OBVIOUS
  <2>2. PICK j \in 1 .. n : IsPrompt(v, m[j]) /\ a = j - 1
    BY <1>6, <2>1
  <2>3. a + 1 = j
    BY <2>2
  <2>. QED
    BY <2>2, <2>3
<1>. QED
  BY <1>3, <1>7, <1>8 DEF IsAnchor

\* There is only one.
LEMMA AnchorOnly ==
    ASSUME NEW v, NEW n \in Nat, NEW m, NEW a, NEW b, IsAnchor(v, m, n, a), IsAnchor(v, m, n, b)
    PROVE  a = b
<1>1. a <= b
  <2>1. CASE a = -1
    BY <2>1 DEF IsAnchor
  <2>2. CASE a # -1
    <3>1. a + 1 \in 1 .. n /\ IsPrompt(v, m[a + 1]) /\ a \in Int /\ b \in Int
      BY <2>2 DEF IsAnchor
    <3>2. (a + 1) - 1 <= b
      BY <3>1 DEF IsAnchor
    <3>. QED
      BY <3>1, <3>2
  <2>. QED
    BY <2>1, <2>2
<1>2. b <= a
  <2>1. CASE b = -1
    BY <2>1 DEF IsAnchor
  <2>2. CASE b # -1
    <3>1. b + 1 \in 1 .. n /\ IsPrompt(v, m[b + 1]) /\ a \in Int /\ b \in Int
      BY <2>2 DEF IsAnchor
    <3>2. (b + 1) - 1 <= a
      BY <3>1 DEF IsAnchor
    <3>. QED
      BY <3>1, <3>2
  <2>. QED
    BY <2>1, <2>2
<1>. QED
  BY <1>1, <1>2 DEF IsAnchor

\* m is a sequence.
IsSequence(m) == \E X : m \in Seq(X)

\* There is a prompt among the messages of m.
HasPrompt(v, m) == \E j \in DOMAIN m : IsPrompt(v, m[j])

\* Two sequences, one after the other.
LEMMA Joined ==
    ASSUME NEW s, IsSequence(s), NEW t, IsSequence(t)
    PROVE  /\ IsSequence(s \o t) /\ Len(s) \in Nat /\ Len(t) \in Nat
           /\ DOMAIN s = 1 .. Len(s) /\ DOMAIN t = 1 .. Len(t)
           /\ Len(s \o t) = Len(s) + Len(t) /\ DOMAIN (s \o t) = 1 .. Len(s) + Len(t)
           /\ \A j \in 1 .. Len(s) : (s \o t)[j] = s[j]
           /\ \A j \in 1 .. Len(t) : (s \o t)[Len(s) + j] = t[j]
<1>1. PICK X : s \in Seq(X)
  BY DEF IsSequence
<1>2. PICK Y : t \in Seq(Y)
  BY DEF IsSequence
<1>3. s \in Seq(X \cup Y) /\ t \in Seq(X \cup Y)
  BY <1>1, <1>2
<1>. QED
  BY <1>3 DEF IsSequence

\* Messages that are appended: the last prompt is the one among them, or stays.
LEMMA AnchorGrows ==
    ASSUME NEW v, NEW h, IsSequence(h), NEW m, IsSequence(m)
    PROVE  /\ ~ HasPrompt(v, m) => TurnAnchor(v, h \o m) = TurnAnchor(v, h)
           /\ HasPrompt(v, m) => TurnAnchor(v, h \o m) >= Len(h)
<1>1. PICK s : s = h \o m
  OBVIOUS
<1>2. PICK n \in Nat, k \in Nat :
        /\ n = Len(h) /\ k = Len(m) /\ DOMAIN h = 1 .. n /\ DOMAIN m = 1 .. k
        /\ DOMAIN s = 1 .. n + k
        /\ \A j \in 1 .. n : s[j] = h[j]
        /\ \A j \in 1 .. k : s[n + j] = m[j]
  <2>1. PICK n, k : n = Len(h) /\ k = Len(m)
    OBVIOUS
  <2>2. n \in Nat /\ k \in Nat /\ DOMAIN h = 1 .. n /\ DOMAIN m = 1 .. k
    BY <2>1, Joined
  <2>3. /\ DOMAIN s = 1 .. n + k
        /\ \A j \in 1 .. n : s[j] = h[j]
        /\ \A j \in 1 .. k : s[n + j] = m[j]
    BY <1>1, <2>1, Joined
  <2>. QED
    BY <2>1, <2>2, <2>3, Zenon
<1>3. PICK a : a = TurnAnchor(v, h) /\ IsAnchor(v, h, n, a)
  BY <1>2, AnchorIs
<1>4. PICK b : b = TurnAnchor(v, s) /\ IsAnchor(v, s, n + k, b)
  BY <1>2, AnchorIs
<1>5. ASSUME ~ HasPrompt(v, m) PROVE b = a
  <2>1. \A j \in 1 .. k : ~ IsPrompt(v, m[j])
    BY <1>2, <1>5 DEF HasPrompt
  <2>2. \A j \in 1 .. n + k : IsPrompt(v, s[j]) => j \in 1 .. n
    <3>1. SUFFICES ASSUME NEW j \in 1 .. n + k, j \notin 1 .. n PROVE ~ IsPrompt(v, s[j])
      OBVIOUS
    <3>2. j - n \in 1 .. k /\ n + (j - n) = j
      BY <3>1
    <3>3. s[j] = m[j - n]
      BY <1>2, <3>2
    <3>. QED
      BY <2>1, <3>2, <3>3
  <2>3. b \in -1 .. n - 1
    <3>1. CASE b # -1
      <4>1. b + 1 \in 1 .. n + k /\ IsPrompt(v, s[b + 1])
        BY <1>4, <3>1 DEF IsAnchor
      <4>2. b + 1 \in 1 .. n
        BY <2>2, <4>1
      <4>. QED
        BY <1>4, <4>2 DEF IsAnchor
    <3>. QED
      BY <3>1
  <2>4. b # -1 => IsPrompt(v, h[b + 1])
    <3>1. SUFFICES ASSUME b # -1 PROVE IsPrompt(v, h[b + 1])
      OBVIOUS
    <3>2. b + 1 \in 1 .. n /\ IsPrompt(v, s[b + 1])
      BY <1>4, <2>3, <3>1 DEF IsAnchor
    <3>. QED
      BY <1>2, <3>2
  <2>5. \A j \in 1 .. n : IsPrompt(v, h[j]) => j - 1 <= b
    <3>1. SUFFICES ASSUME NEW j \in 1 .. n, IsPrompt(v, h[j]) PROVE j - 1 <= b
      OBVIOUS
    <3>2. j \in 1 .. n + k /\ IsPrompt(v, s[j])
      BY <1>2, <3>1
    <3>. QED
      BY <1>4, <3>2 DEF IsAnchor
  <2>6. IsAnchor(v, h, n, b)
    BY <2>3, <2>4, <2>5 DEF IsAnchor
  <2>. QED
    BY <1>3, <2>6, AnchorOnly
<1>6. ASSUME HasPrompt(v, m) PROVE b >= n
  <2>1. PICK j \in 1 .. k : IsPrompt(v, m[j])
    BY <1>2, <1>6 DEF HasPrompt
  <2>2. n + j \in 1 .. n + k /\ IsPrompt(v, s[n + j])
    BY <1>2, <2>1
  <2>3. (n + j) - 1 <= b /\ b \in Int
    BY <1>4, <2>2 DEF IsAnchor
  <2>. QED
    BY <2>3
<1>. QED
  BY <1>1, <1>2, <1>3, <1>4, <1>5, <1>6

\* The last messages of a sequence.
LEMMA RecentIs ==
    ASSUME NEW s, IsSequence(s), NEW t, IsSequence(t), NEW m, m = s \o t
    PROVE  /\ SubSeq(m, Len(m) - Len(t) + 1, Len(m)) = t
           /\ SubSeq(m, 1, Len(m)) = m
<1>1. PICK X : s \in Seq(X)
  BY DEF IsSequence
<1>2. PICK Y : t \in Seq(Y)
  BY DEF IsSequence
<1>3. s \in Seq(X \cup Y) /\ t \in Seq(X \cup Y) /\ m \in Seq(X \cup Y)
  BY <1>1, <1>2
<1>4. Len(m) = Len(s) + Len(t) /\ Len(s) \in Nat /\ Len(t) \in Nat
  BY <1>3
<1>5. PICK r : r = SubSeq(m, Len(m) - Len(t) + 1, Len(m))
  OBVIOUS
<1>6. r \in Seq(X \cup Y) /\ Len(r) = Len(t) /\ \A j \in 1 .. Len(t) : r[j] = m[Len(s) + j]
  BY <1>3, <1>4, <1>5
<1>7. \A j \in 1 .. Len(t) : m[Len(s) + j] = t[j]
  BY <1>3, <1>4
<1>8. r = t
  BY <1>3, <1>6, <1>7
<1>9. SubSeq(m, 1, Len(m)) = m
  BY <1>3
<1>. QED
  BY <1>5, <1>8, <1>9

------------------------------------------------------------------------------
(* Which messages are prompts *)

\* The messages of a reply are a sequence without prompts.
LEMMA RepliesAreNoPrompts ==
    ASSUME vendor \in Four, IsReply(reply)
    PROVE  IsSequence(ReplyMessages) /\ ~ HasPrompt(vendor, ReplyMessages)
<1>1. PICK n \in Nat : DOMAIN reply = 1 .. n
  BY ReplyItems
<1>2. PICK role : role = IF vendor = "gemini" THEN "model" ELSE "assistant"
  OBVIOUS
<1>3. PICK parts : parts = [i \in DOMAIN reply |-> Item(i)]
  OBVIOUS
<1>4. PICK named : named = [i \in DOMAIN parts |-> NamedPart(parts[i])]
  OBVIOUS
<1>5. DOMAIN named = 1 .. n
  BY <1>1, <1>3, <1>4
<1>6. PICK m : m = ReplyMessages
  OBVIOUS
<1>7. m = Spoken(role, parts)
  BY <1>2, <1>3, <1>6 DEF ReplyMessages
<1>8. m = IF vendor = "responses"
          THEN [i \in DOMAIN named |->
                  IF named[i].kind = "call" THEN Message(NULL, "function_call", <<named[i]>>)
                  ELSE Message("assistant", "message", <<named[i]>>)]
          ELSE IF named = <<>> THEN <<>> ELSE <<Message(role, NULL, named)>>
  BY <1>4, <1>7 DEF Spoken
<1>9. PICK k \in Nat : DOMAIN m = 1 .. k
  <2>1. CASE vendor = "responses"
    BY <1>5, <1>8, <2>1
  <2>2. CASE vendor # "responses" /\ named = <<>>
    <3>1. DOMAIN m = 1 .. 0
      BY <1>8, <2>2
    <3>. QED
      BY <3>1
  <2>3. CASE vendor # "responses" /\ named # <<>>
    <3>1. DOMAIN m = 1 .. 1
      BY <1>8, <2>3
    <3>. QED
      BY <3>1
  <2>. QED
    BY <2>1, <2>2, <2>3
<1>10. \A i \in 1 .. k : m[i].role \in {NULL, "assistant", "model"}
  <2>1. CASE vendor = "responses"
    BY <1>8, <1>9, <2>1 DEF Message
  <2>2. CASE vendor # "responses" /\ named = <<>>
    BY <1>8, <1>9, <2>2
  <2>3. CASE vendor # "responses" /\ named # <<>>
    BY <1>2, <1>8, <1>9, <2>3 DEF Message
  <2>. QED
    BY <2>1, <2>2, <2>3
<1>11. ~ HasPrompt(vendor, m)
  BY <1>9, <1>10, NullIsNoRole DEF HasPrompt, IsPrompt
<1>12. IsSequence(m)
  <2>1. m = [i \in 1 .. k |-> m[i]]
    <3>1. CASE vendor = "responses"
      BY <1>8, <1>9, <3>1
    <3>2. CASE vendor # "responses" /\ named = <<>>
      BY <1>8, <1>9, <3>2
    <3>3. CASE vendor # "responses" /\ named # <<>>
      BY <1>8, <1>9, <3>3
    <3>. QED
      BY <3>1, <3>2, <3>3
  <2>2. m \in Seq({m[i] : i \in 1 .. k})
    BY <2>1
  <2>. QED
    BY <2>2 DEF IsSequence
<1>. QED
  BY <1>6, <1>11, <1>12

\* The user's prompt is one, to every vendor.
LEMMA PromptIsPrompt ==
    ASSUME vendor \in Four
    PROVE  /\ IsPrompt(vendor, PromptMessage)
           /\ IsSequence(<<PromptMessage>>) /\ HasPrompt(vendor, <<PromptMessage>>)
<1>0. PICK p : p = PromptPart
  OBVIOUS
<1>1. p.kind = "text"
  BY <1>0 DEF PromptPart, Part
<1>2. PICK t : t = IF vendor = "responses" THEN "message" ELSE NULL
  OBVIOUS
<1>7. PICK m : m = PromptMessage
  OBVIOUS
<1>3. m.role = "user" /\ m.type = t /\ m.parts = <<p>>
  BY <1>0, <1>2, <1>7 DEF PromptMessage, Message
<1>4. 1 \in DOMAIN m.parts /\ m.parts[1].kind = "text"
  BY <1>1, <1>3
<1>5. IsPrompt(vendor, m)
  <2>1. CASE vendor = "anthropic"
    BY <1>3, <1>4, <2>1 DEF IsPrompt
  <2>2. CASE vendor = "gemini"
    BY <1>3, <1>4, <2>2 DEF IsPrompt
  <2>3. CASE vendor = "chat"
    BY <1>3, <1>4, <2>3 DEF IsPrompt
  <2>4. CASE vendor = "responses"
    BY <1>2, <1>3, <1>4, <2>4 DEF IsPrompt
  <2>. QED
    BY <2>1, <2>2, <2>3, <2>4 DEF Four
<1>6. <<m>> \in Seq({m})
  OBVIOUS
<1>8. IsSequence(<<m>>)
  BY <1>6 DEF IsSequence
<1>9. HasPrompt(vendor, <<m>>)
  <2>1. 1 \in DOMAIN <<m>> /\ <<m>>[1] = m
    OBVIOUS
  <2>. QED
    BY <1>5, <2>1 DEF HasPrompt
<1>. QED
  BY <1>5, <1>7, <1>8, <1>9

\* The results are put in an order: there are as many as calls.
LEMMA OrdersAre ==
    ASSUME IsReply(reply), NEW order \in ResultOrders
    PROVE  \E c \in Nat : DOMAIN order = 1 .. c
<1>1. PICK n \in Nat : DOMAIN reply = 1 .. n
  BY ReplyItems
<1>2. PICK S : S = CallItems /\ S \in SUBSET (1 .. n)
  BY <1>1 DEF CallItems
<1>3. Listed(S)
  BY <1>2, ListExists
<1>4. PICK c \in Nat : Cardinality(S) = c /\ \E e : Lists(e, S, c)
  BY <1>3 DEF Listed
<1>5. PICK e : Lists(e, S, c)
  BY <1>4
<1>6. Ordered(S) = e
  BY <1>2, <1>4, <1>5, OrderedIs
<1>7. order \in SetToSeqs(S) \/ order = e
  BY <1>2, <1>6 DEF ResultOrders
<1>8. ASSUME order \in SetToSeqs(S) PROVE DOMAIN order = 1 .. c
  BY <1>4, <1>8 DEF SetToSeqs
<1>9. DOMAIN e = 1 .. c
  BY <1>5 DEF Lists
<1>. QED
  BY <1>7, <1>8, <1>9

\* The results are a sequence, which has a prompt if and only if the user adds one.
LEMMA ResultsArePrompts ==
    ASSUME vendor \in Four, NEW order, NEW c \in Nat, DOMAIN order = 1 .. c, NEW prompted \in BOOLEAN
    PROVE  /\ IsSequence(ResultMessages(order, prompted))
           /\ HasPrompt(vendor, ResultMessages(order, prompted)) <=> prompted
<1>1. PICK results : results = [j \in DOMAIN order |-> ResultPart(order[j])]
  OBVIOUS
<1>2. DOMAIN results = 1 .. c /\ \A j \in 1 .. c : results[j].kind = "result"
  BY <1>1 DEF ResultPart, Part
<1>3. IsSequence(results)
  <2>1. results \in Seq({results[j] : j \in 1 .. c})
    BY <1>1
  <2>. QED
    BY <2>1 DEF IsSequence
<1>4. PICK m : m = ResultMessages(order, prompted)
  OBVIOUS
<1>5. ASSUME vendor \in {"anthropic", "gemini"}
      PROVE  IsSequence(m) /\ (HasPrompt(vendor, m) <=> prompted)
  <2>0. PICK p : p = PromptPart
    OBVIOUS
  <2>1. p.kind = "text"
    BY <2>0 DEF PromptPart, Part
  <2>2. PICK t : t = IF prompted THEN <<p>> ELSE <<>>
    OBVIOUS
  <2>3. PICK parts : parts = results \o t
    OBVIOUS
  <2>4. PICK w : w = Message("user", NULL, parts)
    OBVIOUS
  <2>5. m = <<w>>
    BY <1>1, <1>4, <1>5, <2>0, <2>2, <2>3, <2>4 DEF ResultMessages
  <2>6. w.role = "user" /\ w.parts = parts
    BY <2>4 DEF Message
  <2>7. IsSequence(t) /\ Len(t) = (IF prompted THEN 1 ELSE 0) /\ (prompted => t[1] = p)
    <3>1. CASE prompted
      <4>1. t = <<p>> /\ <<p>> \in Seq({p})
        BY <2>2, <3>1
      <4>. QED
        BY <3>1, <4>1 DEF IsSequence
    <3>2. CASE ~ prompted
      <4>1. t = <<>> /\ <<>> \in Seq({p})
        BY <2>2, <3>2
      <4>. QED
        BY <3>2, <4>1 DEF IsSequence
    <3>. QED
      BY <3>1, <3>2
  <2>8. Len(results) = c
    BY <1>2, <1>3, Joined, <2>7
  <2>9. /\ DOMAIN parts = 1 .. c + Len(t)
        /\ \A j \in 1 .. c : parts[j] = results[j]
        /\ \A j \in 1 .. Len(t) : parts[c + j] = t[j]
    <3>2. IsSequence(t)
      BY <2>7
    <3>1. /\ DOMAIN (results \o t) = 1 .. Len(results) + Len(t)
          /\ \A j \in 1 .. Len(results) : (results \o t)[j] = results[j]
          /\ \A j \in 1 .. Len(t) : (results \o t)[Len(results) + j] = t[j]
      BY <1>3, <3>2, Joined
    <3>. QED
      BY <2>3, <2>8, <3>1, Zenon
  <2>10. IsPrompt(vendor, w) <=> prompted
    <3>1. CASE prompted
      <4>1. c + 1 \in DOMAIN parts /\ parts[c + 1].kind = "text"
        BY <2>1, <2>7, <2>9, <3>1
      <4>. QED
        BY <1>5, <2>6, <3>1, <4>1 DEF IsPrompt
    <3>2. CASE ~ prompted
      <4>1. \A j \in DOMAIN parts : parts[j].kind = "result"
        BY <1>2, <2>7, <2>9, <3>2
      <4>. QED
        BY <1>5, <2>6, <3>2, <4>1 DEF IsPrompt
    <3>. QED
      BY <3>1, <3>2
  <2>11. <<w>> \in Seq({w})
    OBVIOUS
  <2>12. HasPrompt(vendor, m) <=> IsPrompt(vendor, w)
    <3>1. DOMAIN <<w>> = {1} /\ <<w>>[1] = w
      OBVIOUS
    <3>. QED
      BY <2>5, <3>1 DEF HasPrompt
  <2>. QED
    BY <2>5, <2>10, <2>11, <2>12 DEF IsSequence
<1>6. ASSUME vendor \in {"chat", "responses"}
      PROVE  IsSequence(m) /\ (HasPrompt(vendor, m) <=> prompted)
  <2>1. PICK s : s = [j \in DOMAIN order |->
                        Message(IF vendor = "chat" THEN "tool" ELSE NULL,
                                IF vendor = "chat" THEN NULL ELSE "function_call_output",
                                <<results[j]>>)]
    OBVIOUS
  <2>2. PICK t : t = IF prompted THEN <<PromptMessage>> ELSE <<>>
    OBVIOUS
  <2>3. m = s \o t
    BY <1>1, <1>4, <1>6, <2>1, <2>2 DEF ResultMessages
  <2>4. DOMAIN s = 1 .. c /\ \A j \in 1 .. c : s[j].role \in {"tool", NULL}
    BY <2>1 DEF Message
  <2>5. IsSequence(s)
    <3>1. s \in Seq({s[j] : j \in 1 .. c})
      BY <2>1
    <3>. QED
      BY <3>1 DEF IsSequence
  <2>6. IsSequence(t) /\ Len(t) = (IF prompted THEN 1 ELSE 0) /\ (prompted => t[1] = PromptMessage)
    <3>1. CASE prompted
      <4>1. t = <<PromptMessage>> /\ <<PromptMessage>> \in Seq({PromptMessage})
        BY <2>2, <3>1
      <4>. QED
        BY <3>1, <4>1 DEF IsSequence
    <3>2. CASE ~ prompted
      <4>1. t = <<>> /\ <<>> \in Seq({PromptMessage})
        BY <2>2, <3>2
      <4>. QED
        BY <3>2, <4>1 DEF IsSequence
    <3>. QED
      BY <3>1, <3>2
  <2>7. Len(s) = c
    BY <2>4, <2>5, <2>6, Joined
  <2>8. /\ DOMAIN m = 1 .. c + Len(t)
        /\ \A j \in 1 .. c : m[j] = s[j]
        /\ \A j \in 1 .. Len(t) : m[c + j] = t[j]
        /\ IsSequence(m)
    <3>2. IsSequence(t)
      BY <2>6
    <3>1. /\ DOMAIN (s \o t) = 1 .. Len(s) + Len(t) /\ IsSequence(s \o t)
          /\ \A j \in 1 .. Len(s) : (s \o t)[j] = s[j]
          /\ \A j \in 1 .. Len(t) : (s \o t)[Len(s) + j] = t[j]
      BY <2>5, <3>2, Joined
    <3>. QED
      BY <2>3, <2>7, <3>1, Zenon
  <2>9. ASSUME prompted PROVE HasPrompt(vendor, m)
    <3>1. c + 1 \in DOMAIN m /\ m[c + 1] = PromptMessage
      BY <2>6, <2>8, <2>9
    <3>. QED
      BY <3>1, PromptIsPrompt DEF HasPrompt
  <2>10. ASSUME ~ prompted PROVE ~ HasPrompt(vendor, m)
    <3>1. DOMAIN m = 1 .. c /\ \A j \in 1 .. c : m[j].role \in {"tool", NULL}
      BY <2>4, <2>6, <2>8, <2>10
    <3>. QED
      BY <3>1, NullIsNoRole DEF HasPrompt, IsPrompt
  <2>. QED
    BY <2>8, <2>9, <2>10
<1>. QED
  BY <1>4, <1>5, <1>6 DEF Four

------------------------------------------------------------------------------
(* Every prompt makes a turn *)

\* The key of the turn that the last prompt of the conversation began.
Anchor == TurnAnchor(vendor, history)
Key    == <<Anchor, history[Anchor + 1]>>

\* A request that is sent whole has the key, or goes on with the turn of the last
\* exchange that was captured.
FindsKey(r, n) ==
    LET a == TurnAnchor(vendor, r.messages)
    IN  IF a >= 0 THEN <<a, r.messages[a + 1]>> = Key ELSE Len(log) # 0 /\ log[n].prompt = prompt

\* An exchange of this prompt has the key; the anchor of one before is a lower one.
HasKey(x) ==
    /\ x.prompt = prompt => x.turn = Key
    /\ x.prompt < prompt => x.turn[1] \in Int /\ x.turn[1] < Anchor

\* The conversation so far: the request that is out finds the turn of its prompt, and so
\* does every exchange that was captured up to the first request that was cut.
TalkInv ==
    /\ IsSequence(history) /\ IsSequence(log) /\ IsSequence(turns)
    /\ prompt \in Nat /\ client \in {"reads", "decides"} /\ Anchor \in Nat
    /\ request.whole => FindsKey(request, Len(log))
    /\ client = "decides" => Len(log) # 0 /\ log[Len(log)].prompt = prompt
    /\ \A e \in DOMAIN log : /\ log[e].prompt \in Nat /\ log[e].prompt <= prompt
                             /\ log[e].prompt <= log[Len(log)].prompt
    /\ \A e \in DOMAIN log : WholeUpTo(e) => HasKey(log[e])
    /\ WholeUpTo(Len(log)) =>
          /\ log # <<>> => turns # <<>> /\ turns[Len(turns)] = log[Len(log)].turn
          /\ \A k \in DOMAIN turns : \E e \in DOMAIN log : turns[k] = log[e].turn
    /\ PromptsMakeTurns

\* Where the conversation stays as it is, so does that.
LEMMA TalkStays ==
    ASSUME TalkInv, vendor' = vendor, history' = history, request' = request, prompt' = prompt,
           turns' = turns, log' = log, client' = client
    PROVE  TalkInv'
<1>1. Anchor' = Anchor
  BY DEF Anchor
<1>2. Key' = Key
  BY <1>1 DEF Key
<1>3. FindsKey(request, Len(log))' <=> FindsKey(request, Len(log))
  BY <1>2 DEF FindsKey
<1>4. \A e \in DOMAIN log : HasKey(log[e])' <=> HasKey(log[e])
  BY <1>1, <1>2 DEF HasKey
<1>5. \A e : WholeUpTo(e)' <=> WholeUpTo(e)
  BY DEF WholeUpTo
<1>6. PromptsMakeTurns' <=> PromptsMakeTurns
  BY <1>5 DEF PromptsMakeTurns
<1>. QED
  BY <1>1, <1>3, <1>4, <1>5, <1>6 DEF TalkInv

\* A log or a list of turns with one more entry.
LEMMA Appended ==
    ASSUME NEW s, IsSequence(s), NEW x
    PROVE  /\ IsSequence(Append(s, x)) /\ Len(s) \in Nat /\ DOMAIN s = 1 .. Len(s)
           /\ Len(Append(s, x)) = Len(s) + 1 /\ DOMAIN Append(s, x) = 1 .. Len(s) + 1
           /\ Append(s, x)[Len(s) + 1] = x
           /\ \A j \in 1 .. Len(s) : Append(s, x)[j] = s[j]
<1>1. PICK X : s \in Seq(X)
  BY DEF IsSequence
<1>2. s \in Seq(X \cup {x})
  BY <1>1
<1>. QED
  BY <1>2 DEF IsSequence

\* The turn of an exchange, if its request and those before were sent whole.
LEMMA TurnIsKey ==
    ASSUME TalkInv, request.whole, WholeUpTo(Len(log))
    PROVE  TurnKey(request.messages) = Key
<1>1. PICK a : a = TurnAnchor(vendor, request.messages)
  OBVIOUS
<1>2. FindsKey(request, Len(log))
  BY DEF TalkInv
<1>3. CASE a >= 0
  BY <1>1, <1>2, <1>3 DEF FindsKey, TurnKey
<1>4. CASE ~ (a >= 0)
  <2>1. Len(log) # 0 /\ log[Len(log)].prompt = prompt
    BY <1>1, <1>2, <1>4 DEF FindsKey
  <2>2. Len(log) \in DOMAIN log /\ log # <<>>
    <3>1. PICK X : log \in Seq(X)
      BY DEF TalkInv, IsSequence
    <3>. QED
      BY <2>1, <3>1
  <2>3. HasKey(log[Len(log)])
    BY <2>2 DEF TalkInv
  <2>4. log[Len(log)].turn = Key
    BY <2>1, <2>3 DEF HasKey
  <2>5. turns # <<>> /\ turns[Len(turns)] = log[Len(log)].turn
    BY <2>2 DEF TalkInv
  <2>. QED
    BY <1>1, <1>4, <2>4, <2>5 DEF TurnKey, Last
<1>. QED
  BY <1>3, <1>4

\* The later of two exchanges.
LEMMA LaterIs ==
    ASSUME NEW n \in Nat, NEW e \in 1 .. n, NEW f \in 1 .. n
    PROVE  Max({e, f}) \in {e, f} /\ e <= Max({e, f}) /\ f <= Max({e, f})
<1>1. {e, f} \in SUBSET (-1 .. n) /\ {e, f} # {}
  OBVIOUS
<1>. QED
  BY <1>1, MaxOf

\* Exchanges that were sent whole up to the later one were so up to the other.
LEMMA WholeBoth ==
    ASSUME NEW n \in Nat, NEW e \in 1 .. n, NEW f \in 1 .. n, WholeUpTo(Max({e, f}))
    PROVE  WholeUpTo(e) /\ WholeUpTo(f)
<1>1. PICK x : x = Max({e, f})
  OBVIOUS
<1>2. x \in {e, f} /\ e <= x /\ f <= x
  BY <1>1, LaterIs
<1>3. \A y \in 1 .. x : log[y].whole
  BY <1>1 DEF WholeUpTo
<1>4. \A y : y \in 1 .. e => y \in 1 .. x
  BY <1>2
<1>5. \A y : y \in 1 .. f => y \in 1 .. x
  BY <1>2
<1>. QED
  BY <1>3, <1>4, <1>5 DEF WholeUpTo

\* What a capture adds to the log.
Logs(n, x, turn) ==
    /\ n \in Nat /\ n = Len(log) /\ DOMAIN log = 1 .. n
    /\ IsSequence(log') /\ Len(log') = n + 1 /\ DOMAIN log' = 1 .. n + 1
    /\ log'[n + 1] = x /\ \A e \in 1 .. n : log'[e] = log[e]
    /\ turn = TurnKey(request.messages)
    /\ x.turn = turn /\ x.prompt = prompt /\ x.whole = request.whole

\* A capture appends one exchange to the log.
LEMMA CaptureLogs ==
    ASSUME TalkInv, Capture
    PROVE  \E n, x, turn : Logs(n, x, turn)
<1>1. PICK turn : turn = TurnKey(request.messages)
  OBVIOUS
<1>2. PICK calls : calls = DOMAIN ToolCalls(vendor, OutputMessages, CallPosition)
  OBVIOUS
<1>3. PICK x : x = [reply |-> reply, issued |-> calls, turn |-> turn, prompt |-> prompt,
                    whole |-> request.whole, position |-> Len(request.messages)]
  OBVIOUS
<1>4. log' = Append(log, x)
  BY <1>1, <1>2, <1>3 DEF Capture
<1>5. x.turn = turn /\ x.prompt = prompt /\ x.whole = request.whole
  BY <1>3
<1>6. PICK n : n = Len(log)
  OBVIOUS
<1>7. IsSequence(log)
  BY DEF TalkInv
<1>8. /\ IsSequence(log') /\ n \in Nat /\ DOMAIN log = 1 .. n
      /\ Len(log') = n + 1 /\ DOMAIN log' = 1 .. n + 1 /\ log'[n + 1] = x
      /\ \A j \in 1 .. n : log'[j] = log[j]
  <2>1. PICK l : l = Append(log, x)
    OBVIOUS
  <2>3. /\ IsSequence(l) /\ Len(log) \in Nat /\ DOMAIN log = 1 .. Len(log)
        /\ Len(l) = Len(log) + 1 /\ DOMAIN l = 1 .. Len(log) + 1 /\ l[Len(log) + 1] = x
        /\ \A j \in 1 .. Len(log) : l[j] = log[j]
    BY <1>7, <2>1, Appended
  <2>. QED
    BY <1>4, <1>6, <2>1, <2>3, Zenon
<1>. QED
  BY <1>1, <1>5, <1>6, <1>8 DEF Logs

\* A capture keeps it.
LEMMA CaptureKeepsTalk ==
    ASSUME TalkInv, Capture
    PROVE  TalkInv'
<1>1. PICK n, x, turn : Logs(n, x, turn)
  BY CaptureLogs
<1>2. /\ n \in Nat /\ n = Len(log) /\ DOMAIN log = 1 .. n
      /\ Len(log') = n + 1 /\ DOMAIN log' = 1 .. n + 1
      /\ log'[n + 1] = x /\ \A e \in 1 .. n : log'[e] = log[e]
      /\ turn = TurnKey(request.messages)
      /\ x.turn = turn /\ x.prompt = prompt /\ x.whole = request.whole
  BY <1>1 DEF Logs
<1>3. /\ vendor' = vendor /\ history' = history /\ request' = request /\ prompt' = prompt
      /\ client' = "decides"
  BY DEF Capture, vars
<1>4. Anchor' = Anchor /\ Key' = Key
  BY <1>3 DEF Anchor, Key
<1>5. /\ prompt \in Nat /\ Anchor \in Nat /\ IsSequence(history) /\ IsSequence(turns)
      /\ \A e \in 1 .. n : /\ log[e].prompt \in Nat /\ log[e].prompt <= prompt
                           /\ log[e].prompt <= log[n].prompt
                           /\ WholeUpTo(e) => HasKey(log[e])
  BY <1>2 DEF TalkInv
<1>6. \A e \in 1 .. n : WholeUpTo(e)' <=> WholeUpTo(e)
  <2>1. TAKE e \in 1 .. n
  <2>2. \A y \in 1 .. e : log'[y] = log[y]
    BY <1>2
  <2>. QED
    BY <2>2 DEF WholeUpTo
<1>7. WholeUpTo(n + 1)' => request.whole /\ WholeUpTo(n)
  <2>1. SUFFICES ASSUME WholeUpTo(n + 1)' PROVE request.whole /\ WholeUpTo(n)
    OBVIOUS
  <2>2. \A y \in 1 .. n + 1 : log'[y].whole
    BY <2>1 DEF WholeUpTo
  <2>3. n + 1 \in 1 .. n + 1 /\ \A y \in 1 .. n : y \in 1 .. n + 1
    BY <1>2
  <2>. QED
    BY <1>2, <2>2, <2>3 DEF WholeUpTo
<1>8. WholeUpTo(n + 1)' => turn = Key
  BY <1>2, <1>7, TurnIsKey
<1>9. \A e \in DOMAIN log' : /\ log'[e].prompt \in Nat /\ log'[e].prompt <= prompt
                             /\ log'[e].prompt <= log'[n + 1].prompt
  <2>1. TAKE e \in DOMAIN log'
  <2>2. CASE e \in 1 .. n
    BY <1>2, <1>5, <2>2
  <2>3. CASE e = n + 1
    BY <1>2, <1>5, <2>3
  <2>. QED
    BY <1>2, <2>2, <2>3
<1>10. \A e \in 1 .. n + 1 : WholeUpTo(e)' => HasKey(log'[e])
  <2>1. TAKE e \in 1 .. n + 1
  <2>2. CASE e \in 1 .. n
    BY <1>2, <1>5, <1>6, <2>2
  <2>3. CASE e = n + 1
    BY <1>2, <1>5, <1>8, <2>3 DEF HasKey
  <2>. QED
    BY <1>2, <2>2, <2>3
<1>11. \A e \in 1 .. n + 1 : HasKey(log'[e]) => HasKey(log[e])'
  BY <1>3, <1>4 DEF HasKey
<1>12. ASSUME WholeUpTo(n + 1)'
       PROVE  /\ IsSequence(turns') /\ turns' # <<>> /\ turns'[Len(turns')] = x.turn
              /\ \A k \in DOMAIN turns' : \E e \in DOMAIN log' : turns'[k] = log'[e].turn
  <2>1. turn = Key /\ WholeUpTo(n)
    BY <1>7, <1>8, <1>12
  <2>2. /\ n # 0 => turns # <<>> /\ turns[Len(turns)] = log[n].turn
        /\ \A k \in DOMAIN turns : \E e \in 1 .. n : turns[k] = log[e].turn
    <3>1. n # 0 => log # <<>>
      BY <1>2
    <3>. QED
      BY <1>2, <2>1, <3>1 DEF TalkInv
  <2>3. \A e \in 1 .. n : WholeUpTo(e)
    <3>1. TAKE e \in 1 .. n
    <3>2. \A y \in 1 .. e : y \in 1 .. n
      BY <1>2
    <3>. QED
      BY <2>1, <3>2 DEF WholeUpTo
  <2>4. turns' = IF turn \in ToSet(turns) THEN turns ELSE Append(turns, turn)
    BY <1>2 DEF Capture
  <2>5. CASE turn \in ToSet(turns)
    <3>1. PICK k \in DOMAIN turns : turns[k] = turn
      BY <2>5 DEF ToSet
    <3>2. PICK e \in 1 .. n : log[e].turn = turn
      BY <2>2, <3>1
    <3>3. HasKey(log[e]) /\ log[e].prompt \in Nat /\ log[e].prompt <= prompt
      BY <1>5, <2>3, <3>2
    <3>4. turn[1] = Anchor
      BY <2>1 DEF Key
    <3>5. log[e].prompt = prompt
      BY <1>5, <3>2, <3>3, <3>4 DEF HasKey
    <3>6. n \in 1 .. n /\ log[n].prompt = prompt
      BY <1>2, <1>5, <3>2, <3>5
    <3>7. log[n].turn = Key
      BY <1>5, <2>3, <3>6 DEF HasKey
    <3>8. n # 0
      BY <1>2, <3>2
    <3>9. \A j \in DOMAIN turns : \E y \in 1 .. n + 1 : turns[j] = log'[y].turn
      <4>1. TAKE j \in DOMAIN turns
      <4>2. PICK y \in 1 .. n : turns[j] = log[y].turn
        BY <2>2
      <4>3. y \in 1 .. n + 1 /\ log'[y] = log[y]
        BY <1>2, <4>2
      <4>. QED
        BY <4>2, <4>3
    <3>. QED
      BY <1>2, <1>5, <2>1, <2>2, <2>4, <2>5, <3>7, <3>8, <3>9
  <2>6. CASE turn \notin ToSet(turns)
    <3>1. turns' = Append(turns, turn)
      BY <2>4, <2>6
    <3>2. PICK m : m = Len(turns)
      OBVIOUS
    <3>3. /\ IsSequence(turns') /\ m \in Nat /\ DOMAIN turns = 1 .. m /\ Len(turns') = m + 1
          /\ DOMAIN turns' = 1 .. m + 1 /\ turns'[m + 1] = turn
          /\ \A j \in 1 .. m : turns'[j] = turns[j]
      <4>1. PICK l : l = Append(turns, turn)
        OBVIOUS
      <4>3. IsSequence(turns)
        BY <1>5
      <4>4. /\ IsSequence(l) /\ Len(turns) \in Nat /\ DOMAIN turns = 1 .. Len(turns)
            /\ Len(l) = Len(turns) + 1 /\ DOMAIN l = 1 .. Len(turns) + 1
            /\ l[Len(turns) + 1] = turn
            /\ \A j \in 1 .. Len(turns) : l[j] = turns[j]
        BY <4>1, <4>3, Appended
      <4>. QED
        BY <3>1, <3>2, <4>1, <4>4, Zenon
    <3>4. turns' # <<>>
      BY <3>3
    <3>5. \A j \in 1 .. m + 1 : \E y \in 1 .. n + 1 : turns'[j] = log'[y].turn
      <4>1. TAKE j \in 1 .. m + 1
      <4>2. CASE j \in 1 .. m
        <5>1. PICK y \in 1 .. n : turns[j] = log[y].turn
          BY <2>2, <3>3, <4>2
        <5>2. y \in 1 .. n + 1 /\ log'[y] = log[y]
          BY <1>2, <5>1
        <5>. QED
          BY <3>3, <4>2, <5>1, <5>2
      <4>3. CASE j = m + 1
        <5>1. n + 1 \in 1 .. n + 1
          BY <1>2
        <5>. QED
          BY <1>2, <3>3, <4>3, <5>1
      <4>. QED
        BY <3>3, <4>2, <4>3
    <3>. QED
      BY <1>2, <3>3, <3>4, <3>5
  <2>. QED
    BY <2>5, <2>6
<1>13. IsSequence(turns')
  <2>1. turns' = turns \/ turns' = Append(turns, turn)
    BY <1>2 DEF Capture
  <2>2. IsSequence(turns)
    BY <1>5
  <2>3. IsSequence(Append(turns, turn))
    BY <2>2, Appended
  <2>. QED
    BY <2>1, <2>2, <2>3, Zenon
<1>14. PromptsMakeTurns'
  <2>1. SUFFICES ASSUME NEW e \in 1 .. n + 1, NEW f \in 1 .. n + 1, WholeUpTo(Max({e, f}))'
                 PROVE  log'[e].turn = log'[f].turn <=> log'[e].prompt = log'[f].prompt
    BY <1>2 DEF PromptsMakeTurns
  <2>2. \A i \in 1 .. n : WholeUpTo(n + 1)' =>
          (log'[i].turn = x.turn <=> log'[i].prompt = x.prompt)
    <3>1. TAKE i \in 1 .. n
    <3>2. SUFFICES ASSUME WholeUpTo(n + 1)'
                   PROVE  log'[i].turn = x.turn <=> log'[i].prompt = x.prompt
      OBVIOUS
    <3>3. x.turn = Key /\ WholeUpTo(n)
      BY <1>2, <1>7, <1>8, <3>2
    <3>4. WholeUpTo(i)
      <4>1. \A y \in 1 .. i : y \in 1 .. n
        BY <1>2
      <4>. QED
        BY <3>3, <4>1 DEF WholeUpTo
    <3>5. HasKey(log[i]) /\ log[i].prompt \in Nat /\ log[i].prompt <= prompt
      BY <1>5, <3>4
    <3>6. Key[1] = Anchor
      BY DEF Key
    <3>. QED
      BY <1>2, <1>5, <3>3, <3>5, <3>6 DEF HasKey
  <2>3. PICK z : z = Max({e, f})
    OBVIOUS
  <2>4. z \in {e, f} /\ e <= z /\ f <= z
    <3>1. n + 1 \in Nat
      BY <1>2
    <3>. QED
      BY <2>3, <3>1, LaterIs
  <2>5. WholeUpTo(z)'
    BY <2>1, <2>3
  <2>6. CASE e \in 1 .. n /\ f \in 1 .. n
    <3>1. z \in 1 .. n
      BY <2>4, <2>6
    <3>2. WholeUpTo(z)
      BY <1>6, <2>5, <3>1
    <3>3. log[e].turn = log[f].turn <=> log[e].prompt = log[f].prompt
      <4>1. PromptsMakeTurns
        BY DEF TalkInv
      <4>2. e \in DOMAIN log /\ f \in DOMAIN log
        BY <1>2, <2>6
      <4>. QED
        BY <2>3, <3>2, <4>1, <4>2 DEF PromptsMakeTurns
    <3>. QED
      BY <1>2, <2>6, <3>3
  <2>7. CASE e = n + 1 /\ f = n + 1
    BY <2>7
  <2>8. CASE e = n + 1 /\ f \in 1 .. n
    <3>1. z = n + 1
      BY <1>2, <2>4, <2>8
    <3>. QED
      BY <1>2, <2>2, <2>5, <2>8, <3>1
  <2>9. CASE e \in 1 .. n /\ f = n + 1
    <3>1. z = n + 1
      BY <1>2, <2>4, <2>9
    <3>. QED
      BY <1>2, <2>2, <2>5, <2>9, <3>1
  <2>. QED
    BY <1>2, <2>6, <2>7, <2>8, <2>9
<1>15. (request.whole => FindsKey(request, Len(log)))'
  <2>1. SUFFICES ASSUME request.whole PROVE FindsKey(request, Len(log))'
    BY <1>3
  <2>2. FindsKey(request, Len(log))
    BY <2>1 DEF TalkInv
  <2>3. Len(log') # 0 /\ log'[Len(log')].prompt = prompt
    BY <1>2
  <2>. QED
    BY <1>3, <1>4, <2>2, <2>3 DEF FindsKey
<1>16. IsSequence(log')
  BY <1>1 DEF Logs
<1>17. (client = "decides" => Len(log) # 0 /\ log[Len(log)].prompt = prompt)'
  BY <1>2, <1>3
<1>18. \A e \in DOMAIN log' : /\ log'[e].prompt \in Nat /\ log'[e].prompt <= prompt'
                              /\ log'[e].prompt <= log'[Len(log')].prompt
  BY <1>2, <1>3, <1>9
<1>19. (\A e \in DOMAIN log : WholeUpTo(e) => HasKey(log[e]))'
  BY <1>2, <1>10, <1>11
<1>20. (WholeUpTo(Len(log)) =>
          /\ log # <<>> => turns # <<>> /\ turns[Len(turns)] = log[Len(log)].turn
          /\ \A k \in DOMAIN turns : \E e \in DOMAIN log : turns[k] = log[e].turn)'
  BY <1>2, <1>12
<1>. QED
  BY <1>3, <1>4, <1>5, <1>13, <1>14, <1>15, <1>16, <1>17, <1>18, <1>19, <1>20 DEF TalkInv

\* Asking again leaves the conversation as it is.
LEMMA AgainKeepsTalk ==
    ASSUME TalkInv, AskAgain
    PROVE  TalkInv'
<1>1. /\ vendor' = vendor /\ history' = history /\ request' = request /\ prompt' = prompt
      /\ turns' = turns /\ log' = log /\ client' = "reads"
  BY DEF AskAgain, Ask
<1>2. Anchor' = Anchor
  BY <1>1 DEF Anchor
<1>3. Key' = Key
  BY <1>1, <1>2 DEF Key
<1>4. FindsKey(request, Len(log))' <=> FindsKey(request, Len(log))
  BY <1>1, <1>3 DEF FindsKey
<1>5. \A e \in DOMAIN log : HasKey(log[e])' <=> HasKey(log[e])
  BY <1>1, <1>2, <1>3 DEF HasKey
<1>6. \A e : WholeUpTo(e)' <=> WholeUpTo(e)
  BY <1>1 DEF WholeUpTo
<1>7. PromptsMakeTurns' <=> PromptsMakeTurns
  BY <1>1, <1>6 DEF PromptsMakeTurns
<1>. QED
  BY <1>1, <1>2, <1>4, <1>5, <1>6, <1>7 DEF TalkInv

\* What the history has after the reply and the new messages.
GoesOn(m, new, prompted) ==
    /\ IsSequence(m) /\ IsSequence(new) /\ prompted \in BOOLEAN
    /\ HasPrompt(vendor, new) <=> prompted
    /\ \E h : IsSequence(h) /\ m = h \o new
    /\ Len(history) \in Nat /\ Len(m) \in Nat /\ DOMAIN m = 1 .. Len(m)
    /\ \A j \in 1 .. Len(history) : m[j] = history[j]
    /\ ~ prompted => TurnAnchor(vendor, m) = Anchor
    /\ prompted => TurnAnchor(vendor, m) >= Len(history)
    /\ Anchor \in 0 .. Len(history) - 1 /\ TurnAnchor(vendor, m) \in Nat

\* The last prompt moves on if there is another one, and stays if there is not.
LEMMA HistoryGrows ==
    ASSUME TalkInv, PlaceInv, NEW new, IsSequence(new), NEW prompted \in BOOLEAN,
           HasPrompt(vendor, new) <=> prompted
    PROVE  GoesOn(history \o ReplyMessages \o new, new, prompted)
<1>1. vendor \in Four /\ IsReply(reply)
  BY PlaceIs
<1>2. PICK r : r = ReplyMessages /\ IsSequence(r) /\ ~ HasPrompt(vendor, r)
  BY <1>1, RepliesAreNoPrompts
<1>3. IsSequence(history) /\ Anchor \in Nat
  BY DEF TalkInv
<1>4. PICK h : h = history \o r
  OBVIOUS
<1>5. /\ IsSequence(history \o r) /\ Len(history) \in Nat /\ Len(r) \in Nat
      /\ DOMAIN history = 1 .. Len(history)
      /\ Len(history \o r) = Len(history) + Len(r)
      /\ \A j \in 1 .. Len(history) : (history \o r)[j] = history[j]
  BY <1>2, <1>3, Joined
<1>6. /\ IsSequence(h) /\ Len(h) \in Nat /\ Len(h) >= Len(history)
      /\ \A j \in 1 .. Len(history) : h[j] = history[j]
  BY <1>4, <1>5
<1>7. TurnAnchor(vendor, history \o r) = TurnAnchor(vendor, history)
  BY <1>2, <1>3, AnchorGrows
<1>8. TurnAnchor(vendor, h) = Anchor
  BY <1>4, <1>7 DEF Anchor
<1>9. PICK m : m = h \o new
  OBVIOUS
<1>10. /\ IsSequence(h \o new) /\ Len(new) \in Nat /\ Len(h \o new) = Len(h) + Len(new)
       /\ DOMAIN (h \o new) = 1 .. Len(h) + Len(new)
       /\ \A j \in 1 .. Len(h) : (h \o new)[j] = h[j]
  BY <1>6, Joined
<1>11. /\ IsSequence(m) /\ Len(m) \in Nat /\ DOMAIN m = 1 .. Len(m)
       /\ \A j \in 1 .. Len(history) : m[j] = history[j]
  BY <1>5, <1>6, <1>9, <1>10
<1>12. /\ ~ HasPrompt(vendor, new) => TurnAnchor(vendor, h \o new) = TurnAnchor(vendor, h)
       /\ HasPrompt(vendor, new) => TurnAnchor(vendor, h \o new) >= Len(h)
  BY <1>6, AnchorGrows
<1>13. Anchor \in 0 .. Len(history) - 1
  <2>1. IsAnchor(vendor, history, Len(history), TurnAnchor(vendor, history))
    BY <1>5, AnchorIs
  <2>2. TurnAnchor(vendor, history) \in -1 .. Len(history) - 1
    BY <2>1 DEF IsAnchor
  <2>. QED
    BY <1>3, <1>5, <2>2 DEF Anchor
<1>14. TurnAnchor(vendor, m) \in Int
  <2>1. IsAnchor(vendor, m, Len(m), TurnAnchor(vendor, m))
    BY <1>11, AnchorIs
  <2>. QED
    BY <2>1 DEF IsAnchor
<1>15. ~ prompted => TurnAnchor(vendor, m) = Anchor
  BY <1>8, <1>9, <1>12
<1>16. prompted => TurnAnchor(vendor, m) >= Len(history)
  <2>1. prompted => TurnAnchor(vendor, m) >= Len(h)
    BY <1>9, <1>12
  <2>. QED
    BY <1>5, <1>6, <1>14, <2>1
<1>17. TurnAnchor(vendor, m) \in Nat
  BY <1>3, <1>5, <1>14, <1>15, <1>16
<1>18. m = history \o ReplyMessages \o new
  BY <1>2, <1>4, <1>9
<1>19. \E x : IsSequence(x) /\ m = x \o new
  BY <1>6, <1>9
<1>20. GoesOn(m, new, prompted)
  BY <1>5, <1>11, <1>13, <1>15, <1>16, <1>17, <1>19 DEF GoesOn
<1>. QED
  BY <1>18, <1>20

\* What the client sends then: everything, or what goes on with the turn.
LEMMA RequestsAre ==
    ASSUME NEW m, NEW new, NEW prompted, GoesOn(m, new, prompted),
           NEW r \in Requests(m, Len(new)), r.whole
    PROVE  \/ r.messages = m
           \/ r.messages = new /\ ~ prompted /\ TurnAnchor(vendor, new) = -1
<1>1. PICK h : IsSequence(h) /\ m = h \o new
  BY DEF GoesOn
<1>2. IsSequence(new) /\ (HasPrompt(vendor, new) <=> prompted)
  BY DEF GoesOn
<1>3. SubSeq(m, Len(m) - Len(new) + 1, Len(m)) = new /\ SubSeq(m, 1, Len(m)) = m
  BY <1>1, <1>2, RecentIs
<1>4. PICK last : last = TurnAnchor(vendor, history)
  OBVIOUS
<1>5. \/ r = Request(m, TRUE)
      \/ r = Request(SubSeq(m, last + 1, Len(m)), last = 0)
      \/ r = Request(new, TurnAnchor(vendor, new) = -1)
  BY <1>3, <1>4 DEF Requests
<1>6. CASE r = Request(m, TRUE)
  BY <1>6 DEF Request
<1>7. CASE r = Request(SubSeq(m, last + 1, Len(m)), last = 0)
  <2>1. last = 0 /\ r.messages = SubSeq(m, last + 1, Len(m))
    BY <1>7 DEF Request
  <2>2. r.messages = SubSeq(m, 1, Len(m))
    BY <2>1
  <2>. QED
    BY <1>3, <2>2
<1>8. CASE r = Request(new, TurnAnchor(vendor, new) = -1)
  <2>1. TurnAnchor(vendor, new) = -1 /\ r.messages = new
    BY <1>8 DEF Request
  <2>2. Len(new) \in Nat /\ DOMAIN new = 1 .. Len(new)
    BY <1>1, <1>2, Joined
  <2>3. IsAnchor(vendor, new, Len(new), TurnAnchor(vendor, new))
    BY <2>2, AnchorIs
  <2>4. \A j \in 1 .. Len(new) : IsPrompt(vendor, new[j]) => j - 1 <= -1
    BY <2>1, <2>3 DEF IsAnchor
  <2>5. ~ HasPrompt(vendor, new)
    BY <2>2, <2>4 DEF HasPrompt
  <2>. QED
    BY <1>2, <2>1, <2>5
<1>. QED
  BY <1>5, <1>6, <1>7, <1>8

\* The client goes on, and it stays so.
LEMMA GoOnKeepsTalk ==
    ASSUME TalkInv, PlaceInv, NEW new, IsSequence(new), NEW prompted \in BOOLEAN,
           HasPrompt(vendor, new) <=> prompted, GoOn(new, prompted)
    PROVE  TalkInv'
<1>1. PICK m : m = history \o ReplyMessages \o new
  OBVIOUS
<1>2. GoesOn(m, new, prompted)
  BY <1>1, HistoryGrows
<1>3. PICK r \in Requests(m, Len(new)) : Ask(r)
  BY <1>1 DEF GoOn
<1>4. /\ request' = r /\ client' = "reads" /\ vendor' = vendor /\ turns' = turns /\ log' = log
      /\ client = "decides"
  BY <1>3 DEF Ask
<1>5. history' = m /\ prompt' = IF prompted THEN prompt + 1 ELSE prompt
  BY <1>1 DEF GoOn
<1>6. PICK a, b : a = Anchor /\ b = Anchor'
  OBVIOUS
<1>7. b = TurnAnchor(vendor, m)
  BY <1>4, <1>5, <1>6 DEF Anchor
<1>8. /\ a \in Nat /\ b \in Nat /\ prompt \in Nat
      /\ ~ prompted => b = a /\ prompt' = prompt
      /\ prompted => b > a /\ prompt' = prompt + 1
  <2>1. /\ Len(history) \in Nat /\ a \in 0 .. Len(history) - 1 /\ b \in Nat
        /\ ~ prompted => b = a
        /\ prompted => b >= Len(history)
    BY <1>2, <1>6, <1>7 DEF GoesOn
  <2>2. prompt \in Nat
    BY DEF TalkInv
  <2>. QED
    BY <1>5, <2>1, <2>2
<1>9. ~ prompted => Key' = Key
  <2>1. SUFFICES ASSUME ~ prompted PROVE Key' = Key
    OBVIOUS
  <2>2. Len(history) \in Nat /\ a \in 0 .. Len(history) - 1
    BY <1>2, <1>6 DEF GoesOn
  <2>3. a + 1 \in 1 .. Len(history)
    BY <2>2
  <2>4. m[a + 1] = history[a + 1]
    BY <1>2, <2>3 DEF GoesOn
  <2>5. Anchor' = a /\ Anchor = a
    BY <1>6, <1>8, <2>1
  <2>. QED
    BY <1>5, <2>4, <2>5 DEF Key
<1>10. Key[1] = a
  BY <1>6 DEF Key
<1>11. \A e \in DOMAIN log : WholeUpTo(e)' <=> WholeUpTo(e)
  BY <1>4 DEF WholeUpTo
<1>12. \A e \in DOMAIN log : log[e].prompt \in Nat /\ log[e].prompt <= prompt
  BY DEF TalkInv
<1>13. \A e \in DOMAIN log : HasKey(log[e]) => HasKey(log[e])'
  <2>1. SUFFICES ASSUME NEW e \in DOMAIN log, HasKey(log[e]) PROVE HasKey(log[e])'
    OBVIOUS
  <2>2. PICK x : x = log[e] /\ x = log'[e]
    BY <1>4
  <2>3. /\ x.prompt \in Nat /\ x.prompt <= prompt
        /\ x.prompt = prompt => x.turn = Key
        /\ x.prompt < prompt => x.turn[1] \in Int /\ x.turn[1] < a
    BY <1>6, <1>12, <2>1, <2>2 DEF HasKey
  <2>4. /\ x.prompt = prompt' => x.turn = Key'
        /\ x.prompt < prompt' => x.turn[1] \in Int /\ x.turn[1] < b
    <3>1. CASE prompted
      <4>1. x.turn[1] \in Int /\ x.turn[1] < b
        BY <1>8, <1>10, <2>3, <3>1
      <4>. QED
        BY <1>8, <2>3, <3>1, <4>1
    <3>2. CASE ~ prompted
      BY <1>8, <1>9, <2>3, <3>2
    <3>. QED
      BY <3>1, <3>2
  <2>. QED
    BY <1>6, <2>2, <2>4 DEF HasKey
<1>14. (request.whole => FindsKey(request, Len(log)))'
  <2>1. SUFFICES ASSUME r.whole PROVE FindsKey(request, Len(log))'
    BY <1>4
  <2>2. \/ r.messages = m
        \/ r.messages = new /\ ~ prompted /\ TurnAnchor(vendor, new) = -1
    BY <1>2, <1>3, <2>1, RequestsAre
  <2>3. CASE r.messages = m
    <3>1. Key' = <<b, m[b + 1]>>
      BY <1>5, <1>6 DEF Key
    <3>. QED
      BY <1>4, <1>7, <1>8, <2>3, <3>1 DEF FindsKey
  <2>4. CASE r.messages = new /\ ~ prompted /\ TurnAnchor(vendor, new) = -1
    <3>1. Len(log) # 0 /\ log[Len(log)].prompt = prompt
      BY <1>4 DEF TalkInv
    <3>2. prompt' = prompt
      BY <1>8, <2>4
    <3>. QED
      BY <1>4, <2>4, <3>1, <3>2 DEF FindsKey
  <2>. QED
    BY <2>2, <2>3, <2>4
<1>15. PromptsMakeTurns'
  <2>1. PromptsMakeTurns
    BY DEF TalkInv
  <2>2. \A e : WholeUpTo(e)' <=> WholeUpTo(e)
    BY <1>4 DEF WholeUpTo
  <2>. QED
    BY <1>4, <2>1, <2>2 DEF PromptsMakeTurns
<1>16. IsSequence(history')
  BY <1>2, <1>5 DEF GoesOn
<1>17. prompt' \in Nat /\ prompt <= prompt'
  BY <1>8
<1>18. (\A e \in DOMAIN log : /\ log[e].prompt \in Nat /\ log[e].prompt <= prompt
                              /\ log[e].prompt <= log[Len(log)].prompt)'
  <2>1. SUFFICES ASSUME NEW e \in DOMAIN log
                 PROVE  /\ log[e].prompt \in Nat /\ log[e].prompt <= prompt'
                        /\ log[e].prompt <= log[Len(log)].prompt
    BY <1>4
  <2>2. log[e].prompt <= log[Len(log)].prompt
    BY DEF TalkInv
  <2>. QED
    BY <1>8, <1>12, <1>17, <2>2
<1>19. (\A e \in DOMAIN log : WholeUpTo(e) => HasKey(log[e]))'
  <2>1. \A e \in DOMAIN log : WholeUpTo(e) => HasKey(log[e])
    BY DEF TalkInv
  <2>2. DOMAIN log' = DOMAIN log
    BY <1>4
  <2>3. \A e \in DOMAIN log : WholeUpTo(e)' => HasKey(log[e])'
    BY <1>11, <1>13, <2>1, Zenon
  <2>. QED
    BY <2>2, <2>3, Zenon
<1>20. (WholeUpTo(Len(log)) =>
          /\ log # <<>> => turns # <<>> /\ turns[Len(turns)] = log[Len(log)].turn
          /\ \A k \in DOMAIN turns : \E e \in DOMAIN log : turns[k] = log[e].turn)'
  <2>1. WholeUpTo(Len(log))' <=> WholeUpTo(Len(log))
    BY <1>4 DEF WholeUpTo
  <2>. QED
    BY <1>4, <2>1 DEF TalkInv
<1>21. IsSequence(log') /\ IsSequence(turns')
  BY <1>4 DEF TalkInv
<1>22. client' # "decides" /\ client' \in {"reads", "decides"}
  BY <1>4
<1>23. Anchor' \in Nat
  BY <1>6, <1>8
<1>. QED
  BY <1>14, <1>15, <1>16, <1>17, <1>18, <1>19, <1>20, <1>21, <1>22, <1>23 DEF TalkInv

\* A conversation begins with one prompt.
LEMMA TalkBegins ==
    ASSUME ConversationInit
    PROVE  TalkInv
<1>1. /\ vendor \in Four /\ history = <<PromptMessage>> /\ request = Request(history, TRUE)
      /\ prompt = 1 /\ client = "reads" /\ turns = <<>> /\ log = <<>>
  BY VendorsAreKnown DEF ConversationInit, Init, Four
<1>2. PICK m : m = history
  OBVIOUS
<1>3. IsSequence(m) /\ HasPrompt(vendor, m)
  BY <1>1, <1>2, PromptIsPrompt
<1>4. DOMAIN m = 1 .. 1 /\ IsPrompt(vendor, m[1])
  BY <1>1, <1>2, PromptIsPrompt
<1>5. Anchor = 0
  <2>1. IsAnchor(vendor, m, 1, TurnAnchor(vendor, m))
    BY <1>4, AnchorIs
  <2>2. TurnAnchor(vendor, m) \in -1 .. 0 /\ 1 - 1 <= TurnAnchor(vendor, m)
    BY <1>4, <2>1 DEF IsAnchor
  <2>. QED
    BY <1>2, <2>2 DEF Anchor
<1>6. request.messages = history
  BY <1>1 DEF Request
<1>7. FindsKey(request, Len(log))
  <2>1. TurnAnchor(vendor, request.messages) = 0
    BY <1>5, <1>6 DEF Anchor
  <2>. QED
    BY <1>5, <1>6, <2>1 DEF FindsKey, Key
<1>8. IsSequence(<<>>)
  <2>1. <<>> \in Seq({})
    OBVIOUS
  <2>. QED
    BY <2>1 DEF IsSequence
<1>9. DOMAIN log = {} /\ DOMAIN turns = {}
  BY <1>1
<1>10. PromptsMakeTurns
  BY <1>9 DEF PromptsMakeTurns
<1>. QED
  BY <1>1, <1>2, <1>3, <1>5, <1>7, <1>8, <1>9, <1>10 DEF TalkInv

\* Every step of a conversation keeps it.
LEMMA StepKeepsTalk ==
    ASSUME TalkInv, PlaceInv, ConversationNext
    PROVE  TalkInv'
<1>1. vendor \in Four /\ IsReply(reply)
  BY PlaceIs
<1>2. CASE Receive
  <2>1. /\ history' = history /\ request' = request /\ prompt' = prompt /\ turns' = turns
        /\ log' = log /\ client' = client
    BY <1>2 DEF Receive, talk
  <2>2. vendor' = vendor
    BY <1>2, PlaceStep DEF Receive
  <2>. QED
    BY <2>1, <2>2, TalkStays
<1>3. CASE Capture
  BY <1>3, CaptureKeepsTalk
<1>4. CASE AskAgain
  BY <1>4, AgainKeepsTalk
<1>5. CASE SendResults
  <2>1. PICK order \in ResultOrders, prompted \in BOOLEAN :
          GoOn(ResultMessages(order, prompted), prompted)
    BY <1>5 DEF SendResults
  <2>2. PICK c \in Nat : DOMAIN order = 1 .. c
    BY <1>1, OrdersAre
  <2>3. PICK new : new = ResultMessages(order, prompted)
    OBVIOUS
  <2>4. IsSequence(new) /\ (HasPrompt(vendor, new) <=> prompted)
    BY <1>1, <2>2, <2>3, ResultsArePrompts
  <2>. QED
    BY <2>1, <2>3, <2>4, GoOnKeepsTalk
<1>6. CASE SendPrompt
  <2>1. PICK new : new = <<PromptMessage>>
    OBVIOUS
  <2>2. GoOn(new, TRUE)
    BY <1>6, <2>1 DEF SendPrompt
  <2>3. IsSequence(new) /\ HasPrompt(vendor, new)
    BY <1>1, <2>1, PromptIsPrompt
  <2>. QED
    BY <2>2, <2>3, GoOnKeepsTalk
<1>. QED
  BY <1>2, <1>3, <1>4, <1>5, <1>6 DEF ConversationNext

\* docs/proxy.md: each prompt is a turn of its own, and the exchanges that continue it are
\* in that turn, if the history is kept: turnAnchor finds the prompt that the exchange
\* belongs to, for every vendor, history and order of results.
THEOREM PromptsHaveTurns == ConversationSpec => []PromptsMakeTurns
<1>1. ConversationInit => TalkInv
  BY TalkBegins
<1>2. IInv /\ TalkInv /\ [ConversationNext]_<<vars, talk>> => TalkInv'
  <2>1. SUFFICES ASSUME IInv, TalkInv, [ConversationNext]_<<vars, talk>> PROVE TalkInv'
    OBVIOUS
  <2>2. PlaceInv
    BY <2>1 DEF IInv
  <2>3. CASE ConversationNext
    BY <2>1, <2>2, <2>3, StepKeepsTalk
  <2>4. CASE UNCHANGED <<vars, talk>>
    BY <2>1, <2>4, TalkStays DEF vars, talk
  <2>. QED
    BY <2>1, <2>3, <2>4
<1>3. TalkInv => PromptsMakeTurns
  BY DEF TalkInv
<1>. QED
  BY <1>1, <1>2, <1>3, ParserHoldsReply, PTL DEF ConversationSpec

==============================================================================
