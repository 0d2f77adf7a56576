-------------------------- MODULE RequestPathProofs --------------------------
(***************************************************************************)
(* Proofs about RequestPath.                                               *)
(*                                                                         *)
(* The pool of blocks: for any connections and any finite set of blocks,   *)
(* whatever the peers send and whatever the parser makes of it.            *)
(*                                                                         *)
(* The bytes: for any connections, streams, limits and segments, from what *)
(* ParsesRight says of the parser and Roomy of the settings.  The parser   *)
(* recurses over its input, so what it computes is left to TLC; that the   *)
(* server hands it the right bytes, and does the right thing with what it  *)
(* returns, is proved.                                                     *)
(***************************************************************************)
EXTENDS RequestPath, FiniteSetTheorems, FunctionTheorems, SequenceTheorems,
        NaturalsInduction, WellFoundedInduction, TLAPS

\* What the pool depends on in a context.
Context4(k) ==
  /\ {"open", "pooled", "block"} \subseteq DOMAIN k
  /\ k.block \in Block \cup {NoBlock}
  /\ k.block # NoBlock => k.pooled /\ k.open
\* A step that leaves the context's block alone.
SameBlock(k, l) ==
  /\ DOMAIN l = DOMAIN k
  /\ l.open = k.open /\ l.pooled = k.pooled /\ l.block = k.block

Distinct(q) == \A i, j \in 1..Len(q) : q[i] = q[j] => i = j
InQueue(q) == {q[i] : i \in 1..Len(q)}

\* Each block is on the list, once, or in use; the blocks in use are those of the contexts,
\* and no two contexts have the same one.
Listed ==
  /\ free \in Seq(Block) /\ Distinct(free)
  /\ isUsed \subseteq Block /\ InQueue(free) = Block \ isUsed
  /\ usedBlocks = Cardinality(isUsed)
Lent ==
  /\ DOMAIN conn = Conn /\ conn = [c \in Conn |-> conn[c]]
  /\ \A c \in Conn : Context4(conn[c])
  /\ \A c \in Conn : conn[c].block # NoBlock => conn[c].block \in isUsed
  /\ \A b \in isUsed : \E c \in Conn : conn[c].block = b
  /\ \A c, d \in Conn : conn[c].block # NoBlock /\ conn[c].block = conn[d].block => c = d
IInv == Listed /\ Lent

-----------------------------------------------------------------------------
(* What a context goes through keeps its block. *)

LEMMA ConsumeKeeps ==
  ASSUME NEW k, NEW n, Context4(k)
  PROVE  SameBlock(k, ConsumeData(k, n))
BY DEF Context4, SameBlock, ConsumeData

LEMMA TakeKeeps ==
  ASSUME NEW k, NEW request, Context4(k)
  PROVE  SameBlock(k, Take(k, request))
<1> DEFINE l == ConsumeData(k, Consumed(k, request))
<1>1. SameBlock(k, l)
  BY ConsumeKeeps
<1> HIDE DEF l
<1>2. SameBlock(l, Take(k, request))
  BY <1>1 DEF Context4, SameBlock, Take, l
<1> QED
  BY <1>1, <1>2 DEF SameBlock

LEMMA RefuseKeeps ==
  ASSUME NEW k, NEW why, Context4(k)
  PROVE  SameBlock(k, Refuse(k, why))
BY DEF Context4, SameBlock, Refuse

LEMMA HandleKeeps ==
  ASSUME NEW k, NEW request, Context4(k)
  PROVE  SameBlock(k, Handle(k, request))
<1>1. SameBlock(k, [k EXCEPT !.armed = TRUE])
  BY DEF Context4, SameBlock
<1>2. \/ Handle(k, request) = Refuse(k, request.verdict)
      \/ Handle(k, request) = Refuse(k, "header")
      \/ Handle(k, request) = Take(k, request)
      \/ Handle(k, request) = [k EXCEPT !.armed = TRUE]
  BY DEF Handle
<1> QED
  BY <1>1, <1>2, TakeKeeps, RefuseKeeps

LEMMA AfterReadKeeps ==
  ASSUME NEW k, Context4(k)
  PROVE  SameBlock(k, AfterRead(k))
<1>1. SameBlock(k, Dispatch(k))
  BY HandleKeeps DEF Dispatch
<1>2. \/ AfterRead(k) = Dispatch(k)
      \/ AfterRead(k) = Refuse(k, "large request")
      \/ AfterRead(k) = Refuse(k, "exhausted")
      \/ AfterRead(k) = Refuse(k, "truncated")
  BY DEF AfterRead
<1> QED
  BY <1>1, <1>2, RefuseKeeps

LEMMA AppendKeeps ==
  ASSUME NEW k, NEW data, Context4(k)
  PROVE  /\ SameBlock(k, AppendPooled(k, data))
         /\ SameBlock(k, AppendString(k, data))
<1> DEFINE l == Compacted(k)
<1>1. SameBlock(k, l)
  BY DEF Context4, SameBlock, Compacted
<1> HIDE DEF l
<1>2. SameBlock(l, AppendString(k, data))
  BY <1>1 DEF Context4, SameBlock, AppendString, l
<1>3. \/ SameBlock(k, AppendPooled(k, data))
      \/ SameBlock(l, AppendPooled(k, data))
  BY <1>1 DEF Context4, SameBlock, AppendPooled, l
<1> QED
  BY <1>1, <1>2, <1>3 DEF SameBlock

LEMMA RespondKeeps ==
  ASSUME NEW k, NEW i, Context4(k)
  PROVE  LET l == [ResetForNextRequest(WithoutTask(k, i)) EXCEPT !.armed = TRUE]
         IN  Context4(l) /\ SameBlock(k, l)
<1> DEFINE m == WithoutTask(k, i)
           n == ResetForNextRequest(m)
<1>1. SameBlock(k, m)
  BY DEF Context4, SameBlock, WithoutTask
<1> HIDE DEF m
<1>2. SameBlock(m, n)
  BY <1>1 DEF Context4, SameBlock, ResetForNextRequest
<1> HIDE DEF n
<1>3. SameBlock(n, [n EXCEPT !.armed = TRUE])
  BY <1>1, <1>2 DEF Context4, SameBlock
<1> QED
  BY <1>1, <1>2, <1>3 DEF SameBlock, Context4, m, n

\* A context with the same block is one like it for the pool.
LEMMA SameIsContext ==
  ASSUME NEW k, NEW l, Context4(k), SameBlock(k, l)
  PROVE  Context4(l)
BY DEF Context4, SameBlock

-----------------------------------------------------------------------------
(* The list of free blocks. *)

LEMMA TakesFirst ==
  ASSUME NEW S, NEW q \in Seq(S), q # <<>>, Distinct(q)
  PROVE  /\ Head(q) \in InQueue(q) /\ Head(q) \in S
         /\ Tail(q) \in Seq(S) /\ Distinct(Tail(q))
         /\ InQueue(Tail(q)) = InQueue(q) \ {Head(q)}
<1>1. /\ Len(q) \in Nat \ {0} /\ Head(q) = q[1]
      /\ Tail(q) \in Seq(S) /\ Len(Tail(q)) = Len(q) - 1
      /\ \A i \in 1..(Len(q) - 1) : Tail(q)[i] = q[i + 1]
  OBVIOUS
<1>2. \A i \in 1..Len(q) : i = 1 \/ (i - 1 \in 1..(Len(q) - 1) /\ (i - 1) + 1 = i)
  BY <1>1
<1>3. \A i \in 1..(Len(q) - 1) : i + 1 \in 1..Len(q) /\ i + 1 # 1
  BY <1>1
<1>4. Distinct(Tail(q))
  <2> SUFFICES ASSUME NEW i \in 1..(Len(q) - 1), NEW j \in 1..(Len(q) - 1),
                      Tail(q)[i] = Tail(q)[j]
               PROVE  i = j
    BY <1>1 DEF Distinct
  <2>1. q[i + 1] = q[j + 1]
    BY <1>1
  <2>2. i + 1 = j + 1
    BY <1>3, <2>1 DEF Distinct
  <2> QED
    BY <2>2
<1>5. 1 \in 1..Len(q)
  BY <1>1
<1>6. InQueue(Tail(q)) \subseteq InQueue(q) \ {Head(q)}
  <2> SUFFICES ASSUME NEW i \in 1..(Len(q) - 1)
               PROVE  Tail(q)[i] \in InQueue(q) \ {Head(q)}
    BY <1>1 DEF InQueue
  <2>1. Tail(q)[i] = q[i + 1] /\ i + 1 \in 1..Len(q) /\ q[i + 1] # q[1]
    BY <1>1, <1>3, <1>5 DEF Distinct
  <2> QED
    BY <1>1, <2>1 DEF InQueue
<1>7. InQueue(q) \ {Head(q)} \subseteq InQueue(Tail(q))
  <2> SUFFICES ASSUME NEW i \in 1..Len(q), q[i] # q[1]
               PROVE  q[i] \in InQueue(Tail(q))
    BY <1>1 DEF InQueue
  <2>1. i - 1 \in 1..(Len(q) - 1) /\ Tail(q)[i - 1] = q[i]
    BY <1>1, <1>2
  <2> QED
    BY <1>1, <2>1 DEF InQueue
<1> QED
  BY <1>1, <1>4, <1>5, <1>6, <1>7 DEF InQueue

LEMMA PutsLast ==
  ASSUME NEW S, NEW q \in Seq(S), NEW x \in S, Distinct(q), x \notin InQueue(q)
  PROVE  /\ Append(q, x) \in Seq(S) /\ Distinct(Append(q, x))
         /\ InQueue(Append(q, x)) = InQueue(q) \cup {x}
<1>1. /\ Append(q, x) \in Seq(S) /\ Len(q) \in Nat
      /\ Len(Append(q, x)) = Len(q) + 1 /\ Append(q, x)[Len(q) + 1] = x
      /\ \A i \in 1..Len(q) : Append(q, x)[i] = q[i] /\ i \in 1..(Len(q) + 1)
  OBVIOUS
<1>2. /\ \A i \in 1..(Len(q) + 1) : i \in 1..Len(q) \/ i = Len(q) + 1
      /\ Len(q) + 1 \in 1..(Len(q) + 1)
  BY <1>1
<1>3. InQueue(Append(q, x)) \subseteq InQueue(q) \cup {x}
  BY <1>1, <1>2 DEF InQueue
<1>4. InQueue(q) \cup {x} \subseteq InQueue(Append(q, x))
  <2>1. x \in InQueue(Append(q, x))
    BY <1>1, <1>2 DEF InQueue
  <2>2. ASSUME NEW i \in 1..Len(q) PROVE q[i] \in InQueue(Append(q, x))
    <3>1. i \in 1..Len(Append(q, x)) /\ Append(q, x)[i] = q[i]
      BY <1>1
    <3> QED
      BY <3>1 DEF InQueue
  <2> QED
    BY <2>1, <2>2 DEF InQueue
<1>5. Distinct(Append(q, x))
  BY <1>1, <1>2 DEF Distinct, InQueue
<1> QED
  BY <1>1, <1>3, <1>4, <1>5

-----------------------------------------------------------------------------
(* The invariant. *)

LEMMA UsedFinite == ASSUME Listed PROVE IsFiniteSet(isUsed)
BY RequestPathAssumption, FS_Subset DEF Listed

LEMMA InitInvariant == Init => IInv
<1> SUFFICES ASSUME Init PROVE IInv
  OBVIOUS
<1>1. PICK order \in [1..Cardinality(Block) -> Block] :
        /\ \A b \in Block : \E i \in DOMAIN order : order[i] = b
        /\ free = order
  BY DEF Init
<1> DEFINE n == Cardinality(Block)
<1>2. n \in Nat /\ IsFiniteSet(1..n) /\ Cardinality(1..n) = n
  <2>1. n \in Nat
    BY RequestPathAssumption, FS_CardinalityType
  <2>2. IsFiniteSet(1..n) /\ Cardinality(1..n) = IF 1 > n THEN 0 ELSE n - 1 + 1
    BY <2>1, FS_Interval
  <2> QED
    BY <2>1, <2>2
<1>3. order \in Surjection(1..n, Block)
  BY <1>1 DEF Surjection
<1>4. order \in Injection(1..n, Block)
  BY <1>2, <1>3, FS_SurjSameCardinalityImpliesInj
<1>5. free \in Seq(Block) /\ Len(free) = n
  BY <1>1, <1>2
<1>6. Distinct(free)
  BY <1>1, <1>4, <1>5 DEF Injection, IsInjective, Distinct
<1>7. InQueue(free) = Block
  BY <1>1, <1>5 DEF InQueue
<1>8. Listed
  BY <1>5, <1>6, <1>7, FS_EmptySet DEF Listed, Init
<1>9. Context4(Closed) /\ Closed.block = NoBlock
  BY DEF Context4, Closed, Context
<1>10. Lent
  BY <1>9 DEF Lent, Init
<1> QED
  BY <1>8, <1>10 DEF IInv

\* A step that leaves the pool alone, and one context's block.
LEMMA OneContext ==
  ASSUME IInv, NEW c \in Conn, NEW k, UNCHANGED pool,
         Context4(k), k.block = conn[c].block,
         conn' = [conn EXCEPT ![c] = k]
  PROVE  IInv'
<1>1. Listed'
  BY DEF IInv, Listed, pool
<1>2. \A d \in Conn : conn'[d].block = conn[d].block /\ Context4(conn'[d])
  BY DEF IInv, Lent
<1>3. Lent'
  BY <1>2 DEF IInv, Lent, pool, Context4
<1> QED
  BY <1>1, <1>3 DEF IInv

\* allocate, for a context that has no block yet.
LEMMA Allocates ==
  ASSUME IInv, NEW c \in Conn, NEW k, Allocate, conn[c].block = NoBlock,
         Context4(k), k.block = Allocated,
         conn' = [conn EXCEPT ![c] = k]
  PROVE  IInv'
<1>1. CASE free = <<>>
  BY <1>1, OneContext DEF Allocate, Allocated
<1>2. CASE free # <<>>
  <2> DEFINE b == Head(free)
  <2>1. /\ b \in InQueue(free) /\ b \in Block
        /\ Tail(free) \in Seq(Block) /\ Distinct(Tail(free))
        /\ InQueue(Tail(free)) = InQueue(free) \ {b}
    BY <1>2, TakesFirst DEF IInv, Listed
  <2>2. /\ free' = Tail(free) /\ isUsed' = isUsed \cup {b} /\ usedBlocks' = usedBlocks + 1
        /\ k.block = b
    BY <1>2 DEF Allocate, Allocated
  <2> HIDE DEF b
  <2>3. b \notin isUsed /\ b # NoBlock
    BY <2>1, RequestPathAssumption DEF IInv, Listed
  <2>4. usedBlocks' = Cardinality(isUsed')
    BY <2>2, <2>3, UsedFinite, FS_AddElement DEF IInv, Listed
  <2>5. Listed'
    BY <2>1, <2>2, <2>4 DEF IInv, Listed
  <2>6. /\ \A d \in Conn : conn'[d] = IF d = c THEN k ELSE conn[d]
        /\ DOMAIN conn' = Conn /\ conn' = [d \in Conn |-> conn'[d]]
    BY DEF IInv, Lent
  <2>7. \A d \in Conn : conn[d].block # b
    BY <2>3 DEF IInv, Lent
  <2>8. \A d \in Conn : Context4(conn'[d])
    BY <2>6 DEF IInv, Lent
  <2>9. \A d \in Conn : conn'[d].block # NoBlock => conn'[d].block \in isUsed'
    BY <2>2, <2>6 DEF IInv, Lent
  <2>10. \A e \in isUsed' : \E d \in Conn : conn'[d].block = e
    <3> SUFFICES ASSUME NEW e \in isUsed' PROVE \E d \in Conn : conn'[d].block = e
      OBVIOUS
    <3>1. CASE e = b
      BY <2>2, <2>6, <3>1
    <3>2. CASE e \in isUsed
      <4>1. PICK d \in Conn : conn[d].block = e
        BY <3>2 DEF IInv, Lent
      <4>2. d # c
        BY <3>2, <4>1, RequestPathAssumption DEF IInv, Listed
      <4> QED
        BY <2>6, <4>1, <4>2
    <3> QED
      BY <2>2, <3>1, <3>2
  <2>11. \A d, e \in Conn : conn'[d].block # NoBlock /\ conn'[d].block = conn'[e].block => d = e
    BY <2>2, <2>6, <2>7 DEF IInv, Lent
  <2>12. Lent'
    BY <2>6, <2>8, <2>9, <2>10, <2>11 DEF Lent, Context4
  <2> QED
    BY <2>5, <2>12 DEF IInv
<1> QED
  BY <1>1, <1>2

\* deallocate, of the block of a context that goes.
LEMMA Closes ==
  ASSUME IInv, NEW c \in Conn, Close(c)
  PROVE  IInv'
<1> DEFINE b == conn[c].block
<1>1. Context4(Closed) /\ Closed.block = NoBlock
  BY DEF Context4, Closed, Context
<1>2. conn' = [conn EXCEPT ![c] = Closed] /\ Deallocate(b)
  BY DEF Close, Release
<1>3. CASE b \notin isUsed
  <2>1. b = NoBlock
    BY <1>3 DEF IInv, Lent
  <2> QED
    BY <1>1, <1>2, <1>3, <2>1, OneContext DEF Deallocate
<1>4. CASE b \in isUsed
  <2>1. free' = Append(free, b) /\ isUsed' = isUsed \ {b} /\ usedBlocks' = usedBlocks - 1
    BY <1>2, <1>4 DEF Deallocate
  <2>2. /\ \A d \in Conn : conn'[d] = IF d = c THEN Closed ELSE conn[d]
        /\ DOMAIN conn' = Conn /\ conn' = [d \in Conn |-> conn'[d]]
    BY <1>2 DEF IInv, Lent
  <2>3. b \in Block /\ b # NoBlock /\ \A d \in Conn : conn[d].block = b => d = c
    BY <1>4, RequestPathAssumption DEF IInv, Listed, Lent
  <2> HIDE DEF b
  <2>4. b \notin InQueue(free)
    BY <1>4, <2>3 DEF IInv, Listed
  <2>5. /\ Append(free, b) \in Seq(Block) /\ Distinct(Append(free, b))
        /\ InQueue(Append(free, b)) = InQueue(free) \cup {b}
    BY <2>3, <2>4, PutsLast DEF IInv, Listed
  <2>6. usedBlocks' = Cardinality(isUsed')
    BY <1>4, <2>1, UsedFinite, FS_RemoveElement DEF IInv, Listed
  <2>7. Listed'
    BY <1>4, <2>1, <2>3, <2>5, <2>6 DEF IInv, Listed
  <2>8. \A e \in isUsed' : \E d \in Conn : conn'[d].block = e
    BY <2>1, <2>2 DEF IInv, Lent, b
  <2>9. Lent'
    BY <1>1, <2>1, <2>2, <2>3, <2>8 DEF IInv, Lent, Context4
  <2> QED
    BY <2>7, <2>9 DEF IInv
<1> QED
  BY <1>3, <1>4

LEMMA NextInvariant == IInv /\ [Next]_vars => IInv'
<1> SUFFICES ASSUME IInv, [Next]_vars PROVE IInv'
  OBVIOUS
<1>1. CASE UNCHANGED vars
  BY <1>1 DEF vars, IInv, Listed, Lent, Context4
<1>2. ASSUME NEW c \in Conn, Accept(c) PROVE IInv'
  <2>1. PICK stream \in Streams[c] : conn' = [conn EXCEPT ![c] = Context(stream)]
    BY <1>2 DEF Accept
  <2>2. Context4(Context(stream)) /\ Context(stream).block = NoBlock
    BY DEF Context4, Context
  <2>3. conn[c].block = NoBlock
    BY <1>2 DEF Accept, IInv, Lent, Context4
  <2>4. UNCHANGED pool
    BY <1>2 DEF Accept
  <2> QED
    BY <2>1, <2>2, <2>3, <2>4, OneContext
<1>3. ASSUME NEW c \in Conn, ReadPooled(c) PROVE IInv'
  <2> DEFINE k == conn[c]
             bytes(pos) == SubSeq(Bytes(k.stream, Len(k.stream)), k.pos + 1, pos)
             ctx(pos) == [k EXCEPT !.armed = FALSE, !.pos = pos, !.pooled = TRUE,
                                   !.block = IF k.pooled THEN @ ELSE Allocated]
  <2>1. PICK pos \in Written(k) :
          conn' = [conn EXCEPT ![c] = AfterRead(AppendPooled(ctx(pos), bytes(pos)))]
    BY <1>3, Zenon DEF ReadPooled
  <2>2. /\ k.open /\ Context4(k) /\ IF k.pooled THEN UNCHANGED pool ELSE Allocate
    BY <1>3 DEF ReadPooled, IInv, Lent
  <2>3. Allocated \in Block \cup {NoBlock}
    BY TakesFirst DEF IInv, Listed, Allocated
  <2>4. /\ Context4(ctx(pos))
        /\ ctx(pos).block = IF k.pooled THEN k.block ELSE Allocated
    BY <2>2, <2>3 DEF Context4
  <2> DEFINE l == AppendPooled(ctx(pos), bytes(pos))
  <2>5. Context4(l) /\ l.block = ctx(pos).block
    <3> HIDE DEF ctx, bytes
    <3>1. SameBlock(ctx(pos), l)
      BY <2>4, AppendKeeps
    <3> QED
      BY <2>4, <3>1, SameIsContext DEF SameBlock
  <2>6. Context4(AfterRead(l)) /\ AfterRead(l).block = l.block
    <3> HIDE DEF l
    <3>1. SameBlock(l, AfterRead(l))
      BY <2>5, AfterReadKeeps
    <3> QED
      BY <2>5, <3>1, SameIsContext DEF SameBlock
  <2> DEFINE m == AfterRead(l)
  <2>7. /\ Context4(m) /\ conn' = [conn EXCEPT ![c] = m]
        /\ m.block = IF k.pooled THEN k.block ELSE Allocated
    BY <2>1, <2>4, <2>5, <2>6
  <2> HIDE DEF m
  <2>8. CASE k.pooled
    BY <2>2, <2>7, <2>8, OneContext
  <2>9. CASE ~k.pooled
    <3>1. k.block = NoBlock
      BY <2>2, <2>9 DEF Context4
    <3> QED
      BY <2>2, <2>7, <2>9, <3>1, Allocates
  <2> QED
    BY <2>8, <2>9
<1>4. ASSUME NEW c \in Conn, ReadString(c) PROVE IInv'
  <2> DEFINE k == conn[c]
             bytes(pos) == SubSeq(Bytes(k.stream, Len(k.stream)), k.pos + 1, pos)
             ctx(pos) == [k EXCEPT !.armed = FALSE, !.pos = pos]
  <2>1. PICK pos \in Written(k) :
          conn' = [conn EXCEPT ![c] = AfterRead(AppendString(ctx(pos), bytes(pos)))]
    BY <1>4, Zenon DEF ReadString
  <2>2. Context4(k) /\ UNCHANGED pool
    BY <1>4 DEF ReadString, IInv, Lent
  <2>3. Context4(ctx(pos)) /\ ctx(pos).block = k.block
    BY <2>2 DEF Context4
  <2> DEFINE l == AppendString(ctx(pos), bytes(pos))
  <2>4. Context4(l) /\ l.block = ctx(pos).block
    <3> HIDE DEF ctx, bytes
    <3>1. SameBlock(ctx(pos), l)
      BY <2>3, AppendKeeps
    <3> QED
      BY <2>3, <3>1, SameIsContext DEF SameBlock
  <2>5. Context4(AfterRead(l)) /\ AfterRead(l).block = l.block
    <3> HIDE DEF l
    <3>1. SameBlock(l, AfterRead(l))
      BY <2>4, AfterReadKeeps
    <3> QED
      BY <2>4, <3>1, SameIsContext DEF SameBlock
  <2> DEFINE m == AfterRead(l)
  <2>6. Context4(m) /\ conn' = [conn EXCEPT ![c] = m] /\ m.block = k.block
    BY <2>1, <2>3, <2>4, <2>5
  <2> HIDE DEF m
  <2> QED
    BY <2>2, <2>6, OneContext
<1>5. ASSUME NEW c \in Conn, HangUp(c) \/ RespondAndClose(c) PROVE IInv'
  BY <1>5, Closes DEF HangUp, RespondAndClose
<1>6. ASSUME NEW c \in Conn, Respond(c) PROVE IInv'
  <2> DEFINE l(i) == [ResetForNextRequest(WithoutTask(conn[c], i)) EXCEPT !.armed = TRUE]
             m(i) == IF PeekData(l(i)) = <<>> THEN l(i) ELSE Dispatch(l(i))
  <2>1. PICK i \in DOMAIN conn[c].tasks : conn' = [conn EXCEPT ![c] = m(i)]
    BY <1>6 DEF Respond
  <2>2. Context4(conn[c]) /\ UNCHANGED pool
    BY <1>6 DEF Respond, IInv, Lent
  <2>3. Context4(l(i)) /\ SameBlock(conn[c], l(i))
    BY <2>2, RespondKeeps
  <2> HIDE DEF l
  <2>4. SameBlock(l(i), Dispatch(l(i)))
    BY <2>3, HandleKeeps DEF Dispatch
  <2>5. Context4(m(i)) /\ m(i).block = conn[c].block
    BY <2>3, <2>4, SameIsContext DEF SameBlock
  <2> HIDE DEF m
  <2> QED
    BY <2>1, <2>2, <2>5, OneContext
<1> QED
  BY <1>1, <1>2, <1>3, <1>4, <1>5, <1>6 DEF Next

\* Each block is on the list once or in the buffer of one connection, for any connections
\* and blocks, whatever the bytes: HttpMemoryPool::allocate and deallocate, PooledBuffer.
THEOREM Invariance == Spec => []IInv
<1>1. Init => IInv
  BY InitInvariant
<1>2. IInv /\ [Next]_vars => IInv'
  BY NextInvariant
<1> QED
  BY <1>1, <1>2, PTL DEF Spec

\* The invariant says what PoolExact says of the sets; the numbers follow by counting.
LEMMA Counted == IInv => PoolExact
<1> SUFFICES ASSUME IInv PROVE PoolExact
  OBVIOUS
<1>1. isUsed = {conn[c].block : c \in Held}
  <2>1. NoBlock \notin isUsed
    BY RequestPathAssumption DEF IInv, Listed
  <2> QED
    BY <2>1 DEF IInv, Lent, Held
<1>2. Cardinality(Held) = Cardinality(isUsed)
  <2> DEFINE f == [c \in Held |-> conn[c].block]
  <2>1. f \in [Held -> isUsed]
    BY <1>1
  <2>2. f \in Injection(Held, isUsed)
    BY <2>1 DEF Injection, IsInjective, Held, IInv, Lent
  <2>3. f \in Surjection(Held, isUsed)
    BY <1>1, <2>1 DEF Surjection
  <2> QED
    BY <2>2, <2>3, UsedFinite, FS_Injection DEF IInv
<1>3. /\ DOMAIN free = 1..Len(free) /\ Len(free) \in Nat
      /\ \A i \in 1..Len(free) : free[i] \in Block
  BY DEF IInv, Listed
<1>4. {free[i] : i \in DOMAIN free} = Block \ isUsed
  BY <1>3 DEF IInv, Listed, InQueue
<1>5. Len(free) = Cardinality(Block \ isUsed)
  <2> DEFINE f == [i \in 1..Len(free) |-> free[i]]
  <2>1. f \in [1..Len(free) -> Block \ isUsed]
    BY <1>3, <1>4
  <2>2. f \in Injection(1..Len(free), Block \ isUsed)
    BY <2>1 DEF Injection, IsInjective, IInv, Listed, Distinct
  <2>3. f \in Surjection(1..Len(free), Block \ isUsed)
    BY <1>3, <1>4, <2>1 DEF Surjection
  <2>4. IsFiniteSet(Block \ isUsed)
    BY RequestPathAssumption, FS_Subset
  <2>5. Cardinality(1..Len(free)) = Cardinality(Block \ isUsed)
    BY <2>2, <2>3, <2>4, FS_Injection
  <2>6. Cardinality(1..Len(free)) = IF 1 > Len(free) THEN 0 ELSE Len(free) - 1 + 1
    BY <1>3, FS_Interval
  <2> QED
    BY <1>3, <2>5, <2>6
<1> QED
  BY <1>1, <1>2, <1>4, <1>5 DEF PoolExact, IInv, Listed

\* No block of HttpMemoryPool is lost with a closed connection or lent twice, and
\* usedBlocks_ counts those in use: HttpMemoryPool.cpp with the contexts' life.
THEOREM NoBlockLost == Spec => []PoolExact
BY Invariance, Counted, PTL

-----------------------------------------------------------------------------
(* What Bytes computes: the requests of a stream one after the other. *)

LEMMA Least ==
  ASSUME NEW T, T \subseteq Nat, T # {}
  PROVE  \E x \in T : \A y \in T : x <= y
<1>1. PICK x \in T : \A y \in T : ~ (<<y, x>> \in OpToRel(<, Nat))
  BY NatLessThanWellFounded, WFMin
<1>2. \A y \in T : <<y, x>> \in OpToRel(<, Nat) <=> y < x
  BY DEF OpToRel
<1>3. \A y \in T : ~ (y < x)
  BY <1>1, <1>2, Zenon
<1> QED
  BY <1>3

\* The function that Bytes defines by recursion, and the equation of its definition.
IsUpTo(f, stream, n) ==
  f = [i \in 0..n |-> IF i = 0 THEN <<>> ELSE f[i - 1] \o Wire(stream[i])]
UpTo(stream, n) == CHOOSE f : IsUpTo(f, stream, n)

LEMMA UpToExists ==
  ASSUME NEW stream, NEW n \in Nat
  PROVE  \E f : IsUpTo(f, stream, n)
<1> DEFINE None == {m \in Nat : ~\E f : IsUpTo(f, stream, m)}
<1> SUFFICES ASSUME None # {} PROVE FALSE
  OBVIOUS
<1>1. PICK m \in None : \A k \in None : m <= k
  BY Least
<1>2. m # 0
  <2>1. IsUpTo([i \in 0..0 |-> <<>>], stream, 0)
    BY DEF IsUpTo
  <2> QED
    BY <1>1, <2>1
<1>3. PICK f : IsUpTo(f, stream, m - 1)
  BY <1>1, <1>2
<1> DEFINE g == [i \in 0..m |-> IF i = m THEN f[m - 1] \o Wire(stream[m]) ELSE f[i]]
<1>4. \A i \in 0..m : g[i] = IF i = 0 THEN <<>> ELSE g[i - 1] \o Wire(stream[i])
  <2> SUFFICES ASSUME NEW i \in 0..m
               PROVE  g[i] = IF i = 0 THEN <<>> ELSE g[i - 1] \o Wire(stream[i])
    OBVIOUS
  <2>1. i # 0 => i - 1 \in 0..(m - 1) /\ g[i - 1] = f[i - 1]
    BY <1>1, <1>2
  <2>2. CASE i = m
    BY <1>2, <2>1, <2>2
  <2>3. CASE i # m
    <3>1. i \in 0..(m - 1) /\ g[i] = f[i]
      BY <1>1, <2>3
    <3>2. f[i] = IF i = 0 THEN <<>> ELSE f[i - 1] \o Wire(stream[i])
      BY <1>3, <3>1 DEF IsUpTo
    <3> QED
      BY <2>1, <3>1, <3>2
  <2> QED
    BY <2>2, <2>3
<1>5. g = [i \in 0..m |-> g[i]]
  OBVIOUS
<1> HIDE DEF g
<1>6. IsUpTo(g, stream, m)
  BY <1>4, <1>5 DEF IsUpTo
<1> QED
  BY <1>1, <1>6

LEMMA UpToIs ==
  ASSUME NEW stream, NEW n \in Nat
  PROVE  /\ Bytes(stream, n) = UpTo(stream, n)[n]
         /\ \A i \in 0..n : UpTo(stream, n)[i] =
              IF i = 0 THEN <<>> ELSE UpTo(stream, n)[i - 1] \o Wire(stream[i])
<1>1. IsUpTo(UpTo(stream, n), stream, n)
  BY UpToExists DEF UpTo
<1>2. Bytes(stream, n) = UpTo(stream, n)[n]
  BY DEF Bytes, UpTo, IsUpTo
<1> HIDE DEF UpTo
<1>3. \A f : IsUpTo(f, stream, n) => \A i \in 0..n : f[i] =
              IF i = 0 THEN <<>> ELSE f[i - 1] \o Wire(stream[i])
  BY DEF IsUpTo
<1> QED
  BY <1>1, <1>2, <1>3

LEMMA UpToAgree ==
  ASSUME NEW stream, NEW n \in Nat, NEW m \in Nat, n <= m, NEW k \in 0..n
  PROVE  UpTo(stream, n)[k] = UpTo(stream, m)[k]
<1> DEFINE Differ == {i \in 0..n : UpTo(stream, n)[i] # UpTo(stream, m)[i]}
<1> SUFFICES ASSUME Differ # {} PROVE FALSE
  OBVIOUS
<1>1. PICK i \in Differ : \A j \in Differ : i <= j
  <2>1. \A i \in 0..n : i \in Nat
    OBVIOUS
  <2>2. Differ \subseteq Nat
    BY <2>1, Zenon
  <2> HIDE DEF Differ
  <2> QED
    BY <2>2, Least, Zenon
<1>2. i \in 0..n /\ i \in 0..m
  BY <1>1
<1>3. /\ UpTo(stream, n)[i] = IF i = 0 THEN <<>> ELSE UpTo(stream, n)[i - 1] \o Wire(stream[i])
      /\ UpTo(stream, m)[i] = IF i = 0 THEN <<>> ELSE UpTo(stream, m)[i - 1] \o Wire(stream[i])
  BY <1>2, UpToIs
<1>4. i # 0 => UpTo(stream, n)[i - 1] = UpTo(stream, m)[i - 1]
  <2>1. i # 0 => i - 1 \in 0..n /\ ~(i <= i - 1)
    BY <1>2
  <2> QED
    BY <1>1, <2>1
<1> QED
  BY <1>1, <1>3, <1>4

LEMMA BytesStep ==
  ASSUME NEW stream, NEW n \in Nat
  PROVE  /\ Bytes(stream, 0) = <<>>
         /\ Bytes(stream, n + 1) = Bytes(stream, n) \o Wire(stream[n + 1])
<1>1. Bytes(stream, 0) = <<>>
  BY UpToIs
<1>2. n + 1 \in Nat /\ n + 1 # 0 /\ (n + 1) - 1 = n /\ n + 1 \in 0..(n + 1) /\ n \in 0..n
  OBVIOUS
<1>3. Bytes(stream, n + 1) = UpTo(stream, n + 1)[n] \o Wire(stream[n + 1])
  BY <1>2, UpToIs
<1>4. UpTo(stream, n + 1)[n] = Bytes(stream, n)
  BY <1>2, UpToIs, UpToAgree
<1> QED
  BY <1>1, <1>3, <1>4

\* The bytes of a stream's first requests: more of them with each request.
LEMMA StreamGrows ==
  ASSUME NEW c \in Conn, NEW stream \in Streams[c]
  PROVE  /\ Len(stream) \in Nat
         /\ \A n \in 0..Len(stream) : /\ Bytes(stream, n) \in Seq(STRING)
                                      /\ \A m \in 0..n : Len(Bytes(stream, m)) <= Len(Bytes(stream, n))
         /\ \A n \in 0..(Len(stream) - 1) : Len(Bytes(stream, n)) < Len(Bytes(stream, n + 1))
<1> DEFINE B(n) == Bytes(stream, n)
           W(n) == Wire(stream[n])
           Grown(n) == B(n) \in Seq(STRING) /\ \A m \in 0..n : Len(B(m)) <= Len(B(n))
           Bad == {n \in 0..Len(stream) : ~Grown(n)}
<1>1. /\ Len(stream) \in Nat
      /\ \A i \in 1..Len(stream) : W(i) \in Seq(STRING) /\ W(i) # <<>>
  BY StreamsAssumption
<1>2. B(0) = <<>> /\ \A n \in Nat : B(n + 1) = B(n) \o W(n + 1)
  BY BytesStep
<1> HIDE DEF B, W
<1>3. ASSUME NEW n \in 0..(Len(stream) - 1), B(n) \in Seq(STRING)
      PROVE  B(n + 1) \in Seq(STRING) /\ Len(B(n)) < Len(B(n + 1)) /\ Len(B(n)) \in Nat
  <2>1. n \in Nat /\ n + 1 \in 1..Len(stream)
    BY <1>1
  <2>2. B(n + 1) = B(n) \o W(n + 1) /\ W(n + 1) \in Seq(STRING) /\ W(n + 1) # <<>>
    BY <1>1, <1>2, <2>1
  <2>3. /\ B(n) \o W(n + 1) \in Seq(STRING)
        /\ Len(B(n) \o W(n + 1)) = Len(B(n)) + Len(W(n + 1))
    BY <1>3, <2>2, ConcatProperties
  <2>4. Len(W(n + 1)) > 0 /\ Len(W(n + 1)) \in Nat /\ Len(B(n)) \in Nat
    BY <1>3, <2>2
  <2>5. Len(B(n)) < Len(B(n)) + Len(W(n + 1))
    BY <2>4
  <2> QED
    BY <2>2, <2>3, <2>4, <2>5, Zenon
<1>4. Bad = {}
  <2> SUFFICES ASSUME Bad # {} PROVE FALSE
    OBVIOUS
  <2>1. PICK n \in Bad : \A m \in Bad : n <= m
    <3>1. \A i \in 0..Len(stream) : i \in Nat
      BY <1>1
    <3>2. Bad \subseteq Nat
      BY <3>1, Zenon
    <3> HIDE DEF Bad
    <3> QED
      BY <3>2, Least, Zenon
  <2>2. n \in 0..Len(stream) /\ ~Grown(n)
    BY <2>1
  <2>3. CASE n = 0
    <3>1. <<>> \in Seq(STRING) /\ \A m \in 0..0 : m = 0
      OBVIOUS
    <3>2. Len(B(0)) <= Len(B(0))
      BY <1>2, <3>1
    <3> QED
      BY <1>2, <2>2, <2>3, <3>1, <3>2
  <2>4. CASE n # 0
    <3>1. n - 1 \in 0..(Len(stream) - 1) /\ n - 1 \in 0..Len(stream) /\ (n - 1) + 1 = n /\ ~(n <= n - 1)
      BY <1>1, <2>2, <2>4
    <3>2. Grown(n - 1)
      BY <2>1, <3>1
    <3>3. B(n) \in Seq(STRING) /\ Len(B(n - 1)) < Len(B(n)) /\ Len(B(n - 1)) \in Nat
      BY <1>3, <3>1, <3>2
    <3>4. Len(B(n)) \in Nat
      BY <3>3
    <3>5. ASSUME NEW m \in 0..n PROVE Len(B(m)) <= Len(B(n))
      <4>1. m = n \/ m \in 0..(n - 1)
        BY <2>2, <3>5
      <4>2. m \in 0..(n - 1) => Len(B(m)) <= Len(B(n - 1)) /\ Len(B(m)) \in Nat
        <5>1. m \in 0..(n - 1) => m \in 0..Len(stream) /\ ~(n <= m)
          BY <1>1, <2>2
        <5>2. m \in 0..(n - 1) => Grown(m)
          BY <2>1, <5>1
        <5> QED
          BY <3>2, <5>2
      <4> QED
        BY <3>3, <3>4, <4>1, <4>2
    <3> QED
      BY <2>2, <3>3, <3>5
  <2> QED
    BY <2>3, <2>4
<1>5. \A n \in 0..Len(stream) : Grown(n)
  BY <1>4
<1>6. ASSUME NEW n \in 0..(Len(stream) - 1) PROVE Len(B(n)) < Len(B(n + 1))
  <2>1. n \in 0..Len(stream)
    BY <1>1
  <2> QED
    BY <1>3, <1>5, <2>1
<1> QED
  BY <1>1, <1>5, <1>6 DEF B

-----------------------------------------------------------------------------
(* Pieces of sequences. *)

LEMMA PieceIs ==
  ASSUME NEW S, NEW B \in Seq(S), NEW a \in Nat, NEW b \in Nat, a <= b, b <= Len(B)
  PROVE  /\ SubSeq(B, a + 1, b) \in Seq(S) /\ Len(SubSeq(B, a + 1, b)) = b - a
         /\ \A i \in 1..(b - a) : SubSeq(B, a + 1, b)[i] = B[a + i]
<1>1. \A i \in (a + 1)..b : B[i] \in S
  OBVIOUS
<1>2. a + 1 \in Int /\ b \in Int /\ b - (a + 1) + 1 = b - a
  OBVIOUS
<1>3. /\ SubSeq(B, a + 1, b) \in Seq(S)
      /\ Len(SubSeq(B, a + 1, b)) = IF a + 1 <= b THEN b - (a + 1) + 1 ELSE 0
      /\ \A i \in 1 .. b - (a + 1) + 1 : SubSeq(B, a + 1, b)[i] = B[(a + 1) + i - 1]
  BY <1>1, <1>2, SubSeqProperties
<1>4. \A i \in 1..(b - a) : (a + 1) + i - 1 = a + i
  OBVIOUS
<1> QED
  BY <1>2, <1>3, <1>4

LEMMA PieceOfPiece ==
  ASSUME NEW S, NEW B \in Seq(S), NEW a \in Nat, NEW n \in Nat, NEW q \in Nat, NEW p \in Nat,
         a <= p, p <= Len(B), n <= q, q <= p - a
  PROVE  SubSeq(SubSeq(B, a + 1, p), n + 1, q) = SubSeq(B, (a + n) + 1, a + q)
<1> DEFINE x == SubSeq(B, a + 1, p)
           y == SubSeq(x, n + 1, q)
           z == SubSeq(B, (a + n) + 1, a + q)
<1>1. /\ x \in Seq(S) /\ Len(x) = p - a /\ \A i \in 1..(p - a) : x[i] = B[a + i]
  BY PieceIs
<1>2. /\ z \in Seq(S) /\ Len(z) = q - n /\ \A i \in 1..(q - n) : z[i] = B[a + n + i]
  <2>1. a + n \in Nat /\ a + q \in Nat /\ a + n <= a + q /\ a + q <= Len(B) /\ (a + q) - (a + n) = q - n
    OBVIOUS
  <2> QED
    BY <2>1, PieceIs
<1> HIDE DEF x, z
<1>3. /\ y \in Seq(S) /\ Len(y) = q - n /\ \A i \in 1..(q - n) : y[i] = x[n + i]
  BY <1>1, PieceIs
<1> HIDE DEF y
<1>4. ASSUME NEW i \in 1..Len(y) PROVE y[i] = z[i]
  <2>1. i \in 1..(q - n) /\ n + i \in 1..(p - a) /\ a + (n + i) = a + n + i
    BY <1>3
  <2> QED
    BY <1>1, <1>2, <1>3, <2>1
<1>5. y = z
  BY <1>2, <1>3, <1>4, SeqEqual
<1> QED
  BY <1>5 DEF x, y, z

-----------------------------------------------------------------------------
(* All that a peer may send, and where the first n requests of it end. *)

All(stream) == Bytes(stream, Len(stream))
At(stream, n) == Len(Bytes(stream, n))

LEMMA Marks ==
  ASSUME NEW c \in Conn, NEW stream \in Streams[c]
  PROVE  /\ Len(stream) \in Nat /\ All(stream) \in Seq(STRING)
         /\ At(stream, 0) = 0 /\ Len(All(stream)) \in Nat
         /\ At(stream, Len(stream)) = Len(All(stream))
         /\ \A n \in 0..Len(stream) : At(stream, n) \in Nat /\ At(stream, n) <= Len(All(stream))
         /\ \A n \in 0..(Len(stream) - 1) : At(stream, n) < At(stream, n + 1)
<1>1. /\ Len(stream) \in Nat
      /\ \A n \in 0..Len(stream) : /\ Bytes(stream, n) \in Seq(STRING)
                                   /\ \A m \in 0..n : Len(Bytes(stream, m)) <= Len(Bytes(stream, n))
      /\ \A n \in 0..(Len(stream) - 1) : Len(Bytes(stream, n)) < Len(Bytes(stream, n + 1))
  BY StreamGrows
<1>2. Len(stream) \in 0..Len(stream)
  BY <1>1
<1>3. All(stream) \in Seq(STRING) /\ Len(All(stream)) \in Nat
  BY <1>1, <1>2 DEF All
<1>4. At(stream, 0) = 0
  <2>1. Bytes(stream, 0) = <<>> /\ Len(<<>>) = 0
    BY BytesStep
  <2> QED
    BY <2>1 DEF At
<1>5. \A n \in 0..Len(stream) : At(stream, n) \in Nat /\ At(stream, n) <= Len(All(stream))
  <2>1. \A n \in 0..Len(stream) : Len(Bytes(stream, n)) \in Nat
    BY <1>1
  <2> QED
    BY <1>1, <1>2, <2>1 DEF At, All
<1> QED
  BY <1>1, <1>3, <1>4, <1>5 DEF At, All

LEMMA LesserIs ==
  ASSUME NEW a \in Int, NEW b \in Int
  PROVE  Min({a, b}) = IF a <= b THEN a ELSE b
BY DEF Min

-----------------------------------------------------------------------------
(* The buffer of a context. *)

Fields == {"open", "stream", "pos", "armed", "buffer", "readPos", "pooled", "block", "truncated",
           "allocationFailed", "requestTooLarge", "tasks", "taken", "refused"}
Shaped(k) ==
  /\ DOMAIN k = Fields
  /\ k.buffer \in Seq(STRING) /\ k.readPos \in 0..Len(k.buffer)
  /\ k.tasks \in Seq([keep : BOOLEAN])
\* All fields but some are the same.
Keeps(k, l, others) == DOMAIN l = DOMAIN k /\ \A f \in DOMAIN k \ others : l[f] = k[f]

LEMMA PeekIs ==
  ASSUME NEW k, Shaped(k)
  PROVE  PeekData(k) \in Seq(STRING) /\ Len(PeekData(k)) = Len(k.buffer) - k.readPos
<1>1. k.buffer \in Seq(STRING) /\ k.readPos \in Nat /\ Len(k.buffer) \in Nat /\ k.readPos <= Len(k.buffer)
  BY DEF Shaped
<1> QED
  BY <1>1, PieceIs DEF PeekData

\* consumeData(n) takes the first n bytes off the unread ones and does nothing else.
LEMMA ConsumeTakes ==
  ASSUME NEW k, Shaped(k), NEW n \in 0..Len(PeekData(k))
  PROVE  /\ Shaped(ConsumeData(k, n)) /\ Keeps(k, ConsumeData(k, n), {"buffer", "readPos"})
         /\ PeekData(ConsumeData(k, n)) = SubSeq(PeekData(k), n + 1, Len(PeekData(k)))
<1> DEFINE l == ConsumeData(k, n)
           p == Len(PeekData(k))
<1>1. /\ k.buffer \in Seq(STRING) /\ k.readPos \in Nat /\ Len(k.buffer) \in Nat /\ k.readPos <= Len(k.buffer)
      /\ p = Len(k.buffer) - k.readPos /\ n \in Nat /\ n <= p /\ p \in Nat
  BY PeekIs DEF Shaped
<1>2. CASE n >= p
  <2>1. l = [k EXCEPT !.buffer = <<>>, !.readPos = 0]
    BY <1>2 DEF ConsumeData
  <2>2. /\ Keeps(k, l, {"buffer", "readPos"}) /\ l.buffer = <<>> /\ l.readPos = 0 /\ l.tasks = k.tasks
        /\ DOMAIN l = Fields
    BY <2>1 DEF Keeps, Shaped, Fields
  <2>3. <<>> \in Seq(STRING) /\ Len(<<>>) = 0 /\ 0 \in 0..0
    OBVIOUS
  <2> HIDE DEF l
  <2>4. Shaped(l)
    BY <2>2, <2>3 DEF Shaped
  <2>5. PeekData(l) = <<>>
    BY <2>2, <2>3, SubSeqEmpty DEF PeekData
  <2>6. SubSeq(PeekData(k), n + 1, p) = <<>>
    BY <1>1, <1>2, SubSeqEmpty
  <2> QED
    BY <2>2, <2>4, <2>5, <2>6 DEF l
<1>3. CASE ~(n >= p)
  <2>1. l = [k EXCEPT !.readPos = @ + n]
    BY <1>3 DEF ConsumeData
  <2>2. /\ Keeps(k, l, {"buffer", "readPos"}) /\ l.buffer = k.buffer /\ l.readPos = k.readPos + n
        /\ l.tasks = k.tasks /\ DOMAIN l = Fields
    BY <2>1 DEF Keeps, Shaped, Fields
  <2> HIDE DEF l
  <2>3. Shaped(l)
    BY <1>1, <1>3, <2>2 DEF Shaped
  <2>4. SubSeq(SubSeq(k.buffer, k.readPos + 1, Len(k.buffer)), n + 1, p)
          = SubSeq(k.buffer, (k.readPos + n) + 1, k.readPos + p)
    <3>1. /\ k.buffer \in Seq(STRING) /\ k.readPos \in Nat /\ n \in Nat /\ p \in Nat
          /\ Len(k.buffer) \in Nat /\ k.readPos <= Len(k.buffer) /\ Len(k.buffer) <= Len(k.buffer)
          /\ n <= p /\ p <= Len(k.buffer) - k.readPos
      BY <1>1
    <3>2. \A B \in Seq(STRING) : \A a, i, q, m \in Nat :
            a <= m /\ m <= Len(B) /\ i <= q /\ q <= m - a =>
              SubSeq(SubSeq(B, a + 1, m), i + 1, q) = SubSeq(B, (a + i) + 1, a + q)
      BY PieceOfPiece
    <3> DEFINE b == k.buffer
               r == k.readPos
               e == Len(b)
    <3>3. b \in Seq(STRING) /\ r \in Nat /\ e \in Nat /\ n \in Nat /\ p \in Nat
      BY <3>1
    <3>4. r <= e /\ e <= Len(b) /\ n <= p /\ p <= e - r
      BY <3>1
    <3> HIDE DEF p, b, r, e
    <3>5. SubSeq(SubSeq(b, r + 1, e), n + 1, p) = SubSeq(b, (r + n) + 1, r + p)
      BY <3>2, <3>3, <3>4
    <3> QED
      BY <3>5 DEF b, r, e
  <2>5. k.readPos + p = Len(k.buffer)
    BY <1>1
  <2>6. PeekData(l) = SubSeq(PeekData(k), n + 1, p)
    BY <2>2, <2>4, <2>5 DEF PeekData
  <2> QED
    BY <2>2, <2>3, <2>6 DEF l
<1> QED
  BY <1>2, <1>3

\* appendData puts the new bytes after the unread ones.
LEMMA AppendPuts ==
  ASSUME NEW k, Shaped(k), NEW data \in Seq(STRING), NEW l,
         Keeps(k, l, {"buffer", "readPos", "truncated", "requestTooLarge"}),
         l.buffer = PeekData(k) \o data, l.readPos = 0
  PROVE  Shaped(l) /\ PeekData(l) = PeekData(k) \o data
<1>1. PeekData(k) \in Seq(STRING)
  BY PeekIs
<1>2. l.buffer \in Seq(STRING) /\ Len(l.buffer) \in Nat
  BY <1>1, ConcatProperties
<1>3. DOMAIN l = Fields /\ l.tasks = k.tasks
  BY DEF Keeps, Shaped, Fields
<1>4. Shaped(l)
  BY <1>2, <1>3 DEF Shaped
<1>5. PeekData(l) = l.buffer
  <2>1. SubSeq(l.buffer, 1, Len(l.buffer)) = l.buffer /\ l.readPos + 1 = 1
    BY <1>2, SubSeqFull
  <2> QED
    BY <2>1 DEF PeekData
<1> QED
  BY <1>4, <1>5

-----------------------------------------------------------------------------
(* The invariant of a connection's bytes. *)

\* What was handed to the handlers and what was refused: the properties, of one context.
Served(stream) == {[line |-> stream[i].line, content |-> stream[i].content] : i \in 1..Len(stream)}
Honest(k) ==
  /\ k.taken \in Seq(Served(k.stream)) /\ Len(k.taken) <= Len(k.stream)
  /\ \A i \in 1..Len(k.taken) :
       /\ k.stream[i].fault = "none"
       /\ k.taken[i] = [line |-> k.stream[i].line, content |-> k.stream[i].content]
  /\ \A refusal \in k.refused : refusal.after \in 0..Len(k.stream) /\ Deserved(k, refusal)
\* The unread bytes are those that came after the requests taken: none is missing.
Buffered(k) ==
  /\ Start(k) <= k.pos
  /\ PeekData(k) = SubSeq(All(k.stream), Start(k) + 1, k.pos)
  /\ ~k.truncated /\ ~k.allocationFailed
\* A byte is missing: an error response is all that is left to send, and nothing is read.
Doomed(k) == k.tasks = <<[keep |-> FALSE]>> /\ ~k.armed

Open(c, k) ==
  /\ k.open /\ k.stream \in Streams[c] /\ k.pos \in 0..Len(All(k.stream))
  /\ Honest(k)
Sane(c, k) ==
  /\ Shaped(k)
  /\ ~k.open => k = Closed
  /\ k.open =>
     /\ Open(c, k)
     /\ Buffered(k) \/ Doomed(k)
     /\ k.requestTooLarge => ~k.armed
     /\ k.tasks = <<>> => k.armed /\ (k.pos < End(k) \/ k.pos = Start(k))
     /\ settings.pooled /\ ~k.pooled => k.tasks = <<>> /\ k.refused = {}
     /\ k.pooled => settings.pooled
     /\ k.pooled /\ k.block = NoBlock => Doomed(k)
\* A context whose buffer may be parsed.
Ready(c, k) ==
  /\ Shaped(k) /\ Open(c, k) /\ Buffered(k)
  /\ k.requestTooLarge => ~k.armed
  /\ settings.pooled => k.pooled
  /\ k.pooled => settings.pooled /\ k.block # NoBlock

-----------------------------------------------------------------------------
(* What the parser returns. *)

LEMMA ParseKeeps ==
  ASSUME NEW s
  PROVE  Parse(s).keep \in BOOLEAN
<1>1. \A v : Verdict(v).keep = FALSE
  BY DEF Verdict
<1>2. KeepAlive(s) \in BOOLEAN
  BY DEF KeepAlive
<1>3. \A start, body, end : Accepted(s, start, body, end).keep \in BOOLEAN
  BY <1>2 DEF Accepted
<1>4. \A start : ParseChunked(s, start).keep \in BOOLEAN
  BY <1>1, <1>3 DEF ParseChunked
<1>5. \A start : ParseLength(s, start).keep \in BOOLEAN
  BY <1>1, <1>3 DEF ParseLength
<1> QED
  BY <1>1, <1>4, <1>5 DEF Parse

LEMMA ParseAt ==
  ASSUME ParsesRight, NEW c \in Conn, NEW k, Ready(c, k)
  PROVE  LET n       == Len(k.taken)
             request == Parse(PeekData(k))
         IN  /\ n \in 0..Len(k.stream) /\ Len(k.stream) \in Nat
             /\ Start(k) = At(k.stream, n) /\ Start(k) \in Nat
             /\ Len(PeekData(k)) = k.pos - Start(k)
             /\ n # Len(k.stream) => /\ n \in 0..(Len(k.stream) - 1)
                                     /\ Right(k.stream, n, k.pos, request)
             /\ n = Len(k.stream) => /\ k.pos = Start(k) /\ Len(PeekData(k)) = 0
                                     /\ request.verdict = "more"
<1> DEFINE stream == k.stream
           n == Len(k.taken)
           request == Parse(PeekData(k))
           all == All(stream)
<1>1. /\ stream \in Streams[c] /\ k.pos \in 0..Len(all) /\ n \in Nat /\ n <= Len(stream)
      /\ Start(k) <= k.pos /\ PeekData(k) = SubSeq(all, Start(k) + 1, k.pos)
  <2>1. k.taken \in Seq(Served(stream)) /\ n <= Len(stream)
    BY DEF Ready, Open, Honest
  <2> QED
    BY <2>1 DEF Ready, Open, Buffered
<1>2. Start(k) = At(stream, n)
  BY DEF Start, At
<1> HIDE DEF stream, n, request, all
<1>3. /\ Len(stream) \in Nat /\ all \in Seq(STRING) /\ Len(all) \in Nat
      /\ At(stream, Len(stream)) = Len(all)
      /\ \A m \in 0..Len(stream) : At(stream, m) \in Nat /\ At(stream, m) <= Len(all)
  BY <1>1, Marks DEF all
<1>4. n \in 0..Len(stream) /\ Start(k) \in Nat /\ k.pos \in Nat /\ k.pos <= Len(all)
  BY <1>1, <1>2, <1>3
<1>5. Len(PeekData(k)) = k.pos - Start(k)
  BY <1>1, <1>3, <1>4, PieceIs
<1>6. ASSUME n # Len(stream)
      PROVE  n \in 0..(Len(stream) - 1) /\ Right(stream, n, k.pos, request)
  <2>1. n \in 0..(Len(stream) - 1) /\ k.pos \in At(stream, n)..Len(all)
    BY <1>1, <1>2, <1>3, <1>4, <1>6
  <2>2. Right(stream, n, k.pos, Parse(SubSeq(all, At(stream, n) + 1, k.pos)))
    BY <1>1, <2>1, Zenon DEF ParsesRight, At, All, all
  <2> QED
    BY <1>1, <1>2, <2>1, <2>2 DEF request
<1>7. ASSUME n = Len(stream)
      PROVE  k.pos = Start(k) /\ Len(PeekData(k)) = 0 /\ request.verdict = "more"
  <2>1. k.pos = Start(k)
    BY <1>1, <1>2, <1>3, <1>4, <1>7
  <2>2. SubSeq(all, Start(k) + 1, k.pos) = <<>>
    BY <1>4, <2>1, SubSeqEmpty
  <2>3. request = Verdict("more")
    BY <1>1, <2>2 DEF request, Parse
  <2> QED
    BY <1>4, <1>5, <2>1, <2>3 DEF Verdict
<1> QED
  BY <1>2, <1>3, <1>4, <1>5, <1>6, <1>7 DEF n, stream, request

LEMMA EndIs ==
  ASSUME NEW c \in Conn, NEW k, k.stream \in Streams[c], Honest(k)
  PROVE  LET n == Len(k.taken)
         IN  /\ n \in 0..Len(k.stream) /\ Len(k.stream) \in Nat
             /\ End(k) = IF n < Len(k.stream) THEN At(k.stream, n + 1) ELSE Len(All(k.stream))
             /\ End(k) \in Nat /\ End(k) <= Len(All(k.stream))
<1> DEFINE n == Len(k.taken)
<1>1. n \in Nat /\ n <= Len(k.stream)
  <2>1. k.taken \in Seq(Served(k.stream)) /\ n <= Len(k.stream)
    BY DEF Honest
  <2> QED
    BY <2>1
<1> HIDE DEF n
<1>2. /\ Len(k.stream) \in Nat
      /\ At(k.stream, Len(k.stream)) = Len(All(k.stream))
      /\ \A m \in 0..Len(k.stream) : At(k.stream, m) \in Nat /\ At(k.stream, m) <= Len(All(k.stream))
  BY Marks
<1>3. Min({n + 1, Len(k.stream)}) = IF n < Len(k.stream) THEN n + 1 ELSE Len(k.stream)
  <2>1. n + 1 \in Int /\ Len(k.stream) \in Int /\ (n + 1 <= Len(k.stream) <=> n < Len(k.stream))
    BY <1>1, <1>2
  <2> QED
    BY <2>1, LesserIs
<1>4. End(k) = IF n < Len(k.stream) THEN At(k.stream, n + 1) ELSE At(k.stream, Len(k.stream))
  BY <1>3 DEF End, At, n
<1>5. n < Len(k.stream) => n + 1 \in 0..Len(k.stream)
  BY <1>1, <1>2
<1>6. Len(k.stream) \in 0..Len(k.stream)
  BY <1>2
<1>7. End(k) \in Nat /\ End(k) <= Len(All(k.stream))
  BY <1>2, <1>4, <1>5, <1>6
<1> QED
  BY <1>1, <1>2, <1>4, <1>7 DEF n

-----------------------------------------------------------------------------
(* The operators on a context. *)

LEMMA RefuseIs ==
  ASSUME NEW k, Shaped(k), NEW why
  PROVE  LET l == Refuse(k, why)
         IN  /\ Shaped(l) /\ Keeps(k, l, {"tasks", "refused"})
             /\ l.tasks = Append(k.tasks, [keep |-> FALSE]) /\ l.tasks # <<>>
             /\ l.refused = k.refused \cup {[why |-> why, after |-> Len(k.taken)]}
<1> DEFINE l == Refuse(k, why)
<1>1. /\ Keeps(k, l, {"tasks", "refused"}) /\ DOMAIN l = Fields
      /\ l.tasks = Append(k.tasks, [keep |-> FALSE])
      /\ l.refused = k.refused \cup {[why |-> why, after |-> Len(k.taken)]}
      /\ l.buffer = k.buffer /\ l.readPos = k.readPos
  BY DEF Refuse, Shaped, Fields, Keeps
<1> HIDE DEF l
<1>2. [keep |-> FALSE] \in [keep : BOOLEAN]
  OBVIOUS
<1>3. l.tasks \in Seq([keep : BOOLEAN]) /\ l.tasks # <<>>
  <2> DEFINE T == [keep : BOOLEAN]
             t == [keep |-> FALSE]
  <2>1. k.tasks \in Seq(T) /\ t \in T
    BY <1>2 DEF Shaped
  <2> HIDE DEF T, t
  <2>2. Append(k.tasks, t) \in Seq(T) /\ Append(k.tasks, t) # <<>>
    BY <2>1, AppendProperties
  <2> QED
    BY <1>1, <2>2 DEF T, t
<1>4. Shaped(l)
  BY <1>1, <1>3 DEF Shaped
<1> QED
  BY <1>1, <1>3, <1>4 DEF l

LEMMA StillDeserved ==
  ASSUME NEW c \in Conn, NEW k, NEW l, k.stream \in Streams[c], NEW refusal,
         refusal.after \in 0..Len(k.stream), Deserved(k, refusal),
         settings.capacity \in Nat,
         l.stream = k.stream, k.pos \in Nat, l.pos \in Nat, k.pos <= l.pos, l.block = k.block
  PROVE  Deserved(l, refusal)
<1> DEFINE from == Len(Bytes(k.stream, refusal.after))
<1>1. from \in Nat
  BY Marks DEF At
<1> HIDE DEF from
<1>2. \A n \in Nat : k.pos - from > n => l.pos - from > n
  BY <1>1
<1>3. maxRequestBytes \in Nat /\ maxRequestHeaderBytes \in Nat
  BY RequestPathAssumption
<1>4. k.pos - from > settings.capacity => l.pos - from > settings.capacity
  BY <1>2
<1> QED
  BY <1>2, <1>3, <1>4 DEF Deserved, from

\* Honesty survives any step that keeps what was taken.
LEMMA StillHonest ==
  ASSUME NEW c \in Conn, NEW k, NEW l, k.stream \in Streams[c], Honest(k),
         settings.capacity \in Nat,
         l.stream = k.stream, k.pos \in Nat, l.pos \in Nat, k.pos <= l.pos,
         k.refused # {} => l.block = k.block,
         l.taken = k.taken,
         \A refusal \in l.refused : refusal \in k.refused \/
           (refusal.after \in 0..Len(l.stream) /\ Deserved(l, refusal))
  PROVE  Honest(l)
<1>1. ASSUME NEW refusal \in k.refused
      PROVE  refusal.after \in 0..Len(l.stream) /\ Deserved(l, refusal)
  <2>1. refusal.after \in 0..Len(k.stream) /\ Deserved(k, refusal)
    BY DEF Honest
  <2> QED
    BY <2>1, StillDeserved
<1> QED
  BY <1>1 DEF Honest

\* Taking a request takes its bytes and no others.
LEMMA TakeIs ==
  ASSUME NEW k, Shaped(k), NEW request, request.length \in 0..Len(PeekData(k)),
         request.keep \in BOOLEAN
  PROVE  LET l == Take(k, request)
         IN  /\ Shaped(l) /\ Keeps(k, l, {"buffer", "readPos", "tasks", "taken"})
             /\ l.tasks = Append(k.tasks, [keep |-> request.keep]) /\ l.tasks # <<>>
             /\ l.taken = Append(k.taken, [line |-> request.line, content |-> request.body])
             /\ PeekData(l) = SubSeq(PeekData(k), request.length + 1, Len(PeekData(k)))
<1> DEFINE l == Take(k, request)
           m == ConsumeData(k, request.length)
<1>1. /\ Shaped(m) /\ Keeps(k, m, {"buffer", "readPos"})
      /\ PeekData(m) = SubSeq(PeekData(k), request.length + 1, Len(PeekData(k)))
  BY ConsumeTakes
<1>2. l = [m EXCEPT !.tasks = Append(@, [keep |-> request.keep]),
                    !.taken = Append(@, [line |-> request.line, content |-> request.body])]
  BY DEF Take, Consumed
<1> HIDE DEF l, m
<1>3. DOMAIN m = Fields /\ DOMAIN l = Fields /\ DOMAIN k = Fields
  BY <1>1, <1>2 DEF Shaped
<1>4. /\ \A f \in Fields \ {"tasks", "taken"} : l[f] = m[f]
      /\ l.tasks = Append(m.tasks, [keep |-> request.keep])
      /\ l.taken = Append(m.taken, [line |-> request.line, content |-> request.body])
  BY <1>2, <1>3 DEF Fields
<1>5. m.tasks = k.tasks /\ m.taken = k.taken /\ l.buffer = m.buffer /\ l.readPos = m.readPos
  BY <1>1, <1>3, <1>4 DEF Keeps, Fields
<1>6. Keeps(k, l, {"buffer", "readPos", "tasks", "taken"})
  BY <1>1, <1>3, <1>4 DEF Keeps
<1>7. l.tasks \in Seq([keep : BOOLEAN]) /\ l.tasks # <<>>
  <2> DEFINE T == [keep : BOOLEAN]
             t == [keep |-> request.keep]
  <2>1. k.tasks \in Seq(T) /\ t \in T
    BY DEF Shaped
  <2> HIDE DEF T, t
  <2>2. Append(k.tasks, t) \in Seq(T) /\ Append(k.tasks, t) # <<>>
    BY <2>1, AppendProperties
  <2> QED
    BY <1>4, <1>5, <2>2 DEF T, t
<1>8. Shaped(l)
  BY <1>1, <1>3, <1>5, <1>7 DEF Shaped
<1>9. PeekData(l) = PeekData(m)
  BY <1>5 DEF PeekData
<1> QED
  BY <1>1, <1>4, <1>5, <1>6, <1>7, <1>8, <1>9 DEF l

\* A refusal that is deserved leaves a connection that may be parsed sane.
LEMMA RefuseSane ==
  ASSUME NEW c \in Conn, NEW k, Ready(c, k), settings.capacity \in Nat, NEW why,
         Deserved(k, [why |-> why, after |-> Len(k.taken)])
  PROVE  Sane(c, Refuse(k, why))
<1> DEFINE l == Refuse(k, why)
           new == [why |-> why, after |-> Len(k.taken)]
<1>1. /\ Shaped(k) /\ Open(c, k) /\ Buffered(k) /\ (k.requestTooLarge => ~k.armed)
      /\ settings.pooled => k.pooled
      /\ k.pooled => settings.pooled /\ k.block # NoBlock
  BY DEF Ready
<1>2. /\ Shaped(l) /\ Keeps(k, l, {"tasks", "refused"})
      /\ l.tasks # <<>> /\ l.refused = k.refused \cup {new}
  BY <1>1, RefuseIs
<1>3. /\ k.open /\ k.stream \in Streams[c] /\ k.pos \in 0..Len(All(k.stream)) /\ Honest(k)
  BY <1>1 DEF Open
<1>4. Len(k.taken) \in 0..Len(k.stream)
  BY <1>3, EndIs
<1> HIDE DEF l
<1>5. /\ l.open = k.open /\ l.stream = k.stream /\ l.pos = k.pos /\ l.armed = k.armed
      /\ l.buffer = k.buffer /\ l.readPos = k.readPos /\ l.pooled = k.pooled /\ l.block = k.block
      /\ l.truncated = k.truncated /\ l.allocationFailed = k.allocationFailed
      /\ l.requestTooLarge = k.requestTooLarge /\ l.taken = k.taken
  BY <1>1, <1>2 DEF Keeps, Shaped, Fields
<1>6. k.pos \in Nat
  BY <1>3, Marks
<1>7. Deserved(l, new) /\ new.after \in 0..Len(l.stream)
  <2>1. new.after = Len(k.taken)
    OBVIOUS
  <2> HIDE DEF new
  <2> QED
    BY <1>3, <1>4, <1>5, <1>6, <2>1, StillDeserved DEF new
<1>8. Honest(l)
  <2>1. \A refusal \in l.refused : refusal \in k.refused \/
           (refusal.after \in 0..Len(l.stream) /\ Deserved(l, refusal))
    BY <1>2, <1>7
  <2> HIDE DEF new
  <2> QED
    BY <1>3, <1>5, <1>6, <2>1, StillHonest
<1>9. Buffered(l)
  <2>1. Start(l) = Start(k) /\ PeekData(l) = PeekData(k)
    BY <1>5 DEF Start, PeekData
  <2> QED
    BY <1>1, <1>5, <2>1 DEF Buffered
<1>10. Open(c, l) /\ l.open
  BY <1>3, <1>5, <1>8 DEF Open
<1> QED
  BY <1>1, <1>2, <1>5, <1>9, <1>10 DEF Sane, l

\* So does a request that the parser has read right.
LEMMA TakeSane ==
  ASSUME NEW c \in Conn, NEW k, Ready(c, k), settings.capacity \in Nat, NEW request,
         request.verdict = "ok", request.keep \in BOOLEAN, ~HeadTooLong(k, request),
         Len(k.taken) \in 0..(Len(k.stream) - 1),
         Right(k.stream, Len(k.taken), k.pos, request)
  PROVE  Sane(c, Take(k, request))
<1> DEFINE l == Take(k, request)
           n == Len(k.taken)
           stream == k.stream
           all == All(k.stream)
           r == [line |-> request.line, content |-> request.body]
<1>1. /\ Shaped(k) /\ Open(c, k) /\ Buffered(k) /\ (k.requestTooLarge => ~k.armed)
      /\ settings.pooled => k.pooled
      /\ k.pooled => settings.pooled /\ k.block # NoBlock
  BY DEF Ready
<1>2. /\ k.open /\ stream \in Streams[c] /\ k.pos \in 0..Len(all) /\ Honest(k)
      /\ Start(k) <= k.pos /\ PeekData(k) = SubSeq(all, Start(k) + 1, k.pos)
      /\ ~k.truncated /\ ~k.allocationFailed
      /\ Start(k) = At(stream, n)
  BY <1>1 DEF Open, Buffered, Start, At
<1>3. /\ Len(stream) \in Nat /\ all \in Seq(STRING) /\ Len(all) \in Nat
      /\ n + 1 \in 0..Len(stream) /\ n + 1 \in 1..Len(stream) /\ n \in Nat
      /\ At(stream, n) \in Nat /\ At(stream, n + 1) \in Nat /\ At(stream, n) < At(stream, n + 1)
  <2>1. /\ Len(stream) \in Nat /\ all \in Seq(STRING) /\ Len(all) \in Nat
        /\ \A m \in 0..Len(stream) : At(stream, m) \in Nat
        /\ \A m \in 0..(Len(stream) - 1) : At(stream, m) < At(stream, m + 1)
    BY <1>2, Marks
  <2>2. n \in 0..Len(stream) /\ n + 1 \in 0..Len(stream) /\ n + 1 \in 1..Len(stream) /\ n \in Nat
    BY <2>1
  <2> QED
    BY <2>1, <2>2
<1>4. /\ At(stream, n + 1) <= k.pos
      /\ request.length = At(stream, n + 1) - At(stream, n)
      /\ request.line = stream[n + 1].line /\ request.body = stream[n + 1].content
      /\ stream[n + 1].fault # "none" => request.head > maxRequestHeaderBytes
  BY DEF Right, At
<1>5. stream[n + 1].fault = "none"
  BY <1>4 DEF HeadTooLong
<1> HIDE DEF n, stream, all
<1>6. k.pos \in Nat /\ k.pos <= Len(all) /\ Len(PeekData(k)) = k.pos - At(stream, n)
  BY <1>2, <1>3, PieceIs
<1>7. request.length \in 0..Len(PeekData(k))
  BY <1>3, <1>4, <1>6
<1>8. /\ Shaped(l) /\ Keeps(k, l, {"buffer", "readPos", "tasks", "taken"})
      /\ l.tasks # <<>> /\ l.taken = Append(k.taken, r)
      /\ PeekData(l) = SubSeq(PeekData(k), request.length + 1, Len(PeekData(k)))
  BY <1>1, <1>7, TakeIs
<1> HIDE DEF l, r
<1>9. /\ l.open = k.open /\ l.stream = k.stream /\ l.pos = k.pos /\ l.armed = k.armed
      /\ l.pooled = k.pooled /\ l.block = k.block
      /\ l.truncated = k.truncated /\ l.allocationFailed = k.allocationFailed
      /\ l.requestTooLarge = k.requestTooLarge /\ l.refused = k.refused
  BY <1>1, <1>8 DEF Keeps, Shaped, Fields
<1>10. /\ l.taken \in Seq(Served(stream)) /\ Len(l.taken) = n + 1
       /\ l.taken[n + 1] = r /\ \A i \in 1..n : l.taken[i] = k.taken[i]
  <2>1. k.taken \in Seq(Served(stream))
    BY <1>2 DEF Honest, stream
  <2>2. r \in Served(stream)
    BY <1>3, <1>4 DEF Served, r
  <2> QED
    BY <1>8, <2>1, <2>2, AppendProperties DEF n
<1>11. Start(l) = At(stream, n + 1)
  BY <1>9, <1>10 DEF Start, At, stream
<1>12. Buffered(l)
  <2>1. PeekData(l) = SubSeq(all, (At(stream, n) + request.length) + 1, At(stream, n) + Len(PeekData(k)))
    <3> DEFINE a == At(stream, n)
               i == request.length
               q == Len(PeekData(k))
               p == k.pos
    <3>1. /\ a \in Nat /\ i \in Nat /\ q \in Nat /\ p \in Nat
          /\ a <= p /\ p <= Len(all) /\ i <= q /\ q <= p - a
      BY <1>2, <1>3, <1>6, <1>7
    <3>2. PeekData(l) = SubSeq(SubSeq(all, a + 1, p), i + 1, q)
      BY <1>2, <1>8
    <3> HIDE DEF a, i, q, p
    <3>3. SubSeq(SubSeq(all, a + 1, p), i + 1, q) = SubSeq(all, (a + i) + 1, a + q)
      BY <1>3, <3>1, PieceOfPiece
    <3> QED
      BY <3>2, <3>3 DEF a, i, q, p
  <2>2. /\ At(stream, n) + request.length = At(stream, n + 1)
        /\ At(stream, n) + Len(PeekData(k)) = k.pos
    <3>1. At(stream, n) + (At(stream, n + 1) - At(stream, n)) = At(stream, n + 1)
      BY <1>3
    <3>2. At(stream, n) + (k.pos - At(stream, n)) = k.pos
      BY <1>3, <1>6
    <3> QED
      BY <1>4, <1>6, <3>1, <3>2
  <2> QED
    BY <1>2, <1>4, <1>9, <1>11, <2>1, <2>2 DEF Buffered, all, stream
<1>13. Honest(l)
  <2>1. Len(l.taken) <= Len(l.stream)
    BY <1>3, <1>9, <1>10 DEF stream
  <2>2. ASSUME NEW i \in 1..Len(l.taken)
        PROVE  /\ stream[i].fault = "none"
               /\ l.taken[i] = [line |-> stream[i].line, content |-> stream[i].content]
    <3>1. i = n + 1 \/ i \in 1..n
      BY <1>3, <1>10
    <3>2. CASE i = n + 1
      BY <1>4, <1>5, <1>10, <3>2 DEF r
    <3>3. CASE i \in 1..n
      BY <1>2, <1>10, <3>3 DEF Honest, n, stream
    <3> QED
      BY <3>1, <3>2, <3>3
  <2>3. ASSUME NEW refusal \in l.refused
        PROVE  refusal.after \in 0..Len(l.stream) /\ Deserved(l, refusal)
    <3>1. refusal.after \in 0..Len(k.stream) /\ Deserved(k, refusal)
      BY <1>2, <1>9, <2>3 DEF Honest
    <3> QED
      BY <1>2, <1>6, <1>9, <3>1, StillDeserved DEF stream
  <2> QED
    BY <1>9, <1>10, <2>1, <2>2, <2>3 DEF Honest, stream
<1>14. Open(c, l) /\ l.open
  BY <1>2, <1>9, <1>13 DEF Open, stream, all
<1> QED
  BY <1>1, <1>8, <1>9, <1>12, <1>14 DEF Sane, l

\* Whatever the parser says of a buffer that may be parsed, the connection stays sane.
LEMMA DispatchSane ==
  ASSUME ParsesRight, NEW c \in Conn, NEW k, Ready(c, k), ~k.requestTooLarge,
         settings.capacity \in Nat
  PROVE  Sane(c, Dispatch(k))
<1> DEFINE n == Len(k.taken)
           request == Parse(PeekData(k))
           p == Len(PeekData(k))
           new(why) == [why |-> why, after |-> n]
<1>1. /\ n \in 0..Len(k.stream) /\ Len(k.stream) \in Nat
      /\ Start(k) = At(k.stream, n) /\ Start(k) \in Nat
      /\ p = k.pos - Start(k)
      /\ n # Len(k.stream) => /\ n \in 0..(Len(k.stream) - 1)
                              /\ Right(k.stream, n, k.pos, request)
      /\ n = Len(k.stream) => /\ k.pos = Start(k) /\ p = 0 /\ request.verdict = "more"
  BY ParseAt
<1>2. request.keep \in BOOLEAN
  BY ParseKeeps
<1>3. Dispatch(k) = Handle(k, request)
  BY DEF Dispatch
<1>4. maxRequestHeaderBytes \in Nat
  BY RequestPathAssumption
<1>5. /\ k.open /\ k.stream \in Streams[c] /\ k.pos \in Nat /\ Honest(k) /\ Shaped(k)
      /\ Buffered(k) /\ (k.requestTooLarge => ~k.armed)
      /\ settings.pooled => k.pooled
      /\ k.pooled => settings.pooled /\ k.block # NoBlock
  BY Marks DEF Ready, Open
<1>6. \A why : new(why).why = why /\ new(why).after = n
  OBVIOUS
<1> HIDE DEF request, new, p
<1>7. CASE request.verdict \notin {"ok", "more"}
  <2>1. n # Len(k.stream)
    BY <1>1, <1>7
  <2>2. /\ request.verdict \in {"malformed", "conflict", "large", "length"}
        /\ request.verdict \in {"conflict", "large", "length"} =>
             k.stream[n + 1].fault = request.verdict
        /\ n < Len(k.stream)
    BY <1>1, <1>7, <2>1 DEF Right
  <2>3. Deserved(k, new(request.verdict))
    BY <1>6, <2>2 DEF Deserved
  <2>4. Handle(k, request) = Refuse(k, request.verdict)
    BY <1>7 DEF Handle, HeadTooLong
  <2> QED
    BY <1>3, <2>3, <2>4, RefuseSane DEF new
<1>8. CASE request.verdict \in {"ok", "more"} /\ HeadTooLong(k, request)
  <2>1. p > maxRequestHeaderBytes
    <3>1. CASE request.verdict = "ok"
      <4>1. n # Len(k.stream)
        BY <1>1, <3>1
      <4>2. /\ At(k.stream, n + 1) <= k.pos
            /\ request.length = At(k.stream, n + 1) - At(k.stream, n)
            /\ request.head \in 0..request.length
        BY <1>1, <3>1, <4>1 DEF Right, At
      <4>3. request.head > maxRequestHeaderBytes
        BY <1>8, <3>1 DEF HeadTooLong
      <4>4. At(k.stream, n + 1) \in Nat
        <5>1. n + 1 \in 0..Len(k.stream)
          BY <1>1, <4>1
        <5> QED
          BY <1>5, <5>1, Marks
      <4> QED
        BY <1>1, <1>4, <1>5, <4>2, <4>3, <4>4
    <3>2. CASE request.verdict = "more"
      BY <1>8, <3>2 DEF HeadTooLong, p
    <3> QED
      BY <1>8, <3>1, <3>2
  <2>2. k.pos - Len(Bytes(k.stream, n)) > maxRequestHeaderBytes
    BY <1>1, <2>1 DEF At
  <2>3. Deserved(k, new("header"))
    <3>1. new("header").why = "header" /\ new("header").after = n
      BY <1>6
    <3> DEFINE it == new("header")
    <3> HIDE DEF it, n
    <3>2. it.why = "header" /\ it.after = n
      BY <3>1 DEF it
    <3>3. Deserved(k, it)
      BY <2>2, <3>2 DEF Deserved
    <3> QED
      BY <3>3 DEF it
  <2>4. Handle(k, request) = Refuse(k, "header")
    BY <1>8 DEF Handle, HeadTooLong
  <2> QED
    BY <1>3, <2>3, <2>4, RefuseSane DEF new
<1>9. CASE request.verdict = "ok" /\ ~HeadTooLong(k, request)
  <2>1. n # Len(k.stream)
    BY <1>1, <1>9
  <2>2. Handle(k, request) = Take(k, request)
    BY <1>9 DEF Handle
  <2> QED
    BY <1>1, <1>2, <1>3, <1>9, <2>1, <2>2, TakeSane
<1>10. CASE request.verdict = "more" /\ ~HeadTooLong(k, request)
  <2> DEFINE l == [k EXCEPT !.armed = TRUE]
  <2>1. Handle(k, request) = l
    BY <1>10 DEF Handle
  <2>2. Keeps(k, l, {"armed"}) /\ l.armed /\ DOMAIN l = Fields /\ DOMAIN k = Fields
    BY <1>5 DEF Keeps, Shaped, Fields
  <2> HIDE DEF l
  <2>3. /\ l.open = k.open /\ l.stream = k.stream /\ l.pos = k.pos /\ l.tasks = k.tasks
        /\ l.buffer = k.buffer /\ l.readPos = k.readPos /\ l.pooled = k.pooled /\ l.block = k.block
        /\ l.truncated = k.truncated /\ l.allocationFailed = k.allocationFailed
        /\ l.requestTooLarge = k.requestTooLarge /\ l.taken = k.taken /\ l.refused = k.refused
    BY <2>2 DEF Keeps, Fields
  <2>4. Shaped(l)
    BY <1>5, <2>2, <2>3 DEF Shaped
  <2>5. /\ Start(l) = Start(k) /\ PeekData(l) = PeekData(k) /\ End(l) = End(k)
    BY <2>3 DEF Start, PeekData, End
  <2>6. Buffered(l)
    BY <1>5, <2>3, <2>5 DEF Buffered
  <2>7. Honest(l)
    BY <1>5, <2>3, StillHonest
  <2>8. k.pos < End(k) \/ k.pos = Start(k)
    <3>1. CASE n = Len(k.stream)
      BY <1>1, <3>1
    <3>2. CASE n # Len(k.stream)
      <4>1. k.pos < At(k.stream, n + 1)
        BY <1>1, <1>10, <3>2 DEF Right, At
      <4>2. End(k) = At(k.stream, n + 1)
        <5>1. n < Len(k.stream)
          BY <1>1, <3>2
        <5> QED
          BY <1>5, <5>1, EndIs
      <4> QED
        BY <4>1, <4>2
    <3> QED
      BY <3>1, <3>2
  <2>9. Open(c, l) /\ l.open
    BY <2>3, <2>7 DEF Open, Ready
  <2>10. ~l.requestTooLarge
    BY <2>3
  <2>11. Sane(c, l)
    BY <1>5, <2>2, <2>3, <2>4, <2>5, <2>6, <2>8, <2>9, <2>10 DEF Sane
  <2> QED
    BY <1>3, <2>1, <2>11
<1> QED
  BY <1>7, <1>8, <1>9, <1>10

-----------------------------------------------------------------------------
(* A read event. *)

\* What has come since the last read continues what is unread.
LEMMA ReadIs ==
  ASSUME NEW c \in Conn, NEW k, Shaped(k), Open(c, k), Buffered(k), NEW pos \in Written(k)
  PROVE  LET data == SubSeq(Bytes(k.stream, Len(k.stream)), k.pos + 1, pos)
         IN  /\ pos \in Nat /\ k.pos \in Nat /\ k.pos < pos /\ pos <= Len(All(k.stream))
             /\ settings.waits => k.tasks = <<>>
             /\ data \in Seq(STRING) /\ Len(data) \in Nat
             /\ PeekData(k) \in Seq(STRING) /\ Len(PeekData(k)) \in Nat
             /\ PeekData(k) \o data = SubSeq(All(k.stream), Start(k) + 1, pos)
             /\ Start(k) \in Nat /\ Len(PeekData(k)) + Len(data) = pos - Start(k)
<1> DEFINE all == All(k.stream)
           data == SubSeq(all, k.pos + 1, pos)
           start == Start(k)
<1>1. /\ k.stream \in Streams[c] /\ k.pos \in 0..Len(all) /\ Honest(k)
      /\ start <= k.pos /\ PeekData(k) = SubSeq(all, start + 1, k.pos)
  BY DEF Open, Buffered
<1>2. /\ all \in Seq(STRING) /\ Len(all) \in Nat
      /\ \A m \in 0..Len(k.stream) : At(k.stream, m) \in Nat
  BY <1>1, Marks
<1>3. End(k) \in Nat /\ End(k) <= Len(all) /\ Len(k.taken) \in 0..Len(k.stream)
  BY <1>1, EndIs
<1>4. start \in Nat
  BY <1>2, <1>3 DEF Start, At
<1>5. k.pos \in Nat /\ k.pos <= Len(all)
  BY <1>1, <1>2
<1>6. (settings.waits => k.tasks = <<>>) /\ (pos \in k.pos + 1..Len(all) \/ pos \in k.pos + 1..End(k))
  BY DEF Written, All
<1> HIDE DEF all, start
<1>7. pos \in Nat /\ k.pos < pos /\ pos <= Len(all)
  BY <1>2, <1>3, <1>5, <1>6
<1>8. data \in Seq(STRING) /\ Len(data) = pos - k.pos
  BY <1>2, <1>5, <1>7, PieceIs
<1>9. PeekData(k) \in Seq(STRING) /\ Len(PeekData(k)) = k.pos - start
  BY <1>1, <1>2, <1>4, <1>5, PieceIs
<1>10. SubSeq(all, start + 1, k.pos) \o SubSeq(all, k.pos + 1, pos) = SubSeq(all, start + 1, pos)
  <2>1. start + 1 \in 1..Len(all) + 1 /\ k.pos \in (start + 1) - 1..Len(all) /\ pos \in k.pos..Len(all)
    BY <1>1, <1>2, <1>4, <1>5, <1>7
  <2> QED
    BY <1>2, <2>1, ConcatAdjacentSubSeq
<1> HIDE DEF data
<1>11. Len(PeekData(k)) \in Nat /\ Len(data) \in Nat /\ Len(PeekData(k)) + Len(data) = pos - start
  <2>1. k.pos - start \in Nat /\ pos - k.pos \in Nat /\ (k.pos - start) + (pos - k.pos) = pos - start
    BY <1>1, <1>4, <1>5, <1>7
  <2> QED
    BY <1>8, <1>9, <2>1
<1>12. data = SubSeq(Bytes(k.stream, Len(k.stream)), k.pos + 1, pos)
  BY DEF data, all, All
<1>13. PeekData(k) \o data = SubSeq(all, start + 1, pos)
  BY <1>1, <1>10 DEF data
<1> QED
  BY <1>4, <1>5, <1>6, <1>7, <1>8, <1>9, <1>11, <1>12, <1>13 DEF all, start

\* A context that loses bytes has no other task, and gets one that ends it.
LEMMA DoomSane ==
  ASSUME NEW c \in Conn, NEW k, Shaped(k), Open(c, k), settings.capacity \in Nat,
         k.tasks = <<>>, ~k.armed, settings.pooled, k.pooled,
         NEW why, Deserved(k, [why |-> why, after |-> Len(k.taken)])
  PROVE  Sane(c, Refuse(k, why))
<1> DEFINE l == Refuse(k, why)
           new == [why |-> why, after |-> Len(k.taken)]
<1>1. /\ Shaped(l) /\ Keeps(k, l, {"tasks", "refused"})
      /\ l.tasks = Append(k.tasks, [keep |-> FALSE]) /\ l.tasks # <<>>
      /\ l.refused = k.refused \cup {new}
  BY RefuseIs
<1>2. /\ k.open /\ k.stream \in Streams[c] /\ k.pos \in 0..Len(All(k.stream)) /\ Honest(k)
  BY DEF Open
<1>3. Len(k.taken) \in 0..Len(k.stream) /\ k.pos \in Nat
  BY <1>2, EndIs, Marks
<1> HIDE DEF l
<1>4. /\ l.open = k.open /\ l.stream = k.stream /\ l.pos = k.pos /\ l.armed = k.armed
      /\ l.pooled = k.pooled /\ l.block = k.block /\ l.taken = k.taken
  BY <1>1 DEF Keeps, Shaped, Fields
<1>5. new.after = Len(k.taken) /\ Deserved(k, new)
  OBVIOUS
<1> HIDE DEF new
<1>6. Deserved(l, new) /\ new.after \in 0..Len(l.stream)
  BY <1>2, <1>3, <1>4, <1>5, StillDeserved
<1>7. Honest(l)
  BY <1>1, <1>2, <1>3, <1>4, <1>6, StillHonest
<1>8. l.tasks = <<[keep |-> FALSE]>>
  BY <1>1
<1>9. Open(c, l) /\ l.open /\ Doomed(l)
  BY <1>2, <1>4, <1>7, <1>8 DEF Open, Doomed
<1> QED
  BY <1>1, <1>4, <1>9 DEF Sane, l

\* What a sane connection that is read from is like.
LEMMA ReadFrom ==
  ASSUME NEW c \in Conn, NEW k, Sane(c, k), k.open, k.armed
  PROVE  /\ Shaped(k) /\ Open(c, k) /\ Buffered(k) /\ ~k.requestTooLarge
         /\ settings.pooled /\ ~k.pooled => k.tasks = <<>> /\ k.refused = {}
         /\ k.pooled => settings.pooled /\ k.block # NoBlock
BY DEF Sane, Doomed

LEMMA ReadStringSane ==
  ASSUME ParsesRight, settings \in Settings, ~settings.pooled,
         NEW c \in Conn, NEW k, Sane(c, k), k.open, k.armed, NEW pos \in Written(k)
  PROVE  LET data == SubSeq(Bytes(k.stream, Len(k.stream)), k.pos + 1, pos)
         IN  Sane(c, AfterRead(AppendString([k EXCEPT !.armed = FALSE, !.pos = pos], data)))
<1> DEFINE data == SubSeq(Bytes(k.stream, Len(k.stream)), k.pos + 1, pos)
           ctx == [k EXCEPT !.armed = FALSE, !.pos = pos]
           l == AppendString(ctx, data)
           start == Start(k)
           sum == Len(PeekData(k)) + Len(data)
<1>1. /\ Shaped(k) /\ Open(c, k) /\ Buffered(k) /\ ~k.requestTooLarge /\ ~k.pooled
  BY ReadFrom
<1>2. /\ pos \in Nat /\ k.pos \in Nat /\ k.pos < pos /\ pos <= Len(All(k.stream))
      /\ data \in Seq(STRING) /\ Len(data) \in Nat
      /\ PeekData(k) \in Seq(STRING) /\ Len(PeekData(k)) \in Nat
      /\ PeekData(k) \o data = SubSeq(All(k.stream), start + 1, pos)
      /\ start \in Nat /\ sum = pos - start
  BY <1>1, ReadIs
<1>3. /\ k.stream \in Streams[c] /\ Honest(k) /\ start <= k.pos
      /\ ~k.truncated /\ ~k.allocationFailed
  BY <1>1 DEF Open, Buffered
<1>4. settings.capacity \in Nat
  BY RequestPathAssumption
<1> HIDE DEF data
<1>5. /\ Keeps(k, ctx, {"armed", "pos"}) /\ DOMAIN ctx = Fields /\ DOMAIN k = Fields
      /\ ctx.armed = FALSE /\ ctx.pos = pos
      /\ ctx.buffer = k.buffer /\ ctx.readPos = k.readPos /\ ctx.tasks = k.tasks
  BY <1>1 DEF Keeps, Shaped, Fields
<1> HIDE DEF ctx
<1>6. Shaped(ctx) /\ PeekData(ctx) = PeekData(k)
  BY <1>1, <1>5 DEF Shaped, PeekData
<1>7. /\ Keeps(ctx, l, {"buffer", "readPos", "requestTooLarge"}) /\ DOMAIN l = Fields
      /\ l.buffer = PeekData(k) \o data /\ l.readPos = 0
      /\ l.requestTooLarge <=> ctx.requestTooLarge \/ sum > maxRequestBytes
  BY <1>5, <1>6 DEF AppendString, Compacted, Keeps, Fields
<1> HIDE DEF l
<1>8. Keeps(ctx, l, {"buffer", "readPos", "truncated", "requestTooLarge"})
  BY <1>7 DEF Keeps
<1>9. Shaped(l) /\ PeekData(l) = PeekData(k) \o data
  BY <1>2, <1>6, <1>7, <1>8, AppendPuts
<1>10. /\ l.open = k.open /\ l.stream = k.stream /\ l.pos = pos /\ l.armed = FALSE
       /\ l.pooled = k.pooled /\ l.block = k.block /\ l.tasks = k.tasks
       /\ l.truncated = k.truncated /\ l.allocationFailed = k.allocationFailed
       /\ ctx.requestTooLarge = k.requestTooLarge /\ l.taken = k.taken /\ l.refused = k.refused
  BY <1>5, <1>7 DEF Keeps, Fields
<1>11. Start(l) = start
  BY <1>10 DEF Start
<1> HIDE DEF start
<1>12. Buffered(l)
  BY <1>2, <1>3, <1>9, <1>10, <1>11 DEF Buffered
<1>13. Honest(l)
  BY <1>2, <1>3, <1>4, <1>10, StillHonest
<1>14. Open(c, l)
  <2>1. pos \in 0..Len(All(k.stream))
    <3>1. Len(All(k.stream)) \in Nat
      BY <1>3, Marks
    <3> QED
      BY <1>2, <3>1
  <2> QED
    BY <1>3, <1>10, <1>13, <2>1 DEF Open
<1>15. Ready(c, l)
  BY <1>1, <1>9, <1>10, <1>12, <1>14 DEF Ready
<1>16. CASE l.requestTooLarge
  <2> DEFINE new == [why |-> "large request", after |-> Len(l.taken)]
  <2>1. sum > maxRequestBytes
    BY <1>1, <1>7, <1>10, <1>16
  <2>2. l.pos - Len(Bytes(l.stream, Len(l.taken))) > maxRequestBytes
    BY <1>2, <1>10, <1>11, <2>1 DEF Start
  <2>3. new.why = "large request" /\ new.after = Len(l.taken)
    OBVIOUS
  <2> HIDE DEF new
  <2>4. Deserved(l, new)
    BY <2>2, <2>3 DEF Deserved
  <2>5. Sane(c, Refuse(l, "large request"))
    BY <1>4, <1>15, <2>4, RefuseSane DEF new
  <2>6. AfterRead(l) = Refuse(l, "large request")
    BY <1>16 DEF AfterRead
  <2> QED
    BY <2>5, <2>6 DEF l, ctx, data
<1>17. CASE ~l.requestTooLarge
  <2>1. AfterRead(l) = Dispatch(l)
    BY <1>3, <1>10, <1>17 DEF AfterRead
  <2>2. Sane(c, Dispatch(l))
    BY <1>4, <1>15, <1>17, DispatchSane
  <2> QED
    BY <2>1, <2>2 DEF l, ctx, data
<1> QED
  BY <1>16, <1>17

LEMMA ReadPooledSane ==
  ASSUME ParsesRight, Roomy, settings \in Settings, settings.pooled,
         NEW c \in Conn, NEW k, Sane(c, k), k.open, k.armed, NEW pos \in Written(k)
  PROVE  LET data == SubSeq(Bytes(k.stream, Len(k.stream)), k.pos + 1, pos)
             ctx  == [k EXCEPT !.armed = FALSE, !.pos = pos, !.pooled = TRUE,
                               !.block = IF k.pooled THEN @ ELSE Allocated]
         IN  Sane(c, AfterRead(AppendPooled(ctx, data)))
<1> DEFINE data == SubSeq(Bytes(k.stream, Len(k.stream)), k.pos + 1, pos)
           block == IF k.pooled THEN k.block ELSE Allocated
           ctx == [k EXCEPT !.armed = FALSE, !.pos = pos, !.pooled = TRUE,
                            !.block = IF k.pooled THEN @ ELSE Allocated]
           l == AppendPooled(ctx, data)
           start == Start(k)
           all == All(k.stream)
           peek == PeekData(k)
           sum == Len(peek) + Len(data)
<1>1. /\ Shaped(k) /\ Open(c, k) /\ Buffered(k) /\ ~k.requestTooLarge
      /\ ~k.pooled => k.tasks = <<>> /\ k.refused = {}
      /\ k.pooled => k.block # NoBlock
  BY ReadFrom
<1>2. /\ pos \in Nat /\ k.pos \in Nat /\ k.pos < pos /\ pos <= Len(all)
      /\ settings.waits => k.tasks = <<>>
      /\ data \in Seq(STRING) /\ Len(data) \in Nat
      /\ peek \in Seq(STRING) /\ Len(peek) \in Nat
      /\ peek \o data = SubSeq(all, start + 1, pos)
      /\ start \in Nat /\ sum = pos - start
  BY <1>1, ReadIs
<1>3. /\ k.stream \in Streams[c] /\ Honest(k) /\ start <= k.pos /\ k.open
      /\ ~k.truncated /\ ~k.allocationFailed
  BY <1>1 DEF Open, Buffered
<1>4. settings.capacity \in Nat
  BY RequestPathAssumption
<1>5. Len(all) \in Nat /\ pos \in 0..Len(all)
  <2>1. Len(all) \in Nat
    BY <1>3, Marks
  <2> QED
    BY <1>2, <2>1
<1>6. settings.waits \/ Len(all) <= settings.capacity
  BY <1>3 DEF Roomy, All
<1>7. /\ Keeps(k, ctx, {"armed", "pos", "pooled", "block"}) /\ DOMAIN ctx = Fields /\ DOMAIN k = Fields
      /\ ctx.armed = FALSE /\ ctx.pos = pos /\ ctx.pooled = TRUE /\ ctx.block = block
      /\ ctx.buffer = k.buffer /\ ctx.readPos = k.readPos /\ ctx.tasks = k.tasks
      /\ ctx.truncated = k.truncated /\ ctx.allocationFailed = k.allocationFailed
      /\ ctx.requestTooLarge = k.requestTooLarge
      /\ ctx.open = k.open /\ ctx.stream = k.stream /\ ctx.taken = k.taken /\ ctx.refused = k.refused
  BY <1>1 DEF Keeps, Shaped, Fields
<1> HIDE DEF data, ctx, block
<1>8. Shaped(ctx) /\ PeekData(ctx) = peek
  BY <1>1, <1>7 DEF Shaped, PeekData
<1>9. k.refused # {} => block = k.block
  BY <1>1 DEF block
\* No step but the last below changes these of the context.
<1>10. ASSUME NEW m, Keeps(ctx, m, {"buffer", "readPos", "truncated", "allocationFailed"})
       PROVE  /\ Open(c, m) /\ m.tasks = k.tasks /\ ~m.armed /\ m.pooled /\ m.block = block
              /\ ~m.requestTooLarge /\ m.stream = k.stream /\ m.pos = pos /\ m.taken = k.taken
              /\ Start(m) = start
  <2>1. /\ m.open = k.open /\ m.stream = k.stream /\ m.pos = pos /\ m.armed = FALSE
        /\ m.pooled = TRUE /\ m.block = block /\ m.tasks = k.tasks
        /\ m.requestTooLarge = k.requestTooLarge /\ m.taken = k.taken /\ m.refused = k.refused
    BY <1>7, <1>10 DEF Keeps, Fields
  <2>2. Honest(m)
    <3>1. /\ k.pos <= m.pos /\ k.pos \in Nat /\ m.pos \in Nat
          /\ k.refused # {} => m.block = k.block
          /\ \A refusal \in m.refused : refusal \in k.refused
      BY <1>2, <1>9, <2>1
    <3> QED
      BY <1>3, <1>4, <2>1, <3>1, StillHonest
  <2>3. Open(c, m)
    BY <1>3, <1>5, <2>1, <2>2 DEF Open
  <2> QED
    BY <1>1, <2>1, <2>3 DEF Start
<1>11. CASE block = NoBlock
  <2>1. l = [ctx EXCEPT !.allocationFailed = TRUE]
    BY <1>7, <1>11 DEF AppendPooled
  <2>2. /\ Keeps(ctx, l, {"buffer", "readPos", "truncated", "allocationFailed"})
        /\ l.allocationFailed = TRUE /\ DOMAIN l = Fields
        /\ l.buffer = ctx.buffer /\ l.readPos = ctx.readPos /\ l.tasks = ctx.tasks
    BY <1>7, <2>1 DEF Keeps, Fields
  <2> HIDE DEF l
  <2>3. Shaped(l)
    BY <1>8, <2>2 DEF Shaped
  <2>4. k.tasks = <<>>
    BY <1>1, <1>11 DEF block
  <2>5. /\ Open(c, l) /\ l.tasks = <<>> /\ ~l.armed /\ l.pooled /\ l.block = NoBlock
        /\ ~l.requestTooLarge
    BY <1>10, <1>11, <2>2, <2>4
  <2> DEFINE new == [why |-> "exhausted", after |-> Len(l.taken)]
  <2>6. new.why = "exhausted"
    OBVIOUS
  <2> HIDE DEF new
  <2>7. Deserved(l, new)
    BY <2>5, <2>6 DEF Deserved
  <2>8. Sane(c, Refuse(l, "exhausted"))
    BY <1>4, <2>3, <2>5, <2>7, DoomSane DEF new
  <2>9. AfterRead(l) = Refuse(l, "exhausted")
    BY <2>2, <2>5 DEF AfterRead
  <2> QED
    BY <2>8, <2>9 DEF l, ctx, data
<1>12. CASE block # NoBlock
  <2> DEFINE room == settings.capacity - Len(peek)
             part == SubSeq(data, 1, Min({room, Len(data)}))
  <2>1. /\ Keeps(ctx, l, {"buffer", "readPos", "truncated"}) /\ DOMAIN l = Fields
        /\ l.buffer = peek \o part /\ l.readPos = 0
        /\ l.truncated <=> ctx.truncated \/ Len(data) > room
        /\ l.allocationFailed = ctx.allocationFailed
    BY <1>7, <1>8, <1>12 DEF AppendPooled, Compacted, Room, Keeps, Fields
  <2> HIDE DEF l
  <2>2. Min({room, Len(data)}) = (IF room <= Len(data) THEN room ELSE Len(data))
    <3>1. room \in Int /\ Len(data) \in Int
      BY <1>2, <1>4
    <3> HIDE DEF room
    <3> QED
      BY <3>1, LesserIs
  <2>3. part \in Seq(STRING)
    <3>1. Min({room, Len(data)}) \in Int /\ Min({room, Len(data)}) <= Len(data) /\ room \in Int
      BY <1>2, <1>4, <2>2
    <3> DEFINE end == Min({room, Len(data)})
    <3>2. \A i \in 1..end : data[i] \in STRING
      BY <1>2, <3>1
    <3> HIDE DEF end, room
    <3>3. SubSeq(data, 1, end) \in Seq(STRING)
      <4>1. 1 \in Int /\ end \in Int
        BY <3>1 DEF end
      <4> QED
        BY <3>2, <4>1, SubSeqProperties
    <3> QED
      BY <3>3 DEF end
  <2> HIDE DEF part
  <2>4. /\ Keeps(ctx, l, {"buffer", "readPos", "truncated", "requestTooLarge"})
        /\ Keeps(ctx, l, {"buffer", "readPos", "truncated", "allocationFailed"})
    BY <2>1 DEF Keeps
  <2>5. Shaped(l) /\ PeekData(l) = peek \o part
    BY <1>8, <2>1, <2>3, <2>4, AppendPuts
  <2>6. /\ Open(c, l) /\ l.tasks = k.tasks /\ ~l.armed /\ l.pooled /\ l.block # NoBlock
        /\ ~l.requestTooLarge /\ l.stream = k.stream /\ l.pos = pos /\ l.taken = k.taken
        /\ Start(l) = start
    BY <1>10, <1>12, <2>4
  <2>7. ~l.allocationFailed
    BY <1>3, <1>7, <2>1
  <2>8. CASE Len(data) > room
    <3>1. l.truncated
      BY <2>1, <2>8
    <3>2. pos - start > settings.capacity
      BY <1>2, <1>4, <2>8
    <3>3. ~(Len(all) <= settings.capacity)
      BY <1>2, <1>4, <1>5, <3>2
    <3>4. k.tasks = <<>>
      BY <1>2, <1>6, <3>3
    <3> DEFINE new == [why |-> "truncated", after |-> Len(l.taken)]
    <3>5. new.why = "truncated" /\ new.after = Len(l.taken)
      OBVIOUS
    <3> HIDE DEF new
    <3>6. l.pos - Len(Bytes(l.stream, Len(l.taken))) > settings.capacity
      BY <2>6, <3>2 DEF Start
    <3>7. Deserved(l, new)
      BY <3>5, <3>6 DEF Deserved
    <3>8. Sane(c, Refuse(l, "truncated"))
      BY <1>4, <2>5, <2>6, <3>4, <3>7, DoomSane DEF new
    <3>9. AfterRead(l) = Refuse(l, "truncated")
      BY <2>6, <2>7, <3>1 DEF AfterRead
    <3> QED
      BY <3>8, <3>9 DEF l, ctx, data
  <2>9. CASE ~(Len(data) > room)
    <3>1. ~l.truncated
      BY <1>3, <1>7, <2>1, <2>9
    <3>2. Min({room, Len(data)}) = Len(data)
      BY <1>2, <1>4, <2>2, <2>9
    <3>3. part = data
      BY <1>2, <3>2, SubSeqFull DEF part
    <3>4. Buffered(l)
      BY <1>2, <1>3, <2>5, <2>6, <2>7, <3>1, <3>3 DEF Buffered
    <3>5. Ready(c, l)
      BY <2>5, <2>6, <3>4 DEF Ready
    <3>6. AfterRead(l) = Dispatch(l)
      BY <2>6, <2>7, <3>1 DEF AfterRead
    <3>7. Sane(c, Dispatch(l))
      BY <1>4, <2>6, <3>5, DispatchSane
    <3> QED
      BY <3>6, <3>7 DEF l, ctx, data
  <2> QED
    BY <2>8, <2>9
<1> QED
  BY <1>11, <1>12

-----------------------------------------------------------------------------
(* A response, a new peer, a connection that ends. *)

\* A response that keeps the connection is not that of a doomed one.
LEMMA RespondSane ==
  ASSUME ParsesRight, settings \in Settings, NEW c \in Conn, NEW k, Sane(c, k),
         NEW i \in DOMAIN k.tasks, k.tasks[i].keep
  PROVE  LET l == [ResetForNextRequest(WithoutTask(k, i)) EXCEPT !.armed = TRUE]
         IN  Sane(c, IF PeekData(l) = <<>> THEN l ELSE Dispatch(l))
<1> DEFINE rest == SubSeq(k.tasks, 1, i - 1) \o SubSeq(k.tasks, i + 1, Len(k.tasks))
           l == [ResetForNextRequest(WithoutTask(k, i)) EXCEPT !.armed = TRUE]
<1>1. Shaped(k) /\ k.tasks # <<>> /\ i \in 1..Len(k.tasks)
  BY DEF Sane, Shaped
<1>2. k.open
  BY <1>1 DEF Sane, Closed, Context
<1>3. k.tasks # <<[keep |-> FALSE]>>
  <2> SUFFICES ASSUME k.tasks = <<[keep |-> FALSE]>> PROVE FALSE
    OBVIOUS
  <2>1. i = 1 /\ k.tasks[1].keep = FALSE
    BY <1>1
  <2> QED
    BY <2>1
<1>4. /\ Open(c, k) /\ Buffered(k)
      /\ settings.pooled => k.pooled
      /\ k.pooled => settings.pooled /\ k.block # NoBlock
  BY <1>1, <1>2, <1>3 DEF Sane, Doomed
<1>5. /\ k.stream \in Streams[c] /\ k.pos \in 0..Len(All(k.stream)) /\ Honest(k)
      /\ settings.capacity \in Nat /\ k.pos \in Nat
  <2>1. k.stream \in Streams[c] /\ k.pos \in 0..Len(All(k.stream)) /\ Honest(k)
    BY <1>4 DEF Open
  <2>2. settings.capacity \in Nat
    BY RequestPathAssumption
  <2>3. Len(All(k.stream)) \in Nat
    BY <2>1, Marks
  <2> QED
    BY <2>1, <2>2, <2>3
<1>6. rest \in Seq([keep : BOOLEAN])
  <2> DEFINE T == [keep : BOOLEAN]
  <2>1. k.tasks \in Seq(T) /\ Len(k.tasks) \in Nat /\ i \in Nat /\ i >= 1 /\ i <= Len(k.tasks)
    BY <1>1 DEF Shaped
  <2> HIDE DEF T
  <2>2. SubSeq(k.tasks, 1, i - 1) \in Seq(T) /\ SubSeq(k.tasks, i + 1, Len(k.tasks)) \in Seq(T)
    BY <2>1
  <2>3. rest \in Seq(T)
    BY <2>2, ConcatProperties
  <2> QED
    BY <2>3 DEF T
<1> HIDE DEF rest
<1>7. /\ DOMAIN l = Fields /\ l.tasks = rest /\ l.armed = TRUE
      /\ l.truncated = FALSE /\ l.allocationFailed = FALSE /\ l.requestTooLarge = FALSE
      /\ l.open = k.open /\ l.stream = k.stream /\ l.pos = k.pos
      /\ l.buffer = k.buffer /\ l.readPos = k.readPos
      /\ l.pooled = k.pooled /\ l.block = k.block /\ l.taken = k.taken /\ l.refused = k.refused
  <2> DEFINE m == WithoutTask(k, i)
             n == ResetForNextRequest(m)
  <2>1. m = [k EXCEPT !.tasks = rest]
    BY DEF WithoutTask, rest
  <2>2. DOMAIN m = Fields /\ m.tasks = rest /\ \A f \in Fields \ {"tasks"} : m[f] = k[f]
    BY <1>1, <2>1 DEF Shaped, Fields
  <2> HIDE DEF m
  <2>3. /\ DOMAIN n = Fields
        /\ n.truncated = FALSE /\ n.allocationFailed = FALSE /\ n.requestTooLarge = FALSE
        /\ \A f \in Fields \ {"truncated", "allocationFailed", "requestTooLarge"} : n[f] = m[f]
    BY <2>2 DEF ResetForNextRequest, Fields
  <2>4. l = [n EXCEPT !.armed = TRUE]
    BY DEF m
  <2> HIDE DEF n, l
  <2>5. DOMAIN l = Fields /\ l.armed = TRUE /\ \A f \in Fields \ {"armed"} : l[f] = n[f]
    BY <2>3, <2>4 DEF Fields
  <2> QED
    BY <2>2, <2>3, <2>5 DEF Fields
<1> HIDE DEF l
<1>8. Shaped(l)
  BY <1>1, <1>6, <1>7 DEF Shaped
<1>9. Start(l) = Start(k) /\ PeekData(l) = PeekData(k)
  BY <1>7 DEF Start, PeekData
<1>10. Buffered(l)
  BY <1>4, <1>7, <1>9 DEF Buffered
<1>11. Honest(l)
  BY <1>5, <1>7, StillHonest
<1>12. Open(c, l)
  BY <1>2, <1>5, <1>7, <1>11 DEF Open
<1>13. Ready(c, l) /\ ~l.requestTooLarge
  BY <1>4, <1>7, <1>8, <1>10, <1>12 DEF Ready
<1>14. CASE PeekData(l) = <<>>
  <2>1. l.pos = Start(l)
    <3>1. Start(l) \in Nat /\ Len(PeekData(l)) = l.pos - Start(l)
      BY <1>13, ParseAt
    <3>2. Len(PeekData(l)) = 0
      BY <1>14
    <3> QED
      BY <1>5, <1>7, <3>1, <3>2
  <2>2. Sane(c, l)
    <3>1. /\ l.open /\ l.armed /\ ~l.requestTooLarge
          /\ settings.pooled => l.pooled
          /\ l.pooled => settings.pooled /\ l.block # NoBlock
      BY <1>2, <1>4, <1>7
    <3> QED
      BY <1>8, <1>10, <1>12, <2>1, <3>1 DEF Sane
  <2> QED
    BY <1>14, <2>2 DEF l
<1>15. CASE PeekData(l) # <<>>
  BY <1>5, <1>13, <1>15, DispatchSane DEF l
<1> QED
  BY <1>14, <1>15

LEMMA ContextSane ==
  ASSUME NEW c \in Conn, NEW stream \in Streams[c]
  PROVE  Sane(c, Context(stream))
<1> DEFINE k == Context(stream)
<1>1. /\ DOMAIN k = Fields /\ k.open = TRUE /\ k.stream = stream /\ k.pos = 0 /\ k.armed = TRUE
      /\ k.buffer = <<>> /\ k.readPos = 0 /\ k.pooled = FALSE /\ k.block = NoBlock
      /\ k.truncated = FALSE /\ k.allocationFailed = FALSE /\ k.requestTooLarge = FALSE
      /\ k.tasks = <<>> /\ k.taken = <<>> /\ k.refused = {}
  BY DEF Context, Fields
<1> HIDE DEF k
<1>2. Shaped(k)
  BY <1>1 DEF Shaped
<1>3. Len(stream) \in Nat /\ Len(All(stream)) \in Nat /\ At(stream, 0) = 0
  BY Marks
<1>4. Start(k) = 0
  <2>1. Len(k.taken) = 0
    BY <1>1
  <2> QED
    BY <1>1, <1>3, <2>1 DEF Start, At
<1>5. Buffered(k)
  <2>1. PeekData(k) = <<>>
    BY <1>1, SubSeqEmpty DEF PeekData
  <2>2. SubSeq(All(k.stream), Start(k) + 1, k.pos) = <<>>
    BY <1>1, <1>4, SubSeqEmpty
  <2> QED
    BY <1>1, <1>4, <2>1, <2>2 DEF Buffered
<1>6. Honest(k)
  <2>1. k.taken \in Seq(Served(k.stream)) /\ Len(k.taken) = 0
    BY <1>1
  <2> QED
    BY <1>1, <1>3, <2>1 DEF Honest
<1>7. Open(c, k)
  BY <1>1, <1>3, <1>6 DEF Open
<1> QED
  BY <1>1, <1>2, <1>4, <1>5, <1>7 DEF Sane, k

LEMMA ClosedIs ==
  /\ \A c \in Conn : Sane(c, Closed)
  /\ ~Closed.open /\ Closed.taken = <<>> /\ Closed.refused = {}
<1>1. /\ DOMAIN Closed = Fields /\ Closed.open = FALSE /\ Closed.buffer = <<>> /\ Closed.readPos = 0
      /\ Closed.tasks = <<>> /\ Closed.taken = <<>> /\ Closed.refused = {}
  BY DEF Closed, Context, Fields
<1>2. Shaped(Closed)
  BY <1>1 DEF Shaped
<1> QED
  BY <1>1, <1>2 DEF Sane

-----------------------------------------------------------------------------
(* The invariant of the bytes, and what it says. *)

BytesInv ==
  /\ settings \in Settings
  /\ conn = [c \in Conn |-> conn[c]]
  /\ \A c \in Conn : Sane(c, conn[c])

LEMMA OneSane ==
  ASSUME BytesInv, UNCHANGED settings, NEW c \in Conn, NEW k, Sane(c, k),
         conn' = [conn EXCEPT ![c] = k]
  PROVE  BytesInv'
<1>1. /\ \A d \in Conn : conn'[d] = IF d = c THEN k ELSE conn[d]
      /\ conn' = [d \in Conn |-> conn'[d]]
  BY DEF BytesInv
<1>2. ASSUME NEW d \in Conn PROVE Sane(d, conn[d])'
  <2>1. PICK l : l = conn'[d] /\ Sane(d, l)
    BY <1>1 DEF BytesInv
  <2> QED
    BY <2>1 DEF Sane, Open, Honest, Deserved
<1> QED
  BY <1>1, <1>2 DEF BytesInv

LEMMA NextSane ==
  ASSUME ParsesRight, Roomy, BytesInv, [Next]_vars
  PROVE  BytesInv'
<1>1. CASE UNCHANGED vars
  <2>1. settings' = settings /\ conn' = conn
    BY <1>1 DEF vars
  <2> QED
    BY <2>1 DEF BytesInv, Sane, Open, Honest, Deserved
<1>2. ASSUME NEW c \in Conn, Accept(c) PROVE BytesInv'
  <2>1. PICK stream \in Streams[c] : conn' = [conn EXCEPT ![c] = Context(stream)]
    BY <1>2 DEF Accept
  <2>2. UNCHANGED settings
    BY <1>2 DEF Accept
  <2> QED
    BY <2>1, <2>2, ContextSane, OneSane
<1>3. ASSUME NEW c \in Conn, ReadPooled(c) PROVE BytesInv'
  <2> DEFINE k == conn[c]
             data(pos) == SubSeq(Bytes(k.stream, Len(k.stream)), k.pos + 1, pos)
             ctx(pos) == [k EXCEPT !.armed = FALSE, !.pos = pos, !.pooled = TRUE,
                                   !.block = IF k.pooled THEN @ ELSE Allocated]
             m(pos) == AfterRead(AppendPooled(ctx(pos), data(pos)))
  <2>1. PICK pos \in Written(k) : conn' = [conn EXCEPT ![c] = m(pos)]
    BY <1>3, Zenon DEF ReadPooled
  <2>2. k.open /\ k.armed /\ settings.pooled /\ UNCHANGED settings
    BY <1>3 DEF ReadPooled
  <2>3. Sane(c, k) /\ settings \in Settings
    BY DEF BytesInv
  <2>4. Sane(c, m(pos))
    BY <2>2, <2>3, ReadPooledSane
  <2> HIDE DEF m
  <2> QED
    BY <2>1, <2>2, <2>4, OneSane
<1>4. ASSUME NEW c \in Conn, ReadString(c) PROVE BytesInv'
  <2> DEFINE k == conn[c]
             data(pos) == SubSeq(Bytes(k.stream, Len(k.stream)), k.pos + 1, pos)
             m(pos) == AfterRead(AppendString([k EXCEPT !.armed = FALSE, !.pos = pos], data(pos)))
  <2>1. PICK pos \in Written(k) : conn' = [conn EXCEPT ![c] = m(pos)]
    BY <1>4, Zenon DEF ReadString
  <2>2. k.open /\ k.armed /\ ~settings.pooled /\ UNCHANGED settings
    BY <1>4 DEF ReadString
  <2>3. Sane(c, k) /\ settings \in Settings
    BY DEF BytesInv
  <2>4. Sane(c, m(pos))
    BY <2>2, <2>3, ReadStringSane
  <2> HIDE DEF m
  <2> QED
    BY <2>1, <2>2, <2>4, OneSane
<1>5. ASSUME NEW c \in Conn, HangUp(c) \/ RespondAndClose(c) PROVE BytesInv'
  <2>1. conn' = [conn EXCEPT ![c] = Closed] /\ UNCHANGED settings
    BY <1>5 DEF HangUp, RespondAndClose, Close
  <2> QED
    BY <2>1, ClosedIs, OneSane
<1>6. ASSUME NEW c \in Conn, Respond(c) PROVE BytesInv'
  <2> DEFINE l(i) == [ResetForNextRequest(WithoutTask(conn[c], i)) EXCEPT !.armed = TRUE]
             m(i) == IF PeekData(l(i)) = <<>> THEN l(i) ELSE Dispatch(l(i))
  <2>1. PICK i \in DOMAIN conn[c].tasks :
          conn[c].tasks[i].keep /\ conn' = [conn EXCEPT ![c] = m(i)]
    BY <1>6 DEF Respond
  <2>2. UNCHANGED settings
    BY <1>6 DEF Respond
  <2>3. Sane(c, conn[c]) /\ settings \in Settings
    BY DEF BytesInv
  <2>4. Sane(c, m(i))
    BY <2>1, <2>3, RespondSane
  <2> HIDE DEF m
  <2> QED
    BY <2>1, <2>2, <2>4, OneSane
<1> QED
  BY <1>1, <1>2, <1>3, <1>4, <1>5, <1>6 DEF Next

\* Whatever the chunks in which the bytes arrive, the buffer of an open connection always
\* begins where the next request of its stream begins, what was taken from it is what the
\* client sent, and a refused connection met a request that deserved it: the invariant
\* that handleRead, PooledBuffer::consume and HttpContext::parseRequest keep together.
THEOREM BytesInvariance == ParsesRight /\ Roomy => (Spec => []BytesInv)
<1> SUFFICES ASSUME ParsesRight, Roomy PROVE Spec => []BytesInv
  OBVIOUS
<1>1. Init => BytesInv
  BY ClosedIs DEF Init, BytesInv
<1>2. BytesInv /\ [Next]_vars => BytesInv'
  BY NextSane
<1> QED
  BY <1>1, <1>2, PTL DEF Spec

\* Framed of a sane connection.
LEMMA SaneFramed == BytesInv => Framed
<1> SUFFICES ASSUME BytesInv, NEW c \in Conn, NEW i \in DOMAIN conn[c].taken
             PROVE  /\ i <= Len(conn[c].stream)
                    /\ conn[c].stream[i].fault = "none"
                    /\ conn[c].taken[i] = [line |-> conn[c].stream[i].line,
                                           content |-> conn[c].stream[i].content]
  BY DEF Framed
<1> DEFINE k == conn[c]
<1>1. Sane(c, k)
  BY DEF BytesInv
<1>2. k.open
  <2>1. \A j : j \notin DOMAIN Closed.taken
    BY ClosedIs
  <2> QED
    BY <1>1, <2>1 DEF Sane
<1>3. k.stream \in Streams[c] /\ Honest(k)
  BY <1>1, <1>2 DEF Sane, Open
<1>4. k.taken \in Seq(Served(k.stream)) /\ Len(k.taken) <= Len(k.stream) /\ Len(k.stream) \in Nat
  BY <1>3, Marks DEF Honest
<1>5. i \in 1..Len(k.taken) /\ i <= Len(k.stream)
  BY <1>4
<1> QED
  BY <1>3, <1>5 DEF Honest

\* A connection without a task is not doomed: its buffer is what has come.
LEMMA SaneAwaits == BytesInv => AwaitsRest
<1> SUFFICES ASSUME BytesInv, NEW c \in Conn, conn[c].open, conn[c].tasks = <<>>
             PROVE  /\ conn[c].armed
                    /\ PeekData(conn[c]) = SubSeq(Sent(conn[c]), Start(conn[c]) + 1, conn[c].pos)
                    /\ conn[c].pos < End(conn[c]) \/ conn[c].pos = Start(conn[c])
  BY DEF AwaitsRest
<1> DEFINE k == conn[c]
           all == All(k.stream)
           start == Start(k)
<1>1. Sane(c, k)
  BY DEF BytesInv
<1>2. k.armed /\ (k.pos < End(k) \/ k.pos = Start(k)) /\ Open(c, k) /\ Buffered(k)
  BY <1>1 DEF Sane, Doomed
<1>3. /\ k.stream \in Streams[c] /\ k.pos \in 0..Len(all) /\ Honest(k)
      /\ start <= k.pos /\ PeekData(k) = SubSeq(all, start + 1, k.pos)
  BY <1>2 DEF Open, Buffered
<1>4. all \in Seq(STRING) /\ Len(all) \in Nat /\ start \in Nat
  <2>1. all \in Seq(STRING) /\ Len(all) \in Nat /\ \A m \in 0..Len(k.stream) : At(k.stream, m) \in Nat
    BY <1>3, Marks
  <2>2. Len(k.taken) \in 0..Len(k.stream)
    BY <1>3, EndIs
  <2> QED
    BY <2>1, <2>2 DEF Start, At
<1>5. Sent(k) = SubSeq(all, 0 + 1, k.pos)
  BY DEF Sent, All
<1> DEFINE p == k.pos
<1>6. p \in Nat /\ p <= Len(all) /\ start <= p /\ 0 \in Nat /\ p <= p - 0
  BY <1>3, <1>4
<1> HIDE DEF all, start, p
<1>7. SubSeq(SubSeq(all, 0 + 1, p), start + 1, p) = SubSeq(all, (0 + start) + 1, 0 + p)
  BY <1>4, <1>6, PieceOfPiece
<1>8. 0 + start = start /\ 0 + p = p
  BY <1>4, <1>6
<1>9. SubSeq(Sent(k), start + 1, p) = SubSeq(all, start + 1, p)
  BY <1>5, <1>7, <1>8 DEF p
<1> QED
  BY <1>2, <1>3, <1>9 DEF start, p

LEMMA SaneRefusals == BytesInv => RefusalTrue
<1> SUFFICES ASSUME BytesInv, NEW c \in Conn, NEW refusal \in conn[c].refused
             PROVE  Deserved(conn[c], refusal)
  BY DEF RefusalTrue
<1>1. Sane(c, conn[c])
  BY DEF BytesInv
<1>2. conn[c].open
  BY <1>1, ClosedIs DEF Sane
<1> QED
  BY <1>1, <1>2 DEF Sane, Open, Honest

\* However the bytes are cut into segments and whatever is pipelined behind them, the
\* requests that reach the handlers are the first ones the peer sent, each once and with
\* its own body: the context's buffer, dispatchBufferedRequests and consumeData keep the
\* beginning of a buffer at the beginning of a request, for any peers whose requests the
\* parser reads right one at a time, where a block holds what may come before an answer.
THEOREM RequestsFramed == ParsesRight /\ Roomy => (Spec => []Framed)
BY BytesInvariance, SaneFramed, PTL

\* Under the same conditions a connection that waits for input has exactly the beginning of
\* the next request in its buffer: handleRead never holds a complete one back, and no byte
\* is lost between readPos_ and the socket.
THEOREM WaitsForTheRest == ParsesRight /\ Roomy => (Spec => []AwaitsRest)
BY BytesInvariance, SaneAwaits, PTL

\* And an error response names a defect that the peer's next request has: the limits of
\* handleRead and dispatchBufferedRequests count the bytes of that request and of what
\* follows it, never those of the requests before.
THEOREM RefusalsDeserved == ParsesRight /\ Roomy => (Spec => []RefusalTrue)
BY BytesInvariance, SaneRefusals, PTL
=============================================================================
