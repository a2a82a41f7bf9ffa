------------------------- MODULE BakePipeline_proofs -------------------------
(***************************************************************************)
(* Theorems about BakePipeline: for any prompts, batch and chunk sizes,    *)
(* number of attempts, windows and checkpoints; and about the tokens of    *)
(* what it generates, ForcedStream, at the end.                            *)
(***************************************************************************)
EXTENDS BakePipeline, ForcedStream, SequenceFilter_proofs, FiniteSetTheorems

-----------------------------------------------------------------------------
(***************************************************************************)
(* The chunks of a batch.                                                  *)
(***************************************************************************)
\* How many chunks of b a batch of l has, and where each of them begins.
LEMMA ChunkBounds ==
  ASSUME NEW l \in Nat \ {0}, NEW b \in Nat \ {0}
  PROVE  LET n == (l + b - 1) \div b
         IN  /\ n \in Nat \ {0}
             /\ \A c \in 1..n : (c - 1) * b \in Nat /\ (c - 1) * b + 1 <= l /\ (c - 1) * b + 1 <= c * b
<1> DEFINE n == (l + b - 1) \div b
<1>1. l + b - 1 \in Nat
  OBVIOUS
<1>2. n \in Nat /\ n * b <= l + b - 1 /\ l + b - 1 < (n + 1) * b
  BY <1>1
<1> HIDE DEF n
<1>3. n # 0
  BY <1>2
<1>4. ASSUME NEW c \in 1..n
      PROVE  (c - 1) * b \in Nat /\ (c - 1) * b + 1 <= l /\ (c - 1) * b + 1 <= c * b
  <2>1. c - 1 \in Nat /\ c - 1 <= n - 1 /\ n - 1 \in Nat
    BY <1>2, <1>4
  <2>2. (c - 1) * b \in Nat /\ (c - 1) * b <= (n - 1) * b
    BY <2>1
  <2>3. (n - 1) * b = n * b - b /\ (c - 1) * b = c * b - b
    BY <1>2, <2>1
  <2> QED
    BY <1>2, <2>1, <2>2, <2>3
<1> QED
  BY <1>2, <1>3, <1>4 DEF n

\* A batch that is not empty is cut into chunks that are not.
LEMMA ChunksType ==
  ASSUME NEW prompts \in Seq(Prompts), prompts # <<>>
  PROVE  ChunksOf(prompts) \in Seq(Seq(Prompts) \ {<<>>}) /\ ChunksOf(prompts) # <<>>
<1> DEFINE l == Len(prompts)
           b == BAKE_CHUNK
           n == (l + b - 1) \div b
           Chunk(c) == SubSeq(prompts, (c - 1) * b + 1, Min({c * b, l}))
<1>1. l \in Nat \ {0} /\ b \in Nat \ {0}
  BY EmptySeq, BakeAssumption
<1>2. /\ n \in Nat \ {0}
      /\ \A c \in 1..n : (c - 1) * b \in Nat /\ (c - 1) * b + 1 <= l /\ (c - 1) * b + 1 <= c * b
  BY <1>1, ChunkBounds
<1>3. \A i \in 1..l : prompts[i] \in Prompts
  BY ElementOfSeq
<1> HIDE DEF n, l, b
<1>4. ASSUME NEW c \in 1..n PROVE Chunk(c) \in Seq(Prompts) \ {<<>>}
  <2> DEFINE lo == (c - 1) * b + 1
             hi == Min({c * b, l})
  <2>1. lo \in Nat /\ 1 <= lo /\ lo <= l /\ lo <= c * b /\ c * b \in Nat
    BY <1>1, <1>2, <1>4
  <2>2. hi \in {c * b, l} /\ hi <= l
    BY <1>1, <2>1, MinOfTwo
  <2> HIDE DEF lo, hi
  <2>3. hi \in Int /\ lo \in Int /\ lo <= hi
    BY <1>1, <2>1, <2>2
  <2>4. \A i \in lo..hi : prompts[i] \in Prompts
    BY <1>1, <1>3, <2>1, <2>2, <2>3
  <2>5. SubSeq(prompts, lo, hi) \in Seq(Prompts) /\ Len(SubSeq(prompts, lo, hi)) = hi - lo + 1
    BY <2>3, <2>4, SubSeqProperties
  <2>6. Len(<<>>) = 0
    BY EmptySeq
  <2>7. SubSeq(prompts, lo, hi) # <<>>
    BY <2>3, <2>5, <2>6
  <2> QED
    BY <2>5, <2>7 DEF lo, hi
<1>5. [c \in 1..n |-> Chunk(c)] \in [1..n -> Seq(Prompts) \ {<<>>}]
  BY <1>4
<1>6. /\ [c \in 1..n |-> Chunk(c)] \in Seq(Seq(Prompts) \ {<<>>})
      /\ Len([c \in 1..n |-> Chunk(c)]) = n
  BY <1>2, <1>5, FunctionIsSeq
<1>7. ChunksOf(prompts) = [c \in 1..n |-> Chunk(c)]
  BY DEF ChunksOf, n, l, b
<1>8. Len(<<>>) = 0
  BY EmptySeq
<1> QED
  BY <1>2, <1>6, <1>7, <1>8

-----------------------------------------------------------------------------
(***************************************************************************)
(* The stream of an entry.  The thread that grades works for one prompt,   *)
(* and has completions only when it is past its generation or has taken    *)
(* what was prefetched; they are of the stream that it has read.           *)
(***************************************************************************)
StreamInv ==
  /\ OneStreamPerEntry
  /\ \A p, q \in thread["grade"].prompts : p = q
  /\ \A c \in thread["grade"].result :
       /\ thread["grade"].at \in {"prove", "done"}
       /\ c.prompt \in thread["grade"].prompts
       /\ c.randomness = thread["grade"].randomness
       /\ c.hash = thread["grade"].hash

\* The entry that is appended is of one stream.
LEMMA EntryParts ==
  ASSUME TypeOK, StreamInv, thread["grade"].result # {}
  PROVE  /\ Entry("grade") \in PoolEntries
         /\ Entry("grade").completions.prompt = Entry("grade").prompt
         /\ Entry("grade").completions.randomness = Entry("grade").randomness
         /\ Entry("grade").completions.hash = Entry("grade").hash
<1> DEFINE grade == thread["grade"]
           c == CHOOSE x \in grade.result : TRUE
           p == CHOOSE x \in grade.prompts : TRUE
<1>1. grade \in ThreadStates /\ bake.checkpoint_n \in Checkpoints
  BY DEF TypeOK, Threads, Bakes
<1>2. c \in grade.result
  OBVIOUS
<1>3. c \in Completions /\ c.prompt \in grade.prompts
  BY <1>1, <1>2 DEF ThreadStates, StreamInv
<1>4. p \in grade.prompts
  BY <1>3
<1>5. c.prompt = p
  BY <1>3, <1>4 DEF StreamInv
<1>6. c.randomness = grade.randomness /\ c.hash = grade.hash
  BY <1>2 DEF StreamInv
<1>7. Entry("grade") = [prompt |-> p, randomness |-> grade.randomness, hash |-> grade.hash,
                        checkpoint_n |-> bake.checkpoint_n, completions |-> c]
  BY DEF Entry
<1>8. p \in Prompts /\ grade.randomness \in Randomnesses /\ grade.hash \in Checkpoints
  BY <1>1, <1>4 DEF ThreadStates
<1> HIDE DEF c, p, grade
<1> QED
  BY <1>1, <1>3, <1>5, <1>6, <1>7, <1>8 DEF PoolEntries

\* The numbers that stand for "none" are of their types.
LEMMA NoneTypes ==
  /\ NoEngine \in Checkpoints /\ NoRandomness \in Randomnesses
  /\ 0..MaxCheckpoint \subseteq Checkpoints
  /\ NoThread \in ThreadStates
  /\ \A prompts \in SUBSET Prompts : Started(prompts) \in ThreadStates
<1>1. MaxCheckpoint \in Nat /\ MaxRandomness \in Nat
  BY BakeAssumption
<1>2. /\ -1 \in Checkpoints /\ NoEngine \in Checkpoints /\ NoRandomness \in Randomnesses
      /\ 0..MaxCheckpoint \subseteq Checkpoints
  BY <1>1 DEF Checkpoints, Randomnesses, NoEngine, NoRandomness
<1>3. NoThread \in ThreadStates
  BY <1>2 DEF NoThread, ThreadStates
<1>4. \A prompts \in SUBSET Prompts : Started(prompts) \in ThreadStates
  BY <1>3 DEF Started, ThreadStates
<1> QED
  BY <1>2, <1>3, <1>4

\* A chunk as a set of prompts.
LEMMA ToSetType ==
  ASSUME NEW s \in Seq(Prompts)
  PROVE  ToSet(s) \subseteq Prompts
BY LenProperties, ElementOfSeq DEF ToSet

-----------------------------------------------------------------------------
(***************************************************************************)
(* What the step of a thread does to its own state and to the cache.       *)
(***************************************************************************)
LEMMA ThreadParts ==
  ASSUME TypeOK, NEW t \in Threads, ThreadStep(t)
  PROVE  \E fields \in ThreadStates :
           /\ thread' = [thread EXCEPT ![t] = fields]
           /\ cache' \subseteq Completions
           /\ llm' \in Checkpoints /\ lock' \in Threads \cup {Free}
           /\ UNCHANGED <<randomness, local_n, pool, bake, model_path, reloading>>
           /\ fields.prompts \subseteq thread[t].prompts
           /\ \/ fields.result = {}
              \/ /\ thread[t].at = "prove" /\ fields.at = "done"
                 /\ fields = [thread[t] EXCEPT !.at = "done"]
              \/ /\ fields.at = "prove"
                 /\ \A c \in fields.result :
                      /\ c.prompt \in fields.prompts
                      /\ c.randomness = fields.randomness /\ c.hash = fields.hash
              \/ /\ fields.result = thread[t].result
                 /\ thread[t].at \notin {"prove", "done"}
<1> USE DEF Put
<1>1. thread \in [Threads -> ThreadStates] /\ thread[t] \in ThreadStates
  BY DEF TypeOK
<1>2. /\ cache \subseteq Completions /\ llm \in Checkpoints /\ model_path \in Checkpoints
      /\ lock \in Threads \cup {Free} /\ randomness \in Randomnesses
      /\ local_n \in Checkpoints
  BY NoneTypes DEF TypeOK
<1>3. UNCHANGED <<randomness, local_n, pool, bake, model_path, reloading>>
  BY DEF ThreadStep
<1>4. /\ [NoThread EXCEPT !.at = "done"] \in ThreadStates
      /\ [NoThread EXCEPT !.at = "done"].result = {}
      /\ [NoThread EXCEPT !.at = "done"].prompts = {}
  BY NoneTypes DEF ThreadStates, NoThread
<1>5. Output(t) \subseteq Completions
  BY <1>1 DEF Output, Completions, ThreadStates
<1>6. CASE Raise(t) /\ llm' \in Checkpoints /\ lock' \in Threads \cup {Free}
  BY <1>2, <1>3, <1>4, <1>6 DEF Raise
<1>7. CASE EnsureLoaded(t)
  <2>1. PICK fields : fields = IF llm # NoEngine THEN [thread[t] EXCEPT !.at = "call"]
            ELSE [thread[t] EXCEPT !.at = "build", !.model = model_path, !.attempt = 1]
    OBVIOUS
  <2>2. /\ fields \in ThreadStates /\ fields.prompts = thread[t].prompts
        /\ fields.result = thread[t].result
    BY <1>1, <1>2, <2>1 DEF ThreadStates
  <2> QED
    BY <1>2, <1>3, <1>7, <2>1, <2>2 DEF EnsureLoaded
<1>8. CASE Build(t)
  <2>1. PICK fields : fields = [thread[t] EXCEPT !.at = "call"]
    OBVIOUS
  <2>2. /\ fields \in ThreadStates /\ fields.prompts = thread[t].prompts
        /\ fields.result = thread[t].result /\ thread[t].model \in Checkpoints
    BY <1>1, <2>1 DEF ThreadStates
  <2> QED
    BY <1>2, <1>3, <1>8, <2>1, <2>2 DEF Build
<1>9. CASE BuildFails(t) /\ ~ Raise(t)
  <2>1. PICK fields : fields = [thread[t] EXCEPT !.model = model_path, !.attempt = thread[t].attempt + 1]
    OBVIOUS
  <2>2. /\ fields \in ThreadStates /\ fields.prompts = thread[t].prompts
        /\ fields.result = thread[t].result
    <3>1. thread[t].attempt + 1 \in Nat
      BY <1>1 DEF ThreadStates
    <3> QED
      BY <1>1, <1>2, <2>1, <3>1 DEF ThreadStates
  <2> QED
    BY <1>2, <1>3, <1>9, <2>1, <2>2 DEF BuildFails, RetryBuild
<1>10. CASE Call(t) /\ llm # NoEngine
  <2>1. PICK fields : fields = [thread[t] EXCEPT !.at = "generate", !.model = llm]
    OBVIOUS
  <2>2. /\ fields \in ThreadStates /\ fields.prompts = thread[t].prompts
        /\ fields.result = thread[t].result
    BY <1>1, <1>2, <2>1 DEF ThreadStates
  <2> QED
    BY <1>2, <1>3, <1>10, <2>1, <2>2 DEF Call
<1>11. CASE Generated(t) /\ ~ Raise(t)
  <2>1. CASE t = "prefetch"
    BY <1>2, <1>3, <1>4, <1>5, <1>11, <2>1 DEF Generated
  <2>2. CASE t # "prefetch"
    <3>1. PICK fields : fields = [thread[t] EXCEPT !.at = "prove", !.result = Output(t)]
      OBVIOUS
    <3>2. /\ fields \in ThreadStates /\ fields.prompts = thread[t].prompts
          /\ fields.at = "prove" /\ fields.result = Output(t)
          /\ fields.randomness = thread[t].randomness /\ fields.hash = thread[t].hash
      BY <1>1, <1>5, <3>1 DEF ThreadStates
    <3>3. \A c \in fields.result :
            /\ c.prompt \in fields.prompts
            /\ c.randomness = fields.randomness /\ c.hash = fields.hash
      BY <3>2 DEF Output
    <3> QED
      BY <1>2, <1>3, <1>11, <2>2, <3>1, <3>2, <3>3 DEF Generated
  <2> QED
    BY <2>1, <2>2
<1>12. CASE StartThread(t)
  <2>1. PICK fields : fields = [thread[t] EXCEPT !.at = IF t = "prefetch" THEN "hash" ELSE "take",
                              !.randomness = randomness]
    OBVIOUS
  <2>2. /\ fields \in ThreadStates /\ fields.prompts = thread[t].prompts
        /\ fields.result = thread[t].result
    BY <1>1, <1>2, <2>1 DEF ThreadStates
  <2> QED
    BY <1>2, <1>3, <1>12, <2>1, <2>2 DEF StartThread
<1>13. CASE ReadHash(t)
  <2>1. PICK fields : fields = [thread[t] EXCEPT !.at = "ensure", !.hash = local_n]
    OBVIOUS
  <2>2. /\ fields \in ThreadStates /\ fields.prompts = thread[t].prompts
        /\ fields.result = thread[t].result
    BY <1>1, <1>2, <2>1 DEF ThreadStates
  <2> QED
    BY <1>2, <1>3, <1>13, <2>1, <2>2 DEF ReadHash
<1>14. CASE Take(t)
  <2>1. CASE Put(t, [thread[t] EXCEPT !.at = "ensure", !.hash = local_n]) /\ UNCHANGED cache
    <3>1. PICK fields : fields = [thread[t] EXCEPT !.at = "ensure", !.hash = local_n]
      OBVIOUS
    <3>2. /\ fields \in ThreadStates /\ fields.prompts = thread[t].prompts
          /\ fields.result = thread[t].result
      BY <1>1, <1>2, <3>1 DEF ThreadStates
    <3> QED
      BY <1>2, <1>3, <1>14, <2>1, <3>1, <3>2 DEF Take
  <2>2. ASSUME NEW c \in Prefetched(t), cache' = cache \ Prefetched(t),
               Put(t, [thread[t] EXCEPT !.at = "prove", !.hash = local_n, !.result = {c}])
        PROVE  \E fields \in ThreadStates :
                 /\ thread' = [thread EXCEPT ![t] = fields]
                 /\ cache' \subseteq Completions
                 /\ fields.prompts \subseteq thread[t].prompts
                 /\ fields.at = "prove"
                 /\ \A d \in fields.result :
                      /\ d.prompt \in fields.prompts
                      /\ d.randomness = fields.randomness /\ d.hash = fields.hash
    <3>1. PICK fields : fields = [thread[t] EXCEPT !.at = "prove", !.hash = local_n, !.result = {c}]
      OBVIOUS
    <3>2. /\ c \in Completions /\ c.prompt \in thread[t].prompts
          /\ c.randomness = thread[t].randomness /\ c.hash = local_n
      BY <1>2, <2>2 DEF Prefetched
    <3>3. /\ fields \in ThreadStates /\ fields.prompts = thread[t].prompts
          /\ fields.at = "prove" /\ fields.result = {c}
          /\ fields.randomness = thread[t].randomness /\ fields.hash = local_n
      BY <1>1, <1>2, <3>1, <3>2 DEF ThreadStates
    <3> QED
      BY <1>2, <2>2, <3>1, <3>2, <3>3
  <2>3. \/ Put(t, [thread[t] EXCEPT !.at = "ensure", !.hash = local_n]) /\ UNCHANGED cache
        \/ \E c \in Prefetched(t) :
             /\ Put(t, [thread[t] EXCEPT !.at = "prove", !.hash = local_n, !.result = {c}])
             /\ cache' = cache \ Prefetched(t)
    <3>1. PICK c \in Prefetched(t) \cup {[model |-> NoEngine]} :
            IF c.model = NoEngine
            THEN /\ Prefetched(t) = {}
                 /\ Put(t, [thread[t] EXCEPT !.at = "ensure", !.hash = local_n])
                 /\ UNCHANGED cache
            ELSE /\ Put(t, [thread[t] EXCEPT !.at = "prove", !.hash = local_n, !.result = {c}])
                 /\ cache' = cache \ Prefetched(t)
      BY <1>14 DEF Take
    <3>2. CASE c.model = NoEngine
      BY <3>1, <3>2
    <3>3. CASE c.model # NoEngine
      <4>1. c \in Prefetched(t)
        BY <3>3
      <4> QED
        BY <3>1, <3>3, <4>1
    <3> QED
      BY <3>2, <3>3
  <2>4. UNCHANGED <<llm, lock>>
    BY <1>14 DEF Take
  <2> QED
    BY <1>2, <1>3, <2>1, <2>2, <2>3, <2>4
<1>15. CASE Prove(t)
  <2>1. [thread[t] EXCEPT !.at = "done"] \in ThreadStates
    BY <1>1 DEF ThreadStates
  <2> QED
    BY <1>1, <1>2, <1>3, <1>4, <1>15, <2>1 DEF Prove, ThreadStates
<1>16. llm' \in Checkpoints /\ lock' \in Threads \cup {Free}
  BY <1>1, <1>2 DEF ThreadStep, EnsureLoaded, Build, BuildFails, Call, Generated, StartThread,
     ReadHash, Take, Prove, ThreadStates
<1> QED
  BY <1>6, <1>7, <1>8, <1>9, <1>10, <1>11, <1>12, <1>13, <1>14, <1>15, <1>16
     DEF ThreadStep, Call

-----------------------------------------------------------------------------
LEMMA InvInit == Init => TypeOK /\ StreamInv
<1> SUFFICES ASSUME Init PROVE TypeOK /\ StreamInv
  OBVIOUS
<1>1. <<>> \in Seq(Seq(Prompts) \ {<<>>})
  BY EmptySeq
<1>2. MaxCheckpoint \in Nat /\ MaxRandomness \in Nat \ {0}
  BY BakeAssumption
<1>3. bake \in Bakes /\ bake.at = "idle"
  BY <1>1, NoneTypes DEF Init, Idle, Bakes, NoEngine
<1>4. thread \in [Threads -> ThreadStates]
  BY NoneTypes DEF Init
<1>5. local_n \in 0..MaxCheckpoint /\ randomness \in Randomnesses
  BY <1>2 DEF Init, Randomnesses, NoRandomness
<1>6. llm \in Checkpoints /\ model_path \in Checkpoints
  BY <1>2, NoneTypes DEF Init, Checkpoints
<1>7. TypeOK
  BY <1>3, <1>4, <1>5, <1>6 DEF Init, TypeOK
<1>8. StreamInv
  BY DEF Init, StreamInv, OneStreamPerEntry, NoThread, Threads
<1> QED
  BY <1>7, <1>8

\* A chunk is over: the next one, or the next prompt of the same.
LEMMA BatchTypes ==
  ASSUME TypeOK, bake.at # "idle"
  PROVE  /\ bake.chunks[1] \in Seq(Prompts) \ {<<>>}
         /\ bake.chunks[1][1] \in Prompts
         /\ Tail(bake.chunks) \in Seq(Seq(Prompts) \ {<<>>})
         /\ \A chunk \in Seq(Prompts) \ {<<>>} :
              /\ [bake.chunks EXCEPT ![1] = chunk] \in Seq(Seq(Prompts) \ {<<>>})
              /\ [bake.chunks EXCEPT ![1] = chunk] # <<>>
<1> DEFINE S == Seq(Prompts) \ {<<>>}
<1>1. bake.chunks \in Seq(S) /\ bake.chunks # <<>>
  BY DEF TypeOK, Bakes
<1>2. 1 \in 1..Len(bake.chunks)
  BY <1>1, EmptySeq
<1>3. bake.chunks[1] \in S
  BY <1>1, <1>2, ElementOfSeq
<1>4. 1 \in 1..Len(bake.chunks[1])
  BY <1>3, EmptySeq
<1>5. bake.chunks[1][1] \in Prompts
  BY <1>3, <1>4, ElementOfSeq
<1>6. Tail(bake.chunks) \in Seq(S)
  BY <1>1, HeadTailProperties
<1>7. ASSUME NEW chunk \in S
      PROVE  [bake.chunks EXCEPT ![1] = chunk] \in Seq(S) /\ [bake.chunks EXCEPT ![1] = chunk] # <<>>
  <2>1. /\ [bake.chunks EXCEPT ![1] = chunk] \in Seq(S)
        /\ Len([bake.chunks EXCEPT ![1] = chunk]) = Len(bake.chunks)
    BY <1>1, <1>2, ExceptSeq
  <2>2. Len(<<>>) = 0 /\ Len(bake.chunks) # 0
    BY <1>2, EmptySeq
  <2> QED
    BY <2>1, <2>2
<1> HIDE DEF S
<1> QED
  BY <1>3, <1>5, <1>6, <1>7 DEF S

LEMMA BakerStep ==
  ASSUME TypeOK, StreamInv, Baker
  PROVE  TypeOK' /\ StreamInv'
<1>1. UNCHANGED <<randomness, local_n, llm, model_path, lock, reloading>>
  BY DEF Baker
<1>2. /\ thread \in [Threads -> ThreadStates] /\ bake \in Bakes
      /\ cache \subseteq Completions /\ pool \subseteq PoolEntries
      /\ local_n \in Checkpoints
  BY NoneTypes DEF TypeOK
<1>3. "prefetch" \in Threads /\ "grade" \in Threads
  BY DEF Threads
<1>4. /\ \A prompts : Started(prompts).result = {} /\ Started(prompts).prompts = prompts
      /\ NoThread.result = {} /\ NoThread.prompts = {}
  BY DEF Started, NoThread
<1>5. CASE StartBake
  <2> DEFINE left == Prompts \ {e.prompt : e \in pool}
             k == Min({Cardinality(left), BAKE_BATCH_SIZE})
  <2>1. /\ k > 0 /\ UNCHANGED <<pool, cache>>
        /\ \E prompts \in [1..k -> left] :
             /\ bake' = [at |-> "await", checkpoint_n |-> local_n, chunks |-> ChunksOf(prompts)]
             /\ Put("prefetch", Started(ToSet(ChunksOf(prompts)[1])))
    BY <1>5 DEF StartBake
  <2>2. k \in Nat
    <3>1. IsFiniteSet(left)
      BY BakeAssumption, FS_Subset
    <3>2. Cardinality(left) \in Nat /\ BAKE_BATCH_SIZE \in Nat
      BY <3>1, BakeAssumption, FS_CardinalityType
    <3> QED
      BY <3>2, MinOfTwo
  <2> HIDE DEF k
  <2>3. PICK prompts \in [1..k -> left] :
          /\ bake' = [at |-> "await", checkpoint_n |-> local_n, chunks |-> ChunksOf(prompts)]
          /\ Put("prefetch", Started(ToSet(ChunksOf(prompts)[1])))
    BY <2>1
  <2>4. prompts \in Seq(Prompts) /\ Len(prompts) = k
    BY <2>2, <2>3, FunctionIsSeq
  <2>5. prompts # <<>>
    BY <2>1, <2>2, <2>4, EmptySeq
  <2>6. ChunksOf(prompts) \in Seq(Seq(Prompts) \ {<<>>}) /\ ChunksOf(prompts) # <<>>
    BY <2>4, <2>5, ChunksType
  <2>7. ChunksOf(prompts)[1] \in Seq(Prompts)
    <3>1. 1 \in 1..Len(ChunksOf(prompts))
      BY <2>6, EmptySeq
    <3> QED
      BY <2>6, <3>1, ElementOfSeq
  <2>8. bake' \in Bakes /\ bake'.chunks # <<>>
    BY <1>2, <2>3, <2>6 DEF Bakes
  <2>9. Started(ToSet(ChunksOf(prompts)[1])) \in ThreadStates
    BY <2>7, ToSetType, NoneTypes
  <2>10. thread' \in [Threads -> ThreadStates] /\ thread'["grade"] = thread["grade"]
    BY <1>2, <1>3, <2>3, <2>9 DEF Put
  <2>11. TypeOK'
    BY <1>1, <2>1, <2>8, <2>10 DEF TypeOK
  <2>12. StreamInv'
    BY <2>1, <2>10 DEF StreamInv, OneStreamPerEntry
  <2> QED
    BY <2>11, <2>12
<1>6. CASE ChunkReady
  <2> DEFINE rest == Tail(bake.chunks)
             prefetch == IF rest = <<>> THEN NoThread ELSE Started(ToSet(rest[1]))
             grade == Started({bake.chunks[1][1]})
  <2>1. /\ bake.at = "await" /\ UNCHANGED <<pool, cache>>
        /\ bake' = [bake EXCEPT !.at = "grade"]
        /\ thread' = [prefetch |-> prefetch, grade |-> grade]
    BY <1>6 DEF ChunkReady
  <2>2. rest \in Seq(Seq(Prompts) \ {<<>>}) /\ bake.chunks[1][1] \in Prompts
    BY <2>1, BatchTypes
  <2>3. prefetch \in ThreadStates
    <3>1. CASE rest = <<>>
      BY <3>1, NoneTypes
    <3>2. CASE rest # <<>>
      <4>1. 1 \in 1..Len(rest)
        BY <2>2, <3>2, EmptySeq
      <4>2. rest[1] \in Seq(Prompts)
        BY <2>2, <4>1, ElementOfSeq
      <4> QED
        BY <3>2, <4>2, ToSetType, NoneTypes
    <3> QED
      BY <3>1, <3>2
  <2>4. grade \in ThreadStates /\ grade.result = {} /\ grade.prompts = {bake.chunks[1][1]}
    BY <1>4, <2>2, NoneTypes
  <2> HIDE DEF prefetch, grade
  <2>5. thread' \in [Threads -> ThreadStates] /\ thread'["grade"] = grade
    BY <2>1, <2>3, <2>4 DEF Threads
  <2>6. bake' \in Bakes /\ bake'.chunks # <<>>
    BY <2>1 DEF TypeOK, Bakes
  <2>7. TypeOK'
    BY <1>1, <2>1, <2>5, <2>6 DEF TypeOK
  <2>8. StreamInv'
    BY <2>1, <2>4, <2>5 DEF StreamInv, OneStreamPerEntry
  <2> QED
    BY <2>7, <2>8
<1>7. CASE EntryDone
  <2> DEFINE chunk == Tail(bake.chunks[1])
             rest == Tail(bake.chunks)
             next == IF chunk = <<>> THEN NoThread ELSE Started({chunk[1]})
  <2>1. /\ bake.at = "grade"
        /\ pool' = IF thread["grade"].result # {} /\ bake.checkpoint_n = local_n
                   THEN pool \cup {Entry("grade")} ELSE pool
        /\ Put("grade", next)
        /\ IF chunk # <<>>
           THEN bake' = [bake EXCEPT !.chunks[1] = chunk] /\ UNCHANGED cache
           ELSE IF rest # <<>>
           THEN bake' = [bake EXCEPT !.at = "await", !.chunks = rest] /\ UNCHANGED cache
           ELSE bake' = Idle /\ cache' = {}
    BY <1>7 DEF EntryDone
  <2>2. chunk \in Seq(Prompts) /\ rest \in Seq(Seq(Prompts) \ {<<>>})
    BY <2>1, BatchTypes, HeadTailProperties
  <2>3. next \in ThreadStates /\ next.result = {} /\ \A p, q \in next.prompts : p = q
    <3>1. CASE chunk = <<>>
      BY <1>4, <3>1, NoneTypes
    <3>2. CASE chunk # <<>>
      <4>1. 1 \in 1..Len(chunk)
        BY <2>2, <3>2, EmptySeq
      <4>2. chunk[1] \in Prompts
        BY <2>2, <4>1, ElementOfSeq
      <4> QED
        BY <1>4, <3>2, <4>2, NoneTypes
    <3> QED
      BY <3>1, <3>2
  <2>4. pool' \subseteq PoolEntries /\ OneStreamPerEntry'
    BY <1>2, <2>1, EntryParts DEF StreamInv, OneStreamPerEntry
  <2>5. bake' \in Bakes /\ (bake'.at # "idle" => bake'.chunks # <<>>)
    <3>1. CASE chunk # <<>>
      <4>1. /\ [bake.chunks EXCEPT ![1] = chunk] \in Seq(Seq(Prompts) \ {<<>>})
            /\ [bake.chunks EXCEPT ![1] = chunk] # <<>>
        BY <2>1, <2>2, <3>1, BatchTypes
      <4>2. bake' = [bake EXCEPT !.chunks = [bake.chunks EXCEPT ![1] = chunk]]
        BY <1>2, <2>1, <3>1 DEF Bakes
      <4> QED
        BY <1>2, <4>1, <4>2 DEF Bakes
    <3>2. CASE chunk = <<>> /\ rest # <<>>
      <4>1. bake' = [bake EXCEPT !.at = "await", !.chunks = rest]
        BY <2>1, <3>2
      <4> HIDE DEF rest
      <4> QED
        BY <1>2, <2>2, <3>2, <4>1 DEF Bakes
    <3>3. CASE chunk = <<>> /\ rest = <<>>
      <4>1. bake' = Idle
        BY <2>1, <3>3
      <4>2. <<>> \in Seq(Seq(Prompts) \ {<<>>}) /\ -1 \in Checkpoints
        BY EmptySeq, NoneTypes DEF NoEngine
      <4> QED
        BY <4>1, <4>2 DEF Bakes, Idle
    <3> QED
      BY <3>1, <3>2, <3>3
  <2> HIDE DEF next
  <2>6. thread' \in [Threads -> ThreadStates] /\ thread'["grade"] = next
    BY <1>2, <1>3, <2>1, <2>3 DEF Put
  <2>7. cache' \subseteq Completions
    BY <1>2, <2>1
  <2>8. TypeOK'
    BY <1>1, <2>4, <2>5, <2>6, <2>7 DEF TypeOK
  <2>9. StreamInv'
    BY <2>3, <2>4, <2>6 DEF StreamInv
  <2> QED
    BY <2>8, <2>9
<1> QED
  BY <1>5, <1>6, <1>7 DEF Baker

LEMMA InvStep == TypeOK /\ StreamInv /\ [Next]_vars => (TypeOK /\ StreamInv)'
<1> SUFFICES ASSUME TypeOK, StreamInv, [Next]_vars PROVE TypeOK' /\ StreamInv'
  OBVIOUS
<1>1. MaxCheckpoint \in Nat /\ MaxRandomness \in Nat
  BY BakeAssumption
<1>2. CASE Baker
  BY <1>2, BakerStep
<1>3. CASE Flip
  <2>1. randomness' \in Randomnesses
    BY <1>1, <1>3 DEF Flip, TypeOK, Randomnesses, NoRandomness
  <2> QED
    BY <1>3, <2>1 DEF Flip, TypeOK, StreamInv, OneStreamPerEntry
<1>4. CASE Reload
  <2>1. model_path' \in Checkpoints /\ llm' \in Checkpoints
    BY <1>1, <1>4, NoneTypes DEF Reload, TypeOK, Checkpoints
  <2>2. reloading' /\ local_n' < MaxCheckpoint
    BY <1>4 DEF Reload
  <2> QED
    BY <1>4, <2>1, <2>2 DEF Reload, TypeOK, StreamInv, OneStreamPerEntry
<1>5. CASE Reloaded
  <2>1. model_path' \in Checkpoints /\ local_n' \in 0..MaxCheckpoint
    BY <1>1, <1>5 DEF Reloaded, TypeOK, Checkpoints
  <2> QED
    BY <1>5, <2>1 DEF Reloaded, TypeOK, StreamInv, OneStreamPerEntry
<1>6. CASE Fire
  BY <1>6 DEF Fire, TypeOK, StreamInv, OneStreamPerEntry
<1>7. ASSUME NEW t \in Threads, ThreadStep(t) PROVE TypeOK' /\ StreamInv'
  <2>1. PICK fields \in ThreadStates :
           /\ thread' = [thread EXCEPT ![t] = fields]
           /\ cache' \subseteq Completions
           /\ llm' \in Checkpoints /\ lock' \in Threads \cup {Free}
           /\ UNCHANGED <<randomness, local_n, pool, bake, model_path, reloading>>
           /\ fields.prompts \subseteq thread[t].prompts
           /\ \/ fields.result = {}
              \/ /\ thread[t].at = "prove" /\ fields.at = "done"
                 /\ fields = [thread[t] EXCEPT !.at = "done"]
              \/ /\ fields.at = "prove"
                 /\ \A c \in fields.result :
                      /\ c.prompt \in fields.prompts
                      /\ c.randomness = fields.randomness /\ c.hash = fields.hash
              \/ /\ fields.result = thread[t].result
                 /\ thread[t].at \notin {"prove", "done"}
    BY <1>7, ThreadParts
  <2>2. thread \in [Threads -> ThreadStates]
    BY DEF TypeOK
  <2>3. TypeOK'
    BY <2>1, <2>2 DEF TypeOK
  <2>4. CASE t # "grade"
    <3>1. thread'["grade"] = thread["grade"]
      BY <2>1, <2>2, <2>4 DEF Threads
    <3> QED
      BY <2>1, <2>3, <3>1 DEF StreamInv, OneStreamPerEntry
  <2>5. CASE t = "grade"
    <3>1. thread'["grade"] = fields
      BY <2>1, <2>2, <2>5
    <3>2. \A p, q \in fields.prompts : p = q
      BY <2>1, <2>5 DEF StreamInv
    <3>3. CASE fields.result = {}
      BY <2>1, <2>3, <3>1, <3>2, <3>3 DEF StreamInv, OneStreamPerEntry
    <3>4. CASE thread[t].at = "prove" /\ fields = [thread[t] EXCEPT !.at = "done"]
      <4>1. /\ fields.at = "done" /\ fields.result = thread[t].result
            /\ fields.prompts = thread[t].prompts
            /\ fields.randomness = thread[t].randomness /\ fields.hash = thread[t].hash
        BY <2>2, <3>4 DEF ThreadStates
      <4> QED
        BY <2>1, <2>3, <2>5, <3>1, <3>2, <4>1 DEF StreamInv, OneStreamPerEntry
    <3>5. CASE /\ fields.at = "prove"
               /\ \A c \in fields.result :
                    /\ c.prompt \in fields.prompts
                    /\ c.randomness = fields.randomness /\ c.hash = fields.hash
      BY <2>1, <2>3, <3>1, <3>2, <3>5 DEF StreamInv, OneStreamPerEntry
    <3>6. CASE fields.result = thread[t].result /\ thread[t].at \notin {"prove", "done"}
      <4>1. fields.result = {}
        BY <2>5, <3>6 DEF StreamInv
      <4> QED
        BY <3>3, <4>1
    <3> QED
      BY <2>1, <3>3, <3>4, <3>5, <3>6
  <2> QED
    BY <2>4, <2>5
<1>8. CASE UNCHANGED vars
  BY <1>8 DEF vars, TypeOK, StreamInv, OneStreamPerEntry
<1> QED
  BY <1>2, <1>3, <1>4, <1>5, <1>6, <1>7, <1>8 DEF Next

\* The state is of its type; in particular a chunk that is baked has a prompt.
THEOREM TypeCorrect == Spec => []TypeOK
BY InvInit, InvStep, PTL DEF Spec

\* The two phases of an entry are forced onto the same stream, whatever flips
\* and is reloaded between them.
THEOREM StreamIsOne == Spec => []OneStreamPerEntry
<1>1. StreamInv => OneStreamPerEntry
  BY DEF StreamInv
<1> QED
  BY <1>1, InvInit, InvStep, PTL DEF Spec

-----------------------------------------------------------------------------
(***************************************************************************)
(* The tokens of a rollout: theorems about ForcedStream, for any prompts,  *)
(* rollouts per prompt, rows of the engine, budgets and EOS tokens.        *)
(***************************************************************************)
\* The tokens that are generated or injected.
Marks == Tokens \cup {"boxed"}

\* At most the last token is an EOS.
EndsOnce(ids) == \A i \in 1..Len(ids) - 1 : ids[i] \notin EosIds

\* The positions up to the first EOS.
Drawn(ids) == {i \in 1..Len(ids) : \A k \in 1..i - 1 : ids[k] \notin EosIds}

\* How long a sequence is once it is truncated.
Kept(ids, n) ==
  /\ n \in 0..Len(ids) /\ truncate_at_first_eos(ids) = SubSeq(ids, 1, n)
  /\ 1..n = Drawn(ids)
  /\ IF HasEos(ids) THEN n > 0 /\ ids[n] \in EosIds ELSE n = Len(ids)

LEMMA TruncateKeeps ==
  ASSUME NEW S, NEW ids \in Seq(S)
  PROVE  \E n : Kept(ids, n)
<1>1. Len(ids) \in Nat /\ DOMAIN ids = 1..Len(ids)
  BY LenProperties
<1>2. CASE ~ HasEos(ids)
  <2>1. truncate_at_first_eos(ids) = SubSeq(ids, 1, Len(ids))
    BY <1>2, SubSeqFull DEF truncate_at_first_eos
  <2>2. \A i \in 1..Len(ids) : ids[i] \notin EosIds
    BY <1>1, <1>2 DEF HasEos
  <2>3. 1..Len(ids) = Drawn(ids)
    <3>1. ASSUME NEW i \in 1..Len(ids), NEW k \in 1..i - 1 PROVE ids[k] \notin EosIds
      <4>1. k \in 1..Len(ids)
        BY <1>1, <3>1
      <4> QED
        BY <2>2, <4>1
    <3> QED
      BY <3>1 DEF Drawn
  <2> QED
    BY <1>1, <1>2, <2>1, <2>3 DEF Kept
<1>3. CASE HasEos(ids)
  <2> DEFINE I == {i \in 1..Len(ids) : ids[i] \in EosIds}
             n == Min(I)
  <2>1. I \in SUBSET Nat /\ I # {}
    BY <1>1, <1>3 DEF HasEos
  <2>2. n \in I /\ \A i \in I : n <= i
    <3> HIDE DEF I
    <3> QED
      BY <2>1, MinOfNumbers
  <2>3. truncate_at_first_eos(ids) = SubSeq(ids, 1, n)
    BY <1>3, <2>1 DEF truncate_at_first_eos, SelectInSeq, Min
  <2>4. n \in 1..Len(ids) /\ ids[n] \in EosIds
    BY <2>2
  <2>5. \A i \in 1..Len(ids) : ids[i] \in EosIds => n <= i
    BY <2>2
  <2> HIDE DEF n
  <2>6. ASSUME NEW i \in 1..n PROVE i \in Drawn(ids)
    <3>1. i \in 1..Len(ids) /\ \A k \in 1..i - 1 : k \in 1..Len(ids) /\ ~ (n <= k)
      BY <1>1, <2>4, <2>6
    <3>2. \A k \in 1..i - 1 : ids[k] \notin EosIds
      BY <2>5, <3>1
    <3> QED
      BY <3>1, <3>2 DEF Drawn
  <2>7. ASSUME NEW i \in Drawn(ids) PROVE i \in 1..n
    <3>1. i \in 1..Len(ids) /\ \A k \in 1..i - 1 : ids[k] \notin EosIds
      BY DEF Drawn
    <3>2. ~ (n \in 1..i - 1)
      BY <2>4, <3>1
    <3> QED
      BY <1>1, <2>4, <3>1, <3>2
  <2>8. 1..n = Drawn(ids)
    BY <2>6, <2>7
  <2> QED
    BY <1>1, <1>3, <2>3, <2>4, <2>8 DEF Kept
<1> QED
  BY <1>2, <1>3

\* A sequence whose only EOS is its last token is not truncated, also when it
\* is padded.
LEMMA EndIsKept ==
  ASSUME NEW S, NEW ids \in Seq(S), NEW longer \in Seq(S), Len(longer) >= Len(ids),
         \A i \in 1..Len(ids) : longer[i] = ids[i],
         EndsOnce(ids), ids # <<>>, ids[Len(ids)] \in EosIds
  PROVE  truncate_at_first_eos(longer) = ids /\ HasEos(longer)
<1>1. /\ Len(ids) \in Nat /\ DOMAIN ids = 1..Len(ids)
      /\ Len(longer) \in Nat /\ DOMAIN longer = 1..Len(longer)
  BY LenProperties
<1>2. PICK n : Kept(longer, n)
  BY TruncateKeeps
<1>3. Len(ids) > 0
  BY EmptySeq
<1>4. Len(ids) \in DOMAIN longer /\ longer[Len(ids)] \in EosIds
  BY <1>1, <1>3
<1>5. HasEos(longer)
  BY <1>4 DEF HasEos
<1>6. n \in 1..Len(longer) /\ longer[n] \in EosIds
  BY <1>1, <1>2, <1>5 DEF Kept
<1>7. \A k \in 1..n - 1 : longer[k] \notin EosIds
  <2>1. n \in Drawn(longer)
    BY <1>2, <1>6 DEF Kept
  <2> QED
    BY <2>1 DEF Drawn
<1>8. n = Len(ids)
  <2>1. ASSUME Len(ids) < n PROVE FALSE
    <3>1. Len(ids) \in 1..n - 1
      BY <1>1, <1>3, <1>6, <2>1
    <3> QED
      BY <1>4, <1>7, <3>1
  <2>2. ASSUME n < Len(ids) PROVE FALSE
    <3>1. n \in 1..Len(ids) - 1 /\ n \in 1..Len(ids)
      BY <1>1, <1>6, <2>2
    <3>2. ids[n] \notin EosIds /\ longer[n] = ids[n]
      BY <3>1 DEF EndsOnce
    <3> QED
      BY <1>6, <3>2
  <2>3. n \in Nat /\ Len(ids) \in Nat
    BY <1>1, <1>6
  <2> QED
    BY <2>1, <2>2, <2>3
<1>9. SubSeq(longer, 1, n) = ids
  <2>1. /\ SubSeq(longer, 1, n) \in Seq(S) /\ Len(SubSeq(longer, 1, n)) = n
        /\ \A i \in 1..n : SubSeq(longer, 1, n)[i] = longer[i]
    <3>1. \A i \in 1..n : longer[i] \in S
      BY <1>1, <1>8, ElementOfSeq
    <3>2. n \in Int /\ 1 <= n /\ n - 1 + 1 = n
      BY <1>1, <1>6
    <3> QED
      BY <3>1, <3>2, SubSeqProperties
  <2> QED
    BY <1>8, <2>1, SeqEqual
<1> QED
  BY <1>2, <1>5, <1>9 DEF Kept

\* What a request that stopped hands to phase 2: the tokens of phase 1, whether
\* or not the engine takes the one it stopped on out of the completion.
LEMMA CompletionIsOut ==
  ASSUME StreamAssumption, NEW r \in Requests, out[r] \in Seq(Tokens),
         Stopped(r), EndsOnce(out[r]), NEW included \in BOOLEAN
  PROVE  truncate_at_first_eos(_with_stop_token(Completion(r, included))) = out[r]
<1> DEFINE ids == out[r]
           last == ids[Len(ids)]
<1>1. ids \in Seq(Tokens) /\ ids # <<>> /\ Len(ids) \in Nat /\ Len(ids) > 0 /\ DOMAIN ids = 1..Len(ids)
  BY LenProperties, EmptySeq DEF Stopped
<1>2. "none" \notin EosIds
  BY DEF StreamAssumption, EosIds
<1>3. CASE last \in EosIds
  <2>1. last \in Tokens /\ last # "none"
    BY <1>2, <1>3 DEF Tokens
  <2>2. CASE included
    <3>1. Completion(r, included) = [token_ids |-> ids, stop_reason |-> last]
      BY <1>3, <2>2 DEF Completion, Last
    <3>2. _with_stop_token(Completion(r, included)) = ids
      BY <1>1, <3>1 DEF _with_stop_token, Last
    <3> QED
      BY <1>1, <1>3, <3>2, EndIsKept
  <2>3. CASE ~ included
    <3> DEFINE front == SubSeq(ids, 1, Len(ids) - 1)
    <3>1. Completion(r, included) = [token_ids |-> front, stop_reason |-> last]
      BY <1>3, <2>3 DEF Completion, Last, Front
    <3>2. /\ front \in Seq(Tokens) /\ Len(front) = Len(ids) - 1
          /\ \A i \in 1..Len(ids) - 1 : front[i] = ids[i]
      <4>1. \A i \in 1..Len(ids) - 1 : ids[i] \in Tokens
        BY <1>1, ElementOfSeq
      <4>2. Len(ids) - 1 \in Int /\ (Len(ids) - 1) - 1 + 1 = Len(ids) - 1
        BY <1>1
      <4>3. Len(front) = IF 1 <= Len(ids) - 1 THEN (Len(ids) - 1) - 1 + 1 ELSE 0
        BY <4>1, <4>2, SubSeqProperties
      <4>4. front \in Seq(Tokens) /\ \A i \in 1..(Len(ids) - 1) - 1 + 1 : front[i] = ids[1 + i - 1]
        BY <4>1, <4>2, SubSeqProperties
      <4> HIDE DEF front
      <4> QED
        BY <1>1, <4>2, <4>3, <4>4
    <3> HIDE DEF front
    <3>3. front # <<>> => front[Len(front)] # last
      <4> SUFFICES ASSUME front # <<>> PROVE front[Len(front)] # last
        OBVIOUS
      <4>1. Len(front) > 0 /\ Len(front) \in Nat
        BY <3>2, EmptySeq
      <4>2. Len(front) \in 1..Len(ids) - 1
        BY <1>1, <3>2, <4>1
      <4>3. front[Len(front)] = ids[Len(front)] /\ ids[Len(front)] \notin EosIds
        BY <3>2, <4>2 DEF EndsOnce
      <4> QED
        BY <1>3, <4>3
    <3>4. _with_stop_token(Completion(r, included)) = Append(front, last)
      BY <2>1, <3>1, <3>3 DEF _with_stop_token, Last
    <3>5. Append(front, last) = ids
      <4>1. /\ Append(front, last) \in Seq(Tokens) /\ Len(Append(front, last)) = Len(front) + 1
            /\ \A i \in 1..Len(front) : Append(front, last)[i] = front[i]
            /\ Append(front, last)[Len(front) + 1] = last
        BY <2>1, <3>2, AppendProperties
      <4>2. Len(Append(front, last)) = Len(ids)
        BY <1>1, <3>2, <4>1
      <4>3. ASSUME NEW i \in 1..Len(ids) PROVE Append(front, last)[i] = ids[i]
        BY <1>1, <3>2, <4>1, <4>3
      <4> QED
        BY <1>1, <4>1, <4>2, <4>3, SeqEqual
    <3> QED
      BY <1>1, <1>3, <3>4, <3>5, EndIsKept
  <2> QED
    BY <2>2, <2>3
<1>4. CASE last \notin EosIds
  <2>1. Completion(r, included) = [token_ids |-> ids, stop_reason |-> "none"]
    BY <1>4 DEF Completion, Last
  <2>2. _with_stop_token(Completion(r, included)) = ids
    BY <2>1 DEF _with_stop_token
  <2>3. ~ HasEos(ids)
    <3> SUFFICES ASSUME NEW i \in 1..Len(ids) PROVE ids[i] \notin EosIds
      BY <1>1 DEF HasEos
    <3>1. i = Len(ids) \/ i \in 1..Len(ids) - 1
      BY <1>1
    <3> QED
      BY <1>4, <3>1 DEF EndsOnce
  <2> QED
    BY <2>2, <2>3 DEF truncate_at_first_eos
<1> QED
  BY <1>3, <1>4

-----------------------------------------------------------------------------
(***************************************************************************)
(* The invariant.  A request is in the rows of the engine or waits for     *)
(* one, once, while its prompt is in phase 1; the picks it was given are   *)
(* those of its own stream, at the positions of its tokens.                *)
(***************************************************************************)
Resumable == [primed : Seq(Marks), span : Nat \X Nat, tail : Seq(Tokens), row : Int]

StreamType ==
  /\ stage \in [BatchPrompts -> {"new", "phase1", "phase2", "done"}]
  /\ waiting \in Seq(Requests) /\ rows \in Seq(Requests) /\ slots = rows
  /\ out \in [Requests -> Seq(Tokens)]
  /\ answer \in [Requests -> Resumable]

EngineInv ==
  /\ IsInjective(rows) /\ IsInjective(waiting) /\ Range(rows) \cap Range(waiting) = {}
  /\ IsFiniteSet(Range(rows)) /\ Cardinality(Range(rows)) <= ROWS
  /\ \A r \in Range(rows) \cup Range(waiting) : stage[r[1]] = "phase1"
  /\ \A r \in Range(waiting) : out[r] = <<>>

FirstPicks(r) == {Picked(out[r][i], u_at(r, i - 1)) : i \in 1..Len(out[r])}

AnswerPicks(r) ==
  {Picked(answer[r].tail[j], u_at(r, Len(answer[r].primed) + j - 1)) : j \in Drawn(answer[r].tail)}

\* PicksAreOwn and RolloutsReplay, of one request.
OwnPicks(r) == \A d, e \in picks[r] : d.u.stream = r /\ (d.u = e.u => d = e)

Replays(r) ==
  LET tokens == rollout[r].tokens
      span == rollout[r].span
      InSpan(i) == span[1] < i /\ i <= span[2]
  IN  /\ \A i \in DOMAIN tokens : InSpan(i) \/ Picked(tokens[i], u_at(r, i - 1)) \in picks[r]
      /\ span # NoSpan => /\ span[1] = BFT_THINKING_BUDGET
                          /\ SubSeq(tokens, span[1] + 1, span[2]) = force_ids
      /\ \A i \in DOMAIN tokens : tokens[i] \in EosIds => i = Len(tokens)

\* A rollout is resumed because it met no EOS within the thinking budget.
Resumes(r) ==
  /\ ~ HasEos(out[r]) /\ Len(out[r]) = BFT_THINKING_BUDGET
  /\ \/ answer[r].primed = out[r] /\ answer[r].span = NoSpan
     \/ /\ answer[r].primed = out[r] \o force_ids
        /\ answer[r].span = <<BFT_THINKING_BUDGET, BFT_THINKING_BUDGET + 2>>
  /\ picks[r] = FirstPicks(r) \cup AnswerPicks(r)

RequestInv(r) ==
  /\ stage[r[1]] \in {"new", "phase1"} =>
       /\ answer[r] = NoAnswer /\ picks[r] = FirstPicks(r)
       /\ Len(out[r]) <= BFT_THINKING_BUDGET /\ EndsOnce(out[r])
  /\ stage[r[1]] = "new" => out[r] = <<>>
  /\ stage[r[1]] = "phase2" => IF answer[r] = NoAnswer THEN OwnPicks(r) /\ Replays(r) ELSE Resumes(r)
  /\ stage[r[1]] = "done" => answer[r] = NoAnswer /\ OwnPicks(r) /\ Replays(r)

TokensInv == StreamType /\ EngineInv /\ \A r \in Requests : RequestInv(r)

LEMMA RequestFrame ==
  ASSUME NEW r, RequestInv(r), stage'[r[1]] = stage[r[1]], out'[r] = out[r],
         answer'[r] = answer[r], rollout'[r] = rollout[r], picks'[r] = picks[r]
  PROVE  RequestInv(r)'
BY DEF RequestInv, Resumes, FirstPicks, AnswerPicks, OwnPicks, Replays

\* The picks of phase 1 are of one stream, and each at a position of its own.
LEMMA FirstPicksOwn ==
  ASSUME StreamAssumption, NEW r \in Requests, StreamType, picks[r] = FirstPicks(r)
  PROVE  OwnPicks(r)
<1>1. Len(out[r]) \in Nat
  BY LenProperties DEF StreamType
<1> SUFFICES ASSUME NEW d \in picks[r], NEW e \in picks[r]
             PROVE  d.u.stream = r /\ (d.u = e.u => d = e)
  BY DEF OwnPicks
<1>2. PICK i \in 1..Len(out[r]) : d = Picked(out[r][i], u_at(r, i - 1))
  BY DEF FirstPicks
<1>3. PICK j \in 1..Len(out[r]) : e = Picked(out[r][j], u_at(r, j - 1))
  BY DEF FirstPicks
<1>4. /\ d.u.stream = r /\ d.u.t = i - 1 /\ e.u.t = j - 1
  BY <1>2, <1>3 DEF Picked, u_at
<1>5. i - 1 = j - 1 => i = j
  BY <1>1
<1> QED
  BY <1>2, <1>3, <1>4, <1>5

\* The invariant holds at the start.
LEMMA TokensInit == ASSUME StreamAssumption, StreamInit PROVE TokensInv
<1>1. StreamType
  <2>1. <<>> \in Seq(Marks) /\ <<>> \in Seq(Tokens) /\ <<>> \in Seq(Requests)
    OBVIOUS
  <2>2. NoAnswer \in Resumable
    BY <2>1 DEF NoAnswer, Resumable, NoSpan
  <2> QED
    BY <2>1, <2>2 DEF StreamInit, StreamType
<1>2. EngineInv
  <2>1. Range(<<>>) = {} /\ IsInjective(<<>>)
    BY DEF Range, IsInjective
  <2>2. waiting = <<>> /\ rows = <<>> /\ ROWS \in Nat
    BY DEF StreamInit, StreamAssumption
  <2> QED
    BY <2>1, <2>2, FS_EmptySet DEF EngineInv
<1>3. ASSUME NEW r \in Requests PROVE RequestInv(r)
  <2>1. r[1] \in BatchPrompts
    BY DEF Requests
  <2>2. /\ stage[r[1]] = "new" /\ out[r] = <<>> /\ answer[r] = NoAnswer /\ picks[r] = {}
    BY <2>1 DEF StreamInit
  <2>3. Len(<<>>) = 0 /\ 1..0 = {} /\ EndsOnce(<<>>)
    BY DEF EndsOnce
  <2>4. FirstPicks(r) = {}
    BY <2>2, <2>3 DEF FirstPicks
  <2> QED
    BY <2>2, <2>3, <2>4 DEF RequestInv, StreamAssumption
<1> QED
  BY <1>1, <1>2, <1>3 DEF TokensInv

-----------------------------------------------------------------------------
(***************************************************************************)
(* Phase 1.                                                                *)
(***************************************************************************)
LEMMA BatchedStep ==
  ASSUME StreamAssumption, TokensInv, NEW p \in BatchPrompts, generate_forced_phase1(p)
  PROVE  TokensInv'
<1> DEFINE added == [k \in 1..M_ROLLOUTS |-> <<p, k - 1>>]
<1>1. /\ stage[p] = "new" /\ stage' = [stage EXCEPT ![p] = "phase1"]
      /\ waiting' = waiting \o added
      /\ rows' = rows /\ slots' = slots /\ out' = out /\ answer' = answer
      /\ rollout' = rollout /\ picks' = picks
  BY DEF generate_forced_phase1
<1>2. M_ROLLOUTS \in Nat
  BY DEF StreamAssumption
<1>3. added \in Seq(Requests) /\ Len(added) = M_ROLLOUTS
  <2>1. ASSUME NEW k \in 1..M_ROLLOUTS PROVE <<p, k - 1>> \in Requests
    BY <1>2 DEF Requests
  <2>2. added \in [1..M_ROLLOUTS -> Requests]
    BY <2>1
  <2> HIDE DEF added
  <2> QED
    BY <1>2, <2>2, FunctionIsSeq
<1>4. IsInjective(added)
  BY <1>2 DEF IsInjective
<1>5. \A r \in Range(added) : r \in Requests /\ r[1] = p
  <2>1. Range(added) = {added[k] : k \in 1..M_ROLLOUTS}
    BY DEF Range
  <2>2. \A k \in 1..M_ROLLOUTS : added[k] = <<p, k - 1>> /\ <<p, k - 1>> \in Requests
    BY <1>2 DEF Requests
  <2> HIDE DEF added
  <2> SUFFICES ASSUME NEW r \in Range(added) PROVE r \in Requests /\ r[1] = p
    OBVIOUS
  <2>3. PICK k \in 1..M_ROLLOUTS : r = added[k]
    BY <2>1
  <2>4. r = <<p, k - 1>>
    BY <2>2, <2>3
  <2>5. r \in Requests
    BY <2>2, <2>4
  <2> QED
    BY <2>4, <2>5
<1> HIDE DEF added
<1>6. StreamType'
  BY <1>1, <1>3, ConcatProperties DEF TokensInv, StreamType
<1>7. EngineInv'
  <2>1. Range(waiting') = Range(waiting) \cup Range(added)
    BY <1>1, <1>3, RangeConcatenation DEF TokensInv, StreamType
  <2>2. \A r \in Range(added) : r \notin Range(waiting) /\ r \notin Range(rows)
    BY <1>1, <1>5 DEF TokensInv, EngineInv
  <2>3. IsInjective(waiting')
    <3>1. Range(waiting) \cap Range(added) = {}
      BY <2>2
    <3>2. waiting \in Seq(Requests) /\ IsInjective(waiting)
      BY DEF TokensInv, StreamType, EngineInv
    <3> QED
      BY <1>1, <1>3, <1>4, <3>1, <3>2, ConcatDistinct
  <2>4. \A r \in Range(added) : out[r] = <<>>
    BY <1>1, <1>5 DEF TokensInv, RequestInv
  <2>5. \A r \in Range(rows) \cup Range(waiting) : r[1] \in BatchPrompts /\ stage[r[1]] = "phase1"
    <3>1. Range(rows) \subseteq Requests /\ Range(waiting) \subseteq Requests
      BY RangeOfSeq DEF TokensInv, StreamType
    <3> QED
      BY <3>1 DEF TokensInv, EngineInv, Requests
  <2>6. \A r \in Range(rows') \cup Range(waiting') : stage'[r[1]] = "phase1"
    BY <1>1, <1>5, <2>1, <2>5 DEF TokensInv, StreamType
  <2> QED
    BY <1>1, <2>1, <2>2, <2>3, <2>4, <2>6 DEF TokensInv, EngineInv
<1>8. ASSUME NEW r \in Requests PROVE RequestInv(r)'
  <2>1. r[1] \in BatchPrompts /\ stage \in [BatchPrompts -> {"new", "phase1", "phase2", "done"}] /\ RequestInv(r)
    BY DEF Requests, TokensInv, StreamType
  <2>2. CASE r[1] # p
    <3>1. stage'[r[1]] = stage[r[1]]
      BY <1>1, <2>1, <2>2
    <3> QED
      BY <1>1, <2>1, <3>1, RequestFrame
  <2>3. CASE r[1] = p
    <3>1. stage'[r[1]] = "phase1" /\ stage[r[1]] = "new"
      BY <1>1, <2>1, <2>3
    <3> QED
      BY <1>1, <2>1, <3>1 DEF RequestInv, FirstPicks
  <2> QED
    BY <2>2, <2>3
<1> QED
  BY <1>6, <1>7, <1>8 DEF TokensInv

\* The running requests that stay, and n of those that wait.
Running(n) ==
  {r \in Range(rows) : ~ Stopped(r)} \cup Range(SubSeq(waiting, 1, n))

LEMMA Repacked ==
  ASSUME Repack
  PROVE  \E n : LET kept == {r \in Range(rows) : ~ Stopped(r)}
                IN  /\ n = IF Len(waiting) < ROWS - Cardinality(kept) THEN Len(waiting)
                           ELSE ROWS - Cardinality(kept)
                    /\ rows' \in [1..Cardinality(Running(n)) -> Running(n)] /\ IsInjective(rows')
                    /\ waiting' = SubSeq(waiting, n + 1, Len(waiting))
<1> DEFINE kept == {r \in Range(rows) : ~ Stopped(r)}
           n == IF Len(waiting) < ROWS - Cardinality(kept) THEN Len(waiting)
                ELSE ROWS - Cardinality(kept)
<1>1. {r \in Range(rows) : ~ Stopped(r)} = kept
  OBVIOUS
<1>2. rows' \in SetToSeqs(Running(n)) /\ waiting' = SubSeq(waiting, n + 1, Len(waiting))
  BY <1>1 DEF Repack, Running
<1> HIDE DEF n
<1>3. /\ rows' \in [1..Cardinality(Running(n)) -> Running(n)]
      /\ \A i, j \in 1..Cardinality(Running(n)) : i # j => rows'[i] # rows'[j]
  BY <1>2 DEF SetToSeqs
<1>4. IsInjective(rows')
  BY <1>3 DEF IsInjective
<1> QED
  BY <1>2, <1>3, <1>4 DEF n

LEMMA ScheduleStep ==
  ASSUME StreamAssumption, TokensInv, Schedule
  PROVE  TokensInv'
<1> DEFINE kept == {r \in Range(rows) : ~ Stopped(r)}
<1>1. /\ stage' = stage /\ out' = out /\ answer' = answer /\ rollout' = rollout /\ picks' = picks
      /\ Repack /\ slots' = IF rows' # rows THEN rows' ELSE slots
  BY DEF Schedule, rebuild
<1>2. /\ rows \in Seq(Requests) /\ waiting \in Seq(Requests) /\ slots = rows
      /\ Range(rows) \subseteq Requests /\ Range(waiting) \subseteq Requests
      /\ Len(waiting) \in Nat /\ ROWS \in Nat /\ DOMAIN waiting = 1..Len(waiting)
  BY LenProperties, RangeOfSeq DEF TokensInv, StreamType, StreamAssumption
<1>3. IsFiniteSet(kept) /\ Cardinality(kept) \in Nat /\ Cardinality(kept) <= ROWS
  <2>1. kept \in SUBSET Range(rows) /\ IsFiniteSet(Range(rows)) /\ Cardinality(Range(rows)) <= ROWS
    BY DEF TokensInv, EngineInv
  <2> HIDE DEF kept
  <2>2. /\ IsFiniteSet(kept) /\ Cardinality(kept) <= Cardinality(Range(rows))
        /\ Cardinality(kept) \in Nat /\ Cardinality(Range(rows)) \in Nat
    BY <2>1, FS_Subset, FS_CardinalityType
  <2> QED
    BY <1>2, <2>1, <2>2
<1>4. PICK n : /\ n = IF Len(waiting) < ROWS - Cardinality(kept) THEN Len(waiting)
                      ELSE ROWS - Cardinality(kept)
               /\ rows' \in [1..Cardinality(Running(n)) -> Running(n)] /\ IsInjective(rows')
               /\ waiting' = SubSeq(waiting, n + 1, Len(waiting))
  BY <1>1, Repacked
<1>5. n \in 0..Len(waiting) /\ n <= ROWS - Cardinality(kept)
  BY <1>2, <1>3, <1>4
<1> HIDE DEF kept
<1> DEFINE first == SubSeq(waiting, 1, n)
           later == SubSeq(waiting, n + 1, Len(waiting))
<1>6. /\ first \in Seq(Requests) /\ Len(first) = n /\ DOMAIN first = 1..n
      /\ \A i \in 1..n : first[i] = waiting[i]
  <2>1. \A i \in 1..n : waiting[i] \in Requests
    BY <1>2, <1>5, ElementOfSeq
  <2>2. n \in Int /\ 1 \in Int /\ n - 1 + 1 = n
    BY <1>5
  <2>3. first \in Seq(Requests) /\ Len(first) = IF 1 <= n THEN n - 1 + 1 ELSE 0
    BY <2>1, <2>2, SubSeqProperties
  <2>4. \A i \in 1..n - 1 + 1 : first[i] = waiting[1 + i - 1]
    BY <2>1, <2>2, SubSeqProperties
  <2> HIDE DEF first
  <2>5. Len(first) = n
    BY <1>5, <2>3
  <2> QED
    BY <2>2, <2>3, <2>4, <2>5, LenProperties
<1>7. /\ later \in Seq(Requests) /\ Len(later) = Len(waiting) - n /\ DOMAIN later = 1..(Len(waiting) - n)
      /\ \A i \in 1..(Len(waiting) - n) : later[i] = waiting[n + i]
  <2>1. \A i \in n + 1..Len(waiting) : waiting[i] \in Requests
    BY <1>2, <1>5, ElementOfSeq
  <2>2. n + 1 \in Int /\ Len(waiting) \in Int /\ Len(waiting) - (n + 1) + 1 = Len(waiting) - n
    BY <1>2, <1>5
  <2>3. later \in Seq(Requests) /\ Len(later) = IF n + 1 <= Len(waiting) THEN Len(waiting) - (n + 1) + 1 ELSE 0
    BY <2>1, <2>2, SubSeqProperties
  <2>4. \A i \in 1..Len(waiting) - (n + 1) + 1 : later[i] = waiting[n + 1 + i - 1]
    BY <2>1, <2>2, SubSeqProperties
  <2> HIDE DEF later
  <2>5. Len(later) = Len(waiting) - n
    <3>1. PICK m \in Nat : m = Len(waiting)
      BY <1>2
    <3>2. Len(later) = IF n + 1 <= m THEN m - (n + 1) + 1 ELSE 0
      BY <2>3, <3>1
    <3>3. n \in Nat /\ n <= m
      BY <1>5, <3>1
    <3>4. Len(later) = m - n
      BY <3>2, <3>3
    <3> QED
      BY <3>1, <3>4
  <2>6. \A i \in 1..(Len(waiting) - n) : n + 1 + i - 1 = n + i
    BY <1>2, <1>5
  <2> QED
    BY <2>2, <2>3, <2>4, <2>5, <2>6, LenProperties
<1>8. rows' \in [1..Cardinality(Running(n)) -> Running(n)] /\ Running(n) = kept \cup Range(first)
  BY <1>4 DEF Running, kept
<1>9. waiting' = later
  BY <1>4
<1> HIDE DEF first, later
<1>10. Range(first) \subseteq Range(waiting) /\ Range(later) \subseteq Range(waiting)
  <2>1. ASSUME NEW i \in 1..n PROVE first[i] \in Range(waiting)
    <3>1. i \in DOMAIN waiting /\ first[i] = waiting[i]
      BY <1>2, <1>5, <1>6
    <3> QED
      BY <3>1 DEF Range
  <2>2. ASSUME NEW i \in 1..(Len(waiting) - n) PROVE later[i] \in Range(waiting)
    <3>1. n + i \in DOMAIN waiting /\ later[i] = waiting[n + i]
      BY <1>2, <1>5, <1>7
    <3> QED
      BY <3>1 DEF Range
  <2> QED
    BY <1>6, <1>7, <2>1, <2>2 DEF Range
<1>11. Range(first) \cap Range(later) = {} /\ IsInjective(later)
  <2>1. IsInjective(waiting)
    BY DEF TokensInv, EngineInv
  <2>2. ASSUME NEW i \in 1..n, NEW j \in 1..(Len(waiting) - n), first[i] = later[j] PROVE FALSE
    <3>1. i \in DOMAIN waiting /\ n + j \in DOMAIN waiting /\ i # n + j
      BY <1>2, <1>5
    <3> QED
      BY <1>6, <1>7, <2>1, <2>2, <3>1 DEF IsInjective
  <2>3. ASSUME NEW i \in 1..(Len(waiting) - n), NEW j \in 1..(Len(waiting) - n), later[i] = later[j]
        PROVE  i = j
    <3>1. n + i \in DOMAIN waiting /\ n + j \in DOMAIN waiting
      BY <1>2, <1>5
    <3>2. n + i = n + j
      BY <1>7, <2>1, <2>3, <3>1 DEF IsInjective
    <3> QED
      BY <1>5, <3>2
  <2> QED
    BY <1>6, <1>7, <2>2, <2>3 DEF Range, IsInjective
<1>12. IsFiniteSet(Range(first)) /\ Cardinality(Range(first)) <= n
  <2>1. first \in Surjection(1..n, Range(first))
    BY <1>6 DEF Surjection, Range
  <2>2. IsFiniteSet(1..n) /\ Cardinality(1..n) = n
    <3>1. n \in Int /\ 1 \in Int
      BY <1>5
    <3>2. IsFiniteSet(1..n) /\ Cardinality(1..n) = IF 1 > n THEN 0 ELSE n - 1 + 1
      BY <3>1, FS_Interval
    <3> QED
      BY <1>5, <3>2
  <2> QED
    BY <2>1, <2>2, FS_Surjection
<1>13. IsFiniteSet(Running(n)) /\ Cardinality(Running(n)) <= ROWS /\ Cardinality(Running(n)) \in Nat
  <2> DEFINE both == kept \cap Range(first)
  <2>1. IsFiniteSet(both) /\ Cardinality(both) \in Nat
    BY <1>3, FS_Intersection, FS_CardinalityType
  <2>2. Cardinality(Range(first)) \in Nat
    BY <1>12, FS_CardinalityType
  <2>3. IsFiniteSet(kept \cup Range(first))
    BY <1>3, <1>12, FS_Union
  <2>4. Cardinality(kept \cup Range(first)) = Cardinality(kept) + Cardinality(Range(first)) - Cardinality(both)
    BY <1>3, <1>12, FS_Union
  <2> HIDE DEF both
  <2>5. Cardinality(kept \cup Range(first)) \in Nat
    BY <2>3, FS_CardinalityType
  <2> QED
    BY <1>2, <1>3, <1>5, <1>8, <1>12, <2>1, <2>2, <2>3, <2>4, <2>5
<1>14. Running(n) \subseteq Range(rows) \cup Range(waiting)
  BY <1>8, <1>10 DEF kept
<1>15. rows' \in Seq(Requests) /\ Range(rows') \in SUBSET Running(n)
  <2>1. Range(rows') \in SUBSET Running(n)
    BY <1>8 DEF Range
  <2>2. rows' \in [1..Cardinality(Running(n)) -> Requests]
    BY <1>2, <1>8, <1>14
  <2> QED
    BY <1>13, <2>1, <2>2, FunctionIsSeq
<1>16. StreamType'
  BY <1>1, <1>2, <1>7, <1>9, <1>15 DEF TokensInv, StreamType
<1>17. EngineInv'
  <2>1. IsFiniteSet(Range(rows')) /\ Cardinality(Range(rows')) <= ROWS
    <3>1. /\ IsFiniteSet(Range(rows')) /\ Cardinality(Range(rows')) <= Cardinality(Running(n))
          /\ Cardinality(Range(rows')) \in Nat
      BY <1>13, <1>15, FS_Subset, FS_CardinalityType
    <3> QED
      BY <1>2, <1>13, <3>1
  <2>2. Range(rows') \cap Range(waiting') = {}
    BY <1>8, <1>9, <1>10, <1>11, <1>15 DEF TokensInv, EngineInv, kept
  <2>3. Range(rows') \cup Range(waiting') \subseteq Range(rows) \cup Range(waiting)
    BY <1>9, <1>10, <1>14, <1>15
  <2>4. IsInjective(rows') /\ IsInjective(waiting')
    BY <1>4, <1>9, <1>11
  <2>5. \A r \in Range(waiting') : out[r] = <<>>
    BY <1>9, <1>10 DEF TokensInv, EngineInv
  <2>6. \A r \in Range(rows') \cup Range(waiting') : stage[r[1]] = "phase1"
    BY <2>3 DEF TokensInv, EngineInv
  <2> QED
    BY <1>1, <2>1, <2>2, <2>4, <2>5, <2>6 DEF EngineInv
<1>18. ASSUME NEW r \in Requests PROVE RequestInv(r)'
  BY <1>1, RequestFrame DEF TokensInv
<1> QED
  BY <1>16, <1>17, <1>18 DEF TokensInv

\* A request is forced its own pick, at the position after its last token.
LEMMA RowsDecode ==
  ASSUME StreamAssumption, StreamType, Decode
  PROVE  /\ out' \in [Requests -> Seq(Tokens)]
         /\ \A r \in Requests :
              IF r \in Range(rows)
                THEN \E id \in Tokens :
                       /\ out'[r] = Append(out[r], id)
                       /\ picks'[r] = picks[r] \cup {Picked(id, u_at(r, Len(out[r])))}
                ELSE out'[r] = out[r] /\ picks'[r] = picks[r]
<1> DEFINE RowOf(r) == CHOOSE i \in DOMAIN rows : rows[i] = r
<1>1. PICK ids \in [DOMAIN rows -> Tokens] :
        /\ out' = [r \in Requests |-> IF r \in Range(rows) THEN Append(out[r], ids[RowOf(r)]) ELSE out[r]]
        /\ picks' = [r \in Requests |-> IF r \in Range(rows)
                                          THEN picks[r] \cup {force_row(RowOf(r), ids[RowOf(r)])}
                                          ELSE picks[r]]
  BY DEF Decode
<1>2. ASSUME NEW r \in Range(rows) PROVE RowOf(r) \in DOMAIN rows /\ rows[RowOf(r)] = r
  BY DEF Range
<1> HIDE DEF RowOf
<1>3. ASSUME NEW r \in Requests, r \in Range(rows)
      PROVE  /\ out'[r] = Append(out[r], ids[RowOf(r)]) /\ ids[RowOf(r)] \in Tokens
             /\ picks'[r] = picks[r] \cup {Picked(ids[RowOf(r)], u_at(r, Len(out[r])))}
  <2>1. RowOf(r) \in DOMAIN rows /\ slots[RowOf(r)] = r
    BY <1>2, <1>3 DEF StreamType
  <2>2. force_row(RowOf(r), ids[RowOf(r)]) = Picked(ids[RowOf(r)], u_at(r, Len(out[r])))
    BY <2>1 DEF force_row
  <2> QED
    BY <1>1, <1>3, <2>1, <2>2
<1>4. ASSUME NEW r \in Requests PROVE out'[r] \in Seq(Tokens)
  <2>1. out[r] \in Seq(Tokens)
    BY DEF StreamType
  <2>2. CASE r \in Range(rows)
    BY <1>3, <2>1, <2>2, AppendProperties
  <2>3. CASE r \notin Range(rows)
    BY <1>1, <2>1, <2>3
  <2> QED
    BY <2>2, <2>3
<1>5. out' \in [Requests -> Seq(Tokens)]
  BY <1>1, <1>4
<1>6. ASSUME NEW r \in Requests, r \notin Range(rows) PROVE out'[r] = out[r] /\ picks'[r] = picks[r]
  BY <1>1, <1>6
<1> QED
  BY <1>3, <1>5, <1>6

\* One more token.
LEMMA FirstPicksGrow ==
  ASSUME NEW r, out[r] \in Seq(Tokens), NEW id \in Tokens, out'[r] = Append(out[r], id)
  PROVE  FirstPicks(r)' = FirstPicks(r) \cup {Picked(id, u_at(r, Len(out[r])))}
<1> DEFINE m == Len(out[r])
           P(ids, i) == Picked(ids[i], u_at(r, i - 1))
<1>1. /\ m \in Nat /\ Len(out'[r]) = m + 1 /\ out'[r][m + 1] = id
      /\ \A i \in 1..m : out'[r][i] = out[r][i]
  BY LenProperties, AppendProperties
<1>2. FirstPicks(r)' = {P(out'[r], i) : i \in 1..m + 1} /\ FirstPicks(r) = {P(out[r], i) : i \in 1..m}
  BY <1>1 DEF FirstPicks
<1>3. \A i \in 1..m : P(out'[r], i) = P(out[r], i)
  BY <1>1
<1>4. P(out'[r], m + 1) = Picked(id, u_at(r, Len(out[r])))
  BY <1>1
<1>5. 1..m + 1 = (1..m) \cup {m + 1}
  BY <1>1
<1> HIDE DEF P
<1> QED
  BY <1>2, <1>3, <1>4, <1>5

LEMMA DecodeStep ==
  ASSUME StreamAssumption, TokensInv, Decode
  PROVE  TokensInv'
<1>1. /\ \A r \in Range(rows) : ~ Stopped(r)
      /\ stage' = stage /\ waiting' = waiting /\ rows' = rows /\ slots' = slots
      /\ answer' = answer /\ rollout' = rollout
  BY DEF Decode
<1>2. StreamType'
  BY <1>1, RowsDecode DEF TokensInv, StreamType
<1>3. EngineInv'
  <2>1. \A r \in Range(waiting) : r \in Requests /\ r \notin Range(rows)
    BY RangeOfSeq DEF TokensInv, StreamType, EngineInv
  <2>2. \A r \in Range(waiting) : out'[r] = out[r]
    BY <2>1, RowsDecode DEF TokensInv
  <2> QED
    BY <1>1, <2>2 DEF TokensInv, EngineInv
<1>4. ASSUME NEW r \in Requests PROVE RequestInv(r)'
  <2>1. RequestInv(r) /\ out[r] \in Seq(Tokens)
    BY DEF TokensInv, StreamType
  <2>2. CASE r \notin Range(rows)
    <3>1. out'[r] = out[r] /\ picks'[r] = picks[r]
      BY <2>2, RowsDecode DEF TokensInv
    <3> QED
      BY <1>1, <2>1, <3>1, RequestFrame
  <2>3. CASE r \in Range(rows)
    <3>1. stage[r[1]] = "phase1" /\ ~ Stopped(r)
      BY <1>1, <2>3 DEF TokensInv, EngineInv
    <3>2. PICK id \in Tokens : /\ out'[r] = Append(out[r], id)
                               /\ picks'[r] = picks[r] \cup {Picked(id, u_at(r, Len(out[r])))}
      BY <2>3, RowsDecode DEF TokensInv
    <3>3. /\ Len(out[r]) \in Nat /\ Len(out'[r]) = Len(out[r]) + 1
          /\ \A i \in 1..Len(out[r]) : out'[r][i] = out[r][i]
      BY <2>1, <3>2, LenProperties, AppendProperties
    <3>4. /\ answer[r] = NoAnswer /\ picks[r] = FirstPicks(r)
          /\ Len(out[r]) <= BFT_THINKING_BUDGET /\ EndsOnce(out[r])
      BY <2>1, <3>1 DEF RequestInv
    <3>5. \A i \in 1..Len(out[r]) : out[r][i] \notin EosIds
      <4>1. CASE out[r] = <<>>
        BY <4>1
      <4>2. CASE out[r] # <<>>
        <5>1. out[r][Len(out[r])] \notin EosIds
          BY <3>1, <4>2 DEF Stopped, Last
        <5>2. \A i \in 1..Len(out[r]) : i = Len(out[r]) \/ i \in 1..Len(out[r]) - 1
          BY <3>3
        <5> QED
          BY <3>4, <5>1, <5>2 DEF EndsOnce
      <4> QED
        BY <4>1, <4>2
    <3>6. EndsOnce(out'[r])
      BY <3>3, <3>5 DEF EndsOnce
    <3>7. Len(out'[r]) <= BFT_THINKING_BUDGET
      <4>1. BFT_THINKING_BUDGET \in Nat \ {0}
        BY DEF StreamAssumption
      <4>2. CASE out[r] = <<>>
        BY <3>3, <4>1, <4>2
      <4>3. CASE out[r] # <<>>
        <5>1. Len(out[r]) # BFT_THINKING_BUDGET
          BY <3>1, <4>3 DEF Stopped
        <5> QED
          BY <3>3, <3>4, <4>1, <5>1
      <4> QED
        BY <4>2, <4>3
    <3>8. picks'[r] = FirstPicks(r)'
      BY <2>1, <3>2, <3>4, FirstPicksGrow
    <3> QED
      BY <1>1, <3>1, <3>4, <3>6, <3>7, <3>8 DEF RequestInv
  <2> QED
    BY <2>2, <2>3
<1> QED
  BY <1>2, <1>3, <1>4 DEF TokensInv

-----------------------------------------------------------------------------
(***************************************************************************)
(* Phase 2.                                                                *)
(***************************************************************************)
\* A request of a prompt that is assembled: its rollout ends with phase 1 at the
\* EOS, or it is resumed.
Assembled(r) ==
  \/ /\ rollout'[r] = [tokens |-> out[r], span |-> NoSpan] /\ answer'[r] = answer[r]
     /\ EndsOnce(out[r])
  \/ /\ rollout'[r] = rollout[r] /\ ~ HasEos(out[r]) /\ Len(out[r]) = BFT_THINKING_BUDGET
     /\ \E row \in Nat : answer'[r] = Unfinished(out[r], row)

\* A completion is padded to the longest of its group; no EOS is in it only when
\* it is the longest itself.
LEMMA PaddedEnd ==
  ASSUME StreamAssumption, NEW r \in Requests, out[r] \in Seq(Tokens), Stopped(r),
         EndsOnce(out[r]), Len(out[r]) <= BFT_THINKING_BUDGET,
         NEW width \in Nat, Len(out[r]) <= width, width <= BFT_THINKING_BUDGET
  PROVE  LET gen == Padded(out[r], width)
         IN  IF HasEos(gen) THEN truncate_at_first_eos(gen) = out[r]
             ELSE gen = out[r] /\ ~ HasEos(out[r]) /\ Len(out[r]) = BFT_THINKING_BUDGET
<1> DEFINE ids == out[r]
           pad == [i \in 1..(width - Len(ids)) |-> PAD]
           gen == ids \o pad
           last == ids[Len(ids)]
<1>1. /\ Len(ids) \in Nat /\ Len(ids) > 0 /\ DOMAIN ids = 1..Len(ids) /\ BFT_THINKING_BUDGET \in Nat
      /\ width - Len(ids) \in Nat
  BY LenProperties, EmptySeq DEF Stopped, StreamAssumption
<1>2. pad \in Seq(Tokens) /\ Len(pad) = width - Len(ids)
  <2>1. PAD \in Tokens
    BY DEF Tokens, EosIds
  <2>2. pad \in [1..(width - Len(ids)) -> Tokens]
    BY <2>1
  <2> HIDE DEF pad
  <2> QED
    BY <1>1, <2>2, FunctionIsSeq
<1>3. \A i \in DOMAIN pad : pad[i] \in EosIds
  BY DEF EosIds
<1> HIDE DEF pad
<1>4. /\ gen \in Seq(Tokens) /\ Len(gen) = width /\ DOMAIN gen = 1..width
      /\ \A i \in 1..width : gen[i] = IF i <= Len(ids) THEN ids[i] ELSE pad[i - Len(ids)]
  <2>1. gen \in Seq(Tokens) /\ Len(gen) = Len(ids) + Len(pad)
    BY <1>2, ConcatProperties
  <2>2. \A i \in 1..Len(ids) + Len(pad) : gen[i] = IF i <= Len(ids) THEN ids[i] ELSE pad[i - Len(ids)]
    BY <1>2, ConcatProperties
  <2>3. Len(ids) + Len(pad) = width
    BY <1>1, <1>2
  <2> QED
    BY <2>1, <2>2, <2>3, LenProperties
<1>5. Padded(ids, width) = gen
  BY DEF Padded, pad
<1> HIDE DEF gen
<1>6. CASE last \in EosIds
  <2>1. /\ Len(gen) >= Len(ids) /\ \A i \in 1..Len(ids) : gen[i] = ids[i]
    BY <1>1, <1>4
  <2>2. truncate_at_first_eos(gen) = ids /\ HasEos(gen)
    BY <1>4, <1>6, <2>1, EndIsKept DEF Stopped
  <2> QED
    BY <1>5, <2>2
<1>7. CASE last \notin EosIds
  <2>1. Len(ids) = BFT_THINKING_BUDGET
    BY <1>7 DEF Stopped, Last
  <2>2. width = Len(ids)
    BY <1>1, <2>1
  <2>3. \A i \in 1..Len(ids) : gen[i] = ids[i]
    BY <1>1, <1>4, <2>2
  <2>4. gen = ids
    BY <1>4, <2>2, <2>3, SeqEqual
  <2>5. ~ HasEos(ids)
    <3> SUFFICES ASSUME NEW i \in 1..Len(ids) PROVE ids[i] \notin EosIds
      BY <1>1 DEF HasEos
    <3>1. i = Len(ids) \/ i \in 1..Len(ids) - 1
      BY <1>1
    <3> QED
      BY <1>7, <3>1 DEF EndsOnce
  <2> QED
    BY <1>5, <2>1, <2>4, <2>5
<1> QED
  BY <1>6, <1>7

LEMMA GroupIsFinite ==
  ASSUME StreamAssumption, NEW p
  PROVE  IsFiniteSet(Group(p)) /\ <<p, 0>> \in Group(p)
<1> DEFINE f == [k \in 0..M_ROLLOUTS - 1 |-> <<p, k>>]
<1>1. M_ROLLOUTS \in Nat \ {0}
  BY DEF StreamAssumption
<1>2. f \in Surjection(0..M_ROLLOUTS - 1, Group(p))
  <2>1. \A k \in 0..M_ROLLOUTS - 1 : f[k] = <<p, k>> /\ <<p, k>> \in Group(p)
    BY DEF Group
  <2>2. f \in [0..M_ROLLOUTS - 1 -> Group(p)]
    BY <2>1
  <2>3. \A r \in Group(p) : \E k \in 0..M_ROLLOUTS - 1 : r = <<p, k>>
    BY DEF Group
  <2> HIDE DEF f
  <2>4. \A r \in Group(p) : \E k \in 0..M_ROLLOUTS - 1 : f[k] = r
    BY <2>1, <2>3
  <2> QED
    BY <2>2, <2>4 DEF Surjection
<1>3. IsFiniteSet(0..M_ROLLOUTS - 1)
  <2>1. 0 \in Int /\ M_ROLLOUTS - 1 \in Int
    BY <1>1
  <2> QED
    BY <2>1, FS_Interval
<1> HIDE DEF f
<1>4. IsFiniteSet(Group(p))
  BY <1>2, <1>3, FS_Surjection
<1>5. <<p, 0>> \in Group(p)
  BY <1>1 DEF Group
<1> QED
  BY <1>4, <1>5

\* How a prompt is assembled.
LEMMA AssembleParts ==
  ASSUME StreamAssumption, TokensInv, NEW p \in BatchPrompts, Assemble(p)
  PROVE  /\ \A r \in Group(p) : Assembled(r) /\ out[r] # <<>>
         /\ \A r \in Requests \ Group(p) : rollout'[r] = rollout[r] /\ answer'[r] = answer[r]
         /\ \/ stage' = [stage EXCEPT ![p] = "phase2"]
            \/ /\ stage' = [stage EXCEPT ![p] = "done"]
               /\ \A r \in Group(p) : answer'[r] = answer[r]
         /\ answer' = [r \in Requests |-> answer'[r]]
<1>1. PICK included \in [Group(p) -> BOOLEAN] :
       LET ids == [r \in Group(p) |->
                     truncate_at_first_eos(_with_stop_token(Completion(r, included[r])))]
           width == CHOOSE n \in {Len(ids[r]) : r \in Group(p)} : \A r \in Group(p) : n >= Len(ids[r])
           gen == [r \in Group(p) |-> Padded(ids[r], width)]
           open == {r \in Group(p) : ~ HasEos(gen[r])}
           RowOf(r) == Cardinality({q \in open : q[2] < r[2]})
       IN  /\ rollout' = [r \in Requests |->
                            IF r \in Group(p) \ open
                              THEN [tokens |-> truncate_at_first_eos(gen[r]), span |-> NoSpan]
                              ELSE rollout[r]]
           /\ answer' = [r \in Requests |->
                           IF r \in open THEN Unfinished(gen[r], RowOf(r)) ELSE answer[r]]
           /\ stage' = [stage EXCEPT ![p] = IF open = {} THEN "done" ELSE "phase2"]
  BY DEF Assemble
<1>2. stage[p] = "phase1" /\ \A r \in Group(p) : Stopped(r)
  BY DEF Assemble
<1>3. ASSUME NEW r \in Group(p)
      PROVE  /\ r \in Requests /\ r[1] = p /\ out[r] \in Seq(Tokens) /\ EndsOnce(out[r])
             /\ Len(out[r]) <= BFT_THINKING_BUDGET /\ Len(out[r]) \in Nat /\ Len(out[r]) > 0
             /\ out[r] # <<>>
  <2>1. r \in Requests /\ r[1] = p
    BY DEF Group, Requests
  <2>2. out[r] \in Seq(Tokens) /\ RequestInv(r)
    BY <2>1 DEF TokensInv, StreamType
  <2>3. Len(out[r]) \in Nat /\ Len(out[r]) > 0 /\ out[r] # <<>>
    BY <1>2, <2>2, LenProperties, EmptySeq DEF Stopped
  <2> QED
    BY <1>2, <2>1, <2>2, <2>3 DEF RequestInv
<1> DEFINE ids == [r \in Group(p) |->
                     truncate_at_first_eos(_with_stop_token(Completion(r, included[r])))]
           width == CHOOSE n \in {Len(ids[r]) : r \in Group(p)} : \A r \in Group(p) : n >= Len(ids[r])
           gen == [r \in Group(p) |-> Padded(ids[r], width)]
           open == {r \in Group(p) : ~ HasEos(gen[r])}
           RowOf(r) == Cardinality({q \in open : q[2] < r[2]})
<1>4. ASSUME NEW r \in Group(p) PROVE ids[r] = out[r]
  <2>1. included[r] \in BOOLEAN
    OBVIOUS
  <2>2. truncate_at_first_eos(_with_stop_token(Completion(r, included[r]))) = out[r]
    BY <1>2, <1>3, <2>1, CompletionIsOut
  <2> QED
    BY <2>2
<1> HIDE DEF ids
<1>5. width \in 1..BFT_THINKING_BUDGET /\ \A r \in Group(p) : Len(out[r]) <= width
  <2> DEFINE lengths == {Len(ids[r]) : r \in Group(p)}
  <2>1. BFT_THINKING_BUDGET \in Nat
    BY DEF StreamAssumption
  <2>2. \A r \in Group(p) : Len(ids[r]) \in 1..BFT_THINKING_BUDGET
    BY <1>3, <1>4, <2>1
  <2>3. lengths \in SUBSET (1..BFT_THINKING_BUDGET) /\ lengths # {}
    BY <2>2, GroupIsFinite
  <2>4. \A r \in Group(p) : Len(ids[r]) \in lengths
    OBVIOUS
  <2> HIDE DEF lengths
  <2>5. Max(lengths) \in lengths /\ \A w \in lengths : w <= Max(lengths)
    BY <2>1, <2>3, MaxOfNumbers
  <2>6. \E n \in lengths : \A r \in Group(p) : n >= Len(ids[r])
    <3>1. \A r \in Group(p) : Max(lengths) >= Len(ids[r])
      <4> SUFFICES ASSUME NEW r \in Group(p) PROVE Max(lengths) >= Len(ids[r])
        OBVIOUS
      <4>1. Len(ids[r]) <= Max(lengths) /\ Len(ids[r]) \in 1..BFT_THINKING_BUDGET
        BY <2>2, <2>4, <2>5
      <4> QED
        BY <2>1, <2>3, <2>5, <4>1
    <3> QED
      BY <2>5, <3>1
  <2>7. width \in lengths /\ \A r \in Group(p) : width >= Len(ids[r])
    BY <2>6 DEF lengths
  <2> HIDE DEF width
  <2>8. ASSUME NEW r \in Group(p) PROVE Len(out[r]) <= width
    <3>1. width >= Len(out[r]) /\ width \in 1..BFT_THINKING_BUDGET /\ Len(out[r]) \in Nat
      BY <1>3, <1>4, <2>3, <2>7
    <3> QED
      BY <2>1, <3>1
  <2> QED
    BY <2>3, <2>7, <2>8
<1> HIDE DEF width
<1>6. ASSUME NEW r \in Group(p)
      PROVE  /\ gen[r] = Padded(out[r], width)
             /\ IF HasEos(gen[r]) THEN truncate_at_first_eos(gen[r]) = out[r]
                ELSE gen[r] = out[r] /\ ~ HasEos(out[r]) /\ Len(out[r]) = BFT_THINKING_BUDGET
  <2>1. gen[r] = Padded(out[r], width)
    BY <1>4
  <2>2. width \in Nat /\ width <= BFT_THINKING_BUDGET /\ Len(out[r]) <= width
    BY <1>5 DEF StreamAssumption
  <2>3. Stopped(r)
    BY <1>2
  <2>4. IF HasEos(Padded(out[r], width)) THEN truncate_at_first_eos(Padded(out[r], width)) = out[r]
        ELSE Padded(out[r], width) = out[r] /\ ~ HasEos(out[r]) /\ Len(out[r]) = BFT_THINKING_BUDGET
    BY <1>3, <2>2, <2>3, PaddedEnd
  <2> HIDE DEF gen
  <2> QED
    BY <2>1, <2>4
<1> HIDE DEF gen
<1>7. open \subseteq Group(p) /\ \A r \in Group(p) : r \in open <=> ~ HasEos(gen[r])
  OBVIOUS
<1>8. ASSUME NEW r \in open PROVE RowOf(r) \in Nat
  <2>1. {q \in open : q[2] < r[2]} \in SUBSET Group(p)
    OBVIOUS
  <2>2. IsFiniteSet({q \in open : q[2] < r[2]})
    BY <2>1, GroupIsFinite, FS_Subset
  <2> QED
    BY <2>2, FS_CardinalityType
<1>9. /\ rollout' = [r \in Requests |->
                       IF r \in Group(p) \ open
                         THEN [tokens |-> truncate_at_first_eos(gen[r]), span |-> NoSpan]
                         ELSE rollout[r]]
      /\ answer' = [r \in Requests |->
                      IF r \in open THEN Unfinished(gen[r], RowOf(r)) ELSE answer[r]]
      /\ stage' = [stage EXCEPT ![p] = IF open = {} THEN "done" ELSE "phase2"]
  BY <1>1 DEF ids, width, gen
<1> HIDE DEF open, RowOf
<1>10. ASSUME NEW r \in Group(p) PROVE Assembled(r) /\ (r \notin open => answer'[r] = answer[r])
  <2>1. r \in Requests /\ EndsOnce(out[r])
    BY <1>3
  <2>2. CASE r \in open
    <3>1. rollout'[r] = rollout[r] /\ answer'[r] = Unfinished(gen[r], RowOf(r))
      BY <1>9, <2>1, <2>2
    <3>2. gen[r] = out[r] /\ ~ HasEos(out[r]) /\ Len(out[r]) = BFT_THINKING_BUDGET
      BY <1>6, <1>7, <2>2
    <3>3. RowOf(r) \in Nat
      BY <1>8, <2>2
    <3> QED
      BY <2>2, <3>1, <3>2, <3>3 DEF Assembled
  <2>3. CASE r \notin open
    <3>1. rollout'[r] = [tokens |-> truncate_at_first_eos(gen[r]), span |-> NoSpan]
      BY <1>9, <2>1, <2>3
    <3>2. truncate_at_first_eos(gen[r]) = out[r]
      BY <1>6, <1>7, <2>3
    <3>3. answer'[r] = answer[r]
      BY <1>9, <2>1, <2>3
    <3> QED
      BY <2>1, <3>1, <3>2, <3>3 DEF Assembled
  <2> QED
    BY <2>2, <2>3
<1>11. \A r \in Requests \ Group(p) : rollout'[r] = rollout[r] /\ answer'[r] = answer[r]
  BY <1>7, <1>9
<1>12. open = {} => \A r \in Group(p) : answer'[r] = answer[r]
  BY <1>10
<1>13. answer' = [r \in Requests |-> answer'[r]]
  BY <1>9
<1>14. \A r \in Group(p) : out[r] # <<>>
  BY <1>3
<1> QED
  BY <1>9, <1>10, <1>11, <1>12, <1>13, <1>14

\* What is resumed: the tokens of phase 1 and, if they did not close the thinking,
\* the forced close after them.
LEMMA UnfinishedParts ==
  ASSUME StreamAssumption, NEW ids \in Seq(Tokens), ids # <<>>, Len(ids) = BFT_THINKING_BUDGET,
         NEW row \in Nat
  PROVE  LET u == Unfinished(ids, row)
         IN  /\ u \in Resumable /\ u # NoAnswer /\ u.tail = <<>>
             /\ \/ u.primed = ids /\ u.span = NoSpan
                \/ /\ u.primed = ids \o force_ids
                   /\ u.span = <<BFT_THINKING_BUDGET, BFT_THINKING_BUDGET + 2>>
<1>1. /\ ids \in Seq(Marks) /\ force_ids \in Seq(Marks) /\ Len(force_ids) = 2
      /\ Tokens \subseteq Marks
  BY SeqMonotonic DEF Marks, force_ids, Tokens
<1>2. /\ ids \o force_ids \in Seq(Marks) /\ Len(ids \o force_ids) = Len(ids) + 2
      /\ Len(ids) \in Nat /\ Len(ids) > 0
  <2>1. Len(ids) \in Nat /\ Len(ids) > 0
    BY LenProperties, EmptySeq
  <2>2. ids \o force_ids \in Seq(Marks) /\ Len(ids \o force_ids) = Len(ids) + Len(force_ids)
    BY <1>1, ConcatProperties
  <2> QED
    BY <1>1, <2>1, <2>2
<1>3. CASE \E i \in DOMAIN ids : ids[i] = "close"
  <2>1. Unfinished(ids, row) = [primed |-> ids, span |-> NoSpan, tail |-> <<>>, row |-> row]
    BY <1>3 DEF Unfinished, NoAnswer
  <2>2. ids # NoAnswer.primed
    BY DEF NoAnswer
  <2> QED
    BY <1>1, <2>1, <2>2 DEF Resumable, NoSpan, NoAnswer
<1>4. CASE ~ \E i \in DOMAIN ids : ids[i] = "close"
  <2>1. Unfinished(ids, row) =
          [primed |-> ids \o force_ids, span |-> <<Len(ids), Len(ids) + Len(force_ids)>>,
           tail |-> <<>>, row |-> row]
    BY <1>4 DEF Unfinished
  <2>2. ids \o force_ids # NoAnswer.primed
    BY <1>2 DEF NoAnswer
  <2>3. <<Len(ids), Len(ids) + Len(force_ids)>> = <<BFT_THINKING_BUDGET, BFT_THINKING_BUDGET + 2>>
    BY <1>1
  <2>4. <<BFT_THINKING_BUDGET, BFT_THINKING_BUDGET + 2>> \in Nat \X Nat
    BY <1>2
  <2> QED
    BY <1>2, <2>1, <2>2, <2>3, <2>4 DEF Resumable, NoAnswer
<1> QED
  BY <1>3, <1>4

LEMMA AssembleStep ==
  ASSUME StreamAssumption, TokensInv, NEW p \in BatchPrompts, Assemble(p)
  PROVE  TokensInv'
<1>1. /\ stage[p] = "phase1" /\ \A r \in Group(p) : r \notin Range(rows) /\ Stopped(r)
      /\ waiting' = waiting /\ rows' = rows /\ slots' = slots /\ out' = out /\ picks' = picks
  BY DEF Assemble
<1>2. \A r \in Requests : r \in Group(p) <=> r[1] = p
  BY DEF Requests, Group
<1>3. /\ \A r \in Group(p) : Assembled(r) /\ out[r] # <<>>
      /\ \A r \in Requests \ Group(p) : rollout'[r] = rollout[r] /\ answer'[r] = answer[r]
      /\ \/ stage' = [stage EXCEPT ![p] = "phase2"]
         \/ /\ stage' = [stage EXCEPT ![p] = "done"]
            /\ \A r \in Group(p) : answer'[r] = answer[r]
      /\ answer' = [r \in Requests |-> answer'[r]]
  BY AssembleParts
<1>4. stage \in [BatchPrompts -> {"new", "phase1", "phase2", "done"}] /\ stage' \in [BatchPrompts -> {"new", "phase1", "phase2", "done"}]
  BY <1>3 DEF TokensInv, StreamType
<1>5. stage'[p] \in {"phase2", "done"} /\ \A q \in BatchPrompts : q # p => stage'[q] = stage[q]
  BY <1>3, <1>4
<1>6. ASSUME NEW r \in Requests, r \in Group(p)
      PROVE  answer'[r] \in Resumable /\ RequestInv(r)'
  <2>1. /\ out[r] \in Seq(Tokens) /\ answer[r] \in Resumable /\ answer[r] = NoAnswer
        /\ picks[r] = FirstPicks(r) /\ r[1] = p
    BY <1>1, <1>2, <1>6 DEF TokensInv, StreamType, RequestInv
  <2>2. FirstPicks(r)' = FirstPicks(r)
    BY <1>1 DEF FirstPicks
  <2>3. CASE /\ rollout'[r] = [tokens |-> out[r], span |-> NoSpan] /\ answer'[r] = answer[r]
             /\ EndsOnce(out[r])
    <3>1. OwnPicks(r)'
      <4>1. OwnPicks(r)
        BY <2>1, FirstPicksOwn DEF TokensInv
      <4> QED
        BY <1>1, <4>1 DEF OwnPicks
    <3>2. Replays(r)'
      <4>1. DOMAIN out[r] = 1..Len(out[r]) /\ Len(out[r]) \in Nat
        BY <2>1, LenProperties
      <4>2. \A i \in DOMAIN out[r] : Picked(out[r][i], u_at(r, i - 1)) \in picks[r]
        BY <2>1, <4>1 DEF FirstPicks
      <4>3. \A i \in DOMAIN out[r] : out[r][i] \in EosIds => i = Len(out[r])
        <5>1. \A i \in DOMAIN out[r] : i = Len(out[r]) \/ i \in 1..Len(out[r]) - 1
          BY <4>1
        <5> QED
          BY <2>3, <5>1 DEF EndsOnce
      <4>4. rollout'[r].tokens = out[r] /\ rollout'[r].span = NoSpan
        BY <2>3
      <4> QED
        BY <1>1, <4>2, <4>3, <4>4 DEF Replays
    <3> QED
      BY <1>5, <2>1, <2>3, <3>1, <3>2 DEF RequestInv
  <2>4. CASE /\ rollout'[r] = rollout[r] /\ ~ HasEos(out[r]) /\ Len(out[r]) = BFT_THINKING_BUDGET
             /\ \E row \in Nat : answer'[r] = Unfinished(out[r], row)
    <3>1. PICK row \in Nat : answer'[r] = Unfinished(out[r], row)
      BY <2>4
    <3>2. /\ answer'[r] \in Resumable /\ answer'[r] # NoAnswer /\ answer'[r].tail = <<>>
          /\ \/ answer'[r].primed = out[r] /\ answer'[r].span = NoSpan
             \/ /\ answer'[r].primed = out[r] \o force_ids
                /\ answer'[r].span = <<BFT_THINKING_BUDGET, BFT_THINKING_BUDGET + 2>>
      <4> DEFINE u == Unfinished(out[r], row)
      <4>1. out[r] # <<>>
        BY <1>3, <1>6
      <4>2. /\ u \in Resumable /\ u # NoAnswer /\ u.tail = <<>>
            /\ \/ u.primed = out[r] /\ u.span = NoSpan
               \/ /\ u.primed = out[r] \o force_ids
                  /\ u.span = <<BFT_THINKING_BUDGET, BFT_THINKING_BUDGET + 2>>
        BY <2>1, <2>4, <4>1, UnfinishedParts
      <4> HIDE DEF u
      <4> QED
        BY <3>1, <4>2 DEF u
    <3>3. AnswerPicks(r)' = {}
      BY <3>2 DEF AnswerPicks, Drawn
    <3>4. Resumes(r)'
      BY <1>1, <2>1, <2>2, <2>4, <3>2, <3>3 DEF Resumes
    <3>5. stage'[r[1]] = "phase2"
      BY <1>3, <1>4, <1>6, <2>1, <3>2
    <3> QED
      BY <3>2, <3>4, <3>5 DEF RequestInv
  <2> QED
    BY <1>3, <1>6, <2>1, <2>3, <2>4 DEF Assembled
<1>7. ASSUME NEW r \in Requests, r \notin Group(p)
      PROVE  answer'[r] \in Resumable /\ RequestInv(r)'
  <2>1. r[1] \in BatchPrompts /\ r[1] # p
    BY <1>2, <1>7 DEF Requests
  <2>2. answer'[r] = answer[r] /\ rollout'[r] = rollout[r] /\ stage'[r[1]] = stage[r[1]]
    BY <1>3, <1>5, <1>7, <2>1
  <2> QED
    BY <1>1, <2>2, RequestFrame DEF TokensInv, StreamType
<1>8. StreamType'
  <2>1. answer' \in [Requests -> Resumable]
    BY <1>3, <1>6, <1>7
  <2> QED
    BY <1>1, <1>4, <2>1 DEF TokensInv, StreamType
<1>9. EngineInv'
  <2>1. ASSUME NEW r \in Range(rows) \cup Range(waiting) PROVE r \in Requests /\ r \notin Group(p)
    <3>1. r \in Requests
      BY RangeOfSeq DEF TokensInv, StreamType
    <3>2. ASSUME r \in Group(p) PROVE FALSE
      <4>1. r \in Range(waiting)
        BY <1>1, <3>2
      <4>2. out[r] = <<>>
        BY <4>1 DEF TokensInv, EngineInv
      <4> QED
        BY <1>1, <3>2, <4>2 DEF Stopped
    <3> QED
      BY <3>1, <3>2
  <2>2. ASSUME NEW r \in Range(rows) \cup Range(waiting) PROVE stage'[r[1]] = stage[r[1]]
    <3>1. r[1] \in BatchPrompts /\ r[1] # p
      BY <1>2, <2>1 DEF Requests
    <3> QED
      BY <1>5, <3>1
  <2> QED
    BY <1>1, <2>2 DEF TokensInv, EngineInv
<1> QED
  BY <1>6, <1>7, <1>8, <1>9 DEF TokensInv

\* A row of the proof model gets its own pick at the offset of what it resumes,
\* or the pad once it has met an EOS.
LEMMA RowsAnswer ==
  ASSUME StreamAssumption, TokensInv, NEW p \in BatchPrompts, Answer(p)
  PROVE  /\ answer' = [r \in Requests |-> answer'[r]]
         /\ \A r \in Requests :
              IF r \in Group(p) /\ answer[r] # NoAnswer
                THEN \E id \in Tokens :
                       /\ answer'[r] = [answer[r] EXCEPT !.tail = Append(answer[r].tail, id)]
                       /\ picks'[r] =
                            IF HasEos(answer[r].tail) THEN picks[r]
                            ELSE picks[r] \cup
                                   {Picked(id, u_at(r, Len(answer[r].primed) + Len(answer[r].tail)))}
                ELSE answer'[r] = answer[r] /\ picks'[r] = picks[r]
<1> DEFINE index == [r \in Requests |-> r[2]]
           offset(r) == Len(answer[r].primed) + Len(answer[r].tail)
           open == {r \in InAnswer(p) : ~ HasEos(answer[r].tail)}
<1>1. PICK ids \in [InAnswer(p) -> Tokens] :
        /\ answer' = [r \in Requests |->
                        IF r \in InAnswer(p)
                          THEN [answer[r] EXCEPT !.tail = Append(@, IF r \in open THEN ids[r] ELSE PAD)]
                          ELSE answer[r]]
        /\ picks' = [r \in Requests |->
                       IF r \in InAnswer(p) /\ r \in open
                         THEN picks[r] \cup {Picked(ids[r], u_at(<<p, index[r]>>, offset(r)))}
                         ELSE picks[r]]
  BY DEF Answer, AnswerWith
<1>2. \A r \in Requests : r \in InAnswer(p) <=> r \in Group(p) /\ answer[r] # NoAnswer
  BY DEF InAnswer
<1>3. ASSUME NEW r \in Requests, r \in InAnswer(p)
      PROVE  \E id \in Tokens :
               /\ answer'[r] = [answer[r] EXCEPT !.tail = Append(answer[r].tail, id)]
               /\ picks'[r] =
                    IF HasEos(answer[r].tail) THEN picks[r]
                    ELSE picks[r] \cup
                           {Picked(id, u_at(r, Len(answer[r].primed) + Len(answer[r].tail)))}
  <2>1. <<p, index[r]>> = r
    BY <1>3 DEF InAnswer, Group, Requests
  <2>2. CASE HasEos(answer[r].tail)
    <3>1. r \notin open /\ PAD \in Tokens
      BY <2>2 DEF Tokens, EosIds
    <3> QED
      BY <1>1, <1>3, <2>2, <3>1
  <2>3. CASE ~ HasEos(answer[r].tail)
    <3>1. r \in open /\ ids[r] \in Tokens
      BY <1>3, <2>3
    <3> QED
      BY <1>1, <1>3, <2>1, <2>3, <3>1
  <2> QED
    BY <2>2, <2>3
<1>4. ASSUME NEW r \in Requests, r \notin InAnswer(p)
      PROVE  answer'[r] = answer[r] /\ picks'[r] = picks[r]
  BY <1>1, <1>4
<1>5. answer' = [r \in Requests |-> answer'[r]]
  BY <1>1
<1> QED
  BY <1>2, <1>3, <1>4, <1>5

\* One more token of the answer is drawn unless an EOS came before it.
LEMMA DrawnGrows ==
  ASSUME NEW tail \in Seq(Tokens), NEW id \in Tokens
  PROVE  Drawn(Append(tail, id)) =
           IF HasEos(tail) THEN Drawn(tail) ELSE Drawn(tail) \cup {Len(tail) + 1}
<1> DEFINE m == Len(tail)
           next == Append(tail, id)
<1>1. /\ m \in Nat /\ DOMAIN tail = 1..m /\ Len(next) = m + 1
      /\ \A i \in 1..m : next[i] = tail[i]
  BY LenProperties, AppendProperties
<1> HIDE DEF m, next
<1>2. ASSUME NEW i \in 1..m PROVE i \in Drawn(next) <=> i \in Drawn(tail)
  <2>1. i \in 1..m + 1 /\ \A k \in 1..i - 1 : k \in 1..m
    BY <1>1
  <2>2. \A k \in 1..i - 1 : next[k] = tail[k]
    BY <1>1, <2>1
  <2> QED
    BY <1>1, <2>1, <2>2 DEF Drawn, m
<1>3. m + 1 \in Drawn(next) <=> ~ HasEos(tail)
  <2>1. (m + 1) - 1 = m /\ m + 1 \in 1..m + 1
    BY <1>1
  <2>2. m + 1 \in Drawn(next) <=> \A k \in 1..m : next[k] \notin EosIds
    BY <1>1, <2>1 DEF Drawn
  <2>3. HasEos(tail) <=> \E k \in 1..m : tail[k] \in EosIds
    BY <1>1 DEF HasEos
  <2> QED
    BY <1>1, <2>2, <2>3
<1>4. Drawn(next) \subseteq 1..m + 1 /\ Drawn(tail) \subseteq 1..m /\ 1..m + 1 = (1..m) \cup {m + 1}
  BY <1>1 DEF Drawn, m
<1>5. m + 1 \notin 1..m
  BY <1>1
<1>6. CASE HasEos(tail)
  <2>1. \A i : i \in Drawn(next) <=> i \in Drawn(tail)
    BY <1>2, <1>3, <1>4, <1>5, <1>6
  <2>2. Drawn(next) = Drawn(tail)
    BY <2>1
  <2> QED
    BY <1>6, <2>2 DEF next
<1>7. CASE ~ HasEos(tail)
  <2>1. \A i : i \in Drawn(next) <=> i \in Drawn(tail) \cup {m + 1}
    BY <1>2, <1>3, <1>4, <1>5, <1>7
  <2>2. Drawn(next) = Drawn(tail) \cup {m + 1}
    BY <2>1
  <2> QED
    BY <1>7, <2>2 DEF next, m
<1> QED
  BY <1>6, <1>7

LEMMA AnswerPicksGrow ==
  ASSUME NEW r, answer[r] \in Resumable, NEW id \in Tokens,
         answer'[r] = [answer[r] EXCEPT !.tail = Append(answer[r].tail, id)]
  PROVE  AnswerPicks(r)' =
           IF HasEos(answer[r].tail) THEN AnswerPicks(r)
           ELSE AnswerPicks(r) \cup
                  {Picked(id, u_at(r, Len(answer[r].primed) + Len(answer[r].tail)))}
<1> DEFINE tail == answer[r].tail
           n == Len(answer[r].primed)
           m == Len(tail)
           next == Append(tail, id)
           P(ids, j) == Picked(ids[j], u_at(r, n + j - 1))
<1>1. /\ tail \in Seq(Tokens) /\ answer[r].primed \in Seq(Marks)
      /\ answer'[r].tail = next /\ answer'[r].primed = answer[r].primed
  BY DEF Resumable
<1>2. /\ m \in Nat /\ n \in Nat /\ Len(next) = m + 1 /\ next[m + 1] = id
      /\ \A j \in 1..m : next[j] = tail[j]
  BY <1>1, LenProperties, AppendProperties
<1>3. Drawn(tail) \subseteq 1..m
  BY DEF Drawn
<1>4. Drawn(next) = IF HasEos(tail) THEN Drawn(tail) ELSE Drawn(tail) \cup {m + 1}
  BY <1>1, DrawnGrows
<1>5. AnswerPicks(r)' = {P(next, j) : j \in Drawn(next)} /\ AnswerPicks(r) = {P(tail, j) : j \in Drawn(tail)}
  BY <1>1 DEF AnswerPicks, Drawn
<1>6. \A j \in Drawn(tail) : P(next, j) = P(tail, j)
  BY <1>2, <1>3
<1>7. P(next, m + 1) = Picked(id, u_at(r, n + m))
  <2>1. n + (m + 1) - 1 = n + m
    BY <1>2
  <2> QED
    BY <1>2, <2>1
<1> HIDE DEF P, next, tail, n, m
<1>8. CASE HasEos(tail)
  BY <1>4, <1>5, <1>6, <1>8 DEF tail
<1>9. CASE ~ HasEos(tail)
  <2>1. {P(next, j) : j \in Drawn(next)} = {P(tail, j) : j \in Drawn(tail)} \cup {P(next, m + 1)}
    BY <1>4, <1>6, <1>9
  <2>2. AnswerPicks(r)' = AnswerPicks(r) \cup {Picked(id, u_at(r, n + m))}
    BY <1>5, <1>7, <2>1
  <2> QED
    BY <1>9, <2>2 DEF tail, n, m
<1> QED
  BY <1>8, <1>9

LEMMA AnswerStep ==
  ASSUME StreamAssumption, TokensInv, NEW p \in BatchPrompts, Answer(p)
  PROVE  TokensInv'
<1>1. /\ stage[p] = "phase2" /\ stage' = stage /\ waiting' = waiting /\ rows' = rows
      /\ slots' = slots /\ out' = out /\ rollout' = rollout
  BY DEF Answer, AnswerWith
<1>2. ASSUME NEW r \in Requests PROVE answer'[r] \in Resumable /\ RequestInv(r)'
  <2>1. RequestInv(r) /\ answer[r] \in Resumable
    BY DEF TokensInv, StreamType
  <2>2. CASE ~ (r \in Group(p) /\ answer[r] # NoAnswer)
    <3>1. answer'[r] = answer[r] /\ picks'[r] = picks[r]
      BY <2>2, RowsAnswer
    <3> QED
      BY <1>1, <2>1, <3>1, RequestFrame
  <2>3. CASE r \in Group(p) /\ answer[r] # NoAnswer
    <3>1. PICK id \in Tokens :
            /\ answer'[r] = [answer[r] EXCEPT !.tail = Append(answer[r].tail, id)]
            /\ picks'[r] =
                 IF HasEos(answer[r].tail) THEN picks[r]
                 ELSE picks[r] \cup
                        {Picked(id, u_at(r, Len(answer[r].primed) + Len(answer[r].tail)))}
      BY <2>3, RowsAnswer
    <3>2. stage[r[1]] = "phase2" /\ Resumes(r)
      BY <1>1, <2>1, <2>3 DEF Group, RequestInv
    <3>3. /\ answer'[r].primed = answer[r].primed /\ answer'[r].span = answer[r].span
          /\ answer'[r].tail = Append(answer[r].tail, id)
      BY <2>1, <3>1 DEF Resumable
    <3>4. Append(answer[r].tail, id) \in Seq(Tokens) /\ Append(answer[r].tail, id) # <<>>
      <4>1. answer[r].tail \in Seq(Tokens)
        BY <2>1 DEF Resumable
      <4> QED
        BY <4>1, AppendProperties
    <3>5. answer'[r] \in Resumable /\ answer'[r] # NoAnswer
      <4>1. NoAnswer.tail = <<>>
        BY DEF NoAnswer
      <4>2. answer'[r] # NoAnswer
        BY <3>3, <3>4, <4>1
      <4> DEFINE tail == Append(answer[r].tail, id)
      <4>3. tail \in Seq(Tokens)
        BY <3>4
      <4> HIDE DEF tail
      <4>4. [answer[r] EXCEPT !.tail = tail] \in Resumable
        BY <2>1, <4>3 DEF Resumable
      <4> QED
        BY <3>1, <4>2, <4>4 DEF tail
    <3>6. FirstPicks(r)' = FirstPicks(r)
      BY <1>1 DEF FirstPicks
    <3>7. picks'[r] = FirstPicks(r)' \cup AnswerPicks(r)'
      <4>1. AnswerPicks(r)' =
              IF HasEos(answer[r].tail) THEN AnswerPicks(r)
              ELSE AnswerPicks(r) \cup
                     {Picked(id, u_at(r, Len(answer[r].primed) + Len(answer[r].tail)))}
        BY <2>1, <3>1, AnswerPicksGrow
      <4>2. picks[r] = FirstPicks(r) \cup AnswerPicks(r)
        BY <3>2 DEF Resumes
      <4> QED
        BY <3>1, <3>6, <4>1, <4>2
    <3>8. Resumes(r)'
      BY <1>1, <3>2, <3>3, <3>7 DEF Resumes
    <3> QED
      BY <1>1, <3>2, <3>5, <3>8 DEF RequestInv
  <2> QED
    BY <2>2, <2>3
<1>3. answer' \in [Requests -> Resumable]
  BY <1>2, RowsAnswer
<1>4. StreamType'
  BY <1>1, <1>3 DEF TokensInv, StreamType
<1>5. EngineInv'
  BY <1>1 DEF TokensInv, EngineInv
<1> QED
  BY <1>2, <1>4, <1>5 DEF TokensInv

\* The tokens that are resumed: those of phase 1 and the forced close, if any.
Primed(r, primed, L) ==
  /\ Len(primed) \in Nat /\ L \in Nat
  /\ \A i \in 1..L : primed[i] = out[r][i]
  /\ \A i \in 1..Len(primed) : primed[i] \notin EosIds
  /\ \/ Len(primed) = L /\ answer[r].span = NoSpan
     \/ /\ Len(primed) = L + 2 /\ answer[r].span = <<L, L + 2>>
        /\ primed[L + 1] = "close" /\ primed[L + 2] = "boxed"

LEMMA PrimedParts ==
  ASSUME StreamAssumption, NEW r, out[r] \in Seq(Tokens), answer[r] \in Resumable, Resumes(r)
  PROVE  Primed(r, answer[r].primed, BFT_THINKING_BUDGET)
<1> DEFINE primed == answer[r].primed
           L == BFT_THINKING_BUDGET
<1>1. /\ L \in Nat /\ Len(out[r]) = L /\ DOMAIN out[r] = 1..L /\ out[r] \in Seq(Marks)
      /\ Tokens \subseteq Marks
  BY SeqMonotonic, LenProperties DEF StreamAssumption, Resumes, Marks
<1>2. \A i \in 1..L : out[r][i] \notin EosIds
  BY <1>1 DEF Resumes, HasEos
<1>3. CASE primed = out[r] /\ answer[r].span = NoSpan
  BY <1>1, <1>2, <1>3 DEF Primed
<1>4. CASE primed = out[r] \o force_ids /\ answer[r].span = <<L, L + 2>>
  <2>1. force_ids \in Seq(Marks) /\ Len(force_ids) = 2 /\ force_ids[1] = "close" /\ force_ids[2] = "boxed"
    BY DEF force_ids, Marks, Tokens
  <2>2. "close" \notin EosIds /\ "boxed" \notin EosIds
    BY DEF StreamAssumption, EosIds
  <2>3. Len(out[r] \o force_ids) = Len(out[r]) + Len(force_ids)
    <3>1. out[r] \in Seq(Marks) /\ force_ids \in Seq(Marks)
      BY <1>1, <2>1
    <3> QED
      BY ONLY <3>1, ConcatProperties
  <2>4. \A i \in 1..Len(out[r]) + Len(force_ids) :
          (out[r] \o force_ids)[i] = IF i <= Len(out[r]) THEN out[r][i] ELSE force_ids[i - Len(out[r])]
    <3>1. out[r] \in Seq(Marks) /\ force_ids \in Seq(Marks)
      BY <1>1, <2>1
    <3> QED
      BY ONLY <3>1, ConcatProperties
  <2>5. \A i \in 1..L + 2 : primed[i] = IF i <= L THEN out[r][i] ELSE force_ids[i - L]
    BY <1>1, <1>4, <2>1, <2>4
  <2>9. Len(primed) = L + 2
    BY <1>1, <1>4, <2>1, <2>3
  <2> HIDE DEF primed, L
  <2>6. \A i \in 1..L : primed[i] = out[r][i]
    BY <1>1, <2>5
  <2>7. primed[L + 1] = "close" /\ primed[L + 2] = "boxed"
    <3>1. L + 1 \in 1..L + 2 /\ L + 2 \in 1..L + 2 /\ ~ (L + 1 <= L) /\ ~ (L + 2 <= L)
          /\ (L + 1) - L = 1 /\ (L + 2) - L = 2
      BY <1>1
    <3> QED
      BY <2>1, <2>5, <3>1
  <2>8. ASSUME NEW i \in 1..L + 2 PROVE primed[i] \notin EosIds
    <3>1. i \in 1..L \/ i = L + 1 \/ i = L + 2
      BY <1>1
    <3> QED
      BY <1>2, <2>2, <2>6, <2>7, <3>1
  <2> QED
    <3>1. \A i \in 1..Len(primed) : primed[i] \notin EosIds
      BY <2>8, <2>9
    <3>2. Primed(r, primed, L)
      BY <1>1, <1>4, <2>6, <2>7, <2>9, <3>1 DEF Primed
    <3> QED
      BY <3>2 DEF primed, L
<1> QED
  BY <1>3, <1>4 DEF Resumes

\* The picks of both phases are of one stream, each at a position of its own.
LEMMA ResumedPicksOwn ==
  ASSUME StreamAssumption, NEW r, out[r] \in Seq(Tokens), answer[r] \in Resumable, Resumes(r)
  PROVE  OwnPicks(r)
<1> DEFINE primed == answer[r].primed
           tail == answer[r].tail
           L == BFT_THINKING_BUDGET
           n == Len(primed)
<1>1. n \in Nat /\ L \in Nat /\ L <= n /\ Len(out[r]) = L
  BY PrimedParts DEF Resumes, Primed
<1>2. tail \in Seq(Tokens) /\ Drawn(tail) \subseteq 1..Len(tail) /\ Len(tail) \in Nat
  BY LenProperties DEF Resumable, Drawn
<1> DEFINE First(d) == \E i \in 1..L : d = Picked(out[r][i], u_at(r, i - 1))
           Second(d) == \E j \in Drawn(tail) : d = Picked(tail[j], u_at(r, n + j - 1))
<1>3. \A d \in picks[r] : First(d) \/ Second(d)
  BY <1>1 DEF Resumes, FirstPicks, AnswerPicks
<1>4. \A d : First(d) => d.u.stream = r /\ d.u.t \in 0..L - 1 /\ d.id = out[r][d.u.t + 1]
  <2> SUFFICES ASSUME NEW d, NEW i \in 1..L, d = Picked(out[r][i], u_at(r, i - 1))
               PROVE  d.u.stream = r /\ d.u.t \in 0..L - 1 /\ d.id = out[r][d.u.t + 1]
    OBVIOUS
  <2>1. d.u.stream = r /\ d.u.t = i - 1 /\ d.id = out[r][i]
    BY DEF Picked, u_at
  <2>2. i - 1 \in 0..L - 1 /\ (i - 1) + 1 = i
    BY <1>1
  <2> QED
    BY <2>1, <2>2
<1>5. \A d : Second(d) => d.u.stream = r /\ d.u.t \in Nat /\ d.u.t >= n /\ d.id = tail[d.u.t - n + 1]
  <2> SUFFICES ASSUME NEW d, NEW j \in Drawn(tail), d = Picked(tail[j], u_at(r, n + j - 1))
               PROVE  d.u.stream = r /\ d.u.t \in Nat /\ d.u.t >= n /\ d.id = tail[d.u.t - n + 1]
    OBVIOUS
  <2>1. d.u.stream = r /\ d.u.t = n + j - 1 /\ d.id = tail[j]
    BY DEF Picked, u_at
  <2>2. n + j - 1 \in Nat /\ n + j - 1 >= n /\ (n + j - 1) - n + 1 = j
    BY <1>1, <1>2
  <2> QED
    BY <2>1, <2>2
<1>8. \A d : First(d) \/ Second(d) => d = Picked(d.id, d.u)
  BY DEF Picked
<1> HIDE DEF First, Second
<1>6. ASSUME NEW d \in picks[r], NEW e \in picks[r], d.u = e.u PROVE d = e
  <2>1. (First(d) \/ Second(d)) /\ (First(e) \/ Second(e))
    BY <1>3
  <2>2. d.id = e.id
    <3>1. CASE First(d) /\ First(e)
      BY <1>4, <1>6, <3>1
    <3>2. CASE Second(d) /\ Second(e)
      BY <1>5, <1>6, <3>2
    <3>3. ASSUME NEW x, NEW y, First(x), Second(y) PROVE x.u.t # y.u.t
      <4>1. x.u.t \in 0..L - 1 /\ y.u.t \in Nat /\ y.u.t >= n
        BY <1>4, <1>5, <3>3
      <4> QED
        BY <1>1, <4>1
    <3> QED
      BY <1>6, <2>1, <3>1, <3>2, <3>3
  <2>3. d = Picked(d.id, d.u) /\ e = Picked(e.id, e.u)
    BY <1>8, <2>1
  <2> QED
    BY <1>6, <2>2, <2>3
<1>7. \A d \in picks[r] : d.u.stream = r
  BY <1>3, <1>4, <1>5
<1> QED
  BY <1>6, <1>7 DEF OwnPicks

\* What is finished replays.
LEMMA FinishedReplays ==
  ASSUME StreamAssumption, NEW r, out[r] \in Seq(Tokens), answer[r] \in Resumable, Resumes(r),
         rollout'[r] = [tokens |-> answer[r].primed \o truncate_at_first_eos(answer[r].tail),
                        span |-> answer[r].span],
         picks'[r] = picks[r]
  PROVE  Replays(r)'
<1> DEFINE primed == answer[r].primed
           tail == answer[r].tail
           L == BFT_THINKING_BUDGET
           n == Len(primed)
           kept == truncate_at_first_eos(tail)
           tokens == primed \o kept
           span == answer[r].span
<1>1. /\ n \in Nat /\ L \in Nat /\ L <= n /\ Len(out[r]) = L
      /\ \A i \in 1..L : primed[i] = out[r][i]
      /\ \A i \in 1..n : primed[i] \notin EosIds
      /\ \/ n = L /\ span = NoSpan
         \/ /\ n = L + 2 /\ span = <<L, L + 2>>
            /\ primed[L + 1] = "close" /\ primed[L + 2] = "boxed"
  BY PrimedParts DEF Resumes, Primed
<1>2. tail \in Seq(Tokens) /\ primed \in Seq(Marks) /\ Len(tail) \in Nat /\ tail \in Seq(Marks)
  BY SeqMonotonic, LenProperties DEF Resumable, Marks
<1>3. PICK m : Kept(tail, m)
  BY <1>2, TruncateKeeps
<1>4. /\ m \in 0..Len(tail) /\ kept = SubSeq(tail, 1, m) /\ 1..m = Drawn(tail)
  BY <1>3 DEF Kept
<1>5. kept \in Seq(Marks) /\ Len(kept) = m /\ \A j \in 1..m : kept[j] = tail[j]
  <2>1. \A j \in 1..m : tail[j] \in Marks
    BY <1>2, <1>4, ElementOfSeq
  <2>2. m \in Int /\ 1 \in Int /\ m - 1 + 1 = m
    BY <1>4
  <2>3. /\ SubSeq(tail, 1, m) \in Seq(Marks)
        /\ Len(SubSeq(tail, 1, m)) = IF 1 <= m THEN m - 1 + 1 ELSE 0
        /\ \A j \in 1..m - 1 + 1 : SubSeq(tail, 1, m)[j] = tail[1 + j - 1]
    BY <2>1, <2>2, SubSeqProperties
  <2> HIDE DEF kept
  <2> QED
    BY <1>4, <2>2, <2>3
<1> HIDE DEF kept
<1>6. /\ tokens \in Seq(Marks) /\ Len(tokens) = n + m /\ DOMAIN tokens = 1..n + m
      /\ \A i \in 1..n + m : tokens[i] = IF i <= n THEN primed[i] ELSE kept[i - n]
  <2>1. tokens \in Seq(Marks) /\ Len(tokens) = Len(primed) + Len(kept)
    BY <1>2, <1>5, ConcatProperties
  <2>2. \A i \in 1..Len(primed) + Len(kept) : tokens[i] = IF i <= n THEN primed[i] ELSE kept[i - n]
    BY <1>2, <1>5, ConcatProperties
  <2> HIDE DEF tokens
  <2> QED
    BY <1>5, <2>1, <2>2, LenProperties
<1>7. rollout'[r].tokens = tokens /\ rollout'[r].span = span
  <2>1. rollout'[r] = [tokens |-> tokens, span |-> span]
    BY Zenon DEF kept
  <2>2. \A x, a, b : x = [tokens |-> a, span |-> b] => x.tokens = a /\ x.span = b
    OBVIOUS
  <2> HIDE DEF tokens, span
  <2> QED
    BY <2>1, <2>2, Zenon
<1>8. picks[r] = FirstPicks(r) \cup AnswerPicks(r)
  BY DEF Resumes
<1> HIDE DEF tokens, span, n, primed, L
<1>9. \A i \in 1..L : Picked(out[r][i], u_at(r, i - 1)) \in picks[r]
  BY <1>1, <1>8 DEF FirstPicks
<1>10. \A j \in 1..m : Picked(tail[j], u_at(r, n + j - 1)) \in picks[r]
  BY <1>4, <1>8 DEF AnswerPicks, n, primed
<1>11. ASSUME NEW i \in 1..n + m
       PROVE  (span[1] < i /\ i <= span[2]) \/ Picked(tokens[i], u_at(r, i - 1)) \in picks[r]
  <2>1. CASE i <= L
    <3>1. i \in 1..L /\ tokens[i] = out[r][i]
      BY <1>1, <1>6, <2>1
    <3> QED
      BY <1>9, <3>1
  <2>2. CASE L < i /\ i <= n
    <3>1. span[1] = L /\ span[2] = n
      BY <1>1, <1>4, <2>2
    <3> QED
      BY <2>2, <3>1
  <2>3. CASE n < i
    <3>1. i - n \in 1..m /\ n + (i - n) - 1 = i - 1 /\ ~ (i <= n)
      BY <1>1, <1>4, <2>3
    <3>2. tokens[i] = tail[i - n]
      BY <1>5, <1>6, <3>1
    <3>3. Picked(tail[i - n], u_at(r, n + (i - n) - 1)) \in picks[r]
      BY <1>10, <3>1
    <3> QED
      BY <3>1, <3>2, <3>3
  <2> QED
    BY <1>1, <1>4, <2>1, <2>2, <2>3
<1>12. span # NoSpan => span[1] = L /\ SubSeq(tokens, span[1] + 1, span[2]) = force_ids
  <2> SUFFICES ASSUME span # NoSpan
               PROVE  span[1] = L /\ SubSeq(tokens, span[1] + 1, span[2]) = force_ids
    OBVIOUS
  <2>1. /\ n = L + 2 /\ span[1] = L /\ span[2] = L + 2
        /\ primed[L + 1] = "close" /\ primed[L + 2] = "boxed"
    BY <1>1
  <2>2. tokens[L + 1] = "close" /\ tokens[L + 2] = "boxed"
    <3>1. L + 1 \in 1..n + m /\ L + 2 \in 1..n + m /\ L + 1 <= n /\ L + 2 <= n
      BY <1>1, <1>4, <2>1
    <3> QED
      BY <1>6, <2>1, <3>1
  <2>3. PICK a \in Nat : a = L + 1
    BY <1>1
  <2>4. PICK b \in Nat : b = L + 2
    BY <1>1
  <2>5. a <= b /\ b - a + 1 = 2 /\ a + 1 = b /\ \A i \in a..b : i \in 1..n + m
    BY <1>1, <1>4, <2>1, <2>3, <2>4
  <2>6. \A i \in a..b : tokens[i] \in Marks
    BY <1>6, <2>5, ElementOfSeq
  <2>7. /\ SubSeq(tokens, a, b) \in Seq(Marks)
        /\ Len(SubSeq(tokens, a, b)) = IF a <= b THEN b - a + 1 ELSE 0
        /\ \A i \in 1..b - a + 1 : SubSeq(tokens, a, b)[i] = tokens[a + i - 1]
    BY <2>6, SubSeqProperties
  <2>8. force_ids \in Seq(Marks) /\ Len(force_ids) = 2 /\ force_ids[1] = "close" /\ force_ids[2] = "boxed"
    BY DEF force_ids, Marks, Tokens
  <2>9. SubSeq(tokens, a, b)[1] = "close" /\ SubSeq(tokens, a, b)[2] = "boxed"
    <3>1. 1 \in 1..b - a + 1 /\ 2 \in 1..b - a + 1 /\ a + 1 - 1 = a /\ a + 2 - 1 = b
      BY <2>5
    <3>2. SubSeq(tokens, a, b)[1] = tokens[a] /\ SubSeq(tokens, a, b)[2] = tokens[b]
      BY <2>7, <3>1
    <3> QED
      BY <2>2, <2>3, <2>4, <3>2
  <2>10. \A i \in 1..2 : i = 1 \/ i = 2
    OBVIOUS
  <2>11. SubSeq(tokens, a, b) = force_ids
    <3>1. Len(SubSeq(tokens, a, b)) = 2
      BY <2>5, <2>7
    <3>2. \A i \in 1..2 : SubSeq(tokens, a, b)[i] = force_ids[i]
      BY <2>8, <2>9, <2>10
    <3> QED
      BY <2>7, <2>8, <3>1, <3>2, SeqEqual
  <2> QED
    BY <2>1, <2>3, <2>4, <2>11
<1>13. ASSUME NEW i \in 1..n + m, tokens[i] \in EosIds PROVE i = n + m
  <2>1. ~ (i <= n)
    BY <1>1, <1>6, <1>13
  <2>2. i - n \in 1..m
    BY <1>1, <1>4, <2>1
  <2>3. tail[i - n] \in EosIds
    BY <1>5, <1>6, <1>13, <2>1, <2>2
  <2>4. ASSUME i - n < m PROVE FALSE
    <3>1. m \in 1..m /\ i - n \in 1..m - 1
      BY <1>4, <2>2, <2>4
    <3>2. m \in Drawn(tail)
      BY <1>4, <3>1
    <3>3. tail[i - n] \notin EosIds
      BY <3>1, <3>2 DEF Drawn
    <3> QED
      BY <2>3, <3>3
  <2> QED
    BY <1>1, <1>4, <2>2, <2>4
<1> HIDE DEF tail
<1> QED
  BY <1>6, <1>7, <1>11, <1>12, <1>13 DEF Replays, L

LEMMA FinishStep ==
  ASSUME StreamAssumption, TokensInv, NEW p \in BatchPrompts, Finish(p)
  PROVE  TokensInv'
<1>1. /\ stage[p] = "phase2" /\ stage' = [stage EXCEPT ![p] = "done"]
      /\ rollout' = [r \in Requests |->
                       IF r \in InAnswer(p)
                         THEN [tokens |-> answer[r].primed \o truncate_at_first_eos(answer[r].tail),
                               span |-> answer[r].span]
                         ELSE rollout[r]]
      /\ answer' = [r \in Requests |-> IF r \in Group(p) THEN NoAnswer ELSE answer[r]]
      /\ waiting' = waiting /\ rows' = rows /\ slots' = slots /\ out' = out /\ picks' = picks
  BY DEF Finish
<1>2. \A r \in Requests : r \in Group(p) <=> r[1] = p
  BY DEF Requests, Group
<1>3. stage \in [BatchPrompts -> {"new", "phase1", "phase2", "done"}]
  BY DEF TokensInv, StreamType
<1>4. NoAnswer \in Resumable
  <2>1. <<>> \in Seq(Marks) /\ <<>> \in Seq(Tokens)
    OBVIOUS
  <2> QED
    BY <2>1 DEF NoAnswer, Resumable, NoSpan
<1>5. StreamType'
  <2>1. ASSUME NEW r \in Requests PROVE answer'[r] \in Resumable
    BY <1>1, <1>4 DEF TokensInv, StreamType
  <2>2. answer' \in [Requests -> Resumable]
    BY <1>1, <2>1
  <2>3. stage' \in [BatchPrompts -> {"new", "phase1", "phase2", "done"}]
    BY <1>1, <1>3
  <2> QED
    BY <1>1, <2>2, <2>3 DEF TokensInv, StreamType
<1>6. ASSUME NEW r \in Range(rows) \cup Range(waiting)
      PROVE  stage'[r[1]] = stage[r[1]]
  <2>1. r \in Requests /\ stage[r[1]] = "phase1"
    BY RangeOfSeq DEF TokensInv, StreamType, EngineInv
  <2>2. r[1] \in BatchPrompts /\ r[1] # p
    BY <1>1, <2>1 DEF Requests
  <2> QED
    BY <1>1, <1>3, <2>2
<1>7. EngineInv'
  BY <1>1, <1>6 DEF TokensInv, EngineInv
<1>8. ASSUME NEW r \in Requests PROVE RequestInv(r)'
  <2>1. /\ RequestInv(r) /\ r[1] \in BatchPrompts /\ out[r] \in Seq(Tokens) /\ answer[r] \in Resumable
    BY DEF TokensInv, StreamType, Requests
  <2>2. CASE r[1] # p
    <3>1. stage'[r[1]] = stage[r[1]] /\ answer'[r] = answer[r]
      BY <1>1, <1>2, <1>3, <2>1, <2>2
    <3>2. rollout'[r] = rollout[r]
      BY <1>1, <1>2, <2>2 DEF InAnswer
    <3> QED
      BY <1>1, <2>1, <3>1, <3>2, RequestFrame
  <2>3. CASE r[1] = p
    <3>1. stage'[r[1]] = "done" /\ answer'[r] = NoAnswer /\ stage[r[1]] = "phase2"
      BY <1>1, <1>2, <1>3, <2>1, <2>3
    <3>2. CASE answer[r] = NoAnswer
      <4>1. rollout'[r] = rollout[r]
        BY <1>1, <3>2 DEF InAnswer
      <4>2. OwnPicks(r) /\ Replays(r)
        BY <2>1, <3>1, <3>2 DEF RequestInv
      <4>3. OwnPicks(r)' /\ Replays(r)'
        BY <1>1, <4>1, <4>2 DEF OwnPicks, Replays
      <4> QED
        BY <3>1, <4>3 DEF RequestInv
    <3>3. CASE answer[r] # NoAnswer
      <4>1. Resumes(r)
        BY <2>1, <3>1, <3>3 DEF RequestInv
      <4>2. r \in InAnswer(p)
        BY <1>2, <2>3, <3>3 DEF InAnswer
      <4>3. rollout'[r] = [tokens |-> answer[r].primed \o truncate_at_first_eos(answer[r].tail),
                           span |-> answer[r].span]
        BY <1>1, <4>2
      <4>4. picks'[r] = picks[r]
        BY <1>1
      <4>5. Replays(r)'
        BY <2>1, <4>1, <4>3, <4>4, FinishedReplays
      <4>6. OwnPicks(r)'
        <5>1. OwnPicks(r)
          BY <2>1, <4>1, ResumedPicksOwn
        <5> QED
          BY <4>4, <5>1 DEF OwnPicks
      <4> QED
        BY <3>1, <4>5, <4>6 DEF RequestInv
    <3> QED
      BY <3>2, <3>3
  <2> QED
    BY <2>2, <2>3
<1> QED
  BY <1>5, <1>7, <1>8 DEF TokensInv

LEMMA HandOverStep ==
  ASSUME StreamAssumption, TokensInv, NEW p \in BatchPrompts, HandOver(p)
  PROVE  TokensInv'
<1>1. /\ stage[p] = "done" /\ stage' = [stage EXCEPT ![p] = "new"]
      /\ out' = [r \in Requests |-> IF r \in Group(p) THEN <<>> ELSE out[r]]
      /\ rollout' = [r \in Requests |-> IF r \in Group(p) THEN NoRollout ELSE rollout[r]]
      /\ picks' = [r \in Requests |-> IF r \in Group(p) THEN {} ELSE picks[r]]
      /\ waiting' = waiting /\ rows' = rows /\ slots' = slots /\ answer' = answer
  BY DEF HandOver
<1>2. \A r \in Requests : r \in Group(p) <=> r[1] = p
  BY DEF Requests, Group
<1>3. stage \in [BatchPrompts -> {"new", "phase1", "phase2", "done"}]
  BY DEF TokensInv, StreamType
<1>4. StreamType'
  <2>1. <<>> \in Seq(Tokens)
    OBVIOUS
  <2>2. ASSUME NEW r \in Requests PROVE out'[r] \in Seq(Tokens)
    BY <1>1, <2>1 DEF TokensInv, StreamType
  <2>3. out' \in [Requests -> Seq(Tokens)]
    BY <1>1, <2>2
  <2>4. stage' \in [BatchPrompts -> {"new", "phase1", "phase2", "done"}]
    BY <1>1, <1>3
  <2> QED
    BY <1>1, <2>3, <2>4 DEF TokensInv, StreamType
<1>5. ASSUME NEW r \in Range(rows) \cup Range(waiting)
      PROVE  stage'[r[1]] = stage[r[1]] /\ out'[r] = out[r]
  <2>1. r \in Requests /\ stage[r[1]] = "phase1"
    BY RangeOfSeq DEF TokensInv, StreamType, EngineInv
  <2>2. r[1] \in BatchPrompts /\ r[1] # p
    BY <1>1, <2>1 DEF Requests
  <2> QED
    BY <1>1, <1>2, <1>3, <2>1, <2>2
<1>6. EngineInv'
  BY <1>1, <1>5 DEF TokensInv, EngineInv
<1>7. ASSUME NEW r \in Requests PROVE RequestInv(r)'
  <2>1. RequestInv(r) /\ r[1] \in BatchPrompts
    BY DEF TokensInv, Requests
  <2>2. CASE r[1] # p
    <3>1. /\ stage'[r[1]] = stage[r[1]] /\ out'[r] = out[r] /\ answer'[r] = answer[r]
          /\ rollout'[r] = rollout[r] /\ picks'[r] = picks[r]
      BY <1>1, <1>2, <1>3, <2>1, <2>2
    <3> QED
      BY <2>1, <3>1, RequestFrame
  <2>3. CASE r[1] = p
    <3>1. /\ stage'[r[1]] = "new" /\ stage[r[1]] = "done" /\ out'[r] = <<>> /\ picks'[r] = {}
          /\ answer'[r] = answer[r]
      BY <1>1, <1>2, <1>3, <2>1, <2>3
    <3>2. Len(<<>>) = 0 /\ 1..0 = {} /\ EndsOnce(<<>>)
      BY DEF EndsOnce
    <3>3. FirstPicks(r)' = {}
      BY <3>1, <3>2 DEF FirstPicks
    <3>4. answer[r] = NoAnswer
      BY <2>1, <3>1 DEF RequestInv
    <3> QED
      BY <3>1, <3>2, <3>3, <3>4 DEF RequestInv, StreamAssumption, EndsOnce
  <2> QED
    BY <2>2, <2>3
<1> QED
  BY <1>4, <1>6, <1>7 DEF TokensInv

LEMMA TokensStep == ASSUME StreamAssumption PROVE TokensInv /\ [StreamNext]_(stream_vars) => TokensInv'
<1> SUFFICES ASSUME TokensInv, [StreamNext]_(stream_vars) PROVE TokensInv'
  OBVIOUS
<1>1. ASSUME UNCHANGED stream_vars PROVE TokensInv'
  <2>1. \A r \in Requests : RequestInv(r)'
    BY <1>1, RequestFrame DEF stream_vars, TokensInv
  <2> QED
    BY <1>1, <2>1 DEF stream_vars, TokensInv, StreamType, EngineInv
<1> QED
  BY <1>1, BatchedStep, ScheduleStep, DecodeStep, AssembleStep, AnswerStep, FinishStep,
     HandOverStep DEF StreamNext

\* Every pick a rollout was given is of its own stream, and none is drawn twice:
\* rows that come, go and move do not cross the streams of two requests, and phase
\* 2 goes on where phase 1 ended, however many siblings are resumed with it.
THEOREM StreamsAreOwn == StreamSpec => []PicksAreOwn
<1> USE StreamAssumption
<1>1. TokensInv => PicksAreOwn
  <2> SUFFICES ASSUME TokensInv, NEW r \in Requests PROVE OwnPicks(r)
    BY DEF PicksAreOwn, OwnPicks
  <2>1. /\ RequestInv(r) /\ StreamType /\ out[r] \in Seq(Tokens) /\ answer[r] \in Resumable
        /\ stage[r[1]] \in {"new", "phase1", "phase2", "done"}
    BY DEF TokensInv, StreamType, Requests
  <2> QED
    BY <2>1, FirstPicksOwn, ResumedPicksOwn DEF RequestInv
<1> QED
  BY <1>1, TokensInit, TokensStep, PTL DEF StreamSpec

\* The replay of the validator accepts every rollout that is handed over: outside
\* the forced close at the end of the thinking budget, each token is the pick of
\* the rollout's stream at the token's position, and an EOS is the last token.
THEOREM RolloutsAreReplayed == StreamSpec => []RolloutsReplay
<1> USE StreamAssumption
<1>1. TokensInv => RolloutsReplay
  <2> SUFFICES ASSUME TokensInv, NEW p \in BatchPrompts, stage[p] = "done", NEW r \in Group(p)
               PROVE  Replays(r)
    BY DEF RolloutsReplay, Replays
  <2>1. r \in Requests /\ r[1] = p
    BY DEF Group, Requests
  <2> QED
    BY <2>1 DEF TokensInv, RequestInv
<1> QED
  BY <1>1, TokensInit, TokensStep, PTL DEF StreamSpec
=============================================================================
