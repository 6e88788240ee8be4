-------------------------- MODULE RepoIndex_proofs --------------------------
(***************************************************************************)
(* That the store never mixes versions of a file, that a run that goes     *)
(* through repairs what earlier ones have left, that no line of a file is  *)
(* left out of its chunks, and that a file's context is the best there is. *)
(***************************************************************************)
EXTENDS RepoIndex, SequenceTheorems, FiniteSetTheorems, WellFoundedInduction, TLAPS

\* What the cache holds is what the provider would answer.
CacheTrue ==
    \A e \in cache : \A m, text : e.key = MakeKey(m, text) => e.vector = Embedding(m, text)

\* A run works on the chunks of what it read of the file, with the vectors of
\* the model it began with.
RunTrue ==
    /\ Running => model \in Models
    /\ run.phase \in {"delete", "embed"} =>
           /\ run.left \subseteq ChunkFile(run.file, run.content)
           /\ run.vectors = Embedded(ChunkFile(run.file, run.content) \ run.left, model)
           /\ run.file \in fresh => run.content = disk[run.file]
    /\ run.phase = "delete" => run.vectors = {}
    /\ run.phase = "embed" => run.file \in tainted \/ \A v \in store : v.chunk.file # run.file

Replacing(f) == run.phase \in {"delete", "embed"} /\ run.file = f

\* The files that this run is done with.
FreshStored ==
    Running \/ run.phase = "done" =>
        \A f \in fresh \ tainted :
            ChunkFile(f, disk[f]) # {} /\ ~Replacing(f) => Stored(f) = Vectors(f, disk[f], model)

IndInv == TypeOK /\ CacheTrue /\ RunTrue /\ OneVersion /\ FreshStored

-----------------------------------------------------------------------------

\* Every chunk of a file bears its name.
LEMMA ChunkFileNames ==
    ASSUME NEW f, NEW content, NEW c \in ChunkFile(f, content)
    PROVE  c.file = f
<1>1. ASSUME NEW start, NEW end, NEW text, NEW type
      PROVE  Chunk(f, start, end, text, type).file = f
  BY DEF Chunk
<1>2. \A x \in ChunkPythonAst(f, content.lines) : x.file = f
  BY <1>1 DEF ChunkPythonAst
<1>3. \A x \in ChunkByWindow(f, content.lines) : x.file = f
  <2>1. \A i : WindowChunk(f, content.lines, i).file = f
    BY <1>1 DEF WindowChunk
  <2>2. QED
    BY <2>1 DEF ChunkByWindow
<1>4. QED
  BY <1>2, <1>3 DEF ChunkFile

\* So an upsert touches what the store has of that file only, and leaves of it
\* what it has put there, unless a delete has failed before.
LEMMA UpsertStores ==
    ASSUME RunTrue, Upsert, TypeOK
    PROVE  \A f \in Files :
              /\ f # run.file => Stored(f)' = Stored(f)
              /\ f = run.file /\ f \notin tainted => Stored(f)' = Vectors(f, run.content, model)
<1>1. run.vectors = Vectors(run.file, run.content, model)
  BY DEF RunTrue, Upsert, Vectors
<1>2. \A w \in run.vectors : w.chunk.file = run.file
  <2>1. \A w \in run.vectors : w.chunk \in ChunkFile(run.file, run.content)
    BY <1>1 DEF Vectors, Embedded
  <2>2. QED
    BY <2>1, ChunkFileNames
<1>3. store' = {v \in store : \A w \in run.vectors : Id(v) # Id(w)} \cup run.vectors
  BY DEF Upsert
<1>4. \A v, w : Id(v) = Id(w) => v.chunk.file = w.chunk.file
  BY DEF Id
<1>5. ASSUME NEW f \in Files, f # run.file
      PROVE  Stored(f)' = Stored(f)
  <2>1. \A v : v \in store' /\ v.chunk.file = f <=> v \in store /\ v.chunk.file = f
    BY <1>2, <1>3, <1>4, <1>5
  <2>2. QED
    BY <2>1 DEF Stored
<1>6. ASSUME NEW f \in Files, f = run.file, f \notin tainted
      PROVE  Stored(f)' = Vectors(f, run.content, model)
  <2>1. \A v \in store : v.chunk.file # f
    BY <1>6 DEF RunTrue, Upsert, Stored
  <2>2. \A v : v \in store' /\ v.chunk.file = f <=> v \in run.vectors
    BY <1>2, <1>3, <1>6, <2>1
  <2>3. Stored(f)' = run.vectors
    BY <2>2 DEF Stored
  <2>4. QED
    BY <1>1, <1>6, <2>3
<1>7. QED
  BY <1>5, <1>6

-----------------------------------------------------------------------------

\* The settings and the directory are what the constants say, a run is at one
\* of its steps.
LEMMA TypeInit == Init => TypeOK
<1> SUFFICES ASSUME Init PROVE TypeOK
  OBVIOUS
<1>1. disk \in [Files -> AllContents] /\ \A f \in Files : disk[f] \in Contents[f]
  BY DEF Init, Contents
<1>2. run = Ended("none") /\ edits = 0 /\ runs = 0 /\ tainted = {} /\ fresh = {} /\ model \in Models
  BY DEF Init
<1>3. run.phase = "none" /\ run.todo = {}
  BY <1>2 DEF Ended, Run
<1>4. QED
  BY <1>1, <1>2, <1>3 DEF TypeOK

\* An edit leaves a file with one of its contents.
LEMMA EditTypes ==
    ASSUME TypeOK, NEW f \in Files, Edit(f)
    PROVE  TypeOK'
<1>1. PICK c \in Revisions[f] : disk' = [disk EXCEPT ![f] = c]
  BY DEF Edit
<1>2. c \in Contents[f] /\ c \in AllContents
  BY DEF Contents, AllContents
<1>3. disk' \in [Files -> AllContents] /\ \A g \in Files : disk'[g] \in Contents[g]
  BY <1>1, <1>2 DEF TypeOK
<1>4. UNCHANGED <<model, run, tainted, runs>> /\ fresh' \subseteq fresh /\ edits' = edits + 1
  BY DEF Edit
<1>5. QED
  BY <1>3, <1>4 DEF TypeOK

\* Every step of a run, and every edit between them, keeps the types.
LEMMA TypeNext ==
    ASSUME TypeOK, [Next]_vars
    PROVE  TypeOK'
<1> USE DEF TypeOK
<1>1. ASSUME NEW f \in Files, Edit(f) PROVE TypeOK'
  BY <1>1, EditTypes
<1>2. ASSUME NEW f \in Files, ReadFile(f) PROVE TypeOK'
  <2>1. UNCHANGED <<disk, model, tainted, edits, runs>> /\ fresh' \subseteq Files
    BY <1>2 DEF ReadFile
  <2>2. CASE run' = Ended("failed") \/ run' = Walk(run.todo \ {f})
    BY <2>1, <2>2 DEF Ended, Walk, Run
  <2>3. CASE disk[f] # NoFile /\ run' = Run("delete", run.todo \ {f}, f, disk[f], ChunkFile(f, disk[f]), {})
    BY <2>1, <2>3 DEF Run
  <2>4. QED
    BY <1>2, <2>2, <2>3 DEF ReadFile
<1>3. CASE Configure
  BY <1>3 DEF Configure
<1>4. CASE Start
  BY <1>4 DEF Start, Walk, Run
<1>5. CASE DeleteFile
  <2>1. /\ run'.phase = "embed" /\ run'.todo = run.todo
        /\ run'.file = run.file /\ run'.content = run.content
    BY <1>5 DEF DeleteFile, Run
  <2>2. tainted' \subseteq Files
    BY <1>5 DEF DeleteFile
  <2>3. QED
    BY <1>5, <2>1, <2>2 DEF DeleteFile
<1>6. CASE EmbedText
  BY <1>6 DEF EmbedText, Run
<1>7. CASE Upsert
  BY <1>7 DEF Upsert, Walk, Run
<1>8. CASE Finish
  BY <1>8 DEF Finish, Ended, Run
<1>9. CASE Fail
  BY <1>9 DEF Fail, Ended, Run
<1>10. CASE UNCHANGED vars
  BY <1>10 DEF vars
<1>11. QED
  BY <1>1, <1>2, <1>3, <1>4, <1>5, <1>6, <1>7, <1>8, <1>9, <1>10 DEF Next

\* The types hold in every state.
THEOREM TypeCorrect == Spec => []TypeOK
<1>1. TypeOK /\ [Next]_vars => TypeOK'
  BY TypeNext
<1>2. QED
  BY <1>1, TypeInit, PTL DEF Spec

-----------------------------------------------------------------------------
(* The invariant, action by action.                                        *)

\* What was true of the run and the store is true when neither changes and no
\* file becomes fresh.
LEMMA SameInv ==
    ASSUME IndInv, UNCHANGED <<store, cache, run, tainted>>,
           fresh' \subseteq fresh, \A f \in fresh' : disk'[f] = disk[f],
           model' = model \/ (~Running /\ fresh' = {})
    PROVE  CacheTrue' /\ RunTrue' /\ OneVersion' /\ FreshStored'
<1>1. \A f : Stored(f)' = Stored(f)
  BY DEF Stored
<1>2. CacheTrue'
  BY DEF IndInv, CacheTrue
<1>3. RunTrue'
  BY <1>1 DEF IndInv, RunTrue, Running, Embedded, Stored
<1>4. OneVersion'
  BY <1>1 DEF IndInv, OneVersion
<1>5. FreshStored'
  <2>1. CASE fresh' = {}
    BY <2>1 DEF FreshStored
  <2>2. CASE model' = model
    BY <1>1, <2>2 DEF IndInv, FreshStored, Running, Replacing, Vectors, Embedded
  <2>3. QED
    BY <2>1, <2>2
<1>6. QED
  BY <1>2, <1>3, <1>4, <1>5

\* A run that starts or ends holds no file.
LEMMA IdleInv ==
    ASSUME IndInv, UNCHANGED <<disk, model, store, cache, tainted>>,
           run'.phase \in {"walk", "failed"}, TypeOK',
           fresh' = {} \/ run'.phase = "failed"
    PROVE  CacheTrue' /\ RunTrue' /\ OneVersion' /\ FreshStored'
<1>1. \A f : Stored(f)' = Stored(f)
  BY DEF Stored
<1>2. CacheTrue'
  BY DEF IndInv, CacheTrue
<1>3. RunTrue'
  BY DEF RunTrue, TypeOK
<1>4. OneVersion'
  BY <1>1 DEF IndInv, OneVersion
<1>5. FreshStored'
  BY DEF FreshStored, Running
<1>6. QED
  BY <1>2, <1>3, <1>4, <1>5

\* A file that is read becomes fresh and is being replaced, or has no chunks.
LEMMA ReadFileInv ==
    ASSUME IndInv, TypeOK', NEW f \in Files, ReadFile(f)
    PROVE  CacheTrue' /\ RunTrue' /\ OneVersion' /\ FreshStored'
<1>1. UNCHANGED <<disk, model, store, cache, tainted>>
  BY DEF ReadFile
<1>2. CASE run' = Ended("failed")
  <2>1. run'.phase = "failed"
    BY <1>2 DEF Ended, Run
  <2>2. QED
    BY <1>1, <2>1, IdleInv
<1>3. CASE ~(run' = Ended("failed"))
  <2> DEFINE chunks == ChunkFile(f, disk[f])
  <2>1. /\ run' = IF chunks = {} THEN Walk(run.todo \ {f})
                  ELSE Run("delete", run.todo \ {f}, f, disk[f], chunks, {})
        /\ fresh' = fresh \cup {f} /\ run.phase = "walk"
    BY <1>3 DEF ReadFile
  <2>2. \A g : Stored(g)' = Stored(g)
    BY <1>1 DEF Stored
  <2>3. CacheTrue' /\ OneVersion'
    BY <1>1, <2>2 DEF IndInv, CacheTrue, OneVersion
  <2>4. \A g \in fresh \ tainted :
            ChunkFile(g, disk[g]) # {} => Stored(g) = Vectors(g, disk[g], model)
    BY <2>1 DEF IndInv, FreshStored, Running, Replacing
  <2>5. CASE chunks = {}
    <3>1. run'.phase = "walk"
      BY <2>1, <2>5 DEF Walk, Run
    <3>2. RunTrue'
      BY <3>1 DEF RunTrue, TypeOK
    <3>3. \A g \in fresh' \ tainted' :
              ChunkFile(g, disk'[g]) # {} => Stored(g)' = Vectors(g, disk'[g], model')
      BY <1>1, <2>1, <2>2, <2>4, <2>5
    <3>4. FreshStored'
      BY <3>3 DEF FreshStored, Vectors, Embedded
    <3>5. QED
      BY <2>3, <3>2, <3>4
  <2>6. CASE chunks # {}
    <3>1. /\ run'.phase = "delete" /\ run'.file = f /\ run'.content = disk[f]
          /\ run'.left = chunks /\ run'.vectors = {}
      BY <2>1, <2>6 DEF Run
    <3>2. RunTrue'
      <4>1. Embedded(chunks \ chunks, model) = {}
        BY DEF Embedded
      <4>2. run'.vectors = Embedded(ChunkFile(run'.file, run'.content) \ run'.left, model')
        BY <1>1, <3>1, <4>1
      <4>3. QED
        BY <1>1, <3>1, <4>2 DEF RunTrue, TypeOK, Embedded
    <3>3. \A g \in fresh' \ tainted' :
              g # f /\ ChunkFile(g, disk'[g]) # {} => Stored(g)' = Vectors(g, disk'[g], model')
      BY <1>1, <2>1, <2>2, <2>4
    <3>4. FreshStored'
      BY <3>1, <3>3 DEF FreshStored, Replacing, Vectors, Embedded
    <3>5. QED
      BY <2>3, <3>2, <3>4
  <2>7. QED
    BY <2>5, <2>6
<1>4. QED
  BY <1>2, <1>3

\* A delete that succeeds leaves nothing of the file, one that fails leaves a
\* file that nothing is said of.
LEMMA DeleteFileInv ==
    ASSUME IndInv, TypeOK', DeleteFile
    PROVE  CacheTrue' /\ RunTrue' /\ OneVersion' /\ FreshStored'
<1>1. /\ UNCHANGED <<disk, model, cache, fresh>> /\ run.phase = "delete"
      /\ run' = Run("embed", run.todo, run.file, run.content, run.left, {})
  BY DEF DeleteFile
<1>2. /\ run'.phase = "embed" /\ run'.file = run.file /\ run'.content = run.content
      /\ run'.left = run.left /\ run'.vectors = {}
  BY <1>1 DEF Run
<1>3. \/ store' = store \ Stored(run.file) /\ tainted' = tainted \ {run.file}
      \/ store' = store /\ tainted' = tainted \cup {run.file}
  BY DEF DeleteFile
<1>4. \A g : g # run.file => Stored(g)' = Stored(g)
  BY <1>3 DEF Stored
<1>5. \A g : g = run.file /\ g \notin tainted' => Stored(g)' = {}
  BY <1>3 DEF Stored
<1>6. CacheTrue'
  BY <1>1 DEF IndInv, CacheTrue
<1>7. RunTrue'
  <2>1. run.vectors = Embedded(ChunkFile(run.file, run.content) \ run.left, model)
    BY <1>1 DEF IndInv, RunTrue
  <2>2. run.vectors = {}
    BY <1>1 DEF IndInv, RunTrue
  <2>3. run'.file \in tainted' \/ \A v \in store' : v.chunk.file # run'.file
    BY <1>2, <1>3 DEF Stored
  <2>4. /\ run'.left \subseteq ChunkFile(run'.file, run'.content)
        /\ run'.file \in fresh' => run'.content = disk'[run'.file]
    BY <1>1, <1>2 DEF IndInv, RunTrue
  <2>5. run'.vectors = {[chunk |-> c, vector |-> Embedding(model', c.text)] :
                           c \in ChunkFile(run'.file, run'.content) \ run'.left}
    BY <1>1, <1>2, <2>1, <2>2 DEF Embedded
  <2>6. QED
    BY <1>2, <2>3, <2>4, <2>5 DEF RunTrue, TypeOK, Embedded
<1>8. OneVersion'
  BY <1>3, <1>4, <1>5 DEF IndInv, OneVersion
<1>9. FreshStored'
  <2>1. \A g \in fresh \ tainted :
            g # run.file /\ ChunkFile(g, disk[g]) # {} => Stored(g) = Vectors(g, disk[g], model)
    BY <1>1 DEF IndInv, FreshStored, Running, Replacing
  <2>2. \A g \in fresh' \ tainted' :
            g # run.file /\ ChunkFile(g, disk'[g]) # {} => Stored(g)' = Vectors(g, disk'[g], model')
    BY <1>1, <1>3, <1>4, <2>1
  <2>3. QED
    BY <1>2, <2>2 DEF FreshStored, Replacing, Vectors, Embedded
<1>10. QED
  BY <1>6, <1>7, <1>8, <1>9

\* The vector of a chunk is the model's, from wherever it comes.
LEMMA EmbedTextInv ==
    ASSUME IndInv, TypeOK', EmbedText
    PROVE  CacheTrue' /\ RunTrue' /\ OneVersion' /\ FreshStored'
<1>1. /\ UNCHANGED <<disk, model, store, tainted, fresh>> /\ run.phase = "embed"
  BY DEF EmbedText
<1>2. PICK c \in run.left : \E vector :
          /\ \/ vector = Embedding(model, c.text)
             \/ \E e \in cache : e.key = MakeKey(model, c.text) /\ vector = e.vector
          /\ cache' = cache \cup {[key |-> MakeKey(model, c.text), vector |-> vector]}
          /\ run' = Run("embed", run.todo, run.file, run.content, run.left \ {c},
                        run.vectors \cup {[chunk |-> c, vector |-> vector]})
  BY DEF EmbedText
<1>3. PICK vector :
          /\ \/ vector = Embedding(model, c.text)
             \/ \E e \in cache : e.key = MakeKey(model, c.text) /\ vector = e.vector
          /\ cache' = cache \cup {[key |-> MakeKey(model, c.text), vector |-> vector]}
          /\ run' = Run("embed", run.todo, run.file, run.content, run.left \ {c},
                        run.vectors \cup {[chunk |-> c, vector |-> vector]})
  BY <1>2
<1>4. vector = Embedding(model, c.text)
  BY <1>3 DEF IndInv, CacheTrue
<1>5. /\ run'.phase = "embed" /\ run'.file = run.file /\ run'.content = run.content
      /\ run'.left = run.left \ {c}
      /\ run'.vectors = run.vectors \cup {[chunk |-> c, vector |-> vector]}
  BY <1>3 DEF Run
<1>6. \A g : Stored(g)' = Stored(g)
  BY <1>1 DEF Stored
<1>7. CacheTrue'
  <2>1. \A m, text : MakeKey(model, c.text) = MakeKey(m, text) => vector = Embedding(m, text)
    BY <1>4 DEF MakeKey, Embedding
  <2>2. QED
    BY <1>3, <2>1 DEF IndInv, CacheTrue
<1>8. RunTrue'
  <2>1. /\ run.left \subseteq ChunkFile(run.file, run.content)
        /\ run.vectors = Embedded(ChunkFile(run.file, run.content) \ run.left, model)
        /\ run.file \in fresh => run.content = disk[run.file]
        /\ run.file \in tainted \/ \A v \in store : v.chunk.file # run.file
    BY <1>1 DEF IndInv, RunTrue
  <2>2. run'.vectors = Embedded(ChunkFile(run.file, run.content) \ (run.left \ {c}), model)
    BY <1>4, <1>5, <2>1 DEF Embedded
  <2>3. run'.vectors = {[chunk |-> d, vector |-> Embedding(model', d.text)] :
                           d \in ChunkFile(run'.file, run'.content) \ run'.left}
    BY <1>1, <1>5, <2>2 DEF Embedded
  <2>4. run'.left \subseteq ChunkFile(run'.file, run'.content)
    BY <1>5, <2>1
  <2>5. run'.file \in tainted' \/ \A v \in store' : v.chunk.file # run'.file
    BY <1>1, <1>5, <2>1
  <2>6. run'.file \in fresh' => run'.content = disk'[run'.file]
    BY <1>1, <1>5, <2>1
  <2>7. QED
    BY <1>5, <2>3, <2>4, <2>5, <2>6 DEF RunTrue, TypeOK, Embedded
<1>9. OneVersion'
  BY <1>1, <1>6 DEF IndInv, OneVersion
<1>10. FreshStored'
  BY <1>1, <1>5, <1>6 DEF IndInv, FreshStored, Running, Replacing, Vectors, Embedded
<1>11. QED
  BY <1>7, <1>8, <1>9, <1>10

\* An upsert puts a whole version in the store.
LEMMA UpsertInv ==
    ASSUME IndInv, TypeOK', Upsert
    PROVE  CacheTrue' /\ RunTrue' /\ OneVersion' /\ FreshStored'
<1>1. /\ UNCHANGED <<disk, model, cache, tainted, fresh>> /\ run.phase = "embed"
      /\ run' = Walk(run.todo)
  BY DEF Upsert
<1>2. run'.phase = "walk"
  BY <1>1 DEF Walk, Run
<1>3. \A g \in Files :
          /\ g # run.file => Stored(g)' = Stored(g)
          /\ g = run.file /\ g \notin tainted => Stored(g)' = Vectors(g, run.content, model)
  BY UpsertStores DEF IndInv
<1>4. /\ run.file \in Files /\ run.content \in Contents[run.file] \ {NoFile} /\ model \in Models
      /\ run.file \in fresh => run.content = disk[run.file]
  BY <1>1 DEF IndInv, TypeOK, RunTrue
<1>5. CacheTrue'
  BY <1>1 DEF IndInv, CacheTrue
<1>6. RunTrue'
  BY <1>2 DEF RunTrue, TypeOK
<1>7. OneVersion'
  <2>1. \A g \in Files \ tainted : g # run.file =>
            \/ Stored(g)' = {}
            \/ \E c \in Contents[g] \ {NoFile}, m \in Models : Stored(g)' = Vectors(g, c, m)
    BY <1>3 DEF IndInv, OneVersion
  <2>2. \A g \in Files \ tainted : g = run.file =>
            \E c \in Contents[g] \ {NoFile}, m \in Models : Stored(g)' = Vectors(g, c, m)
    BY <1>3, <1>4
  <2>3. QED
    BY <1>1, <2>1, <2>2 DEF OneVersion
<1>8. FreshStored'
  <2>1. \A g \in fresh \ tainted :
            g # run.file /\ ChunkFile(g, disk[g]) # {} => Stored(g) = Vectors(g, disk[g], model)
    BY <1>1 DEF IndInv, FreshStored, Running, Replacing
  <2>2. \A g \in fresh \ tainted :
            ChunkFile(g, disk[g]) # {} => Stored(g)' = Vectors(g, disk[g], model)
    BY <1>3, <1>4, <2>1 DEF IndInv, TypeOK
  <2>3. QED
    BY <1>1, <2>2 DEF FreshStored, Vectors, Embedded
<1>9. QED
  BY <1>5, <1>6, <1>7, <1>8

\* A run that comes to its end is done with every file it has read.
LEMMA FinishInv ==
    ASSUME IndInv, TypeOK', Finish
    PROVE  CacheTrue' /\ RunTrue' /\ OneVersion' /\ FreshStored'
<1>1. /\ UNCHANGED <<disk, model, store, cache, tainted, fresh>> /\ run.phase = "walk"
      /\ run' = Ended("done")
  BY DEF Finish
<1>2. run'.phase = "done"
  BY <1>1 DEF Ended, Run
<1>3. \A g : Stored(g)' = Stored(g)
  BY <1>1 DEF Stored
<1>4. CacheTrue' /\ OneVersion'
  BY <1>1, <1>3 DEF IndInv, CacheTrue, OneVersion
<1>5. RunTrue'
  BY <1>2 DEF RunTrue, Running
<1>6. FreshStored'
  <2>1. \A g \in fresh \ tainted :
            ChunkFile(g, disk[g]) # {} => Stored(g) = Vectors(g, disk[g], model)
    BY <1>1 DEF IndInv, FreshStored, Running, Replacing
  <2>2. QED
    BY <1>1, <1>3, <2>1 DEF FreshStored, Vectors, Embedded
<1>7. QED
  BY <1>4, <1>5, <1>6

-----------------------------------------------------------------------------

\* The invariant holds of the empty store and the empty cache.
LEMMA IndInit == Init => IndInv
<1> SUFFICES ASSUME Init PROVE IndInv
  OBVIOUS
<1>1. run = Ended("none") /\ store = {} /\ cache = {} /\ fresh = {} /\ model \in Models
  BY DEF Init
<1>2. run.phase = "none"
  BY <1>1 DEF Ended, Run
<1>3. CacheTrue
  BY <1>1 DEF CacheTrue
<1>4. RunTrue
  BY <1>1, <1>2 DEF RunTrue
<1>5. OneVersion
  BY <1>1 DEF OneVersion, Stored
<1>6. FreshStored
  BY <1>1 DEF FreshStored
<1>7. QED
  BY <1>3, <1>4, <1>5, <1>6, TypeInit DEF IndInv

\* Every step keeps it: the lemmas above, one for each.
LEMMA IndNext ==
    ASSUME IndInv, [Next]_vars
    PROVE  IndInv'
<1>1. TypeOK'
  BY TypeNext DEF IndInv
<1>2. SUFFICES CacheTrue' /\ RunTrue' /\ OneVersion' /\ FreshStored'
  BY <1>1 DEF IndInv
<1>3. ASSUME NEW f \in Files, Edit(f) PROVE CacheTrue' /\ RunTrue' /\ OneVersion' /\ FreshStored'
  <2>1. /\ UNCHANGED <<model, store, cache, run, tainted>> /\ fresh' = fresh \ {f}
    BY <1>3 DEF Edit
  <2>2. \A g \in fresh' : disk'[g] = disk[g]
    BY <1>3, <2>1 DEF Edit, IndInv, TypeOK
  <2>3. QED
    BY <2>1, <2>2, SameInv
<1>4. ASSUME NEW f \in Files, ReadFile(f)
      PROVE  CacheTrue' /\ RunTrue' /\ OneVersion' /\ FreshStored'
  BY <1>1, <1>4, ReadFileInv
<1>5. CASE Configure
  <2>1. UNCHANGED <<disk, store, cache, run, tainted>> /\ fresh' = {} /\ ~Running
    BY <1>5 DEF Configure
  <2>2. QED
    BY <2>1, SameInv
<1>6. CASE Start
  <2>1. /\ UNCHANGED <<disk, model, store, cache, tainted>> /\ fresh' = {}
        /\ run' = Walk({f \in Files : disk[f] # NoFile})
    BY <1>6 DEF Start
  <2>2. run'.phase = "walk"
    BY <2>1 DEF Walk, Run
  <2>3. QED
    BY <1>1, <2>1, <2>2, IdleInv
<1>7. CASE DeleteFile
  BY <1>1, <1>7, DeleteFileInv
<1>8. CASE EmbedText
  BY <1>1, <1>8, EmbedTextInv
<1>9. CASE Upsert
  BY <1>1, <1>9, UpsertInv
<1>10. CASE Finish
  BY <1>1, <1>10, FinishInv
<1>11. CASE Fail
  <2>1. UNCHANGED <<disk, model, store, cache, tainted>> /\ run' = Ended("failed")
    BY <1>11 DEF Fail
  <2>2. run'.phase = "failed"
    BY <2>1 DEF Ended, Run
  <2>3. QED
    BY <1>1, <2>1, <2>2, IdleInv
<1>12. CASE UNCHANGED vars
  BY <1>12, SameInv DEF vars
<1>13. QED
  BY <1>3, <1>4, <1>5, <1>6, <1>7, <1>8, <1>9, <1>10, <1>11, <1>12 DEF Next

\* It holds in every state.
LEMMA IndCorrect == Spec => []IndInv
<1>1. IndInv /\ [Next]_vars => IndInv'
  BY IndNext
<1>2. QED
  BY <1>1, IndInit, PTL DEF Spec

\* A file's chunks in the store are those of one version of it under one model,
\* or there are none, for any files, contents, faults and numbers of runs.
THEOREM OneVersionCorrect == Spec => []OneVersion
<1>1. IndInv => OneVersion
  BY DEF IndInv
<1>2. QED
  BY <1>1, IndCorrect, PTL

\* A run that goes through leaves each file it has read in the store as it is on
\* the disk, whatever the runs before it have left there.
THEOREM RunRepairsCorrect == Spec => []RunRepairs
<1>1. IndInv => RunRepairs
  BY DEF IndInv, FreshStored, RunRepairs, Replacing
<1>2. QED
  BY <1>1, IndCorrect, PTL

-----------------------------------------------------------------------------
(* Chunks.                                                                 *)

\* A set of numbers has a least one: the sets 1 .. n are well-founded.
LEMMA LeastNumber ==
    ASSUME NEW T, T \subseteq Nat, T # {}
    PROVE  \E m \in T : \A n \in T : m <= n
<1> DEFINE R == StrictSubsetOrdering(Nat)
           W == {1 .. n : n \in T}
<1>1. W \subseteq FiniteSubsetsOf(Nat) /\ W # {}
  <2>1. \A n \in T : 1 .. n \subseteq Nat /\ IsFiniteSet(1 .. n)
    BY FS_Interval
  <2>2. QED
    BY <2>1 DEF FiniteSubsetsOf
<1>2. ASSUME NEW x \in T, NEW y \in T, y < x
      PROVE  <<1 .. y, 1 .. x>> \in R
  <2>1. 1 .. y \subseteq 1 .. x /\ x \in 1 .. x /\ x \notin 1 .. y
    BY <1>2
  <2>2. QED
    BY <2>1 DEF StrictSubsetOrdering
<1>3. PICK x \in W : \A y \in W : ~ (<<y, x>> \in R)
  <2>1. IsWellFoundedOn(R, FiniteSubsetsOf(Nat))
    BY ONLY FS_StrictSubsetOrderingWellFounded
  <2> HIDE DEF R, W
  <2>2. QED
    BY <1>1, <2>1, WFMin
<1>4. PICK m \in T : x = 1 .. m
  BY <1>3
<1>5. \A n \in T : ~ (n < m)
  BY <1>2, <1>3, <1>4
<1>6. QED
  BY <1>5

\* and a bounded one has a greatest one, too.
LEMMA Extremes ==
    ASSUME NEW n \in Nat, NEW T, T \subseteq 1 .. n, T # {}
    PROVE  /\ Min(T) \in T /\ Max(T) \in T
           /\ \A k \in T : Min(T) <= k /\ k <= Max(T)
<1>1. T \subseteq Nat
  OBVIOUS
<1>2. \E m \in T : \A k \in T : m <= k
  BY <1>1, LeastNumber
<1>3. \E m \in T : \A k \in T : m >= k
  <2> DEFINE D == {n - k : k \in T}
  <2>1. D \subseteq Nat /\ D # {}
    <3>1. \A k \in T : n - k \in Nat
      OBVIOUS
    <3>2. QED
      BY <3>1
  <2> HIDE DEF D
  <2>2. PICK d \in D : \A e \in D : d <= e
    BY <2>1, LeastNumber
  <2>3. PICK m \in T : d = n - m
    BY <2>2 DEF D
  <2>4. ASSUME NEW k \in T PROVE m >= k
    <3>1. n - m <= n - k
      BY <2>2, <2>3 DEF D
    <3>2. m \in Nat /\ k \in Nat
      BY <1>1
    <3>3. QED
      BY <3>1, <3>2
  <2>5. QED
    BY <2>4
<1>4. Min(T) \in T /\ \A k \in T : Min(T) <= k
  BY <1>2 DEF Min
<1>5. Max(T) \in T /\ \A k \in T : Max(T) >= k
  BY <1>3 DEF Max
<1>6. QED
  BY <1>1, <1>4, <1>5

\* What is cut out of a list of lines.
LEMMA BetweenLines ==
    ASSUME NEW s, IsSeq(s), NEW a \in DOMAIN s, NEW b \in DOMAIN s, a <= b
    PROVE  /\ IsSeq(Between(s, a, b)) /\ Len(Between(s, a, b)) = b - a + 1
           /\ DOMAIN Between(s, a, b) = 1 .. b - a + 1
           /\ \A k \in a .. b : Between(s, a, b)[k - a + 1] = s[k]
<1> DEFINE S == {s[i] : i \in DOMAIN s}
           t == SubSeq(s, a, b)
<1>1. s \in Seq(S) /\ DOMAIN s = 1 .. Len(s) /\ Len(s) \in Nat
  BY DEF IsSeq
<1>2. \A i \in a .. b : s[i] \in S
  BY <1>1
<1> HIDE DEF S
<1>3. a \in Int /\ b \in Int /\ b - a + 1 \in Nat
  BY <1>1
<1>4. /\ t \in Seq(S) /\ Len(t) = b - a + 1
      /\ \A i \in 1 .. b - a + 1 : t[i] = s[a + i - 1]
  BY <1>1, <1>2, <1>3, SubSeqProperties
<1> HIDE DEF t
<1>5. IsSeq(t) /\ DOMAIN t = 1 .. b - a + 1
  <2>1. t \in Seq({t[i] : i \in DOMAIN t})
    BY <1>4
  <2>2. QED
    BY <1>4, <2>1 DEF IsSeq
<1>6. ASSUME NEW k \in a .. b PROVE t[k - a + 1] = s[k]
  <2>1. k - a + 1 \in 1 .. b - a + 1 /\ a + (k - a + 1) - 1 = k
    BY <1>3
  <2>2. QED
    BY <1>4, <2>1
<1>7. QED
  BY <1>4, <1>5, <1>6 DEF t, Between

\* A text in which a line says something says something.
LEMMA StripSays ==
    ASSUME NEW s, IsSeq(s), NEW k \in DOMAIN s, s[k].form # "blank"
    PROVE  Strip(s) # << >>
<1> DEFINE said == {j \in DOMAIN s : s[j].form # "blank"}
<1>1. Len(s) \in Nat /\ DOMAIN s = 1 .. Len(s)
  BY DEF IsSeq
<1>2. said \subseteq 1 .. Len(s) /\ said # {}
  BY <1>1
<1>3. Strip(s) = Between(s, Min(said), Max(said))
  BY <1>2 DEF Strip, Between
<1>4. Min(said) \in DOMAIN s /\ Max(said) \in DOMAIN s /\ Min(said) <= Max(said)
  BY <1>1, <1>2, Extremes
<1> HIDE DEF said
<1>5. Len(Strip(s)) = Max(said) - Min(said) + 1
  BY <1>3, <1>4, BetweenLines
<1>6. Len(Strip(s)) # 0
  BY <1>1, <1>4, <1>5
<1>7. QED
  BY <1>6

\* and so does a part of it that has the line.
LEMMA PartSays ==
    ASSUME NEW s, IsSeq(s), NEW a \in DOMAIN s, NEW b \in DOMAIN s, NEW k \in a .. b,
           s[k].form # "blank"
    PROVE  Strip(Between(s, a, b)) # << >>
<1>1. DOMAIN s = 1 .. Len(s) /\ Len(s) \in Nat
  BY DEF IsSeq
<1>2. a <= b /\ k - a + 1 \in 1 .. b - a + 1
  BY <1>1
<1>3. IsSeq(Between(s, a, b)) /\ DOMAIN Between(s, a, b) = 1 .. b - a + 1
      /\ Between(s, a, b)[k - a + 1] = s[k]
  BY <1>2, BetweenLines
<1>4. QED
  BY <1>2, <1>3, StripSays

\* The functions and classes have no line in common, ...
LEMMA NodesApart ==
    ASSUME NEW lines, IsSeq(lines), NEW r \in Nodes(lines), NEW s \in Nodes(lines),
           NEW k \in r[1] .. r[2], k \in s[1] .. s[2]
    PROVE  r = s
<1>1. DOMAIN lines = 1 .. Len(lines) /\ Len(lines) \in Nat
  BY DEF IsSeq
<1>2. /\ r = <<r[1], r[2]>> /\ r[1] \in DOMAIN lines /\ r[2] \in DOMAIN lines
      /\ s = <<s[1], s[2]>> /\ s[1] \in DOMAIN lines /\ s[2] \in DOMAIN lines
  BY DEF Nodes
<1>3. lines[r[1]].form = "def" /\ lines[s[1]].form = "def"
  BY DEF Nodes
<1>4. \A j \in r[1] + 1 .. r[2] : lines[j].form = "body"
  BY DEF Nodes
<1>5. \A j \in s[1] + 1 .. s[2] : lines[j].form = "body"
  BY DEF Nodes
<1>6. r[2] + 1 \in DOMAIN lines => lines[r[2] + 1].form # "body"
  BY DEF Nodes
<1>7. s[2] + 1 \in DOMAIN lines => lines[s[2] + 1].form # "body"
  BY DEF Nodes
<1>8. s[1] \notin r[1] + 1 .. r[2] /\ r[1] \notin s[1] + 1 .. s[2]
  BY <1>3, <1>4, <1>5
<1>9. r[1] = s[1]
  BY <1>1, <1>2, <1>8
<1>10. ~ (r[2] < s[2])
  <2>1. r[2] < s[2] => r[2] + 1 \in DOMAIN lines /\ r[2] + 1 \in s[1] + 1 .. s[2]
    BY <1>1, <1>2, <1>9
  <2>2. QED
    BY <1>5, <1>6, <2>1
<1>11. ~ (s[2] < r[2])
  <2>1. s[2] < r[2] => s[2] + 1 \in DOMAIN lines /\ s[2] + 1 \in r[1] + 1 .. r[2]
    BY <1>1, <1>2, <1>9
  <2>2. QED
    BY <1>4, <1>7, <2>1
<1>12. r[2] = s[2]
  BY <1>1, <1>2, <1>10, <1>11
<1>13. QED
  BY <1>2, <1>9, <1>12

\* ... nor have the stretches between them, ...
LEMMA RangesApart ==
    ASSUME NEW lines, IsSeq(lines), NEW r \in UncoveredRanges(lines),
           NEW s \in UncoveredRanges(lines), NEW k \in r[1] .. r[2], k \in s[1] .. s[2]
    PROVE  r = s
<1> DEFINE free == DOMAIN lines \ Covered(lines)
<1>1. DOMAIN lines = 1 .. Len(lines) /\ Len(lines) \in Nat
  BY DEF IsSeq
<1>2. /\ r = <<r[1], r[2]>> /\ r[1] \in free /\ r[2] \in free
      /\ r[1] .. r[2] \subseteq free /\ r[1] - 1 \notin free /\ r[2] + 1 \notin free
  BY DEF UncoveredRanges
<1>3. /\ s = <<s[1], s[2]>> /\ s[1] \in free /\ s[2] \in free
      /\ s[1] .. s[2] \subseteq free /\ s[1] - 1 \notin free /\ s[2] + 1 \notin free
  BY DEF UncoveredRanges
<1>4. /\ r[1] \in Nat /\ r[2] \in Nat /\ s[1] \in Nat /\ s[2] \in Nat
      /\ r[1] - 1 \notin s[1] .. s[2] /\ s[1] - 1 \notin r[1] .. r[2]
      /\ r[2] + 1 \notin s[1] .. s[2] /\ s[2] + 1 \notin r[1] .. r[2]
  <2>1. free \subseteq Nat
    BY <1>1
  <2> HIDE DEF free
  <2>2. QED
    BY <1>2, <1>3, <2>1
<1>5. k \in Int /\ r[1] <= k /\ k <= r[2] /\ s[1] <= k /\ k <= s[2]
  BY <1>4
<1> HIDE DEF free
<1>6. r[1] = s[1] /\ r[2] = s[2]
  BY <1>4, <1>5
<1>7. QED
  BY <1>2, <1>3, <1>6

\* ... and a line that no function or class has is in one of these.
LEMMA RangeOfLine ==
    ASSUME NEW lines, IsSeq(lines), NEW k \in DOMAIN lines \ Covered(lines)
    PROVE  \E r \in UncoveredRanges(lines) : k \in r[1] .. r[2]
<1> DEFINE free == DOMAIN lines \ Covered(lines)
           Down == {m \in Nat : m <= k /\ m .. k \subseteq free}
           Up == {m \in Nat : k <= m /\ m + 1 \notin free}
<1>1. DOMAIN lines = 1 .. Len(lines) /\ Len(lines) \in Nat
  BY DEF IsSeq
<1>2. k \in free /\ k \in Nat /\ free \subseteq 1 .. Len(lines)
  BY <1>1
<1> HIDE DEF free
<1>3. PICK a \in Down : \A m \in Down : a <= m
  <2>1. k \in Down
    BY <1>2
  <2>2. Down \subseteq Nat
    OBVIOUS
  <2> HIDE DEF Down
  <2>3. QED
    BY <2>1, <2>2, LeastNumber
<1>4. PICK b \in Up : \A m \in Up : b <= m
  <2>1. Len(lines) \in Up
    BY <1>1, <1>2
  <2>2. Up \subseteq Nat
    OBVIOUS
  <2> HIDE DEF Up
  <2>3. QED
    BY <2>1, <2>2, LeastNumber
<1>5. a \in Nat /\ a <= k /\ a .. k \subseteq free
  OBVIOUS
<1>6. b \in Nat /\ k <= b /\ b + 1 \notin free
  OBVIOUS
<1>7. a \in free
  BY <1>2, <1>5
<1>8. a - 1 \notin free
  <2>1. SUFFICES ASSUME a - 1 \in free PROVE FALSE
    OBVIOUS
  <2>2. a - 1 \in Nat
    BY <1>2, <2>1
  <2>3. \A n \in a - 1 .. k : n = a - 1 \/ n \in a .. k
    BY <1>2, <1>5
  <2>4. a - 1 .. k \subseteq free
    BY <1>5, <2>1, <2>3
  <2>5. a - 1 \in Down
    BY <1>2, <1>5, <2>2, <2>4
  <2>6. a <= a - 1
    BY <1>3, <2>5
  <2>7. QED
    BY <1>5, <2>6
<1>9. k .. b \subseteq free
  <2>1. ASSUME NEW n \in k .. b, n # k PROVE n \in free
    <3>1. n - 1 \in Nat /\ k <= n - 1 /\ n - 1 < b /\ (n - 1) + 1 = n
      BY <1>2, <1>6, <2>1
    <3>2. n - 1 \notin Up
      BY <1>4, <1>6, <3>1
    <3>3. QED
      BY <3>1, <3>2
  <2>2. QED
    BY <1>2, <2>1
<1>10. a .. b \subseteq free /\ b \in free /\ a <= b /\ k \in a .. b
  <2>1. \A n \in a .. b : n \in a .. k \/ n \in k .. b
    BY <1>2, <1>5, <1>6
  <2>2. b \in k .. b /\ k \in a .. b /\ a <= b
    BY <1>2, <1>5, <1>6
  <2>3. QED
    BY <1>5, <1>9, <2>1, <2>2
<1>11. <<a, b>> \in UncoveredRanges(lines)
  BY <1>6, <1>7, <1>8, <1>10 DEF UncoveredRanges, free
<1>12. QED
  BY <1>10, <1>11

\* A chunk that was cut along the syntax is a node or a stretch between nodes.
LEMMA AstChunk ==
    ASSUME NEW f, NEW lines, IsSeq(lines), NEW c \in ChunkPythonAst(f, lines)
    PROVE  /\ c.start \in DOMAIN lines /\ c.end \in DOMAIN lines /\ c.start <= c.end
           /\ \/ \E r \in Nodes(lines) :
                     /\ c = Chunk(f, r[1], r[2], Between(lines, r[1], r[2]), "node")
                     /\ c.start = r[1] /\ c.end = r[2]
              \/ \E r \in UncoveredRanges(lines) :
                     /\ c = Chunk(f, r[1], r[2], Strip(Between(lines, r[1], r[2])), "module")
                     /\ c.start = r[1] /\ c.end = r[2]
<1>1. \A start, end, text, type :
          /\ Chunk(f, start, end, text, type).start = start
          /\ Chunk(f, start, end, text, type).end = end
  BY DEF Chunk
<1>2. CASE \E r \in Nodes(lines) :
               c = Chunk(f, r[1], r[2], Between(lines, r[1], r[2]), "node")
  <2>1. PICK r \in Nodes(lines) : c = Chunk(f, r[1], r[2], Between(lines, r[1], r[2]), "node")
    BY <1>2
  <2>2. r[1] \in DOMAIN lines /\ r[2] \in DOMAIN lines /\ r[1] <= r[2]
    BY DEF Nodes
  <2>3. c.start = r[1] /\ c.end = r[2]
    BY <1>1, <2>1
  <2>4. QED
    BY <2>1, <2>2, <2>3
<1>3. CASE \E r \in UncoveredRanges(lines) :
               c = Chunk(f, r[1], r[2], Strip(Between(lines, r[1], r[2])), "module")
  <2>1. PICK r \in UncoveredRanges(lines) :
            c = Chunk(f, r[1], r[2], Strip(Between(lines, r[1], r[2])), "module")
    BY <1>3
  <2>2. r[1] \in DOMAIN lines /\ r[2] \in DOMAIN lines /\ r[1] <= r[2]
    BY DEF UncoveredRanges
  <2>3. c.start = r[1] /\ c.end = r[2]
    BY <1>1, <2>1
  <2>4. QED
    BY <2>1, <2>2, <2>3
<1>4. QED
  BY <1>2, <1>3 DEF ChunkPythonAst

\* No two of them have a line in common, ...
LEMMA AstApart ==
    ASSUME NEW f, NEW lines, IsSeq(lines), NEW k \in DOMAIN lines,
           NEW c \in ChunkPythonAst(f, lines), c.start <= k, k <= c.end,
           NEW d \in ChunkPythonAst(f, lines), d.start <= k, k <= d.end
    PROVE  c = d
<1> DEFINE Node(e, r) == /\ e = Chunk(f, r[1], r[2], Between(lines, r[1], r[2]), "node")
                         /\ k \in r[1] .. r[2]
           Rest(e, r) == /\ e = Chunk(f, r[1], r[2], Strip(Between(lines, r[1], r[2])), "module")
                         /\ k \in r[1] .. r[2]
<1>1. DOMAIN lines \subseteq Nat
  BY DEF IsSeq
<1>2. ASSUME NEW e \in ChunkPythonAst(f, lines), e.start <= k, k <= e.end
      PROVE  (\E r \in Nodes(lines) : Node(e, r)) \/ (\E r \in UncoveredRanges(lines) : Rest(e, r))
  <2>1. e.start \in Nat /\ e.end \in Nat /\ k \in Nat
    BY <1>1, AstChunk
  <2>2. k \in e.start .. e.end
    BY <1>2, <2>1
  <2>3. QED
    BY <2>2, AstChunk
<1>3. ASSUME NEW r \in Nodes(lines), k \in r[1] .. r[2] PROVE k \in Covered(lines)
  BY <1>3 DEF Covered
<1>4. ASSUME NEW r \in UncoveredRanges(lines), k \in r[1] .. r[2] PROVE k \notin Covered(lines)
  BY <1>4 DEF UncoveredRanges
<1>5. ASSUME NEW r \in Nodes(lines), Node(c, r) PROVE c = d
  <2>1. PICK s \in Nodes(lines) : Node(d, s)
    BY <1>2, <1>3, <1>4, <1>5
  <2>2. r = s
    BY <1>5, <2>1, NodesApart
  <2>3. QED
    BY <1>5, <2>1, <2>2
<1>6. ASSUME NEW r \in UncoveredRanges(lines), Rest(c, r) PROVE c = d
  <2>1. PICK s \in UncoveredRanges(lines) : Rest(d, s)
    BY <1>2, <1>3, <1>4, <1>6
  <2>2. r = s
    BY <1>6, <2>1, RangesApart
  <2>3. QED
    BY <1>6, <2>1, <2>2
<1>7. QED
  BY <1>2, <1>5, <1>6

\* ... and a line that says something is in one.
LEMMA AstHas ==
    ASSUME NEW f, NEW lines, IsSeq(lines), NEW k \in DOMAIN lines, lines[k].form # "blank"
    PROVE  \E c \in ChunkPythonAst(f, lines) : c.start <= k /\ k <= c.end
<1>1. \A start, end, text, type :
          /\ Chunk(f, start, end, text, type).start = start
          /\ Chunk(f, start, end, text, type).end = end
  BY DEF Chunk
<1>2. CASE k \in Covered(lines)
  <2>1. PICK r \in Nodes(lines) : k \in r[1] .. r[2]
    BY <1>2 DEF Covered
  <2> DEFINE c == Chunk(f, r[1], r[2], Between(lines, r[1], r[2]), "node")
  <2>2. c \in ChunkPythonAst(f, lines)
    BY DEF ChunkPythonAst
  <2>3. c.start <= k /\ k <= c.end
    <3>1. DOMAIN lines \subseteq Nat /\ r[1] \in DOMAIN lines /\ r[2] \in DOMAIN lines
      BY DEF IsSeq, Nodes
    <3>2. c.start = r[1] /\ c.end = r[2]
      BY <1>1
    <3> HIDE DEF c
    <3>3. QED
      BY <2>1, <3>1, <3>2
  <2>4. QED
    BY <2>2, <2>3
<1>3. CASE k \notin Covered(lines)
  <2>1. PICK r \in UncoveredRanges(lines) : k \in r[1] .. r[2]
    BY <1>3, RangeOfLine
  <2>2. DOMAIN lines \subseteq Nat /\ r[1] \in DOMAIN lines /\ r[2] \in DOMAIN lines
    BY DEF IsSeq, UncoveredRanges
  <2>3. Strip(Between(lines, r[1], r[2])) # << >>
    BY <2>1, <2>2, PartSays
  <2> DEFINE c == Chunk(f, r[1], r[2], Strip(Between(lines, r[1], r[2])), "module")
  <2>4. c \in ChunkPythonAst(f, lines)
    BY <2>3 DEF ChunkPythonAst
  <2>5. c.start <= k /\ k <= c.end
    <3>1. c.start = r[1] /\ c.end = r[2]
      BY <1>1
    <3> HIDE DEF c
    <3>2. QED
      BY <2>1, <2>2, <3>1
  <2>6. QED
    BY <2>4, <2>5
<1>4. QED
  BY <1>2, <1>3

\* A window for each step; there is one at the first line, and at every step
\* after another one.
LEMMA StepsOn ==
    ASSUME NEW step \in Nat \ {0}
    PROVE  /\ 0 % step = 0
           /\ \A i \in Nat : i % step = 0 => (i + step) % step = 0
<1>1. ASSUME NEW i \in Nat, i % step = 0 PROVE (i + step) % step = 0
  <2> DEFINE n == i \div step
  <2>1. n \in Int /\ i = step * n
    BY <1>1
  <2> HIDE DEF n
  <2>2. step * (n + 1) = i + step /\ n + 1 \in Nat
    <3>1. step * (n + 1) = step * n + step
      BY <2>1
    <3>2. n \in Nat
      BY <2>1
    <3>3. QED
      BY <2>1, <3>1, <3>2
  <2>3. \A m \in Nat : (step * m) % step = 0
    OBVIOUS
  <2>4. QED
    BY <2>2, <2>3
<1>2. 0 % step = 0
  OBVIOUS
<1>3. QED
  BY <1>1, <1>2

\* The lesser of two numbers.
LEMMA Lesser ==
    ASSUME NEW x \in Int, NEW y \in Int
    PROVE  Min({x, y}) = IF x < y THEN x ELSE y
<1> DEFINE m == IF x < y THEN x ELSE y
<1>1. m \in {x, y} /\ \A z \in {x, y} : m <= z
  OBVIOUS
<1>2. Min({x, y}) \in {x, y} /\ \A z \in {x, y} : Min({x, y}) <= z
  BY <1>1 DEF Min
<1>3. QED
  BY <1>1, <1>2

\* Windows begin often enough to leave no line out.
LEMMA WindowHas ==
    ASSUME NEW f, NEW lines, IsSeq(lines), NEW k \in DOMAIN lines, lines[k].form # "blank"
    PROVE  \E c \in ChunkByWindow(f, lines) : c.start <= k /\ k <= c.end
<1> DEFINE step == Max({1, WindowLines - WindowOverlap})
           T == {j \in Nat : j < k /\ (k - 1 - j) % step = 0}
<1>1. DOMAIN lines = 1 .. Len(lines) /\ Len(lines) \in Nat /\ k \in 1 .. Len(lines)
  BY DEF IsSeq
<1>2. step \in Nat \ {0} /\ step <= WindowLines
  <2>1. WindowLines \in Nat \ {0} /\ WindowOverlap \in Nat
    BY WindowAssumption
  <2>2. PICK m \in {1, WindowLines - WindowOverlap} :
            m >= 1 /\ m >= WindowLines - WindowOverlap
    BY <2>1
  <2>3. \E x \in {1, WindowLines - WindowOverlap} :
            \A y \in {1, WindowLines - WindowOverlap} : x >= y
    BY <2>1
  <2>4. step \in {1, WindowLines - WindowOverlap} /\ step >= 1
    BY <2>3 DEF Max
  <2>5. QED
    BY <2>1, <2>4
<1> HIDE DEF step
<1>3. PICK j \in T : \A m \in T : j <= m
  <2>1. (k - 1 - (k - 1)) % step = 0 /\ k - 1 \in Nat /\ k - 1 < k
    <3>1. k - 1 - (k - 1) = 0
      BY <1>1
    <3>2. QED
      BY <1>1, <1>2, <3>1, StepsOn
  <2>2. T # {} /\ T \subseteq Nat
    BY <2>1
  <2> HIDE DEF T
  <2>3. QED
    BY <2>2, LeastNumber
<1> DEFINE i == k - 1 - j
           e == IF i + WindowLines < Len(lines) THEN i + WindowLines ELSE Len(lines)
<1>4. i \in Nat /\ i % step = 0 /\ i + 1 <= k /\ i \in 0 .. Len(lines) - 1
  BY <1>1
<1>5. k <= i + step
  <2>1. j \in Nat /\ j < k /\ k \in Nat /\ step \in Nat
    BY <1>1, <1>2
  <2>2. SUFFICES ASSUME i + step < k PROVE FALSE
    BY <2>1
  <2>3. (i + step) % step = 0
    BY <1>2, <1>4, StepsOn
  <2>4. j - step \in Nat /\ j - step < k /\ k - 1 - (j - step) = i + step
    BY ONLY <2>1, <2>2
  <2>5. j - step \in T
    BY <2>3, <2>4
  <2>6. j <= j - step
    BY <1>3, <2>5
  <2>7. QED
    BY <1>2, <1>3, <2>6
<1> HIDE DEF i
<1>6. Min({i + WindowLines, Len(lines)}) = e
  <2>1. i + WindowLines \in Int /\ Len(lines) \in Int
    BY <1>1, <1>4, WindowAssumption
  <2>2. QED
    BY <2>1, Lesser
<1>7. i + 1 \in DOMAIN lines /\ e \in DOMAIN lines /\ k \in i + 1 .. e /\ i + 1 <= e
  BY <1>1, <1>2, <1>4, <1>5, WindowAssumption
<1> HIDE DEF e
<1>8. Window(lines, i) = Between(lines, i + 1, e)
  BY <1>6 DEF Window
<1>9. Strip(Window(lines, i)) # << >>
  BY <1>7, <1>8, PartSays
<1>10. Len(Window(lines, i)) = e - (i + 1) + 1
  BY <1>7, <1>8, BetweenLines
<1> DEFINE c == WindowChunk(f, lines, i)
<1>11. c \in ChunkByWindow(f, lines)
  BY <1>4, <1>9 DEF ChunkByWindow, step
<1>12. c.start = i + 1 /\ c.end = i + Len(Window(lines, i))
  BY DEF WindowChunk, Chunk
<1> HIDE DEF c
<1>13. c.start <= k /\ k <= c.end
  <2>1. e \in Int /\ i + (e - (i + 1) + 1) = e
    BY <1>1, <1>4, <1>7
  <2>2. QED
    BY <1>4, <1>7, <1>10, <1>12, <2>1
<1>14. QED
  BY <1>11, <1>13

\* and where one begins says which it is.
LEMMA WindowStarts ==
    ASSUME NEW f, NEW lines, NEW c \in ChunkByWindow(f, lines),
           NEW d \in ChunkByWindow(f, lines), c.start = d.start
    PROVE  c = d
<1>1. PICK i \in 0 .. Len(lines) - 1 : c = WindowChunk(f, lines, i)
  BY DEF ChunkByWindow
<1>2. PICK j \in 0 .. Len(lines) - 1 : d = WindowChunk(f, lines, j)
  BY DEF ChunkByWindow
<1>3. c.start = i + 1 /\ d.start = j + 1
  BY <1>1, <1>2 DEF WindowChunk, Chunk
<1>4. i = j
  <2>1. i \in Int /\ j \in Int
    OBVIOUS
  <2>2. i + 1 = j + 1
    BY <1>3
  <2>3. QED
    BY ONLY <2>1, <2>2
<1>5. QED
  BY <1>1, <1>2, <1>4

\* Whatever a file says, no line that says something is dropped ...
LEMMA ChunksHave ==
    ASSUME NEW f, NEW content, IsSeq(content.lines), content.parses \in BOOLEAN,
           NEW k \in DOMAIN content.lines, content.lines[k].form # "blank"
    PROVE  LET With == {c \in ChunkFile(f, content) : c.start <= k /\ k <= c.end}
           IN  With # {} /\ (content.parses => Cardinality(With) = 1)
<1> DEFINE With == {c \in ChunkFile(f, content) : c.start <= k /\ k <= c.end}
<1>1. Strip(content.lines) # << >>
  BY StripSays
<1>2. CASE content.parses
  <2>1. ChunkFile(f, content) = ChunkPythonAst(f, content.lines)
    BY <1>1, <1>2 DEF ChunkFile
  <2>2. PICK c \in ChunkPythonAst(f, content.lines) : c.start <= k /\ k <= c.end
    BY AstHas
  <2>3. \A d \in With : d = c
    BY <2>1, <2>2, AstApart
  <2>4. With = {c}
    BY <2>1, <2>2, <2>3
  <2> HIDE DEF With
  <2>5. With # {} /\ Cardinality(With) = 1
    BY <2>4, FS_Singleton
  <2>6. QED
    BY <2>5 DEF With
<1>3. CASE ~content.parses
  <2>1. ChunkFile(f, content) = ChunkByWindow(f, content.lines)
    BY <1>1, <1>3 DEF ChunkFile
  <2>2. With # {}
    BY <2>1, WindowHas
  <2>3. QED
    BY <1>3, <2>2
<1>4. QED
  BY <1>2, <1>3

\* ... and no two chunks have one id.
LEMMA ChunksDiffer ==
    ASSUME NEW f, NEW content, IsSeq(content.lines), content.parses \in BOOLEAN,
           NEW c \in ChunkFile(f, content), NEW d \in ChunkFile(f, content), c.start = d.start
    PROVE  c = d
<1>1. CASE content.parses
  <2>1. c \in ChunkPythonAst(f, content.lines) /\ d \in ChunkPythonAst(f, content.lines)
    BY <1>1 DEF ChunkFile
  <2>2. c.start \in DOMAIN content.lines /\ c.start <= c.end /\ d.start <= d.end
    BY <2>1, AstChunk
  <2>3. c.start <= c.start /\ d.start <= c.start /\ c.start <= d.end
    <3>1. c.start \in Nat
      BY <2>2 DEF IsSeq
    <3>2. QED
      BY <2>2, <3>1
  <2>4. QED
    BY <2>1, <2>2, <2>3, AstApart
<1>2. CASE ~content.parses
  <2>1. c \in ChunkByWindow(f, content.lines) /\ d \in ChunkByWindow(f, content.lines)
    BY <1>2 DEF ChunkFile
  <2>2. QED
    BY <2>1, WindowStarts
<1>3. QED
  BY <1>1, <1>2

\* "Nothing in the file is silently dropped": however long a file is, whatever it
\* says and whether or not it parses, each line that says something is in a
\* chunk, in exactly one if the file parses, and no chunk replaces another.
THEOREM NoLineDropped == Spec => []EveryLineInAChunk
<1>1. TypeOK => EveryLineInAChunk
  <2> SUFFICES ASSUME TypeOK, NEW f \in Files, disk[f] # NoFile
               PROVE  LET chunks == ChunkFile(f, disk[f])
                          With(k) == {c \in chunks : c.start <= k /\ k <= c.end}
                      IN  /\ \A k \in DOMAIN disk[f].lines : disk[f].lines[k].form # "blank" =>
                                 /\ With(k) # {}
                                 /\ disk[f].parses => Cardinality(With(k)) = 1
                          /\ \A c, d \in chunks : c.start = d.start => c = d
    BY DEF EveryLineInAChunk
  <2>1. IsSeq(disk[f].lines) /\ disk[f].parses \in BOOLEAN
    BY ContentsAssumption DEF TypeOK
  <2>2. ASSUME NEW k \in DOMAIN disk[f].lines, disk[f].lines[k].form # "blank"
        PROVE  LET With == {c \in ChunkFile(f, disk[f]) : c.start <= k /\ k <= c.end}
               IN  With # {} /\ (disk[f].parses => Cardinality(With) = 1)
    BY <2>1, <2>2, ChunksHave
  <2>3. \A c, d \in ChunkFile(f, disk[f]) : c.start = d.start => c = d
    BY <2>1, ChunksDiffer
  <2>4. QED
    BY <2>2, <2>3
<1>2. QED
  BY <1>1, TypeCorrect, PTL

-----------------------------------------------------------------------------
(* The retriever.                                                          *)

\* How many of the first n of a list are of other files.
Of(s, file, n) == {k \in 1 .. n : s[k].chunk.file # file}
Count(s, file, n) == Cardinality(Of(s, file, n))

\* One more element counts if it is of another file.
LEMMA CountOn ==
    ASSUME NEW s, NEW file, NEW n \in Nat
    PROVE  /\ IsFiniteSet(Of(s, file, n)) /\ Count(s, file, n) \in Nat
           /\ Count(s, file, 0) = 0
           /\ Count(s, file, n + 1) =
                  IF n + 1 \in Of(s, file, n + 1) THEN Count(s, file, n) + 1
                                                 ELSE Count(s, file, n)
<1>1. IsFiniteSet(Of(s, file, n))
  <2>1. IsFiniteSet(1 .. n)
    BY FS_Interval
  <2>2. Of(s, file, n) \in SUBSET (1 .. n)
    BY DEF Of
  <2>3. QED
    BY <2>1, <2>2, FS_Subset
<1>2. Count(s, file, n) \in Nat
  BY <1>1, FS_CardinalityType DEF Count
<1>3. Count(s, file, 0) = 0
  <2>1. Of(s, file, 0) = {}
    BY DEF Of
  <2>2. QED
    BY <2>1, FS_EmptySet DEF Count
<1>4. n + 1 \notin Of(s, file, n)
  BY DEF Of
<1>5. CASE n + 1 \in Of(s, file, n + 1)
  <2>1. Of(s, file, n + 1) = Of(s, file, n) \cup {n + 1}
    BY <1>5 DEF Of
  <2>2. QED
    BY <1>1, <1>2, <1>3, <1>4, <1>5, <2>1, FS_AddElement DEF Count
<1>6. CASE n + 1 \notin Of(s, file, n + 1)
  <2>1. Of(s, file, n + 1) = Of(s, file, n)
    BY <1>6 DEF Of
  <2>2. QED
    BY <1>1, <1>2, <1>3, <1>6, <2>1 DEF Count
<1>7. QED
  BY <1>5, <1>6

\* Further on there are no fewer, and more behind one that counts.
LEMMA CountRises ==
    ASSUME NEW s, NEW file, NEW m \in Nat, NEW n \in Nat, m <= n
    PROVE  /\ Count(s, file, m) <= Count(s, file, n)
           /\ m < n /\ n \in Of(s, file, n) => Count(s, file, m) < Count(s, file, n)
<1>1. ASSUME NEW l \in Nat, m <= l PROVE Count(s, file, m) <= Count(s, file, l)
  <2>1. Of(s, file, m) \in SUBSET Of(s, file, l)
    BY <1>1 DEF Of
  <2>2. QED
    BY <2>1, CountOn, FS_Subset DEF Count
<1>2. ASSUME m < n, n \in Of(s, file, n) PROVE Count(s, file, m) < Count(s, file, n)
  <2>1. n - 1 \in Nat /\ m <= n - 1 /\ (n - 1) + 1 = n
    BY <1>2
  <2>2. Count(s, file, n) = Count(s, file, n - 1) + 1
    BY <1>2, <2>1, CountOn
  <2>3. Count(s, file, m) <= Count(s, file, n - 1)
    BY <1>1, <2>1
  <2>4. Count(s, file, m) \in Nat /\ Count(s, file, n - 1) \in Nat
    BY <2>1, CountOn
  <2>5. QED
    BY <2>2, <2>3, <2>4
<1>3. QED
  BY <1>1, <1>2

\* Each number up to the count is that of one element, ...
LEMMA CountReaches ==
    ASSUME NEW s, NEW file, NEW n \in Nat, NEW j \in 1 .. Count(s, file, n)
    PROVE  \E k \in Of(s, file, n) : Count(s, file, k) = j
<1> DEFINE T == {m \in Nat : m <= n /\ Count(s, file, m) >= j}
<1>1. \A m \in Nat : Count(s, file, m) \in Nat
  BY CountOn
<1>2. PICK k \in T : \A m \in T : k <= m
  <2>1. n \in T /\ T \subseteq Nat
    BY <1>1
  <2> HIDE DEF T
  <2>2. QED
    BY <2>1, LeastNumber
<1>3. k # 0
  BY <1>1, CountOn
<1>4. k - 1 \in Nat /\ (k - 1) + 1 = k /\ k <= n
  BY <1>3
<1>5. Count(s, file, k - 1) < j
  <2>1. k - 1 \notin T
    BY <1>2, <1>4
  <2>2. QED
    BY <1>1, <1>4, <2>1
<1>6. Count(s, file, k) = (IF k \in Of(s, file, k) THEN Count(s, file, k - 1) + 1
                                                 ELSE Count(s, file, k - 1))
  BY <1>4, CountOn
<1>7. Count(s, file, k) >= j /\ Count(s, file, k) \in Nat /\ Count(s, file, k - 1) \in Nat
  BY <1>1, <1>4
<1> HIDE DEF T
<1>8. k \in Of(s, file, k) /\ Count(s, file, k) = j
  BY <1>5, <1>6, <1>7
<1>9. k \in Of(s, file, n)
  BY <1>4, <1>8 DEF Of
<1>10. QED
  BY <1>8, <1>9

\* ... and of no other.
LEMMA CountTells ==
    ASSUME NEW s, NEW file, NEW n \in Nat, NEW k \in Of(s, file, n), NEW l \in Of(s, file, n),
           Count(s, file, k) = Count(s, file, l)
    PROVE  k = l
<1>1. /\ k \in Nat /\ l \in Nat /\ k \in Of(s, file, k) /\ l \in Of(s, file, l)
      /\ Count(s, file, k) \in Nat
  <2>1. /\ k \in Nat /\ l \in Nat /\ k \in Of(s, file, k) /\ l \in Of(s, file, l)
    BY DEF Of
  <2>2. QED
    BY <2>1, CountOn
<1>2. ~ (k < l) /\ ~ (l < k)
  BY <1>1, CountRises
<1>3. QED
  BY <1>1, <1>2

\* What is selected of the first n.
LEMMA ElsewhereHas ==
    ASSUME NEW s, IsSeq(s), NEW file, NEW n \in 0 .. Len(s),
           NEW e, e = Elsewhere(SubSeq(s, 1, n), file)
    PROVE  /\ e \in Seq({s[i] : i \in DOMAIN s}) /\ Len(e) = Count(s, file, n)
           /\ \A k \in Of(s, file, n) : e[Count(s, file, k)] = s[k]
<1> DEFINE S == {s[i] : i \in DOMAIN s}
           t == SubSeq(s, 1, n)
           of == {k \in DOMAIN t : t[k].chunk.file # file}
<1>1. n \in Nat /\ s \in Seq(S) /\ DOMAIN s = 1 .. Len(s) /\ Len(s) \in Nat
  BY DEF IsSeq
<1>2. \A i \in 1 .. n : s[i] \in S
  BY <1>1
<1> HIDE DEF S
<1>3. /\ t \in Seq(S) /\ Len(t) = n
      /\ \A i \in 1 .. n : t[i] = s[i]
  BY <1>1, <1>2, SubSeqProperties
<1>4. DOMAIN t = 1 .. n
  BY <1>1, <1>3
<1> HIDE DEF t
<1>5. of = Of(s, file, n)
  BY <1>3, <1>4 DEF Of
<1>6. ASSUME NEW k \in Of(s, file, n)
      PROVE  {i \in Of(s, file, n) : i <= k} = Of(s, file, k)
  BY <1>1 DEF Of
<1>7. e = [j \in 1 .. Cardinality(of) |->
              t[CHOOSE k \in of : Cardinality({i \in of : i <= k}) = j]]
  BY DEF Elsewhere, t
<1> HIDE DEF of
<1>8. ASSUME NEW j \in 1 .. Count(s, file, n)
      PROVE  /\ \E k \in Of(s, file, n) : Count(s, file, k) = j
             /\ \A k \in Of(s, file, n) : Count(s, file, k) = j => e[j] = s[k]
             /\ e[j] \in S
  <2> DEFINE x == CHOOSE k \in of : Cardinality({i \in of : i <= k}) = j
  <2>1. PICK k \in Of(s, file, n) : Count(s, file, k) = j
    BY <1>1, CountReaches
  <2>2. Cardinality({i \in of : i <= k}) = j
    BY <1>5, <1>6, <2>1 DEF Count
  <2>3. x \in of /\ Cardinality({i \in of : i <= x}) = j
    BY <1>5, <2>2
  <2>4. e[j] = t[x]
    BY <1>5, <1>7 DEF Count
  <2> HIDE DEF x
  <2>5. x \in Of(s, file, n) /\ Count(s, file, x) = j
    BY <1>5, <1>6, <2>3 DEF Count
  <2>6. \A l \in Of(s, file, n) : Count(s, file, l) = j => x = l
    BY <1>1, <2>5, CountTells
  <2>7. x \in 1 .. n
    BY <2>5 DEF Of
  <2>8. e[j] = s[x] /\ e[j] \in S
    BY <1>2, <1>3, <2>4, <2>7
  <2>9. QED
    BY <2>1, <2>6, <2>8
<1>9. DOMAIN e = 1 .. Count(s, file, n) /\ Count(s, file, n) \in Nat
  BY <1>1, <1>5, <1>7, CountOn DEF Count
<1>10. e \in Seq(S) /\ Len(e) = Count(s, file, n)
  <2>1. e = [j \in 1 .. Count(s, file, n) |-> e[j]]
    BY <1>5, <1>7 DEF Count
  <2>2. e \in [1 .. Count(s, file, n) -> S]
    BY <1>8, <2>1
  <2>3. QED
    BY <1>9, <2>2
<1>11. ASSUME NEW k \in Of(s, file, n) PROVE e[Count(s, file, k)] = s[k]
  <2>1. k \in 1 .. n /\ k \in Nat /\ k <= n /\ 0 < k /\ k \in Of(s, file, k)
    BY <1>1 DEF Of
  <2>2. Count(s, file, k) <= Count(s, file, n) /\ Count(s, file, 0) < Count(s, file, k)
    BY <1>1, <2>1, CountRises
  <2>3. Count(s, file, k) \in 1 .. Count(s, file, n)
    BY <1>9, <2>1, <2>2, CountOn
  <2>4. QED
    BY <1>8, <2>3
<1>12. QED
  BY <1>10, <1>11 DEF S

\* The head of a list.
LEMMA HeadOf ==
    ASSUME NEW S, NEW s \in Seq(S), NEW n \in Nat
    PROVE  LET h == SubSeq(s, 1, Min({n, Len(s)}))
           IN  /\ h \in Seq(S) /\ Len(h) = IF n < Len(s) THEN n ELSE Len(s)
               /\ \A i \in 1 .. Len(h) : h[i] = s[i]
<1> DEFINE l == IF n < Len(s) THEN n ELSE Len(s)
<1>1. Len(s) \in Nat /\ DOMAIN s = 1 .. Len(s) /\ l \in 0 .. Len(s)
  OBVIOUS
<1>2. Min({n, Len(s)}) = l
  BY <1>1, Lesser
<1> HIDE DEF l
<1>3. \A i \in 1 .. l : s[i] \in S
  BY <1>1
<1>4. /\ SubSeq(s, 1, l) \in Seq(S) /\ Len(SubSeq(s, 1, l)) = l
      /\ \A i \in 1 .. l : SubSeq(s, 1, l)[i] = s[i]
  BY <1>1, <1>3, SubSeqProperties
<1>5. QED
  BY <1>2, <1>4 DEF l

\* Lists of one length with the same elements are the same.
LEMMA SameLists ==
    ASSUME NEW S, NEW s \in Seq(S), NEW t \in Seq(S), Len(s) = Len(t),
           \A i \in 1 .. Len(s) : s[i] = t[i]
    PROVE  s = t
  BY SeqEqual

\* The head of a list that is the head of a longer one is its head.
LEMMA HeadOfHead ==
    ASSUME NEW S, NEW s \in Seq(S), NEW m \in Nat, NEW n \in Nat
    PROVE  LET h == SubSeq(s, 1, Min({m, Len(s)}))
               l == IF m < Len(s) THEN m ELSE Len(s)
           IN  SubSeq(h, 1, Min({n, Len(h)})) = SubSeq(s, 1, IF n < l THEN n ELSE l)
<1> DEFINE h == SubSeq(s, 1, Min({m, Len(s)}))
           l == IF m < Len(s) THEN m ELSE Len(s)
           g == SubSeq(h, 1, Min({n, Len(h)}))
           k == IF n < l THEN n ELSE l
           t == SubSeq(s, 1, k)
<1>1. Len(s) \in Nat /\ DOMAIN s = 1 .. Len(s) /\ l \in 0 .. Len(s) /\ k \in 0 .. l
  OBVIOUS
<1>2. h \in Seq(S) /\ Len(h) = l /\ \A i \in 1 .. Len(h) : h[i] = s[i]
  BY HeadOf
<1> HIDE DEF h
<1>3. g \in Seq(S) /\ Len(g) = (IF n < Len(h) THEN n ELSE Len(h)) /\ \A i \in 1 .. Len(g) : g[i] = h[i]
  BY <1>2, HeadOf
<1> HIDE DEF g
<1>4. Len(g) = k
  BY <1>2, <1>3
<1> HIDE DEF k, l
<1>5. \A i \in 1 .. k : s[i] \in S
  BY <1>1
<1>6. /\ t \in Seq(S) /\ Len(t) = k
      /\ \A i \in 1 .. k : t[i] = s[i]
  BY <1>1, <1>5, SubSeqProperties
<1> HIDE DEF t
<1>7. \A i \in 1 .. Len(g) : g[i] = t[i]
  <2>1. \A i \in 1 .. k : i \in 1 .. l
    BY <1>1
  <2>2. QED
    BY <1>2, <1>3, <1>4, <1>6, <2>1
<1>8. g = t
  BY <1>3, <1>4, <1>6, <1>7, SameLists
<1>9. QED
  BY <1>8 DEF g, h, t, k, l

\* A file has not more of the first n than it has in the store.
LEMMA OthersMany ==
    ASSUME IsFiniteSet(store), NEW s \in SetToSeqs(store), NEW file,
           NEW n \in 0 .. Cardinality(store)
    PROVE  n - Cardinality(Stored(file)) <= Count(s, file, n)
<1> DEFINE Own == {k \in 1 .. n : s[k].chunk.file = file}
           g == [k \in Own |-> s[k]]
<1>1. /\ Cardinality(store) \in Nat /\ n \in Nat /\ 1 .. n \subseteq 1 .. Cardinality(store)
      /\ s \in [1 .. Cardinality(store) -> store]
      /\ \A i, j \in 1 .. Cardinality(store) : i # j => s[i] # s[j]
  BY FS_CardinalityType DEF SetToSeqs
<1>2. IsFiniteSet(Stored(file)) /\ Cardinality(Stored(file)) \in Nat
  <2>1. Stored(file) \in SUBSET store
    BY DEF Stored
  <2>2. QED
    BY <2>1, FS_Subset, FS_CardinalityType
<1>3. g \in Injection(Own, Stored(file))
  BY <1>1 DEF Injection, IsInjective, Stored
<1>4. IsFiniteSet(Own) /\ Cardinality(Own) <= Cardinality(Stored(file))
  <2> HIDE DEF g, Own
  <2>1. QED
    BY <1>2, <1>3, FS_Injection
<1>5. 1 .. n = Own \cup Of(s, file, n) /\ Own \cap Of(s, file, n) = {}
  BY DEF Of
<1> HIDE DEF Own
<1>6. /\ IsFiniteSet(Of(s, file, n)) /\ Cardinality(Own) \in Nat
      /\ Cardinality(Of(s, file, n)) \in Nat
  BY <1>1, <1>4, CountOn, FS_CardinalityType
<1>7. Cardinality(1 .. n) = n
  BY <1>1, FS_Interval
<1>8. n = Cardinality(Own) + Cardinality(Of(s, file, n))
  <2>1. Cardinality(Own \cup Of(s, file, n)) =
            Cardinality(Own) + Cardinality(Of(s, file, n)) - Cardinality(Own \cap Of(s, file, n))
    BY <1>4, <1>6, FS_Union
  <2>2. Cardinality(Own \cap Of(s, file, n)) = 0
    BY <1>5, FS_EmptySet
  <2>3. Cardinality(Own \cup Of(s, file, n)) = n
    BY <1>5, <1>7
  <2>4. QED
    BY <1>6, <2>1, <2>2, <2>3
<1>9. QED
  BY <1>1, <1>2, <1>4, <1>6, <1>8 DEF Count

\* What is asked for on top makes up for the file's own chunks.
LEMMA ContextIsBest ==
    ASSUME IsFiniteSet(store), NEW file, Cardinality(Stored(file)) <= OverFetch,
           NEW s \in SetToSeqs(store), NEW similar \in 0 .. Cardinality(store)
    PROVE  LET others == Elsewhere(SubSeq(s, 1, similar), file)
           IN  RetrieveContext(s, similar, file) = SubSeq(others, 1, Min({TopK, Len(others)}))
<1> DEFINE S == {s[i] : i \in DOMAIN s}
           all == Cardinality(store)
           asked == IF TopK + OverFetch < all THEN TopK + OverFetch ELSE all
           n == IF similar < asked THEN similar ELSE asked
           found == Elsewhere(SubSeq(s, 1, n), file)
           others == Elsewhere(SubSeq(s, 1, similar), file)
           Top(e) == SubSeq(e, 1, Min({TopK, Len(e)}))
<1>1. TopK \in Nat /\ OverFetch \in Nat /\ TopK + OverFetch \in Nat
  BY RetrieverAssumption
<1>2. all \in Nat /\ s \in [1 .. all -> store] /\ similar \in Nat
  BY FS_CardinalityType DEF SetToSeqs
<1>3. s \in Seq(S) /\ IsSeq(s) /\ Len(s) = all
  <2>1. s \in [1 .. all -> S]
    BY <1>2
  <2> HIDE DEF all, S
  <2>2. s \in Seq(S) /\ Len(s) = all
    BY <1>2, <2>1
  <2>3. QED
    BY <2>2 DEF IsSeq, S
<1> HIDE DEF S
<1>4. RetrieveContext(s, similar, file) = Top(found)
  <2> DEFINE m == TopK + OverFetch
             h == SubSeq(s, 1, Min({m, Len(s)}))
             l == IF m < Len(s) THEN m ELSE Len(s)
  <2>1. SubSeq(h, 1, Min({similar, Len(h)})) = SubSeq(s, 1, IF similar < l THEN similar ELSE l)
    <3>1. m \in Nat
      BY <1>1
    <3> HIDE DEF m
    <3>2. QED
      BY <1>2, <1>3, <3>1, HeadOfHead
  <2>2. Query(s, TopK + OverFetch) = h
    BY DEF Query
  <2>3. n = IF similar < l THEN similar ELSE l
    BY <1>3
  <2> HIDE DEF n, h, l, m
  <2>4. QED
    BY <2>1, <2>2, <2>3 DEF RetrieveContext, m
<1>5. n \in 0 .. Len(s) /\ similar \in 0 .. Len(s) /\ n \in Nat /\ n <= similar
  BY <1>1, <1>2, <1>3
<1>6. n = similar \/ n = TopK + OverFetch
  BY <1>1, <1>2
<1> HIDE DEF all, asked, n
<1>7. /\ found \in Seq(S) /\ Len(found) = Count(s, file, n)
      /\ \A k \in Of(s, file, n) : found[Count(s, file, k)] = s[k]
  BY <1>3, <1>5, ElsewhereHas DEF S
<1>8. /\ others \in Seq(S) /\ Len(others) = Count(s, file, similar)
      /\ \A k \in Of(s, file, similar) : others[Count(s, file, k)] = s[k]
  BY <1>3, <1>5, ElsewhereHas DEF S
<1> HIDE DEF found, others
<1>9. CASE n = similar
  BY <1>4, <1>9 DEF found, others
<1>10. CASE n = TopK + OverFetch
  <2>1. /\ Count(s, file, n) \in Nat /\ Count(s, file, similar) \in Nat
        /\ Count(s, file, n) <= Count(s, file, similar)
    BY <1>2, <1>5, CountOn, CountRises
  <2>2. TopK <= Count(s, file, n)
    <3>1. n - Cardinality(Stored(file)) <= Count(s, file, n)
      BY <1>3, <1>5, OthersMany DEF all
    <3>2. Cardinality(Stored(file)) \in Nat
      <4>1. Stored(file) \in SUBSET store
        BY DEF Stored
      <4>2. QED
        BY <4>1, FS_Subset, FS_CardinalityType
    <3>3. QED
      BY <1>1, <1>10, <2>1, <3>1, <3>2
  <2>3. Top(found) \in Seq(S) /\ Len(Top(found)) = TopK
        /\ \A j \in 1 .. TopK : Top(found)[j] = found[j]
    <3>1. Len(found) \in Nat /\ TopK <= Len(found)
      BY <1>7, <2>1, <2>2
    <3>2. /\ Top(found) \in Seq(S)
          /\ Len(Top(found)) = IF TopK < Len(found) THEN TopK ELSE Len(found)
          /\ \A j \in 1 .. Len(Top(found)) : Top(found)[j] = found[j]
      BY <1>1, <1>7, HeadOf
    <3> HIDE DEF Top
    <3>3. Len(Top(found)) = TopK
      BY <1>1, <3>1, <3>2
    <3>4. QED
      BY <3>2, <3>3
  <2>4. Top(others) \in Seq(S) /\ Len(Top(others)) = TopK
        /\ \A j \in 1 .. TopK : Top(others)[j] = others[j]
    <3>1. Len(others) \in Nat /\ TopK <= Len(others)
      BY <1>1, <1>8, <2>1, <2>2
    <3>2. /\ Top(others) \in Seq(S)
          /\ Len(Top(others)) = IF TopK < Len(others) THEN TopK ELSE Len(others)
          /\ \A j \in 1 .. Len(Top(others)) : Top(others)[j] = others[j]
      BY <1>1, <1>8, HeadOf
    <3> HIDE DEF Top
    <3>3. Len(Top(others)) = TopK
      BY <1>1, <3>1, <3>2
    <3>4. QED
      BY <3>2, <3>3
  <2>5. ASSUME NEW j \in 1 .. TopK PROVE found[j] = others[j]
    <3>1. j \in 1 .. Count(s, file, n)
      BY <1>1, <2>1, <2>2
    <3>2. PICK k \in Of(s, file, n) : Count(s, file, k) = j
      BY <1>5, <3>1, CountReaches
    <3>3. k \in Of(s, file, similar)
      BY <1>2, <1>5 DEF Of
    <3>4. QED
      BY <1>7, <1>8, <3>2, <3>3
  <2>6. Top(found) = Top(others)
    <3> HIDE DEF Top
    <3>1. QED
      BY <2>3, <2>4, <2>5, SameLists
  <2>7. QED
    BY <1>4, <2>6 DEF others
<1>11. QED
  BY <1>6, <1>9, <1>10

\* A file has finitely many chunks: each begins at a line of its own ...
LEMMA ChunksFinite ==
    ASSUME NEW f, NEW content, IsSeq(content.lines), content.parses \in BOOLEAN
    PROVE  IsFiniteSet(ChunkFile(f, content))
<1> DEFINE chunks == ChunkFile(f, content)
           n == Len(content.lines)
           g == [c \in chunks |-> c.start]
<1>1. n \in Nat /\ DOMAIN content.lines = 1 .. n
  BY DEF IsSeq
<1>2. ASSUME NEW c \in chunks PROVE c.start \in 1 .. n
  <2>1. CASE c \in ChunkPythonAst(f, content.lines)
    BY <1>1, <2>1, AstChunk
  <2>2. CASE c \in ChunkByWindow(f, content.lines)
    <3>1. PICK i \in 0 .. n - 1 : c = WindowChunk(f, content.lines, i)
      BY <2>2 DEF ChunkByWindow
    <3>2. c.start = i + 1
      BY <3>1 DEF WindowChunk, Chunk
    <3>3. QED
      BY <1>1, <3>1, <3>2
  <2>3. QED
    BY <2>1, <2>2 DEF ChunkFile
<1>3. \A c, d \in chunks : c.start = d.start => c = d
  BY ChunksDiffer
<1> HIDE DEF chunks
<1>4. g \in Injection(chunks, 1 .. n)
  BY <1>2, <1>3 DEF Injection, IsInjective
<1>5. IsFiniteSet(1 .. n)
  BY <1>1, FS_Interval
<1> HIDE DEF g
<1>6. IsFiniteSet(chunks)
  BY <1>4, <1>5, FS_Injection
<1>7. QED
  BY <1>6 DEF chunks

\* ... so the store holds finitely many.
LEMMA StoreFinite == Spec => []IsFiniteSet(store)
<1>1. Init => IsFiniteSet(store)
  BY FS_EmptySet DEF Init
<1>2. IndInv /\ IsFiniteSet(store) /\ [Next]_vars => IsFiniteSet(store)'
  <2> SUFFICES ASSUME IndInv, IsFiniteSet(store), [Next]_vars
               PROVE  IsFiniteSet(store')
    OBVIOUS
  <2>1. ASSUME store' \in SUBSET store PROVE IsFiniteSet(store')
    BY <2>1, FS_Subset
  <2>2. ASSUME Upsert PROVE IsFiniteSet(store')
    <3> DEFINE chunks == ChunkFile(run.file, run.content)
               g == [v \in run.vectors |-> v.chunk]
    <3>1. run.phase = "embed" /\ run.left = {}
          /\ store' = {v \in store : \A w \in run.vectors : Id(v) # Id(w)} \cup run.vectors
      BY <2>2 DEF Upsert
    <3>2. run.vectors = Embedded(chunks, model)
      BY <3>1 DEF IndInv, RunTrue
    <3>3. IsFiniteSet(chunks)
      <4>1. run.file \in Files /\ run.content \in Contents[run.file] \ {NoFile}
        BY <3>1 DEF IndInv, TypeOK
      <4>2. IsSeq(run.content.lines) /\ run.content.parses \in BOOLEAN
        BY <4>1, ContentsAssumption
      <4>3. QED
        BY <4>2, ChunksFinite
    <3> HIDE DEF chunks
    <3>4. g \in Injection(run.vectors, chunks)
      <4>1. \A v \in run.vectors : v.chunk \in chunks /\ v = [chunk |-> v.chunk, vector |-> Embedding(model, v.chunk.text)]
        BY <3>2 DEF Embedded
      <4>2. \A v, w \in run.vectors : v.chunk = w.chunk => v = w
        BY <4>1
      <4>3. QED
        BY <4>1, <4>2 DEF Injection, IsInjective
    <3> HIDE DEF g
    <3>5. IsFiniteSet(run.vectors)
      BY <3>3, <3>4, FS_Injection
    <3>6. {v \in store : \A w \in run.vectors : Id(v) # Id(w)} \in SUBSET store
      OBVIOUS
    <3>7. IsFiniteSet({v \in store : \A w \in run.vectors : Id(v) # Id(w)})
      BY <3>6, FS_Subset
    <3>8. QED
      BY <3>1, <3>5, <3>7, FS_Union
  <2>3. CASE UNCHANGED store
    BY <2>1, <2>3
  <2>4. CASE DeleteFile
    BY <2>1, <2>4 DEF DeleteFile
  <2>5. UNCHANGED store \/ DeleteFile \/ Upsert
    BY DEF Next, vars, Edit, ReadFile, Configure, Start, EmbedText, Finish, Fail
  <2>6. QED
    BY <2>2, <2>3, <2>4, <2>5
<1>3. QED
  BY <1>1, <1>2, IndCorrect, PTL DEF Spec

\* "Same-file and below-threshold results ... shouldn't shrink the final result
\* count": whatever is stored and however similar it is, a file without more
\* chunks than the query asks for on top gets the most similar that the other
\* files have.
THEOREM ContextNotShrunk == Spec => []BestContext
<1>1. IsFiniteSet(store) => BestContext
  BY ContextIsBest DEF BestContext
<1>2. QED
  BY <1>1, StoreFinite, PTL

=============================================================================
