----------------------------- MODULE RepoIndex ------------------------------
(***************************************************************************)
(* The repository index: review-cli index (cli/index_repo.py) walks a      *)
(* directory and puts its chunks and their vectors in the vector store,    *)
(* while authors go on editing; runs fail and are started again; the       *)
(* retriever (rag/retriever.py) looks for context in what they have left.  *)
(***************************************************************************)
EXTENDS Chunker

CONSTANTS Files,        \* the names of the Python files
          Written,      \* what each of them may say at first
          Revisions,    \* and what its authors make of it
          NoFile,       \* what stands for the content of a file that is not there
          Models,       \* the values of EMBEDDING_PROVIDER and EMBEDDING_MODEL
          TopK,         \* settings.top_k_retrieval
          OverFetch,    \* by how much a query asks for more, 5 in the source
          MaxEdits, MaxRuns,   \* bounds
          MaxRanked            \* a bound: chunks in the store when the retriever is tried

ASSUME RetrieverAssumption == TopK \in Nat /\ OverFetch \in Nat

VARIABLES disk,      \* what each file says by now
          model,     \* the settings
          store,     \* the vector store: chunks, each with its vector
          cache,     \* the embedding cache: keys, each with its vector
          run,       \* the run that goes on, or how the last one ended
          tainted,   \* files whose chunks could not be deleted the last time
          fresh,     \* files that say what they said when this run read them
          edits, runs
vars == <<disk, model, store, cache, run, tainted, fresh, edits, runs>>

\* Embedding is deterministic: what stands for the vector of a text.
Embedding(m, text) == <<m, text>>

\* Mutant of MakeKey: the key has the text and not the model.
MakeKeyOfText(m, text) == <<text>>

\* embedding_cache.make_key()
MakeKey(m, text) == <<m, text>>

Embedded(chunks, m) == {[chunk |-> c, vector |-> Embedding(m, c.text)] : c \in chunks}

\* What the store should hold of a file.
Vectors(file, content, m) == Embedded(ChunkFile(file, content), m)

Stored(file) == {v \in store : v.chunk.file = file}
Id(v) == <<v.chunk.file, v.chunk.start, v.chunk.end>>

\* file is the one being indexed, content what was read of it, left its chunks
\* that wait for their vectors.
Run(phase, todo, file, content, left, vectors) ==
    [phase |-> phase, todo |-> todo, file |-> file, content |-> content,
     left |-> left, vectors |-> vectors]
Walk(todo) == Run("walk", todo, NoFile, NoFile, {}, {})
Ended(outcome) == Run(outcome, {}, NoFile, NoFile, {}, {})

Running == run.phase \in {"walk", "delete", "embed"}

Contents == [f \in Files |-> Written[f] \cup Revisions[f]]
AllContents == UNION {Contents[f] : f \in Files}

IsSeq(s) == s \in Seq({s[i] : i \in DOMAIN s})
ASSUME ContentsAssumption ==
    \A f \in Files : \A c \in Contents[f] \ {NoFile} : c.parses \in BOOLEAN /\ IsSeq(c.lines)

Init ==
    /\ disk \in {d \in [Files -> AllContents] :
                   \A f \in Files : d[f] \in Written[f]}
    /\ model \in Models
    /\ store = {} /\ cache = {}
    /\ run = Ended("none")
    /\ tainted = {} /\ fresh = {}
    /\ edits = 0 /\ runs = 0

-----------------------------------------------------------------------------

\* Somebody writes, empties, creates or removes a file, whatever goes on.
Edit(f) ==
    /\ edits < MaxEdits
    /\ edits' = edits + 1
    /\ \E c \in Revisions[f] \ {disk[f]} : disk' = [disk EXCEPT ![f] = c]
    /\ fresh' = fresh \ {f}
    /\ UNCHANGED <<model, store, cache, run, tainted, runs>>

\* The settings are read when a command starts.
Configure ==
    /\ ~Running /\ edits < MaxEdits
    /\ edits' = edits + 1
    /\ model' \in Models \ {model}
    /\ fresh' = {}
    /\ UNCHANGED <<disk, store, cache, run, tainted, runs>>

\* index_directory() lists the files before it reads the first of them.
Start ==
    /\ ~Running /\ runs < MaxRuns
    /\ runs' = runs + 1
    /\ run' = Walk({f \in Files : disk[f] # NoFile})
    /\ fresh' = {}
    /\ UNCHANGED <<disk, model, store, cache, tainted, edits>>

\* path.read_text() and chunk_file(): a file without chunks is passed over, one
\* that is gone by now ends the run.
ReadFile(f) ==
    /\ run.phase = "walk" /\ f \in run.todo
    /\ \/ /\ disk[f] = NoFile
          /\ run' = Ended("failed")
          /\ UNCHANGED fresh
       \/ /\ disk[f] # NoFile
          /\ LET chunks == ChunkFile(f, disk[f])
                 left == run.todo \ {f}
             IN  run' = IF chunks = {} THEN Walk(left)
                        ELSE Run("delete", left, f, disk[f], chunks, {})
          /\ fresh' = fresh \cup {f}
    /\ UNCHANGED <<disk, model, store, cache, tainted, edits, runs>>

\* Mutant of DeleteFile: upsert() alone is trusted to replace what was there.
DeleteFileSkipped ==
    /\ run.phase = "delete"
    /\ run' = Run("embed", run.todo, run.file, run.content, run.left, {})
    /\ tainted' = tainted \ {run.file}
    /\ UNCHANGED <<disk, model, store, cache, fresh, edits, runs>>

\* ChromaStore.delete_file() keeps an exception of the store to itself.
DeleteFile ==
    /\ run.phase = "delete"
    /\ run' = Run("embed", run.todo, run.file, run.content, run.left, {})
    /\ \/ store' = store \ Stored(run.file) /\ tainted' = tainted \ {run.file}
       \/ store' = store /\ tainted' = tainted \cup {run.file}
    /\ UNCHANGED <<disk, model, cache, fresh, edits, runs>>

\* embed_text(): from the cache, or from the provider and into the cache.
EmbedText ==
    /\ run.phase = "embed"
    /\ \E c \in run.left :
          LET key == MakeKey(model, c.text)
              hits == {e \in cache : e.key = key}
          IN  /\ \A d \in run.left : c.start <= d.start
              /\ \E vector \in IF hits = {} THEN {Embedding(model, c.text)}
                                            ELSE {e.vector : e \in hits} :
                    /\ cache' = cache \cup {[key |-> key, vector |-> vector]}
                    /\ run' = Run("embed", run.todo, run.file, run.content, run.left \ {c},
                                  run.vectors \cup {[chunk |-> c, vector |-> vector]})
    /\ UNCHANGED <<disk, model, store, tainted, fresh, edits, runs>>

\* What is in the store under the same id is replaced.
Upsert ==
    /\ run.phase = "embed" /\ run.left = {}
    /\ store' = {v \in store : \A w \in run.vectors : Id(v) # Id(w)} \cup run.vectors
    /\ run' = Walk(run.todo)
    /\ UNCHANGED <<disk, model, cache, tainted, fresh, edits, runs>>

Finish ==
    /\ run.phase = "walk" /\ run.todo = {}
    /\ run' = Ended("done")
    /\ UNCHANGED <<disk, model, store, cache, tainted, fresh, edits, runs>>

\* The provider raises for a text that is not in the cache, the store raises,
\* or the process is killed, in the middle of writing to the cache perhaps:
\* an entry that is torn counts as none.
Fail ==
    /\ Running
    /\ run' = Ended("failed")
    /\ UNCHANGED <<disk, model, store, cache, tainted, fresh, edits, runs>>

Next ==
    \/ \E f \in Files : Edit(f) \/ ReadFile(f)
    \/ Configure \/ Start \/ DeleteFile \/ EmbedText \/ Upsert \/ Finish \/ Fail

Spec == Init /\ [][Next]_vars

-----------------------------------------------------------------------------
(* The retriever.  ranked is what the store holds, the most similar first, *)
(* of which so many come up to settings.min_similarity_score.              *)

Query(ranked, top_k) == SubSeq(ranked, 1, Min({top_k, Len(ranked)}))

\* The elements of a list that are of other files, in its order.
Elsewhere(s, file) ==
    LET of == {k \in DOMAIN s : s[k].chunk.file # file}
    IN  [j \in 1 .. Cardinality(of) |->
            s[CHOOSE k \in of : Cardinality({i \in of : i <= k}) = j]]

\* Mutant of RetrieveContext: no more is asked for than is wanted.
RetrieveExactly(ranked, similar, file) ==
    LET results == Query(ranked, TopK)
    IN  Elsewhere(SubSeq(results, 1, Min({similar, Len(results)})), file)

RetrieveContext(ranked, similar, file) ==
    LET results  == Query(ranked, TopK + OverFetch)
        filtered == Elsewhere(SubSeq(results, 1, Min({similar, Len(results)})), file)
    IN  SubSeq(filtered, 1, Min({TopK, Len(filtered)}))

-----------------------------------------------------------------------------

TypeOK ==
    /\ disk \in [Files -> AllContents] /\ \A f \in Files : disk[f] \in Contents[f]
    /\ model \in Models
    /\ run.phase \in {"none", "walk", "delete", "embed", "done", "failed"}
    /\ run.todo \subseteq Files
    /\ run.phase \in {"delete", "embed"} =>
           run.file \in Files /\ run.content \in Contents[run.file] \ {NoFile}
    /\ tainted \subseteq Files /\ fresh \subseteq Files
    /\ edits \in Nat /\ runs \in Nat

\* "Nothing in the file is silently dropped": a line that says something is in
\* one chunk of a file that parses and in some chunk of any other, and no two
\* chunks have one id.
EveryLineInAChunk ==
    \A f \in Files : disk[f] # NoFile =>
        LET chunks == ChunkFile(f, disk[f])
            With(k) == {c \in chunks : c.start <= k /\ k <= c.end}
        IN  /\ \A k \in DOMAIN disk[f].lines : disk[f].lines[k].form # "blank" =>
                   /\ With(k) # {}
                   /\ disk[f].parses => Cardinality(With(k)) = 1
            /\ \A c, d \in chunks : c.start = d.start => c = d

\* "Replace, not accumulate stale chunks from a prior version": whatever fails
\* in between, what the store has of a file is what one version of the file and
\* one model make of it, all of it, or nothing.
OneVersion ==
    \A f \in Files \ tainted :
        Stored(f) = {} \/ \E c \in Contents[f] \ {NoFile}, m \in Models : Stored(f) = Vectors(f, c, m)

\* A run that goes through makes up for everything before it: each file it read,
\* if it has any chunks, is in the store as it is on the disk.
RunRepairs ==
    run.phase = "done" =>
        \A f \in fresh \ tainted :
            ChunkFile(f, disk[f]) # {} => Stored(f) = Vectors(f, disk[f], model)

\* "Same-file and below-threshold results ... shouldn't shrink the final result
\* count": as long as a file has no more chunks than the query asks for on top,
\* its context is the most similar that the other files have.
BestContext ==
    ~Running /\ Cardinality(store) <= MaxRanked => \A file \in {f \in Files : Cardinality(Stored(f)) <= OverFetch} :
        \A ranked \in SetToSeqs(store), similar \in 0 .. Cardinality(store) :
            LET others == Elsewhere(SubSeq(ranked, 1, similar), file)
            IN  RetrieveContext(ranked, similar, file) = SubSeq(others, 1, Min({TopK, Len(others)}))

=============================================================================
