----------------------------- MODULE RepoContext -----------------------------
(***************************************************************************)
(* The retrieval step of a review (ar-review context_builder.rs, ar-index  *)
(* walker.rs, embed.rs and the vector stores): the workspace's symbols are *)
(* looked up in the embedding cache, the others embedded and stored, and   *)
(* the ones nearest the diff go into the prompt with the nearest           *)
(* learnings.                                                              *)
(*                                                                         *)
(* Reviews of different heads, and of different repositories, share one    *)
(* cache whose key is (path, name, line_start): their rows overwrite each  *)
(* other.  A snippet is <<prefix, rest>>; what is cut off at the input cap *)
(* is the rest.  The answers of the embedding server are taken as they     *)
(* come: nothing counts their vectors or looks at their indices.           *)
(***************************************************************************)
EXTENDS LearningsStore, Sequences, Functions

CONSTANTS
    Reviews,        \* review tasks
    Heads,          \* workspaces they may find
    NSymbols,       \* symbols 1..NSymbols, in the order of the walk
    Snippet,        \* Snippet[h][s]: the text of symbol s, or OutOfRange
    OutOfRange,     \* a symbol whose last line is past the end of its file
    Models,         \* embedding models the operator may configure
    Batch,          \* AR_EMBED_BATCH_SIZE
    Chunk,          \* keys per SELECT of fetch_by_keys
    TopK,           \* top_k
    MaxRestarts     \* bound: restarts of the process

ASSUME ContextAssumption ==
    /\ NSymbols \in Nat /\ MaxRestarts \in Nat
    /\ Batch \in Nat \ {0} /\ Chunk \in Nat \ {0} /\ TopK \in Nat \ {0}

VARIABLES
    embedder,   \* [model, capped, shared]: the environment of this process
    vectors,    \* the shared cache: symbol -> [content, vector, whole]; `whole`
                \* is history: every answer behind the row was in order
    builds,     \* builds[r]: the place and locals of a context build
    restarts

contextVars == <<embedder, vectors, builds, restarts>>
vars == <<learningVars, started, contextVars>>

Symbols == 1..NSymbols
NoBuild == [at |-> "idle", head |-> CHOOSE h \in Heads : TRUE, readable |-> {},
            fetched |-> 0, cached |-> <<>>, misses |-> {}, embedded |-> {},
            answers |-> <<>>, whole |-> TRUE,
            symbols |-> <<>>, section |-> "none", learnings |-> {}]

(* Rows of f before those of g. *)
Over(f, g) ==
    [s \in DOMAIN f \cup DOMAIN g |-> IF s \in DOMAIN f THEN f[s] ELSE g[s]]

(* truncate_at_char_boundary: a text within the cap is kept whole. *)
Capped(text) == IF embedder.capped THEN <<text[1], "">> ELSE text

(* What the model answers for symbol s. *)
VectorOf(b, s) ==
    [model |-> embedder.model, of |-> Capped(Snippet[b.head][s])]

(* The place of s among the symbols of S, in the order of the walk. *)
Place(S, s) == Cardinality({t \in S : t <= s})
Nth(S, i) == CHOOSE s \in S : Place(S, s) = i

(* embed_symbols_with_config pairs symbols, snippets and vectors by their  *)
(* place: the vectors of all batches in one list, and symbols without a    *)
(* vector are dropped.  The content kept is the capped snippet.            *)
Newly(b) ==
    [s \in {t \in b.embedded : Place(b.misses, t) <= Len(b.answers)} |->
        [content |-> Capped(Snippet[b.head][s]),
         vector |-> b.answers[Place(b.misses, s)], whole |-> b.whole]]

GoBuild(r, b) == builds' = [builds EXCEPT ![r] = b]
Leave == UNCHANGED <<embedder, vectors, restarts, learningVars>>

(* build_review_context_with_store up to the embedded query.  No Embedding *)
(* tier, a failed walk, an empty or a failed embedding of the diff leave   *)
(* the context empty.  index_workspace drops the files it cannot read,     *)
(* parse or may not enter.                                                 *)
IndexWorkspace(r) ==
    /\ builds[r].at = "idle"
    /\ Begin
    /\ \E h \in Heads, found \in {Symbols, Symbols \ {1}, {}} :
          GoBuild(r, [NoBuild EXCEPT !.at = "query", !.head = h, !.readable = found])
    /\ Leave

EmbedQuery(r) ==
    /\ builds[r].at = "query"
    /\ \/ GoBuild(r, [builds[r] EXCEPT !.at = "snippets"])
       \/ GoBuild(r, NoBuild)
    /\ UNCHANGED started
    /\ Leave

SkipSection(r) == GoBuild(r, [builds[r] EXCEPT !.at = "learnings", !.section = "skipped"])

(* compute_snippets, and the choice between the shared cache and a store   *)
(* of this call's own.  One symbol out of range fails the whole section.   *)
ComputeSnippets(r) ==
    LET b == builds[r] IN
    /\ b.at = "snippets"
    /\ IF \E s \in b.readable : Snippet[b.head][s] = OutOfRange
       THEN SkipSection(r)
       ELSE IF b.readable = {}
       THEN GoBuild(r, [b EXCEPT !.at = "learnings"])
       ELSE IF embedder.shared
       THEN GoBuild(r, [b EXCEPT !.at = "fetching"])
       ELSE GoBuild(r, [b EXCEPT !.at = "embedding", !.misses = b.readable])
    /\ UNCHANGED started
    /\ Leave

(* Mutant: a cached row compared with the snippet cut at the cap. *)
HitByPrefix(b, s) ==
    s \in DOMAIN vectors /\ vectors[s].content[1] = Snippet[b.head][s][1]

(* A row is used when its content is the whole snippet, bit for bit.  A    *)
(* snippet over the cap is stored cut and never found, whatever            *)
(* compute_snippets' comment says (context_builder.rs:231-236: "both sides *)
(* are truncated the same way at embed-time").                             *)
Hit(b, s) == s \in DOMAIN vectors /\ vectors[s].content = Snippet[b.head][s]

(* fetch_by_keys: one SELECT per chunk of keys, with upserts of other      *)
(* reviews between two of them; the rows are told hits from misses.        *)
FetchByKeys(r) ==
    LET b == builds[r]
        keys == {s \in b.readable : b.fetched < s /\ s <= b.fetched + Chunk}
        hits == {s \in keys : Hit(b, s)}
        last == b.fetched + Chunk >= NSymbols
    IN  /\ b.at = "fetching"
        /\ \/ GoBuild(r, [b EXCEPT
                 !.fetched = IF last THEN 0 ELSE b.fetched + Chunk,
                 !.cached = Over([s \in hits |-> vectors[s]], b.cached),
                 !.misses = b.misses \cup (keys \ hits),
                 !.at = IF last THEN "embedding" ELSE "fetching"])
           \/ SkipSection(r)
        /\ UNCHANGED started
        /\ Leave

(* The lowest Batch symbols of the misses that are left, and one vector    *)
(* for each of them in their order.                                        *)
NextBatch(b) ==
    LET left == b.misses \ b.embedded
    IN  {s \in left : Cardinality({t \in left : t < s}) < Batch}
InOrder(b) ==
    [i \in 1..Cardinality(NextBatch(b)) |-> VectorOf(b, Nth(NextBatch(b), i))]

(* OpenAiProvider::embed: the vectors of `data` as they stand, of an       *)
(* answer in order, or one that is short, long or in another order.        *)
Answers(vs) ==
    {vs, Tail(vs), SubSeq(vs, 1, Len(vs) - 1), Append(vs, vs[1]),
     [i \in 1..Len(vs) |-> vs[Len(vs) + 1 - i]]}

(* One Router::embed call per batch; `?` drops the batches before it. *)
EmbedBatch(r) ==
    LET b == builds[r] IN
    /\ b.at = "embedding"
    /\ \/ /\ NextBatch(b) # {}
          /\ \/ \E answer \in Answers(InOrder(b)) :
                   GoBuild(r, [b EXCEPT !.embedded = @ \cup NextBatch(b),
                                        !.answers = @ \o answer,
                                        !.whole = @ /\ answer = InOrder(b)])
             \/ SkipSection(r)
       \/ /\ NextBatch(b) = {}
          /\ GoBuild(r, [b EXCEPT !.at = IF embedder.shared /\ DOMAIN Newly(b) # {}
                                         THEN "upserting" ELSE "scoring"])
    /\ UNCHANGED started
    /\ Leave

(* SqliteVectorStore::upsert: one transaction; ON CONFLICT the row is      *)
(* replaced.                                                               *)
Upsert(r) ==
    LET b == builds[r] IN
    /\ b.at = "upserting"
    /\ \/ /\ vectors' = Over(Newly(b), vectors)
          /\ GoBuild(r, [b EXCEPT !.at = "scoring"])
       \/ SkipSection(r) /\ UNCHANGED vectors
    /\ UNCHANGED <<embedder, restarts, learningVars, started>>

(* The rows that are scored: the hits and the new ones, not the store. *)
Candidates(b) == Over(Newly(b), b.cached)

(* score_against_query: any TopK of the candidates may be the nearest. *)
Score(r) ==
    LET b == builds[r]
        all == Candidates(b)
        k == Min({TopK, Cardinality(DOMAIN all)})
    IN  /\ b.at = "scoring"
        /\ \E top \in kSubset(k, DOMAIN all) :
              GoBuild(r, [NoBuild EXCEPT !.at = "learnings", !.section = "scored",
                             !.head = b.head, !.readable = b.readable,
                             !.whole = b.whole, !.symbols = Restrict(all, top)])
        /\ UNCHANGED started
        /\ Leave

(* query_learnings; a failed query leaves its section out. *)
QueryLearnings(r) ==
    LET b == builds[r] IN
    /\ b.at = "learnings"
    /\ \E page \in Listings :
          \E top \in kSubset(Min({TopK, Cardinality(page)}), page) \cup {{}} :
             GoBuild(r, [b EXCEPT !.at = "done", !.learnings = top])
    /\ UNCHANGED started
    /\ Leave

(* The block goes into the prompt; the task may build another. *)
FormatRepoContext(r) ==
    /\ builds[r].at = "done"
    /\ GoBuild(r, NoBuild)
    /\ UNCHANGED started
    /\ Leave

(* A new process: the operator may have changed the model and the cap.     *)
(* The SQLite cache survives, rows of another model and cap included.      *)
Restart ==
    /\ restarts < MaxRestarts
    /\ restarts' = restarts + 1
    /\ \E m \in Models, cap \in BOOLEAN :
          embedder' = [embedder EXCEPT !.model = m, !.capped = cap]
    /\ builds' = [r \in Reviews |-> NoBuild]
    /\ RestartLearnings
    /\ UNCHANGED <<vectors, started>>

Init ==
    /\ LearningsInit
    /\ started = 0
    /\ \E m \in Models, cap, shared \in BOOLEAN :
          embedder = [model |-> m, capped |-> cap, shared |-> shared]
    /\ vectors = <<>>
    /\ builds = [r \in Reviews |-> NoBuild]
    /\ restarts = 0

Next ==
    \/ LearningsNext /\ UNCHANGED contextVars
    \/ \E r \in Reviews :
          \/ IndexWorkspace(r) \/ EmbedQuery(r) \/ ComputeSnippets(r)
          \/ FetchByKeys(r) \/ EmbedBatch(r) \/ Upsert(r) \/ Score(r)
          \/ QueryLearnings(r) \/ FormatRepoContext(r)
    \/ Restart

Spec == Init /\ [][Next]_vars

(* The prompt quotes the code under review: every symbol in a review's     *)
(* context has the text of that review's own head, whole or cut at the     *)
(* cap, although reviews of other heads and other repositories rewrite the *)
(* shared rows between this review's lookup, its upsert and its scoring,   *)
(* although rows may outlive a change of the cap, and whatever the         *)
(* embedding server answers.  The vector next to it is that of another     *)
(* text, or symbols are missing where TopK were to be had, only after an   *)
(* answer that was not one vector for each text in their order; in the     *)
(* first case the row may have been written then by another review         *)
(* (context_builder.rs embed_and_query_symbols, embed.rs 197-225).         *)
ContextIsOfThisHead ==
    \A r \in Reviews : LET b == builds[r] IN
        b.section = "scored" =>
            /\ \A s \in DOMAIN b.symbols :
                  LET own == Snippet[b.head][s]
                      row == b.symbols[s]
                  IN  /\ row.content \in {own, <<own[1], "">>}
                      /\ row.whole => row.vector.of = row.content
            /\ b.whole => Cardinality(DOMAIN b.symbols)
                             = Min({TopK, Cardinality(b.readable)})
=============================================================================
