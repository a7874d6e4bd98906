------------------------------ MODULE Vectors ------------------------------
(***************************************************************************)
(* The vectors of documents and the search over them (files/embedding.go,   *)
(* cmd/cloudctl/embeddings.go, migration 00026).  A row has the packed      *)
(* vector and, where the database has the type for it, a copy that can be   *)
(* ranked in SQL.  Rows from before the migration have no copy until an     *)
(* operator fills them in, while workers embed, the collector prunes and    *)
(* users search.  When a document is embedded is the subject of JobQueue.   *)
(* A vector is named by the model that made it; models differ in width.     *)
(***************************************************************************)
EXTENDS Naturals

CONSTANTS
  Document,      \* contents; two files with the same content have the same rows
  EmbedWorker,
  Aged,          \* workers that looked for the column before it was there
  Restamped,     \* may a row be pruned and made again while the copy is filled in?
  MaxModels, MaxDocOps

ASSUME VectorAssumption ==
  Aged \subseteq EmbedWorker /\ Restamped \in BOOLEAN /\ MaxModels \in Nat \ {0} /\ MaxDocOps \in Nat

VARIABLES
  visible,       \* documents that a live file of the caller has
  rowOf,           \* doc_embedding: no row, or one with a vector and its copy, 0 for NULL
  model,         \* what the sidecar serves, under one name
  embedding,     \* what each worker is about to store
  filling,       \* the batch of a backfill
  query,         \* a search between its two statements
  answer,        \* the last answer, and what it had to have
  docOps

vectorVars == <<visible, rowOf, model, embedding, filling, query, answer, docOps>>

NoRow == {}
Nothing == {}
NotFilling == [run |-> FALSE]
NotAsking == [step |-> "idle"]
Of(v) == {d \in Document : \E r \in rowOf[d] : r.vector = v}
Pending(v) == {d \in Of(v) : \E r \in rowOf[d] : r.vec = 0}

(***************************************************************************)
(* Files, workers and the collector                                        *)
(***************************************************************************)
DocOps == docOps < MaxDocOps /\ docOps' = docOps + 1

Shown(d) ==
  /\ DocOps
  /\ visible' = IF d \in visible THEN visible \ {d} ELSE visible \cup {d}
  /\ UNCHANGED <<rowOf, model, embedding, filling, query, answer>>

\* The sidecar gets another model of another width; the name may stay.
SwapModel ==
  /\ model < MaxModels /\ DocOps
  /\ model' = model + 1
  /\ UNCHANGED <<visible, rowOf, embedding, filling, query, answer>>

\* DocForNode, HasEmbedding and the call of the sidecar.
HasEmbedding(w, d) ==
  /\ embedding[w] = Nothing /\ d \in visible /\ rowOf[d] = NoRow
  /\ embedding' = [embedding EXCEPT ![w] = {[doc |-> d, vector |-> model]}]
  /\ UNCHANGED <<visible, rowOf, model, filling, query, answer, docOps>>

\* Whether there is a column is asked once per process.
pgvectorReady(w) == w \notin Aged

PutEmbeddings(w) ==
  /\ \E e \in embedding[w] :
       rowOf' = [rowOf EXCEPT ![e.doc] = {[vector |-> e.vector,
                                       vec |-> IF pgvectorReady(w) THEN e.vector ELSE 0]}]
  /\ embedding' = [embedding EXCEPT ![w] = Nothing]
  /\ UNCHANGED <<visible, model, filling, query, answer, docOps>>

PruneEmbeddings(d) ==
  /\ d \notin visible /\ rowOf[d] # NoRow
  /\ Restamped \/ (filling.run => d \notin DOMAIN filling.batch)
  /\ rowOf' = [rowOf EXCEPT ![d] = NoRow]
  /\ UNCHANGED <<visible, model, embedding, filling, query, answer, docOps>>

(***************************************************************************)
(* cloudctl embeddings backfill                                            *)
(***************************************************************************)
Unfilled == {d \in Document : \E r \in rowOf[d] : r.vec = 0}
Packed(d) == (CHOOSE r \in rowOf[d] : TRUE).vector

\* A batch of rows without a copy; none left is the end.
ReadBatch ==
  /\ filling.run => DOMAIN filling.batch = {}
  /\ filling.run \/ Unfilled # {}
  /\ filling' = IF Unfilled = {} THEN NotFilling
                ELSE [run |-> TRUE, batch |-> [d \in Unfilled |-> Packed(d)]]
  /\ UNCHANGED <<visible, rowOf, model, embedding, query, answer, docOps>>

\* The copy is made of the packed vector.
Unpacked(d) == filling.batch[d]

\* Wrong: a row with a copy is updated, one without is not.
WithCopy(d) == \A r \in rowOf[d] : r.vec # 0

Fillable(d) == TRUE

FillCopy(d) ==
  /\ filling.run /\ d \in DOMAIN filling.batch
  /\ rowOf' = IF Fillable(d)
            THEN [rowOf EXCEPT ![d] = {[vector |-> r.vector, vec |-> Unpacked(d)] : r \in rowOf[d]}]
            ELSE rowOf
  /\ filling' = [filling EXCEPT !.batch = [x \in DOMAIN @ \ {d} |-> @[x]]]
  /\ UNCHANGED <<visible, model, embedding, query, answer, docOps>>

(***************************************************************************)
(* Search                                                                  *)
(***************************************************************************)
\* Wrong: relies on the column being there.
ColumnSuffices == FALSE

Incomplete == Pending(model) # {}

\* Is every row of this model and width copied?  If not, the packed vectors are scanned.
SemanticSearch ==
  /\ query = NotAsking
  /\ \/ /\ Incomplete
        /\ answer' = [found |-> Of(model) \cap visible, due |-> Of(model) \cap visible]
        /\ UNCHANGED query
     \/ /\ ~Incomplete
        /\ query' = [step |-> "rank", model |-> model, had |-> Of(model) \cap visible]
        /\ UNCHANGED answer
  /\ UNCHANGED <<visible, rowOf, model, embedding, filling, docOps>>

\* Ranked by distance: a row without a copy has none, and falls out.
semanticSearchIndexed ==
  /\ query.step = "rank"
  /\ LET still == Of(query.model) \cap visible IN
       answer' = [found |-> still \ Pending(query.model), due |-> query.had \cap still]
  /\ query' = NotAsking
  /\ UNCHANGED <<visible, rowOf, model, embedding, filling, docOps>>

-----------------------------------------------------------------------------
\* The day of the migration: rows of the first model, none with a copy.
VectorInit ==
  /\ visible = Document /\ model = 1
  /\ rowOf \in [Document -> {NoRow, {[vector |-> 1, vec |-> 0]}}]
  /\ embedding = [w \in EmbedWorker |-> Nothing]
  /\ filling = NotFilling /\ query = NotAsking
  /\ answer = [found |-> {}, due |-> {}]
  /\ docOps = 0

Backfill == ReadBatch \/ \E d \in Document : FillCopy(d)

VectorNext ==
  \/ \E d \in Document : Shown(d) \/ PruneEmbeddings(d)
  \/ SwapModel \/ Backfill
  \/ \E w \in EmbedWorker : PutEmbeddings(w) \/ \E d \in Document : HasEmbedding(w, d)
  \/ SemanticSearch \/ semanticSearchIndexed

\* A backfill that was started goes on; nobody has to start one.
VectorFairness == WF_vectorVars(filling.run /\ Backfill)
VectorSpec == VectorInit /\ [][VectorNext]_vectorVars /\ VectorFairness

-----------------------------------------------------------------------------
\* Types, and: the copy in a row is of the vector in that row, so that the two ways to
\* rank cannot differ (files/embedding.go, PutEmbeddings; cmd/cloudctl/embeddings.go,
\* embeddingsBackfill).
VectorTypeOK ==
  /\ visible \subseteq Document /\ model \in 1 .. MaxModels
  /\ \A d \in Document : \A r \in rowOf[d] : r.vector \in 1 .. model /\ r.vec \in {0, r.vector}

\* An answer has every document that could be found from its first statement to its last,
\* in the middle of a backfill too: one without a copy is scanned for, never left out
\* (files/embedding.go, SemanticSearch, semanticSearchIndexed).
FoundAll == answer.due \subseteq answer.found

\* A backfill ends, and leaves no row without a copy, although workers and the collector
\* change the rows under it (cmd/cloudctl/embeddings.go, embeddingsBackfill).
BackfillEnds == filling.run ~> Unfilled = {}
=============================================================================
