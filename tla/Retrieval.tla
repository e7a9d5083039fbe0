-------------------------------- MODULE Retrieval --------------------------------
(***************************************************************************)
(* From an approved page to a grounded answer: chunking (ordy_rag/chunk.py)*)
(* when the page is published, hybrid search (knowledge/retrieval.py) with *)
(* reciprocal rank fusion (fuse.py), and the check that every number of a  *)
(* reply is in what was found (ground.py).                                 *)
(*                                                                         *)
(* A page is a sequence of heading lines and, between them, of the words of *)
(* the body: chunking splits a body at any white space, line ends included. *)
(* What the embedder and the approximate index make of a query is left      *)
(* open: the vector ranking is any ranking of rows the session may see.     *)
(***************************************************************************)
EXTENDS Integers, Sequences, FiniteSetsExt, Functions

CONSTANTS
  Site,       \* restaurants
  Page,       \* the pages they may have published
  Word,       \* words
  Number,     \* those of them that the grounding check looks for
  Synonyms,   \* Synonyms[w]: what rule_rewrite adds to a query with w
  WindowSize, \* [target, overlap]: the parameters of chunk_markdown
  K,          \* how many results a search may ask for
  CandidateMultiplier, \* of hybrid_search
  Damping     \* k of reciprocal_rank_fusion

Entry == [heading : BOOLEAN, words : SUBSET Word]

ASSUME RetrievalConstants ==
  /\ IsFiniteSet(Site) /\ Page \subseteq Seq(Entry)
  /\ \A w \in WindowSize : w.target \in Nat \ {0} /\ w.overlap \in Nat
  /\ Number \subseteq Word /\ K \subseteq Nat \ {0}
  /\ CandidateMultiplier \in Nat \ {0} /\ Damping \in Nat

VARIABLES
  pages,   \* pages[r]: the page of the restaurant that is under review
  window,  \* the parameters in use
  chunks,  \* chunks[r]: the rows of knowledge_chunks of the restaurant
  asked    \* the last search: who asked for which word, and what was found

retrievalVars == <<pages, window, chunks, asked>>

NothingAsked == [by |-> "nobody"]

RetrievalInit ==
  /\ pages \in [Site -> Page]
  /\ window \in WindowSize
  /\ chunks = [r \in Site |-> {}]
  /\ asked = NothingAsked

--------------------------------------------------------------------------------
(* _split_sections: a heading line opens a section, the words up to the     *)
(* next one are its body; those before the first are that of section 0,     *)
(* which has no heading.                                                    *)
Headings(page) == {i \in DOMAIN page : page[i].heading}

SectionEnd(page, h) == Min({i \in Headings(page) : i > h} \cup {Len(page) + 1})

BodyLength(page, h) == SectionEnd(page, h) - h - 1

Step(w) == Max({1, w.target - w.overlap})

(* Variant for the mutation checks: only full windows. *)
WindowNumbers_FullOnly(length, w) ==
  {n \in 0..length - 1 : n * Step(w) < length /\ (n = 0 \/ n * Step(w) + w.target <= length)}

(* The windows of a section begin a step apart; the first one that reaches  *)
(* the end is the last.                                                     *)
WindowNumbers(length, w) ==
  {n \in 0..length - 1 : n * Step(w) < length /\ (n = 0 \/ (n - 1) * Step(w) + w.target < length)}

(* The heading and the words of window n of the section. *)
WindowWords(page, h, n, w) ==
  LET first == h + 1 + n * Step(w)
  IN  UNION {page[i].words : i \in {j \in DOMAIN page : j = h \/ (first <= j /\ j < first + w.target /\ j < SectionEnd(page, h))}}

(* chunk_markdown: empty sections have no windows. *)
ChunkMarkdown(page, w) ==
  UNION {{[section |-> h, number |-> n, words |-> WindowWords(page, h, n, w)] :
            n \in WindowNumbers(BodyLength(page, h), w)} : h \in Headings(page) \cup {0}}

--------------------------------------------------------------------------------
(* _index_document, in the transaction that approves the page. *)
Publish(r) ==
  /\ chunks' = [chunks EXCEPT ![r] = ChunkMarkdown(pages[r], window)]
  /\ asked' = NothingAsked
  /\ UNCHANGED <<pages, window>>

ChunkRow(r, chunk) == [at |-> r, chunk |-> chunk]
Rows(r) == {ChunkRow(r, c) : c \in chunks[r]}

(* Row level security: a platform admin's session sees every restaurant's. *)
Visible(by, r) == IF by = "admin" THEN UNION {Rows(t) : t \in Site} ELSE Rows(r)

Rankings(rows, lengths) ==
  {ranking \in UNION {[1..n -> rows] : n \in lengths} : IsInjective(ranking)}

Candidates(k) == Max({k, k * CandidateMultiplier})

(* ORDER BY embedding <=> query LIMIT n; the HNSW index may come short. *)
VectorRankings(rows, k) == Rankings(rows, 0..Min({Candidates(k), Cardinality(rows)}))

(* fts @@ plainto_tsquery: every word of the rewritten query is in the row. *)
Matching(rows, w) == {row \in rows : {w} \cup Synonyms[w] \subseteq row.chunk.words}

LexicalRankings(rows, w, k) ==
  Rankings(Matching(rows, w), {Min({Candidates(k), Cardinality(Matching(rows, w))})})

(* reciprocal_rank_fusion of two rankings: the score is a fraction, and the *)
(* sort is stable in the order in which the rows came.                      *)
At(ranking, row) == CHOOSE i \in DOMAIN ranking : ranking[i] = row

Score(vector, lexical, row) ==
  LET v == Damping + At(vector, row)
      l == Damping + At(lexical, row)
  IN  CASE row \in Range(vector) /\ row \in Range(lexical) -> [over |-> v + l, under |-> v * l]
        [] row \in Range(vector) /\ row \notin Range(lexical) -> [over |-> 1, under |-> v]
        [] row \notin Range(vector) -> [over |-> 1, under |-> l]

Above(x, y) == x.over * y.under > y.over * x.under

Came(vector, lexical, row) ==
  IF row \in Range(vector) THEN At(vector, row) ELSE Len(vector) + At(lexical, row)

Before(vector, lexical, x, y) ==
  LET s == Score(vector, lexical, x)
      t == Score(vector, lexical, y)
  IN  Above(s, t) \/ (~Above(t, s) /\ Came(vector, lexical, x) < Came(vector, lexical, y))

(* The k best. *)
Fused(vector, lexical, k) ==
  LET rows == Range(vector) \cup Range(lexical)
  IN  {row \in rows : Cardinality({x \in rows : Before(vector, lexical, x, row)}) < k}

(* Variant for the mutation checks: the policy alone keeps restaurants apart. *)
Loaded_Unfiltered(rows, r) == rows

(* They are loaded with a filter on the restaurant. *)
Loaded(rows, r) == {row \in rows : row.at = r}

(* hybrid_search.  Searches leave nothing behind: one for each state of the *)
(* index is enough.                                                         *)
Search(by, r, w, k) ==
  /\ asked = NothingAsked
  /\ \E vector \in VectorRankings(Visible(by, r), k), lexical \in LexicalRankings(Visible(by, r), w, k) :
       asked' = [by |-> by, at |-> r, word |-> w, k |-> k, said |-> {},
                 found |-> Loaded(Fused(vector, lexical, k), r)]
  /\ UNCHANGED <<pages, window, chunks>>

(* check_grounding: the numbers of the reply are all in what was found. *)
Grounded(numbers) == numbers \subseteq UNION {row.chunk.words : row \in asked.found}

(* A reply that passes is given to the customer; another one is not. *)
Reply(numbers) ==
  /\ asked # NothingAsked
  /\ Grounded(numbers)
  /\ asked' = [asked EXCEPT !.said = numbers]
  /\ UNCHANGED <<pages, window, chunks>>

RetrievalNext ==
  \/ \E r \in Site : Publish(r) \/ \E by \in {"member", "admin"}, w \in Word, k \in K : Search(by, r, w, k)
  \/ \E numbers \in SUBSET Number : Reply(numbers)

RetrievalSpec == RetrievalInit /\ [][RetrievalNext]_retrievalVars

--------------------------------------------------------------------------------
BodyWords(page) == UNION {page[i].words : i \in DOMAIN page \ Headings(page)}
PageWords(page) == UNION {page[i].words : i \in DOMAIN page}

(* A published word is found: from the page through its windows, the        *)
(* index, the cut of the candidates and the fusion, a search of the         *)
(* restaurant for any one word of its page, which is not rewritten, finds a *)
(* chunk with the word, whatever the embedder ranks above it, unless one    *)
(* result is asked for: that one may be the embedder's.  A platform admin's *)
(* search may come short, as other restaurants' rows take places.           *)
WordFound ==
  /\ asked.by = "member" /\ asked.k >= 2 /\ chunks[asked.at] # {}
  /\ asked.word \in BodyWords(pages[asked.at]) /\ Synonyms[asked.word] = {}
  => \E row \in asked.found : asked.word \in row.chunk.words

(* A search finds words the restaurant has published, no more rows than it  *)
(* was asked for and only its own, and a number said to a customer is one   *)
(* of its page.                                                             *)
AnsweredFromOwnPage ==
  asked # NothingAsked =>
    /\ WordFound
    /\ Cardinality(asked.found) <= asked.k /\ asked.found \subseteq Rows(asked.at)
    /\ asked.said \subseteq PageWords(pages[asked.at])
================================================================================
