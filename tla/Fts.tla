-------------------------------- MODULE Fts ---------------------------------
(***************************************************************************)
(* Full text search on one key: the documents and the inverted index of    *)
(* rr_fts.c and the commands of rr_cmd_fts.c.  The posting lists of the    *)
(* index hold plain pointers to documents, and a document that is deleted  *)
(* may leave its address to the next one.                                  *)
(*                                                                         *)
(* sds_tokenize splits a text into words and turns each into a term by     *)
(* trimming, lower casing and stemming, or into nothing if it is a stop    *)
(* word; which term a word gives is the constant TermOf.  The scores of    *)
(* BM25, and so the order of the results, are left out; what their         *)
(* arithmetic needs is stated in ScoreDefined.                             *)
(***************************************************************************)
EXTENDS Integers, FiniteSets, Sequences, Lists, Maps, Shared

CONSTANTS
  Titles,
  IntTitles,  \* the titles that read as an integer
  Words,
  NoTerm,     \* the empty term of a stop word
  TermOf,     \* the term of each word
  Texts,      \* the texts of documents and queries, sequences of words
  Docs,       \* addresses of documents (fts_doc_t)
  Nil         \* no object, no document

Posting == [doc: Docs, tf: Nat]   \* index_item_t

Document == [title: Titles, text: Texts, len: Nat]   \* fts_doc_t

(* fts_t: the documents by title, the posting lists by term *)
Object ==
  [docs: UNION {[T -> Docs] : T \in SUBSET Titles},
   index: UNION {[T -> Seq(Posting)] : T \in SUBSET Range(TermOf)},
   len: Nat]

ASSUME FtsAssumption ==
  /\ IntTitles \subseteq Titles
  /\ Texts \subseteq Seq(Words)
  /\ Nil \notin Document /\ Nil \notin Object
  /\ DOMAIN TermOf = Words

VARIABLES
  fts,     \* the object under the key, Nil while there is none
  doc,     \* the document at each address, Nil where none is allocated
  status,  \* "up", or how the process died
  answer   \* the reply to the last command

ftsVars == <<fts, doc, status, answer>>

FtsInit ==
  /\ fts = Nil
  /\ doc = [d \in Docs |-> Nil]
  /\ status = "up"
  /\ answer = <<"ok">>

(* fts_create *)
Empty == [docs |-> << >>, index |-> << >>, len |-> 0]

(* sds_tokenize: the term of each word, and how many are not empty. *)
Tokenize(text) == [i \in DOMAIN text |-> TermOf[text[i]]]

NonStopwords(text) == Cardinality({i \in DOMAIN text : Tokenize(text)[i] # NoTerm})

-----------------------------------------------------------------------------
(* listSearchKey: the position of a document in a posting list, 0 if none. *)
SearchKey(ps, d) ==
  LET found == {i \in DOMAIN ps : ps[i].doc = d}
  IN  IF found = {} THEN 0 ELSE CHOOSE i \in found : \A j \in found : i <= j

Postings(index, term) == IF term \in DOMAIN index THEN index[term] ELSE << >>

(* A term that occurs again is not counted. *)
BugAddTerm(index, d, term) ==
  LET ps == Postings(index, term)
      i  == SearchKey(ps, d)
  IN  IF term = NoTerm THEN index
      ELSE Assign(index, term, IF i # 0 THEN ps ELSE AddNodeHead(ps, [doc |-> d, tf |-> 1]))

(* One term of fts_index_add. *)
AddTerm(index, d, term) ==
  LET ps == Postings(index, term)
      i  == SearchKey(ps, d)
  IN  IF term = NoTerm THEN index
      ELSE Assign(index, term, IF i # 0 THEN [ps EXCEPT ![i].tf = @ + 1]
                               ELSE AddNodeHead(ps, [doc |-> d, tf |-> 1]))

(* fts_index_add *)
IndexAdd(index, d, text) ==
  LET after[i \in 0 .. Len(text)] ==
        IF i = 0 THEN index ELSE AddTerm(after[i - 1], d, Tokenize(text)[i])
  IN  after[Len(text)]

(* The posting stays when its count falls to zero. *)
BugDelTerm(r, d, term) ==
  LET ps == Postings(r.index, term)
      i  == SearchKey(ps, d)
  IN  IF term = NoTerm \/ ~r.ok THEN r
      ELSE IF i = 0 THEN [r EXCEPT !.ok = FALSE]
      ELSE [r EXCEPT !.index = Assign(@, term, [ps EXCEPT ![i].tf = @ - 1])]

(* One term of fts_index_del; not ok once an assertion on the index fails. *)
DelTerm(r, d, term) ==
  LET ps == Postings(r.index, term)
      i  == SearchKey(ps, d)
  IN  IF term = NoTerm \/ ~r.ok THEN r
      ELSE IF i = 0 THEN [r EXCEPT !.ok = FALSE]
      ELSE [r EXCEPT !.index = Assign(@, term, IF ps[i].tf = 1 THEN DelNode(ps, i)
                                               ELSE [ps EXCEPT ![i].tf = @ - 1])]

(* fts_index_del; lists that become empty stay in the index. *)
IndexDel(index, d, text) ==
  LET after[i \in 0 .. Len(text)] ==
        IF i = 0 THEN [index |-> index, ok |-> TRUE]
        ELSE DelTerm(after[i - 1], d, Tokenize(text)[i])
  IN  after[Len(text)]

(* fts_del of a title that exists: what is left, if no assertion fails. *)
Deleted(f, t) == IndexDel(f.index, f.docs[t], doc[f.docs[t]].text)

Del(f, t) ==
  [docs  |-> Without(f.docs, t),
   index |-> Deleted(f, t).index,
   len   |-> f.len - doc[f.docs[t]].len]

-----------------------------------------------------------------------------
(* dset: a title that reads as an integer is encoded as one, and its value  *)
(* is then used as the address of a string.                                 *)
DsetIntTitle(t) ==
  /\ t \in IntTitles
  /\ status' = "fault"
  /\ UNCHANGED <<fts, doc, answer>>

(* dset: fts_add deletes the document that has the title first. *)
RrCmdDset(t, text) ==
  /\ t \notin IntTitles
  /\ LET old   == IF fts = Nil THEN Empty ELSE fts
         there == t \in DOMAIN old.docs
         base  == IF there THEN Del(old, t) ELSE old
         room  == {d \in Docs : doc[d] = Nil \/ (there /\ d = old.docs[t])}
         n     == NonStopwords(text)
     IN  IF there /\ ~Deleted(old, t).ok
         THEN status' = "abort" /\ UNCHANGED <<fts, doc, answer>>
         ELSE \E d \in room :
                /\ fts' = [docs  |-> Assign(base.docs, t, d),
                           index |-> IndexAdd(base.index, d, text),
                           len   |-> base.len + n]
                /\ doc' = [e \in Docs |->
                             IF e = d THEN [title |-> t, text |-> text, len |-> n]
                             ELSE IF e \in Range(base.docs) THEN doc[e] ELSE Nil]
                /\ answer' = <<"ok">>
                /\ UNCHANGED status

(* rr_db_lookup_or_reply: where the key does not exist shared.nullbulk is   *)
(* sent as a bulk.                                                          *)
AbsentStore == <<"text", NullBulk>>

RrCmdDdel(t) ==
  IF fts = Nil THEN answer' = AbsentStore /\ UNCHANGED <<fts, doc, status>>
  ELSE IF t \notin DOMAIN fts.docs THEN answer' = <<"zero">> /\ UNCHANGED <<fts, doc, status>>
  ELSE IF ~Deleted(fts, t).ok
  THEN status' = "abort" /\ UNCHANGED <<fts, doc, answer>>
  ELSE /\ fts' = Del(fts, t)
       /\ doc' = [doc EXCEPT ![fts.docs[t]] = Nil]
       /\ answer' = <<"one">>
       /\ UNCHANGED status

Looks == UNCHANGED <<fts, doc, status>>

RrCmdDget(t) ==
  /\ Looks
  /\ answer' = IF fts = Nil THEN AbsentStore
               ELSE IF t \notin DOMAIN fts.docs THEN <<"nil">>
               ELSE <<"text", doc[fts.docs[t]].text>>

RrCmdDlen ==
  /\ Looks
  /\ answer' = IF fts = Nil THEN AbsentStore ELSE <<"length", Cardinality(DOMAIN fts.docs)>>

(* The documents with a score: one per title of the documents in the lists  *)
(* of the distinct terms of the query.                                      *)
Scored(q) ==
  {p.doc : p \in UNION {Range(Postings(fts.index, term)) : term \in Range(Tokenize(q)) \ {NoTerm}}}

(* The length announces documents, though each is sent as two bulks. *)
BugAnnouncedBulks(q) == Cardinality({doc[d].title : d \in Scored(q)})

(* The length of the reply to dsearch. *)
AnnouncedBulks(q) == 2 * Cardinality({doc[d].title : d \in Scored(q)})

RrCmdDsearch(q) ==
  /\ Looks
  /\ answer' = IF fts = Nil THEN AbsentStore
               ELSE <<"found", AnnouncedBulks(q),
                      {<<doc[d].title, doc[d].text>> : d \in Scored(q)}>>

(* del of the key *)
FreeFTSObject ==
  /\ fts # Nil
  /\ fts' = Nil
  /\ doc' = [d \in Docs |-> IF d \in Range(fts.docs) THEN Nil ELSE doc[d]]
  /\ answer' = <<"one">>
  /\ UNCHANGED status

FtsNext ==
  /\ status = "up"
  /\ \/ \E t \in Titles :
          \/ DsetIntTitle(t)
          \/ \E text \in Texts : RrCmdDset(t, text)
          \/ RrCmdDdel(t)
          \/ RrCmdDget(t)
     \/ RrCmdDlen
     \/ \E q \in Texts : RrCmdDsearch(q)
     \/ FreeFTSObject

FtsSpec == FtsInit /\ [][FtsNext]_ftsVars

-----------------------------------------------------------------------------
Occurrences(text, term) == Cardinality({i \in DOMAIN text : TermOf[text[i]] = term})

(* The index mirrors the documents after any sequence of additions,         *)
(* overwrites and deletions: the list of a term has each living document    *)
(* with the term once, with its frequency, and no pointer to any other, so  *)
(* the assertions of fts_index_del never fail; and no document is lost.     *)
IndexMirrorsDocs ==
  /\ status # "abort"
  /\ {d \in Docs : doc[d] # Nil} = IF fts = Nil THEN {} ELSE Range(fts.docs)
  /\ fts # Nil =>
       /\ \A t \in DOMAIN fts.docs : doc[fts.docs[t]].title = t
       /\ \A term \in Range(TermOf) \ {NoTerm} :
            LET ps == Postings(fts.index, term)
            IN  /\ Len(ps) = Cardinality(Range(ps))
                /\ Range(ps) = {[doc |-> d, tf |-> Occurrences(doc[d].text, term)] :
                     d \in {e \in Range(fts.docs) : Occurrences(doc[e].text, term) > 0}}

(* What calculate_bm25 computes with is defined: doc_size - list_size, of   *)
(* unsigned numbers, does not wrap, and the average length it divides by is *)
(* that of the documents and not zero when there is anything to score.      *)
ScoreDefined ==
  fts # Nil =>
    /\ fts.len = Cardinality(UNION {{<<d, i>> : i \in {j \in DOMAIN doc[d].text :
                                                        TermOf[doc[d].text[j]] # NoTerm}} :
                                       d \in Range(fts.docs)})
    /\ \A d \in Range(fts.docs) : doc[d].len = NonStopwords(doc[d].text)
    /\ \A term \in DOMAIN fts.index :
         /\ Len(fts.index[term]) <= Cardinality(DOMAIN fts.docs)
         /\ fts.index[term] # << >> => fts.len > 0
         /\ \A i \in DOMAIN fts.index[term] : fts.index[term][i].tf > 0

(* The commands implement a store of documents in which a search finds the  *)
(* documents that share a term with the query, each once, and announces as  *)
(* many bulks as it sends.                                                  *)
DS == INSTANCE DocumentStore
        WITH texts <- IF fts = Nil THEN << >>
                      ELSE [t \in DOMAIN fts.docs |-> doc[fts.docs[t]].text],
             reply <- answer,
             Absent <- AbsentStore

ImplementsStore == DS!Spec
=============================================================================
