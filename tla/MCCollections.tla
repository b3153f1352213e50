--------------------------- MODULE MCCollections ---------------------------
(***************************************************************************)
(* Instance of Trie, HeapQueue and Fts for TLC.  A key has a collection of *)
(* one type and the commands of the other types are refused, so one of the *)
(* three runs and the others stay as they are.                             *)
(*                                                                         *)
(* Trie: keys of up to three bytes that end where others go on and part at *)
(* different bits of the same byte.  HeapQueue: five objects, so that the  *)
(* heap has three levels, and three scores, so that draws happen; the      *)
(* array starts with one slot and grows to eight.  Fts: two words with one *)
(* stem, a stop word and a text without terms; texts that repeat a term    *)
(* directly and by its stem.  Objects and documents have the same          *)
(* addresses, of which none is special.                                    *)
(***************************************************************************)
EXTENDS Trie, HeapQueue, Fts

VARIABLE type   \* the type of the collection

MCInit == TrieInit /\ Init /\ FtsInit /\ type \in {"trie", "heapq", "fts"}

MCNext ==
  /\ UNCHANGED type
  /\ \/ type = "trie" /\ TrieNext /\ UNCHANGED <<vars, ftsVars>>
     \/ type = "heapq" /\ Next /\ UNCHANGED <<trieVars, ftsVars>>
     \/ type = "fts" /\ FtsNext /\ UNCHANGED <<trieVars, vars>>

MCSpec == MCInit /\ [][MCNext]_<<type, trieVars, vars, ftsVars>>

MCKeys == {<< >>, <<1>>, <<1, 2>>, <<1, 3>>, <<1, 2, 4>>, <<2>>}

MCPrefixes == {<< >>, <<1>>, <<1, 2>>, <<1, 4>>, <<3>>}

MCTermOf == [w \in {"cat", "cats", "dog", "the"} |->
               CASE w \in {"cat", "cats"} -> "cat" [] w = "dog" -> "dog" [] OTHER -> NoTerm]

MCTexts == {<< >>, <<"the">>, <<"dog">>, <<"cat", "the", "cats">>, <<"dog", "cat">>,
            <<"cats", "dog", "dog">>}

Symmetry == Permutations(Objects)
=============================================================================
