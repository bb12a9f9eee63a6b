----------------------------- MODULE TokenStore -----------------------------
(***************************************************************************)
(* MultiVecStorage (src/vector/muvera/storage.rs): the token embeddings of *)
(* all documents of a multi-vector store in one flat buffer, and for every *)
(* slot where its tokens start and how many they are.  An embedding is one *)
(* element of the buffer, so dim is 1.                                     *)
(***************************************************************************)
EXTENDS Integers, Sequences, FiniteSets, FiniteSetsExt, SequencesExt

Offset == [start : Nat, count : Nat]

NoDocuments == [vectors |-> << >>, offsets |-> << >>]

\* add: at the next slot.
TokensAdded(storage, tokens) ==
  [vectors |-> storage.vectors \o tokens,
   offsets |-> Append(storage.offsets, [start |-> Len(storage.vectors), count |-> Len(tokens)])]

\* get, get_tokens
TokensAt(storage, slot) ==
  LET at == storage.offsets[slot] IN SubSeq(storage.vectors, at.start + 1, at.start + at.count)

HasDocument(storage, slot) == slot \in DOMAIN storage.offsets

\* A new buffer of so many slots with the documents of docs, in the order of their
\* slots; a slot without one gets the empty document at the start.
Gathered(docs, size) ==
  FoldLeft(LAMBDA storage, slot :
             [vectors |-> storage.vectors \o docs[slot],
              offsets |-> [storage.offsets EXCEPT
                             ![slot] = [start |-> Len(storage.vectors), count |-> Len(docs[slot])]]],
           [vectors |-> << >>, offsets |-> [slot \in 1..size |-> [start |-> 0, count |-> 0]]],
           SetToSortSeq(DOMAIN docs, <))

\* from_slot_tokens
FromSlotTokens(payloads) == Gathered(payloads, Max({0} \cup DOMAIN payloads))

\* (Mutation of CompactedTokens: the rows move, what they point at does not.)
CompactedTokensStale(storage, oldToNew) ==
  [vectors |-> storage.vectors,
   offsets |-> [n \in 1..Cardinality(DOMAIN oldToNew) |->
                  IF HasDocument(storage, n) THEN storage.offsets[n]
                  ELSE [start |-> 0, count |-> 0]]]

\* compact: the documents of the slots that are kept, under their new numbers.
CompactedTokens(storage, oldToNew) ==
  LET kept   == DOMAIN oldToNew \cap DOMAIN storage.offsets
      Old(n) == CHOOSE s \in kept : oldToNew[s] = n
      docs   == [n \in {oldToNew[s] : s \in kept} |-> TokensAt(storage, Old(n))]
  IN  Gathered(docs, Max({0} \cup {oldToNew[s] : s \in DOMAIN oldToNew}))
=============================================================================
