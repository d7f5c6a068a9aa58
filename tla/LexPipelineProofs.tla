-------------------------- MODULE LexPipelineProofs --------------------------
(***************************************************************************)
(* What LexPipeline keeps true, for every lexer definition, every set of    *)
(* documents and every batch of edits.                                      *)
(***************************************************************************)
EXTENDS BatchLemmas

-----------------------------------------------------------------------------
(* The maps. *)

\* The map with one key set.
LEMMA Setting ==
  ASSUME NEW f, NEW x, NEW y
  PROVE  /\ DOMAIN With(f, x, y) = DOMAIN f \cup {x}
         /\ With(f, x, y)[x] = y
         /\ \A z \in DOMAIN f : z # x => With(f, x, y)[z] = f[z]
BY Zenon DEF With

\* The map without one key.
LEMMA Unsetting ==
  ASSUME NEW f, NEW x
  PROVE  /\ DOMAIN Without(f, x) = DOMAIN f \ {x}
         /\ \A z \in DOMAIN f : z # x => Without(f, x)[z] = f[z]
BY Zenon DEF Without

\* The facts made of the tokens of a document with the identities given.
LEMMA Making ==
  ASSUME NEW doc, NEW next, Ided(doc.lexical, next), NEW ids
  PROVE  /\ DOMAIN FactsOf(doc, ids) = {<<doc.id, x>> : x \in SemanticIds(doc.lexical) \cap ids}
         /\ \A k \in 1..Len(doc.lexical) :
              IsSemantic(doc.lexical[k]) /\ doc.lexical[k].id \in ids =>
                FactsOf(doc, ids)[<<doc.id, doc.lexical[k].id>>] = TokenFact(doc.lexical[k])
<1> DEFINE tape == doc.lexical
           tokens == {t \in Range(tape) : IsSemantic(t) /\ t.id \in ids}
           keys == {<<doc.id, t.id>> : t \in tokens}
<1>1. \A t : t \in Range(tape) <=> \E k \in 1..Len(tape) : t = tape[k]
  <2>1. DOMAIN tape = 1..Len(tape)
    BY SeqParts DEF Ided
  <2> QED
    BY <2>1, Zenon DEF Range
<1>2. \A s, t \in Range(tape) : s.id = t.id => s = t
  <2>1. \A j, k \in 1..Len(tape) : tape[j].id = tape[k].id => j = k
    BY DEF Ided
  <2> HIDE DEF tape
  <2> SUFFICES ASSUME NEW s \in Range(tape), NEW t \in Range(tape), s.id = t.id
               PROVE  s = t
    OBVIOUS
  <2>2. PICK j \in 1..Len(tape) : s = tape[j]
    BY <1>1
  <2>3. PICK k \in 1..Len(tape) : t = tape[k]
    BY <1>1
  <2>4. j = k
    BY <2>1, <2>2, <2>3
  <2> QED
    BY <2>2, <2>3, <2>4
<1>3. FactsOf(doc, ids) = [key \in keys |-> TokenFact(CHOOSE t \in tokens : t.id = key[2])]
  BY Zenon DEF FactsOf
<1> HIDE DEF tape
<1>4. keys = {<<doc.id, x>> : x \in SemanticIds(tape) \cap ids}
  <2>1. SemanticIds(tape) = {tape[k].id : k \in {j \in 1..Len(tape) : IsSemantic(tape[j])}}
    BY DEF SemanticIds
  <2>2. \A x : x \in SemanticIds(tape) \cap ids <=> \E t \in tokens : x = t.id
    BY <1>1, <2>1
  <2> QED
    BY <2>2
<1>5. ASSUME NEW k \in 1..Len(tape), IsSemantic(tape[k]), tape[k].id \in ids
      PROVE  FactsOf(doc, ids)[<<doc.id, tape[k].id>>] = TokenFact(tape[k])
  <2>1. tape[k] \in tokens
    BY <1>1, <1>5, Zenon
  <2>2. <<doc.id, tape[k].id>> \in keys
    BY <2>1, Zenon
  <2>3. (CHOOSE t \in tokens : t.id = tape[k].id) = tape[k]
    <3>1. \A t \in tokens : t.id = tape[k].id => t = tape[k]
      BY <1>2, <2>1, Zenon
    <3> QED
      BY <2>1, <3>1, Zenon
  <2>4. <<doc.id, tape[k].id>>[2] = tape[k].id
    OBVIOUS
  <2> HIDE DEF tokens, keys
  <2> QED
    BY <1>3, <2>2, <2>3, <2>4
<1> QED
  BY <1>3, <1>4, <1>5, Zenon DEF tape

-----------------------------------------------------------------------------
(* The token facts. *)

\* The keys of the facts of a document.
FactKeys(doc) == {<<doc.id, x>> : x \in SemanticIds(doc.lexical)}

\* One fact for every semantic token of every document, with its content.
FactsExact(facs, docs) ==
  /\ DOMAIN facs = UNION {FactKeys(docs[u]) : u \in DOMAIN docs}
  /\ \A u \in DOMAIN docs : \A k \in 1..Len(docs[u].lexical) :
       IsSemantic(docs[u].lexical[k]) =>
         facs[<<docs[u].id, docs[u].lexical[k].id>>] = TokenFact(docs[u].lexical[k])

\* What a run of a document's component knows: no other document has its
\* identity, and the patch leads from its published tape, if any, to the new one.
Publishable(p, u, doc, patch) ==
  /\ \E next : Ided(doc.lexical, next)
  /\ \A v \in DOMAIN p.layouts : v # u => p.layouts[v].id # doc.id
  /\ u \in DOMAIN p.layouts => /\ p.layouts[u].id = doc.id
                               /\ IsSeq(p.layouts[u].lexical)
                               /\ Patches(p.layouts[u].lexical, doc.lexical, patch)
  /\ u \notin DOMAIN p.layouts => Patches(<<>>, doc.lexical, patch)

\* The facts a run writes, and the old ones it keeps.
Written(p, u, doc, patch) ==
  FactsOf(doc, IF u \in DOMAIN p.machine /\ u \notin DOMAIN p.layouts THEN AllIds(doc)
               ELSE patch.inserted \union patch.updated)
KeptKeys(p, u, doc, patch) ==
  IF u \in DOMAIN p.machine /\ u \notin DOMAIN p.layouts THEN DOMAIN p.facts
  ELSE {key \in DOMAIN p.facts : key[1] # doc.id \/ key[2] \notin patch.removed}

\* F is G, and behind it f on the kept keys.
Combines(F, G, kept, f) ==
  /\ DOMAIN F = DOMAIN G \cup kept
  /\ \A key \in DOMAIN G : F[key] = G[key]
  /\ \A key \in kept : key \notin DOMAIN G => F[key] = f[key]

\* The facts after a run are those it writes over those it keeps.
LEMMA PublishParts ==
  ASSUME NEW p, NEW u, NEW doc, NEW patch
  PROVE  Combines(PublishFacts(p, u, doc, patch), Written(p, u, doc, patch),
                  KeptKeys(p, u, doc, patch), p.facts)
<1> USE DEF Combines
<1>1. CASE u \in DOMAIN p.machine /\ u \notin DOMAIN p.layouts
  BY <1>1, Zenon DEF PublishFacts, Written, KeptKeys, Over
<1>2. CASE ~(u \in DOMAIN p.machine /\ u \notin DOMAIN p.layouts)
  <2> DEFINE kept == {key \in DOMAIN p.facts : key[1] # doc.id \/ key[2] \notin patch.removed}
             g == [key \in kept |-> p.facts[key]]
             G == FactsOf(doc, patch.inserted \union patch.updated)
  <2>1. PublishFacts(p, u, doc, patch) = Over(G, g)
    BY <1>2, Zenon DEF PublishFacts
  <2>2. Written(p, u, doc, patch) = G /\ KeptKeys(p, u, doc, patch) = kept
    BY <1>2, Zenon DEF Written, KeptKeys
  <2>3. DOMAIN g = kept /\ \A key \in kept : g[key] = p.facts[key]
    BY Zenon
  <2> HIDE DEF kept, g, G
  <2>4. /\ DOMAIN Over(G, g) = DOMAIN G \cup kept
        /\ \A key \in DOMAIN G : Over(G, g)[key] = G[key]
        /\ \A key \in kept : key \notin DOMAIN G => Over(G, g)[key] = p.facts[key]
    BY <2>3, Zenon DEF Over
  <2> QED
    BY <2>1, <2>2, <2>4, Zenon
<1> QED
  BY <1>1, <1>2, Zenon

\* The facts of other documents are kept, and of the document itself exactly those
\* of tokens that stay as they are.
LEMMA PublishedKeys ==
  ASSUME NEW p, NEW u, NEW doc, NEW patch, Publishable(p, u, doc, patch),
         FactsExact(p.facts, p.layouts)
  PROVE  LET G == Written(p, u, doc, patch)
             kept == KeptKeys(p, u, doc, patch)
         IN /\ \A v \in DOMAIN p.layouts \ {u} : \A key \in FactKeys(p.layouts[v]) :
                 key \in kept /\ key \notin DOMAIN G
            /\ \A key \in FactKeys(doc) : key \notin DOMAIN G =>
                 /\ key \in kept /\ u \in DOMAIN p.layouts /\ key \in FactKeys(p.layouts[u])
                 /\ key[2] \notin patch.updated
            /\ DOMAIN G \subseteq FactKeys(doc)
            /\ \A key \in kept : \/ key \in FactKeys(doc)
                                 \/ \E v \in DOMAIN p.layouts \ {u} : key \in FactKeys(p.layouts[v])
<1> DEFINE G == Written(p, u, doc, patch)
           kept == KeptKeys(p, u, doc, patch)
           N == SemanticIds(doc.lexical)
           O == SemanticIds(p.layouts[u].lexical)
           fresh == u \in DOMAIN p.machine /\ u \notin DOMAIN p.layouts
           ids == IF fresh THEN AllIds(doc) ELSE patch.inserted \union patch.updated
<1>1. DOMAIN G = {<<doc.id, x>> : x \in N \cap ids}
  <2>1. PICK next : Ided(doc.lexical, next)
    BY DEF Publishable
  <2>2. G = FactsOf(doc, ids)
    BY Zenon DEF Written
  <2> HIDE DEF G, ids
  <2> QED
    BY <2>1, <2>2, Making, Zenon
<1>2. N \subseteq AllIds(doc)
  <2>1. PICK next : Ided(doc.lexical, next)
    BY DEF Publishable
  <2>2. DOMAIN doc.lexical = 1..Len(doc.lexical)
    BY <2>1, SeqParts DEF Ided
  <2> QED
    BY <2>2 DEF SemanticIds, AllIds, Range
<1>3. FactKeys(doc) = {<<doc.id, x>> : x \in N}
  BY DEF FactKeys
<1>4. ASSUME NEW v \in DOMAIN p.layouts \ {u}, NEW key \in FactKeys(p.layouts[v])
      PROVE  key \in DOMAIN p.facts /\ key[1] # doc.id
  <2>1. key \in DOMAIN p.facts
    BY DEF FactsExact
  <2>2. PICK x \in SemanticIds(p.layouts[v].lexical) : key = <<p.layouts[v].id, x>>
    BY DEF FactKeys
  <2> QED
    BY <2>1, <2>2 DEF Publishable
<1>5. ASSUME NEW key \in FactKeys(doc)
      PROVE  key[1] = doc.id /\ key[2] \in N /\ key = <<doc.id, key[2]>>
  BY <1>3
<1>6. ASSUME NEW v \in DOMAIN p.layouts \ {u}, NEW key \in FactKeys(p.layouts[v])
      PROVE  key \in kept /\ key \notin DOMAIN G
  BY <1>1, <1>4 DEF KeptKeys
<1>7. DOMAIN G \subseteq FactKeys(doc)
  BY <1>1, <1>3
<1>8. u \in DOMAIN p.layouts => /\ FactKeys(p.layouts[u]) = {<<doc.id, x>> : x \in O}
                                /\ patch.inserted = N \ O /\ patch.removed = O \ N
  BY DEF FactKeys, Publishable, Patches
<1>9. u \notin DOMAIN p.layouts => patch.inserted = N
  BY DEF Publishable, Patches, SemanticIds
<1>10. ASSUME NEW key \in FactKeys(doc), key \notin DOMAIN G
       PROVE  /\ key \in kept /\ u \in DOMAIN p.layouts /\ key \in FactKeys(p.layouts[u])
              /\ key[2] \notin patch.updated
  <2>1. key[2] \notin ids
    BY <1>1, <1>5, <1>10
  <2>2. u \in DOMAIN p.layouts
    BY <1>2, <1>5, <1>9, <2>1
  <2>3. key[2] \in O /\ key[2] \notin patch.removed /\ key[2] \notin patch.updated
    BY <1>5, <1>8, <2>1, <2>2
  <2>4. key \in FactKeys(p.layouts[u])
    BY <1>5, <1>8, <2>2, <2>3
  <2>5. key \in DOMAIN p.facts
    BY <2>2, <2>4 DEF FactsExact
  <2> QED
    BY <2>2, <2>3, <2>4, <2>5 DEF KeptKeys
<1>11. ASSUME NEW key \in kept
       PROVE  \/ key \in FactKeys(doc)
              \/ \E v \in DOMAIN p.layouts \ {u} : key \in FactKeys(p.layouts[v])
  <2>1. key \in DOMAIN p.facts /\ (fresh \/ key[1] # doc.id \/ key[2] \notin patch.removed)
    BY DEF KeptKeys
  <2>2. PICK v \in DOMAIN p.layouts : key \in FactKeys(p.layouts[v])
    BY <2>1 DEF FactsExact
  <2>3. CASE v = u
    <3>1. PICK x \in O : key = <<doc.id, x>>
      BY <1>8, <2>2, <2>3
    <3>2. x \notin patch.removed
      BY <2>1, <2>3, <3>1
    <3> QED
      BY <1>3, <1>8, <2>3, <3>1, <3>2
  <2> QED
    BY <2>2, <2>3
<1> HIDE DEF G, kept
<1> QED
  BY <1>6, <1>7, <1>10, <1>11, Zenon DEF G, kept

\* A run leaves one fact for every semantic token of every document.
LEMMA Publishing ==
  ASSUME NEW p, NEW u, NEW doc, NEW patch, Publishable(p, u, doc, patch),
         FactsExact(p.facts, p.layouts)
  PROVE  FactsExact(PublishFacts(p, u, doc, patch), With(p.layouts, u, doc))
<1> DEFINE F == PublishFacts(p, u, doc, patch)
           G == Written(p, u, doc, patch)
           kept == KeptKeys(p, u, doc, patch)
           L == With(p.layouts, u, doc)
<1>1. /\ DOMAIN F = DOMAIN G \cup kept
      /\ \A key \in DOMAIN G : F[key] = G[key]
      /\ \A key \in kept : key \notin DOMAIN G => F[key] = p.facts[key]
  <2>1. Combines(F, G, kept, p.facts)
    BY PublishParts, Zenon
  <2> HIDE DEF F, G, kept
  <2> QED
    BY <2>1 DEF Combines
<1>2. /\ \A v \in DOMAIN p.layouts \ {u} : \A key \in FactKeys(p.layouts[v]) :
           key \in kept /\ key \notin DOMAIN G
      /\ \A key \in FactKeys(doc) : key \notin DOMAIN G =>
           /\ key \in kept /\ u \in DOMAIN p.layouts /\ key \in FactKeys(p.layouts[u])
           /\ key[2] \notin patch.updated
      /\ DOMAIN G \subseteq FactKeys(doc)
      /\ \A key \in kept : \/ key \in FactKeys(doc)
                           \/ \E v \in DOMAIN p.layouts \ {u} : key \in FactKeys(p.layouts[v])
  BY PublishedKeys
<1>3. /\ DOMAIN L = DOMAIN p.layouts \cup {u} /\ L[u] = doc
      /\ \A v \in DOMAIN p.layouts \ {u} : L[v] = p.layouts[v]
  BY Zenon DEF With
<1>4. PICK next : Ided(doc.lexical, next)
  BY DEF Publishable
<1>5. ASSUME NEW k \in 1..Len(doc.lexical), IsSemantic(doc.lexical[k]),
             <<doc.id, doc.lexical[k].id>> \in DOMAIN G
      PROVE  G[<<doc.id, doc.lexical[k].id>>] = TokenFact(doc.lexical[k])
  <2> DEFINE ids == IF u \in DOMAIN p.machine /\ u \notin DOMAIN p.layouts THEN AllIds(doc)
                    ELSE patch.inserted \union patch.updated
  <2>1. G = FactsOf(doc, ids)
    BY Zenon DEF Written
  <2> HIDE DEF ids, G
  <2>2. DOMAIN G = {<<doc.id, x>> : x \in SemanticIds(doc.lexical) \cap ids}
    BY <1>4, <2>1, Making, Zenon
  <2>3. doc.lexical[k].id \in ids
    BY <1>5, <2>2
  <2> QED
    BY <1>4, <1>5, <2>1, <2>3, Making, Zenon
<1> HIDE DEF F, G, kept, L
<1>6. ASSUME NEW k \in 1..Len(doc.lexical), IsSemantic(doc.lexical[k])
      PROVE  F[<<doc.id, doc.lexical[k].id>>] = TokenFact(doc.lexical[k])
  <2> DEFINE key == <<doc.id, doc.lexical[k].id>>
  <2>1. CASE key \in DOMAIN G
    BY <1>1, <1>5, <1>6, <2>1
  <2>2. CASE key \notin DOMAIN G
    <3>1. key \in FactKeys(doc) /\ key[2] = doc.lexical[k].id
      BY <1>6 DEF FactKeys, SemanticIds
    <3>2. /\ key \in kept /\ u \in DOMAIN p.layouts /\ key \in FactKeys(p.layouts[u])
          /\ doc.lexical[k].id \notin patch.updated
      BY <1>2, <2>2, <3>1
    <3>3. F[key] = p.facts[key]
      BY <1>1, <2>2, <3>2
    <3>4. PICK i \in 1..Len(p.layouts[u].lexical) :
            IsSemantic(p.layouts[u].lexical[i]) /\ key = <<p.layouts[u].id, p.layouts[u].lexical[i].id>>
      BY <3>2 DEF FactKeys, SemanticIds
    <3>5. p.layouts[u].lexical[i].id = doc.lexical[k].id
      BY <3>4
    <3>6. Payload(p.layouts[u].lexical[i]) = Payload(doc.lexical[k])
      BY <1>6, <3>2, <3>5 DEF Publishable, Patches
    <3>7. TokenFact(p.layouts[u].lexical[i]) = TokenFact(doc.lexical[k])
      BY <3>6 DEF Payload, TokenFact
    <3>8. p.facts[key] = TokenFact(p.layouts[u].lexical[i])
      BY <3>2, <3>4 DEF FactsExact
    <3> QED
      BY <3>3, <3>7, <3>8
  <2> QED
    BY <2>1, <2>2
<1>7. ASSUME NEW v \in DOMAIN p.layouts \ {u}, NEW k \in 1..Len(p.layouts[v].lexical),
             IsSemantic(p.layouts[v].lexical[k])
      PROVE  F[<<p.layouts[v].id, p.layouts[v].lexical[k].id>>] = TokenFact(p.layouts[v].lexical[k])
  <2>1. <<p.layouts[v].id, p.layouts[v].lexical[k].id>> \in FactKeys(p.layouts[v])
    BY <1>7 DEF FactKeys, SemanticIds
  <2>2. F[<<p.layouts[v].id, p.layouts[v].lexical[k].id>>]
          = p.facts[<<p.layouts[v].id, p.layouts[v].lexical[k].id>>]
    BY <1>1, <1>2, <2>1
  <2> QED
    BY <1>7, <2>2 DEF FactsExact
<1>8. DOMAIN F = UNION {FactKeys(L[v]) : v \in DOMAIN L}
  <2>1. ASSUME NEW key \in DOMAIN F PROVE \E v \in DOMAIN L : key \in FactKeys(L[v])
    <3>1. \/ key \in FactKeys(doc)
          \/ \E v \in DOMAIN p.layouts \ {u} : key \in FactKeys(p.layouts[v])
      BY <1>1, <1>2
    <3> QED
      BY <1>3, <3>1
  <2>2. ASSUME NEW v \in DOMAIN L, NEW key \in FactKeys(L[v]) PROVE key \in DOMAIN F
    <3>1. CASE v = u
      BY <1>1, <1>2, <1>3, <3>1
    <3>2. CASE v # u
      BY <1>1, <1>2, <1>3, <3>2
    <3> QED
      BY <3>1, <3>2
  <2> QED
    BY <2>1, <2>2
<1>9. ASSUME NEW v \in DOMAIN L, NEW k \in 1..Len(L[v].lexical), IsSemantic(L[v].lexical[k])
      PROVE  F[<<L[v].id, L[v].lexical[k].id>>] = TokenFact(L[v].lexical[k])
  <2>1. CASE v = u
    BY <1>3, <1>6, <1>9, <2>1
  <2>2. CASE v # u
    BY <1>3, <1>7, <1>9, <2>2
  <2> QED
    BY <2>1, <2>2
<1> QED
  BY <1>8, <1>9 DEF FactsExact, F, L

-----------------------------------------------------------------------------
(* What the parser makes of a patch. *)

\* What is left of both tapes behind m and n entries is the same.
LikeRest(o, c, m, n) == SubSeq(o, m + 1, Len(o)) = SubSeq(c, n + 1, Len(c))

\* Tapes that continue alike have the same rest.
LEMMA SameRest ==
  ASSUME NEW o, NEW c, IsSeq(o), IsSeq(c), NEW m, NEW n, SameFrom(o, c, m, n)
  PROVE  LikeRest(o, c, m, n)
<1> DEFINE a == SubSeq(o, m + 1, Len(o))
           b == SubSeq(c, n + 1, Len(c))
<1>0. Len(o) \in Nat /\ Len(c) \in Nat
  BY SeqParts
<1>1. /\ m \in 0..Len(o) /\ n \in 0..Len(c) /\ Len(o) - m = Len(c) - n
      /\ Len(o) \in m..Len(o) /\ Len(c) \in n..Len(c)
  BY <1>0 DEF SameFrom
<1>2. \A k \in 1..(Len(o) - m) : o[m + k] = c[n + k]
  BY DEF SameFrom
<1>3. IsSeq(a) /\ Len(a) = Len(o) - m /\ \A k \in 1..(Len(o) - m) : a[k] = o[m + k]
  BY <1>1, SeqSub
<1>4. IsSeq(b) /\ Len(b) = Len(c) - n /\ \A k \in 1..(Len(c) - n) : b[k] = c[n + k]
  BY <1>1, SeqSub
<1> HIDE DEF a, b
<1>5. Len(a) = Len(b)
  BY <1>1, <1>3, <1>4
<1>6. \A k \in 1..Len(a) : a[k] = b[k]
  BY <1>1, <1>2, <1>3, <1>4
<1>7. a = b
  BY <1>3, <1>4, <1>5, <1>6, SeqSame
<1> QED
  BY <1>7 DEF LikeRest, a, b

\* So do those with a common prefix.
LEMMA SamePrefix ==
  ASSUME NEW o, NEW c, IsSeq(o), IsSeq(c), NEW p, SharePrefix(o, c, p)
  PROVE  SubSeq(o, 1, p) = SubSeq(c, 1, p)
<1> DEFINE a == SubSeq(o, 0 + 1, p)
           b == SubSeq(c, 0 + 1, p)
<1>0. Len(o) \in Nat /\ Len(c) \in Nat
  BY SeqParts
<1>1. p \in 0..Len(o) /\ p \in 0..Len(c) /\ 0 \in 0..Len(o) /\ 0 \in 0..Len(c) /\ \A k \in 1..p : o[k] = c[k]
  BY <1>0 DEF SharePrefix
<1>3. IsSeq(a) /\ Len(a) = p - 0 /\ \A k \in 1..(p - 0) : a[k] = o[0 + k]
  BY <1>1, SeqSub
<1>4. IsSeq(b) /\ Len(b) = p - 0 /\ \A k \in 1..(p - 0) : b[k] = c[0 + k]
  BY <1>1, SeqSub
<1> HIDE DEF a, b
<1>5. Len(a) = Len(b) /\ \A k \in 1..Len(a) : a[k] = b[k]
  BY <1>0, <1>1, <1>3, <1>4
<1>7. a = b
  BY <1>3, <1>4, <1>5, SeqSame
<1>8. a = SubSeq(o, 1, p) /\ b = SubSeq(c, 1, p)
  BY DEF a, b
<1> QED
  BY <1>7, <1>8

\* The rank of an occurrence, None (Absent) when it is not on the tape.
Rank(refs, id) == IF \E k \in DOMAIN refs : refs[k].occurrence = id
                  THEN (CHOOSE k \in DOMAIN refs : refs[k].occurrence = id) - 1
                  ELSE Absent

\* The rank of an anchor that is on the tape is its place, and Absent is none.
LEMMA RankOfAnchor ==
  ASSUME NEW refs, NEW next, DistinctRefs(refs, next)
  PROVE  /\ \A k \in 1..Len(refs) : Rank(refs, refs[k].occurrence) = k - 1 /\ k - 1 # Absent
         /\ Rank(refs, Absent) = Absent
<1>0. DOMAIN refs = 1..Len(refs) /\ Len(refs) \in Nat
  BY SeqParts DEF DistinctRefs
<1>1. ASSUME NEW k \in 1..Len(refs) PROVE Rank(refs, refs[k].occurrence) = k - 1 /\ k - 1 # Absent
  <2> DEFINE id == refs[k].occurrence
             i == CHOOSE l \in DOMAIN refs : refs[l].occurrence = id
  <2>1. \E l \in DOMAIN refs : refs[l].occurrence = id
    BY <1>0
  <2>2. i \in DOMAIN refs /\ refs[i].occurrence = id
    BY <2>1
  <2>3. Rank(refs, id) = i - 1
    BY <2>1 DEF Rank
  <2> HIDE DEF i
  <2>4. i = k
    BY <1>0, <2>2 DEF DistinctRefs
  <2>5. k - 1 \in Int
    BY <1>0
  <2> QED
    BY <2>3, <2>4, <2>5, LexerAssumption
<1>2. Rank(refs, Absent) = Absent
  <2>1. ASSUME NEW k \in DOMAIN refs, refs[k].occurrence = Absent PROVE FALSE
    <3>1. refs[k].occurrence \in Nat
      BY <1>0 DEF DistinctRefs
    <3> QED
      BY <2>1, <3>1, LexerAssumption
  <2> QED
    BY <2>1 DEF Rank
<1> QED
  BY <1>1, <1>2

\* ReplayPlan's ranges cover what differs, if no splice changed the tape in front of
\* where an earlier one began.
LEMMA TraceCovers ==
  ASSUME NEW o, NEW c, NEW m, NEW n, DistinctRefs(o, m), DistinctRefs(c, n),
         NEW patch, NEW at, Traces(o, c, patch, at), patch.splices # <<>>, patch.ordered
  PROVE  AgreeOutside(ReplayRange(o, c, patch), o, c)
<1> DEFINE r == ReplayRange(o, c, patch)
           before == Head(patch.splices).before
           after == Last(patch.splices).after
           After(refs, id)  == IF Rank(refs, id) = Absent THEN 0 ELSE Rank(refs, id) + 1
           Before(refs, id) == IF Rank(refs, id) = Absent THEN Len(refs) + 1 ELSE Rank(refs, id)
<1>1. r = [prefix |-> After(o, before), oldEnd |-> Before(o, after), newEnd |-> Before(c, after)]
  BY DEF ReplayRange, Rank
<1>2. PICK P \in Nat, j \in Nat :
         /\ SharePrefix(o, c, P) /\ P <= at
         /\ patch.splices[1].before = Anchor(o, P)
         /\ \A i \in 1..Len(o), k \in 1..Len(c) :
              k > at /\ c[k].occurrence = o[i].occurrence => i > P /\ SameFrom(o, c, i - 1, k - 1)
         /\ j > at /\ Last(patch.splices).after = Anchor(c, j)
  BY DEF Traces
<1>3. at \in Nat /\ IsSeq(o) /\ IsSeq(c) /\ Len(o) \in Nat /\ Len(c) \in Nat
  BY SeqParts DEF Traces, DistinctRefs
<1>4. before = Anchor(o, P) /\ after = Anchor(c, j)
  BY <1>2
<1>5. /\ \A k \in 1..Len(o) : Rank(o, o[k].occurrence) = k - 1 /\ k - 1 # Absent
      /\ Rank(o, Absent) = Absent
      /\ \A k \in 1..Len(c) : Rank(c, c[k].occurrence) = k - 1 /\ k - 1 # Absent
      /\ Rank(c, Absent) = Absent
  BY RankOfAnchor
<1> HIDE DEF before, after, r
<1>6. P <= Len(o)
  BY <1>2, <1>3 DEF SharePrefix
<1>7. After(o, before) = P
  <2>1. CASE P = 0
    <3>1. before = Absent
      BY <1>4, <2>1 DEF Anchor
    <3> QED
      BY <1>5, <2>1, <3>1
  <2>2. CASE P # 0
    <3>1. P \in 1..Len(o)
      BY <1>3, <1>6, <2>2
    <3>2. before = o[P].occurrence
      BY <1>4, <3>1 DEF Anchor
    <3>3. Rank(o, before) = P - 1 /\ P - 1 # Absent
      BY <1>5, <3>1, <3>2
    <3> QED
      BY <3>3
  <2> QED
    BY <2>1, <2>2
<1>8. SubSeq(o, 1, P) = SubSeq(c, 1, P)
  BY <1>2, <1>3, SamePrefix
<1>9. Before(o, after) <= Len(o) =>
        /\ P <= Before(o, after) /\ P <= Before(c, after)
        /\ SubSeq(o, Before(o, after) + 1, Len(o)) = SubSeq(c, Before(c, after) + 1, Len(c))
  <2>1. CASE ~(j \in 1..Len(c))
    <3>1. Before(o, after) = Len(o) + 1
      BY <1>4, <1>5, <2>1 DEF Anchor
    <3> QED
      BY <1>3, <3>1
  <2>2. CASE j \in 1..Len(c)
    <3>1. after = c[j].occurrence /\ Before(c, after) = j - 1
      BY <1>4, <1>5, <2>2 DEF Anchor
    <3>2. CASE ~\E i \in 1..Len(o) : o[i].occurrence = after
      <4>1. DOMAIN o = 1..Len(o)
        BY <1>3, SeqParts
      <4>2. Rank(o, after) = Absent
        BY <3>2, <4>1 DEF Rank
      <4>3. Before(o, after) = Len(o) + 1
        BY <4>2
      <4> QED
        BY <1>3, <4>3
    <3>3. CASE \E i \in 1..Len(o) : o[i].occurrence = after
      <4>1. PICK i \in 1..Len(o) : o[i].occurrence = after
        BY <3>3
      <4>2. i > P /\ SameFrom(o, c, i - 1, j - 1)
        BY <1>2, <2>2, <3>1, <4>1
      <4>3. Rank(o, after) = i - 1 /\ i - 1 # Absent
        BY <1>5, <4>1
      <4>4. Before(o, after) = i - 1
        BY <4>3
      <4> DEFINE u == i - 1
                 v == j - 1
      <4>5. SameFrom(o, c, u, v)
        BY <4>2
      <4>6. P <= u /\ P <= v
        BY <1>2, <1>3, <2>2, <4>2
      <4> HIDE DEF u, v
      <4>7. SubSeq(o, u + 1, Len(o)) = SubSeq(c, v + 1, Len(c))
        <5>1. IsSeq(o) /\ IsSeq(c)
          BY <1>3
        <5>2. LikeRest(o, c, u, v)
          BY <4>5, <5>1, SameRest
        <5> QED
          BY <5>2 DEF LikeRest
      <4>8. Before(o, after) = u /\ Before(c, after) = v
        BY <3>1, <4>4 DEF u, v
      <4> HIDE DEF Before
      <4> QED
        BY <4>6, <4>7, <4>8
    <3> QED
      BY <3>2, <3>3
  <2> QED
    BY <2>1, <2>2
<1> HIDE DEF After, Before
<1>10. r.prefix = P /\ r.oldEnd = Before(o, after) /\ r.newEnd = Before(c, after)
  BY <1>1, <1>7
<1>11. AgreeOutside(r, o, c)
  BY <1>8, <1>9, <1>10 DEF AgreeOutside
<1> QED
  BY <1>11 DEF r

\* A semantic document that replaces another has a patch whose ranges cover what
\* differs, if its splices are in order.
Answers(old, new) ==
  \/ new = old
  \/ new.patch.splices # <<>> /\ (new.patch.ordered => Covered(old, new))

-----------------------------------------------------------------------------
(* A document of a command. *)

\* What is published for one document belongs together.
Attached(u, revision, doc, sem) ==
  /\ DocumentOK(doc) /\ doc.semantics \in Nat
  /\ doc.id[1] = u /\ revision.document = doc.id
  /\ doc.source \in Nat /\ revision.id = doc.source /\ revision.previous # revision.id
  /\ doc.text = revision.text
  /\ sem.id = doc.id /\ sem.revision = doc.semantics /\ sem.doc.semantic = doc.semantic

\* The lexer's own document is the published one, or one of another revision,
\* from which nothing can be derived.
Keeps(mach, docs) ==
  \A u \in DOMAIN docs :
    u \in DOMAIN mach /\ (mach[u] = docs[u] \/ mach[u].source # docs[u].source)

\* What holds between commands and, as long as it does not fail, within one.
Good(p) ==
  /\ DOMAIN p.layouts = DOMAIN p.revisions
  /\ DOMAIN p.semantics = DOMAIN p.revisions
  /\ \A u \in DOMAIN p.revisions : Attached(u, p.revisions[u], p.layouts[u], p.semantics[u])
  /\ FactsExact(p.facts, p.layouts)
  /\ Keeps(p.machine, p.layouts)

\* A revision the source fold makes of a command for a document.
Revises(revs, u, rev) ==
  /\ IsSeq(rev.text)
  /\ u \in DOMAIN revs =>
       /\ rev.document = revs[u].document /\ rev.previous = revs[u].id /\ rev.id = revs[u].id + 1
       /\ Laid(revs[u].text, rev.text, rev.splices)
  /\ u \notin DOMAIN revs =>
       rev.document[1] = u /\ rev.previous = Absent /\ rev.id \in Nat

\* What one run of a component does to the state of the command.
Advances(p, u, rev, q) ==
  /\ q.outcome # "ok" => q.machine = p.machine
  /\ q.outcome = "ok" =>
       /\ Good(q)
       /\ q.revisions = With(p.revisions, u, rev)
       /\ \E doc : /\ q.layouts = With(p.layouts, u, doc)
                   /\ q.machine = With(p.machine, u, doc)
                   /\ u \in DOMAIN p.layouts =>
                        /\ Follows(p.layouts[u].lexical, doc.lexical, p.layouts[u].next)
                        /\ doc.source # p.layouts[u].source
       /\ \E sem : /\ q.semantics = With(p.semantics, u, sem)
                   /\ u \in DOMAIN p.semantics => Answers(p.semantics[u], sem)

\* The state after a run of a component, by its fields.
LEMMA RunParts ==
  ASSUME NEW p, p.outcome = "ok", NEW u, NEW rev
  PROVE  LET d == DeriveDocument(p.machine, u, rev)
             q == RunDocument(p, u, rev)
         IN /\ d.outcome # "ok" => q.machine = p.machine /\ q.outcome = d.outcome
            /\ d.outcome = "ok" =>
                 /\ q.outcome = "ok"
                 /\ q.machine = With(p.machine, u, d.doc)
                 /\ q.revisions = With(p.revisions, u, rev)
                 /\ q.facts = PublishFacts(p, u, d.doc, d.patch)
                 /\ q.layouts = With(p.layouts, u, d.doc)
                 /\ q.semantics = With(p.semantics, u, PublishSemantics(p, u, d.doc, d.patch))
                 /\ q.exact = [p.exact EXCEPT ![u] = d.sound /\ (rev.previous # Absent => @)]
<1> DEFINE d == DeriveDocument(p.machine, u, rev)
           ex == [p.exact EXCEPT ![u] = d.sound /\ (rev.previous # Absent => @)]
           q == RunDocument(p, u, rev)
<1>1. CASE d.outcome # "ok"
  <2>1. q = Failed(p, p.machine, d.outcome)
    BY <1>1, Zenon DEF RunDocument
  <2> HIDE DEF d, q
  <2>2. q.machine = p.machine /\ q.outcome = d.outcome
    BY <2>1 DEF Failed
  <2> QED
    BY <1>1, <2>2, Zenon DEF d, q
<1>2. CASE d.outcome = "ok"
  <2>1. q = [machine   |-> With(p.machine, u, d.doc),
             revisions |-> With(p.revisions, u, rev),
             facts     |-> PublishFacts(p, u, d.doc, d.patch),
             layouts   |-> With(p.layouts, u, d.doc),
             semantics |-> With(p.semantics, u, PublishSemantics(p, u, d.doc, d.patch)),
             exact     |-> ex,
             outcome   |-> "ok"]
    BY <1>2, Zenon DEF RunDocument
  <2> HIDE DEF d, ex, q
  <2>2. /\ q.outcome = "ok"
        /\ q.machine = With(p.machine, u, d.doc)
        /\ q.revisions = With(p.revisions, u, rev)
        /\ q.facts = PublishFacts(p, u, d.doc, d.patch)
        /\ q.layouts = With(p.layouts, u, d.doc)
        /\ q.semantics = With(p.semantics, u, PublishSemantics(p, u, d.doc, d.patch))
        /\ q.exact = ex
    BY <2>1
  <2> QED
    BY <1>2, <2>2, Zenon DEF d, q, ex
<1> QED
  BY <1>1, <1>2, Zenon

\* A document is derived from the previous revision only.
LEMMA NotStale ==
  ASSUME NEW latest, NEW u, NEW revision, revision.previous # Absent,
         DeriveDocument(latest, u, revision).outcome = "ok"
  PROVE  /\ u \in DOMAIN latest /\ latest[u].id = revision.document
         /\ latest[u].source = revision.previous
<1>1. SUFFICES ASSUME \/ u \notin DOMAIN latest
                      \/ latest[u].id # revision.document
                      \/ latest[u].source # revision.previous
               PROVE  FALSE
  OBVIOUS
<1>2. DeriveDocument(latest, u, revision) = [outcome |-> "stale"]
  BY <1>1, Zenon DEF DeriveDocument
<1> QED
  BY <1>2

\* A run of a component keeps the state good or fails without a trace.
LEMMA Running ==
  ASSUME NEW p, p.outcome = "ok", Good(p), NEW u, NEW rev, Revises(p.revisions, u, rev)
  PROVE  Advances(p, u, rev, RunDocument(p, u, rev))
<1> DEFINE d == DeriveDocument(p.machine, u, rev)
           q == RunDocument(p, u, rev)
           doc == d.doc
<1>1. /\ d.outcome # "ok" => q.machine = p.machine /\ q.outcome = d.outcome
      /\ d.outcome = "ok" =>
           /\ q.outcome = "ok"
           /\ q.machine = With(p.machine, u, d.doc)
           /\ q.revisions = With(p.revisions, u, rev)
           /\ q.facts = PublishFacts(p, u, d.doc, d.patch)
           /\ q.layouts = With(p.layouts, u, d.doc)
           /\ q.semantics = With(p.semantics, u, PublishSemantics(p, u, d.doc, d.patch))
           /\ q.exact = [p.exact EXCEPT ![u] = d.sound /\ (rev.previous # Absent => @)]
  BY RunParts
<1>2. CASE d.outcome # "ok"
  BY <1>1, <1>2, Zenon DEF Advances
<1>3. ASSUME d.outcome = "ok"
      PROVE  /\ Good(q)
             /\ u \in DOMAIN p.layouts =>
                  /\ Follows(p.layouts[u].lexical, doc.lexical, p.layouts[u].next)
                  /\ doc.source # p.layouts[u].source
             /\ u \in DOMAIN p.semantics =>
                  Answers(p.semantics[u], PublishSemantics(p, u, doc, d.patch))
  <2> DEFINE prev == Previous(p.machine, u, rev)
  <2>1. u \in DOMAIN p.revisions =>
          /\ u \in DOMAIN p.layouts /\ u \in DOMAIN p.semantics
          /\ Attached(u, p.revisions[u], p.layouts[u], p.semantics[u])
    BY DEF Good
  <2>2. u \in DOMAIN p.revisions => rev.previous # Absent /\ rev.previous = p.layouts[u].source
    BY <2>1, LexerAssumption DEF Revises, Attached
  <2>3. u \in DOMAIN p.revisions => u \in DOMAIN p.machine /\ p.machine[u] = p.layouts[u]
    <3>1. u \in DOMAIN p.revisions =>
            u \in DOMAIN p.machine /\ p.machine[u].source = rev.previous
      BY <1>3, <2>2, NotStale
    <3> QED
      BY <2>1, <2>2, <3>1 DEF Good, Keeps
  <2>4. u \notin DOMAIN p.revisions => rev.previous = Absent
    BY DEF Revises
  <2>5. rev.previous # Absent => IsSeq(rev.splices) /\ (u \in DOMAIN p.machine => DocumentOK(p.machine[u]))
    BY <2>1, <2>3, <2>4 DEF Revises, Laid, Attached
  <2>6. IsSeq(rev.text)
    BY DEF Revises
  <2>7. Derived(p.machine, u, rev, d)
    BY <1>3, <2>5, <2>6, DerivingDocument
  <2>8. /\ u \in DOMAIN p.revisions => prev = p.layouts[u]
        /\ u \notin DOMAIN p.revisions => prev = EmptyDocument(rev.document)
    BY <2>2, <2>3, <2>4 DEF Previous
  <2> HIDE DEF d, q, prev
  <2>9. /\ DocumentOK(doc) /\ doc.id = rev.document /\ doc.source = rev.id
        /\ Follows(prev.lexical, doc.lexical, prev.next)
        /\ Patches(prev.lexical, doc.lexical, d.patch)
        /\ doc.semantics = prev.semantics \/ doc.semantics = prev.semantics + 1
        /\ doc.semantics = prev.semantics + 1 \/ Semantic(prev.lexical) = Semantic(doc.lexical)
        /\ Delta(prev.text, rev.text, SplicesOf(rev)) => doc.text = rev.text
        /\ \E at : Traces(prev.semantic, doc.semantic, d.patch, at)
        /\ d.patch.splices = <<>> => doc.semantics = prev.semantics
    BY <2>7, Zenon DEF Derived, prev
  <2>10. prev.semantics \in Nat /\ Delta(prev.text, rev.text, SplicesOf(rev))
    <3>1. CASE u \in DOMAIN p.revisions
      <4>1. SplicesOf(rev) = rev.splices
        BY <2>2, <3>1 DEF SplicesOf
      <4>2. prev.semantics \in Nat /\ prev.text = p.revisions[u].text
        BY <2>1, <2>8, <3>1 DEF Attached
      <4>3. Delta(p.revisions[u].text, rev.text, rev.splices)
        BY <3>1 DEF Revises, Laid
      <4> QED
        BY <4>1, <4>2, <4>3
    <3>2. CASE u \notin DOMAIN p.revisions
      <4>1. SplicesOf(rev) = <<[os |-> 0, oe |-> 0, ns |-> 0, ne |-> Len(rev.text)]>>
        BY <2>4, <3>2 DEF SplicesOf
      <4>2. prev.semantics = 0 /\ prev.text = <<>>
        BY <2>8, <3>2 DEF EmptyDocument
      <4>3. IsSeq(<<>>) /\ 0 = Len(<<>>)
        BY SeqEmpty
      <4>4. Delta(<<>>, rev.text, <<[os |-> 0, oe |-> 0, ns |-> 0, ne |-> Len(rev.text)]>>)
        BY <2>6, <4>3, WholeDelta
      <4> QED
        BY <4>1, <4>2, <4>4
    <3> QED
      BY <3>1, <3>2
  <2>11. doc.id[1] = u /\ rev.id \in Nat /\ rev.previous # rev.id
    BY <2>1, <2>9, LexerAssumption DEF Revises, Attached
  <2>12. u \in DOMAIN p.revisions => doc.id = p.layouts[u].id /\ doc.source # p.layouts[u].source
    BY <2>1, <2>9 DEF Revises, Attached
  <2> DEFINE sem == PublishSemantics(p, u, doc, d.patch)
  <2>13. sem.id = doc.id /\ sem.revision = doc.semantics /\ sem.doc.semantic = doc.semantic
    <3>1. CASE u \in DOMAIN p.semantics /\ p.semantics[u].id = doc.id
               /\ p.semantics[u].revision = doc.semantics
      <4>1. sem = p.semantics[u]
        BY <3>1, Zenon DEF PublishSemantics
      <4>2. u \in DOMAIN p.revisions
        BY <3>1 DEF Good
      <4>3. /\ p.semantics[u].revision = prev.semantics
            /\ p.semantics[u].doc.semantic = Semantic(prev.lexical)
        BY <2>1, <2>8, <4>2 DEF Attached, DocumentOK
      <4>4. Semantic(prev.lexical) = Semantic(doc.lexical)
        BY <2>9, <2>10, <3>1, <4>3
      <4>5. doc.semantic = Semantic(doc.lexical)
        BY <2>9 DEF DocumentOK
      <4> QED
        BY <3>1, <4>1, <4>3, <4>4, <4>5
    <3>2. CASE ~(u \in DOMAIN p.semantics /\ p.semantics[u].id = doc.id
                 /\ p.semantics[u].revision = doc.semantics)
      <4>1. sem = [id |-> doc.id, revision |-> doc.semantics, structure |-> doc.structure,
                   patch |-> d.patch, doc |-> doc]
        BY <3>2, Zenon DEF PublishSemantics
      <4> HIDE DEF sem
      <4> QED
        BY <4>1
    <3> QED
      BY <3>1, <3>2
  <2>a. ASSUME u \in DOMAIN p.semantics, sem # p.semantics[u] PROVE Answers(p.semantics[u], sem)
    <3> DEFINE old == p.semantics[u]
               o == prev.semantic
               c == doc.semantic
    <3>1. u \in DOMAIN p.revisions
      BY <2>a DEF Good
    <3>2. prev = p.layouts[u] /\ old.id = doc.id /\ old.revision = prev.semantics /\ old.doc.semantic = o
      BY <2>1, <2>8, <2>12, <3>1 DEF Attached
    <3>3. doc.semantics # old.revision
      BY <2>a, <3>2, Zenon DEF PublishSemantics
    <3>4. sem = [id |-> doc.id, revision |-> doc.semantics, structure |-> doc.structure,
                 patch |-> d.patch, doc |-> doc]
      BY <3>3, Zenon DEF PublishSemantics
    <3>5. d.patch.splices # <<>>
      BY <2>9, <3>2, <3>3
    <3>6. DistinctRefs(o, prev.next) /\ DistinctRefs(c, doc.next)
      <4>1. DocumentOK(prev) /\ DocumentOK(doc)
        BY <2>1, <2>9, <3>1, <3>2 DEF Attached
      <4> QED
        BY <4>1, SemanticDistinct DEF DocumentOK
    <3>7. PICK at : Traces(o, c, d.patch, at)
      BY <2>9
    <3> DEFINE patch == d.patch
    <3>8. Traces(o, c, patch, at) /\ patch.splices # <<>>
      BY <3>5, <3>7
    <3> HIDE DEF o, c, patch, sem, old
    <3>9. patch.ordered => AgreeOutside(ReplayRange(o, c, patch), o, c)
      BY <3>6, <3>8, TraceCovers
    <3>10. sem.patch = patch /\ sem.doc.semantic = c
      BY <3>4 DEF patch, c
    <3>11. Covered(old, sem) = AgreeOutside(ReplayRange(o, c, patch), o, c)
      BY <3>2, <3>10 DEF Covered
    <3> QED
      BY <3>8, <3>9, <3>10, <3>11 DEF Answers, old
  <2>b. u \in DOMAIN p.semantics => Answers(p.semantics[u], sem)
    BY <2>a DEF Answers
  <2> HIDE DEF sem, doc
  <2>14. Attached(u, rev, doc, sem)
    BY <2>9, <2>10, <2>11, <2>13 DEF Attached
  <2>15. Publishable(p, u, doc, d.patch)
    <3>1. Ided(doc.lexical, doc.next)
      BY <2>9 DEF DocumentOK
    <3>2. ASSUME NEW v \in DOMAIN p.layouts, v # u PROVE p.layouts[v].id # doc.id
      <4>1. p.layouts[v].id[1] = v
        BY DEF Good, Attached
      <4> QED
        BY <2>11, <3>2, <4>1
    <3>3. u \in DOMAIN p.layouts => /\ p.layouts[u].id = doc.id
                                    /\ IsSeq(p.layouts[u].lexical)
                                    /\ Patches(p.layouts[u].lexical, doc.lexical, d.patch)
      BY <2>1, <2>8, <2>9, <2>12 DEF Good, Attached, DocumentOK, Ided
    <3>4. u \notin DOMAIN p.layouts => Patches(<<>>, doc.lexical, d.patch)
      BY <2>8, <2>9 DEF Good, EmptyDocument
    <3> QED
      BY <3>1, <3>2, <3>3, <3>4 DEF Publishable
  <2>16. FactsExact(q.facts, q.layouts)
    <3>1. FactsExact(p.facts, p.layouts)
      BY DEF Good
    <3>2. FactsExact(PublishFacts(p, u, doc, d.patch), With(p.layouts, u, doc))
      BY <2>15, <3>1, Publishing
    <3> QED
      BY <1>1, <1>3, <3>2, Zenon DEF doc
  <2>17. /\ q.machine = With(p.machine, u, doc) /\ q.revisions = With(p.revisions, u, rev)
         /\ q.layouts = With(p.layouts, u, doc) /\ q.semantics = With(p.semantics, u, sem)
    BY <1>1, <1>3, Zenon DEF doc, sem
  <2>18. Good(q)
    <3>1. /\ DOMAIN q.layouts = DOMAIN q.revisions
          /\ DOMAIN q.semantics = DOMAIN q.revisions
      BY <2>17 DEF With, Good
    <3>2. ASSUME NEW v \in DOMAIN q.revisions
          PROVE  Attached(v, q.revisions[v], q.layouts[v], q.semantics[v])
      <4>1. CASE v = u
        <5>1. q.revisions[v] = rev /\ q.layouts[v] = doc /\ q.semantics[v] = sem
          BY <2>17, <4>1 DEF With
        <5> QED
          BY <2>14, <4>1, <5>1
      <4>2. CASE v # u
        <5>1. v \in DOMAIN p.revisions /\ v \in DOMAIN p.layouts /\ v \in DOMAIN p.semantics
          BY <2>17, <4>2 DEF With, Good
        <5>2. /\ q.revisions[v] = p.revisions[v] /\ q.layouts[v] = p.layouts[v]
              /\ q.semantics[v] = p.semantics[v]
          BY <2>17, <4>2, <5>1 DEF With
        <5> QED
          BY <5>1, <5>2 DEF Good
      <4> QED
        BY <4>1, <4>2
    <3>3. Keeps(q.machine, q.layouts)
      <4> SUFFICES ASSUME NEW v \in DOMAIN q.layouts
                   PROVE  /\ v \in DOMAIN q.machine
                          /\ q.machine[v] = q.layouts[v] \/ q.machine[v].source # q.layouts[v].source
        BY DEF Keeps
      <4>1. CASE v = u
        BY <2>17, <4>1 DEF With
      <4>2. CASE v # u
        <5>1. v \in DOMAIN p.layouts /\ v \in DOMAIN p.machine
          BY <2>17, <4>2 DEF With, Good, Keeps
        <5>2. /\ v \in DOMAIN q.machine /\ q.machine[v] = p.machine[v]
              /\ q.layouts[v] = p.layouts[v]
          BY <2>17, <4>2, <5>1 DEF With
        <5> QED
          BY <5>1, <5>2 DEF Good, Keeps
      <4> QED
        BY <4>1, <4>2
    <3> QED
      BY <2>16, <3>1, <3>2, <3>3 DEF Good
  <2>19. u \in DOMAIN p.layouts => Follows(p.layouts[u].lexical, doc.lexical, p.layouts[u].next)
    BY <2>8, <2>9 DEF Good
  <2>20. u \in DOMAIN p.layouts => doc.source # p.layouts[u].source
    BY <2>12 DEF Good
  <2> QED
    BY <2>18, <2>19, <2>20, <2>b, Zenon DEF sem
<1> QED
  <2>1. CASE d.outcome = "ok"
    BY <1>1, <1>3, <2>1, Zenon DEF Advances
  <2> QED
    BY <1>2, <2>1, Zenon

-----------------------------------------------------------------------------
(* A command: the documents in order. *)

\* A sequence without repetitions.
Distinct(s) == IsSeq(s) /\ \A j, k \in 1..Len(s) : s[j] = s[k] => j = k

\* The documents with a new revision among the first n components.
Ran(sequence, next, n) == {sequence[k] : k \in 1..n} \cap DOMAIN next

\* What is published for the documents that ran, and for the others.
Moved(s, next, ran, p) ==
  /\ DOMAIN p.revisions = DOMAIN s.revisions \cup ran
  /\ \A v \in DOMAIN s.revisions \ ran :
       p.revisions[v] = s.revisions[v] /\ p.layouts[v] = s.layouts[v]
  /\ \A v \in ran : p.revisions[v] = next[v]
  /\ \A v \in DOMAIN s.layouts \cap ran :
       Follows(s.layouts[v].lexical, p.layouts[v].lexical, s.layouts[v].next)
  /\ \A v \in DOMAIN s.semantics \ ran : p.semantics[v] = s.semantics[v]
  /\ \A v \in DOMAIN s.semantics \cap ran : Answers(s.semantics[v], p.semantics[v])

\* The lexer's documents are those before the command, or of another revision.
Ahead(s, mach) ==
  \A v \in DOMAIN s.layouts :
    /\ v \in DOMAIN mach
    /\ mach[v] = s.machine[v] \/ mach[v].source # s.layouts[v].source

\* The lexer holds what is published.
InStep(mach, docs) == \A v \in DOMAIN docs : v \in DOMAIN mach /\ mach[v] = docs[v]

\* At most one document.
Single(next) == \A v, w \in DOMAIN next : v = w

\* The state p of a command that started in s, of which the documents in ran ran.
Reached(s, next, ran, p) ==
  /\ Ahead(s, p.machine)
  /\ p.outcome = "ok" => Good(p) /\ Moved(s, next, ran, p)
  /\ p.outcome = "ok" /\ InStep(s.machine, s.layouts) => InStep(p.machine, p.layouts)
  /\ ran = {} \/ (p.outcome # "ok" /\ Single(next)) => p.machine = s.machine

\* One more document of a command.
LEMMA ReachStep ==
  ASSUME NEW s, Good(s), NEW next, NEW ran, ran \subseteq DOMAIN next, NEW u \in DOMAIN next, u \notin ran,
         Revises(s.revisions, u, next[u]),
         NEW p, p.outcome = "ok", Reached(s, next, ran, p)
  PROVE  Reached(s, next, ran \cup {u}, RunDocument(p, u, next[u]))
<1> DEFINE q == RunDocument(p, u, next[u])
<1>1. Good(p) /\ Moved(s, next, ran, p)
  BY DEF Reached
<1>2. /\ u \in DOMAIN p.revisions <=> u \in DOMAIN s.revisions
      /\ u \in DOMAIN s.revisions => p.revisions[u] = s.revisions[u] /\ p.layouts[u] = s.layouts[u]
  BY <1>1 DEF Moved
<1>3. Revises(p.revisions, u, next[u])
  BY <1>2 DEF Revises
<1>4. Advances(p, u, next[u], q)
  BY <1>1, <1>3, Running
<1> HIDE DEF q
<1>5. DOMAIN s.layouts = DOMAIN s.revisions /\ DOMAIN p.layouts = DOMAIN p.revisions
  BY <1>1 DEF Good
<1>6. CASE q.outcome # "ok"
  <2>1. q.machine = p.machine
    BY <1>4, <1>6 DEF Advances
  <2>2. Single(next) => ran = {}
    BY DEF Single
  <2> QED
    BY <1>6, <2>1, <2>2 DEF Reached, q
<1>7. CASE q.outcome = "ok"
  <2>1. Good(q) /\ q.revisions = With(p.revisions, u, next[u])
    BY <1>4, <1>7 DEF Advances
  <2>2. PICK doc : /\ q.layouts = With(p.layouts, u, doc)
                   /\ q.machine = With(p.machine, u, doc)
                   /\ u \in DOMAIN p.layouts =>
                        /\ Follows(p.layouts[u].lexical, doc.lexical, p.layouts[u].next)
                        /\ doc.source # p.layouts[u].source
    BY <1>4, <1>7 DEF Advances
  <2>a. PICK sem : /\ q.semantics = With(p.semantics, u, sem)
                   /\ u \in DOMAIN p.semantics => Answers(p.semantics[u], sem)
    BY <1>4, <1>7 DEF Advances
  <2>3. Moved(s, next, ran \cup {u}, q)
    <3>1. DOMAIN q.revisions = DOMAIN s.revisions \cup (ran \cup {u})
      BY <1>1, <2>1 DEF Moved, With
    <3>2. ASSUME NEW v \in DOMAIN s.revisions \ (ran \cup {u})
          PROVE  q.revisions[v] = s.revisions[v] /\ q.layouts[v] = s.layouts[v]
      <4>1. v \in DOMAIN p.revisions /\ v \in DOMAIN p.layouts
        BY <1>1, <1>5 DEF Moved
      <4>2. p.revisions[v] = s.revisions[v] /\ p.layouts[v] = s.layouts[v]
        BY <1>1 DEF Moved
      <4> QED
        BY <2>1, <2>2, <4>1, <4>2 DEF With
    <3>3. ASSUME NEW v \in ran \cup {u}
          PROVE  q.revisions[v] = next[v]
      <4>1. v # u => v \in DOMAIN p.revisions /\ p.revisions[v] = next[v]
        BY <1>1 DEF Moved
      <4> QED
        BY <2>1, <4>1 DEF With
    <3>4. ASSUME NEW v \in DOMAIN s.layouts \cap (ran \cup {u})
          PROVE  Follows(s.layouts[v].lexical, q.layouts[v].lexical, s.layouts[v].next)
      <4>1. CASE v = u
        <5>1. q.layouts[v] = doc /\ p.layouts[v] = s.layouts[v] /\ u \in DOMAIN p.layouts
          BY <1>2, <1>5, <2>2, <4>1 DEF With
        <5> QED
          BY <2>2, <4>1, <5>1
      <4>2. CASE v # u
        <5>1. q.layouts[v] = p.layouts[v]
          BY <1>1, <1>5, <2>2, <4>2 DEF With, Moved
        <5> QED
          BY <1>1, <4>2, <5>1 DEF Moved
      <4> QED
        BY <4>1, <4>2
    <3>5. DOMAIN s.semantics = DOMAIN s.revisions /\ DOMAIN p.semantics = DOMAIN p.revisions
      BY <1>1 DEF Good
    <3>6. ASSUME NEW v \in DOMAIN s.semantics \ (ran \cup {u}) PROVE q.semantics[v] = s.semantics[v]
      <4>1. v \in DOMAIN p.semantics /\ p.semantics[v] = s.semantics[v]
        BY <1>1, <3>5 DEF Moved
      <4> QED
        BY <2>a, <4>1 DEF With
    <3>7. ASSUME NEW v \in DOMAIN s.semantics \cap (ran \cup {u})
          PROVE  Answers(s.semantics[v], q.semantics[v])
      <4>1. v \in DOMAIN p.semantics
        BY <1>1, <3>5 DEF Moved
      <4>2. CASE v = u
        <5>1. p.semantics[v] = s.semantics[v] /\ q.semantics[v] = sem
          BY <1>1, <2>a, <4>2 DEF With, Moved
        <5> QED
          BY <2>a, <4>1, <4>2, <5>1
      <4>3. CASE v # u
        <5>1. q.semantics[v] = p.semantics[v]
          BY <2>a, <4>1, <4>3 DEF With
        <5> QED
          BY <1>1, <4>3, <5>1 DEF Moved
      <4> QED
        BY <4>2, <4>3
    <3> QED
      BY <3>1, <3>2, <3>3, <3>4, <3>6, <3>7 DEF Moved
  <2>4. Ahead(s, q.machine)
    <3> SUFFICES ASSUME NEW v \in DOMAIN s.layouts
                 PROVE  /\ v \in DOMAIN q.machine
                        /\ q.machine[v] = s.machine[v] \/ q.machine[v].source # s.layouts[v].source
      BY DEF Ahead
    <3>1. /\ v \in DOMAIN p.machine
          /\ p.machine[v] = s.machine[v] \/ p.machine[v].source # s.layouts[v].source
      BY DEF Reached, Ahead
    <3>2. CASE v = u
      <4>1. v \in DOMAIN q.machine /\ q.machine[v] = doc
        BY <2>2, <3>2 DEF With
      <4>2. doc.source # s.layouts[v].source
        BY <1>2, <1>5, <2>2, <3>2
      <4> QED
        BY <4>1, <4>2
    <3>3. CASE v # u
      <4>1. v \in DOMAIN q.machine /\ q.machine[v] = p.machine[v]
        BY <2>2, <3>1, <3>3 DEF With
      <4> QED
        BY <3>1, <4>1
    <3> QED
      BY <3>2, <3>3
  <2>5. InStep(s.machine, s.layouts) => InStep(q.machine, q.layouts)
    <3>1. InStep(s.machine, s.layouts) => InStep(p.machine, p.layouts)
      BY DEF Reached
    <3>2. ASSUME InStep(p.machine, p.layouts), NEW v \in DOMAIN q.layouts
          PROVE  v \in DOMAIN q.machine /\ q.machine[v] = q.layouts[v]
      BY <2>2, <3>2 DEF InStep, With
    <3> QED
      BY <3>1, <3>2 DEF InStep
  <2> QED
    BY <1>7, <2>1, <2>3, <2>4, <2>5 DEF Reached, q
<1> QED
  BY <1>6, <1>7

\* The state a command starts in.
LEMMA ReachStart ==
  ASSUME NEW s, Good(s), s.outcome = "ok", NEW next
  PROVE  Reached(s, next, {}, s)
<1>1. Ahead(s, s.machine)
  BY DEF Good, Keeps, Ahead
<1>2. Moved(s, next, {}, s)
  BY DEF Moved
<1> QED
  BY <1>1, <1>2 DEF Reached

\* The components run one after the other.
LEMMA Commanding ==
  ASSUME NEW s, Good(s), s.outcome = "ok", NEW sequence, Distinct(sequence), NEW next,
         \A u \in DOMAIN next : Revises(s.revisions, u, next[u]),
         NEW es, es = [k \in DOMAIN sequence |-> [uri |-> sequence[k], next |-> next]]
  PROVE  /\ Components!After(s, es) = Components!States(s, es)[Len(sequence)]
         /\ \A n \in 0..Len(sequence) :
              Reached(s, next, Ran(sequence, next, n), Components!States(s, es)[n])
<1> DEFINE P(n) == Components!States(s, es)[n]
           S == {n \in Nat : n <= Len(sequence) => Reached(s, next, Ran(sequence, next, n), P(n))}
<1>1. Len(sequence) \in Nat /\ DOMAIN sequence = 1..Len(sequence)
  BY SeqParts DEF Distinct
<1>2. Len(es) = Len(sequence)
  <2>1. IsSeq(es) /\ Len(es) = Len(sequence)
    BY <1>1, SeqOfFunction
  <2> QED
    BY <2>1
<1>3. \A k \in 1..Len(sequence) : es[k].uri = sequence[k] /\ es[k].next = next
  BY <1>1
<1>4. /\ P(0) = s
      /\ \A n \in 1..Len(sequence) : P(n) = RunComponent(P(n - 1), es[n])
  BY <1>1, <1>2, Components!Iterates
<1> HIDE DEF P
<1>5. 0 \in S
  <2>1. Ran(sequence, next, 0) = {}
    BY DEF Ran
  <2> QED
    BY <1>4, <2>1, ReachStart
<1>6. ASSUME NEW n \in Nat, n \in S PROVE n + 1 \in S
  <2> SUFFICES ASSUME n + 1 <= Len(sequence)
               PROVE  Reached(s, next, Ran(sequence, next, n + 1), P(n + 1))
    OBVIOUS
  <2> DEFINE u == sequence[n + 1]
             ran == Ran(sequence, next, n)
  <2>1. n + 1 \in 1..Len(sequence) /\ n + 1 - 1 = n
    BY <1>1
  <2>2. P(n + 1) = RunComponent(P(n), es[n + 1])
    <3> DEFINE m == n + 1
    <3>1. m \in 1..Len(sequence) /\ m - 1 = n
      BY <2>1
    <3> HIDE DEF m
    <3>2. P(m) = RunComponent(P(m - 1), es[m])
      BY <1>4, <3>1, Zenon
    <3>3. P(m) = RunComponent(P(n), es[m])
      BY <3>1, <3>2, Zenon
    <3> QED
      BY <3>3, Zenon DEF m
  <2>3. Reached(s, next, ran, P(n))
    BY <1>1, <1>6
  <2>4. \A v : v \in {sequence[k] : k \in 1..(n + 1)} <=> v \in {sequence[k] : k \in 1..n} \/ v = u
    BY <2>1
  <2>5. CASE u \notin DOMAIN next
    <3>1. P(n + 1) = P(n)
      BY <1>3, <2>1, <2>2, <2>5 DEF RunComponent
    <3>2. Ran(sequence, next, n + 1) = ran
      BY <2>4, <2>5 DEF Ran
    <3> QED
      BY <2>3, <3>1, <3>2
  <2>6. CASE u \in DOMAIN next
    <3>1. P(n + 1) = RunDocument(P(n), u, next[u])
      BY <1>3, <2>1, <2>2, <2>6 DEF RunComponent
    <3>2. Ran(sequence, next, n + 1) = ran \cup {u}
      BY <2>4, <2>6 DEF Ran
    <3>3. u \notin ran
      <4>1. \A k \in 1..n : sequence[k] # u
        BY <1>1, <2>1 DEF Distinct
      <4> QED
        BY <4>1 DEF Ran
    <3>4. CASE P(n).outcome # "ok"
      <4>1. P(n + 1) = P(n)
        BY <3>1, <3>4, Zenon DEF RunDocument
      <4>2. ran \cup {u} # {}
        OBVIOUS
      <4> QED
        BY <2>3, <3>2, <3>4, <4>1, <4>2 DEF Reached
    <3>5. CASE P(n).outcome = "ok"
      <4>1. ran \subseteq DOMAIN next /\ Revises(s.revisions, u, next[u])
        BY <2>6 DEF Ran
      <4> HIDE DEF ran, u
      <4>2. Reached(s, next, ran \cup {u}, RunDocument(P(n), u, next[u]))
        BY <2>3, <2>6, <3>3, <3>5, <4>1, ReachStep
      <4> QED
        BY <3>1, <3>2, <4>2
    <3> QED
      BY <3>4, <3>5
  <2> QED
    BY <2>5, <2>6
<1>7. \A n \in 0..Len(sequence) : Reached(s, next, Ran(sequence, next, n), P(n))
  <2>1. \A n \in Nat : n \in S
    <3> HIDE DEF S
    <3> QED
      BY <1>5, <1>6, Refs!SetInduction
  <2> QED
    BY <1>1, <2>1
<1> QED
  BY <1>2, <1>7 DEF P, Components!After

\* The components of a command are those of the open documents, and one for
\* every document it opens: no document has two.
LEMMA Sequencing ==
  ASSUME NEW ord, Distinct(ord), NEW D, IsFiniteSet(D)
  PROVE  Distinct(ord \o SetToSeq(D \ Range(ord)))
<1> DEFINE E == D \ Range(ord)
           t == SetToSeq(E)
           n == Cardinality(E)
           sequence == ord \o t
<1>1. IsFiniteSet(E) /\ n \in Nat /\ ExistsBijection(1..n, E)
  BY FS_Difference, FS_CardinalityType
<1>2. \E f \in [1..n -> E] : IsInjective(f)
  BY <1>1, Zenon DEF ExistsBijection, Bijection, Injection
<1>3. t \in [1..n -> E] /\ IsInjective(t)
  <2> HIDE DEF E
  <2> QED
    BY <1>2 DEF SetToSeq
<1> HIDE DEF t, n
<1>4. IsSeq(t) /\ Len(t) = n
  <2>1. DOMAIN t = 1..n /\ t = [k \in 1..n |-> t[k]]
    BY <1>3
  <2> QED
    BY <1>1, <2>1, SeqOfFunction
<1>5. IsSeq(ord) /\ Len(ord) \in Nat /\ DOMAIN ord = 1..Len(ord)
  BY SeqParts DEF Distinct
<1>6. /\ IsSeq(sequence) /\ Len(sequence) = Len(ord) + Len(t)
      /\ \A k \in 1..Len(ord) : sequence[k] = ord[k]
      /\ \A k \in 1..Len(t) : sequence[Len(ord) + k] = t[k]
  BY <1>4, <1>5, SeqConcat
<1>7. \A k \in 1..Len(ord) : ord[k] \in Range(ord)
  BY <1>5 DEF Range
<1>8. \A k \in 1..n : t[k] \in D /\ t[k] \notin Range(ord)
  BY <1>3
<1>9. \A j, k \in 1..n : t[j] = t[k] => j = k
  BY <1>3 DEF IsInjective
<1> HIDE DEF sequence
<1>10. ASSUME NEW k \in 1..Len(sequence)
       PROVE  \/ k \in 1..Len(ord) /\ sequence[k] = ord[k] /\ sequence[k] \in Range(ord)
              \/ /\ k - Len(ord) \in 1..n /\ sequence[k] = t[k - Len(ord)]
                 /\ sequence[k] \notin Range(ord)
  <2>1. CASE k <= Len(ord)
    <3>1. k \in 1..Len(ord)
      BY <2>1, <1>5
    <3> QED
      BY <1>6, <1>7, <3>1
  <2>2. CASE k > Len(ord)
    <3>1. k - Len(ord) \in 1..n /\ Len(ord) + (k - Len(ord)) = k
      BY <1>1, <1>4, <1>5, <1>6, <2>2
    <3>2. sequence[k] = t[k - Len(ord)]
      BY <1>4, <1>6, <3>1
    <3> QED
      BY <1>8, <3>1, <3>2
  <2> QED
    BY <1>5, <2>1, <2>2
<1>11. ASSUME NEW j \in 1..Len(sequence), NEW k \in 1..Len(sequence), sequence[j] = sequence[k]
       PROVE  j = k
  <2>1. CASE sequence[j] \in Range(ord)
    <3>1. j \in 1..Len(ord) /\ k \in 1..Len(ord) /\ ord[j] = ord[k]
      BY <1>10, <1>11, <2>1
    <3> QED
      BY <3>1 DEF Distinct
  <2>2. CASE sequence[j] \notin Range(ord)
    <3>1. /\ j - Len(ord) \in 1..n /\ k - Len(ord) \in 1..n
          /\ t[j - Len(ord)] = t[k - Len(ord)]
      BY <1>10, <1>11, <2>2
    <3>2. j - Len(ord) = k - Len(ord)
      BY <1>9, <3>1
    <3> QED
      BY <1>5, <3>2
  <2> QED
    BY <2>1, <2>2
<1>12. Distinct(sequence)
  BY <1>6, <1>11 DEF Distinct
<1> QED
  BY <1>12, Zenon DEF sequence, t

\* The step of a whole command, from s to t: the tapes of documents that stay
\* open follow the old ones, their revisions the old revisions, and their patches
\* tell the parser what changed.
Transits(s, t) ==
  /\ \A u \in DOMAIN s.layouts \cap DOMAIN t.layouts :
       \/ t.layouts[u] = s.layouts[u]
       \/ Follows(s.layouts[u].lexical, t.layouts[u].lexical, s.layouts[u].next)
  /\ \A u \in DOMAIN s.revisions \cap DOMAIN t.revisions :
       \/ t.revisions[u] = s.revisions[u]
       \/ Revises(s.revisions, u, t.revisions[u])
  /\ \A u \in DOMAIN s.semantics \cap DOMAIN t.semantics : Answers(s.semantics[u], t.semantics[u])

\* t is what a command that started in s and ended in p leaves.
Settles(s, p, t) ==
  /\ t.machine = p.machine
  /\ p.outcome = "ok" => /\ t.revisions = p.revisions /\ t.layouts = p.layouts
                         /\ t.semantics = p.semantics /\ t.facts = p.facts
  /\ p.outcome # "ok" => /\ t.revisions = s.revisions /\ t.layouts = s.layouts
                         /\ t.semantics = s.semantics /\ t.facts = s.facts

\* A command that ends as described leaves a good state, whether it fails or not,
\* and the lexer in step with it when it concerns one document.
LEMMA Settling ==
  ASSUME NEW s, Good(s), NEW next, \A u \in DOMAIN next : Revises(s.revisions, u, next[u]),
         NEW ran, ran \subseteq DOMAIN next, NEW p, Reached(s, next, ran, p),
         NEW t, Settles(s, p, t)
  PROVE  /\ Good(t) /\ Transits(s, t)
         /\ Single(next) /\ InStep(s.machine, s.layouts) => InStep(t.machine, t.layouts)
<1>1. CASE p.outcome = "ok"
  <2>1. Good(p) /\ Moved(s, next, ran, p)
    BY <1>1 DEF Reached
  <2>2. /\ t.machine = p.machine /\ t.revisions = p.revisions /\ t.layouts = p.layouts
        /\ t.semantics = p.semantics /\ t.facts = p.facts
    BY <1>1 DEF Settles
  <2>3. Good(t)
    BY <2>1, <2>2 DEF Good
  <2>4. InStep(s.machine, s.layouts) => InStep(t.machine, t.layouts)
    BY <1>1, <2>2 DEF Reached
  <2>5. DOMAIN s.layouts = DOMAIN s.revisions
    BY DEF Good
  <2>6. ASSUME NEW u \in DOMAIN s.layouts
        PROVE  \/ t.layouts[u] = s.layouts[u]
               \/ Follows(s.layouts[u].lexical, t.layouts[u].lexical, s.layouts[u].next)
    BY <2>1, <2>2, <2>5 DEF Moved
  <2>7. ASSUME NEW u \in DOMAIN s.revisions
        PROVE  t.revisions[u] = s.revisions[u] \/ Revises(s.revisions, u, t.revisions[u])
    <3>1. CASE u \in ran
      <4>1. t.revisions[u] = next[u] /\ u \in DOMAIN next
        BY <2>1, <2>2, <3>1 DEF Moved
      <4> QED
        BY <4>1
    <3>2. CASE u \notin ran
      BY <2>1, <2>2, <3>2 DEF Moved
    <3> QED
      BY <3>1, <3>2
  <2>8. ASSUME NEW u \in DOMAIN s.semantics PROVE Answers(s.semantics[u], t.semantics[u])
    BY <2>1, <2>2 DEF Moved, Answers
  <2> QED
    BY <2>3, <2>4, <2>6, <2>7, <2>8 DEF Transits
<1>2. CASE p.outcome # "ok"
  <2>1. /\ t.machine = p.machine /\ t.revisions = s.revisions /\ t.layouts = s.layouts
        /\ t.semantics = s.semantics /\ t.facts = s.facts
    BY <1>2 DEF Settles
  <2>2. Keeps(t.machine, t.layouts)
    BY <2>1 DEF Reached, Ahead, Good, Keeps
  <2>3. Good(t)
    BY <2>1, <2>2 DEF Good
  <2>4. Single(next) => t.machine = s.machine
    BY <1>2, <2>1 DEF Reached
  <2>5. Transits(s, t)
    BY <2>1 DEF Transits, Answers
  <2> QED
    BY <2>1, <2>3, <2>4, <2>5 DEF InStep
<1> QED
  BY <1>1, <1>2

-----------------------------------------------------------------------------
(* The specification. *)

\* The state as RunCommand hands it to the components.
Here == [machine |-> machine, revisions |-> revisions, facts |-> facts, layouts |-> layouts,
         semantics |-> semantics, exact |-> exact, outcome |-> "ok"]

\* The inductive invariant.
Invariant == Good(Here) /\ Distinct(order)

\* What a command does to the variables.
LEMMA CommandStep ==
  ASSUME Good(Here), Distinct(order), NEW next, IsFiniteSet(DOMAIN next),
         \A u \in DOMAIN next : Revises(revisions, u, next[u]), RunCommand(next)
  PROVE  /\ Good(Here') /\ Distinct(order') /\ Transits(Here, Here')
         /\ Single(next) /\ InStep(machine, layouts) => InStep(machine', layouts')
<1> DEFINE sequence == order \o SetToSeq(DOMAIN next \ Range(order))
           es == [k \in DOMAIN sequence |-> [uri |-> sequence[k], next |-> next]]
           p == Components!After(Here, es)
<1>1. Distinct(sequence)
  BY Sequencing
<1>2. /\ machine' = p.machine
      /\ p.outcome = "ok" => /\ revisions' = p.revisions /\ layouts' = p.layouts
                             /\ semantics' = p.semantics /\ facts' = p.facts
                             /\ order' = sequence
      /\ p.outcome # "ok" => /\ revisions' = revisions /\ layouts' = layouts
                             /\ semantics' = semantics /\ facts' = facts
                             /\ order' = order
  BY Zenon DEF RunCommand, Here, published
<1>3. /\ Here.machine = machine /\ Here.revisions = revisions /\ Here.facts = facts
      /\ Here.layouts = layouts /\ Here.semantics = semantics /\ Here.outcome = "ok"
  BY Zenon DEF Here
<1>4. /\ Here'.machine = machine' /\ Here'.revisions = revisions' /\ Here'.facts = facts'
      /\ Here'.layouts = layouts' /\ Here'.semantics = semantics'
  BY Zenon DEF Here
<1> HIDE DEF sequence
<1>5. Reached(Here, next, Ran(sequence, next, Len(sequence)), p)
  <2>1. \A u \in DOMAIN next : Revises(Here.revisions, u, next[u])
    BY <1>3
  <2>2. Len(sequence) \in 0..Len(sequence)
    BY <1>1, SeqParts DEF Distinct
  <2>3. es = [k \in DOMAIN sequence |-> [uri |-> sequence[k], next |-> next]]
    OBVIOUS
  <2> HIDE DEF es
  <2>4. /\ Components!After(Here, es) = Components!States(Here, es)[Len(sequence)]
        /\ \A n \in 0..Len(sequence) :
             Reached(Here, next, Ran(sequence, next, n), Components!States(Here, es)[n])
    BY <1>1, <1>3, <2>1, <2>3, Commanding
  <2> QED
    BY <2>2, <2>4
<1> HIDE DEF p
<1>6. Settles(Here, p, Here')
  BY <1>2, <1>3, <1>4 DEF Settles
<1>7. Ran(sequence, next, Len(sequence)) \subseteq DOMAIN next
  BY DEF Ran
<1>8. /\ Good(Here') /\ Transits(Here, Here')
      /\ Single(next) /\ InStep(Here.machine, Here.layouts) => InStep(Here'.machine, Here'.layouts)
  <2>1. \A u \in DOMAIN next : Revises(Here.revisions, u, next[u])
    BY <1>3
  <2> QED
    BY <1>5, <1>6, <1>7, <2>1, Settling
<1>9. Distinct(order')
  BY <1>1, <1>2
<1> QED
  BY <1>3, <1>4, <1>8, <1>9

\* The fields of the state.
LEMMA HereParts ==
  /\ Here.machine = machine /\ Here.revisions = revisions /\ Here.facts = facts
  /\ Here.layouts = layouts /\ Here.semantics = semantics
  /\ Here'.machine = machine' /\ Here'.revisions = revisions' /\ Here'.facts = facts'
  /\ Here'.layouts = layouts' /\ Here'.semantics = semantics'
BY Zenon DEF Here

\* What every step keeps and does.
Preserves == Good(Here') /\ Distinct(order') /\ Transits(Here, Here')

\* Nothing published changes: nothing is lost.
LEMMA Idle ==
  ASSUME Invariant, UNCHANGED <<machine, published>>
  PROVE  Preserves /\ (MachineCurrent => MachineCurrent')
<1>1. /\ machine' = machine /\ revisions' = revisions /\ layouts' = layouts
      /\ semantics' = semantics /\ facts' = facts /\ order' = order
  BY DEF published
<1>2. /\ Here'.machine = Here.machine /\ Here'.revisions = Here.revisions /\ Here'.facts = Here.facts
      /\ Here'.layouts = Here.layouts /\ Here'.semantics = Here.semantics
  BY <1>1, HereParts
<1>3. Good(Here')
  BY <1>2 DEF Invariant, Good
<1>4. Transits(Here, Here')
  BY <1>2 DEF Transits, Answers
<1>5. Distinct(order')
  BY <1>1 DEF Invariant
<1> QED
  BY <1>1, <1>3, <1>4, <1>5 DEF Preserves, MachineCurrent

\* The revision the source fold makes of a new text.
LEMMA Folding ==
  ASSUME Invariant, NEW u, NEW text, IsSeq(text), NEW splices,
         u \in DOMAIN revisions => Laid(revisions[u].text, text, splices)
  PROVE  Revises(revisions, u, SourceDocument(u, text, splices))
<1> DEFINE r == SourceDocument(u, text, splices)
<1>1. /\ r.text = text /\ r.splices = splices
      /\ u \in DOMAIN revisions => /\ r.document = revisions[u].document
                                   /\ r.id = revisions[u].id + 1 /\ r.previous = revisions[u].id
      /\ u \notin DOMAIN revisions => /\ r.document[1] = u
                                      /\ r.id = 1 /\ r.previous = Absent
  BY DEF SourceDocument
<1> HIDE DEF r
<1> QED
  BY <1>1 DEF Revises, r

\* The text of an open document is a sequence.
LEMMA OpenText ==
  ASSUME Invariant, NEW u \in DOMAIN revisions
  PROVE  IsSeq(revisions[u].text)
<1>1. Attached(u, revisions[u], layouts[u], semantics[u])
  BY HereParts DEF Invariant, Good
<1> QED
  BY <1>1 DEF Attached, DocumentOK, Covers

\* A command with the revisions next.
Commanded(next) ==
  /\ IsFiniteSet(DOMAIN next) /\ DOMAIN next \subseteq Uris
  /\ \A u \in DOMAIN next : Revises(revisions, u, next[u])
  /\ RunCommand(next)

\* Opening a document, or replacing its text, is one.
LEMMA OpenCommand ==
  ASSUME Invariant, NEW u \in Uris, NEW text \in Texts, Open(u, text)
  PROVE  \E next : Commanded(next) /\ Single(next)
<1> DEFINE m == Len(revisions[u].text)
           replace == <<[os |-> 0, oe |-> m, ns |-> 0, ne |-> Len(text)]>>
           r == SourceDocument(u, text, IF u \in DOMAIN revisions THEN replace ELSE <<>>)
           next == [v \in {u} |-> r]
<1>1. IsSeq(text)
  BY PipelineAssumption, SeqOver
<1>2. u \in DOMAIN revisions => Laid(revisions[u].text, text, replace)
  BY <1>1, OpenText, WholeLaid
<1>3. RunCommand(next)
  BY DEF Open
<1>4. Revises(revisions, u, r)
  <2> HIDE DEF replace
  <2> QED
    BY <1>1, <1>2, Folding
<1> HIDE DEF r
<1>5. DOMAIN next = {u} /\ next[u] = r
  OBVIOUS
<1> HIDE DEF next
<1>6. /\ IsFiniteSet(DOMAIN next) /\ DOMAIN next \subseteq Uris /\ Single(next)
      /\ \A v \in DOMAIN next : Revises(revisions, v, next[v])
  BY <1>4, <1>5, FS_Singleton DEF Single
<1>7. Commanded(next) /\ Single(next)
  BY <1>3, <1>6 DEF Commanded
<1> QED
  BY <1>7

\* Opening a document, or replacing its text.
LEMMA OpenStep ==
  ASSUME Invariant, NEW u \in Uris, NEW text \in Texts, Open(u, text)
  PROVE  Preserves /\ (MachineCurrent => MachineCurrent')
<1>1. PICK next : Commanded(next) /\ Single(next)
  BY OpenCommand
<1>2. /\ Good(Here') /\ Distinct(order') /\ Transits(Here, Here')
      /\ Single(next) /\ InStep(machine, layouts) => InStep(machine', layouts')
  BY <1>1, CommandStep DEF Invariant, Commanded
<1> QED
  BY <1>1, <1>2 DEF Preserves, MachineCurrent, InStep

\* So is editing documents.
LEMMA EditCommand ==
  ASSUME Invariant, NEW batch, IsBatch(batch), Edit(batch)
  PROVE  \E next : Commanded(next) /\ DOMAIN next \subseteq DOMAIN batch
<1> DEFINE normal == [u \in DOMAIN batch |-> NormalizeEdits(revisions[u].text, batch[u])]
           targets == {u \in DOMAIN batch : normal[u].splices # <<>>}
           next == [u \in targets |->
                      SourceDocument(u, ApplySplices(revisions[u].text, normal[u].splices),
                                     normal[u].splices)]
<1>1. RunCommand(next) /\ \A u \in DOMAIN batch : u \in DOMAIN revisions /\ normal[u].ok
  BY Zenon DEF Edit
<1>2. DOMAIN next = targets /\ targets \subseteq DOMAIN batch
  BY Zenon
<1>3. ASSUME NEW u \in DOMAIN next PROVE Revises(revisions, u, next[u])
  <2>1. u \in DOMAIN batch /\ u \in targets
    BY <1>2
  <2> DEFINE n == NormalizeEdits(revisions[u].text, batch[u])
             text == ApplySplices(revisions[u].text, n.splices)
  <2>2. u \in DOMAIN revisions /\ n.ok
    BY <1>1, <2>1
  <2>3. batch[u] \in Seq(EditOp)
    BY <2>1 DEF IsBatch
  <2>4. IsSeq(text) /\ Laid(revisions[u].text, text, n.splices)
    BY <2>2, <2>3, OpenText, Editing
  <2>5. next[u] = SourceDocument(u, text, n.splices)
    BY <2>1, Zenon
  <2>6. Revises(revisions, u, SourceDocument(u, text, n.splices))
    <3> HIDE DEF text, n
    <3> QED
      BY <2>4, Folding
  <2> QED
    BY <2>5, <2>6, Zenon
<1> HIDE DEF next
<1>4. DOMAIN next \subseteq Uris
  BY <1>2 DEF IsBatch
<1>5. IsFiniteSet(DOMAIN next)
  BY <1>4, PipelineAssumption, FS_Subset
<1>6. Commanded(next) /\ DOMAIN next \subseteq DOMAIN batch
  BY <1>1, <1>2, <1>3, <1>4, <1>5 DEF Commanded
<1> QED
  BY <1>6

\* Editing documents.
LEMMA EditStep ==
  ASSUME Invariant, NEW batch, IsBatch(batch), Edit(batch)
  PROVE  Preserves /\ (Single(batch) /\ MachineCurrent => MachineCurrent')
<1>1. PICK next : Commanded(next) /\ DOMAIN next \subseteq DOMAIN batch
  BY EditCommand
<1>2. Single(batch) => Single(next)
  BY <1>1 DEF Single
<1>3. /\ Good(Here') /\ Distinct(order') /\ Transits(Here, Here')
      /\ Single(next) /\ InStep(machine, layouts) => InStep(machine', layouts')
  BY <1>1, CommandStep DEF Invariant, Commanded
<1> QED
  BY <1>2, <1>3 DEF Preserves, MachineCurrent, InStep

\* A sequence without the entry at one place.
LEMMA Retiring ==
  ASSUME NEW s, Distinct(s), NEW k \in DOMAIN s
  PROVE  Distinct(RemoveAt(s, k))
<1>1. IsSeq(s) /\ Len(s) \in Nat /\ k \in 1..Len(s)
  BY SeqParts DEF Distinct
<1> DEFINE a == SubSeq(s, 0 + 1, k - 1)
           b == SubSeq(s, k + 1, Len(s))
           c == a \o b
<1>2. IsSeq(a) /\ Len(a) = k - 1 /\ \A i \in 1..(k - 1) : a[i] = s[i]
  <2>1. 0 \in 0..Len(s) /\ k - 1 \in 0..Len(s)
    BY <1>1
  <2>2. IsSeq(a) /\ Len(a) = (k - 1) - 0 /\ \A i \in 1..((k - 1) - 0) : a[i] = s[0 + i]
    BY <1>1, <2>1, SeqSub
  <2> QED
    BY <1>1, <2>2
<1>3. IsSeq(b) /\ Len(b) = Len(s) - k /\ \A i \in 1..(Len(s) - k) : b[i] = s[k + i]
  BY <1>1, SeqSub
<1>4. RemoveAt(s, k) = c
  BY DEF RemoveAt
<1> HIDE DEF a, b
<1>5. /\ IsSeq(c) /\ Len(c) = Len(a) + Len(b)
      /\ \A i \in 1..Len(a) : c[i] = a[i]
      /\ \A i \in 1..Len(b) : c[Len(a) + i] = b[i]
  <2>1. IsSeq(a) /\ IsSeq(b)
    BY <1>2, <1>3
  <2> QED
    BY <2>1, SeqConcat
<1> HIDE DEF c
<1>6. Len(c) = Len(s) - 1
  BY <1>1, <1>2, <1>3, <1>5
<1>7. ASSUME NEW i \in 1..Len(c)
      PROVE  \/ i < k /\ c[i] = s[i] /\ i \in 1..Len(s)
             \/ i >= k /\ c[i] = s[i + 1] /\ i + 1 \in 1..Len(s)
  <2>1. CASE i < k
    <3>1. i \in 1..(k - 1) /\ i \in 1..Len(s)
      BY <1>1, <2>1
    <3> QED
      BY <1>2, <1>5, <2>1, <3>1
  <2>2. CASE i >= k
    <3>1. i - (k - 1) \in 1..(Len(s) - k) /\ (k - 1) + (i - (k - 1)) = i /\ k + (i - (k - 1)) = i + 1
      BY <1>1, <1>6, <2>2
    <3>2. c[i] = b[i - (k - 1)]
      <4>1. i - (k - 1) \in 1..Len(b) /\ Len(a) + (i - (k - 1)) = i
        BY <1>2, <1>3, <3>1
      <4>2. c[Len(a) + (i - (k - 1))] = b[i - (k - 1)]
        BY <1>5, <4>1
      <4> QED
        BY <4>1, <4>2, Zenon
    <3>3. b[i - (k - 1)] = s[i + 1]
      BY <1>3, <3>1
    <3> QED
      BY <1>1, <1>6, <2>2, <3>2, <3>3
  <2> QED
    BY <1>1, <2>1, <2>2
<1>8. ASSUME NEW i \in 1..Len(c), NEW j \in 1..Len(c), c[i] = c[j] PROVE i = j
  <2>1. \A x, y \in 1..Len(s) : s[x] = s[y] => x = y
    BY DEF Distinct
  <2>2. CASE i < k /\ j < k
    BY <1>1, <1>7, <1>8, <2>1, <2>2
  <2>3. CASE i >= k /\ j >= k
    <3>1. i + 1 = j + 1
      BY <1>1, <1>7, <1>8, <2>1, <2>3
    <3> QED
      BY <1>1, <3>1
  <2>4. CASE i < k /\ j >= k
    <3>1. i = j + 1
      BY <1>1, <1>7, <1>8, <2>1, <2>4
    <3> QED
      BY <1>1, <2>4, <3>1
  <2>5. CASE i >= k /\ j < k
    <3>1. i + 1 = j
      BY <1>1, <1>7, <1>8, <2>1, <2>5
    <3> QED
      BY <1>1, <2>5, <3>1
  <2> QED
    BY <1>1, <2>2, <2>3, <2>4, <2>5
<1> QED
  BY <1>4, <1>5, <1>8 DEF Distinct

\* Closing a document takes exactly its facts away.
LEMMA CloseFacts ==
  ASSUME NEW facs, NEW docs, FactsExact(facs, docs), NEW u \in DOMAIN docs,
         \A v \in DOMAIN docs : docs[v].id[1] = v
  PROVE  FactsExact([key \in {k \in DOMAIN facs : k[1] # docs[u].id} |-> facs[key]], Without(docs, u))
<1> DEFINE F == [key \in {k \in DOMAIN facs : k[1] # docs[u].id} |-> facs[key]]
           L == Without(docs, u)
<1>1. DOMAIN L = DOMAIN docs \ {u} /\ \A v \in DOMAIN L : L[v] = docs[v]
  BY Zenon DEF Without
<1>2. DOMAIN F = {k \in DOMAIN facs : k[1] # docs[u].id} /\ \A k \in DOMAIN F : F[k] = facs[k]
  OBVIOUS
<1> HIDE DEF F, L
<1>3. \A v \in DOMAIN docs : v # u => docs[v].id # docs[u].id
  OBVIOUS
<1>4. \A v \in DOMAIN docs : \A k \in FactKeys(docs[v]) : k[1] = docs[v].id
  BY DEF FactKeys
<1>5. DOMAIN facs = UNION {FactKeys(docs[v]) : v \in DOMAIN docs}
  BY DEF FactsExact
<1>6. DOMAIN F = UNION {FactKeys(L[v]) : v \in DOMAIN L}
  <2>1. ASSUME NEW k \in DOMAIN F PROVE \E v \in DOMAIN L : k \in FactKeys(L[v])
    <3>1. k \in DOMAIN facs /\ k[1] # docs[u].id
      BY <1>2
    <3>2. PICK v \in DOMAIN docs : k \in FactKeys(docs[v])
      BY <1>5, <3>1
    <3>3. v # u
      BY <1>4, <3>1, <3>2
    <3> QED
      BY <1>1, <3>2, <3>3
  <2>2. ASSUME NEW v \in DOMAIN L, NEW k \in FactKeys(L[v]) PROVE k \in DOMAIN F
    <3>1. v \in DOMAIN docs /\ v # u /\ k \in FactKeys(docs[v])
      BY <1>1
    <3>2. k \in DOMAIN facs
      BY <1>5, <3>1
    <3>3. k[1] # docs[u].id
      BY <1>3, <1>4, <3>1
    <3> QED
      BY <1>2, <3>2, <3>3
  <2> QED
    BY <2>1, <2>2
<1>7. ASSUME NEW v \in DOMAIN L, NEW k \in 1..Len(L[v].lexical), IsSemantic(L[v].lexical[k])
      PROVE  F[<<L[v].id, L[v].lexical[k].id>>] = TokenFact(L[v].lexical[k])
  <2>1. v \in DOMAIN docs /\ L[v] = docs[v]
    BY <1>1
  <2>2. facs[<<docs[v].id, docs[v].lexical[k].id>>] = TokenFact(docs[v].lexical[k])
    BY <1>7, <2>1 DEF FactsExact
  <2>3. <<L[v].id, L[v].lexical[k].id>> \in FactKeys(L[v])
    BY <1>7 DEF FactKeys, SemanticIds
  <2>4. <<L[v].id, L[v].lexical[k].id>> \in DOMAIN F
    BY <1>6, <2>3
  <2> QED
    BY <1>2, <2>1, <2>2, <2>4
<1>8. FactsExact(F, L)
  BY <1>6, <1>7 DEF FactsExact
<1> QED
  BY <1>8 DEF F, L

\* Closing a document.
LEMMA CloseStep ==
  ASSUME Invariant, NEW u \in Uris, Close(u)
  PROVE  Preserves /\ (MachineCurrent => MachineCurrent')
<1>1. /\ DOMAIN layouts = DOMAIN revisions /\ DOMAIN semantics = DOMAIN revisions
      /\ \A v \in DOMAIN revisions : Attached(v, revisions[v], layouts[v], semantics[v])
      /\ FactsExact(facts, layouts) /\ Keeps(machine, layouts)
  BY HereParts DEF Invariant, Good
<1>2. /\ u \in DOMAIN revisions /\ machine' = machine
      /\ facts' = [key \in {k \in DOMAIN facts : k[1] # layouts[u].id} |-> facts[key]]
      /\ revisions' = Without(revisions, u) /\ layouts' = Without(layouts, u)
      /\ semantics' = Without(semantics, u)
  BY Zenon DEF Close
<1>3. \A v \in DOMAIN layouts : layouts[v].id[1] = v
  BY <1>1 DEF Attached
<1>4. FactsExact(facts', layouts')
  BY <1>1, <1>2, <1>3, CloseFacts
<1>5. /\ DOMAIN revisions' = DOMAIN revisions \ {u}
      /\ DOMAIN layouts' = DOMAIN revisions \ {u}
      /\ DOMAIN semantics' = DOMAIN revisions \ {u}
  BY <1>1, <1>2, Zenon DEF Without
<1>6. \A v \in DOMAIN revisions' : /\ revisions'[v] = revisions[v] /\ layouts'[v] = layouts[v]
                                   /\ semantics'[v] = semantics[v] /\ v \in DOMAIN revisions
  BY <1>1, <1>2, Zenon DEF Without
<1>7. \A v \in DOMAIN revisions' : Attached(v, revisions'[v], layouts'[v], semantics'[v])
  BY <1>1, <1>6
<1>8. Keeps(machine', layouts')
  BY <1>1, <1>2, <1>5, <1>6 DEF Keeps
<1>9. Good(Here')
  BY <1>4, <1>5, <1>7, <1>8, HereParts DEF Good
<1>10. Transits(Here, Here')
  BY <1>5, <1>6, HereParts DEF Transits, Answers
<1>11. Distinct(order')
  BY Retiring DEF Close, Invariant
<1>12. MachineCurrent => MachineCurrent'
  BY <1>1, <1>2, <1>5, <1>6 DEF MachineCurrent
<1> QED
  BY <1>9, <1>10, <1>11, <1>12 DEF Preserves

\* The first state.
LEMMA InitInvariant ==
  ASSUME Init
  PROVE  Invariant /\ MachineCurrent
<1>1. /\ DOMAIN machine = {} /\ DOMAIN revisions = {} /\ DOMAIN layouts = {}
      /\ DOMAIN semantics = {} /\ DOMAIN facts = {} /\ order = <<>>
  BY DEF Init
<1>2. Good(Here)
  BY <1>1, HereParts DEF Good, FactsExact, Keeps
<1>3. Distinct(order)
  BY <1>1, SeqEmpty DEF Distinct
<1> QED
  BY <1>1, <1>2, <1>3 DEF Invariant, MachineCurrent

\* Every step keeps the invariant and leads from each tape to one that follows it.
LEMMA NextStep ==
  ASSUME Invariant, [Next]_vars
  PROVE  Preserves
<1>1. ASSUME NEW u \in Uris, Close(u) PROVE Preserves
  BY <1>1, CloseStep
<1>2. ASSUME NEW u \in Uris, NEW text \in Texts, Open(u, text) PROVE Preserves
  BY <1>2, OpenStep
<1>3. ASSUME NEW batch, IsBatch(batch), Edit(batch) PROVE Preserves
  BY <1>3, EditStep
<1>4. ASSUME NEW batch, RejectEdit(batch) PROVE Preserves
  BY <1>4, Idle DEF RejectEdit
<1>5. CASE UNCHANGED vars
  BY <1>5, Idle DEF vars, published
<1> QED
  BY <1>1, <1>2, <1>3, <1>4, <1>5 DEF Next, Done

\* The invariant gives the agreement of the tapes.
LEMMA TapesFollow ==
  ASSUME Invariant
  PROVE  TapesAgree
<1> SUFFICES ASSUME NEW u \in DOMAIN layouts
             PROVE  /\ layouts[u].text = revisions[u].text
                    /\ LexicalStart(layouts[u].lexical, Len(layouts[u].lexical)) = Len(layouts[u].text)
                    /\ layouts[u].semantic = Semantic(layouts[u].lexical)
                    /\ \A j, k \in DOMAIN layouts[u].lexical :
                         layouts[u].lexical[j].id = layouts[u].lexical[k].id => j = k
  BY Zenon DEF TapesAgree
<1> DEFINE doc == layouts[u]
<1>1. Attached(u, revisions[u], doc, semantics[u])
  BY HereParts DEF Invariant, Good
<1> HIDE DEF doc
<1>2. /\ doc.text = revisions[u].text /\ doc.semantic = Semantic(doc.lexical)
      /\ Ided(doc.lexical, doc.next) /\ Covers(doc.lexical, doc.text)
  BY <1>1 DEF Attached, DocumentOK
<1>3. LexicalStart(doc.lexical, Len(doc.lexical)) = Len(doc.text)
  BY <1>2 DEF Covers
<1>4. DOMAIN doc.lexical = 1..Len(doc.lexical)
  BY <1>2, SeqParts DEF Ided
<1>5. \A j, k \in 1..Len(doc.lexical) : doc.lexical[j].id = doc.lexical[k].id => j = k
  BY <1>2 DEF Ided
<1> QED
  BY <1>2, <1>3, <1>4, <1>5, Zenon DEF doc

\* The invariant gives the facts.
LEMMA FactsFollow ==
  ASSUME Invariant
  PROVE  FactsMatchTokens
<1>1. /\ DOMAIN layouts = DOMAIN revisions
      /\ \A u \in DOMAIN revisions : Attached(u, revisions[u], layouts[u], semantics[u])
      /\ FactsExact(facts, layouts)
  BY HereParts DEF Invariant, Good
<1>2. ASSUME NEW u \in DOMAIN layouts
      PROVE  {<<layouts[u].id, t.occurrence>> : t \in Range(layouts[u].semantic)} = FactKeys(layouts[u])
  <2> DEFINE doc == layouts[u]
  <2>1. Attached(u, revisions[u], doc, semantics[u])
    BY <1>1
  <2> HIDE DEF doc
  <2>2. IsSeq(doc.lexical) /\ doc.semantic = Semantic(doc.lexical)
    BY <2>1 DEF Attached, DocumentOK, Ided
  <2>3. Occurrences(doc.semantic) = SemanticIds(doc.lexical)
    BY <2>2, SemanticOccurrences
  <2>4. Occurrences(doc.semantic) = {t.occurrence : t \in Range(doc.semantic)}
    BY DEF Occurrences, Range
  <2>5. {<<doc.id, t.occurrence>> : t \in Range(doc.semantic)} = FactKeys(doc)
    BY <2>3, <2>4 DEF FactKeys
  <2> QED
    BY <2>5 DEF doc
<1>3. DOMAIN facts = UNION {{<<layouts[u].id, t.occurrence>> : t \in Range(layouts[u].semantic)} :
                              u \in DOMAIN layouts}
  <2>1. DOMAIN facts = UNION {FactKeys(layouts[u]) : u \in DOMAIN layouts}
    BY <1>1 DEF FactsExact
  <2> QED
    BY <1>2, <2>1
<1>4. ASSUME NEW u \in DOMAIN layouts
      PROVE  /\ \A t \in Range(layouts[u].lexical) :
                  IsSemantic(t) => facts[<<layouts[u].id, t.id>>] = TokenFact(t)
             /\ semantics[u].doc.semantic = layouts[u].semantic
  <2>1. Attached(u, revisions[u], layouts[u], semantics[u])
    BY <1>1
  <2>2. DOMAIN layouts[u].lexical = 1..Len(layouts[u].lexical)
    BY <2>1, SeqParts DEF Attached, DocumentOK, Ided
  <2>3. ASSUME NEW t \in Range(layouts[u].lexical), IsSemantic(t)
        PROVE  facts[<<layouts[u].id, t.id>>] = TokenFact(t)
    <3>1. PICK k \in 1..Len(layouts[u].lexical) : t = layouts[u].lexical[k]
      BY <2>2 DEF Range
    <3> QED
      BY <1>1, <2>3, <3>1 DEF FactsExact
  <2> QED
    BY <2>1, <2>3 DEF Attached
<1> QED
  BY <1>3, <1>4 DEF FactsMatchTokens

-----------------------------------------------------------------------------
(* Theorems *)

\* The invariant of the pipeline (Good: the published documents, their source
\* revisions, semantic documents and facts belong together, and the lexer holds
\* each of them or one of another revision) holds for every lexer definition, every
\* set of documents and every batch of edits.
THEOREM LexInvariance == Spec => []Invariant
<1>1. Init => Invariant
  BY InitInvariant
<1>2. Invariant /\ [Next]_vars => Invariant'
  BY NextStep DEF Preserves, Invariant
<1> QED
  BY <1>1, <1>2, PTL DEF Spec

\* The tapes of every open document agree with each other and with the text of its
\* revision (relex_splice): splicing the lexical and the semantic tape apart from
\* each other never lets them diverge, whatever the lexer definition, the splices of
\* a batch and the point where a replay converges.
THEOREM TapesAlwaysAgree == Spec => []TapesAgree
<1>1. Invariant => TapesAgree
  BY TapesFollow
<1> QED
  BY <1>1, LexInvariance, PTL

\* TokenFacts holds the facts of the semantic tokens of the open documents and
\* nothing else, although lex_document only ever applies patches to it: the patch
\* of several splices accounts for everything that comes, goes or changes, and an
\* unchanged semantic revision means an unchanged semantic tape.
THEOREM FactsAlwaysMatch == Spec => []FactsMatchTokens
<1>1. Invariant => FactsMatchTokens
  BY FactsFollow
<1> QED
  BY <1>1, LexInvariance, PTL

\* The splices normalize_edits makes of a batch and apply_splices makes on the text
\* have the effect the edits describe, whatever the edits are, how many there are and
\* in which order the caller has them: sorting keeps the order of insertions at one
\* place, joining edits, dropping those that change nothing and joining splices that
\* touch lose no text, and going from the last splice to the first keeps the offsets
\* of the others valid.
THEOREM BatchesApplied == Spec => []BatchApplied
<1>1. ASSUME Invariant PROVE BatchApplied
  <2> SUFFICES ASSUME NEW batch \in {b \in Batches(Current) : IsBatch(b)}, NEW u \in DOMAIN batch,
                      u \in DOMAIN revisions, Comparable(revisions[u].text, batch[u])
               PROVE  Applied(revisions[u].text, batch[u])
    BY Zenon DEF BatchApplied
  <2>1. batch[u] \in Seq(EditOp)
    BY DEF IsBatch
  <2>2. IsSeq(revisions[u].text)
    BY <1>1, OpenText
  <2> QED
    BY <2>1, <2>2, BatchEffect
<1>2. Invariant => BatchApplied
  BY <1>1
<1> QED
  BY <1>2, LexInvariance, PTL

\* If every batch concerns one document, the document the lexer keeps outside of
\* the transaction (Lexer::latest) is the published one, also after commands that
\* fail.  Without that hypothesis the code does not keep this: see NeverStale.
THEOREM MachineStaysCurrent ==
  ASSUME \A current : \A batch \in Batches(current) : Single(batch)
  PROVE  Spec => []MachineCurrent
<1>1. Init => MachineCurrent
  BY InitInvariant
<1>2. ASSUME Invariant, MachineCurrent, [Next]_vars PROVE MachineCurrent'
  <2>1. ASSUME NEW u \in Uris, Close(u) PROVE MachineCurrent'
    BY <1>2, <2>1, CloseStep
  <2>2. ASSUME NEW u \in Uris, NEW text \in Texts, Open(u, text) PROVE MachineCurrent'
    BY <1>2, <2>2, OpenStep
  <2>3. ASSUME NEW batch \in Batches(Current), IsBatch(batch), Edit(batch) PROVE MachineCurrent'
    BY <1>2, <2>3, EditStep
  <2>4. ASSUME NEW batch, RejectEdit(batch) PROVE MachineCurrent'
    BY <1>2, <2>4, Idle DEF RejectEdit
  <2>5. CASE UNCHANGED vars
    BY <1>2, <2>5, Idle DEF vars, published
  <2> QED
    BY <1>2, <2>1, <2>2, <2>3, <2>4, <2>5 DEF Next, Done
<1>3. Invariant /\ MachineCurrent /\ [Next]_vars => MachineCurrent'
  BY <1>2
<1> QED
  BY <1>1, <1>3, LexInvariance, PTL DEF Spec

\* Identities of tokens are stable (reconcile_occurrence_ids): over a whole command,
\* with any number of splices, an identity stays with a token of the same kind, in
\* the same order, and none that left the tape comes back.
THEOREM IdentitiesStay == Spec => IdentityStable
<1> DEFINE Stays ==
       \A u \in Uris :
       /\ u \in DOMAIN layouts /\ u \in DOMAIN layouts'
       /\ layouts'[u].id = layouts[u].id
       => LET old == layouts[u].lexical
              new == layouts'[u].lexical
              Places == {p \in (1..Len(old)) \X (1..Len(new)) : old[p[1]].id = new[p[2]].id}
          IN /\ \A p \in Places : /\ old[p[1]].terminal = new[p[2]].terminal
                                  /\ IsSemantic(old[p[1]]) = IsSemantic(new[p[2]])
             /\ \A p, q \in Places : p[1] < q[1] => p[2] < q[2]
             /\ \A t \in Range(new) : t.id >= layouts[u].next \/ \E s \in Range(old) : s.id = t.id
<1>1. ASSUME Invariant, [Next]_vars PROVE Stays
  <2> SUFFICES ASSUME NEW u \in DOMAIN layouts, u \in DOMAIN layouts',
                      NEW old, NEW new, old = layouts[u].lexical, new = layouts'[u].lexical,
                      NEW Places,
                      Places = {p \in (1..Len(old)) \X (1..Len(new)) : old[p[1]].id = new[p[2]].id}
               PROVE  /\ \A p \in Places : /\ old[p[1]].terminal = new[p[2]].terminal
                                           /\ IsSemantic(old[p[1]]) = IsSemantic(new[p[2]])
                      /\ \A p, q \in Places : p[1] < q[1] => p[2] < q[2]
                      /\ \A t \in Range(new) :
                           t.id >= layouts[u].next \/ \E s \in Range(old) : s.id = t.id
    BY Zenon
  <2>1. Preserves
    BY <1>1, NextStep
  <2>2. Ided(old, layouts[u].next)
    BY <1>1, HereParts DEF Invariant, Good, Attached, DocumentOK
  <2>3. IsSeq(new)
    BY <2>1, HereParts DEF Preserves, Good, Attached, DocumentOK, Ided
  <2>4. Follows(old, new, layouts[u].next)
    BY <2>1, <2>2, FollowsItself, HereParts DEF Preserves, Transits
  <2>5. /\ \A k \in 1..Len(old) : old[k] \in Range(old)
        /\ \A t \in Range(new) : \E k \in 1..Len(new) : t = new[k]
    BY <2>2, <2>3, SeqParts DEF Ided, Range
  <2>6. \A p \in Places : /\ p[1] \in 1..Len(old) /\ p[2] \in 1..Len(new)
                          /\ old[p[1]].id = new[p[2]].id
    OBVIOUS
  <2>7. \A p \in Places : /\ old[p[1]].terminal = new[p[2]].terminal
                          /\ IsSemantic(old[p[1]]) = IsSemantic(new[p[2]])
    BY <2>4, <2>6 DEF Follows
  <2>8. ASSUME NEW p \in Places, NEW q \in Places, p[1] < q[1] PROVE p[2] < q[2]
    <3>1. /\ p[1] \in 1..Len(old) /\ p[2] \in 1..Len(new) /\ old[p[1]].id = new[p[2]].id
          /\ q[1] \in 1..Len(old) /\ q[2] \in 1..Len(new) /\ old[q[1]].id = new[q[2]].id
      BY <2>6
    <3>2. \A i, j \in 1..Len(old), k, l \in 1..Len(new) :
            old[i].id = new[k].id /\ old[j].id = new[l].id /\ i < j => k < l
      BY <2>4 DEF Follows
    <3> QED
      BY <2>8, <3>1, <3>2, Zenon
  <2>9. \A t \in Range(new) : t.id >= layouts[u].next \/ \E s \in Range(old) : s.id = t.id
    BY <2>4, <2>5 DEF Follows
  <2> QED
    BY <2>7, <2>8, <2>9
<1>2. Invariant /\ [Next]_vars => [Stays]_vars
  BY <1>1
<1> HIDE DEF Stays
<1> QED
  BY <1>2, LexInvariance, PTL DEF Spec, IdentityStable, Stays

\* The coordinate map of every revision is exact (SourceCoordinateMap::build and
\* map_old_to_new): whatever splices a batch of edits normalises to, an old
\* offset they leave alone is mapped to its character in the new text, and an
\* offset they replace to none.
THEOREM CoordinatesStayExact == Spec => CoordinatesExact
<1> DEFINE Stays ==
      \A u \in Uris :
       /\ u \in DOMAIN revisions /\ u \in DOMAIN revisions'
       /\ revisions'[u].previous = revisions[u].id
       => LET old == revisions[u].text
              new == revisions'[u].text
              splices == revisions'[u].splices
              To(at) == MapOldToNew(Islands(Len(old), splices), at)
          IN \A at \in 0..(Len(old) - 1) :
               IF \E k \in DOMAIN splices : at \in splices[k].os..(splices[k].oe - 1)
               THEN To(at) = -1
               ELSE To(at) \in 0..(Len(new) - 1) /\ new[To(at) + 1] = old[at + 1]
<1>1. ASSUME Invariant, [Next]_vars PROVE Stays
  <2>1. ASSUME NEW u \in DOMAIN revisions, u \in DOMAIN revisions',
               revisions'[u].previous = revisions[u].id
        PROVE  MapsExactly(revisions[u].text, revisions'[u].text, revisions'[u].splices)
    <3>1. Transits(Here, Here')
      BY <1>1, NextStep DEF Preserves
    <3>2. revisions'[u] = revisions[u] \/ Revises(revisions, u, revisions'[u])
      BY <2>1, <3>1, HereParts DEF Transits
    <3>3. revisions[u].previous # revisions[u].id
      BY <1>1, HereParts DEF Invariant, Good, Attached
    <3>4. /\ IsSeq(revisions[u].text)
          /\ Laid(revisions[u].text, revisions'[u].text, revisions'[u].splices)
      BY <1>1, <2>1, <3>2, <3>3, OpenText DEF Revises
    <3> QED
      BY <3>4, MappingExact
  <2> QED
    BY <2>1, Zenon DEF MapsExactly
<1>2. Invariant /\ [Next]_vars => [Stays]_vars
  BY <1>1
<1> HIDE DEF Stays
<1> QED
  BY <1>2, LexInvariance, PTL DEF Spec, CoordinatesExact, Stays

\* Whenever a semantic document replaces one of its lineage, its patch has a splice,
\* and if no splice of the command changed the tape in front of where an earlier one
\* began, the ranges ReplayPlan takes from the first and the last anchor cover all
\* that differs from the tape the parser saw: whatever was anchored at came and
\* went, for every lexer definition and every sequence of commands.
THEOREM ReplayAlwaysSound == Spec => ReplaySound
<1> DEFINE Sounds ==
      \A u \in Uris : Republished(u) =>
        /\ semantics'[u].patch.splices # <<>>
        /\ semantics'[u].patch.ordered => Covered(semantics[u], semantics'[u])
<1>1. ASSUME Invariant, [Next]_vars PROVE Sounds
  <2>1. Transits(Here, Here')
    BY <1>1, NextStep DEF Preserves
  <2>2. \A u \in DOMAIN semantics \cap DOMAIN semantics' : Answers(semantics[u], semantics'[u])
    BY <2>1, HereParts DEF Transits
  <2> QED
    BY <2>2, Zenon DEF Republished, Answers
<1>2. Invariant /\ [Next]_vars => [Sounds]_vars
  BY <1>1
<1> HIDE DEF Sounds
<1> QED
  BY <1>2, LexInvariance, PTL DEF Spec, ReplaySound, Sounds
=============================================================================
