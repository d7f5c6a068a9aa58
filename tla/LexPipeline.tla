----------------------------- MODULE LexPipeline -----------------------------
(***************************************************************************)
(* The workspace's source and lexer pipeline (workspace.rs, source.rs,      *)
(* lex/component.rs): a command opens, edits or closes documents; the       *)
(* source fold turns it into source revisions and the lexer component of    *)
(* each document derives and publishes its tokens.  A command that fails    *)
(* publishes nothing; the documents the lexer keeps for itself (machine)    *)
(* are not part of the transaction.                                         *)
(***************************************************************************)
EXTENDS Lexer, SourceText

CONSTANTS
  Uris,          \* documents
  Byte,          \* the bytes of texts
  Texts,         \* full texts a document is opened with
  Batches(_),    \* the edit batches tried on the current texts
  MaxCommands    \* bound on commands

ASSUME PipelineAssumption ==
  /\ IsFiniteSet(Uris)
  /\ \A text \in Texts : text \in Seq(Byte)

(***************************************************************************)
(* The maps of the code are partial functions.                              *)
(***************************************************************************)
VARIABLES
  machine,    \* Lexer::latest: the private document of a URI
  revisions,  \* SourceRevisions
  layouts,    \* TokenLayoutDocuments and Tokens: the lexed document
  semantics,  \* SemanticTokenDocuments: revision, patch and document
  facts,      \* TokenFacts, by document and occurrence
  opened,     \* Workspace::opened_documents
  order,      \* open documents in the order their components were created
  commands,   \* command ids handed out
  outcome,    \* of the last command
  exact       \* history: every replay of the document started and ended soundly

vars == <<machine, revisions, layouts, semantics, facts, opened, order, commands, outcome, exact>>

published == <<revisions, layouts, semantics, facts, order>>

Over(f, g) == [x \in DOMAIN f \union DOMAIN g |-> IF x \in DOMAIN f THEN f[x] ELSE g[x]]
With(f, x, y) == [z \in DOMAIN f \union {x} |-> IF z = x THEN y ELSE f[z]]
Without(f, x) == [z \in DOMAIN f \ {x} |-> f[z]]

\* A batch has a sequence of edits for each of its documents.  The end of an
\* insertion's range is never read: its place is written for both.
EditOp == {e \in [kind : {"insert"}, start : Nat, end : Nat, text : Seq(Byte)] : e.end = e.start}
            \union [kind : {"delete"}, start : Nat, end : Nat, text : {<<>>}]
IsBatch(batch) == DOMAIN batch \subseteq Uris /\ \A u \in DOMAIN batch : batch[u] \in Seq(EditOp)

-----------------------------------------------------------------------------
(***************************************************************************)
(* Publication by lex_document.  p is the state as the command changes it.  *)
(***************************************************************************)
TokenFact(t) == [terminal |-> t.terminal, value |-> t.value, width |-> t.width, error |-> t.error]

FactsOf(doc, ids) ==
  LET tokens == {t \in Range(doc.lexical) : IsSemantic(t) /\ t.id \in ids}
  IN [key \in {<<doc.id, t.id>> : t \in tokens} |->
        TokenFact(CHOOSE t \in tokens : t.id = key[2])]

AllIds(doc) == {t.id : t \in Range(doc.lexical)}

\* Mutant: removed occurrences keep their facts.
PublishFactsKeepsRemoved(p, u, doc, patch) ==
  IF u \in DOMAIN p.machine /\ u \notin DOMAIN p.layouts
  THEN Over(FactsOf(doc, AllIds(doc)), p.facts)
  ELSE Over(FactsOf(doc, patch.inserted \union patch.updated), p.facts)

(* The facts of a document after a run of its component: a patch, or all of  *)
(* them when the component is new and the lexer already knew the document.   *)
PublishFacts(p, u, doc, patch) ==
  IF u \in DOMAIN p.machine /\ u \notin DOMAIN p.layouts
  THEN Over(FactsOf(doc, AllIds(doc)), p.facts)
  ELSE LET kept == {key \in DOMAIN p.facts : key[1] # doc.id \/ key[2] \notin patch.removed}
       IN Over(FactsOf(doc, patch.inserted \union patch.updated), [key \in kept |-> p.facts[key]])

(* An equal semantic document (same identity and revision) is not replaced.  *)
PublishSemantics(p, u, doc, patch) ==
  IF u \in DOMAIN p.semantics /\ p.semantics[u].id = doc.id /\ p.semantics[u].revision = doc.semantics
  THEN p.semantics[u]
  ELSE [id |-> doc.id, revision |-> doc.semantics, structure |-> doc.structure,
        patch |-> patch, doc |-> doc]

(* The fold of source_document: the revision a command produces.             *)
SourceDocument(u, text, splices) ==
  LET known == u \in DOMAIN revisions
  IN [document |-> IF known THEN revisions[u].document
                   ELSE IF u \in opened THEN <<u, commands + 1>> ELSE <<u, 0>>,
      id       |-> IF known THEN revisions[u].id + 1 ELSE 1,
      previous |-> IF known THEN revisions[u].id ELSE Absent,
      text     |-> text,
      splices  |-> splices]

(* The state in which a command fails at a document. *)
Failed(p, machineLeft, why) ==
  [machine |-> machineLeft, revisions |-> p.revisions, facts |-> p.facts, layouts |-> p.layouts,
   semantics |-> p.semantics, exact |-> p.exact, outcome |-> why]

\* Mutant: a failed derivation drops the lexer's own document.
RunDocumentForgets(p, u, revision) ==
  LET Outcome(d) ==
        IF d.outcome # "ok" THEN Failed(p, Without(p.machine, u), d.outcome)
        ELSE [machine   |-> With(p.machine, u, d.doc),
              revisions |-> With(p.revisions, u, revision),
              facts     |-> PublishFacts(p, u, d.doc, d.patch),
              layouts   |-> With(p.layouts, u, d.doc),
              semantics |-> With(p.semantics, u, PublishSemantics(p, u, d.doc, d.patch)),
              exact     |-> [p.exact EXCEPT ![u] = d.sound /\ (revision.previous # Absent => @)],
              outcome   |-> "ok"]
  IN IF p.outcome # "ok" THEN p ELSE Outcome(DeriveDocument(p.machine, u, revision))

(* One document of a command: the source fold, then the lexer component.     *)
RunDocument(p, u, revision) ==
  LET Outcome(d) ==
        IF d.outcome # "ok" THEN Failed(p, p.machine, d.outcome)
        ELSE [machine   |-> With(p.machine, u, d.doc),
              revisions |-> With(p.revisions, u, revision),
              facts     |-> PublishFacts(p, u, d.doc, d.patch),
              layouts   |-> With(p.layouts, u, d.doc),
              semantics |-> With(p.semantics, u, PublishSemantics(p, u, d.doc, d.patch)),
              exact     |-> [p.exact EXCEPT ![u] = d.sound /\ (revision.previous # Absent => @)],
              outcome   |-> "ok"]
  IN IF p.outcome # "ok" THEN p ELSE Outcome(DeriveDocument(p.machine, u, revision))

(* Only the components of documents with a new revision run. *)
RunComponent(p, e) == IF e.uri \in DOMAIN e.next THEN RunDocument(p, e.uri, e.next[e.uri]) ELSE p
Components == INSTANCE Iteration WITH Step <- RunComponent

(* A command with the revisions the source fold makes of it, in the order of *)
(* the components of the documents.                                          *)
RunCommand(next) ==
  LET sequence == order \o SetToSeq(DOMAIN next \ Range(order))
      Outcome(p) ==
        /\ machine' = p.machine
        /\ outcome' = p.outcome
        /\ IF p.outcome = "ok"
           THEN /\ revisions' = p.revisions /\ layouts' = p.layouts
                /\ semantics' = p.semantics /\ facts' = p.facts /\ exact' = p.exact
                /\ order' = sequence
           ELSE UNCHANGED <<published, exact>>
  IN Outcome(Components!After([machine |-> machine, revisions |-> revisions, facts |-> facts,
                               layouts |-> layouts, semantics |-> semantics, exact |-> exact,
                               outcome |-> "ok"],
                              [k \in DOMAIN sequence |-> [uri |-> sequence[k], next |-> next]]))

-----------------------------------------------------------------------------
(* Workspace::open.  An open document is replaced over its full range, and   *)
(* equal text is no change; a closed one starts a new lineage.               *)
Open(u, text) ==
  LET known == u \in DOMAIN revisions
      replace == <<[os |-> 0, oe |-> Len(revisions[u].text), ns |-> 0, ne |-> Len(text)]>>
      next == SourceDocument(u, text, IF known THEN replace ELSE <<>>)
  IN /\ commands < MaxCommands
     /\ known => revisions[u].text # text
     /\ RunCommand([v \in {u} |-> next])
     /\ commands' = commands + 1
     /\ opened' = IF outcome' = "ok" THEN opened \union {u} ELSE opened

(* Workspace::edit.  The batch is normalised per document before the command *)
(* starts; documents it leaves as they are take no part.                     *)
Edit(batch) ==
  LET normal  == [u \in DOMAIN batch |-> NormalizeEdits(revisions[u].text, batch[u])]
      targets == {u \in DOMAIN batch : normal[u].splices # <<>>}
      next == [u \in targets |->
                 SourceDocument(u, ApplySplices(revisions[u].text, normal[u].splices),
                                normal[u].splices)]
  IN /\ commands < MaxCommands
     /\ \A u \in DOMAIN batch : u \in DOMAIN revisions /\ normal[u].ok
     /\ targets # {}
     /\ RunCommand(next)
     /\ commands' = commands + Cardinality(targets)
     /\ UNCHANGED opened

(* Workspace::edit rejects the batch before the command starts: a document   *)
(* is not open, an edit is out of bounds, two overlap, or the comparison     *)
(* with the old text panics.  Command ids drawn for other documents of the   *)
(* batch are used by nobody and not counted.                                 *)
RejectEdit(batch) ==
  /\ commands < MaxCommands
  /\ \E u \in DOMAIN batch :
       u \in DOMAIN revisions => ~NormalizeEdits(revisions[u].text, batch[u]).ok
  /\ outcome' = "rejected"
  /\ UNCHANGED <<machine, published, opened, commands, exact>>

(* Workspace::close.  The component of the document is retired without       *)
(* running: what it published goes, the lexer's own document stays.          *)
Close(u) ==
  /\ commands < MaxCommands
  /\ u \in DOMAIN revisions
  /\ facts' = [key \in {k \in DOMAIN facts : k[1] # layouts[u].id} |-> facts[key]]
  /\ revisions' = Without(revisions, u)
  /\ layouts' = Without(layouts, u)
  /\ semantics' = Without(semantics, u)
  /\ \E k \in DOMAIN order : order[k] = u /\ order' = RemoveAt(order, k)
  /\ outcome' = "ok"
  /\ UNCHANGED <<machine, opened, commands, exact>>

Done == commands >= MaxCommands /\ UNCHANGED vars

Current == [u \in Uris |-> IF u \in DOMAIN revisions THEN revisions[u].text ELSE Absent]

Init ==
  /\ machine = <<>> /\ revisions = <<>> /\ layouts = <<>> /\ semantics = <<>> /\ facts = <<>>
  /\ opened = {} /\ order = <<>> /\ commands = 0 /\ outcome = "ok"
  /\ exact = [u \in Uris |-> TRUE]

Next ==
  \/ \E u \in Uris : Close(u) \/ \E text \in Texts : Open(u, text)
  \/ \E batch \in {b \in Batches(Current) : IsBatch(b)} : Edit(batch) \/ RejectEdit(batch)
  \/ Done

Spec == Init /\ [][Next]_vars

-----------------------------------------------------------------------------
(* What the parser makes of a patch. *)

\* Mutant: the suffix starts after the first splice.
ReplayRangeFirstSplice(old, new, patch) ==
  LET RankOf(refs, id) == IF \E k \in DOMAIN refs : refs[k].occurrence = id
                          THEN (CHOOSE k \in DOMAIN refs : refs[k].occurrence = id) - 1
                          ELSE Absent
      After(refs, id)  == IF RankOf(refs, id) = Absent THEN 0 ELSE RankOf(refs, id) + 1
      Before(refs, id) == IF RankOf(refs, id) = Absent THEN Len(refs) + 1 ELSE RankOf(refs, id)
  IN [prefix |-> After(old, Head(patch.splices).before),
      oldEnd |-> Before(old, Head(patch.splices).after),
      newEnd |-> Before(new, Head(patch.splices).after)]

(* ReplayPlan::from_token_patch for a document parsed before: the ranges of  *)
(* the old and the new tape taken to differ.  The synthetic EOF behind each  *)
(* tape counts, so an end behind the last token means that no suffix is kept. *)
ReplayRange(old, new, patch) ==
  LET RankOf(refs, id) == IF \E k \in DOMAIN refs : refs[k].occurrence = id
                          THEN (CHOOSE k \in DOMAIN refs : refs[k].occurrence = id) - 1
                          ELSE Absent
      After(refs, id)  == IF RankOf(refs, id) = Absent THEN 0 ELSE RankOf(refs, id) + 1
      Before(refs, id) == IF RankOf(refs, id) = Absent THEN Len(refs) + 1 ELSE RankOf(refs, id)
  IN [prefix |-> After(old, Head(patch.splices).before),
      oldEnd |-> Before(old, Last(patch.splices).after),
      newEnd |-> Before(new, Last(patch.splices).after)]

-----------------------------------------------------------------------------
(* Properties *)

MatchesFreshLex(doc) ==
  LET Same(fresh) == /\ Len(fresh) = Len(doc.lexical)
                     /\ \A k \in DOMAIN fresh : SameSegment(fresh[k], doc.lexical[k])
  IN Same(FreshLex(doc.text).out)

\* Stopping a replay where offset, token boundary and whole lexer state (mode
\* stack and slots) agree with the old tape gives the tokens a lex of the whole
\* text gives, after any sequence of edits, of which each batch may hold several
\* splices, provided every replay so far was sound: the tokens before its
\* restart are tokens of the new text, and it did not reach the end of a tape
\* that ends in the error of an unclosed scope.
RelexExact == \A u \in DOMAIN layouts : exact[u] => MatchesFreshLex(layouts[u])

\* The tokens of an open document are those of a fresh lex of its text: "Textual
\* token values and errors must match the fresh oracle" (tests/json_heavy.rs).
IncrementalMatchesFresh == \A u \in DOMAIN layouts : MatchesFreshLex(layouts[u])

\* The widths on the lexical tape add up to the text of the source revision, the
\* semantic tape (spliced on its own, at ranks taken from the lexical one) is the
\* projection of the lexical tape, and no occurrence is on the tape twice.
TapesAgree ==
  \A u \in DOMAIN layouts :
    LET doc == layouts[u]
    IN /\ doc.text = revisions[u].text
       /\ LexicalStart(doc.lexical, Len(doc.lexical)) = Len(doc.text)
       /\ doc.semantic = Semantic(doc.lexical)
       /\ \A j, k \in DOMAIN doc.lexical : doc.lexical[j].id = doc.lexical[k].id => j = k

\* TokenFacts, which lex_document maintains by patches alone, holds exactly one
\* fact for every semantic token of every open document, with its current
\* content; a closed and reopened document leaves none behind.  The parser sees
\* the current semantic tape although an equal revision of the semantic document
\* is not published again: the semantic revision advances whenever the tape does.
FactsMatchTokens ==
  /\ DOMAIN facts = UNION {{<<layouts[u].id, t.occurrence>> : t \in Range(layouts[u].semantic)} :
                             u \in DOMAIN layouts}
  /\ \A u \in DOMAIN layouts :
       /\ \A t \in Range(layouts[u].lexical) :
            IsSemantic(t) => facts[<<layouts[u].id, t.id>>] = TokenFact(t)
       /\ semantics[u].doc.semantic = layouts[u].semantic

\* The document the lexer keeps for itself is the one it last published, also
\* after commands that failed, as long as a command concerns one document.
MachineCurrent == \A u \in DOMAIN layouts : u \in DOMAIN machine /\ machine[u] = layouts[u]

\* No command is refused for a stale revision: "A subsequent valid edit still
\* works: the engine is not wedged" (tests/phase0_instrumentation.rs).
NeverStale == outcome # "stale"

\* Sequences one after the other.
AddPart(whole, part) == whole \o part
Parts == INSTANCE Iteration WITH Step <- AddPart

\* What the edits insert at an offset, in the caller's order, and what they keep there.
Inserted(edits, at) ==
  Parts!After(<<>>, [k \in DOMAIN edits |->
    IF edits[k].kind = "insert" /\ edits[k].start = at THEN edits[k].text ELSE <<>>])

Deletes(e, at) == e.kind = "delete" /\ at \in e.start..(e.end - 1)

Kept(text, edits, at) ==
  IF at < Len(text) /\ ~(\E k \in DOMAIN edits : Deletes(edits[k], at)) THEN <<text[at + 1]>> ELSE <<>>

\* The text a batch of edits describes, by the edits alone.
Described(text, edits) ==
  Parts!After(<<>>, [k \in 1..(Len(text) + 1) |-> Inserted(edits, k - 1) \o Kept(text, edits, k - 1)])

\* No replacement of equal size lies behind a character of several bytes.
Comparable(text, edits) ==
  \A k \in DOMAIN Replacements(edits) :
    LET r == Replacements(edits)[k]
    IN SameSize(r) => Range(SubSeq(text, 1, r.oe)) \intersect Continuation = {}

Applied(text, edits) ==
  LET n == NormalizeEdits(text, edits)
  IN n.ok => ApplySplices(text, n.splices) = Described(text, edits)

\* A normalised batch has the effect its edits describe against the text they
\* were made for: every character is kept unless some edit deletes it, and the
\* insertions at one place come in the caller's order before what they precede
\* (normalize_edits, apply_splices).  A replacement of equal size behind a
\* character of several bytes is compared with the wrong text; see EditsApplied.
BatchApplied ==
  \A batch \in {b \in Batches(Current) : IsBatch(b)} : \A u \in DOMAIN batch :
    u \in DOMAIN revisions /\ Comparable(revisions[u].text, batch[u]) =>
      Applied(revisions[u].text, batch[u])

\* The same of every batch: "no-op batches yield no splices" (source.rs:337),
\* and no other batch loses one.
EditsApplied ==
  \A batch \in {b \in Batches(Current) : IsBatch(b)} : \A u \in DOMAIN batch :
    u \in DOMAIN revisions => Applied(revisions[u].text, batch[u])

Republished(u) ==
  /\ u \in DOMAIN semantics /\ u \in DOMAIN semantics'
  /\ semantics'[u] # semantics[u] /\ semantics'[u].id = semantics[u].id

\* The tapes agree outside the ranges ReplayPlan takes to differ.
AgreeOutside(r, old, new) ==
  /\ SubSeq(old, 1, r.prefix) = SubSeq(new, 1, r.prefix)
  /\ r.oldEnd <= Len(old) =>
       /\ r.prefix <= r.oldEnd /\ r.prefix <= r.newEnd
       /\ SubSeq(old, r.oldEnd + 1, Len(old)) = SubSeq(new, r.newEnd + 1, Len(new))

Covered(before, after) ==
  AgreeOutside(ReplayRange(before.doc.semantic, after.doc.semantic, after.patch),
               before.doc.semantic, after.doc.semantic)

\* The ranges ReplayPlan derives from the anchors of the first and the last
\* splice of a patch cover every difference between the tape the parser saw and
\* the new one, also when a splice is anchored at a token that an earlier splice
\* of the same command inserted or a later one removes, provided no splice of the
\* command changes the tape in front of where an earlier one began to change it.
ReplaySound ==
  [][\A u \in Uris : Republished(u) =>
       /\ semantics'[u].patch.splices # <<>>
       /\ semantics'[u].patch.ordered => Covered(semantics[u], semantics'[u])]_vars

\* The same of every command: "Source normalization keeps unrelated splice windows
\* disjoint" (lex/incremental.rs:40).
ReplayCovers ==
  [][\A u \in Uris : Republished(u) => Covered(semantics[u], semantics'[u])]_vars

\* Within a lineage an occurrence keeps its identity only as a token of the same
\* terminal, occurrences that stay keep their order, and an identity that left
\* the tape never comes back.
IdentityStable ==
  [][\A u \in Uris :
       /\ u \in DOMAIN layouts /\ u \in DOMAIN layouts'
       /\ layouts'[u].id = layouts[u].id
       => LET old == layouts[u].lexical
              new == layouts'[u].lexical
              Places == {p \in (1..Len(old)) \X (1..Len(new)) : old[p[1]].id = new[p[2]].id}
          IN /\ \A p \in Places : /\ old[p[1]].terminal = new[p[2]].terminal
                                  /\ IsSemantic(old[p[1]]) = IsSemantic(new[p[2]])
             /\ \A p, q \in Places : p[1] < q[1] => p[2] < q[2]
             /\ \A t \in Range(new) : t.id >= layouts[u].next \/ \E s \in Range(old) : s.id = t.id]_vars

\* The coordinate map of a revision sends every old offset outside the replaced
\* ranges to the place of the same character in the new text, and no other.
CoordinatesExact ==
  [][\A u \in Uris :
       /\ u \in DOMAIN revisions /\ u \in DOMAIN revisions'
       /\ revisions'[u].previous = revisions[u].id
       => LET old == revisions[u].text
              new == revisions'[u].text
              splices == revisions'[u].splices
              To(at) == MapOldToNew(Islands(Len(old), splices), at)
          IN \A at \in 0..(Len(old) - 1) :
               IF \E k \in DOMAIN splices : at \in splices[k].os..(splices[k].oe - 1)
               THEN To(at) = -1
               ELSE To(at) \in 0..(Len(new) - 1) /\ new[To(at) + 1] = old[at + 1]]_vars
=============================================================================
