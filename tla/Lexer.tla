-------------------------------- MODULE Lexer --------------------------------
(***************************************************************************)
(* The incremental lexer of framework/lex: scanning (scan.rs), replay of    *)
(* one splice over a lexed document (incremental.rs) and derivation of a    *)
(* document from a source revision (state.rs).                              *)
(*                                                                          *)
(* Text is a sequence of bytes and offsets count from 0, as in the code.    *)
(* The lexer definition is a parameter: the rules of a mode and what their  *)
(* regular expressions, guards and hooks do.  The stable tapes are          *)
(* sequences; the layout tape is the lexical tape without values and is     *)
(* spliced at the same ranks, so it is left out.                            *)
(***************************************************************************)
EXTENDS Integers, FiniteSets, SequencesExt

CONSTANTS
  Absent,              \* None: no terminal, no error, no rank, no anchor, no document
  Root,                \* the root mode
  NoSlots,             \* the slots of a mode just entered
  Rules(_),            \* the rules of a mode, in order of declaration
  MatchLengths(_, _, _), \* rule, stack, rest of the text: where its DFA and guard accept
  EmptyWhen(_, _, _),  \* rule, stack, moment: the guard of an empty rule
  RecoverChars(_, _, _), \* rule, rest, slots: the bytes recover_when skips
  Hook(_, _, _, _),    \* rule, lexeme, new stack, old stack: slots after the with-hook
  Builds(_, _),        \* rule, lexeme: the token value can be built
  MaxTurns,            \* bound on the turns of the scanning loop
  ErrorValue(_)        \* the value of an error token, from its LexErrorInfo

ASSUME LexerAssumption ==
  MaxTurns \in Nat /\ Absent \notin Int /\ Absent \notin {"unexpected", "boundary"}

(***************************************************************************)
(* Lexer states and lexical occurrences.                                    *)
(***************************************************************************)
InitialStack == <<[mode |-> Root, slots |-> NoSlots]>>

Top(stack) == stack[Len(stack)]

Lexeme(text, start, end) == SubSeq(text, start + 1, end)

IsSemantic(t) == t.error # Absent \/ (~t.skip /\ t.terminal # Absent)

ParseTokenRef(t) == [occurrence |-> t.id, terminal |-> t.terminal, error |-> t.error # Absent]

Payload(t) == [width |-> t.width, value |-> t.value, error |-> t.error,
               terminal |-> t.terminal, skip |-> t.skip]

Segment(t) == <<Payload(t), t.stack>>

SameSegment(a, b) == Segment(a) = Segment(b)

\* Mutant: the terminal is forgotten.
StructuralEqAnyTerminal(a, b) == a.skip = b.skip /\ (a.error # Absent) = (b.error # Absent)

StructuralEq(a, b) ==
  /\ a.terminal = b.terminal
  /\ a.skip = b.skip
  /\ (a.error # Absent) = (b.error # Absent)

(* The semantic tape of a lexical one: a reference for every semantic entry. *)
AddRef(refs, t) == IF IsSemantic(t) THEN Append(refs, ParseTokenRef(t)) ELSE refs
Refs == INSTANCE Iteration WITH Step <- AddRef
Semantic(tape) == Refs!After(<<>>, tape)

(* Where the entry after the first rank entries starts. *)
AddWidth(sum, t) == sum + t.width
Widths == INSTANCE Iteration WITH Step <- AddWidth
LexicalStart(tape, rank) == Widths!States(0, tape)[rank]

(* The number of entries that end at or before an offset. *)
LexicalRankAtByte(tape, offset) ==
  Cardinality({r \in 1..Len(tape) : LexicalStart(tape, r) <= offset})

StackBeforeRank(tape, rank) == IF rank = 0 THEN InitialStack ELSE tape[rank].stack

(***************************************************************************)
(* Choosing a token.                                                        *)
(***************************************************************************)
ActionRank(rule) == CASE rule.action = "exit" -> 0 [] rule.action = "enter" -> 1 [] OTHER -> 2

Best(candidates) ==
  CHOOSE c \in candidates : \A d \in candidates :
    \/ ActionRank(c.rule) < ActionRank(d.rule)
    \/ /\ ActionRank(c.rule) = ActionRank(d.rule)
       /\ c.end > d.end \/ (c.end = d.end /\ c.index <= d.index)

(* collect_raw_match_ends: a match ends in the text, not before it starts. *)
MatchEnds(rule, stack, text, offset) ==
  {e \in offset..Len(text) : e - offset \in MatchLengths(rule, stack, Lexeme(text, offset, Len(text)))}

(* recover_match_end: as long as the rule matches again behind what it skips. *)
Recover(end, m) ==
  LET chars  == RecoverChars(m.rule, Lexeme(m.text, end, Len(m.text)), Top(m.stack).slots)
      resume == IF chars \in 0..(Len(m.text) - end) THEN end + chars ELSE Len(m.text)
      ends   == MatchEnds(m.rule, m.stack, m.text, resume)
  IN IF resume = end \/ \A e \in ends : e <= resume
     THEN end
     ELSE CHOOSE e \in ends : \A f \in ends : f <= e
Recoveries == INSTANCE Iteration WITH Step <- Recover

\* Every recovery moves the end on, so Len(text) of them are enough.
RecoverMatchEnd(rule, stack, text, end) ==
  Recoveries!After(end, [k \in 1..Len(text) |-> [rule |-> rule, stack |-> stack, text |-> text]])

Barred(rule, stack) == rule.action = "exit" /\ Top(stack).mode = Root

ScanEmptyState(rules, s, moment) ==
  {[rule |-> rules[i], index |-> i, end |-> s.offset] :
     i \in {j \in 1..Len(rules) : /\ rules[j].empty
                                   /\ EmptyWhen(rules[j], s.stack, moment)
                                   /\ ~Barred(rules[j], s.stack)}}

ScanRegexState(rules, s, text) ==
  UNION {{[rule |-> rules[i], index |-> i, end |-> RecoverMatchEnd(rules[i], s.stack, text, e)] :
            e \in MatchEnds(rules[i], s.stack, text, s.offset)} :
           i \in {j \in 1..Len(rules) : ~rules[j].empty}}

(* The best of the candidates, "none", or "fail": a value cannot be built.   *)
Choice(built, candidates, s, text) ==
  IF \E c \in built : ~Builds(c.rule, Lexeme(text, s.offset, c.end)) THEN [kind |-> "fail"]
  ELSE IF candidates = {} THEN [kind |-> "none"]
  ELSE [kind |-> "match", step |-> Best(candidates)]

(* Empty rules come first.  Exits are no candidates in the root mode; the    *)
(* value of a regex candidate is built before that is found out.             *)
SelectStep(s, text, moment) ==
  LET rules   == Rules(Top(s.stack).mode)
      empties == ScanEmptyState(rules, s, moment)
      Regex(matches) == Choice(matches, {m \in matches : ~Barred(m.rule, s.stack)}, s, text)
  IN IF empties # {} \/ moment = "eof" THEN Choice(empties, empties, s, text)
     ELSE Regex(ScanRegexState(rules, s, text))

(* The lexer state after a token: the scope action, then the with-hook on    *)
(* the slots of the mode it leads to.                                        *)
ApplyMatch(s, step, text) ==
  LET rule  == step.rule
      stack == CASE rule.action = "enter" ->
                      Append(s.stack, [mode |-> rule.next, slots |-> NoSlots])
                 [] rule.action = "exit" -> Front(s.stack)
                 [] OTHER -> s.stack
  IN [offset |-> step.end,
      stack  |-> [stack EXCEPT ![Len(stack)] =
                    [mode  |-> Top(stack).mode,
                     slots |-> Hook(rule, Lexeme(text, s.offset, step.end), stack, s.stack)]]]

(***************************************************************************)
(* Scanning until the replay converges: lex_cont.  A scan L has a lexer     *)
(* state, the start of the pending unexpected input, the states seen since  *)
(* input was last consumed and the tokens emitted.  w is the window being   *)
(* replayed: the old tape, where the change ends in the old and in the new  *)
(* text, and by how much it shifts what follows.                            *)
(***************************************************************************)
\* Mutant: the lexer state is not compared.
ConvergedRankAnyState(w, s) ==
  LET old  == s.offset - w.shift
      rank == LexicalRankAtByte(w.tape, old)
  IN IF s.offset >= w.newEnd /\ old >= w.oldEnd /\ LexicalStart(w.tape, rank) = old
     THEN rank ELSE Absent

\* Mutant: the old offset is the new one.
ConvergedRankUnshifted(w, s) ==
  LET rank == LexicalRankAtByte(w.tape, s.offset)
  IN IF /\ s.offset >= w.newEnd /\ s.offset >= w.oldEnd
        /\ LexicalStart(w.tape, rank) = s.offset
        /\ StackBeforeRank(w.tape, rank) = s.stack
     THEN rank ELSE Absent

ConvergedRank(w, s) ==
  LET old  == s.offset - w.shift
      rank == LexicalRankAtByte(w.tape, old)
  IN IF /\ s.offset >= w.newEnd
        /\ old >= w.oldEnd
        /\ LexicalStart(w.tape, rank) = old
        /\ StackBeforeRank(w.tape, rank) = s.stack
     THEN rank ELSE Absent

Scan(s, unexpected, seen, out, rank, phase) ==
  [s |-> s, unexpected |-> unexpected, seen |-> seen, out |-> out, rank |-> rank, phase |-> phase]

InPhase(L, phase) == Scan(L.s, L.unexpected, L.seen, L.out, L.rank, phase)

(* The callback of relex_splice: keep the token, stop where the old tape     *)
(* continues in the same state.                                              *)
Emit(L, w, s, token) ==
  LET rank == ConvergedRank(w, s)
  IN Scan(s, L.unexpected, L.seen, Append(L.out, token), rank,
          IF rank = Absent THEN L.phase ELSE "stopped")

ErrorToken(kind, start, s) ==
  [width |-> s.offset - start, terminal |-> Absent, skip |-> FALSE, error |-> kind,
   stack |-> s.stack,
   value |-> ErrorValue([kind |-> kind, start |-> start, end |-> s.offset])]

FlushUnexpected(L, w) ==
  LET E == Emit(L, w, L.s, ErrorToken("unexpected", L.unexpected, L.s))
  IN Scan(E.s, Absent, E.seen, E.out, E.rank, E.phase)

MatchedToken(L, text, step, s) ==
  [width |-> step.end - L.s.offset, terminal |-> step.rule.terminal,
   skip |-> step.rule.skip, error |-> Absent, stack |-> s.stack,
   value |-> Lexeme(text, L.s.offset, step.end)]

(* commit_match, to the lexer state s; then the callback, then the test for  *)
(* a cycle of empty tokens.                                                  *)
CommitMatch(L, w, text, step, s) ==
  LET empty == step.end = L.s.offset
      Seen(E) == Scan(E.s, E.unexpected, IF empty THEN E.seen \union {s} ELSE {s}, E.out, E.rank,
                      IF E.phase # "stopped" /\ empty /\ s \in L.seen THEN "fail" ELSE E.phase)
  IN IF empty /\ s = L.s THEN InPhase(L, "fail")
     ELSE Seen(Emit(L, w, s, MatchedToken(L, text, step, s)))

(* One turn of a loop of lex_cont with the step it chose. *)
Advance(L, w, text, chosen) ==
  CASE chosen.kind = "fail" -> InPhase(L, "fail")
    [] chosen.kind = "none" /\ L.phase = "scan" ->
         LET s == [offset |-> L.s.offset + 1, stack |-> L.s.stack]
         IN Scan(s, IF L.unexpected = Absent THEN L.s.offset ELSE L.unexpected, {s},
                 L.out, L.rank, L.phase)
    [] chosen.kind = "none" /\ L.phase = "eof" ->
         InPhase(IF Len(L.s.stack) > 1 THEN Emit(L, w, L.s, ErrorToken("boundary", L.s.offset, L.s))
                 ELSE L, "stopped")
    [] chosen.kind = "match" /\ L.unexpected # Absent -> FlushUnexpected(L, w)
    [] OTHER -> CommitMatch(L, w, text, chosen.step, ApplyMatch(L.s, chosen.step, text))

LexStep(L, w, text) ==
  CASE L.phase = "eof" -> Advance(L, w, text, SelectStep(L.s, text, "eof"))
    [] L.phase = "scan" /\ L.s.offset < Len(text) ->
         Advance(L, w, text, SelectStep(L.s, text, "normal"))
    [] L.phase = "scan" /\ L.s.offset = Len(text) /\ L.unexpected # Absent ->
         LET F == FlushUnexpected(L, w) IN IF F.phase = "stopped" THEN F ELSE InPhase(F, "eof")
    [] OTHER -> InPhase(L, "eof")

Turn(L, e) == IF L.phase \in {"stopped", "fail"} THEN L ELSE LexStep(L, e.w, e.text)
Turns == INSTANCE Iteration WITH Step <- Turn

LexCont(w, start, text) ==
  Turns!After(Scan(start, Absent, {start}, <<>>, Absent, "scan"),
              [k \in 1..MaxTurns |-> [w |-> w, text |-> text]])

(***************************************************************************)
(* Replaying one splice: relex_splice.  A document is a LexicalDocument;    *)
(* splice has the old range [os, oe) and the new range [ns, ne).            *)
(***************************************************************************)
EmptyDocument(id) ==
  [id |-> id, source |-> 0, text |-> <<>>, lexical |-> <<>>, semantic |-> <<>>, next |-> 0,
   layout |-> 0, semantics |-> 0, values |-> 0, structure |-> 0]

(* The tokens scanned for a splice, the rank where scanning starts and the   *)
(* rank where the old tape takes over, or the failure of the scan.           *)
Replay(doc, text, splice) ==
  LET tape    == doc.lexical
      restart == LexicalRankAtByte(tape, splice.os)
      w       == [tape |-> tape, oldEnd |-> splice.oe, newEnd |-> splice.ne,
                  shift |-> Len(text) - Len(doc.text)]
      start   == [offset |-> LexicalStart(tape, restart), stack |-> StackBeforeRank(tape, restart)]
      Outcome(L) ==
        LET final == IF L.rank # Absent THEN L.rank ELSE ConvergedRank(w, L.s)
        IN [ok |-> L.phase = "stopped", out |-> L.out, restart |-> restart,
            suffix |-> IF final = Absent THEN Len(tape) ELSE final]
  IN Outcome(LexCont(w, start, text))

(* A text lexed from scratch. *)
FreshLex(text) == Replay(EmptyDocument(Absent), text,
                         [os |-> 0, oe |-> 0, ns |-> 0, ne |-> Len(text)])

(* Whether the new text can be lexed afresh, the tokens before the restart    *)
(* are also those of that lex, and the replay did not stop behind the error   *)
(* of an unclosed scope.                                                      *)
(* The code does not ask this; it says when the result of a replay can be     *)
(* relied on.                                                                 *)
SoundReplay(doc, fresh, r) ==
  /\ fresh.ok /\ r.restart <= Len(fresh.out)
  /\ \A k \in 1..r.restart : SameSegment(doc.lexical[k], fresh.out[k])
  /\ r.suffix = Len(doc.lexical) /\ doc.lexical # <<>> =>
       Last(doc.lexical).error # "boundary"

(* The lengths of the longest common prefix and of the longest common suffix *)
(* behind it.                                                                *)
CommonPrefix(a, b) ==
  CHOOSE n \in 0..Len(a) :
    /\ n <= Len(b)
    /\ \A k \in 1..n : a[k] = b[k]
    /\ n < Len(a) /\ n < Len(b) => a[n + 1] # b[n + 1]

CommonSuffix(a, b, prefix) ==
  CHOOSE n \in 0..(Len(a) - prefix) :
    /\ n <= Len(b) - prefix
    /\ \A k \in 0..(n - 1) : a[Len(a) - k] = b[Len(b) - k]
    /\ n < Len(a) - prefix /\ n < Len(b) - prefix => a[Len(a) - n] # b[Len(b) - n]

Segments(tokens) == [k \in DOMAIN tokens |-> Segment(tokens[k])]

Identified(t, id) ==
  [id |-> id, width |-> t.width, value |-> t.value, error |-> t.error,
   terminal |-> t.terminal, skip |-> t.skip, stack |-> t.stack]

(* The new entries, of which those in kept have the identity of an old entry *)
(* and the others one of their own.                                          *)
Numbered(old, new, next, kept, partner) ==
  [tokens |-> [k \in 1..Len(new) |->
                 Identified(new[k], IF k \in kept THEN old[partner[k]].id
                                    ELSE next + Cardinality(1..(k - 1) \ kept))],
   next   |-> next + Len(new) - Cardinality(kept)]

(* The identity of an old entry is kept by the entries that are equal at     *)
(* both ends of the window, p and q of them, and by the middle if only its   *)
(* values changed.                                                           *)
KeepEnds(old, new, next, p, q) ==
  LET n     == Len(new)
      shape == Len(old) = n /\ \A k \in (p + 1)..(n - q) : StructuralEq(old[k], new[k])
      kept  == IF shape THEN 1..n ELSE 1..p \union (n - q + 1)..n
  IN Numbered(old, new, next, kept, [k \in kept |-> IF k <= p \/ shape THEN k ELSE k - n + Len(old)])

ReconcileOccurrenceIds(old, new, next) ==
  LET Ends(a, b, p) == KeepEnds(old, new, next, p, CommonSuffix(a, b, p))
  IN Ends(Segments(old), Segments(new), CommonPrefix(Segments(old), Segments(new)))

(* direct_patch: what happens to the semantic tape and to the token facts,   *)
(* from the old and the new entries of the window [start, end) of doc, whose *)
(* references agree but for those between the first p and the last q.  at is *)
(* history: up to where the semantic tape stays as it was.                   *)
Occurrences(refs) == {refs[k].occurrence : k \in DOMAIN refs}

PatchBetween(doc, old, new, oldRefs, newRefs, start, end, p, q) ==
  LET oldMid == SubSeq(oldRefs, p + 1, Len(oldRefs) - q)
      newMid == SubSeq(newRefs, p + 1, Len(newRefs) - q)
      At(rank)  == IF rank + 1 \in DOMAIN doc.semantic
                   THEN doc.semantic[rank + 1].occurrence ELSE Absent
  IN [at       |-> start + p,
      splices  |-> IF oldMid = <<>> /\ newMid = <<>> THEN <<>>
                   ELSE <<[before   |-> At(start + p - 1),
                           removed  |-> [k \in DOMAIN oldMid |-> oldMid[k].occurrence],
                           inserted |-> [k \in DOMAIN newMid |-> newMid[k].occurrence],
                           after    |-> At(end - q)]>>,
      inserted |-> Occurrences(newMid) \ Occurrences(oldRefs),
      removed  |-> Occurrences(oldMid) \ Occurrences(newRefs),
      updated  |-> {new[k].id : k \in {j \in DOMAIN new :
                      /\ IsSemantic(new[j])
                      /\ \E i \in DOMAIN old : /\ old[i].id = new[j].id
                                               /\ Payload(old[i]) # Payload(new[j])}}]

DirectPatch(doc, old, new, start, end) ==
  LET Ends(a, b, p) == PatchBetween(doc, old, new, a, b, start, end, p, CommonSuffix(a, b, p))
      Middle(a, b) == Ends(a, b, CommonPrefix(a, b))
  IN Middle(Semantic(old), Semantic(new))

ReplaceRange(tape, from, to, new) == SubSeq(tape, 1, from) \o new \o SubSeq(tape, to + 1, Len(tape))

(* The document after a splice and the patch of the splice: r is the replay, *)
(* [from, to) its window on the semantic tape.                               *)
Shape(tokens) ==
  LET refs == Semantic(tokens) IN [k \in DOMAIN refs |-> <<refs[k].terminal, refs[k].error>>]

SplicedDocument(doc, text, r, ids, patch, from, to) ==
  [id |-> doc.id, source |-> doc.source, text |-> text, next |-> ids.next,
   lexical   |-> ReplaceRange(doc.lexical, r.restart, r.suffix, ids.tokens),
   semantic  |-> ReplaceRange(doc.semantic, from, to, Semantic(ids.tokens)),
   layout    |-> doc.layout + 1,
   semantics |-> doc.semantics,
   values    |-> IF patch.updated = {} THEN doc.values ELSE doc.values + 1,
   structure |-> IF Shape(SubSeq(doc.lexical, r.restart + 1, r.suffix)) = Shape(ids.tokens)
                 THEN doc.structure ELSE doc.structure + 1]

RelexSplice(doc, text, splice) ==
  LET Window(r) == SubSeq(doc.lexical, r.restart + 1, r.suffix)
      SemanticRank(rank) == Len(Semantic(SubSeq(doc.lexical, 1, rank)))
      Splice(r, ids, patch, from, to) ==
        [ok |-> TRUE, patch |-> patch, sound |-> SoundReplay(doc, FreshLex(text), r),
         doc |-> SplicedDocument(doc, text, r, ids, patch, from, to)]
      Patch(r, ids, from, to) ==
        Splice(r, ids, DirectPatch(doc, Window(r), ids.tokens, from, to), from, to)
      Outcome(r) ==
        IF ~r.ok THEN [ok |-> FALSE]
        ELSE Patch(r, ReconcileOccurrenceIds(Window(r), r.out, doc.next),
                   SemanticRank(r.restart), SemanticRank(r.suffix))
  IN Outcome(Replay(doc, text, splice))

(***************************************************************************)
(* PatchBuilder: the patches of the splices of one revision.  at (where the *)
(* last of them begins to change the semantic tape) and ordered (none began *)
(* before the one it follows) are history; the code keeps neither.          *)
(***************************************************************************)
NewPatch(structure) ==
  [old |-> structure, new |-> structure, at |-> 0, ordered |-> TRUE, splices |-> <<>>,
   inserted |-> {}, updated |-> {}, removed |-> {}]

(* A splice that is adjacent to the last one joins it. *)
AddSplice(splices, splice) ==
  IF splices # <<>> /\ Last(splices).after = splice.before
  THEN Append(Front(splices),
              [before   |-> Last(splices).before,
               removed  |-> Last(splices).removed \o splice.removed,
               inserted |-> Last(splices).inserted \o splice.inserted,
               after    |-> splice.after])
  ELSE Append(splices, splice)

\* A local patch has one splice at most.
Absorb(patch, local) ==
  [old |-> patch.old, new |-> patch.new,
   at       |-> IF local.splices = <<>> THEN patch.at ELSE local.at,
   ordered  |-> patch.ordered /\ (local.splices # <<>> => patch.at <= local.at),
   splices  |-> IF local.splices = <<>> THEN patch.splices
                ELSE AddSplice(patch.splices, local.splices[1]),
   inserted |-> patch.inserted \union local.inserted,
   updated  |-> patch.updated \union local.updated,
   removed  |-> patch.removed \union local.removed]

Freeze(patch, structure) ==
  [old |-> patch.old, new |-> structure, splices |-> patch.splices, ordered |-> patch.ordered,
   inserted |-> patch.inserted \ patch.removed,
   removed  |-> patch.removed \ patch.inserted,
   updated  |-> patch.updated \ ((patch.inserted \ patch.removed)
                                   \union (patch.removed \ patch.inserted))]

StructureUnchanged(patch) ==
  patch.splices = <<>> /\ patch.inserted = {} /\ patch.removed = {} /\ patch.old = patch.new

(***************************************************************************)
(* derive_document: the document of a source revision of u, from those the  *)
(* lexer keeps (latest), or why there is none.                              *)
(***************************************************************************)
ValidateSourceDelta(old, new, splices) ==
  /\ \A k \in DOMAIN splices :
       /\ splices[k].oe \in 0..Len(old) /\ splices[k].os \in 0..splices[k].oe
       /\ splices[k].ne \in 0..Len(new) /\ splices[k].ns \in 0..splices[k].ne
       /\ splices[k].os >= IF k = 1 THEN 0 ELSE splices[k - 1].oe
       /\ splices[k].ns >= IF k = 1 THEN 0 ELSE splices[k - 1].ne
  /\ Len(new) = FoldLeft(LAMBDA n, s : n - (s.oe - s.os) + (s.ne - s.ns), Len(old), splices)

(* One splice of a revision, in the coordinates of the text so far. *)
DeriveSplice(d, e) ==
  LET splice   == e.splice
      inserted == Lexeme(e.source, splice.ns, splice.ne)
      start    == splice.os + d.shift
      evolving == [os |-> start, oe |-> splice.oe + d.shift,
                   ns |-> start, ne |-> start + Len(inserted)]
      Outcome(r) ==
        IF ~r.ok THEN [ok |-> FALSE]
        ELSE [ok |-> TRUE, sound |-> d.sound /\ r.sound, doc |-> r.doc,
              patch |-> Absorb(d.patch, r.patch),
              shift |-> d.shift + Len(inserted) - (splice.oe - splice.os)]
  IN IF ~d.ok THEN d
     ELSE Outcome(RelexSplice(d.doc, ReplaceRange(d.doc.text, evolving.os, evolving.oe, inserted),
                              evolving))
Derivation == INSTANCE Iteration WITH Step <- DeriveSplice

(* The document at the revision, with a new semantic revision if its         *)
(* structure changed.                                                        *)
Finished(doc, revision, patch) ==
  [id |-> doc.id, source |-> revision.id, text |-> doc.text, next |-> doc.next,
   lexical |-> doc.lexical, semantic |-> doc.semantic, layout |-> doc.layout,
   semantics |-> IF StructureUnchanged(patch) THEN doc.semantics ELSE doc.semantics + 1,
   values |-> doc.values, structure |-> doc.structure]

DeriveDocument(latest, u, revision) ==
  LET fresh    == revision.previous = Absent
      stale    == ~fresh /\ (\/ u \notin DOMAIN latest
                             \/ latest[u].id # revision.document
                             \/ latest[u].source # revision.previous)
      previous == IF fresh THEN EmptyDocument(revision.document) ELSE latest[u]
      splices  == IF fresh
                  THEN <<[os |-> 0, oe |-> 0, ns |-> 0, ne |-> Len(revision.text)]>>
                  ELSE revision.splices
      Finish(d, patch) ==
        [outcome |-> "ok", patch |-> patch, sound |-> d.sound, doc |-> Finished(d.doc, revision, patch)]
      Outcome(d) == IF d.ok THEN Finish(d, Freeze(d.patch, d.doc.structure))
                    ELSE [outcome |-> "failed"]
  IN IF stale THEN [outcome |-> "stale"]
     ELSE IF ~ValidateSourceDelta(previous.text, revision.text, splices)
     THEN [outcome |-> "failed"]
     ELSE Outcome(Derivation!After([ok |-> TRUE, sound |-> TRUE, doc |-> previous,
                                    patch |-> NewPatch(previous.structure), shift |-> 0],
                                   [k \in DOMAIN splices |->
                                      [splice |-> splices[k], source |-> revision.text]]))
=============================================================================
