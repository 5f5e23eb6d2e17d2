------------------------- MODULE ProposalApplication -------------------------
(***************************************************************************)
(* A proposal of operations on the concepts is validated once, against the *)
(* reviewed sources (proposals.ts), put into the order of its operation    *)
(* identities, and applied twice by code that knows nothing of the other:  *)
(* the pipeline applies it to the compiled concepts and builds the         *)
(* candidate that is measured (applyProposal of buildCandidate.ts), the    *)
(* workbench edits the YAML files, file by file, and admits them           *)
(* (structuredYaml.ts, operationDiffs of admission.ts).  What was measured *)
(* must be what is admitted, whatever the identities are.                  *)
(*                                                                         *)
(* Phrases and places in scripture stand for their canonical identities; a *)
(* concept holds each once, as the compiler of the ontology demands.       *)
(***************************************************************************)
EXTENDS Naturals, FiniteSets

CONSTANTS
  Concepts,  \* the identities of the concepts of the sources
  Drafts,    \* identities no concept has
  Phrases, Places, Weights,
  Owners,    \* who anchors come from, "editorial" among them
  Ontologies, \* the sources, functions on Concepts
  Absent,    \* no concept
  MaxOps     \* bound on the operations of a proposal

ASSUME ProposalAssumption == Concepts \cap Drafts = {} /\ "editorial" \in Owners

VARIABLES
  base,       \* the reviewed sources
  ops,        \* the operations declared so far
  todo,       \* those not yet applied, once the proposal is submitted
  submitted,
  made,       \* the concepts of the candidate
  yaml,       \* the concepts of the files
  refused     \* who refused an operation

propVars == <<base, ops, todo, submitted, made, yaml, refused>>

Anchor(at, weight) == [at |-> at, weight |-> weight, from |-> {"editorial"}]
Concept == [lexicon : SUBSET Phrases, anchors : SUBSET [at : Places, weight : Weights, from : SUBSET Owners],
            related : SUBSET (Concepts \cup Drafts)]

\* ontologyImporter.ts refuses a concept that holds a place twice.
ASSUME OntologyAssumption ==
  /\ Absent \notin Concept
  /\ \A s \in Ontologies : /\ s \in [Concepts -> Concept]
                           /\ \A c \in Concepts : \A a, b \in s[c].anchors : a.at = b.at => a = b

\* The operations a proposal may hold (parseOperation).
PhraseOps == [type : {"phrase-add", "phrase-remove"}, on : Concepts, phrase : Phrases]
AnchorOps == [type : {"anchor-add"}, on : Concepts, at : Places, weight : Weights]
             \cup [type : {"anchor-remove"}, on : Concepts, at : Places]
             \cup [type : {"anchor-adjust"}, on : Concepts, at : Places, weight : Weights,
                   nextAt : Places, nextWeight : Weights]
EdgeOps == [type : {"related-add", "related-remove"}, on : Concepts, to : Concepts]
DraftOps == [type : {"draft"}, on : Drafts, phrase : Phrases, at : Places, weight : Weights,
             to : Concepts \cup Drafts]
ProposalOps == PhraseOps \cup AnchorOps \cup EdgeOps \cup DraftOps

Created(o) == [lexicon |-> {o.phrase}, anchors |-> {Anchor(o.at, o.weight)}, related |-> {o.to}]

PropInit ==
  /\ base \in {[c \in Concepts \cup Drafts |-> IF c \in Concepts THEN s[c] ELSE Absent] : s \in Ontologies}
  /\ ops = {} /\ todo = {} /\ submitted = FALSE /\ refused = {} /\ made = base /\ yaml = base

-----------------------------------------------------------------------------
\* validateProposalCollisions: what the operations before o changed.
OfType(kinds, set) == {o \in set : o.type \in kinds}
PendingPhrases(set) == {o.phrase : o \in OfType({"phrase-add", "draft"}, set)}
RemovedPhrases(set) == {o.phrase : o \in OfType({"phrase-remove"}, set)}
PendingAnchors(set) == {<<o.on, o.at>> : o \in OfType({"anchor-add", "draft"}, set)}
                       \cup {<<o.on, o.nextAt>> : o \in OfType({"anchor-adjust"}, set)}
ConsumedAnchors(set) == {<<o.on, o.at>> : o \in OfType({"anchor-remove", "anchor-adjust"}, set)}
TouchedEdges(set) == {<<o.on, o.to>> : o \in OfType({"related-add", "related-remove", "draft"}, set)}

OwnedPhrases == UNION {base[c].lexicon : c \in Concepts}
HeldAnchors == UNION {{<<c, a.at>> : a \in base[c].anchors} : c \in Concepts}

PhraseRemovable(o, before) ==
  /\ o.type = "phrase-remove" /\ o.phrase \in base[o.on].lexicon
  /\ o.phrase \notin PendingPhrases(before)
  /\ \A r \in OfType({"phrase-remove"}, before) : r.on # o.on \/ r.phrase # o.phrase

\* Mutant: a phrase that is removed elsewhere in the proposal is free.
PhraseAddable_Returning(o, before) ==
  /\ o.type \in {"phrase-add", "draft"}
  /\ o.phrase \notin (OwnedPhrases \ RemovedPhrases(before)) \cup PendingPhrases(before)
PhraseAddable(o, before) ==
  /\ o.type \in {"phrase-add", "draft"}
  /\ o.phrase \notin OwnedPhrases \cup PendingPhrases(before) \cup RemovedPhrases(before)

AnchorAddable(o, before) ==
  /\ o.type = "anchor-add"
  /\ <<o.on, o.at>> \notin HeldAnchors \cup PendingAnchors(before) \cup ConsumedAnchors(before)

AnchorFree(o, before) ==
  /\ \E a \in base[o.on].anchors : a.at = o.at /\ a.from = {"editorial"}
  /\ <<o.on, o.at>> \notin ConsumedAnchors(before) \cup PendingAnchors(before)

AnchorRemovable(o, before) == o.type = "anchor-remove" /\ AnchorFree(o, before)

AnchorAdjustable(o, before) ==
  /\ o.type = "anchor-adjust" /\ AnchorFree(o, before)
  /\ \E a \in base[o.on].anchors : a.at = o.at /\ a.weight = o.weight
  /\ o.nextAt # o.at =>
       <<o.on, o.nextAt>> \notin HeldAnchors \cup PendingAnchors(before) \cup ConsumedAnchors(before)

\* What a draft is related to may be declared later, and is looked up at the end.
DraftCreatable(o, before) ==
  /\ o.type = "draft" /\ o.on # o.to /\ PhraseAddable(o, before)
  /\ \A d \in OfType({"draft"}, before) : d.on # o.on

EdgeChangeable(o, before) ==
  /\ o.type \in {"related-add", "related-remove"} /\ o.on # o.to
  /\ <<o.on, o.to>> \notin TouchedEdges(before)
  /\ o.type = "related-add" <=> o.to \notin base[o.on].related

Collides(o, before) ==
  ~ \/ PhraseRemovable(o, before) \/ (o.type = "phrase-add" /\ PhraseAddable(o, before))
    \/ AnchorAddable(o, before) \/ AnchorRemovable(o, before) \/ AnchorAdjustable(o, before)
    \/ DraftCreatable(o, before) \/ EdgeChangeable(o, before)

\* An operation more, declared after the others.
Declare ==
  /\ ~submitted /\ Cardinality(ops) < MaxOps
  /\ \E o \in ProposalOps \ ops : ~Collides(o, ops) /\ ops' = ops \cup {o}
  /\ UNCHANGED <<base, todo, submitted, made, yaml, refused>>

\* The end of the validation; normalizeProposalManifest sorts by identities, which have
\* nothing to do with the order of the declarations.
SubmitProposal ==
  /\ ~submitted /\ ops # {}
  /\ \A d \in OfType({"draft"}, ops) : d.to \in Concepts \cup {e.on : e \in OfType({"draft"}, ops)}
  /\ submitted' = TRUE /\ todo' = ops
  /\ UNCHANGED <<base, ops, made, yaml, refused>>

-----------------------------------------------------------------------------
\* applyProposal, an operation on the concepts o of the candidate.
PipelineRefuses(o, m) ==
  CASE o.type = "draft" -> m[o.on] # Absent
    [] o.type = "phrase-add" -> o.phrase \in m[o.on].lexicon
    [] o.type = "phrase-remove" -> o.phrase \notin m[o.on].lexicon
    [] o.type = "anchor-add" -> \E a \in m[o.on].anchors : a.at = o.at
    [] o.type = "anchor-remove" -> ~ \E a \in m[o.on].anchors : a.at = o.at /\ a.from = {"editorial"}
    [] o.type = "anchor-adjust" ->
         \/ ~ \E a \in m[o.on].anchors : a.at = o.at /\ a.from = {"editorial"} /\ a.weight = o.weight
         \/ o.nextAt # o.at /\ \E a \in m[o.on].anchors : a.at = o.nextAt
    [] o.type = "related-add" -> o.to \in m[o.on].related
    [] o.type = "related-remove" -> o.to \notin m[o.on].related

PipelineApplies(o, m) ==
  CASE o.type = "draft" -> [m EXCEPT ![o.on] = Created(o)]
    [] o.type = "phrase-add" -> [m EXCEPT ![o.on].lexicon = @ \cup {o.phrase}]
    [] o.type = "phrase-remove" -> [m EXCEPT ![o.on].lexicon = @ \ {o.phrase}]
    [] o.type = "anchor-add" -> [m EXCEPT ![o.on].anchors = @ \cup {Anchor(o.at, o.weight)}]
    [] o.type = "anchor-remove" -> [m EXCEPT ![o.on].anchors = {a \in @ : a.at # o.at}]
    [] o.type = "anchor-adjust" ->
         [m EXCEPT ![o.on].anchors =
            {IF a.at = o.at THEN [a EXCEPT !.at = o.nextAt, !.weight = o.nextWeight] ELSE a : a \in @}]
    [] o.type = "related-add" -> [m EXCEPT ![o.on].related = @ \cup {o.to}]
    [] o.type = "related-remove" -> [m EXCEPT ![o.on].related = @ \ {o.to}]

-----------------------------------------------------------------------------
\* structuredYaml.ts, an operation on the document of one file.
AnchorMap(f, at) == {a \in f.anchors : a.at = at}

\* requireTargetConcept, and what each edit looks for in its sequence before it writes.
YamlRefuses(o, f) ==
  IF o.type = "draft" THEN f # Absent
  ELSE \/ f = Absent
       \/ o.type = "phrase-add" /\ o.phrase \in f.lexicon
       \/ o.type = "phrase-remove" /\ o.phrase \notin f.lexicon
       \/ o.type = "anchor-add" /\ AnchorMap(f, o.at) # {}
       \/ /\ o.type \in {"anchor-remove", "anchor-adjust"}
          /\ AnchorMap(f, o.at) = {} \/ \E a \in AnchorMap(f, o.at) : a.from # {"editorial"}
       \/ /\ o.type = "anchor-adjust"
          /\ \/ \E a \in AnchorMap(f, o.at) : a.weight # o.weight
             \/ o.nextAt # o.at /\ AnchorMap(f, o.nextAt) # {}
       \/ o.type \in {"related-add", "related-remove"} /\ o.on = o.to
       \/ o.type = "related-add" /\ o.to \in f.related
       \/ o.type = "related-remove" /\ o.to \notin f.related

\* applyExistingOperation and draftDocument: sequences get and lose one element, and an
\* adjusted anchor keeps the rest of its map.
YamlEdited(o, f) ==
  LET Less(at) == f.anchors \ AnchorMap(f, at) IN
  CASE o.type = "draft" -> Created(o)
    [] o.type \in {"phrase-add", "phrase-remove"} ->
         [f EXCEPT !.lexicon = IF o.type = "phrase-add" THEN @ \cup {o.phrase} ELSE @ \ {o.phrase}]
    [] o.type = "anchor-add" -> [f EXCEPT !.anchors = @ \cup {Anchor(o.at, o.weight)}]
    [] o.type = "anchor-remove" -> [f EXCEPT !.anchors = Less(o.at)]
    [] o.type = "anchor-adjust" ->
         [f EXCEPT !.anchors = Less(o.at) \cup
            {[at |-> o.nextAt, weight |-> o.nextWeight, from |-> a.from] : a \in AnchorMap(f, o.at)}]
    [] o.type \in {"related-add", "related-remove"} ->
         [f EXCEPT !.related = IF o.type = "related-add" THEN @ \cup {o.to} ELSE @ \ {o.to}]

\* The next operation in the order of the identities, by both.  A file sees the
\* operations on its own concept only, so that the workbench's going from file to file
\* comes to the same.
Apply ==
  /\ submitted /\ refused = {}
  /\ \E o \in todo :
       /\ todo' = todo \ {o}
       /\ refused' = (IF PipelineRefuses(o, made) THEN {"pipeline"} ELSE {})
                     \cup (IF YamlRefuses(o, yaml[o.on]) THEN {"workbench"} ELSE {})
       /\ made' = (IF "pipeline" \in refused' THEN made ELSE PipelineApplies(o, made))
       /\ yaml' = (IF "workbench" \in refused' THEN yaml ELSE [yaml EXCEPT ![o.on] = YamlEdited(o, @)])
  /\ UNCHANGED <<base, ops, submitted>>

PropNext == Declare \/ SubmitProposal \/ Apply

PropSpec == PropInit /\ [][PropNext]_propVars

-----------------------------------------------------------------------------
\* What the reviewer is shown of the operations of a set: the sources without what is
\* removed, with what is added.
Declared(set, c) ==
  LET Mine == {o \in set : o.on = c}
      Moved == {o.at : o \in OfType({"anchor-remove", "anchor-adjust"}, Mine)}
      Draft == CHOOSE d \in Mine : TRUE
  IN IF c \in Drafts THEN IF Mine = {} THEN Absent ELSE Created(Draft)
     ELSE [lexicon |-> (base[c].lexicon \cup PendingPhrases(Mine)) \ RemovedPhrases(Mine),
           anchors |-> {a \in base[c].anchors : a.at \notin Moved}
                       \cup {Anchor(o.at, o.weight) : o \in OfType({"anchor-add"}, Mine)}
                       \cup {Anchor(o.nextAt, o.nextWeight) : o \in OfType({"anchor-adjust"}, Mine)},
           related |-> (base[c].related \cup {o.to : o \in OfType({"related-add"}, Mine)})
                       \ {o.to : o \in OfType({"related-remove"}, Mine)}]

\* The types of the state (ProposalManifest, CandidateConcept).
PropTypeOK == /\ ops \subseteq ProposalOps /\ todo \subseteq ops
              /\ \A m \in {made, yaml} : m \in [Concepts \cup Drafts -> Concept \cup {Absent}]

\* A proposal that validation let pass is refused by neither applier, in no order.
NeitherRefuses == refused = {}

\* The candidate that is measured and the files that are admitted agree at every step,
\* and at the end are what was declared, in whatever order the identities put it.
MeasuredIsAdmitted ==
  /\ made = yaml
  /\ submitted /\ todo = {} => \A c \in Concepts \cup Drafts : made[c] = Declared(ops, c)

\* The proposal is applied as it was reviewed.
AppliedAsReviewed == NeitherRefuses /\ MeasuredIsAdmitted
=============================================================================
