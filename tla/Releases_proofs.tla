---------------------------- MODULE Releases_proofs ----------------------------
(***************************************************************************)
(* What outlives a build, for any number of builds with any catalogues.    *)
(***************************************************************************)
EXTENDS Decision_proofs, Releases

(***************************************************************************)
(* A file a release accepts.                                               *)
(***************************************************************************)
\* The references of an experiment, as a release checks them.
Intact(r, c) ==
  LET spec == experiments[c].spec
      strategy == spec.strategy.strategy_version_id
      input == spec.strategy.research_input_id
  IN /\ As(r)!SpecValid(spec)
     /\ As(r)!Holds(packs, spec.pack, Shipped[r].packs[spec.pack])
     /\ experiments[c].manifest = Shipped[r].packs[spec.pack].pack_id
     /\ spec.cycle_id = c
     /\ As(r)!Holds(artifacts, strategy, spec.strategy)
     /\ As(r)!Holds(inputs, input, Shipped[r].inputs[input])

\* load_experiment has no error just where they are intact.
LEMMA LoadsIntact ==
  ASSUME NEW r, NEW c \in DOMAIN experiments
  PROVE  As(r)!ExperimentError(c) = "" <=> Intact(r, c)
<1> DEFINE spec == experiments[c].spec
           strategy == spec.strategy.strategy_version_id
           input == spec.strategy.research_input_id
           p1 == As(r)!Holds(packs, spec.pack, Shipped[r].packs[spec.pack])
           p2 == experiments[c].manifest = Shipped[r].packs[spec.pack].pack_id
           p3 == spec.cycle_id = c
           p4 == As(r)!Holds(artifacts, strategy, spec.strategy)
           p5 == As(r)!Holds(inputs, input, Shipped[r].inputs[input])
           reasons == <<As(r)!When(~p1, "pinned_market_snapshot_mismatch"),
                        As(r)!When(~p2, "experiment_pack_reference_mismatch"),
                        As(r)!When(~p3, "experiment_identity_mismatch"),
                        As(r)!When(~p4, "experiment_artifact_mismatch"),
                        As(r)!When(~p5, "pinned_research_input_mismatch")>>
<1>1. As(r)!ExperimentError(c) = IF ~As(r)!SpecValid(spec) THEN "invalid_experiment_spec"
                                 ELSE As(r)!FirstReason(reasons)
  BY DEF As!ExperimentError
<1>2. Intact(r, c) <=> As(r)!SpecValid(spec) /\ p1 /\ p2 /\ p3 /\ p4 /\ p5
  BY DEF Intact
<1> HIDE DEF p1, p2, p3, p4, p5
<1>3. As(r)!FirstReason(reasons) = "" <=> \A i \in 1..5 : reasons[i] = ""
  <2>1. DOMAIN reasons = 1..5
    OBVIOUS
  <2> HIDE DEF reasons
  <2>2. As(r)!FirstReason(reasons) = FirstReason(reasons)
    BY DEF As!FirstReason, FirstReason
  <2> QED
    BY <2>1, <2>2, NoReason
<1>4. (\A i \in 1..5 : reasons[i] = "") <=> p1 /\ p2 /\ p3 /\ p4 /\ p5
  BY DEF As!When
<1> QED
  BY <1>1, <1>2, <1>3, <1>4

\* What a start reads of a file, with the checks of load_experiment spelled out.
LEMMA OpensIntact ==
  ASSUME NEW r
  PROVE  Opens(r) <=>
           /\ \A id \in DOMAIN packs : As(r)!Holds(Shipped[r].packs, id, packs[id])
           /\ \A id \in DOMAIN inputs : As(r)!Holds(Shipped[r].inputs, id, inputs[id])
           /\ \A c \in DOMAIN experiments : Intact(r, c)
BY LoadsIntact DEF Opens, As!FileLoads

(***************************************************************************)
(* A release reads back what it wrote.                                     *)
(***************************************************************************)
\* A row registered is the one there was or the one given, and no row is lost.
LEMMA Registered ==
  ASSUME NEW r, NEW table, NEW key, NEW row, As(r)!Agrees(table, key, row)
  PROVE  LET after == As(r)!Register(table, key, row) IN
         /\ As(r)!Holds(after, key, row)
         /\ \A k, held : As(r)!Holds(table, k, held) => As(r)!Holds(after, k, held)
         /\ \A k \in DOMAIN after : (k \in DOMAIN table /\ after[k] = table[k]) \/ (k = key /\ after[k] = row)
BY DEF As!Register, As!Agrees, As!Holds, As!Put

\* The first start: the default pack and nothing else.
LEMMA NewFileOpens ==
  ASSUME NEW r \in DOMAIN Shipped, As(r)!Init
  PROVE  Opens(r)
<1>1. DOMAIN <<>> = {}
  OBVIOUS
<1>2. DOMAIN inputs = {} /\ DOMAIN experiments = {}
  BY <1>1 DEF As!Init
<1>3. \A id \in DOMAIN packs : As(r)!Holds(Shipped[r].packs, id, packs[id])
  BY DefaultPackShips DEF As!Init, As!Holds, As!DefaultPack
<1> QED
  BY <1>2, <1>3, OpensIntact

\* The rows of a release's own catalogue stay so.
LEMMA CatalogueRowsStay ==
  ASSUME NEW r \in DOMAIN Shipped, Opens(r), As(r)!Next
  PROVE  /\ \A id \in DOMAIN packs' : As(r)!Holds(Shipped[r].packs, id, packs'[id])
         /\ \A id \in DOMAIN inputs' : As(r)!Holds(Shipped[r].inputs, id, inputs'[id])
         /\ \A id, row : As(r)!Holds(packs, id, row) => As(r)!Holds(packs', id, row)
         /\ \A id, row : As(r)!Holds(inputs, id, row) => As(r)!Holds(inputs', id, row)
         /\ \A id, row : As(r)!Holds(artifacts, id, row) => As(r)!Holds(artifacts', id, row)
<1> DEFINE Stay ==
      /\ \A id \in DOMAIN packs' : As(r)!Holds(Shipped[r].packs, id, packs'[id])
      /\ \A id \in DOMAIN inputs' : As(r)!Holds(Shipped[r].inputs, id, inputs'[id])
      /\ \A id, row : As(r)!Holds(packs, id, row) => As(r)!Holds(packs', id, row)
      /\ \A id, row : As(r)!Holds(inputs, id, row) => As(r)!Holds(inputs', id, row)
      /\ \A id, row : As(r)!Holds(artifacts, id, row) => As(r)!Holds(artifacts', id, row)
<1>0. /\ \A id \in DOMAIN packs : As(r)!Holds(Shipped[r].packs, id, packs[id])
      /\ \A id \in DOMAIN inputs : As(r)!Holds(Shipped[r].inputs, id, inputs[id])
  BY OpensIntact
<1>1. CASE UNCHANGED <<packs, inputs, artifacts>>
  BY <1>0, <1>1
<1>2. ASSUME NEW id \in DOMAIN Shipped[r].packs, As(r)!RegisterReviewedPack(id)
      PROVE  Stay
  <2>1. /\ As(r)!Agrees(packs, id, Shipped[r].packs[id])
        /\ packs' = As(r)!Register(packs, id, Shipped[r].packs[id])
        /\ inputs' = inputs /\ artifacts' = artifacts
    BY <1>2 DEF As!RegisterReviewedPack
  <2>2. As(r)!Holds(Shipped[r].packs, id, Shipped[r].packs[id])
    BY DEF As!Holds
  <2> QED
    BY <1>0, <2>1, <2>2, Registered
<1>3. ASSUME NEW spec \in Specs, As(r)!CreateExperiment(spec)
      PROVE  Stay
  <2> DEFINE input == spec.strategy.research_input_id
             strategy == spec.strategy.strategy_version_id
             pack == spec.pack
  <2>1. /\ As(r)!Agrees(packs, pack, Shipped[r].packs[pack])
        /\ As(r)!Agrees(inputs, input, Shipped[r].inputs[input])
        /\ As(r)!Agrees(artifacts, strategy, spec.strategy)
        /\ packs' = As(r)!Register(packs, pack, Shipped[r].packs[pack])
        /\ inputs' = As(r)!Register(inputs, input, Shipped[r].inputs[input])
        /\ artifacts' = As(r)!Register(artifacts, strategy, spec.strategy)
    BY <1>3 DEF As!CreateExperiment
  <2>2. /\ As(r)!Holds(Shipped[r].packs, pack, Shipped[r].packs[pack])
        /\ As(r)!Holds(Shipped[r].inputs, input, Shipped[r].inputs[input])
    BY <1>3 DEF As!CreateExperiment, As!SpecValid, As!Holds
  <2> HIDE DEF input, strategy, pack
  <2>3. \A id \in DOMAIN packs' : As(r)!Holds(Shipped[r].packs, id, packs'[id])
    BY <1>0, <2>1, <2>2, Registered
  <2>4. \A id \in DOMAIN inputs' : As(r)!Holds(Shipped[r].inputs, id, inputs'[id])
    BY <1>0, <2>1, <2>2, Registered
  <2> QED
    BY <2>1, <2>3, <2>4, Registered
<1>4. \/ UNCHANGED <<packs, inputs, artifacts>>
      \/ \E id \in DOMAIN Shipped[r].packs : As(r)!RegisterReviewedPack(id)
      \/ \E spec \in Specs : As(r)!CreateExperiment(spec)
  BY DEF As!Next, As!CompleteExperiment, As!IngestQuote, As!Submit
<1> QED
  BY <1>1, <1>2, <1>3, <1>4

\* A step of a release leaves a file it opens again: no operation breaks a
\* reference, and a new experiment is made with its references.
LEMMA StepsReopen ==
  ASSUME NEW r \in DOMAIN Shipped, Opens(r), As(r)!Next
  PROVE  Opens(r)'
<1>1. \A c \in DOMAIN experiments : Intact(r, c)
  BY OpensIntact
<1>2. \A c \in DOMAIN experiments' :
        c \in DOMAIN experiments /\ experiments'[c].spec = experiments[c].spec
          /\ experiments'[c].manifest = experiments[c].manifest => Intact(r, c)'
  BY <1>1, CatalogueRowsStay DEF Intact
<1>3. ASSUME \A c \in DOMAIN experiments' :
               \/ c \in DOMAIN experiments /\ experiments'[c].spec = experiments[c].spec
                    /\ experiments'[c].manifest = experiments[c].manifest
               \/ Intact(r, c)'
      PROVE  Opens(r)'
  <2>1. \A c \in DOMAIN experiments' : Intact(r, c)'
    BY <1>2, <1>3
  <2>2. /\ \A id \in DOMAIN packs' : As(r)!Holds(Shipped[r].packs, id, packs'[id])
        /\ \A id \in DOMAIN inputs' : As(r)!Holds(Shipped[r].inputs, id, inputs'[id])
    BY CatalogueRowsStay
  <2>3. (Opens(r) <=>
           /\ \A id \in DOMAIN packs : As(r)!Holds(Shipped[r].packs, id, packs[id])
           /\ \A id \in DOMAIN inputs : As(r)!Holds(Shipped[r].inputs, id, inputs[id])
           /\ \A c \in DOMAIN experiments : Intact(r, c))'
    BY OpensIntact, PTL
  <2> QED
    BY <2>1, <2>2, <2>3
<1>4. CASE experiments' = experiments
  BY <1>3, <1>4
<1>5. ASSUME NEW c \in DOMAIN experiments, As(r)!CompleteExperiment(c)
      PROVE  Opens(r)'
  BY <1>3, <1>5 DEF As!CompleteExperiment
<1>6. ASSUME NEW spec \in Specs, As(r)!CreateExperiment(spec)
      PROVE  Opens(r)'
  <2> DEFINE input == spec.strategy.research_input_id
             strategy == spec.strategy.strategy_version_id
             row == [spec |-> spec, status |-> "active",
                     manifest |-> Shipped[r].packs[spec.pack].pack_id]
  <2>1. /\ As(r)!SpecValid(spec) /\ spec.cycle_id \notin DOMAIN experiments
        /\ experiments' = As(r)!Put(experiments, spec.cycle_id, row)
        /\ As(r)!Agrees(packs, spec.pack, Shipped[r].packs[spec.pack])
        /\ As(r)!Agrees(inputs, input, Shipped[r].inputs[input])
        /\ As(r)!Agrees(artifacts, strategy, spec.strategy)
        /\ packs' = As(r)!Register(packs, spec.pack, Shipped[r].packs[spec.pack])
        /\ inputs' = As(r)!Register(inputs, input, Shipped[r].inputs[input])
        /\ artifacts' = As(r)!Register(artifacts, strategy, spec.strategy)
    BY <1>6 DEF As!CreateExperiment
  <2>2. /\ As(r)!Holds(packs', spec.pack, Shipped[r].packs[spec.pack])
        /\ As(r)!Holds(inputs', input, Shipped[r].inputs[input])
        /\ As(r)!Holds(artifacts', strategy, spec.strategy)
    BY <2>1, Registered
  <2>3. \A c \in DOMAIN experiments' :
          \/ c \in DOMAIN experiments /\ experiments'[c] = experiments[c]
          \/ c = spec.cycle_id /\ experiments'[c] = row
    BY <2>1 DEF As!Put
  <2>4. ASSUME NEW c, c = spec.cycle_id, experiments'[c] = row
        PROVE  Intact(r, c)'
    <3>1. /\ experiments'[c].spec = spec
          /\ experiments'[c].manifest = Shipped[r].packs[spec.pack].pack_id
      BY <2>4
    <3> QED
      BY <2>1, <2>2, <2>4, <3>1 DEF Intact
  <2> HIDE DEF row, input, strategy
  <2> QED
    BY <1>3, <2>3, <2>4
<1>7. \/ experiments' = experiments
      \/ \E c \in DOMAIN experiments : As(r)!CompleteExperiment(c)
      \/ \E spec \in Specs : As(r)!CreateExperiment(spec)
  BY DEF As!Next, As!RegisterReviewedPack, As!IngestQuote, As!Submit
<1> QED
  BY <1>4, <1>5, <1>6, <1>7

(***************************************************************************)
(* Retaining releases.                                                     *)
(***************************************************************************)
\* What a release holds, one that retains it holds.
LEMMA RetainedRows ==
  ASSUME NEW r, NEW s, Retains(r, s)
  PROVE  /\ \A id, row : As(s)!Holds(Shipped[s].packs, id, row) => As(r)!Holds(Shipped[r].packs, id, row)
         /\ \A id, row : As(s)!Holds(Shipped[s].inputs, id, row) => As(r)!Holds(Shipped[r].inputs, id, row)
         /\ \A spec : As(s)!SpecValid(spec) =>
              /\ As(r)!SpecValid(spec)
              /\ Shipped[r].packs[spec.pack] = Shipped[s].packs[spec.pack]
              /\ Shipped[r].inputs[spec.strategy.research_input_id]
                   = Shipped[s].inputs[spec.strategy.research_input_id]
<1>1. \A spec : As(s)!SpecValid(spec) =>
              /\ As(r)!SpecValid(spec)
              /\ Shipped[r].packs[spec.pack] = Shipped[s].packs[spec.pack]
              /\ Shipped[r].inputs[spec.strategy.research_input_id]
                   = Shipped[s].inputs[spec.strategy.research_input_id]
  BY DEF Retains, Within, As!SpecValid, As!PolicyVersion
<1> QED
  BY <1>1 DEF Retains, Within, As!Holds

\* Nothing a release reads of a file distinguishes it from one it retains.
LEMMA RetainingOpens ==
  ASSUME NEW r, NEW s, Opens(s), Retains(r, s)
  PROVE  Opens(r)
<1>1. \A id, table, row : As(r)!Holds(table, id, row) <=> As(s)!Holds(table, id, row)
  BY DEF As!Holds
<1>2. ASSUME NEW c, Intact(s, c) PROVE Intact(r, c)
  <2>1. As(s)!SpecValid(experiments[c].spec)
    BY <1>2 DEF Intact
  <2>2. /\ As(r)!SpecValid(experiments[c].spec)
        /\ Shipped[r].packs[experiments[c].spec.pack] = Shipped[s].packs[experiments[c].spec.pack]
        /\ Shipped[r].inputs[experiments[c].spec.strategy.research_input_id]
             = Shipped[s].inputs[experiments[c].spec.strategy.research_input_id]
    BY <2>1, RetainedRows
  <2> QED
    BY <1>1, <1>2, <2>2 DEF Intact
<1> QED
  BY <1>2, OpensIntact, RetainedRows

\* Starting a build changes nothing that is read.
LEMMA StartsOnlyRead ==
  ASSUME NEW r, UNCHANGED ledger
  PROVE  Opens(r)' <=> Opens(r)
<1>1. /\ packs' = packs /\ inputs' = inputs /\ artifacts' = artifacts /\ experiments' = experiments
  BY DEF ledger
<1>2. \A c : Intact(r, c)' <=> Intact(r, c)
  BY <1>1 DEF Intact
<1>3. (Opens(r) <=>
         /\ \A id \in DOMAIN packs : As(r)!Holds(Shipped[r].packs, id, packs[id])
         /\ \A id \in DOMAIN inputs : As(r)!Holds(Shipped[r].inputs, id, inputs[id])
         /\ \A c \in DOMAIN experiments : Intact(r, c))'
  BY OpensIntact, PTL
<1> QED
  BY <1>1, <1>2, <1>3, OpensIntact

\* The release that serves accepts the file it serves from.
ServedOpens ==
  /\ release \in DOMAIN Shipped
  /\ \A r \in DOMAIN Shipped : open /\ r = release => Opens(r)

\* A build reads back whatever it wrote, at every moment and through any number
\* of other builds in between, and so does every build that retains its
\* definitions (ADR-002; mod.rs, the checks of an existing file).
THEOREM RetainersReopen == Spec => []RetainingReleasesOpen
<1>1. Init => ServedOpens
  BY NewFileOpens DEF Init, ServedOpens
<1>2. ServedOpens /\ [Next]_<<release, open, ledger>> => ServedOpens'
  <2> SUFFICES ASSUME ServedOpens, [Next]_<<release, open, ledger>> PROVE ServedOpens'
    OBVIOUS
  <2>1. ASSUME NEW r \in DOMAIN Shipped, Deploy(r) PROVE ServedOpens'
    <3>1. Opens(r)' <=> Opens(r)
      BY <2>1, StartsOnlyRead DEF Deploy
    <3>2. open' <=> Opens(r)
      BY <2>1 DEF Deploy, Opens
    <3>3. release' = r
      BY <2>1 DEF Deploy
    <3> QED
      BY <3>1, <3>2, <3>3 DEF ServedOpens
  <2>2. ASSUME NEW r \in DOMAIN Shipped, Operate(r) PROVE ServedOpens'
    <3>1. open /\ release = r /\ release' = release
      BY <2>2 DEF Operate
    <3>2. Opens(r)
      BY <3>1 DEF ServedOpens
    <3>3. Opens(r)'
      BY <2>2, <3>2, StepsReopen DEF Operate
    <3> QED
      BY <3>1, <3>3 DEF ServedOpens
  <2>3. CASE UNCHANGED <<release, open, ledger>>
    <3>1. release' = release /\ open' = open /\ UNCHANGED ledger
      BY <2>3
    <3>2. \A r \in DOMAIN Shipped : Opens(r)' <=> Opens(r)
      BY <3>1, StartsOnlyRead
    <3> QED
      BY <3>1, <3>2 DEF ServedOpens
  <2> QED
    BY <2>1, <2>2, <2>3 DEF Next
<1>3. ServedOpens => RetainingReleasesOpen
  BY RetainingOpens DEF ServedOpens, RetainingReleasesOpen
<1> QED
  BY <1>1, <1>2, <1>3, PTL DEF Spec
=============================================================================
