---------------------------- MODULE RenkoConfig -----------------------------
(***************************************************************************)
(* From a configuration to a wired engine: what the validator accepts      *)
(* (chart/renko/validator.py), which components a configuration names      *)
(* (configuration.py), what their constructors and the factory refuse      *)
(* (providers.py, factory.py), and how a snapshot takes the configuration  *)
(* through text into another process (serialization.py, snapshot.py),      *)
(* whose registries may lack what a plugin had registered here.  What the  *)
(* wired engine does with candles is RenkoEngine; a provider's own numbers *)
(* are BrickSize.                                                          *)
(***************************************************************************)
EXTENDS Integers, Sequences

CONSTANTS
    NoValue,          \* Python's None
    Configurations,   \* the configurations the validator is asked about
    Submitted,        \* those of them that are submitted to the stage
    BrickTypes        \* the brick types one of which has an engine registered

Fields == {"brick_type", "brick_size", "provider", "builder_type", "builder", "metadata",
           "atr_period", "atr_multiplier", "percentage", "minimum_brick_size", "rounding_mode",
           "reference_price", "reference_price_strategy", "lookback", "hybrid_weight", "ai_model",
           "adaptive_window", "adaptive_thresholds", "adaptive_hysteresis"}

(* None is no name, and no configuration.  The thresholds of one are a     *)
(* tuple, or the list that was made of it.                                 *)
ConfigConstants ==
    /\ \A c \in Submitted :
          /\ DOMAIN c = Fields /\ c # NoValue
          /\ c.adaptive_thresholds # NoValue => DOMAIN c.adaptive_thresholds = {"kind", "items"}

BuiltinProviders  == {"fixed", "atr", "percentage", "adaptive"}
BuiltinStrategies == {"close", "open", "high", "low", "typical", "mean", "median"}
BuiltinBuilders   == {"traditional", "hybrid"}
References == [close |-> "close", open |-> "open", high |-> "high", low |-> "low",
               typical_price |-> "typical", median_price |-> "median"]
RoundingModes == {"none", "round", "floor", "ceil"}

(* One name for each kind of component stands for what a plugin registers. *)
Plugin == "plugin"
Builtin == [providers |-> BuiltinProviders, strategies |-> BuiltinStrategies,
            builders |-> BuiltinBuilders]

VARIABLES
    registry,     \* the names registered: providers, strategies, builders
    checked,      \* whether the validator was given the registries
    engineType,   \* the brick type an engine is registered for
    engine,       \* that engine: the configuration and components it was last given
    saved,        \* a saved snapshot, or NoValue
    outcome,      \* what the last call came to
    original      \* auxiliary: the engine the snapshot was taken of

vars == <<registry, checked, engineType, engine, saved, outcome, original>>

(* TraditionalRenkoEngine.__init__ *)
Unwired == [config |-> NoValue, provider |-> NoValue, strategy |-> NoValue,
            builder |-> "traditional"]

TypeOK ==
    /\ \A kind \in DOMAIN Builtin : registry[kind] \ Builtin[kind] \subseteq {Plugin}
    /\ checked \in BOOLEAN /\ engineType \in BrickTypes
    /\ engine.builder \in registry.builders \cup {Plugin}
    /\ engine.provider \in registry.providers \cup {Plugin, NoValue}
    /\ outcome \in {"none", "skipped", "refused", "raised", "ran", "restored", "incompatible"}

Init ==
    /\ registry = Builtin /\ checked \in BOOLEAN /\ engineType \in BrickTypes
    /\ engine = Unwired /\ saved = NoValue /\ outcome = "none"
    /\ original = Unwired

-----------------------------------------------------------------------------
(* BrickConfiguration.resolved_* : which components a configuration names. *)
Provider(c) == IF c.provider # NoValue THEN c.provider
               ELSE IF c.brick_type \in {"atr", "percentage"} THEN c.brick_type ELSE "fixed"

FirstNamed(names) ==
    LET named == SelectSeq(names, LAMBDA name : name # NoValue)
    IN IF named = <<>> THEN "traditional" ELSE Head(named)
Builder(c) == FirstNamed(<<c.builder_type, c.builder, c.metadata>>)

(* A reference price that is no ReferencePrice names no strategy: the      *)
(* lookup raises, here the name NoValue.                                   *)
Strategy(c) == IF c.reference_price_strategy # NoValue THEN c.reference_price_strategy
               ELSE IF c.reference_price \in DOMAIN References THEN References[c.reference_price]
               ELSE NoValue

Positive(n) == n # NoValue /\ n > 0
PositiveIfGiven(n) == n = NoValue \/ n > 0

(* Two ascending positive values; the JSON form of the tuple is a list *)
Ascending(t) == Len(t.items) = 2 /\ 0 < t.items[1] /\ t.items[1] < t.items[2]

(* DefaultBrickValidator._validate_adaptive *)
AcceptsAdaptive(c) ==
    /\ Positive(c.brick_size) /\ Positive(c.percentage) /\ Positive(c.atr_period)
    /\ PositiveIfGiven(c.adaptive_window)
    /\ c.adaptive_hysteresis = NoValue \/ c.adaptive_hysteresis >= 0
    /\ c.adaptive_thresholds = NoValue \/ Ascending(c.adaptive_thresholds)

(* validate_configuration, without what names a component *)
AcceptsValues(c) ==
    /\ c.brick_size > 0
    /\ c.brick_type = "atr" => Positive(c.atr_period) /\ PositiveIfGiven(c.atr_multiplier)
    /\ c.brick_type = "percentage" => Positive(c.percentage)
    /\ Provider(c) = "percentage" =>
          /\ Positive(c.percentage) /\ c.percentage <= 100
          /\ PositiveIfGiven(c.minimum_brick_size)
          /\ c.reference_price \in DOMAIN References
          /\ c.rounding_mode \in RoundingModes
    /\ c.brick_type \in {"mean", "median"} => Positive(c.lookback)
    /\ c.brick_type = "hybrid" =>
          c.hybrid_weight # NoValue /\ c.hybrid_weight \in 0..100     \* in hundredths
    /\ c.brick_type = "ai" => c.ai_model # NoValue

(* DefaultBrickValidator.validate_configuration *)
Accepts(c) ==
    /\ AcceptsValues(c)
    /\ checked => /\ Provider(c) \in registry.providers
                  /\ Strategy(c) \in registry.strategies
                  /\ Builder(c) \in registry.builders
    /\ Provider(c) = "adaptive" => AcceptsAdaptive(c)

(* validate_data: there is a time and some price, which need not be the one *)
(* the configuration takes its bricks from.                                *)
AcceptsData(data) == data \in {"good", "other_price"}

-----------------------------------------------------------------------------
(* What the constructors of the providers accept *)
FixedBuilds(c) == c.brick_size > 0

(* Mutant: no multiplier is no default. *)
AtrBuildsIfComplete(c) == Positive(c.atr_period) /\ Positive(c.atr_multiplier)

AtrBuilds(c) == Positive(c.atr_period) /\ PositiveIfGiven(c.atr_multiplier)

(* from_configuration resolves the strategy in the built-in registry. *)
PercentageBuilds(c) ==
    /\ Strategy(c) \in BuiltinStrategies
    /\ Positive(c.percentage) /\ c.percentage <= 100
    /\ PositiveIfGiven(c.minimum_brick_size)
    /\ c.rounding_mode \in RoundingModes

AdaptiveBuilds(c) ==
    /\ FixedBuilds(c) /\ PercentageBuilds(c) /\ AtrBuilds(c)
    /\ c.adaptive_window = NoValue \/ c.adaptive_window >= 0      \* 0 is the default, too
    /\ c.adaptive_thresholds = NoValue \/ c.adaptive_thresholds.items = <<>>
       \/ Ascending(c.adaptive_thresholds)
    /\ c.adaptive_hysteresis = NoValue \/ c.adaptive_hysteresis >= 0

(* The registry's create and the injection of the strategy (_build_provider); *)
(* the children injected into an adaptive provider are built as its own.   *)
ProviderBuilds(c) ==
    /\ Provider(c) \in registry.providers
    /\ CASE Provider(c) = "fixed" -> FixedBuilds(c)
         [] Provider(c) = "atr" -> AtrBuilds(c)
         [] Provider(c) = "percentage" -> PercentageBuilds(c) /\ Strategy(c) \in registry.strategies
         [] Provider(c) = "adaptive" -> AdaptiveBuilds(c)
         [] OTHER -> TRUE

(* Only the percentage provider has a strategy the engine can see. *)
VisibleStrategy(c) == IF Provider(c) = "percentage" THEN Strategy(c) ELSE NoValue

(* Mutant: the builder is injected first. *)
CreatedBuilderFirst(c) ==
    IF c.brick_type # engineType \/ Builder(c) \notin registry.builders THEN engine
    ELSE IF ~ProviderBuilds(c) THEN [engine EXCEPT !.builder = Builder(c)]
    ELSE [engine EXCEPT !.provider = Provider(c), !.strategy = VisibleStrategy(c), !.builder = Builder(c)]

(* RenkoFactory.create on the shared engine of the type: each component is *)
(* injected as soon as it is built, so that a failure leaves the earlier.  *)
Created(c) ==
    IF c.brick_type # engineType \/ ~ProviderBuilds(c) THEN engine
    ELSE LET sized == [engine EXCEPT !.provider = Provider(c), !.strategy = VisibleStrategy(c)]
         IN IF Builder(c) \in registry.builders THEN [sized EXCEPT !.builder = Builder(c)] ELSE sized

Creates(c) == c.brick_type = engineType /\ ProviderBuilds(c) /\ Builder(c) \in registry.builders

-----------------------------------------------------------------------------
(* Serialization *)

(* _jsonify: a tuple becomes a list; enums and numbers read back as they   *)
(* were.                                                                   *)
AsText(c) == IF c.adaptive_thresholds = NoValue THEN c
             ELSE [c EXCEPT !.adaptive_thresholds.kind = "list"]

(* TraditionalRenkoEngine.snapshot; only its wiring is kept here. *)
Snapshot(e) == [config |-> AsText(e.config), damage |-> "none"]

(* deserialize and EngineState.from_dict: JSON with all required fields *)
Complete(text) == text.damage # "cut"

(* validate_snapshot: the version is this one, and the components of the   *)
(* configuration are registered in the process that reads it.              *)
Readable(text) ==
    /\ Complete(text) /\ text.damage # "version"
    /\ Provider(text.config) \in registry.providers
    /\ Strategy(text.config) \in registry.strategies
    /\ Builder(text.config) \in registry.builders

(* Mutant: the restored engine keeps the builder it was made with. *)
RewiredWithDefault(c) == [config |-> c, provider |-> Provider(c), strategy |-> VisibleStrategy(c),
                          builder |-> "traditional"]

(* SnapshotManager.restore builds the components anew *)
Rewired(c) == [config |-> c, provider |-> Provider(c), strategy |-> VisibleStrategy(c),
               builder |-> Builder(c)]

-----------------------------------------------------------------------------
(* A plugin registers a component; a name that is taken is refused. *)
Register(kind) ==
    /\ registry' = [registry EXCEPT ![kind] = @ \cup {Plugin}]
    /\ outcome' = IF Plugin \in registry[kind] THEN "raised" ELSE "none"
    /\ UNCHANGED <<checked, engineType, engine, saved, original>>

(* RenkoPipelineStage.execute: what the validator refuses is a failed      *)
(* stage; what the factory or the engine refuses is raised to the caller.  *)
Execute(c, data) ==
    /\ UNCHANGED <<registry, checked, engineType, saved, original>>
    /\ IF data = "none" THEN outcome' = "skipped" /\ UNCHANGED engine
       ELSE IF ~Accepts(c) \/ ~AcceptsData(data) THEN outcome' = "refused" /\ UNCHANGED engine
       ELSE IF ~Creates(c) THEN outcome' = "raised" /\ engine' = Created(c)
       ELSE /\ outcome' = IF data = "good" THEN "ran" ELSE "raised"
            /\ engine' = [Created(c) EXCEPT !.config = c]

Save ==
    /\ engine.config # NoValue
    /\ saved' = Snapshot(engine) /\ outcome' = "none" /\ original' = engine
    /\ UNCHANGED <<registry, checked, engineType, engine>>

(* The text is cut, or is that of another version. *)
TextAges(damage) ==
    /\ saved # NoValue /\ saved.damage = "none"
    /\ saved' = [saved EXCEPT !.damage = damage]
    /\ outcome' = "none"
    /\ UNCHANGED <<registry, checked, engineType, engine, original>>

(* Another process: no plugin has registered anything yet. *)
NewProcess ==
    /\ registry' = Builtin /\ engine' = Unwired /\ outcome' = "none"
    /\ UNCHANGED <<checked, engineType, saved, original>>

(* SnapshotManager.restore *)
Restore ==
    /\ saved # NoValue
    /\ IF ~Readable(saved) THEN outcome' = "incompatible" /\ UNCHANGED engine
       ELSE IF ~ProviderBuilds(saved.config) THEN outcome' = "raised" /\ UNCHANGED engine
       ELSE outcome' = "restored" /\ engine' = Rewired(saved.config)
    /\ UNCHANGED <<registry, checked, engineType, saved, original>>

Next ==
    \/ \E kind \in DOMAIN Builtin : Register(kind)
    \/ \E c \in Submitted, data \in {"none", "no_price", "other_price", "good"} : Execute(c, data)
    \/ Save \/ NewProcess \/ Restore
    \/ \E damage \in {"cut", "version"} : TextAges(damage)

-----------------------------------------------------------------------------
(* What the validator accepts can be built, when the brick type implies    *)
(* the provider and the strategy is a built-in one: the constructors ask   *)
(* for nothing the validator has not asked for.  (An explicit provider, or *)
(* a strategy of a plugin, can pass the validator and raise in the         *)
(* factory.)                                                               *)
AcceptedBuilds ==
    engine = Unwired /\ saved = NoValue =>
        \A c \in Configurations :
            c.provider = NoValue /\ Strategy(c) \in BuiltinStrategies /\ Accepts(c)
                => ProviderBuilds(c)

(* With a validator that knows the registries, the components of the       *)
(* shared engine are always those its configuration names, whatever calls  *)
(* failed in between.                                                      *)
EngineIsAsConfigured ==
    checked /\ engine.config # NoValue =>
        /\ engine.provider = Provider(engine.config)
        /\ engine.strategy = VisibleStrategy(engine.config)
        /\ engine.builder = Builder(engine.config)

(* "Plugin-registered components are restorable by name": an undamaged     *)
(* snapshot of an engine that ran is restored in every process that knows  *)
(* the names, to the same components, and would be saved as the same text  *)
(* again.                                                                  *)
RestoredAsSaved ==
    checked /\ saved # NoValue =>
        /\ saved = Snapshot(original) /\ Readable(saved) => ProviderBuilds(saved.config)
        /\ outcome = "restored" =>
              /\ \A part \in {"provider", "strategy", "builder"} : engine[part] = original[part]
              /\ Snapshot(engine) = saved
=============================================================================
