---------------------------- MODULE PlantConfig ----------------------------
(***************************************************************************)
(* The plant configuration: how it is derived from the catalog, validated, *)
(* compared and applied (configuration.py, scenarios/priority.py expand,   *)
(* MesService.apply_config), which run it belongs to, and what a restart   *)
(* makes of it (MesService.__init__, _restore_active_config).              *)
(*                                                                         *)
(* A configuration is identified by the hash of its content, so here it is *)
(* its own config_id; a list that repeats an entry is one with two entries *)
(* of one id.  Commands hold the service lock to their end; a request made *)
(* against another base than the active configuration is refused unseen.   *)
(* A crash loses everything but what a transaction committed, and a        *)
(* statement may also fail with the process alive.                         *)
(***************************************************************************)
EXTENDS Subsequences, SequencesExt

CONSTANTS
  Catalogs,     \* plant descriptions a service may be installed with
  Uploads,      \* configurations that people submit
  Capabilities, \* KNOWN_CAPABILITIES
  BuiltIn,      \* the scenarios every baseline has
  Shipped,      \* PRIORITY_SCENARIOS of the installed release
  Patterns,     \* PATTERNS of symptoms: a family and the signals it needs
  Extra,        \* ADDITIONAL_SIGNALS of each family
  Switches,     \* signals measured as bool
  NoConfig,     \* config_id of a run from before configurations were kept
  MaxRuns, MaxChanges, MaxTicks, MaxFaults   \* bounds

\* What load_draft makes of a submission: a record of records.
IsConfiguration(c) ==
  /\ c = [source |-> c.source, label |-> c.label, equipment |-> c.equipment,
          route |-> c.route, relations |-> c.relations, branches |-> c.branches,
          scenarios |-> c.scenarios]
  /\ c.equipment = [k \in DOMAIN c.equipment |-> c.equipment[k]]
  /\ \A k \in DOMAIN c.equipment :
       LET e == c.equipment[k]
       IN /\ e = [id |-> e.id, asset |-> e.asset, active |-> e.active, code |-> e.code,
                  can |-> e.can, signals |-> e.signals, sound |-> e.sound]
          /\ e.can \in Seq(Range(e.can))

\* A catalog that Catalog loads, with flows, which run between its machines.
IsCatalog(cat) ==
  LET eqs == cat.equipment
      rels == cat.relations
  IN /\ eqs \in Seq(Range(eqs)) /\ rels \in Seq(Range(rels))
     /\ \A j, k \in DOMAIN eqs : eqs[j].id = eqs[k].id => j = k
     /\ \A e \in Range(eqs) : e.can \in Seq(Capabilities)
     /\ \A f \in Range(rels) :
          /\ f.type = "material_flow" => f.machines /\ f.capacity \in Nat
          /\ f.machines => {f.from, f.to} \subseteq {e.id : e \in Range(eqs)}
     /\ \E f \in Range(rels) : f.type = "material_flow"

\* The effects <<capability, signal, whether the value is 0 or 1>> of a
\* scenario give a bool signal no other value.
BooleanEffects(s) == \A x \in s.shows : x[2] \in Switches => x[3]

\* Scenarios that no machine is named in, as the release ships them.
AreUnbound(scenarios) ==
  /\ \A s, t \in scenarios : s.id = t.id => s = t
  /\ \A s \in scenarios : /\ s.at = "any" /\ s.ticks >= 1 /\ (s.hold => s.actions # {})
                          /\ s.sound /\ BooleanEffects(s)

IsBaseline(c) == c.source = "catalog" /\ c.label = "baseline"

ASSUME ConfigAssumption ==
  /\ MaxRuns \in Nat /\ MaxChanges \in Nat /\ MaxTicks \in Nat /\ MaxFaults \in Nat
  /\ \A c \in Uploads :
       /\ IsConfiguration(c)
       /\ IsBaseline(c) => \A s \in c.scenarios : BooleanEffects(s)
  /\ \A cat \in Catalogs : IsCatalog(cat)
  /\ AreUnbound(BuiltIn) /\ AreUnbound(Shipped)
  /\ \A p, q \in Patterns : p.id = q.id => p = q

VARIABLES
  catalog,      \* the installed catalog
  service,      \* "down", "booting" or "up"
  active,       \* active_config
  engineRun,    \* engine.run with its sequence
  lineMode,
  ticker,       \* the thread of _run_ticks: "alive" or "dead"
  runs,         \* table runs
  kept,         \* table configurations
  changes,      \* table config_changes
  snapshots,    \* keys of table snapshots
  now, faults

configMemory == <<service, active, engineRun, lineMode, ticker>>
configTables == <<runs, kept, changes, snapshots>>
configVars == <<catalog, configMemory, configTables, now, faults>>

Ids(rows) == {rows[k].id : k \in DOMAIN rows}
Position(c, id) == CHOOSE k \in DOMAIN c.equipment : c.equipment[k].id = id
Machine(c, id) == c.equipment[Position(c, id)]

-----------------------------------------------------------------------------
(* from_catalog: the baseline of a catalog.                                *)

Flows(cat) == {f \in Range(cat.relations) : f.type = "material_flow"}

Earliest(I) == CHOOSE k \in I : \A j \in I : k <= j

\* The main route: from a source along the largest flow to unvisited machines.
_compute_material_route(cat) ==
  LET rels == cat.relations
      flows == {k \in DOMAIN rels : rels[k].type = "material_flow"}
      sources == {k \in flows : \A j \in flows : rels[k].from # rels[j].to}
      first == Earliest(IF sources = {} THEN flows ELSE sources)
      route[n \in 0..Cardinality(flows)] ==
        IF n = 0 THEN <<rels[first].from>>
        ELSE LET so_far == route[n - 1]
                 onward == {k \in flows : rels[k].from = Last(so_far) /\ rels[k].to \notin Range(so_far)}
                 best == {k \in onward : \A j \in onward : rels[j].capacity <= rels[k].capacity}
             IN IF onward = {} THEN so_far ELSE Append(so_far, rels[Earliest(best)].to)
      fallback == <<"EQ-0006", "EQ-0007", "EQ-0008", "EQ-0009">>
  IN IF flows = {} THEN fallback ELSE route[Cardinality(flows)]

Adjacent(route) == {<<route[k], route[k + 1]>> : k \in 1..(Len(route) - 1)}
Pairs(rels) == {<<f.from, f.to>> : f \in {f \in rels : f.type = "material_flow"}}

\* A code is a family and a number: RT-03 is <<"RT", 3>>.
Family(e) == e.code[1]

\* A scenario bound to a machine, shown by signals of its first capability.
Bound(e, id, signals) ==
  [id |-> id, cause |-> e.can[1], at |-> e.id,
   shows |-> {<<e.can[1], g, g \in Switches>> : g \in signals},
   ticks |-> 2, hold |-> FALSE, actions |-> {}, sound |-> TRUE]

Working(eqs) == {e \in Range(eqs) : e.active /\ e.can # <<>>}

sensor_anomalies(eqs) ==
  UNION {{Bound(e, <<"sensor_anomaly", e.id, g>>, {g}) : g \in e.signals} : e \in Working(eqs)}

symptom_scenarios(eqs) ==
  UNION {{Bound(e, <<"symptom", e.id, p.id>>, p.signals) :
            p \in {p \in Patterns : p.family = Family(e) /\ p.signals \subseteq e.signals}} :
         e \in Working(eqs)}

Adding(found, offered) ==
  found \cup {s \in offered : \A f \in found : f.id # s.id}

\* A flow beside the route from RT-03 to CV-02, both switched on.
ScrapBranch(eqs, branches) ==
  \E f \in branches, d, e \in Range(eqs) :
    /\ f.type = "material_flow" /\ f.from = d.id /\ f.to = e.id
    /\ d.code = <<"RT", 3>> /\ d.active /\ e.code = <<"CV", 2>> /\ e.active

\* expand: the signals of the release, the shipped scenarios the plant can
\* stage, and the scenarios that follow from its machines.
expand(c) ==
  LET eqs == [k \in DOMAIN c.equipment |->
                [c.equipment[k] EXCEPT !.signals = @ \cup Extra[Family(c.equipment[k])]]]
      staged == {s \in Shipped :
        /\ \E e \in Working(eqs) : s.cause \in Range(e.can)
        /\ s.id = <<"scrap_discharge">> => ScrapBranch(eqs, c.branches)}
  IN [c EXCEPT !.equipment = eqs,
               !.scenarios = Adding(Adding(@, staged),
                                    sensor_anomalies(eqs) \cup symptom_scenarios(eqs))]

\* Mutant: only flows that leave the route are set aside, not those that lead back.
BranchesOutward(cat, route) == {f \in Flows(cat) : f.machines /\ f.to \notin Range(route)}
\* Flows between machines that the route does not take.
Branches(cat, route) ==
  {f \in Flows(cat) : f.machines /\ <<f.from, f.to>> \notin Adjacent(route)}

Baseline(cat) ==
  LET route == _compute_material_route(cat)
      between == {f \in Range(cat.relations) : f.machines}
      aside == Branches(cat, route)
  IN [source |-> "catalog", label |-> "baseline",
      equipment |-> [k \in DOMAIN cat.equipment |->
        [id |-> cat.equipment[k].id, asset |-> <<cat.equipment[k].id, 1>>, active |-> TRUE,
         code |-> cat.equipment[k].code, can |-> cat.equipment[k].can,
         signals |-> cat.equipment[k].signals, sound |-> TRUE]],
      route |-> route, relations |-> between \ aside, branches |-> aside,
      scenarios |-> BuiltIn]

from_catalog(cat) == expand(Baseline(cat))

-----------------------------------------------------------------------------
(* validate: the semantic errors of a configuration.                       *)

UniqueMachines(c) ==
  \A j, k \in DOMAIN c.equipment :
    (c.equipment[j].id = c.equipment[k].id \/ c.equipment[j].asset = c.equipment[k].asset) => j = k

\* Sound: room for a coil, and signals named once, with a unit and semantics.
MachinesComplete(c) ==
  \A e \in Range(c.equipment) : Range(e.can) \subseteq Capabilities /\ e.sound

RouteRuns(c) ==
  /\ \A id \in Range(c.route) : \E e \in Range(c.equipment) : e.id = id /\ e.active
  /\ Adjacent(c.route) \subseteq Pairs(c.relations) \cup Pairs(c.branches)

RelationsResolve(c) ==
  \A f \in c.relations \cup c.branches : {f.from, f.to} \subseteq Ids(c.equipment)

NoAmbiguousBranch(c) == Pairs(c.relations) \subseteq Adjacent(c.route) \cup Pairs(c.branches)

\* The machines that may show a scenario; the first of them does.
Targets(c, s) ==
  {k \in DOMAIN c.equipment :
     LET e == c.equipment[k]
     IN e.active /\ s.cause \in Range(e.can) /\ s.at \in {"any", e.id}}

\* Where a scenario acts, bool signals are set to 0 or 1 only.
EffectsInUnits(c, s) ==
  Targets(c, s) # {} =>
    \A x \in s.shows : x[2] \in Switches \cap c.equipment[Earliest(Targets(c, s))].signals => x[3]

\* A scenario bound to a machine needs it active and able to show the effects.
\* Sound: stop_on_fault is a boolean, actions have titles and ids of their own.
ScenariosFit(c) ==
  /\ \A s, t \in c.scenarios : s.id = t.id => s = t
  /\ \A s \in c.scenarios :
       /\ s.sound /\ EffectsInUnits(c, s)
       /\ s.at # "any" => \E e \in Range(c.equipment) :
            /\ e.id = s.at /\ e.active /\ s.cause \in Range(e.can)
            /\ \A x \in s.shows : x[1] \in Range(e.can) /\ x[2] \in e.signals
       /\ s.ticks >= 1
       /\ s.hold => s.actions # {}

Valid(c) ==
  /\ UniqueMachines(c) /\ MachinesComplete(c)
  /\ RouteRuns(c) /\ RelationsResolve(c) /\ NoAmbiguousBranch(c)
  /\ ScenariosFit(c)

\* diff, as far as the audit log is read for assets.
diff(old, new) ==
  LET both == Ids(old.equipment) \cap Ids(new.equipment)
  IN [asset_replaced |->
        {[id |-> e, old |-> Machine(old, e).asset, new |-> Machine(new, e).asset] :
           e \in {e \in both : Machine(old, e).asset # Machine(new, e).asset}},
      added |-> Ids(new.equipment) \ Ids(old.equipment),
      removed |-> Ids(old.equipment) \ Ids(new.equipment)]

-----------------------------------------------------------------------------
NoRun == [id |-> 0, started |-> 0, config |-> NoConfig, sequence |-> 0]
RunRow(r) == [id |-> r.id, started |-> r.started, config |-> r.config]
NewRun(c) == [id |-> now, started |-> now, config |-> c, sequence |-> 0]

\* The database is new, or holds a run from before configurations were kept,
\* or one of an earlier release with fewer signals and scenarios.
ConfigInit ==
  /\ catalog \in Catalogs
  /\ service = "down" /\ active = NoConfig /\ engineRun = NoRun
  /\ lineMode = "stopped" /\ ticker = "dead"
  /\ \/ runs \in {{}, {RunRow(NoRun)}} /\ kept = {}
     \/ kept = {Baseline(catalog)} /\ runs = {[RunRow(NoRun) EXCEPT !.config = Baseline(catalog)]}
  /\ changes = <<>> /\ snapshots = {}
  /\ now = 1 /\ faults = 0

\* Runs that kept a configuration which is still stored; a reset run starts
\* at its predecessor's time, so the newest need not be a single one.
Resumable == {r \in runs : r.config \in kept}
\* Mutant: the rows are read in the opposite order.
Oldest == {r \in Resumable : \A s \in Resumable : s.started >= r.started}
Newest == {r \in Resumable : \A s \in Resumable : s.started <= r.started}
Resumed(c) == IF IsBaseline(c) THEN expand(c) ELSE c

\* __init__: restore or derive the configuration and store it,
Boot ==
  /\ service = "down"
  /\ \/ Resumable = {} /\ active' = from_catalog(catalog)
     \/ \E r \in Newest : active' = Resumed(r.config)
  /\ service' = "booting" /\ kept' = kept \cup {active'}
  /\ UNCHANGED <<catalog, engineRun, lineMode, ticker, runs, changes, snapshots, now, faults>>

\* then create a run under it and start the ticker.
BootRun ==
  /\ service = "booting" /\ now <= MaxRuns
  /\ engineRun' = NewRun(active) /\ runs' = runs \cup {RunRow(engineRun')} /\ now' = now + 1
  /\ service' = "up" /\ lineMode' = "stopped" /\ ticker' = "alive"
  /\ UNCHANGED <<catalog, active, kept, changes, snapshots, faults>>

Crash ==
  /\ service # "down" /\ faults < MaxFaults
  /\ service' = "down" /\ active' = NoConfig /\ engineRun' = NoRun
  /\ lineMode' = "stopped" /\ ticker' = "dead" /\ faults' = faults + 1
  /\ UNCHANGED <<catalog, configTables, now>>

\* A failed statement raises; it counts as a fault.
StorageFails == faults < MaxFaults /\ faults' = faults + 1

Change(base, c, status) == [base |-> base, new |-> c, status |-> status, diff |-> diff(base, c)]

MayApply(c) ==
  /\ service = "up" /\ lineMode \in {"paused", "stopped"}
  /\ Len(changes) < MaxChanges

\* apply_config: configuration, run and audit row in one transaction.
Apply(c) ==
  /\ MayApply(c) /\ Valid(c) /\ now <= MaxRuns
  /\ engineRun' = NewRun(c) /\ active' = c /\ lineMode' = "stopped" /\ now' = now + 1
  /\ kept' = kept \cup {c} /\ runs' = runs \cup {RunRow(engineRun')}
  /\ changes' = Append(changes, Change(active, c, "applied"))
  /\ UNCHANGED <<catalog, service, ticker, snapshots, faults>>

\* The refusal is recorded if it can be.
RefuseApply(c) ==
  /\ MayApply(c) /\ ~Valid(c)
  /\ changes' = Append(changes, [base |-> active, new |-> c, status |-> "rejected",
                                 diff |-> diff(active, active)])
  /\ UNCHANGED <<catalog, configMemory, runs, kept, snapshots, now, faults>>

\* The transaction fails and leaves nothing but, if that works, its record.
ApplyFails(c) ==
  /\ MayApply(c) /\ Valid(c) /\ StorageFails
  /\ \/ changes' = changes
     \/ changes' = Append(changes, Change(active, c, "failed"))
  /\ UNCHANGED <<catalog, configMemory, runs, kept, snapshots, now>>

Start ==
  /\ service = "up" /\ lineMode' = "running"
  /\ UNCHANGED <<catalog, service, active, engineRun, ticker, configTables, now, faults>>

Pause ==
  /\ service = "up" /\ lineMode = "running" /\ lineMode' = "paused"
  /\ UNCHANGED <<catalog, service, active, engineRun, ticker, configTables, now, faults>>

\* Mutant: the engine starts again in the run it was in.
ResetSameRun ==
  /\ service = "up" /\ now <= MaxRuns
  /\ engineRun' = [engineRun EXCEPT !.sequence = 0] /\ now' = now + 1
  /\ lineMode' = "stopped"
  /\ UNCHANGED <<catalog, service, active, ticker, configTables, faults>>
\* control("reset"): the engine has its new run before the run is stored.
Reset ==
  /\ service = "up" /\ now <= MaxRuns
  /\ engineRun' = [engineRun EXCEPT !.id = now, !.sequence = 0] /\ now' = now + 1
  /\ lineMode' = "stopped"
  /\ \/ runs' = runs \cup {RunRow(engineRun')} /\ UNCHANGED faults
     \/ StorageFails /\ UNCHANGED runs
  /\ UNCHANGED <<catalog, service, active, ticker, kept, changes, snapshots>>

\* A tick of the line is stored under its run; nothing in the ticker's
\* thread catches the error when the run is unknown or the tick a duplicate.
Tick ==
  /\ service = "up" /\ ticker = "alive" /\ lineMode = "running"
  /\ engineRun.sequence < MaxTicks
  /\ engineRun' = [engineRun EXCEPT !.sequence = @ + 1]
  /\ LET key == <<engineRun.id, engineRun.sequence + 1>>
     IN \/ /\ RunRow(engineRun) \in runs /\ key \notin snapshots
           /\ snapshots' = snapshots \cup {key} /\ UNCHANGED <<ticker, faults>>
        \/ /\ ~(RunRow(engineRun) \in runs /\ key \notin snapshots)
           /\ ticker' = "dead" /\ UNCHANGED <<snapshots, faults>>
        \/ StorageFails /\ ticker' = "dead" /\ UNCHANGED snapshots
  /\ UNCHANGED <<catalog, service, active, lineMode, runs, kept, changes, now>>

ConfigNext ==
  \/ Boot \/ BootRun \/ Crash
  \/ \E c \in Uploads : Apply(c) \/ RefuseApply(c) \/ ApplyFails(c)
  \/ Start \/ Pause \/ Reset \/ Tick

ConfigSpec == ConfigInit /\ [][ConfigNext]_configVars

-----------------------------------------------------------------------------
(* Properties.                                                             *)

Applied == Selected(changes, {k \in DOMAIN changes : changes[k].status = "applied"})

\* The line never runs under a configuration that validate() would refuse:
\* not the one derived from the catalog, not an uploaded one, and not what a
\* restart restores and expands.
ActiveIsValid == service # "down" => Valid(active)

\* Read in order, the applied changes lead from each configuration to the
\* next across restarts, crashes, resets and failed attempts, and end in the
\* configuration that is active (a baseline may have been expanded since).
AppliedChangesChain ==
  /\ \A k \in 1..(Len(Applied) - 1) :
       Applied[k + 1].base \in {Applied[k].new, Resumed(Applied[k].new)}
  /\ service # "down" /\ Applied # <<>> =>
       active \in {Last(Applied).new, Resumed(Last(Applied).new)}

\* No order of commands stops the ticker: it dies only of a storage error.
TickerOutlivesCommands == service = "up" /\ ticker = "dead" => faults > 0
=============================================================================
