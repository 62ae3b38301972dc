---------------------------- MODULE MCComponents ----------------------------
(***************************************************************************)
(* Small instances of the components that share no state the models tell   *)
(* apart: the service's work reports, plant configuration, accounts and    *)
(* fault generators, the coils on the line, and the four parts of a PDA.   *)
(* A behaviour is one of one component; the others stand still.  The PDA   *)
(* is first bound to one machine, which any other could stand in for.      *)
(***************************************************************************)
EXTENDS WorkReports, PlantConfig, Accounts, ProgressiveFaults, RandomFaults, CoilFlow,
        PdaContext, PdaResolve, PdaReports, PdaLogin, TLC

CONSTANTS e1, m1, m2

VARIABLE part

-----------------------------------------------------------------------------
(* Work reports: one open fault, its repair, a repair typed from an answer,*)
(* and both in one report.                                                 *)
OpenFault ==
  [type |-> "fault", equipment |-> {e1}, capture |-> TRUE, restart |-> FALSE,
   requested |-> TRUE, auto |-> FALSE, outcome |-> "open", status |-> FALSE,
   normal |-> "unconfirmed", minutes |-> None, evidence |-> FALSE,
   steps |-> {}, cause |-> FALSE, notes |-> [k \in {"T1", "T2", "T5"} |-> "none"],
   query |-> None, about |-> None, source |-> None]
Repaired == [OpenFault EXCEPT !.outcome = "resolved", !.normal = "no_recurrence",
                              !.minutes = 10, !.evidence = TRUE,
                              !.steps = {"failed", "worked"}, !.cause = TRUE]
FromAnswer == [OpenFault EXCEPT !.capture = FALSE, !.query = 1, !.outcome = "resolved"]
MCDrafts == {<<OpenFault>>, <<Repaired>>, <<FromAnswer>>, <<OpenFault, Repaired>>}

-----------------------------------------------------------------------------
(* Plant configuration: a line with a branch and a flow back, or one that  *)
(* turns in a circle; uploads of a new asset, of the old one again, of one *)
(* that is switched off, and of one set to a value its signal cannot have. *)
Item(id, code, can, signals) == [id |-> id, code |-> code, can |-> can, signals |-> signals]
Rel(type, from, to, capacity) ==
  [type |-> type, from |-> from, to |-> to, capacity |-> capacity, machines |-> TRUE]

Circle ==
  [equipment |-> <<Item("m1", <<"RT", 1>>, <<"transport">>, {}), Item("m2", <<"RT", 2>>, <<>>, {})>>,
   relations |-> <<Rel("material_flow", "m1", "m2", 1), Rel("material_flow", "m2", "m1", 1)>>]
MCCatalogs == {
  [equipment |-> <<Item("m1", <<"RT", 3>>, <<"transport">>, {"speed"}),
                   Item("m2", <<"CV", 1>>, <<"transport", "discharge">>, {"speed"}),
                   Item("m3", <<"CV", 2>>, <<>>, {})>>,
   relations |-> <<Rel("material_flow", "m1", "m3", 1), Rel("material_flow", "m1", "m2", 2),
                   Rel("material_flow", "m2", "m1", 1), Rel("interlock", "m2", "m1", 0),
                   [Rel("located_in", "m1", "line", 0) EXCEPT !.machines = FALSE]>>],
  Circle}

Scenario(id, cause) ==
  [id |-> <<id>>, cause |-> cause, at |-> "any",
   shows |-> {<<cause, "speed", FALSE>>, <<cause, "jam", TRUE>>},
   ticks |-> 2, hold |-> TRUE, actions |-> {"clear"}, sound |-> TRUE]
MCBuiltIn == {Scenario("downstream_block", "discharge")}
MCShipped == {Scenario("strip_break", "transport"), Scenario("drive_overload", "drive"),
              Scenario("scrap_discharge", "transport")}
MCPatterns == {[id |-> "slip", family |-> "CV", signals |-> {"speed", "current"}]}
MCExtra == [family \in {"RT", "CV"} |-> {"current", "jam"}]

Submission(asset, on, jam) ==
  [source |-> "user_upload", label |-> "upload",
   equipment |-> <<[id |-> "m1", asset |-> <<"m1", asset>>, active |-> on, code |-> <<"RT", 1>>,
                    can |-> <<"transport">>, signals |-> {"speed", "jam"}, sound |-> TRUE]>>,
   route |-> <<"m1">>, relations |-> {}, branches |-> {},
   scenarios |-> {[Scenario("strip_break", "transport") EXCEPT
                     !.at = "m1", !.shows = {<<"transport", "jam", jam>>}]}]
MCUploads == {Submission(1, TRUE, TRUE), Submission(2, TRUE, TRUE),
              Submission(2, FALSE, TRUE), Submission(1, TRUE, FALSE)}

-----------------------------------------------------------------------------
(* Coils: a machine that holds two before the branch, and machines of one; *)
(* a fault that stops the finished side, and a quality hold.               *)
MCCoilRoute == <<"RT-02", "RT-03", "CV-01">>
MCCapacity == [m \in {"RT-02", "RT-03", "CV-01", "CV-02"} |-> IF m = "RT-03" THEN 2 ELSE 1]
MCStopsAt == [s \in {"overload", "quality_hold"} |-> IF s = "overload" THEN {"CV-01"} ELSE {}]

-----------------------------------------------------------------------------
Parts == {"reports", "plant", "accounts", "progressive", "random", "coils",
          "context", "resolve", "drafts", "login"}

\* The components that stand still do so in one state.
ComponentsInit ==
  /\ part \in Parts
  /\ ReportInit /\ ConfigInit /\ AccountInit /\ ProgressiveInit /\ RandomInit /\ CoilInit
  /\ ContextInit /\ ResolveInit /\ ReportsInit /\ LoginInit
  /\ part # "plant" => catalog = Circle /\ runs = {} /\ kept = {}
  /\ part # "reports" => /\ installed = [e \in Equipment |-> CHOOSE a \in Assets : TRUE]
                         /\ edition = CHOOSE v \in Editions : TRUE
  /\ part # "progressive" => due = CHOOSE gap \in Gaps : TRUE
  /\ station = CHOOSE m \in Stations : TRUE
  /\ part # "login" => fromLink = FALSE

\* Bound: a scan strays only where at most two requests about repairs are sent.
StraysEarly == strayed' > 0 => sent' <= 2

ComponentsNext ==
  /\ UNCHANGED part
  /\ IF part = "reports" THEN ReportNext ELSE UNCHANGED reportVars
  /\ IF part = "plant" THEN ConfigNext ELSE UNCHANGED configVars
  /\ IF part = "accounts" THEN AccountNext ELSE UNCHANGED accountVars
  /\ IF part = "progressive" THEN ProgressiveNext ELSE UNCHANGED progressiveVars
  /\ IF part = "random" THEN RandomNext ELSE UNCHANGED randomVars
  /\ IF part = "coils" THEN CoilNext ELSE UNCHANGED coilVars
  /\ IF part = "context" THEN ContextNext ELSE UNCHANGED contextVars
  /\ IF part = "resolve" THEN ResolveNext /\ StraysEarly ELSE UNCHANGED resolveVars
  /\ IF part = "drafts" THEN ReportsNext ELSE UNCHANGED draftVars
  /\ IF part = "login" THEN LoginNext ELSE UNCHANGED loginVars

ComponentsSpec ==
  ComponentsInit /\ [][ComponentsNext]_<<part, reportVars, configVars, accountVars,
    progressiveVars, randomVars, coilVars, contextVars, resolveVars, draftVars, loginVars>>
=============================================================================
