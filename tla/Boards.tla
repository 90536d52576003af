------------------------------- MODULE Boards -------------------------------
(***************************************************************************)
(* The administration of workflow boards: several editors change the       *)
(* canonical configuration, the blueprints of the workflow library and the *)
(* tickets of the boards at the same time, each through the guard of       *)
(* workflow_operation (workflows/locking.py): the operation locks of the   *)
(* teams in canonical order, a reload that must match what was read before *)
(* the locks, the blueprint locks in canonical order, then the checks and  *)
(* one write.                                                              *)
(*                                                                         *)
(*   config    config.yaml; its revision is a hash of its bytes, so the    *)
(*             configuration itself stands for its revision                *)
(*   source    the blueprint sources of every library directory; the       *)
(*             definition stands for the digest of its bytes               *)
(*   tickets   the ticket of each storage namespace, if there is one       *)
(*   op        the operation every editor has under way                    *)
(*                                                                         *)
(* A shape stands for the state of a ticket together with the kinds of its *)
(* field values; a definition declares the shapes it can interpret.        *)
(***************************************************************************)
EXTENDS Integers, FiniteSets

CONSTANTS
    Editors,      \* requests being served, by threads of one or more processes
    Teams,
    Paths,        \* team directories, numbered in the canonical lock order
    Libraries,    \* workflow library directories
    Blueprints,   \* blueprint ids, numbered in the canonical lock order
    Roots,        \* ticket storage directories
    Workflows,    \* generated workflow ids (uuid4), never generated twice
    Shapes,
    Definitions,  \* records [shapes, initial]
    NoBoard,      \* no workflow of this id is configured
    NoTeam,       \* no default team
    Overlaps,     \* pairs {d, e} of directories, one of which contains the other
    Missing,      \* no blueprint source, no ticket
    InitialConfigs, InitialSources, InitialTickets,  \* what the program finds
    MaxOps,       \* bound: operations begun
    MaxEdits      \* bound: sources edited by hand, outside every lock

NoPath == 0
Board == [team : Teams, blueprint : Blueprints, root : Roots, generation : Nat]

ASSUME BoardConstants ==
    /\ Paths \subseteq Nat \ {NoPath} /\ Blueprints \subseteq Nat
    /\ \E top \in Paths \cup Blueprints : \A n \in Paths \cup Blueprints : n <= top
    /\ NoBoard \notin Board
    /\ Missing \notin Definitions /\ MaxOps \in Nat /\ MaxEdits \in Nat
    /\ Definitions \subseteq [shapes : SUBSET Shapes, initial : Shapes]
    /\ \A d \in Definitions : d.initial \in d.shapes
    /\ InitialConfigs \subseteq [library : Libraries, section : BOOLEAN,
                                 default : Teams \cup {NoTeam},
                                 teams : [Teams -> Paths \cup {NoPath}],
                                 boards : [Workflows -> Board \cup {NoBoard}]]
    /\ InitialSources \subseteq [Libraries \X Blueprints -> Definitions \cup {Missing}]
    /\ InitialTickets \subseteq [Roots \X Workflows -> [shape : Shapes, revision : Nat] \cup {Missing}]

VARIABLES config, source, tickets, op,
          retired,     \* history: context digests boards have left behind
          issued,      \* history: workflow ids generated so far
          begun, edits

vars == <<config, source, tickets, op, retired, issued, begun, edits>>

Kinds == {"save_instance", "create_instance", "save_blueprint",
          "create_blueprint", "settings", "team_save", "team_create",
          "team_delete", "ticket_create", "ticket_transition", "patch"}
Phases == {"idle", "open", "chosen", "teams", "blueprints", "body", "verified",
           "asserted"}
Config == [library : Libraries, section : BOOLEAN, default : Teams \cup {NoTeam},
           teams : [Teams -> Paths \cup {NoPath}], boards : [Workflows -> Board \cup {NoBoard}]]
Ticket == [shape : Shapes, revision : Nat]

(* An operation carries the form's arguments, the page it was opened on, the
   configuration it works on (seen) and the source it inspected (read).
   dirty: after the last look at it a source was edited by hand or the library
   was moved. *)
Idle == [pc |-> "idle", needs |-> {}, held |-> {}, heldBlueprints |-> {}]

Context == [binding : Teams \X Workflows \X Roots, blueprint : Blueprints,
            library : Libraries, generation : Nat]

(* What a form or an agent submits. *)
Argument(kind) ==
    CASE kind \in {"save_instance", "create_instance"} ->
           [team : Teams, workflow : Workflows, blueprint : Blueprints, root : Roots]
      [] kind \in {"save_blueprint", "create_blueprint"} ->
           [blueprint : Blueprints, definition : Definitions]
      [] kind = "settings" -> [default : Teams, library : Libraries]
      [] kind = "team_save" -> [team : Teams, path : Paths]
      [] kind = "team_create" -> [new : Teams, path : Paths]
      [] kind = "team_delete" -> [team : Teams]
      [] kind = "ticket_create" -> [team : Teams, workflow : Workflows]
      [] kind = "ticket_transition" ->
           [team : Teams, workflow : Workflows, context : Context,
            digest : Definitions, revision : Nat]
      [] kind = "patch" -> {<<>>}

Arguments ==
    Argument("save_instance") \cup Argument("save_blueprint") \cup Argument("settings")
        \cup Argument("team_save") \cup Argument("team_create") \cup Argument("team_delete")
        \cup Argument("ticket_create") \cup Argument("ticket_transition") \cup Argument("patch")

Operation ==
    [pc : Phases \ {"idle"}, kind : Kinds, arg : Arguments,
     page : Config, seen : Config, read : Definitions \cup {Missing},
     teams : SUBSET Teams, blueprints : SUBSET Blueprints, dirty : BOOLEAN,
     needs : SUBSET Nat, held : SUBSET Paths,
     heldBlueprints : SUBSET (Libraries \X Blueprints)]

-----------------------------------------------------------------------------
(* What the configuration means. *)

Configured(c, w) == c.boards[w] # NoBoard
TeamsOf(c) == {t \in Teams : c.teams[t] # NoPath}

(* resolve_workflow_binding: the storage namespace and the context digest. *)
Namespace(c, w) == <<c.boards[w].root, w>>

ContextDigest(c, w) ==
    [binding |-> <<c.boards[w].team, w, c.boards[w].root>>,
     blueprint |-> c.boards[w].blueprint, library |-> c.library,
     generation |-> c.boards[w].generation]

(* WorkflowLibrary.inspect of a board's blueprint. *)
Inspect(library, b) == source[<<library, b>>]

(* require_compatible *)
Compatible(d, tk) == (tk # Missing) => (tk.shape \in d.shapes)

Readable(w) ==
    LET d == Inspect(config.library, config.boards[w].blueprint) IN
    d # Missing /\ Compatible(d, tickets[Namespace(config, w)])

TeamsUsing(c, b) ==
    {c.boards[w].team : w \in {v \in Workflows :
                                 Configured(c, v) /\ c.boards[v].blueprint = b}}

BindingsUsing(c, b) ==
    {w \in Workflows : Configured(c, w) /\ c.boards[w].blueprint = b}

(* The selection of a board: its blueprint and its storage settings. *)
SelectionChanged(board, b, r) == board.blueprint # b \/ board.root # r

-----------------------------------------------------------------------------
(* The patches of the configuration. *)

(* _apply_workflow_instance_patch, for a stored instance and for a new one. *)
PatchInstance(c, w, b, r) ==
    [c EXCEPT !.boards[w] =
        [team |-> @.team, blueprint |-> b, root |-> r,
         generation |-> @.generation + IF SelectionChanged(@, b, r) THEN 1 ELSE 0]]

CreateInstance(c, t, w, b, r) ==
    [c EXCEPT !.boards[w] =
        [team |-> t, blueprint |-> b, root |-> r, generation |-> 0]]

(* _apply_workflow_library *)
ApplyWorkflowLibrary(c, l) ==
    [c EXCEPT !.library = l,
              !.boards = [w \in Workflows |->
                  IF Configured(c, w) /\ l # c.library
                  THEN [c.boards[w] EXCEPT !.generation = @ + 1] ELSE c.boards[w]]]

PatchFlowgencySettings(c, default, l) ==
    [ApplyWorkflowLibrary(c, l) EXCEPT !.default = default]

(* patch_team_settings_state and create_team_state: a new team has no board. *)
PatchTeam(c, t, p) == [c EXCEPT !.teams[t] = p]
CreateTeam(c, t, p) == [c EXCEPT !.teams[t] = p]

(* The boards of a team go with it, and another team becomes the default. *)
DeleteTeam(c, t) ==
    [c EXCEPT !.teams[t] = NoPath,
              !.default = IF @ # t THEN @
                          ELSE IF TeamsOf(c) = {t} THEN NoTeam
                          ELSE CHOOSE u \in TeamsOf(c) : u # t,
              !.boards = [w \in Workflows |->
                  IF Configured(c, w) /\ @[w].team = t THEN NoBoard ELSE @[w]]]

(* Every other section of the file: profiles, routines, tips, channels. *)
PatchSection(c) == [c EXCEPT !.section = ~@]

-----------------------------------------------------------------------------
(* The configurations that ConfigStore writes. *)

Overlap(d, e) == d = e \/ {d, e} \in Overlaps

(* validate_resolved_paths: the workflow library and the teams' directories
   are disjoint, and so are the boards' storages from all of them.  The stores
   that no operation here moves are left out. *)
TeamDirectories(c) == {c.teams[t] : t \in TeamsOf(c)}

DirectoriesDisjoint(c) ==
    /\ \A t, u \in TeamsOf(c) : t # u => ~Overlap(c.teams[t], c.teams[u])
    /\ \A d \in TeamDirectories(c) : ~Overlap(c.library, d)

StorageDisjoint(c) ==
    \A w \in Workflows : Configured(c, w) =>
        \A d \in TeamDirectories(c) \cup {c.library} : ~Overlap(c.boards[w].root, d)

(* _validate_default_team *)
DefaultDeclared(c) == c.default \in TeamsOf(c) \cup {NoTeam}

(* _validate_workflows: every board is an entry of a declared team and names
   its blueprint and its storage. *)
BoardsComplete(c) ==
    \A w \in Workflows : Configured(c, w) => c.boards[w] \in Board /\ c.boards[w].team \in TeamsOf(c)

Valid(c) ==
    /\ DefaultDeclared(c) /\ BoardsComplete(c)
    /\ DirectoriesDisjoint(c) /\ StorageDisjoint(c)

ASSUME InitialConfigsValid == \A c \in InitialConfigs : Valid(c)

-----------------------------------------------------------------------------
(* Operation locks. *)

Phase(a) == op[a].pc
FreePath(p) == \A a \in Editors : p \notin op[a].held
FreeBlueprint(l) == \A a \in Editors : l \notin op[a].heldBlueprints

(* The operations that have had their last look. *)
Disturbed ==
    [a \in Editors |-> IF Phase(a) \in {"verified", "asserted"}
                      THEN [op[a] EXCEPT !.dirty = TRUE] ELSE op[a]]

Release(a) == op' = [op EXCEPT ![a] = Idle]
Goto(a, pc) == op' = [op EXCEPT ![a].pc = pc]

(* An editor opens a page, or an agent looks at a ticket, and submits: the
   request carries the revision and the digest of that page. *)
Open(a, kind, arg) ==
    /\ Phase(a) = "idle" /\ begun < MaxOps
    /\ op' = [op EXCEPT ![a] = [
                pc |-> IF kind \in {"save_instance", "create_instance", "save_blueprint",
                                    "ticket_create", "ticket_transition"}
                       THEN "open" ELSE "chosen",
                kind |-> kind, arg |-> arg, page |-> config, seen |-> config,
                read |-> IF "blueprint" \in DOMAIN arg
                         THEN Inspect(config.library, arg.blueprint) ELSE Missing,
                teams |-> IF "team" \in DOMAIN arg THEN {arg.team} ELSE {},
                blueprints |-> IF "blueprint" \in DOMAIN arg THEN {arg.blueprint} ELSE {},
                dirty |-> FALSE,
                needs |-> {}, held |-> {}, heldBlueprints |-> {}]]
    /\ begun' = begun + 1
    /\ UNCHANGED <<config, source, tickets, retired, edits>>

(* workflow_settings_save *)
OpenSaveInstance(a, w, b, r) ==
    /\ Configured(config, w)
    /\ Open(a, "save_instance",
            [team |-> config.boards[w].team, workflow |-> w, blueprint |-> b, root |-> r])
    /\ UNCHANGED issued

(* workflow_create_save: the new id is generated for this request. *)
OpenCreateInstance(a, t, w, b, r) ==
    /\ t \in TeamsOf(config) /\ w \notin issued
    /\ Open(a, "create_instance",
            [team |-> t, workflow |-> w, blueprint |-> b, root |-> r])
    /\ issued' = issued \cup {w}

(* save_workflow_blueprint *)
OpenSaveBlueprint(a, b, d) ==
    /\ Inspect(config.library, b) # Missing
    /\ Open(a, "save_blueprint", [blueprint |-> b, definition |-> d])
    /\ UNCHANGED issued

(* create_workflow_blueprint *)
OpenCreateBlueprint(a, b, d) ==
    /\ Open(a, "create_blueprint", [blueprint |-> b, definition |-> d])
    /\ UNCHANGED issued

(* admin_save_settings: all teams are locked; the form offers the page's teams
   as the default one. *)
OpenSettings(a, default, l) ==
    /\ default \in TeamsOf(config)
    /\ Open(a, "settings", [default |-> default, library |-> l])
    /\ UNCHANGED issued

(* admin_team_save, admin_team_create and admin_team_delete *)
OpenTeamSave(a, t, p) ==
    /\ t \in TeamsOf(config)
    /\ Open(a, "team_save", [team |-> t, path |-> p])
    /\ UNCHANGED issued

OpenTeamCreate(a, t, p) ==
    /\ Open(a, "team_create", [new |-> t, path |-> p])
    /\ UNCHANGED issued

OpenTeamDelete(a, t) ==
    /\ t \in TeamsOf(config)
    /\ Open(a, "team_delete", [team |-> t])
    /\ UNCHANGED issued

(* TicketService.create, and a transition by the ticket's working agent.  One
   ticket per namespace is enough to make a board unreadable. *)
OpenTicketCreate(a, w) ==
    /\ Configured(config, w)
    /\ Open(a, "ticket_create", [team |-> config.boards[w].team, workflow |-> w])
    /\ UNCHANGED issued

OpenTicketTransition(a, w) ==
    /\ Configured(config, w) /\ Readable(w)
    /\ tickets[Namespace(config, w)] # Missing
    /\ Open(a, "ticket_transition",
            [team |-> config.boards[w].team, workflow |-> w,
             context |-> ContextDigest(config, w),
             digest |-> Inspect(config.library, config.boards[w].blueprint),
             revision |-> tickets[Namespace(config, w)].revision])
    /\ UNCHANGED issued

OpenPatch(a) == Open(a, "patch", <<>>) /\ UNCHANGED issued

(* The read that only chooses the locks: the board's current blueprint, or
   the teams that use the blueprint. *)
Choose(a) ==
    LET o == op[a]  ticket == o.kind \in {"ticket_create", "ticket_transition"} IN
    /\ o.pc = "open"
    /\ IF ticket /\ ~Configured(config, o.arg.workflow)
       THEN Release(a)
       ELSE op' = [op EXCEPT
              ![a].pc = "chosen",
              ![a].teams = IF o.kind = "save_blueprint"
                           THEN TeamsUsing(config, o.arg.blueprint) ELSE @,
              ![a].blueprints =
                  IF o.kind # "save_blueprint" /\ Configured(config, o.arg.workflow)
                  THEN @ \cup {config.boards[o.arg.workflow].blueprint} ELSE @]
    /\ UNCHANGED <<config, source, tickets, retired, issued, begun, edits>>

(* revision_bound_team_operation: the read that names the lock files. *)
LockPaths(c, o) ==
    {c.teams[t] : t \in IF o.kind = "settings" THEN TeamsOf(c) ELSE o.teams}
        \cup (IF o.kind \in {"team_save", "team_create"} THEN {o.arg.path} ELSE {})

LoadInitial(a) ==
    LET o == op[a] IN
    /\ o.pc = "chosen" /\ o.kind # "patch"
    /\ IF o.teams \subseteq TeamsOf(config)
       THEN op' = [op EXCEPT ![a].pc = "teams", ![a].seen = config,
                             ![a].needs = LockPaths(config, o)]
       ELSE Release(a)
    /\ UNCHANGED <<config, source, tickets, retired, issued, begun, edits>>

\* Mutant: the locks are taken in whatever order they were named.
NextLockAny(needs, n) == n \in needs

(* canonical_team_operation_lock_paths and blueprint_lock_paths: the lowest
   lock that is still missing comes next. *)
NextLock(needs, n) == n \in needs /\ \A m \in needs : n <= m

AcquireTeamLock(a, p) ==
    /\ Phase(a) = "teams" /\ NextLock(op[a].needs, p) /\ FreePath(p)
    /\ op' = [op EXCEPT ![a].needs = @ \ {p}, ![a].held = @ \cup {p}]
    /\ UNCHANGED <<config, source, tickets, retired, issued, begun, edits>>

(* The posted revision, for the operations whose form carries one. *)
ExpectsPage(o) == o.kind \notin {"ticket_create", "ticket_transition"}

ReloadMatches(o) == config = o.seen /\ (ExpectsPage(o) => config = o.page)

(* Operations outside workflow_operation lock no blueprint. *)
BlueprintLocks(o) ==
    IF o.kind \in {"settings", "team_save", "team_create", "team_delete"}
    THEN {} ELSE o.blueprints

Reload(a) ==
    LET o == op[a] IN
    /\ o.pc = "teams" /\ o.needs = {}
    /\ IF ReloadMatches(o)
       THEN op' = [op EXCEPT ![a].pc = "blueprints", ![a].needs = BlueprintLocks(o)]
       ELSE Release(a)
    /\ UNCHANGED <<config, source, tickets, retired, issued, begun, edits>>

AcquireBlueprintLock(a, b) ==
    LET l == <<op[a].seen.library, b>> IN
    /\ Phase(a) = "blueprints" /\ NextLock(op[a].needs, b) /\ FreeBlueprint(l)
    /\ op' = [op EXCEPT ![a].needs = @ \ {b}, ![a].heldBlueprints = @ \cup {l}]
    /\ UNCHANGED <<config, source, tickets, retired, issued, begun, edits>>

(* The guarded body begins.  A board that was rebound since its blueprint was
   chosen for locking is refused, and save_instance inspects its source. *)
EnterBody(a) ==
    LET o == op[a]
        w == o.arg.workflow
        b == o.arg.blueprint
        d == Inspect(o.seen.library, b)
    IN
    /\ o.pc = "blueprints" /\ o.needs = {}
    /\ CASE o.kind \in {"ticket_create", "ticket_transition"} ->
              IF Configured(o.seen, w) /\ o.seen.boards[w].blueprint \in o.blueprints
              THEN Goto(a, "body") ELSE Release(a)
         [] o.kind \in {"save_instance", "create_instance"} ->
              IF d # Missing
              THEN op' = [op EXCEPT ![a].pc = "body", ![a].read = d] ELSE Release(a)
         [] OTHER -> Goto(a, "body")
    /\ UNCHANGED <<config, source, tickets, retired, issued, begun, edits>>

-----------------------------------------------------------------------------
(* The guarded bodies. *)

\* Mutant: the tickets of the destination are not looked at.
InstanceAcceptableBlind(o) == Inspect(o.seen.library, o.arg.blueprint) = o.read

(* save_instance up to its commit: the destination's tickets are checked when
   the selection changes, and the source is inspected a second time. *)
InstanceAcceptable(o) ==
    LET w == o.arg.workflow  b == o.arg.blueprint  r == o.arg.root IN
    /\ (o.kind = "create_instance" \/ SelectionChanged(o.seen.boards[w], b, r))
          => Compatible(o.read, tickets[<<r, w>>])
    /\ Inspect(o.seen.library, b) = o.read

(* save_blueprint: the digest of the page, and every board that uses it. *)
BlueprintAcceptable(o) ==
    LET b == o.arg.blueprint IN
    /\ Inspect(o.seen.library, b) = o.read
    /\ \A w \in BindingsUsing(o.seen, b) :
          Compatible(o.arg.definition, tickets[Namespace(o.seen, w)])

(* _mutate: the version the agent acted on must be the current one. *)
VersionCurrent(o) ==
    LET w == o.arg.workflow
        tk == tickets[Namespace(o.seen, w)]
    IN
    /\ ContextDigest(o.seen, w) = o.arg.context
    /\ Inspect(o.seen.library, o.seen.boards[w].blueprint) = o.arg.digest
    /\ tk # Missing /\ tk.revision = o.arg.revision

(* The definition a ticket operation works with. *)
DefinitionOf(o) == Inspect(o.seen.library, o.seen.boards[o.arg.workflow].blueprint)

Verify(a) ==
    LET o == op[a] IN
    /\ o.pc = "body"
    /\ o.kind \in {"save_instance", "create_instance", "save_blueprint",
                   "ticket_create", "ticket_transition"}
    /\ IF CASE o.kind \in {"save_instance", "create_instance"} -> InstanceAcceptable(o)
            [] o.kind = "save_blueprint" -> BlueprintAcceptable(o)
            [] o.kind = "ticket_create" ->
                  DefinitionOf(o) # Missing /\ tickets[Namespace(o.seen, o.arg.workflow)] = Missing
            [] o.kind = "ticket_transition" -> VersionCurrent(o)
       THEN op' = [op EXCEPT ![a].pc = "verified",
                             ![a].read = IF o.kind \in {"ticket_create", "ticket_transition"}
                                         THEN DefinitionOf(o) ELSE @]
       ELSE Release(a)
    /\ UNCHANGED <<config, source, tickets, retired, issued, begun, edits>>

\* Mutant: the patched configuration is stored without being validated.
CommitConfigUnvalidated(a, expected, c) ==
    /\ IF config = expected THEN config' = c ELSE UNCHANGED config
    /\ op' = [op EXCEPT ![a] = Idle]
    /\ UNCHANGED <<source, tickets, retired, issued, begun, edits>>

(* ConfigStore.patch: compare and set under the configuration lock.  The
   digests of boards that change are history from here on. *)
CommitConfig(a, expected, c) ==
    /\ IF config = expected /\ Valid(c)
       THEN /\ config' = c
            /\ retired' = retired \cup
                 {ContextDigest(config, w) : w \in {v \in Workflows :
                     /\ Configured(config, v)
                     /\ Configured(c, v) => ContextDigest(c, v) # ContextDigest(config, v)}}
       ELSE UNCHANGED <<config, retired>>
    /\ op' = [IF config'.library # config.library THEN Disturbed ELSE op EXCEPT ![a] = Idle]
    /\ UNCHANGED <<source, tickets, issued, begun, edits>>

SaveInstance(a) ==
    LET o == op[a] IN
    /\ o.pc = "verified"
    /\ \/ /\ o.kind = "save_instance"
          /\ CommitConfig(a, o.seen, PatchInstance(o.seen, o.arg.workflow, o.arg.blueprint, o.arg.root))
       \/ /\ o.kind = "create_instance"
          /\ CommitConfig(a, o.seen, CreateInstance(o.seen, o.arg.team, o.arg.workflow,
                                                    o.arg.blueprint, o.arg.root))

SaveSettings(a) ==
    LET o == op[a] IN
    /\ o.pc = "body" /\ o.kind = "settings"
    /\ CommitConfig(a, o.page, PatchFlowgencySettings(o.seen, o.arg.default, o.arg.library))

SaveTeam(a) ==
    LET o == op[a] IN
    /\ o.pc = "body"
    /\ \/ o.kind = "team_save" /\ CommitConfig(a, o.seen, PatchTeam(o.seen, o.arg.team, o.arg.path))
       \/ /\ o.kind = "team_create"
          /\ IF o.arg.new \in TeamsOf(o.seen)
             THEN /\ Release(a)
                  /\ UNCHANGED <<config, source, tickets, retired, issued, begun, edits>>
             ELSE CommitConfig(a, o.seen, CreateTeam(o.seen, o.arg.new, o.arg.path))
       \/ o.kind = "team_delete" /\ CommitConfig(a, o.seen, DeleteTeam(o.seen, o.arg.team))

(* The sections that are patched without any team lock. *)
SaveSection(a) ==
    /\ Phase(a) = "chosen" /\ op[a].kind = "patch"
    /\ CommitConfig(a, op[a].page, PatchSection(op[a].page))

(* _assert_config_unchanged *)
AssertConfigUnchanged(a) ==
    LET o == op[a] IN
    /\ \/ o.pc = "verified" /\ o.kind = "save_blueprint"
       \/ o.pc = "body" /\ o.kind = "create_blueprint"
    /\ IF config = o.seen THEN Goto(a, "asserted") ELSE Release(a)
    /\ UNCHANGED <<config, source, tickets, retired, issued, begun, edits>>

(* write_candidate, after a last look at the bytes it replaces, and
   create_candidate, which never replaces any. *)
PublishBlueprint(a) ==
    LET o == op[a]
        key == <<o.seen.library, o.arg.blueprint>>
    IN
    /\ o.pc = "asserted"
    /\ source' = IF source[key] = (IF o.kind = "save_blueprint" THEN o.read ELSE Missing)
                 THEN [source EXCEPT ![key] = o.arg.definition] ELSE source
    /\ Release(a)
    /\ UNCHANGED <<config, tickets, retired, issued, begun, edits>>

(* _require_current_contract: a changed revision is tolerated as long as the
   board's binding and the definition's digest are the same. *)
ContractCurrent(o) ==
    LET w == o.arg.workflow IN
    /\ Configured(config, w)
    /\ ContextDigest(config, w) = ContextDigest(o.seen, w)
    /\ Inspect(config.library, config.boards[w].blueprint) = o.read

WriteTicket(a) ==
    LET o == op[a]
        ns == Namespace(o.seen, o.arg.workflow)
    IN
    /\ o.pc = "verified" /\ o.kind \in {"ticket_create", "ticket_transition"}
    /\ IF ContractCurrent(o)
       THEN \E s \in IF o.kind = "ticket_create" THEN {o.read.initial} ELSE o.read.shapes :
              tickets' = [tickets EXCEPT ![ns] =
                  [shape |-> s, revision |-> IF @ = Missing THEN 1 ELSE @.revision + 1]]
       ELSE UNCHANGED tickets
    /\ Release(a)
    /\ UNCHANGED <<config, source, retired, issued, begun, edits>>

(* A request fails or its process dies: what it holds is released. *)
Abandon(a) ==
    /\ Phase(a) \notin {"idle", "open", "chosen"}
    /\ Release(a)
    /\ UNCHANGED <<config, source, tickets, retired, issued, begun, edits>>

(* Somebody edits a source with a text editor, which takes no lock. *)
ExternalEdit(l, b, d) ==
    /\ edits < MaxEdits /\ source[<<l, b>>] # d
    /\ source' = [source EXCEPT ![<<l, b>>] = d]
    /\ op' = Disturbed
    /\ edits' = edits + 1
    /\ UNCHANGED <<config, tickets, retired, issued, begun>>

-----------------------------------------------------------------------------
(* A configuration whose boards can be read; the other namespaces may hold
   tickets of boards that are bound elsewhere now. *)
Init ==
    /\ config \in InitialConfigs
    /\ source \in InitialSources
    /\ tickets \in InitialTickets
    /\ issued = {w \in Workflows : Configured(config, w)}
    /\ \A w \in issued : Readable(w)
    /\ \A r \in Roots, w \in Workflows \ issued : tickets[<<r, w>>] = Missing
    /\ op = [a \in Editors |-> Idle]
    /\ retired = {} /\ begun = 0 /\ edits = 0

Opens(a) ==
    \/ \E w \in Workflows, b \in Blueprints, r \in Roots : OpenSaveInstance(a, w, b, r)
    \/ \E t \in Teams, w \in Workflows, b \in Blueprints, r \in Roots :
          OpenCreateInstance(a, t, w, b, r)
    \/ \E b \in Blueprints, d \in Definitions :
          OpenSaveBlueprint(a, b, d) \/ OpenCreateBlueprint(a, b, d)
    \/ \E default \in Teams, l \in Libraries : OpenSettings(a, default, l)
    \/ \E t \in Teams, p \in Paths : OpenTeamSave(a, t, p) \/ OpenTeamCreate(a, t, p)
    \/ \E t \in Teams : OpenTeamDelete(a, t)
    \/ \E w \in Workflows : OpenTicketCreate(a, w) \/ OpenTicketTransition(a, w)
    \/ OpenPatch(a)

Guard(a) ==
    \/ Choose(a) \/ LoadInitial(a) \/ Reload(a) \/ EnterBody(a)
    \/ \E p \in Paths : AcquireTeamLock(a, p)
    \/ \E b \in Blueprints : AcquireBlueprintLock(a, b)

Body(a) ==
    \/ Verify(a) \/ SaveInstance(a) \/ SaveSettings(a) \/ SaveTeam(a) \/ SaveSection(a)
    \/ AssertConfigUnchanged(a) \/ PublishBlueprint(a) \/ WriteTicket(a)

Next ==
    \/ \E a \in Editors : Opens(a) \/ Guard(a) \/ Body(a) \/ Abandon(a)
    \/ \E l \in Libraries, b \in Blueprints, d \in Definitions \cup {Missing} :
          ExternalEdit(l, b, d)

Spec == Init /\ [][Next]_vars

-----------------------------------------------------------------------------
(* Every variable has its type, and every configuration that is stored would
   be accepted by ConfigStore. *)
TypeOK ==
    /\ config \in Config /\ Valid(config)
    /\ source \in [Libraries \X Blueprints -> Definitions \cup {Missing}]
    /\ tickets \in [Roots \X Workflows -> Ticket \cup {Missing}]
    /\ op \in [Editors -> Operation \cup {Idle}]
    /\ \A a \in Editors : Phase(a) # "idle" => op[a].arg \in Argument(op[a].kind)
    /\ retired \subseteq Context
    /\ issued \subseteq Workflows /\ begun \in 0..MaxOps /\ edits \in 0..MaxEdits

(* Cooperating writers never leave a board with a ticket its blueprint cannot
   interpret.  A step that leaves a board unreadable, although it was readable
   before or has just been given this blueprint and storage, moves the library
   or edits a source by hand, or it is the write of an operation during whose
   last moments a source was edited by hand or the library was moved (and moved
   back: config.yaml then says what the operation read). *)
Breaks(w) ==
    /\ Configured(config', w) /\ ~Readable(w)'
    /\ \/ ~Configured(config, w)
       \/ Readable(w)
       \/ SelectionChanged(config.boards[w], config'.boards[w].blueprint, config'.boards[w].root)

BoardsStayReadable ==
    [][\A w \in Workflows :
          Breaks(w) => \/ config'.library # config.library
                       \/ edits' # edits
                       \/ \E a \in Editors : op[a] # Idle /\ op'[a] = Idle /\ op[a].dirty]_vars

(* A context digest that a board has left behind never identifies a board
   again, whatever sequence of rebinding, library moves, deletion and
   re-creation follows: a ticket page, a queued job or a reservation that
   holds it stays fenced off. *)
RetiredContextsStayRetired ==
    \A w \in Workflows : Configured(config, w) => ContextDigest(config, w) \notin retired

(* Writers that wait for each other's locks can always be untangled: no group
   of operations is such that each of them waits for a lock another one of the
   group holds. *)
WaitsFor(a, b) ==
    \/ Phase(a) = "teams" /\ \E p \in op[a].needs : NextLock(op[a].needs, p) /\ p \in op[b].held
    \/ /\ Phase(a) = "blueprints"
       /\ \E n \in op[a].needs : /\ NextLock(op[a].needs, n)
                                 /\ <<op[a].seen.library, n>> \in op[b].heldBlueprints

NoCircularWait ==
    \A group \in SUBSET Editors :
        group # {} => \E a \in group : \A b \in group : ~WaitsFor(a, b)

(* Board instances are well formed and their contexts are never confused. *)
ContextsSound == TypeOK /\ RetiredContextsStayRetired
=============================================================================
