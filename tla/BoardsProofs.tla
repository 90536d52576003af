---------------------------- MODULE BoardsProofs ----------------------------
(***************************************************************************)
(* Proofs about Boards for any number of editors, teams, boards,          *)
(* blueprints, libraries and operations: contexts are never confused, the  *)
(* locks are taken in an order that rules out circular waits, and          *)
(* cooperating writers leave every board readable.                         *)
(*                                                                         *)
(* The argument rests on three facts.  A copy of the configuration that an *)
(* operation carries either still agrees with the stored one about a       *)
(* board, or the board has been left behind for good: its generation has   *)
(* grown or its id is gone and never issued again (CopiesFollow).  An      *)
(* operation past its reload holds the locks of all the blueprints it      *)
(* named, and nobody else does (LocksHeld, LocksExclusive).  What an       *)
(* operation verified therefore stays true until it writes, unless the     *)
(* board it looked at was left behind (VerifiedStays).                     *)
(***************************************************************************)
EXTENDS Boards, WellFoundedInduction, TLAPS

Busy(a) == Phase(a) # "idle"
Guarded == {"body", "verified", "asserted"}
Reloaded == Guarded \cup {"blueprints"}

(* The board of w has changed since the copy c was made, for good. *)
LeftBehind(c, w) ==
    config.boards[w] = NoBoard \/ config.boards[w].generation > c.boards[w].generation

Follows(c) ==
    \A w \in Workflows : Configured(c, w) =>
        /\ w \in issued
        /\ \/ config.boards[w] = c.boards[w] /\ config.library = c.library
           \/ LeftBehind(c, w)

(* Every id in the configuration was issued. *)
IdsIssued == \A w \in Workflows : Configured(config, w) => w \in issued

(* The copies of the configuration that an operation carries follow it. *)
CopiesFollow(o) == Follows(o.page) /\ Follows(o.seen)

(* The id of a board about to be created is nobody else's. *)
Creating(a, w) == Busy(a) /\ op[a].kind = "create_instance" /\ op[a].arg.workflow = w

NewIdsFresh ==
    \A a \in Editors, w \in Workflows : Creating(a, w) =>
        /\ w \in issued /\ ~Configured(config, w)
        /\ \A d \in retired : d.binding[2] # w
        /\ \A b \in Editors : Busy(b) => /\ ~Configured(op[b].page, w)
                                         /\ ~Configured(op[b].seen, w)
                                         /\ Creating(b, w) => b = a

(* A retired context is older than the context its board has now. *)
Older(d) ==
    LET w == d.binding[2] IN
    w \in issued /\ (Configured(config, w) => d.generation < config.boards[w].generation)

RetiredOlder == \A d \in retired : Older(d)

(* Which kinds reach which phase, and that a reload compared the page. *)
PhaseFits(o) ==
    /\ o.pc = "asserted" => o.kind \in {"save_blueprint", "create_blueprint"}
    /\ o.pc \in {"open", "verified"} => o.kind \in {"save_instance", "create_instance",
           "save_blueprint", "ticket_create", "ticket_transition"}
    /\ o.pc \in Reloaded /\ ExpectsPage(o) => o.seen = o.page
    /\ o.kind \in {"save_instance", "create_instance", "save_blueprint", "create_blueprint"} =>
          o.arg.blueprint \in o.blueprints
    /\ o.pc \in Guarded /\ o.kind \in {"save_instance", "create_instance"} => o.read # Missing
    /\ o.pc = "verified" /\ o.kind \in {"ticket_create", "ticket_transition"} => o.read # Missing

(* The locks an operation chose cover the boards it is about. *)
LocksChosen(o) ==
    LET w == o.arg.workflow IN
    /\ o.kind = "save_instance" =>
          /\ Configured(o.page, w)
          /\ \/ o.pc = "open"
             \/ o.page.boards[w].blueprint \in o.blueprints
             \/ LeftBehind(o.page, w)
    /\ o.kind \in {"ticket_create", "ticket_transition"} /\ o.pc \in Guarded =>
          Configured(o.seen, w) /\ o.seen.boards[w].blueprint \in o.blueprints

(* The locks an operation holds, and that the ones it lacks come later. *)
LocksHeld(o) ==
    /\ \A l \in o.heldBlueprints :
          /\ o.pc \in Reloaded /\ l[1] = o.seen.library
          /\ o.pc = "blueprints" => \A n \in o.needs : l[2] < n
    /\ o.pc \in Reloaded => \A b \in BlueprintLocks(o) :
          \/ o.pc = "blueprints" /\ b \in o.needs
          \/ <<o.seen.library, b>> \in o.heldBlueprints
    /\ o.pc \in {"open", "chosen"} => o.held = {}
    /\ o.pc = "teams" => /\ o.needs \subseteq Paths
                         /\ \A p \in o.held, n \in o.needs : p < n
    /\ o.pc = "blueprints" => o.needs \subseteq Blueprints

LocksExclusive ==
    \A a, b \in Editors : a # b => op[a].heldBlueprints \cap op[b].heldBlueprints = {}

(* What an operation has verified and not yet written stays true. *)
InstanceStays(o) ==
    LET w == o.arg.workflow  b == o.arg.blueprint  r == o.arg.root IN
    /\ o.dirty \/ Inspect(o.seen.library, b) = o.read
    /\ (o.kind = "create_instance" \/ SelectionChanged(o.seen.boards[w], b, r)) =>
          \/ Compatible(o.read, tickets[<<r, w>>])
          \/ o.kind = "save_instance" /\ LeftBehind(o.seen, w)

BlueprintStays(o) ==
    \A w \in BindingsUsing(o.seen, o.arg.blueprint) :
        \/ Compatible(o.arg.definition, tickets[Namespace(o.seen, w)])
        \/ LeftBehind(o.seen, w)

PublicationStays(o) ==
    ~o.dirty /\ config.library = o.seen.library =>
        \A w \in BindingsUsing(config, o.arg.blueprint) :
            Compatible(o.arg.definition, tickets[Namespace(config, w)])

VerifiedStays(o) ==
    /\ o.pc = "verified" /\ o.kind \in {"save_instance", "create_instance"} => InstanceStays(o)
    /\ o.pc = "verified" /\ o.kind = "save_blueprint" => BlueprintStays(o)
    /\ o.pc = "asserted" /\ o.kind = "save_blueprint" => PublicationStays(o)

Sound(o) ==
    CopiesFollow(o) /\ PhaseFits(o) /\ LocksChosen(o) /\ LocksHeld(o) /\ VerifiedStays(o)

OperationsSound == \A a \in Editors : Busy(a) => Sound(op[a])

Inv ==
    /\ TypeOK /\ IdsIssued /\ NewIdsFresh /\ RetiredOlder /\ OperationsSound /\ LocksExclusive

-----------------------------------------------------------------------------
(* An operation that is under way carries all its fields. *)
LEMMA BusyTyped == ASSUME TypeOK, NEW a \in Editors, Busy(a) PROVE op[a] \in Operation
BY DEF TypeOK, Busy, Phase, Idle

(* The configuration follows itself. *)
LEMMA FollowsNow == ASSUME IdsIssued PROVE Follows(config)
BY DEF IdsIssued, Follows

(* While the configuration, the sources and the tickets stay, what is known of an
   operation stays true. *)
LEMMA SoundStays ==
    ASSUME UNCHANGED <<config, source, tickets>>, issued \subseteq issued'
    PROVE  \A o : Sound(o) => Sound(o)'
<1> SUFFICES ASSUME NEW o, Sound(o) PROVE Sound(o)'
  OBVIOUS
<1>1. CopiesFollow(o)'
  BY DEF Sound, CopiesFollow, Follows, LeftBehind, Configured
<1>2. PhaseFits(o)'
  BY DEF Sound, PhaseFits, ExpectsPage
<1>3. LocksChosen(o)'
  BY DEF Sound, LocksChosen, LeftBehind, Configured
<1>4. LocksHeld(o)'
  BY DEF Sound, LocksHeld, BlueprintLocks
<1>5. InstanceStays(o) => InstanceStays(o)'
  BY DEF InstanceStays, Inspect, Compatible, LeftBehind, SelectionChanged, Configured
<1>6. BlueprintStays(o) => BlueprintStays(o)'
  BY DEF BlueprintStays, BindingsUsing, Compatible, Namespace, LeftBehind, Configured
<1>7. PublicationStays(o) => PublicationStays(o)'
  BY DEF PublicationStays, BindingsUsing, Compatible, Namespace, Configured
<1>8. VerifiedStays(o)'
  BY <1>5, <1>6, <1>7 DEF Sound, VerifiedStays
<1> QED BY <1>1, <1>2, <1>3, <1>4, <1>8 DEF Sound

(* The step of one operation that writes nothing but its own record: it keeps
   what was submitted, and its own part of the invariant is shown. *)
LEMMA AdvanceStep ==
    ASSUME Inv, NEW a \in Editors, Busy(a),
           UNCHANGED <<config, source, tickets, retired, issued, begun, edits>>,
           op' \in [Editors -> Operation \cup {Idle}], op'[a] \in Operation,
           \A b \in Editors \ {a} : op'[b] = op[b],
           op'[a].kind = op[a].kind, op'[a].arg = op[a].arg, op'[a].page = op[a].page,
           op'[a].seen \in {op[a].seen, config},
           \A b \in Editors \ {a} : op'[a].heldBlueprints \cap op[b].heldBlueprints = {},
           PhaseFits(op'[a]), LocksChosen(op'[a]), LocksHeld(op'[a]), VerifiedStays(op'[a])
    PROVE  Inv'
<1>1. op'[a].pc # "idle" BY DEF Operation
<1>2. \A b \in Editors : Busy(b)' <=> Busy(b)
  BY <1>1 DEF Busy, Phase
<1>4. \A o : Sound(o) => Sound(o)'
  BY SoundStays
<1>5. TypeOK'
  BY <1>1 DEF Inv, TypeOK, Busy, Phase, Config, Valid, DefaultDeclared, BoardsComplete,
         DirectoriesDisjoint, StorageDisjoint, Ticket
<1>6. IdsIssued' BY DEF Inv, IdsIssued, Configured
<1>7. NewIdsFresh'
  <2>1. \A b \in Editors, w \in Workflows : Creating(b, w)' <=> Creating(b, w)
    BY <1>2 DEF Creating
  <2>2. \A c, w : Configured(c, w)' <=> Configured(c, w) BY DEF Configured
  <2> QED BY <1>2, <2>1, <2>2 DEF Inv, NewIdsFresh
<1>8. RetiredOlder' BY DEF Inv, RetiredOlder, Older, Configured
<1>9. CopiesFollow(op'[a])
  BY FollowsNow DEF Inv, OperationsSound, Sound, CopiesFollow
<1>10. OperationsSound'
  BY <1>2, <1>4, <1>9 DEF Inv, OperationsSound, Sound
<1>11. LocksExclusive' BY DEF Inv, LocksExclusive
<1> QED BY <1>5, <1>6, <1>7, <1>8, <1>10, <1>11 DEF Inv

(* An operation that ends without writing anything. *)
LEMMA ReleaseStep ==
    ASSUME Inv, NEW a \in Editors, Release(a),
           UNCHANGED <<config, source, tickets, retired, issued, begun, edits>>
    PROVE  Inv'
<1>1. op' \in [Editors -> Operation \cup {Idle}] /\ op'[a] = Idle
      /\ \A b \in Editors \ {a} : op'[b] = op[b]
  BY DEF Release, Inv, TypeOK
<1>2. \A b \in Editors : Busy(b)' <=> b # a /\ Busy(b)
  BY <1>1 DEF Busy, Phase, Idle
<1>3. \A c : Follows(c)' <=> Follows(c) BY DEF Follows, LeftBehind, Configured
<1>4. \A o : Sound(o)' <=> Sound(o)
  BY <1>3 DEF Sound, CopiesFollow, PhaseFits, LocksChosen, LocksHeld, VerifiedStays, InstanceStays,
         BlueprintStays, PublicationStays, LeftBehind, Configured, Inspect, Compatible,
         Namespace, BindingsUsing, ExpectsPage, BlueprintLocks, SelectionChanged
<1>5. TypeOK'
  BY <1>1 DEF Inv, TypeOK, Phase, Idle, Config, Valid, DefaultDeclared, BoardsComplete,
         DirectoriesDisjoint, StorageDisjoint, Ticket
<1>6. IdsIssued' BY DEF Inv, IdsIssued, Configured
<1>7. NewIdsFresh'
  <2>1. \A b \in Editors, w \in Workflows : Creating(b, w)' <=> b # a /\ Creating(b, w)
    BY <1>1, <1>2 DEF Creating
  <2>2. \A c, w : Configured(c, w)' <=> Configured(c, w) BY DEF Configured
  <2> QED BY <1>1, <1>2, <2>1, <2>2 DEF Inv, NewIdsFresh
<1>8. RetiredOlder' BY DEF Inv, RetiredOlder, Older, Configured
<1>9. OperationsSound' BY <1>1, <1>2, <1>4 DEF Inv, OperationsSound
<1>10. LocksExclusive' BY <1>1 DEF Inv, LocksExclusive, Idle
<1> QED BY <1>5, <1>6, <1>7, <1>8, <1>9, <1>10 DEF Inv

-----------------------------------------------------------------------------
(* The steps up to the guarded body. *)

(* The board an argument names. *)
LEMMA ArgumentsNamed ==
    ASSUME TypeOK, NEW a \in Editors, Busy(a)
    PROVE  /\ op[a].kind \in {"save_instance", "create_instance", "ticket_create",
                              "ticket_transition"} => op[a].arg.workflow \in Workflows
           /\ op[a].kind \in {"save_instance", "create_instance", "save_blueprint",
                              "create_blueprint"} => op[a].arg.blueprint \in Blueprints
           /\ op[a].kind \in {"save_instance", "create_instance"} =>
                 op[a].arg.root \in Roots /\ op[a].arg.team \in Teams
           /\ op[a].kind \in {"save_blueprint", "create_blueprint"} =>
                 op[a].arg.definition \in Definitions
           /\ op[a].kind = "settings" =>
                 op[a].arg.default \in Teams /\ op[a].arg.library \in Libraries
           /\ op[a].kind \in {"team_save", "team_create"} => op[a].arg.path \in Paths
           /\ op[a].kind \in {"team_save", "team_delete"} => op[a].arg.team \in Teams
           /\ op[a].kind = "team_create" => op[a].arg.new \in Teams
<1>1. op[a].arg \in Argument(op[a].kind) BY DEF TypeOK, Busy
<1>2. op[a].kind \in Kinds BY BusyTyped DEF Operation
<1> QED BY <1>1, <1>2 DEF Argument, Kinds

(* The read that chooses the locks: where the page shows another blueprint than
   the configuration, its board has been left behind. *)
LEMMA ChooseStep == ASSUME Inv, NEW a \in Editors, Choose(a) PROVE Inv'
<1> DEFINE o == op[a]
           q == op'[a]
           w == o.arg.workflow
<1>1. CASE Release(a) BY <1>1, ReleaseStep DEF Choose
<1>2. CASE ~Release(a)
  <2>1. Busy(a) /\ o \in Operation /\ o.pc = "open"
    BY BusyTyped DEF Choose, Busy, Phase, Inv
  <2>2. op \in [Editors -> Operation \cup {Idle}] /\ config \in Config BY DEF Inv, TypeOK
  <2>3. Sound(o) BY <2>1 DEF Inv, OperationsSound
  <2>4. o.kind \in {"save_instance", "create_instance", "save_blueprint",
                    "ticket_create", "ticket_transition"}
    BY <2>1, <2>3 DEF Sound, PhaseFits
  <2> DEFINE T == IF o.kind = "save_blueprint"
                  THEN TeamsUsing(config, o.arg.blueprint) ELSE o.teams
             B == IF o.kind # "save_blueprint" /\ Configured(config, w)
                  THEN o.blueprints \cup {config.boards[w].blueprint} ELSE o.blueprints
  <2>5. op' = [op EXCEPT ![a].pc = "chosen", ![a].teams = T, ![a].blueprints = B]
    BY <1>2 DEF Choose
  <2>6. T \in SUBSET Teams
    BY <2>1, <2>2 DEF TeamsUsing, Configured, Config, Board, Operation
  <2>7. B \in SUBSET Blueprints
    BY <2>1, <2>2, <2>4, ArgumentsNamed DEF Inv, Configured, Config, Board, Operation
  <2> HIDE DEF T
  <2>8. /\ q.pc = "chosen" /\ q.blueprints = B /\ q.kind = o.kind /\ q.arg = o.arg
        /\ q.page = o.page /\ q.seen = o.seen /\ q.held = o.held
        /\ q.heldBlueprints = o.heldBlueprints
        /\ \A b \in Editors \ {a} : op'[b] = op[b]
    <3> HIDE DEF B
    <3> QED BY <2>1, <2>2, <2>5 DEF Operation
  <2>9. op' \in [Editors -> Operation \cup {Idle}] /\ q \in Operation
    <3> DEFINE r == [o EXCEPT !.pc = "chosen", !.teams = T, !.blueprints = B]
    <3> HIDE DEF B
    <3>1. r \in Operation BY <2>1, <2>6, <2>7 DEF Operation, Phases
    <3>2. op' = [op EXCEPT ![a] = r] BY <2>2, <2>5
    <3> QED BY <3>1, <3>2, <2>2
  <2>10. PhaseFits(q) BY <2>3, <2>8 DEF Sound, PhaseFits, Reloaded, Guarded
  <2>11. LocksChosen(q)
    <3>1. ASSUME o.kind = "save_instance"
          PROVE  q.page.boards[w].blueprint \in B \/ LeftBehind(q.page, w)
      <4>1. Configured(o.page, w) /\ w \in Workflows
        BY <3>1, <2>1, <2>3, ArgumentsNamed DEF Inv, Sound, LocksChosen
      <4>2. \/ config.boards[w] = o.page.boards[w] /\ Configured(config, w)
            \/ LeftBehind(o.page, w)
        BY <4>1, <2>3 DEF Sound, CopiesFollow, Follows, Configured
      <4> QED BY <3>1, <4>2, <2>8
    <3> QED BY <2>3, <2>8, <3>1 DEF Sound, LocksChosen, Guarded
  <2>12. LocksHeld(q) BY <2>1, <2>3, <2>8 DEF Sound, LocksHeld, Reloaded, Guarded
  <2>13. VerifiedStays(q) BY <2>8 DEF VerifiedStays
  <2>14. \A b \in Editors \ {a} : q.heldBlueprints \cap op[b].heldBlueprints = {}
    BY <2>8 DEF Inv, LocksExclusive
  <2> HIDE DEF B
  <2> QED BY <2>1, <2>8, <2>9, <2>10, <2>11, <2>12, <2>13, <2>14, AdvanceStep DEF Choose
<1> QED BY <1>1, <1>2

(* The locks that revision_bound_team_operation names. *)
LEMMA LockPathsType ==
    ASSUME TypeOK, NEW a \in Editors, Busy(a), op[a].teams \subseteq TeamsOf(config)
    PROVE  LockPaths(config, op[a]) \subseteq Paths
BY BusyTyped, ArgumentsNamed DEF TypeOK, LockPaths, TeamsOf, Config

(* The first read: the copy of the configuration is the stored one, and no
   lock is held yet. *)
LEMMA LoadInitialStep == ASSUME Inv, NEW a \in Editors, LoadInitial(a) PROVE Inv'
<1> DEFINE o == op[a]
           q == op'[a]
<1>1. CASE Release(a) BY <1>1, ReleaseStep DEF LoadInitial
<1>2. CASE ~Release(a)
  <2>1. Busy(a) /\ o \in Operation /\ o.pc = "chosen" /\ o.teams \subseteq TeamsOf(config)
    BY <1>2, BusyTyped DEF LoadInitial, Busy, Phase, Inv
  <2>2. op \in [Editors -> Operation \cup {Idle}] /\ config \in Config BY DEF Inv, TypeOK
  <2>3. Sound(o) BY <2>1 DEF Inv, OperationsSound
  <2> DEFINE N == LockPaths(config, o)
  <2>4. op' = [op EXCEPT ![a].pc = "teams", ![a].seen = config, ![a].needs = N]
    BY <1>2 DEF LoadInitial
  <2>5. N \in SUBSET Paths /\ N \in SUBSET Nat
    BY <2>1, LockPathsType, BoardConstants DEF Inv
  <2> HIDE DEF N
  <2>6. /\ q.pc = "teams" /\ q.seen = config /\ q.needs = N /\ q.kind = o.kind /\ q.arg = o.arg
        /\ q.page = o.page /\ q.blueprints = o.blueprints /\ q.held = o.held
        /\ q.heldBlueprints = o.heldBlueprints
        /\ \A b \in Editors \ {a} : op'[b] = op[b]
    BY <2>1, <2>2, <2>4 DEF Operation
  <2>7. op' \in [Editors -> Operation \cup {Idle}] /\ q \in Operation
    <3> DEFINE r == [o EXCEPT !.pc = "teams", !.seen = config, !.needs = N]
    <3>1. r \in Operation BY <2>1, <2>2, <2>5 DEF Operation, Phases
    <3>2. op' = [op EXCEPT ![a] = r] BY <2>2, <2>4
    <3> QED BY <3>1, <3>2, <2>2
  <2>8. PhaseFits(q) BY <2>3, <2>6 DEF Sound, PhaseFits, Reloaded, Guarded
  <2>9. LocksChosen(q) BY <2>1, <2>3, <2>6 DEF Sound, LocksChosen, Guarded
  <2>10. LocksHeld(q) BY <2>1, <2>3, <2>5, <2>6 DEF Sound, LocksHeld, Reloaded, Guarded
  <2>11. VerifiedStays(q) BY <2>6 DEF VerifiedStays
  <2>12. \A b \in Editors \ {a} : q.heldBlueprints \cap op[b].heldBlueprints = {}
    BY <2>6 DEF Inv, LocksExclusive
  <2> QED BY <2>1, <2>6, <2>7, <2>8, <2>9, <2>10, <2>11, <2>12, AdvanceStep DEF LoadInitial
<1> QED BY <1>1, <1>2

(* A team lock: the ones still missing are higher than it. *)
LEMMA TeamLockStep == ASSUME Inv, NEW a \in Editors, NEW p \in Paths, AcquireTeamLock(a, p) PROVE Inv'
<1> DEFINE o == op[a]
           q == op'[a]
<1>1. Busy(a) /\ o \in Operation /\ o.pc = "teams"
  BY BusyTyped DEF AcquireTeamLock, Busy, Phase, Inv
<1>2. op \in [Editors -> Operation \cup {Idle}] BY DEF Inv, TypeOK
<1>3. Sound(o) BY <1>1 DEF Inv, OperationsSound
<1>4. op' = [op EXCEPT ![a].needs = o.needs \ {p}, ![a].held = o.held \cup {p}]
  BY DEF AcquireTeamLock
<1>5. /\ q.pc = "teams" /\ q.seen = o.seen /\ q.needs = o.needs \ {p} /\ q.held = o.held \cup {p}
      /\ q.kind = o.kind /\ q.arg = o.arg /\ q.page = o.page /\ q.blueprints = o.blueprints
      /\ q.heldBlueprints = o.heldBlueprints
      /\ \A b \in Editors \ {a} : op'[b] = op[b]
  BY <1>1, <1>2, <1>4 DEF Operation
<1>6. op' \in [Editors -> Operation \cup {Idle}] /\ q \in Operation
  <2> DEFINE r == [o EXCEPT !.needs = o.needs \ {p}, !.held = o.held \cup {p}]
  <2>1. r \in Operation BY <1>1 DEF Operation
  <2>2. op' = [op EXCEPT ![a] = r] BY <1>2, <1>4
  <2> QED BY <2>1, <2>2, <1>2
<1>7. PhaseFits(q) BY <1>3, <1>5 DEF Sound, PhaseFits, Reloaded, Guarded
<1>8. LocksChosen(q) BY <1>1, <1>3, <1>5 DEF Sound, LocksChosen, Guarded
<1>9. LocksHeld(q)
  <2>1. o.needs \subseteq Nat /\ \A n \in o.needs : p <= n /\ p \in Nat
    BY <1>1, BoardConstants DEF AcquireTeamLock, NextLock, Operation
  <2>2. \A n \in q.needs : p < n BY <2>1, <1>5
  <2> QED BY <1>1, <1>3, <1>5, <2>2 DEF Sound, LocksHeld, Reloaded, Guarded
<1>10. VerifiedStays(q) BY <1>5 DEF VerifiedStays
<1>11. \A b \in Editors \ {a} : q.heldBlueprints \cap op[b].heldBlueprints = {}
  BY <1>5 DEF Inv, LocksExclusive
<1> QED BY <1>1, <1>5, <1>6, <1>7, <1>8, <1>9, <1>10, <1>11, AdvanceStep DEF AcquireTeamLock

(* The reload: the configuration is the one that was read, and so is the page
   where the form carries its revision. *)
LEMMA ReloadStep == ASSUME Inv, NEW a \in Editors, Reload(a) PROVE Inv'
<1> DEFINE o == op[a]
           q == op'[a]
<1>1. CASE Release(a) BY <1>1, ReleaseStep DEF Reload
<1>2. CASE ~Release(a)
  <2>1. Busy(a) /\ o \in Operation /\ o.pc = "teams" /\ ReloadMatches(o)
    BY <1>2, BusyTyped DEF Reload, Busy, Phase, Inv
  <2>2. op \in [Editors -> Operation \cup {Idle}] BY DEF Inv, TypeOK
  <2>3. Sound(o) BY <2>1 DEF Inv, OperationsSound
  <2> DEFINE N == BlueprintLocks(o)
  <2>4. op' = [op EXCEPT ![a].pc = "blueprints", ![a].needs = N]
    BY <1>2 DEF Reload
  <2>5. N \in SUBSET Blueprints /\ N \in SUBSET Nat
    BY <2>1, BoardConstants DEF BlueprintLocks, Operation
  <2> HIDE DEF N
  <2>6. /\ q.pc = "blueprints" /\ q.seen = o.seen /\ q.needs = N /\ q.kind = o.kind
        /\ q.arg = o.arg /\ q.page = o.page /\ q.blueprints = o.blueprints /\ q.held = o.held
        /\ q.heldBlueprints = o.heldBlueprints
        /\ \A b \in Editors \ {a} : op'[b] = op[b]
    BY <2>1, <2>2, <2>4 DEF Operation
  <2>7. op' \in [Editors -> Operation \cup {Idle}] /\ q \in Operation
    <3> DEFINE r == [o EXCEPT !.pc = "blueprints", !.needs = N]
    <3>1. r \in Operation BY <2>1, <2>5 DEF Operation, Phases
    <3>2. op' = [op EXCEPT ![a] = r] BY <2>2, <2>4
    <3> QED BY <3>1, <3>2, <2>2
  <2>8. PhaseFits(q) BY <2>1, <2>3, <2>6 DEF Sound, PhaseFits, ReloadMatches, ExpectsPage, Guarded
  <2>9. LocksChosen(q) BY <2>1, <2>3, <2>6 DEF Sound, LocksChosen, Guarded
  <2>10. LocksHeld(q)
    <3>1. BlueprintLocks(q) = N BY <2>6 DEF BlueprintLocks, N
    <3> QED BY <2>1, <2>3, <2>5, <2>6, <3>1 DEF Sound, LocksHeld, Reloaded, Guarded
  <2>11. VerifiedStays(q) BY <2>6 DEF VerifiedStays
  <2>12. \A b \in Editors \ {a} : q.heldBlueprints \cap op[b].heldBlueprints = {}
    BY <2>6 DEF Inv, LocksExclusive
  <2> QED BY <2>1, <2>6, <2>7, <2>8, <2>9, <2>10, <2>11, <2>12, AdvanceStep DEF Reload
<1> QED BY <1>1, <1>2

(* A blueprint lock: nobody holds it, and the ones still missing are higher. *)
LEMMA BlueprintLockStep ==
    ASSUME Inv, NEW a \in Editors, NEW b \in Blueprints, AcquireBlueprintLock(a, b) PROVE Inv'
<1> DEFINE o == op[a]
           q == op'[a]
           l == <<o.seen.library, b>>
<1>1. Busy(a) /\ o \in Operation /\ o.pc = "blueprints"
  BY BusyTyped DEF AcquireBlueprintLock, Busy, Phase, Inv
<1>2. op \in [Editors -> Operation \cup {Idle}] BY DEF Inv, TypeOK
<1>3. Sound(o) BY <1>1 DEF Inv, OperationsSound
<1>4. op' = [op EXCEPT ![a].needs = o.needs \ {b}, ![a].heldBlueprints = o.heldBlueprints \cup {l}]
  BY DEF AcquireBlueprintLock
<1>5. l \in Libraries \X Blueprints BY <1>1 DEF Operation, Config
<1> HIDE DEF l
<1>6. /\ q.pc = "blueprints" /\ q.seen = o.seen /\ q.needs = o.needs \ {b} /\ q.held = o.held
      /\ q.kind = o.kind /\ q.arg = o.arg /\ q.page = o.page /\ q.blueprints = o.blueprints
      /\ q.heldBlueprints = o.heldBlueprints \cup {l}
      /\ \A e \in Editors \ {a} : op'[e] = op[e]
  BY <1>1, <1>2, <1>4 DEF Operation
<1>7. op' \in [Editors -> Operation \cup {Idle}] /\ q \in Operation
  <2> DEFINE r == [o EXCEPT !.needs = o.needs \ {b}, !.heldBlueprints = o.heldBlueprints \cup {l}]
  <2>1. r \in Operation BY <1>1, <1>5 DEF Operation
  <2>2. op' = [op EXCEPT ![a] = r] BY <1>2, <1>4
  <2> QED BY <2>1, <2>2, <1>2
<1>8. PhaseFits(q) BY <1>1, <1>3, <1>6 DEF Sound, PhaseFits, ExpectsPage, Reloaded, Guarded
<1>9. LocksChosen(q) BY <1>1, <1>3, <1>6 DEF Sound, LocksChosen, Guarded
<1>10. LocksHeld(q)
  <2>1. o.needs \subseteq Nat /\ \A n \in o.needs : b <= n /\ b \in Nat
    BY <1>1, BoardConstants DEF AcquireBlueprintLock, NextLock, Operation
  <2>2. \A n \in q.needs : b < n BY <2>1, <1>6
  <2>3. l[1] = o.seen.library /\ l[2] = b BY DEF l
  <2>4. BlueprintLocks(q) = BlueprintLocks(o) BY <1>6 DEF BlueprintLocks
  <2>5. \A k \in q.heldBlueprints : k[1] = q.seen.library /\ \A n \in q.needs : k[2] < n
    BY <1>1, <1>3, <1>6, <2>2, <2>3 DEF Sound, LocksHeld
  <2>6. \A n \in BlueprintLocks(q) : n \in q.needs \/ <<q.seen.library, n>> \in q.heldBlueprints
    BY <1>1, <1>3, <1>6, <2>4 DEF Sound, LocksHeld, Reloaded, l
  <2> QED BY <1>1, <1>3, <1>6, <2>5, <2>6 DEF Sound, LocksHeld, Reloaded, Guarded
<1>11. VerifiedStays(q) BY <1>6 DEF VerifiedStays
<1>12. \A e \in Editors \ {a} : q.heldBlueprints \cap op[e].heldBlueprints = {}
  <2>1. \A e \in Editors : l \notin op[e].heldBlueprints
    BY DEF AcquireBlueprintLock, FreeBlueprint, l
  <2> QED BY <1>6, <2>1 DEF Inv, LocksExclusive
<1> QED BY <1>1, <1>6, <1>7, <1>8, <1>9, <1>10, <1>11, <1>12, AdvanceStep DEF AcquireBlueprintLock

(* The step of an operation that holds its locks to the next phase of its body. *)
LEMMA BodyStep ==
    ASSUME Inv, NEW a \in Editors, Phase(a) \in Reloaded, op[a].pc = "blueprints" => op[a].needs = {},
           NEW pc \in Guarded, NEW d \in Definitions \cup {Missing},
           op' = [op EXCEPT ![a].pc = pc, ![a].read = d],
           UNCHANGED <<config, source, tickets, retired, issued, begun, edits>>,
           PhaseFits(op'[a]), LocksChosen(op'[a]), VerifiedStays(op'[a])
    PROVE  Inv'
<1> DEFINE o == op[a]
           q == op'[a]
<1>1. Busy(a) /\ o \in Operation BY BusyTyped DEF Busy, Phase, Inv, Reloaded, Guarded
<1>2. op \in [Editors -> Operation \cup {Idle}] BY DEF Inv, TypeOK
<1>3. Sound(o) BY <1>1 DEF Inv, OperationsSound
<1>4. /\ q.pc = pc /\ q.seen = o.seen /\ q.needs = o.needs /\ q.held = o.held
      /\ q.kind = o.kind /\ q.arg = o.arg /\ q.page = o.page /\ q.blueprints = o.blueprints
      /\ q.heldBlueprints = o.heldBlueprints
      /\ \A e \in Editors \ {a} : op'[e] = op[e]
  BY <1>1, <1>2 DEF Operation
<1>5. op' \in [Editors -> Operation \cup {Idle}] /\ q \in Operation
  <2> DEFINE r == [o EXCEPT !.pc = pc, !.read = d]
  <2>1. r \in Operation BY <1>1 DEF Operation, Phases, Guarded
  <2>2. op' = [op EXCEPT ![a] = r] BY <1>2
  <2> QED BY <2>1, <2>2, <1>2
<1>6. LocksHeld(q)
  <2>1. BlueprintLocks(q) = BlueprintLocks(o) BY <1>4 DEF BlueprintLocks
  <2> QED BY <1>1, <1>3, <1>4, <2>1 DEF Sound, LocksHeld, Reloaded, Guarded, Phase
<1>7. \A e \in Editors \ {a} : q.heldBlueprints \cap op[e].heldBlueprints = {}
  BY <1>4 DEF Inv, LocksExclusive
<1> QED BY <1>1, <1>4, <1>5, <1>6, <1>7, AdvanceStep

(* A step to the next phase is one that reads the same again. *)
LEMMA GotoReads ==
    ASSUME TypeOK, NEW a \in Editors, Busy(a), NEW pc, Goto(a, pc)
    PROVE  op' = [op EXCEPT ![a].pc = pc, ![a].read = op[a].read]
<1>1. op[a] \in Operation /\ op \in [Editors -> Operation \cup {Idle}] BY BusyTyped DEF TypeOK
<1>2. [op[a] EXCEPT !.pc = pc] = [op[a] EXCEPT !.pc = pc, !.read = op[a].read]
  BY <1>1 DEF Operation
<1>3. op' = [op EXCEPT ![a] = [op[a] EXCEPT !.pc = pc]] BY <1>1 DEF Goto
<1> QED BY <1>1, <1>2, <1>3

(* The body begins with all the locks that were chosen, and for a ticket the
   blueprint of its board is among them. *)
LEMMA EnterBodyStep == ASSUME Inv, NEW a \in Editors, EnterBody(a) PROVE Inv'
<1> DEFINE o == op[a]
           q == op'[a]
           w == o.arg.workflow
           d == Inspect(o.seen.library, o.arg.blueprint)
<1>1. CASE Release(a) BY <1>1, ReleaseStep DEF EnterBody
<1>2. CASE ~Release(a)
  <2>1. Busy(a) /\ o \in Operation /\ o.pc = "blueprints" /\ o.needs = {} /\ Phase(a) \in Reloaded
    BY <1>2, BusyTyped DEF EnterBody, Busy, Phase, Inv, Reloaded
  <2>2. op \in [Editors -> Operation \cup {Idle}] BY DEF Inv, TypeOK
  <2>3. Sound(o) BY <2>1 DEF Inv, OperationsSound
  <2>4. PICK r \in Definitions \cup {Missing} :
           /\ op' = [op EXCEPT ![a].pc = "body", ![a].read = r]
           /\ o.kind \in {"save_instance", "create_instance"} => r # Missing
    <3>1. CASE o.kind \in {"save_instance", "create_instance"}
      <4>1. d \in Definitions \cup {Missing}
        BY <3>1, <2>1, ArgumentsNamed DEF Inv, TypeOK, Inspect, Operation, Config
      <4>2. d # Missing /\ op' = [op EXCEPT ![a].pc = "body", ![a].read = d]
        BY <3>1, <1>2 DEF EnterBody
      <4> QED BY <4>1, <4>2
    <3>2. CASE o.kind \notin {"save_instance", "create_instance"}
      <4>1. Goto(a, "body") BY <3>2, <1>2 DEF EnterBody
      <4>2. o.read \in Definitions \cup {Missing} BY <2>1 DEF Operation
      <4> QED BY <3>2, <4>1, <4>2, <2>1, GotoReads DEF Inv
    <3> QED BY <3>1, <3>2
  <2>5. /\ q.pc = "body" /\ q.read = r /\ q.seen = o.seen /\ q.kind = o.kind /\ q.arg = o.arg
        /\ q.page = o.page /\ q.blueprints = o.blueprints
    BY <2>1, <2>2, <2>4 DEF Operation
  <2>6. PhaseFits(q)
    BY <2>1, <2>3, <2>4, <2>5 DEF Sound, PhaseFits, Reloaded, Guarded, ExpectsPage
  <2>7. o.kind \in {"ticket_create", "ticket_transition"} =>
           Configured(o.seen, w) /\ o.seen.boards[w].blueprint \in o.blueprints
    BY <1>2 DEF EnterBody
  <2>8. LocksChosen(q) BY <2>1, <2>3, <2>5, <2>7 DEF Sound, LocksChosen
  <2>9. VerifiedStays(q) BY <2>5 DEF VerifiedStays
  <2>10. "body" \in Guarded BY DEF Guarded
  <2> QED BY <2>1, <2>4, <2>6, <2>8, <2>9, <2>10, BodyStep DEF EnterBody
<1> QED BY <1>1, <1>2

(* The checks of the body: what they find is what VerifiedStays records. *)
LEMMA VerifyStep == ASSUME Inv, NEW a \in Editors, Verify(a) PROVE Inv'
<1> DEFINE o == op[a]
           q == op'[a]
           w == o.arg.workflow
<1>1. CASE Release(a) BY <1>1, ReleaseStep DEF Verify
<1>2. CASE ~Release(a)
  <2>1. Busy(a) /\ o \in Operation /\ o.pc = "body" /\ Phase(a) \in Reloaded
    BY <1>2, BusyTyped DEF Verify, Busy, Phase, Inv, Reloaded, Guarded
  <2>2. op \in [Editors -> Operation \cup {Idle}] BY DEF Inv, TypeOK
  <2>3. Sound(o) BY <2>1 DEF Inv, OperationsSound
  <2> DEFINE r == IF o.kind \in {"ticket_create", "ticket_transition"}
                  THEN DefinitionOf(o) ELSE o.read
  <2>4. op' = [op EXCEPT ![a].pc = "verified", ![a].read = r]
    BY <1>2 DEF Verify
  <2>5. r \in Definitions \cup {Missing}
    <3>1. CASE o.kind \in {"ticket_create", "ticket_transition"}
      <4>1. Configured(o.seen, w) /\ w \in Workflows
        BY <3>1, <2>1, <2>3, ArgumentsNamed DEF Inv, Sound, LocksChosen, Guarded
      <4>2. o.seen.library \in Libraries /\ o.seen.boards[w].blueprint \in Blueprints
        BY <4>1, <2>1 DEF Operation, Config, Configured, Board
      <4> QED BY <4>2, <3>1 DEF Inv, TypeOK, DefinitionOf, Inspect
    <3> QED BY <3>1, <2>1 DEF Operation
  <2> HIDE DEF r
  <2>6. /\ q.pc = "verified" /\ q.read = r /\ q.seen = o.seen /\ q.kind = o.kind
        /\ q.arg = o.arg /\ q.page = o.page /\ q.blueprints = o.blueprints
    BY <2>1, <2>2, <2>4 DEF Operation
  <2>7. o.kind \in {"save_instance", "create_instance", "save_blueprint"} => r = o.read
    BY DEF r
  <2>8. o.kind \in {"ticket_create", "ticket_transition"} => r # Missing
    <3>1. CASE o.kind = "ticket_create" BY <3>1, <1>2 DEF Verify, r
    <3>2. CASE o.kind = "ticket_transition"
      <4>1. VersionCurrent(o) BY <3>2, <1>2 DEF Verify
      <4>2. o.arg.digest \in Definitions
        BY <2>1, <3>2 DEF Inv, TypeOK, Busy, Argument
      <4> QED BY <3>2, <4>1, <4>2, BoardConstants DEF VersionCurrent, DefinitionOf, r
    <3> QED BY <3>1, <3>2
  <2>9. PhaseFits(q)
    BY <2>1, <2>3, <2>6, <2>7, <2>8 DEF Sound, PhaseFits, Reloaded, Guarded, ExpectsPage, Verify
  <2>10. LocksChosen(q) BY <2>1, <2>3, <2>6 DEF Sound, LocksChosen, Guarded
  <2>11. VerifiedStays(q)
    <3>1. ASSUME o.kind \in {"save_instance", "create_instance"} PROVE InstanceStays(q)
      <4>1. InstanceAcceptable(o) BY <3>1, <1>2 DEF Verify
      <4> QED BY <4>1, <3>1, <2>6, <2>7 DEF InstanceAcceptable, InstanceStays
    <3>2. ASSUME o.kind = "save_blueprint" PROVE BlueprintStays(q)
      <4>1. BlueprintAcceptable(o) BY <3>2, <1>2 DEF Verify
      <4> QED BY <4>1, <3>2, <2>6 DEF BlueprintAcceptable, BlueprintStays
    <3> QED BY <3>1, <3>2, <2>6 DEF VerifiedStays
  <2>12. "verified" \in Guarded BY DEF Guarded
  <2> QED BY <2>1, <2>4, <2>5, <2>9, <2>10, <2>11, <2>12, BodyStep DEF Verify
<1> QED BY <1>1, <1>2

(* A board is never older than itself. *)
LEMMA NotLeftBehind ==
    ASSUME TypeOK, NEW w \in Workflows, Configured(config, w) PROVE ~LeftBehind(config, w)
BY DEF TypeOK, Configured, LeftBehind, Config, Board

(* The configuration is as it was read, so the boards that were checked are
   all the boards that use the blueprint. *)
LEMMA AssertStep == ASSUME Inv, NEW a \in Editors, AssertConfigUnchanged(a) PROVE Inv'
<1> DEFINE o == op[a]
           q == op'[a]
<1>1. CASE Release(a) BY <1>1, ReleaseStep DEF AssertConfigUnchanged
<1>2. CASE ~Release(a)
  <2>1. /\ Busy(a) /\ o \in Operation /\ o.pc \in {"body", "verified"} /\ Phase(a) \in Reloaded
        /\ config = o.seen /\ Goto(a, "asserted")
        /\ o.kind \in {"save_blueprint", "create_blueprint"}
        /\ o.kind = "save_blueprint" => o.pc = "verified"
    BY <1>2, BusyTyped DEF AssertConfigUnchanged, Busy, Phase, Inv, Reloaded, Guarded
  <2>2. op \in [Editors -> Operation \cup {Idle}] BY DEF Inv, TypeOK
  <2>3. Sound(o) BY <2>1 DEF Inv, OperationsSound
  <2>4. op' = [op EXCEPT ![a].pc = "asserted", ![a].read = o.read]
    BY <2>1, GotoReads DEF Inv
  <2>5. /\ q.pc = "asserted" /\ q.seen = o.seen /\ q.kind = o.kind /\ q.arg = o.arg
        /\ q.page = o.page /\ q.blueprints = o.blueprints
    BY <2>1, <2>2, <2>4 DEF Operation
  <2>6. PhaseFits(q)
    BY <2>1, <2>3, <2>5 DEF Sound, PhaseFits, Reloaded, Guarded, ExpectsPage
  <2>7. LocksChosen(q) BY <2>1, <2>3, <2>5 DEF Sound, LocksChosen, Guarded
  <2>8. VerifiedStays(q)
    <3>1. ASSUME o.kind = "save_blueprint" PROVE PublicationStays(q)
      <4>1. BlueprintStays(o) BY <3>1, <2>1, <2>3 DEF Sound, VerifiedStays
      <4> QED BY <4>1, <2>1, <2>5, NotLeftBehind
              DEF Inv, BlueprintStays, PublicationStays, BindingsUsing
    <3> QED BY <3>1, <2>5 DEF VerifiedStays
  <2>9. "asserted" \in Guarded /\ o.read \in Definitions \cup {Missing}
    BY <2>1 DEF Guarded, Operation
  <2> QED BY <2>1, <2>4, <2>6, <2>7, <2>8, <2>9, BodyStep DEF AssertConfigUnchanged
<1> QED BY <1>1, <1>2

-----------------------------------------------------------------------------
(* Opening a page or a ticket. *)

(* What each form submits, and that a board to be created has a new id. *)
Submits(kind, arg) ==
    /\ kind \in Kinds /\ arg \in Argument(kind) /\ arg \in Arguments
    /\ kind = "create_instance" => arg.workflow \notin issued
    /\ kind = "save_instance" => Configured(config, arg.workflow)
    /\ issued' = IF kind = "create_instance" THEN issued \cup {arg.workflow} ELSE issued

(* A request: what it submits is typed, and its copies are the configuration. *)
LEMMA OpenStep ==
    ASSUME Inv, NEW a \in Editors, NEW kind, NEW arg, Submits(kind, arg), Open(a, kind, arg)
    PROVE  Inv'
<1> DEFINE q == op'[a]
           named == "blueprint" \in DOMAIN arg
<1>1. named <=> kind \in {"save_instance", "create_instance", "save_blueprint", "create_blueprint"}
  BY DEF Submits, Argument, Kinds
<1>2. named => arg.blueprint \in Blueprints
  BY <1>1 DEF Submits, Argument, Kinds
<1>3. "team" \in DOMAIN arg => arg.team \in Teams
  BY DEF Submits, Argument, Kinds
<1>4. kind = "create_instance" => arg.workflow \in Workflows BY DEF Submits, Argument
<1>5. op \in [Editors -> Operation \cup {Idle}] /\ config \in Config
      /\ source \in [Libraries \X Blueprints -> Definitions \cup {Missing}]
  BY DEF Inv, TypeOK
<1>6. /\ q.pc \in {"open", "chosen"} /\ q.kind = kind /\ q.arg = arg /\ q.page = config
      /\ q.seen = config /\ q.held = {} /\ q.heldBlueprints = {} /\ q.needs = {}
      /\ named => q.blueprints = {arg.blueprint}
      /\ q.pc = "open" => kind \in {"save_instance", "create_instance", "save_blueprint",
                                    "ticket_create", "ticket_transition"}
      /\ kind = "save_instance" => q.pc = "open"
      /\ \A b \in Editors \ {a} : op'[b] = op[b]
  BY <1>5 DEF Open
<1>7. op' \in [Editors -> Operation \cup {Idle}] /\ q \in Operation
  <2> DEFINE pc == IF kind \in {"save_instance", "create_instance", "save_blueprint",
                                "ticket_create", "ticket_transition"}
                   THEN "open" ELSE "chosen"
             read == IF named THEN Inspect(config.library, arg.blueprint) ELSE Missing
             teams == IF "team" \in DOMAIN arg THEN {arg.team} ELSE {}
             blueprints == IF named THEN {arg.blueprint} ELSE {}
  <2>1. pc \in Phases \ {"idle"} BY DEF Phases
  <2>2. read \in Definitions \cup {Missing} BY <1>2, <1>5 DEF Inspect, Config
  <2>3. teams \in SUBSET Teams BY <1>3
  <2>4. blueprints \in SUBSET Blueprints BY <1>2
  <2>5. op' = [op EXCEPT ![a] = [
                pc |-> pc, kind |-> kind, arg |-> arg, page |-> config, seen |-> config,
                read |-> read, teams |-> teams, blueprints |-> blueprints, dirty |-> FALSE,
                needs |-> {}, held |-> {}, heldBlueprints |-> {}]]
    BY DEF Open
  <2>6. kind \in Kinds /\ arg \in Arguments BY DEF Submits
  <2> HIDE DEF pc, read, teams, blueprints
  <2>7. [pc |-> pc, kind |-> kind, arg |-> arg, page |-> config, seen |-> config,
         read |-> read, teams |-> teams, blueprints |-> blueprints, dirty |-> FALSE,
         needs |-> {}, held |-> {}, heldBlueprints |-> {}] \in Operation
    BY <2>1, <2>2, <2>3, <2>4, <2>6, <1>5 DEF Operation
  <2> QED BY <2>5, <2>7, <1>5
<1>8. \A b \in Editors : Busy(b)' <=> b = a \/ Busy(b)
  BY <1>6 DEF Busy, Phase
<1>9. ~Busy(a) BY DEF Open, Busy
<1>10. issued \subseteq issued' /\ issued' \subseteq Workflows
  BY <1>4 DEF Submits, Inv, TypeOK
<1>11. \A c : Follows(c) => Follows(c)'
  BY <1>10 DEF Follows, LeftBehind, Configured, Open
<1>12. \A o : Sound(o) => Sound(o)'
  BY <1>10, SoundStays DEF Open
<1>13. TypeOK'
  <2>1. q.arg \in Argument(q.kind) BY <1>6 DEF Submits
  <2>2. \A b \in Editors : Phase(b)' # "idle" => op'[b].arg \in Argument(op'[b].kind)
    BY <1>6, <2>1 DEF Inv, TypeOK, Phase
  <2>3. begun' \in 0..MaxOps BY BoardConstants DEF Inv, TypeOK, Open
  <2> QED BY <1>7, <1>10, <2>2, <2>3 DEF Inv, TypeOK, Open, Phase, Config, Valid,
         DefaultDeclared, BoardsComplete, DirectoriesDisjoint, StorageDisjoint, Ticket
<1>14. IdsIssued' BY <1>10 DEF Inv, IdsIssued, Configured, Open
<1>15. NewIdsFresh'
  <2>1. \A b \in Editors, w \in Workflows :
           Creating(b, w)' <=> \/ b # a /\ Creating(b, w)
                               \/ b = a /\ kind = "create_instance" /\ arg.workflow = w
    BY <1>6, <1>8, <1>9 DEF Creating
  <2>2. \A c, w : Configured(c, w)' <=> Configured(c, w) BY DEF Configured
  <2>3. \A b \in Editors, w \in Workflows : Creating(b, w) => w \in issued
    BY DEF Inv, NewIdsFresh
  <2>4. \A b \in Editors, w \in Workflows : Busy(b) /\ w \notin issued =>
           ~Configured(op[b].page, w) /\ ~Configured(op[b].seen, w)
    BY DEF Inv, OperationsSound, Sound, CopiesFollow, Follows
  <2>5. \A w \in Workflows : w \notin issued =>
           ~Configured(config, w) /\ \A d \in retired : d.binding[2] # w
    BY DEF Inv, IdsIssued, RetiredOlder, Older
  <2>6. config' = config /\ retired' = retired BY DEF Open
  <2>7. \A w \in Workflows : kind = "create_instance" /\ arg.workflow = w =>
           w \notin issued /\ w \in issued'
    BY DEF Submits
  <2> QED BY <1>6, <1>8, <1>9, <1>10, <2>1, <2>2, <2>3, <2>4, <2>5, <2>6, <2>7
          DEF Inv, NewIdsFresh
<1>16. RetiredOlder' BY <1>10 DEF Inv, RetiredOlder, Older, Configured, Open
<1>17. Sound(op[a])'
  <2>1. CopiesFollow(op[a])' BY <1>6, <1>11, FollowsNow DEF Inv, CopiesFollow
  <2>2. PhaseFits(op[a])' BY <1>1, <1>6 DEF PhaseFits, Reloaded, Guarded
  <2>3. LocksChosen(op[a])' BY <1>6 DEF LocksChosen, Submits, Guarded, Configured, Open
  <2>4. LocksHeld(op[a])' BY <1>6 DEF LocksHeld, Reloaded, Guarded
  <2>5. VerifiedStays(op[a])' BY <1>6 DEF VerifiedStays
  <2> QED BY <2>1, <2>2, <2>3, <2>4, <2>5 DEF Sound
<1>18. OperationsSound' BY <1>6, <1>8, <1>12, <1>17 DEF Inv, OperationsSound
<1>19. LocksExclusive' BY <1>6 DEF Inv, LocksExclusive
<1> QED BY <1>13, <1>14, <1>15, <1>16, <1>18, <1>19 DEF Inv

(* Each kind of request submits what OpenStep asks for. *)
LEMMA OpensStep == ASSUME Inv, NEW a \in Editors, Opens(a) PROVE Inv'
<1> USE DEF Kinds, Argument, Arguments
<1>0. config \in Config BY DEF Inv, TypeOK
<1>1. ASSUME NEW w \in Workflows, NEW b \in Blueprints, NEW r \in Roots,
             OpenSaveInstance(a, w, b, r)
      PROVE  Inv'
  <2> DEFINE x == [team |-> config.boards[w].team, workflow |-> w, blueprint |-> b, root |-> r]
  <2>1. Submits("save_instance", x)
    BY <1>0, <1>1 DEF OpenSaveInstance, Submits, Configured, Config, Board
  <2> QED BY <1>1, <2>1, OpenStep DEF OpenSaveInstance
<1>2. ASSUME NEW t \in Teams, NEW w \in Workflows, NEW b \in Blueprints, NEW r \in Roots,
             OpenCreateInstance(a, t, w, b, r)
      PROVE  Inv'
  <2> DEFINE x == [team |-> t, workflow |-> w, blueprint |-> b, root |-> r]
  <2>1. Submits("create_instance", x) BY <1>2 DEF OpenCreateInstance, Submits
  <2> QED BY <1>2, <2>1, OpenStep DEF OpenCreateInstance
<1>3. ASSUME NEW b \in Blueprints, NEW d \in Definitions,
             OpenSaveBlueprint(a, b, d) \/ OpenCreateBlueprint(a, b, d)
      PROVE  Inv'
  <2> DEFINE x == [blueprint |-> b, definition |-> d]
  <2>1. CASE OpenSaveBlueprint(a, b, d)
    <3>1. Submits("save_blueprint", x) BY <2>1 DEF OpenSaveBlueprint, Submits
    <3> QED BY <2>1, <3>1, OpenStep DEF OpenSaveBlueprint
  <2>2. CASE OpenCreateBlueprint(a, b, d)
    <3>1. Submits("create_blueprint", x) BY <2>2 DEF OpenCreateBlueprint, Submits
    <3> QED BY <2>2, <3>1, OpenStep DEF OpenCreateBlueprint
  <2> QED BY <1>3, <2>1, <2>2
<1>4. ASSUME NEW default \in Teams, NEW l \in Libraries, OpenSettings(a, default, l) PROVE Inv'
  <2>1. Submits("settings", [default |-> default, library |-> l])
    BY <1>4 DEF OpenSettings, Submits
  <2> QED BY <1>4, <2>1, OpenStep DEF OpenSettings
<1>5. ASSUME NEW t \in Teams, NEW p \in Paths, OpenTeamSave(a, t, p) \/ OpenTeamCreate(a, t, p)
      PROVE  Inv'
  <2>1. CASE OpenTeamSave(a, t, p)
    <3>1. Submits("team_save", [team |-> t, path |-> p]) BY <2>1 DEF OpenTeamSave, Submits
    <3> QED BY <2>1, <3>1, OpenStep DEF OpenTeamSave
  <2>2. CASE OpenTeamCreate(a, t, p)
    <3>1. Submits("team_create", [new |-> t, path |-> p]) BY <2>2 DEF OpenTeamCreate, Submits
    <3> QED BY <2>2, <3>1, OpenStep DEF OpenTeamCreate
  <2> QED BY <1>5, <2>1, <2>2
<1>6. ASSUME NEW t \in Teams, OpenTeamDelete(a, t) PROVE Inv'
  <2>1. Submits("team_delete", [team |-> t]) BY <1>6 DEF OpenTeamDelete, Submits
  <2> QED BY <1>6, <2>1, OpenStep DEF OpenTeamDelete
<1>7. ASSUME NEW w \in Workflows, OpenTicketCreate(a, w) \/ OpenTicketTransition(a, w) PROVE Inv'
  <2>0. config.boards[w] \in Board
    BY <1>0, <1>7 DEF OpenTicketCreate, OpenTicketTransition, Configured, Config
  <2>1. CASE OpenTicketCreate(a, w)
    <3>1. Submits("ticket_create", [team |-> config.boards[w].team, workflow |-> w])
      BY <2>0, <2>1 DEF OpenTicketCreate, Submits, Board
    <3> QED BY <2>1, <3>1, OpenStep DEF OpenTicketCreate
  <2>2. CASE OpenTicketTransition(a, w)
    <3> DEFINE d == Inspect(config.library, config.boards[w].blueprint)
               n == tickets[Namespace(config, w)].revision
               x == [team |-> config.boards[w].team, workflow |-> w,
                     context |-> ContextDigest(config, w), digest |-> d, revision |-> n]
    <3>1. ContextDigest(config, w) \in Context
      BY <1>0, <2>0 DEF ContextDigest, Context, Board, Config
    <3>2. d \in Definitions
      BY <1>0, <2>0, <2>2 DEF OpenTicketTransition, Readable, Inspect, Inv, TypeOK, Config, Board
    <3>3. n \in Nat
      BY <2>0, <2>2 DEF OpenTicketTransition, Namespace, Inv, TypeOK, Ticket, Board
    <3>4. config.boards[w].team \in Teams BY <2>0 DEF Board
    <3>5. Open(a, "ticket_transition", x) /\ issued' = issued BY <2>2 DEF OpenTicketTransition
    <3> HIDE DEF d, n
    <3>6. Submits("ticket_transition", x) BY <3>1, <3>2, <3>3, <3>4, <3>5 DEF Submits
    <3> QED BY <3>5, <3>6, OpenStep
  <2> QED BY <1>7, <2>1, <2>2
<1>8. ASSUME OpenPatch(a) PROVE Inv'
  <2>1. Submits("patch", <<>>) BY <1>8 DEF OpenPatch, Submits
  <2> QED BY <1>8, <2>1, OpenStep DEF OpenPatch
<1> QED BY <1>1, <1>2, <1>3, <1>4, <1>5, <1>6, <1>7, <1>8 DEF Opens

-----------------------------------------------------------------------------
(* Changes of the configuration. *)

(* What every patch does to the boards: one that is not as before has a higher
   generation or a new id, and unless the library moves its blueprint is locked. *)
Evolves(a, c) ==
    \A w \in Workflows : Configured(c, w) =>
        \/ c.boards[w] = config.boards[w] /\ c.library = config.library
        \/ /\ IF Configured(config, w)
              THEN c.boards[w].generation > config.boards[w].generation
              ELSE Creating(a, w)
           /\ \/ c.library # config.library
              \/ <<config.library, c.boards[w].blueprint>> \in op[a].heldBlueprints

Commits(a, c) ==
    /\ config' = c
    /\ retired' = retired \cup
         {ContextDigest(config, w) : w \in {v \in Workflows :
             /\ Configured(config, v)
             /\ Configured(c, v) => ContextDigest(c, v) # ContextDigest(config, v)}}
    /\ op' = [IF c.library # config.library THEN Disturbed ELSE op EXCEPT ![a] = Idle]
    /\ UNCHANGED <<source, tickets, issued, begun, edits>>

(* An operation after others were disturbed: nothing but its mark differs. *)
Marked(o, q) ==
    /\ q.pc = o.pc /\ q.kind = o.kind /\ q.arg = o.arg /\ q.page = o.page /\ q.seen = o.seen
    /\ q.read = o.read /\ q.blueprints = o.blueprints /\ q.needs = o.needs /\ q.held = o.held
    /\ q.heldBlueprints = o.heldBlueprints /\ (o.dirty => q.dirty)

(* Disturbed marks the operations that have had their last look and changes
   nothing else. *)
LEMMA DisturbedMarks ==
    ASSUME TypeOK
    PROVE  /\ Disturbed \in [Editors -> Operation \cup {Idle}]
           /\ \A b \in Editors : /\ Busy(b) => Disturbed[b] \in Operation /\ Marked(op[b], Disturbed[b])
                                 /\ Phase(b) \in {"verified", "asserted"} => Disturbed[b].dirty
                                 /\ ~Busy(b) => Disturbed[b] = Idle
<1>1. op \in [Editors -> Operation \cup {Idle}] BY DEF TypeOK
<1>2. ASSUME NEW b \in Editors, Busy(b)
      PROVE  /\ Disturbed[b] \in Operation /\ Marked(op[b], Disturbed[b])
             /\ Phase(b) \in {"verified", "asserted"} => Disturbed[b].dirty
  <2>1. op[b] \in Operation BY <1>2, BusyTyped
  <2>2. [op[b] EXCEPT !.dirty = TRUE] \in Operation BY <2>1 DEF Operation
  <2>3. [op[b] EXCEPT !.dirty = TRUE].dirty /\ Marked(op[b], [op[b] EXCEPT !.dirty = TRUE])
    BY <2>1 DEF Operation, Marked
  <2>4. Disturbed[b] = IF Phase(b) \in {"verified", "asserted"}
                       THEN [op[b] EXCEPT !.dirty = TRUE] ELSE op[b]
    BY DEF Disturbed
  <2>5. Marked(op[b], op[b]) BY DEF Marked
  <2> QED BY <2>1, <2>2, <2>3, <2>4, <2>5
<1>3. \A b \in Editors : ~Busy(b) => Disturbed[b] = Idle
  BY <1>1 DEF Disturbed, Busy, Phase, Operation
<1>4. \A b \in Editors : ~Busy(b) => ~(Phase(b) \in {"verified", "asserted"})
  BY DEF Busy
<1>5. Disturbed = [b \in Editors |-> Disturbed[b]] BY DEF Disturbed
<1>6. \A b \in Editors : Disturbed[b] \in Operation \cup {Idle} BY <1>2, <1>3
<1> QED BY <1>2, <1>3, <1>4, <1>5, <1>6

(* A commit ends its operation, and marks the others when it moves the
   library. *)
LEMMA CommitWrites ==
    ASSUME TypeOK, NEW a \in Editors, NEW c, Commits(a, c)
    PROVE  /\ op' \in [Editors -> Operation \cup {Idle}] /\ op'[a] = Idle
           /\ \A b \in Editors : Busy(b)' <=> b # a /\ Busy(b)
           /\ \A b \in Editors : Busy(b)' => /\ op'[b] \in Operation /\ Marked(op[b], op'[b])
                                             /\ c.library # config.library /\
                                                   Phase(b) \in {"verified", "asserted"} =>
                                                   op'[b].dirty
<1>1. op \in [Editors -> Operation \cup {Idle}] BY DEF TypeOK
<1>2. \A b \in Editors : Marked(op[b], op[b]) BY DEF Marked
<1>3. \A b \in Editors : Busy(b) => op[b] \in Operation BY BusyTyped
<1>4. \A b \in Editors : ~Busy(b) => op[b] = Idle BY <1>1 DEF Busy, Phase, Operation
<1>5. Idle.pc = "idle" BY DEF Idle
<1>6. \A o \in Operation : o.pc # "idle" BY DEF Operation
<1> DEFINE f == IF c.library # config.library THEN Disturbed ELSE op
<1>7. op' = [f EXCEPT ![a] = Idle] BY DEF Commits
<1>8. f \in [Editors -> Operation \cup {Idle}] BY <1>1, DisturbedMarks
<1>9. \A b \in Editors : /\ Busy(b) => f[b] \in Operation /\ Marked(op[b], f[b])
                         /\ c.library # config.library /\ Phase(b) \in {"verified", "asserted"} =>
                               f[b].dirty
                         /\ ~Busy(b) => f[b] = Idle
  BY <1>2, <1>3, <1>4, DisturbedMarks
<1> HIDE DEF f
<1>10. op' \in [Editors -> Operation \cup {Idle}] /\ op'[a] = Idle
       /\ \A b \in Editors \ {a} : op'[b] = f[b]
  BY <1>7, <1>8
<1>11. \A b \in Editors : Busy(b)' <=> b # a /\ Busy(b)
  BY <1>5, <1>6, <1>9, <1>10 DEF Busy, Phase
<1> QED BY <1>9, <1>10, <1>11

(* The copies of the configuration keep following it. *)
LEMMA CommitFollows ==
    ASSUME Inv, NEW a \in Editors, NEW c \in Config, Evolves(a, c), Commits(a, c),
           NEW k \in Config, Follows(k),
           \A w \in Workflows : Configured(k, w) => ~Creating(a, w)
    PROVE  /\ Follows(k)'
           /\ \A w \in Workflows : Configured(k, w) /\ LeftBehind(k, w) => LeftBehind(k, w)'
<1>1. config \in Config BY DEF Inv, TypeOK
<1>2. config' = c /\ issued' = issued BY DEF Commits
<1>3. \A w \in Workflows :
         /\ Configured(k, w) => k.boards[w].generation \in Nat
         /\ Configured(c, w) => c.boards[w].generation \in Nat
         /\ Configured(config, w) => config.boards[w].generation \in Nat
  BY <1>1 DEF Config, Configured, Board
<1>4. ASSUME NEW w \in Workflows, Configured(k, w), LeftBehind(k, w) PROVE LeftBehind(k, w)'
  <2>1. CASE ~Configured(c, w) BY <2>1, <1>2 DEF LeftBehind, Configured
  <2>2. CASE Configured(c, w)
    <3>0. ~Creating(a, w) BY <1>4
    <3>1. /\ Configured(config, w)
          /\ \/ c.boards[w] = config.boards[w]
             \/ c.boards[w].generation > config.boards[w].generation
      BY <2>2, <3>0 DEF Evolves, Configured
    <3>2. config.boards[w].generation > k.boards[w].generation BY <1>4, <3>1 DEF LeftBehind, Configured
    <3> QED BY <1>2, <1>3, <1>4, <2>2, <3>1, <3>2 DEF LeftBehind
  <2> QED BY <2>1, <2>2
<1>5. ASSUME NEW w \in Workflows, Configured(k, w), ~LeftBehind(k, w)
      PROVE  (config.boards[w] = k.boards[w] /\ config.library = k.library)' \/ LeftBehind(k, w)'
  <2>1. config.boards[w] = k.boards[w] /\ config.library = k.library
    BY <1>5 DEF Follows
  <2> QED BY <1>2, <1>5, <2>1 DEF Evolves, LeftBehind, Configured
<1>6. \A w \in Workflows : Configured(k, w) => w \in issued' BY <1>2 DEF Follows
<1>7. \A w \in Workflows : Configured(k, w)' <=> Configured(k, w) BY DEF Configured
<1>8. Follows(k)' BY <1>4, <1>5, <1>6, <1>7 DEF Follows
<1> QED BY <1>4, <1>8

(* An operation that did not commit keeps what it relies on. *)
LEMMA CommitKeepsSound ==
    ASSUME Inv, NEW a \in Editors, Busy(a), NEW c \in Config, Evolves(a, c), Commits(a, c),
           NEW b \in Editors, b # a, Busy(b)
    PROVE  Sound(op[b])'
<1>1. op[b] \in Operation BY BusyTyped DEF Inv
<1> PICK o \in Operation : o = op[b] BY <1>1
<1>2. Sound(o) BY DEF Inv, OperationsSound
<1>3. Busy(b)' /\ op'[b] \in Operation BY CommitWrites DEF Inv
<1> PICK q \in Operation : q = op'[b] BY <1>3
<1>4. /\ Marked(o, q)
      /\ c.library # config.library /\ o.pc \in {"verified", "asserted"} => q.dirty
  BY <1>3, CommitWrites DEF Inv, Phase
<1>5. config' = c /\ source' = source /\ tickets' = tickets /\ issued' = issued
  BY DEF Commits
<1>6. \A w \in Workflows : Configured(o.page, w) \/ Configured(o.seen, w) => ~Creating(a, w)
  BY DEF Inv, NewIdsFresh
<1> PICK p \in Config : p = o.page BY DEF Operation
<1> PICK s \in Config : s = o.seen BY DEF Operation
<1>7. /\ Follows(p)' /\ Follows(s)'
      /\ \A w \in Workflows : /\ Configured(p, w) /\ LeftBehind(p, w) => LeftBehind(p, w)'
                              /\ Configured(s, w) /\ LeftBehind(s, w) => LeftBehind(s, w)'
  BY <1>2, <1>6, CommitFollows DEF Sound, CopiesFollow
<1>8. q.page = p /\ q.seen = s BY <1>4 DEF Marked
<1>9. CopiesFollow(q)' BY <1>7, <1>8 DEF CopiesFollow
<1>10. PhaseFits(q)' BY <1>2, <1>4 DEF Sound, PhaseFits, Marked, ExpectsPage
<1>11. LocksHeld(q)'
  <2>1. BlueprintLocks(q) = BlueprintLocks(o) BY <1>4 DEF BlueprintLocks, Marked
  <2> QED BY <1>2, <1>4, <2>1 DEF Sound, LocksHeld, Marked
<1>12. /\ o.kind = "save_instance" => Configured(p, o.arg.workflow)
       /\ o.kind \in {"save_instance", "create_instance", "ticket_create", "ticket_transition"} =>
             o.arg.workflow \in Workflows
       /\ o.kind \in {"save_blueprint", "save_instance", "create_instance"} =>
             o.arg.blueprint \in o.blueprints
  BY <1>2, ArgumentsNamed DEF Inv, Sound, LocksChosen, PhaseFits
<1>13. LocksChosen(q)'
  <2>1. ASSUME o.kind = "save_instance", LeftBehind(p, o.arg.workflow)
        PROVE  LeftBehind(p, o.arg.workflow)'
    <3> PICK w \in Workflows : w = o.arg.workflow BY <1>12, <2>1
    <3> QED BY <1>7, <1>12, <2>1
  <2> QED BY <1>2, <1>4, <1>8, <2>1 DEF Sound, LocksChosen, Marked, Configured
<1>14. o.pc = "verified" /\ o.kind \in {"save_instance", "create_instance"} => InstanceStays(q)'
  <2>1. SUFFICES ASSUME o.pc = "verified", o.kind \in {"save_instance", "create_instance"}
                 PROVE  InstanceStays(q)'
    OBVIOUS
  <2>2. InstanceStays(o) BY <1>2, <2>1 DEF Sound, VerifiedStays
  <2>3. o.kind = "save_instance" => s = p
    BY <1>2, <2>1 DEF Sound, PhaseFits, Reloaded, Guarded, ExpectsPage
  <2> PICK w \in Workflows : w = o.arg.workflow BY <1>12, <2>1
  <2>4. o.kind = "save_instance" /\ LeftBehind(s, w) => LeftBehind(s, w)'
    BY <1>7, <1>12, <2>3
  <2> QED BY <1>4, <1>5, <1>8, <2>1, <2>2, <2>4
          DEF InstanceStays, Marked, Inspect, Compatible, SelectionChanged
<1>15. o.pc = "verified" /\ o.kind = "save_blueprint" => BlueprintStays(q)'
  <2>1. SUFFICES ASSUME o.pc = "verified", o.kind = "save_blueprint" PROVE BlueprintStays(q)'
    OBVIOUS
  <2>2. BlueprintStays(o) BY <1>2, <2>1 DEF Sound, VerifiedStays
  <2>3. \A w \in Workflows : Configured(s, w)' <=> Configured(s, w) BY DEF Configured
  <2>4. q.arg = o.arg BY <1>4 DEF Marked
  <2>5. \A w \in Workflows : LeftBehind(s, w) /\ Configured(s, w) => LeftBehind(s, w)' BY <1>7
  <2>6. ASSUME NEW w \in BindingsUsing(s, o.arg.blueprint)
        PROVE  \/ Compatible(o.arg.definition, tickets[Namespace(s, w)])'
               \/ LeftBehind(s, w)'
    <3>1. Compatible(o.arg.definition, tickets[Namespace(s, w)]) \/ LeftBehind(s, w)
      BY <2>2 DEF BlueprintStays
    <3>2. w \in Workflows /\ Configured(s, w) BY DEF BindingsUsing
    <3> QED BY <1>5, <2>5, <3>1, <3>2 DEF Compatible, Namespace
  <2>7. BindingsUsing(s, o.arg.blueprint)' = BindingsUsing(s, o.arg.blueprint)
    BY DEF BindingsUsing, Configured
  <2> QED BY <1>8, <2>4, <2>6, <2>7 DEF BlueprintStays, Namespace
<1>16. o.pc = "asserted" /\ o.kind = "save_blueprint" => PublicationStays(q)'
  <2>1. SUFFICES ASSUME o.pc = "asserted", o.kind = "save_blueprint",
                        ~q.dirty, c.library = s.library,
                        NEW w \in BindingsUsing(c, o.arg.blueprint)
                 PROVE  Compatible(o.arg.definition, tickets[Namespace(c, w)])
    BY <1>4, <1>5, <1>8 DEF PublicationStays, Marked, BindingsUsing, Configured, Compatible, Namespace
  <2>2. c.library = config.library /\ ~o.dirty BY <1>4, <2>1 DEF Marked
  <2>3. PublicationStays(o) BY <1>2, <2>1 DEF Sound, VerifiedStays
  <2>4. <<s.library, o.arg.blueprint>> \in o.heldBlueprints
    BY <1>2, <1>12, <2>1 DEF Sound, LocksHeld, Reloaded, Guarded, BlueprintLocks
  <2>5. op[a].heldBlueprints \cap o.heldBlueprints = {}
    BY DEF Inv, LocksExclusive
  <2>6. w \in Workflows /\ Configured(c, w) /\ c.boards[w].blueprint = o.arg.blueprint
    BY DEF BindingsUsing
  <2>7. <<config.library, c.boards[w].blueprint>> \notin op[a].heldBlueprints
    BY <2>1, <2>2, <2>4, <2>5, <2>6
  <2>8. c.boards[w] = config.boards[w] BY <2>2, <2>6, <2>7 DEF Evolves
  <2>9. w \in BindingsUsing(config, o.arg.blueprint) BY <2>6, <2>8 DEF BindingsUsing, Configured
  <2> QED BY <2>1, <2>2, <2>3, <2>8, <2>9 DEF PublicationStays, Namespace
<1>17. VerifiedStays(q)' BY <1>4, <1>14, <1>15, <1>16 DEF VerifiedStays, Marked
<1> QED BY <1>9, <1>10, <1>11, <1>13, <1>17 DEF Sound

(* A context that a commit changes or removes is older than what follows. *)
LEMMA CommitStep ==
    ASSUME Inv, NEW a \in Editors, Busy(a), NEW c \in Config, Valid(c), Evolves(a, c), Commits(a, c)
    PROVE  Inv'
<1>1. /\ config' = c /\ source' = source /\ tickets' = tickets /\ issued' = issued
      /\ begun' = begun /\ edits' = edits
  BY DEF Commits
<1>2. /\ op' \in [Editors -> Operation \cup {Idle}] /\ op'[a] = Idle
      /\ \A b \in Editors : Busy(b)' <=> b # a /\ Busy(b)
      /\ \A b \in Editors : Busy(b)' => op'[b] \in Operation /\ Marked(op[b], op'[b])
  BY CommitWrites DEF Inv
<1>3. config \in Config BY DEF Inv, TypeOK
<1>4. \A w \in Workflows : /\ Configured(config, w) => /\ config.boards[w].generation \in Nat
                                                      /\ ContextDigest(config, w) \in Context
                           /\ Configured(c, w) => c.boards[w].generation \in Nat
  BY <1>3 DEF Config, Configured, Board, ContextDigest, Context
<1>5. \A w \in Workflows : ContextDigest(config, w).binding[2] = w
                           /\ ContextDigest(config, w).generation = config.boards[w].generation
  BY DEF ContextDigest
<1>6. \A d \in retired' : d \in retired \/ \E w \in Workflows :
         /\ Configured(config, w) /\ d = ContextDigest(config, w)
         /\ Configured(c, w) => ContextDigest(c, w) # ContextDigest(config, w)
  BY DEF Commits
<1>7. TypeOK'
  <2>1. retired' \subseteq Context BY <1>4, <1>6 DEF Inv, TypeOK
  <2>2. Valid(config)' BY <1>1 DEF Valid, DefaultDeclared, BoardsComplete,
           DirectoriesDisjoint, StorageDisjoint, TeamsOf, TeamDirectories, Configured
  <2>3. \A b \in Editors : (Phase(b) # "idle" => op[b].arg \in Argument(op[b].kind))'
    BY <1>2 DEF Busy, Marked, Inv, TypeOK
  <2> QED BY <1>1, <1>2, <2>1, <2>2, <2>3 DEF Inv, TypeOK, Config, Ticket
<1>8. \A w \in Workflows : Creating(a, w) => w \in issued BY DEF Inv, NewIdsFresh
<1>9. \A w \in Workflows : Configured(c, w) => Configured(config, w) \/ Creating(a, w)
  BY DEF Evolves, Configured
<1>10. IdsIssued' BY <1>1, <1>8, <1>9 DEF Inv, IdsIssued, Configured
<1>11. NewIdsFresh'
  <2>1. \A b \in Editors, w \in Workflows : Creating(b, w)' => b # a /\ Creating(b, w)
    BY <1>2 DEF Creating, Marked
  <2>2. \A b \in Editors : Busy(b)' => /\ Busy(b) /\ op'[b].page = op[b].page
                                       /\ op'[b].seen = op[b].seen
    BY <1>2 DEF Marked
  <2>3. ASSUME NEW b \in Editors, NEW w \in Workflows, Creating(b, w)'
        PROVE  /\ w \in issued' /\ ~Configured(config', w)
               /\ \A d \in retired' : d.binding[2] # w
               /\ \A e \in Editors : Busy(e)' => /\ ~Configured(op'[e].page, w)
                                                 /\ ~Configured(op'[e].seen, w)
                                                 /\ Creating(e, w)' => e = b
    <3>1. Creating(b, w) /\ b # a BY <2>1, <2>3
    <3>2. /\ w \in issued /\ ~Configured(config, w) /\ \A d \in retired : d.binding[2] # w
          /\ \A e \in Editors : Busy(e) => /\ ~Configured(op[e].page, w)
                                           /\ ~Configured(op[e].seen, w)
                                           /\ Creating(e, w) => e = b
      BY <3>1 DEF Inv, NewIdsFresh
    <3>3. ~Configured(c, w) BY <1>9, <3>1, <3>2
    <3>4. \A d \in retired' : d.binding[2] # w BY <1>5, <1>6, <3>2
    <3>5. \A e \in Editors : Busy(e)' => ~Configured(op'[e].page, w) /\ ~Configured(op'[e].seen, w)
      BY <2>2, <3>2
    <3> QED BY <1>1, <2>1, <2>2, <3>2, <3>3, <3>4, <3>5
  <2> QED BY <2>3 DEF NewIdsFresh, Configured
<1>12. RetiredOlder'
  <2>1. ASSUME NEW d \in retired' PROVE Older(d)'
    <3>1. CASE d \in retired
      <4> PICK w : w = d.binding[2] OBVIOUS
      <4>1. w \in issued /\ (Configured(config, w) => d.generation < config.boards[w].generation)
        BY <3>1 DEF Inv, RetiredOlder, Older
      <4>2. w \in Workflows /\ d.generation \in Nat
        BY <4>1, <3>1 DEF Inv, TypeOK, Context
      <4>3. ~Creating(a, w) BY <3>1, <4>2 DEF Inv, NewIdsFresh
      <4>4. Configured(c, w) => /\ Configured(config, w)
                                /\ \/ c.boards[w] = config.boards[w]
                                   \/ c.boards[w].generation > config.boards[w].generation
        BY <4>2, <4>3 DEF Evolves, Configured
      <4>5. Configured(c, w) => d.generation < c.boards[w].generation
        BY <1>4, <4>1, <4>2, <4>4
      <4> QED BY <1>1, <4>1, <4>5 DEF Older, Configured
    <3>2. CASE d \notin retired
      <4>1. PICK w \in Workflows :
               /\ Configured(config, w) /\ d = ContextDigest(config, w)
               /\ Configured(c, w) => ContextDigest(c, w) # ContextDigest(config, w)
        BY <1>6, <3>2
      <4>2. Configured(c, w) => ~(c.boards[w] = config.boards[w] /\ c.library = config.library)
        BY <4>1 DEF ContextDigest
      <4>3. Configured(c, w) => c.boards[w].generation > config.boards[w].generation
        BY <4>1, <4>2 DEF Evolves
      <4>4. w \in issued BY <4>1 DEF Inv, IdsIssued
      <4>5. d.binding[2] = w /\ d.generation = config.boards[w].generation BY <1>5, <4>1
      <4>6. Configured(c, w) => d.generation < c.boards[w].generation
        BY <1>4, <4>1, <4>3, <4>5
      <4> QED BY <1>1, <4>4, <4>5, <4>6 DEF Older, Configured
    <3> QED BY <3>1, <3>2
  <2> QED BY <2>1 DEF RetiredOlder
<1>13. OperationsSound' BY <1>2, CommitKeepsSound DEF OperationsSound
<1>14. LocksExclusive'
  <2>1. \A b \in Editors : op'[b].heldBlueprints \subseteq op[b].heldBlueprints
    <3> TAKE b \in Editors
    <3>1. CASE Busy(b)' BY <1>2, <3>1 DEF Marked
    <3>2. CASE ~Busy(b)'
      <4>1. op'[b] = Idle BY <1>2, <3>2 DEF Busy, Phase, Operation
      <4> QED BY <4>1 DEF Idle
    <3> QED BY <3>1, <3>2
  <2> QED BY <2>1 DEF Inv, LocksExclusive
<1> QED BY <1>7, <1>10, <1>11, <1>12, <1>13, <1>14 DEF Inv

(* A compare-and-set either commits or leaves the configuration alone. *)
LEMMA CommitCases ==
    ASSUME NEW a \in Editors, NEW e, NEW c, CommitConfig(a, e, c)
    PROVE  \/ config = e /\ Valid(c) /\ Commits(a, c)
           \/ Release(a) /\ UNCHANGED <<config, source, tickets, retired, issued, begun, edits>>
<1>1. CASE config = e /\ Valid(c)
  <2>1. config' = c BY <1>1 DEF CommitConfig
  <2> QED BY <1>1, <2>1 DEF CommitConfig, Commits
<1>2. CASE ~(config = e /\ Valid(c))
  <2>1. config' = config /\ retired' = retired BY <1>2 DEF CommitConfig
  <2> QED BY <1>2, <2>1 DEF CommitConfig, Release
<1> QED BY <1>1, <1>2

(* Each patch of the configuration evolves the boards. *)
LEMMA PatchInstanceEvolves ==
    ASSUME TypeOK, NEW a \in Editors, NEW w \in Workflows, NEW b \in Blueprints, NEW r \in Roots,
           Configured(config, w), <<config.library, b>> \in op[a].heldBlueprints
    PROVE  /\ PatchInstance(config, w, b, r) \in Config
           /\ Evolves(a, PatchInstance(config, w, b, r))
           /\ PatchInstance(config, w, b, r).library = config.library
           /\ \A v \in Workflows \ {w} : PatchInstance(config, w, b, r).boards[v] = config.boards[v]
           /\ PatchInstance(config, w, b, r).boards[w].blueprint = b
           /\ PatchInstance(config, w, b, r).boards[w].root = r
           /\ ~SelectionChanged(config.boards[w], b, r) =>
                 PatchInstance(config, w, b, r).boards[w] = config.boards[w]
<1> DEFINE old == config.boards[w]
           n == old.generation + IF SelectionChanged(old, b, r) THEN 1 ELSE 0
           new == [team |-> old.team, blueprint |-> b, root |-> r, generation |-> n]
           c == PatchInstance(config, w, b, r)
<1>1. config \in Config BY DEF TypeOK
<1>2. old \in Board BY <1>1 DEF Config, Configured
<1>3. new \in Board BY <1>2 DEF Board
<1>5. c = [config EXCEPT !.boards = [config.boards EXCEPT ![w] = new]]
  BY <1>1 DEF PatchInstance, Config
<1> HIDE DEF new, c
<1>6. c \in Config BY <1>1, <1>3, <1>5 DEF Config
<1>7. c.library = config.library /\ c.boards[w] = new
      /\ \A v \in Workflows \ {w} : c.boards[v] = config.boards[v]
  BY <1>1, <1>5 DEF Config
<1>8. ~SelectionChanged(old, b, r) => new = old
  <2>1. ASSUME ~SelectionChanged(old, b, r) PROVE new = old
    <3>1. old.blueprint = b /\ old.root = r /\ n = old.generation
      BY <2>1, <1>2 DEF SelectionChanged, Board
    <3> QED BY <3>1, <1>2 DEF Board, new
  <2> QED BY <2>1
<1>9. SelectionChanged(old, b, r) => new.generation > old.generation
  BY <1>2 DEF new, Board
<1>10. new.blueprint = b /\ new.root = r BY DEF new
<1>11. Evolves(a, c) BY <1>7, <1>8, <1>9, <1>10 DEF Evolves
<1> QED BY <1>6, <1>7, <1>8, <1>10, <1>11 DEF c

(* A new board: its id has never been configured. *)
LEMMA CreateInstanceEvolves ==
    ASSUME TypeOK, NEW a \in Editors, NEW t \in Teams, NEW w \in Workflows, NEW b \in Blueprints,
           NEW r \in Roots, Creating(a, w), ~Configured(config, w),
           <<config.library, b>> \in op[a].heldBlueprints
    PROVE  /\ CreateInstance(config, t, w, b, r) \in Config
           /\ Evolves(a, CreateInstance(config, t, w, b, r))
           /\ CreateInstance(config, t, w, b, r).library = config.library
           /\ \A v \in Workflows \ {w} : CreateInstance(config, t, w, b, r).boards[v] = config.boards[v]
           /\ CreateInstance(config, t, w, b, r).boards[w].blueprint = b
           /\ CreateInstance(config, t, w, b, r).boards[w].root = r
<1> DEFINE new == [team |-> t, blueprint |-> b, root |-> r, generation |-> 0]
           c == CreateInstance(config, t, w, b, r)
<1>1. config \in Config BY DEF TypeOK
<1>2. new \in Board BY DEF Board
<1>3. c = [config EXCEPT !.boards = [config.boards EXCEPT ![w] = new]]
  BY <1>1 DEF CreateInstance, Config
<1>4. new.blueprint = b /\ new.root = r OBVIOUS
<1> HIDE DEF new, c
<1>5. c \in Config BY <1>1, <1>2, <1>3 DEF Config
<1>6. c.library = config.library /\ c.boards[w] = new
      /\ \A v \in Workflows \ {w} : c.boards[v] = config.boards[v]
  BY <1>1, <1>3 DEF Config
<1>7. Evolves(a, c) BY <1>4, <1>6 DEF Evolves
<1> QED BY <1>4, <1>5, <1>6, <1>7 DEF c

(* Moving the library raises the generation of every board. *)
LEMMA SettingsEvolve ==
    ASSUME TypeOK, NEW a \in Editors, NEW t \in Teams, NEW l \in Libraries
    PROVE  /\ PatchFlowgencySettings(config, t, l) \in Config
           /\ Evolves(a, PatchFlowgencySettings(config, t, l))
           /\ l = config.library =>
                 \A v \in Workflows : PatchFlowgencySettings(config, t, l).boards[v] = config.boards[v]
           /\ PatchFlowgencySettings(config, t, l).library = l
<1> DEFINE moved(v) == IF Configured(config, v) /\ l # config.library
                       THEN [config.boards[v] EXCEPT !.generation = @ + 1] ELSE config.boards[v]
           boards == [v \in Workflows |-> moved(v)]
           m == ApplyWorkflowLibrary(config, l)
           c == PatchFlowgencySettings(config, t, l)
<1>1. config \in Config BY DEF TypeOK
<1>2. \A v \in Workflows : /\ moved(v) \in Board \cup {NoBoard}
                           /\ Configured(config, v) /\ l # config.library =>
                                 moved(v).generation > config.boards[v].generation
                           /\ ~Configured(config, v) => moved(v) = NoBoard
  BY <1>1 DEF Config, Configured, Board
<1>3. m = [config EXCEPT !.library = l, !.boards = boards]
  BY <1>1 DEF ApplyWorkflowLibrary, Config
<1>4. boards \in [Workflows -> Board \cup {NoBoard}]
      /\ \A v \in Workflows : boards[v] = moved(v)
  BY <1>2
<1>5. l = config.library => \A v \in Workflows : moved(v) = config.boards[v] OBVIOUS
<1> HIDE DEF boards, moved
<1>6. m \in Config /\ m.library = l /\ m.boards = boards BY <1>1, <1>3, <1>4 DEF Config
<1>7. c = [m EXCEPT !.default = t] BY DEF PatchFlowgencySettings
<1> HIDE DEF m, c
<1>8. c \in Config BY <1>6, <1>7 DEF Config
<1>9. c.library = l /\ \A v \in Workflows : c.boards[v] = moved(v)
  BY <1>4, <1>6, <1>7 DEF Config
<1>10. Evolves(a, c) BY <1>2, <1>5, <1>9 DEF Evolves, Configured
<1> QED BY <1>5, <1>8, <1>9, <1>10 DEF c

(* A patch that changes no board, or removes some. *)
LEMMA QuietEvolves ==
    ASSUME NEW a \in Editors, NEW c, c.library = config.library,
           \A v \in Workflows : c.boards[v] \in {config.boards[v], NoBoard}
    PROVE  Evolves(a, c)
BY DEF Evolves, Configured

(* Saving or creating a team leaves the boards alone. *)
LEMMA PatchTeamQuiet ==
    ASSUME TypeOK, NEW t \in Teams, NEW p \in Paths
    PROVE  /\ PatchTeam(config, t, p) \in Config /\ CreateTeam(config, t, p) = PatchTeam(config, t, p)
           /\ PatchTeam(config, t, p).library = config.library
           /\ PatchTeam(config, t, p).boards = config.boards
<1>1. config \in Config BY DEF TypeOK
<1> QED BY <1>1 DEF PatchTeam, CreateTeam, Config

(* Patching another section leaves the boards alone. *)
LEMMA PatchSectionQuiet ==
    ASSUME TypeOK
    PROVE  /\ PatchSection(config) \in Config /\ PatchSection(config).library = config.library
           /\ PatchSection(config).boards = config.boards
<1>1. config \in Config BY DEF TypeOK
<1> QED BY <1>1 DEF PatchSection, Config

(* Deleting a team removes boards and changes no other. *)
LEMMA DeleteTeamQuiet ==
    ASSUME TypeOK, NEW t \in Teams, Valid(DeleteTeam(config, t))
    PROVE  /\ DeleteTeam(config, t) \in Config
           /\ DeleteTeam(config, t).library = config.library
           /\ \A v \in Workflows : DeleteTeam(config, t).boards[v] \in {config.boards[v], NoBoard}
<1> DEFINE d == IF config.default # t THEN config.default
                ELSE IF TeamsOf(config) = {t} THEN NoTeam
                ELSE CHOOSE u \in TeamsOf(config) : u # t
           boards == [v \in Workflows |->
               IF Configured(config, v) /\ config.boards[v].team = t THEN NoBoard ELSE config.boards[v]]
           teams == [config.teams EXCEPT ![t] = NoPath]
           c == DeleteTeam(config, t)
<1>1. config \in Config BY DEF TypeOK
<1>2. c = [config EXCEPT !.teams = teams, !.default = d, !.boards = boards]
  BY <1>1 DEF DeleteTeam, Config
<1>3. teams \in [Teams -> Paths \cup {NoPath}] BY <1>1 DEF Config
<1>4. boards \in [Workflows -> Board \cup {NoBoard}]
      /\ \A v \in Workflows : boards[v] \in {config.boards[v], NoBoard}
  BY <1>1 DEF Config
<1> HIDE DEF d, boards, teams, c
<1>5. c.default = d /\ c.boards = boards /\ c.library = config.library
  BY <1>1, <1>2 DEF Config
<1>6. d \in Teams \cup {NoTeam}
  BY <1>5 DEF c, Valid, DefaultDeclared, TeamsOf
<1>7. c \in Config BY <1>1, <1>2, <1>3, <1>4, <1>6 DEF Config
<1> QED BY <1>4, <1>5, <1>7 DEF c

-----------------------------------------------------------------------------
(* Every write leaves the boards readable, or is one of the exceptions. *)

StaysReadable ==
    \A w \in Workflows :
        Breaks(w) => \/ config'.library # config.library
                     \/ edits' # edits
                     \/ \E a \in Editors : op[a] # Idle /\ op'[a] = Idle /\ op[a].dirty

(* A board that keeps its selection, its source and its ticket does not break. *)
LEMMA SameBoard ==
    ASSUME NEW w \in Workflows, config'.library = config.library, source' = source,
           tickets' = tickets, config'.boards[w] \in {config.boards[w], NoBoard}
    PROVE  ~Breaks(w)
<1>1. CASE config'.boards[w] = NoBoard BY <1>1 DEF Breaks, Configured
<1>2. CASE config'.boards[w] = config.boards[w]
  <2>1. Readable(w)' = Readable(w)
    BY <1>2 DEF Readable, Inspect, Compatible, Namespace
  <2> QED BY <1>2, <2>1 DEF Breaks, Configured, SelectionChanged
<1> QED BY <1>1, <1>2

(* A step that writes nothing breaks no board. *)
LEMMA QuietReadable ==
    ASSUME UNCHANGED <<config, source, tickets>> PROVE StaysReadable
BY SameBoard DEF StaysReadable

(* save_instance and create_instance: config.yaml is what the operation read,
   so the destination it checked is still the destination. *)
LEMMA SaveInstanceStep == ASSUME Inv, NEW a \in Editors, SaveInstance(a) PROVE Inv' /\ StaysReadable
<1>1. Busy(a) /\ op[a] \in Operation /\ op[a].pc = "verified"
      /\ op[a].kind \in {"save_instance", "create_instance"}
  BY BusyTyped DEF SaveInstance, Busy, Phase, Inv
<1> PICK o \in Operation : o = op[a] BY <1>1
<1>2. Sound(o) BY <1>1 DEF Inv, OperationsSound
<1> PICK w \in Workflows : w = o.arg.workflow BY <1>1, ArgumentsNamed DEF Inv
<1> PICK b \in Blueprints : b = o.arg.blueprint BY <1>1, ArgumentsNamed DEF Inv
<1> PICK r \in Roots : r = o.arg.root BY <1>1, ArgumentsNamed DEF Inv
<1> PICK t \in Teams : t = o.arg.team BY <1>1, ArgumentsNamed DEF Inv
<1>3. /\ o.seen = o.page \/ o.kind = "create_instance"
      /\ o.read # Missing
      /\ <<o.seen.library, b>> \in o.heldBlueprints
      /\ InstanceStays(o)
  BY <1>1, <1>2 DEF Sound, PhaseFits, LocksHeld, VerifiedStays, Reloaded, Guarded, ExpectsPage,
         BlueprintLocks
<1> DEFINE P == PatchInstance(config, w, b, r)
           C == CreateInstance(config, t, w, b, r)
<1>4. \/ Release(a) /\ UNCHANGED <<config, source, tickets, retired, issued, begun, edits>>
      \/ /\ config = o.seen
         /\ \/ o.kind = "save_instance" /\ Valid(P) /\ Commits(a, P)
            \/ o.kind = "create_instance" /\ Valid(C) /\ Commits(a, C)
  <2>1. CASE o.kind = "save_instance"
    <3>1. CommitConfig(a, o.seen, PatchInstance(o.seen, w, b, r)) BY <2>1 DEF SaveInstance
    <3> QED BY <2>1, <3>1, CommitCases
  <2>2. CASE o.kind = "create_instance"
    <3>1. CommitConfig(a, o.seen, CreateInstance(o.seen, t, w, b, r)) BY <2>2 DEF SaveInstance
    <3> QED BY <2>2, <3>1, CommitCases
  <2> QED BY <1>1, <2>1, <2>2
<1>5. ASSUME config = o.seen, NEW c \in Config, Valid(c), Evolves(a, c), Commits(a, c),
             c.library = config.library,
             \A v \in Workflows \ {w} : c.boards[v] = config.boards[v],
             c.boards[w].blueprint = b, c.boards[w].root = r,
             \/ c.boards[w] = config.boards[w]
             \/ Compatible(o.read, tickets[<<r, w>>])
      PROVE  Inv' /\ StaysReadable
  <2>1. Inv' BY <1>1, <1>5, CommitStep
  <2>2. config' = c /\ source' = source /\ tickets' = tickets /\ op'[a] = Idle
    BY <1>5, CommitWrites DEF Commits, Inv
  <2>3. op[a] # Idle BY <1>1 DEF Idle
  <2>4. ASSUME NEW v \in Workflows, Breaks(v) PROVE o.dirty
    <3>1. v = w BY <2>2, <2>4, <1>5, SameBoard
    <3>2. c.boards[w] # config.boards[w] BY <2>2, <2>4, <3>1, <1>5, SameBoard
    <3>3. Compatible(o.read, tickets[<<r, w>>]) BY <1>5, <3>2
    <3>4. ~Readable(w)' BY <2>4, <3>1 DEF Breaks
    <3>5. Inspect(o.seen.library, b) # o.read
      BY <1>3, <1>5, <2>2, <3>3, <3>4 DEF Readable, Inspect, Namespace, Compatible
    <3> QED BY <1>3, <3>5 DEF InstanceStays
  <2>5. StaysReadable BY <2>2, <2>3, <2>4 DEF StaysReadable
  <2> QED BY <2>1, <2>5
<1>6. CASE Release(a) /\ UNCHANGED <<config, source, tickets, retired, issued, begun, edits>>
  BY <1>6, ReleaseStep, QuietReadable
<1>7. CASE config = o.seen /\ o.kind = "save_instance" /\ Valid(P) /\ Commits(a, P)
  <2>1. Configured(config, w) /\ ~LeftBehind(config, w)
    BY <1>2, <1>3, <1>7, NotLeftBehind DEF Inv, Sound, LocksChosen
  <2>2. /\ P \in Config /\ Evolves(a, P) /\ P.library = config.library
        /\ \A v \in Workflows \ {w} : P.boards[v] = config.boards[v]
        /\ P.boards[w].blueprint = b /\ P.boards[w].root = r
        /\ ~SelectionChanged(config.boards[w], b, r) => P.boards[w] = config.boards[w]
    <3>1. <<config.library, b>> \in op[a].heldBlueprints
      BY <1>3, <1>7
    <3>2. TypeOK
      BY DEF Inv
    <3> QED BY <2>1, <3>1, <3>2, PatchInstanceEvolves
  <2>3. SelectionChanged(config.boards[w], b, r) => Compatible(o.read, tickets[<<r, w>>])
    BY <1>3, <1>7, <2>1 DEF InstanceStays
  <2> HIDE DEF P
  <2> QED BY <1>5, <1>7, <2>2, <2>3
<1>8. CASE config = o.seen /\ o.kind = "create_instance" /\ Valid(C) /\ Commits(a, C)
  <2>1. Creating(a, w) /\ ~Configured(config, w)
    BY <1>1, <1>8 DEF Creating, Inv, NewIdsFresh
  <2>2. /\ C \in Config /\ Evolves(a, C) /\ C.library = config.library
        /\ \A v \in Workflows \ {w} : C.boards[v] = config.boards[v]
        /\ C.boards[w].blueprint = b /\ C.boards[w].root = r
    <3>1. <<config.library, b>> \in op[a].heldBlueprints
      BY <1>3, <1>8
    <3>2. TypeOK
      BY DEF Inv
    <3> QED BY <2>1, <3>1, <3>2, CreateInstanceEvolves
  <2>3. Compatible(o.read, tickets[<<r, w>>]) BY <1>3, <1>8 DEF InstanceStays
  <2> HIDE DEF C
  <2> QED BY <1>5, <1>8, <2>2, <2>3
<1> QED BY <1>4, <1>6, <1>7, <1>8

(* The commits that give no board another blueprint or storage. *)
LEMMA QuietCommit ==
    ASSUME Inv, NEW a \in Editors, Busy(a), NEW c \in Config, Valid(c), Commits(a, c), Evolves(a, c),
           \/ c.library # config.library
           \/ \A v \in Workflows : c.boards[v] \in {config.boards[v], NoBoard}
    PROVE  Inv' /\ StaysReadable
<1>1. Inv' BY CommitStep
<1>2. config' = c /\ source' = source /\ tickets' = tickets BY DEF Commits
<1> QED BY <1>1, <1>2, SameBoard DEF StaysReadable

(* Saving the settings: the boards change only when the library moves. *)
LEMMA SaveSettingsStep == ASSUME Inv, NEW a \in Editors, SaveSettings(a) PROVE Inv' /\ StaysReadable
<1>1. Busy(a) /\ op[a] \in Operation /\ op[a].pc = "body" /\ op[a].kind = "settings"
  BY BusyTyped DEF SaveSettings, Busy, Phase, Inv
<1>2. Sound(op[a]) BY <1>1 DEF Inv, OperationsSound
<1>3. op[a].seen = op[a].page
  BY <1>1, <1>2 DEF Sound, PhaseFits, Reloaded, Guarded, ExpectsPage
<1> PICK t \in Teams : t = op[a].arg.default BY <1>1, ArgumentsNamed DEF Inv
<1> PICK l \in Libraries : l = op[a].arg.library BY <1>1, ArgumentsNamed DEF Inv
<1> DEFINE c == PatchFlowgencySettings(config, t, l)
<1>4. \/ Release(a) /\ UNCHANGED <<config, source, tickets, retired, issued, begun, edits>>
      \/ Valid(c) /\ Commits(a, c)
  BY <1>3, CommitCases DEF SaveSettings
<1>5. /\ c \in Config /\ Evolves(a, c) /\ c.library = l
      /\ l = config.library => \A v \in Workflows : c.boards[v] = config.boards[v]
  BY SettingsEvolve DEF Inv
<1> HIDE DEF c
<1> QED BY <1>1, <1>4, <1>5, ReleaseStep, QuietReadable, QuietCommit

(* Saving, creating or deleting a team. *)
LEMMA SaveTeamStep == ASSUME Inv, NEW a \in Editors, SaveTeam(a) PROVE Inv' /\ StaysReadable
<1>1. Busy(a) /\ op[a].kind \in {"team_save", "team_create", "team_delete"}
  BY DEF SaveTeam, Busy, Phase
<1>2. CASE op[a].kind \in {"team_save", "team_create"}
  <2> PICK p \in Paths : p = op[a].arg.path BY <1>1, <1>2, ArgumentsNamed DEF Inv
  <2>1. \E t \in Teams :
           t = IF op[a].kind = "team_save" THEN op[a].arg.team ELSE op[a].arg.new
    BY <1>1, <1>2, ArgumentsNamed DEF Inv
  <2> PICK t \in Teams : t = IF op[a].kind = "team_save" THEN op[a].arg.team ELSE op[a].arg.new
    BY <2>1
  <2> DEFINE c == PatchTeam(config, t, p)
  <2>2. /\ c \in Config /\ c.library = config.library /\ c.boards = config.boards
        /\ CreateTeam(config, t, p) = c
    BY PatchTeamQuiet DEF Inv
  <2>3. \/ Release(a) /\ UNCHANGED <<config, source, tickets, retired, issued, begun, edits>>
        \/ CommitConfig(a, op[a].seen, PatchTeam(op[a].seen, t, p))
        \/ CommitConfig(a, op[a].seen, CreateTeam(op[a].seen, t, p))
    BY <1>2 DEF SaveTeam
  <2>4. \/ Release(a) /\ UNCHANGED <<config, source, tickets, retired, issued, begun, edits>>
        \/ Valid(c) /\ Commits(a, c)
    BY <2>2, <2>3, CommitCases
  <2> HIDE DEF c
  <2>5. Evolves(a, c) BY <2>2, QuietEvolves
  <2> QED BY <1>1, <2>2, <2>4, <2>5, ReleaseStep, QuietReadable, QuietCommit
<1>3. CASE op[a].kind = "team_delete"
  <2> PICK t \in Teams : t = op[a].arg.team BY <1>1, <1>3, ArgumentsNamed DEF Inv
  <2> DEFINE c == DeleteTeam(config, t)
  <2>1. \/ Release(a) /\ UNCHANGED <<config, source, tickets, retired, issued, begun, edits>>
        \/ Valid(c) /\ Commits(a, c)
    BY <1>3, CommitCases DEF SaveTeam
  <2>2. Valid(c) => /\ c \in Config /\ c.library = config.library
                    /\ \A v \in Workflows : c.boards[v] \in {config.boards[v], NoBoard}
    BY DeleteTeamQuiet DEF Inv
  <2> HIDE DEF c
  <2>3. Valid(c) => Evolves(a, c) BY <2>2, QuietEvolves
  <2> QED BY <1>1, <2>1, <2>2, <2>3, ReleaseStep, QuietReadable, QuietCommit
<1> QED BY <1>1, <1>2, <1>3

(* Patching another section. *)
LEMMA SaveSectionStep == ASSUME Inv, NEW a \in Editors, SaveSection(a) PROVE Inv' /\ StaysReadable
<1>1. Busy(a) BY DEF SaveSection, Busy
<1> DEFINE c == PatchSection(config)
<1>2. \/ Release(a) /\ UNCHANGED <<config, source, tickets, retired, issued, begun, edits>>
      \/ Valid(c) /\ Commits(a, c)
  BY CommitCases DEF SaveSection
<1>3. c \in Config /\ c.library = config.library /\ c.boards = config.boards
  BY PatchSectionQuiet DEF Inv
<1> HIDE DEF c
<1>4. Evolves(a, c) BY <1>3, QuietEvolves
<1> QED BY <1>1, <1>2, <1>3, <1>4, ReleaseStep, QuietReadable, QuietCommit

-----------------------------------------------------------------------------
(* Writes of sources and tickets. *)

(* The write of an operation that ends with it: the others keep what they have
   verified. *)
LEMMA WriteStep ==
    ASSUME Inv, NEW a \in Editors, Release(a),
           UNCHANGED <<config, retired, issued, begun, edits>>,
           source' \in [Libraries \X Blueprints -> Definitions \cup {Missing}],
           tickets' \in [Roots \X Workflows -> Ticket \cup {Missing}],
           \A b \in Editors \ {a} : Busy(b) => VerifiedStays(op[b])'
    PROVE  Inv'
<1>1. op' \in [Editors -> Operation \cup {Idle}] /\ op'[a] = Idle
      /\ \A b \in Editors \ {a} : op'[b] = op[b]
  BY DEF Release, Inv, TypeOK
<1>2. \A b \in Editors : Busy(b)' <=> b # a /\ Busy(b)
  BY <1>1 DEF Busy, Phase, Idle
<1>3. \A c : Follows(c)' <=> Follows(c) BY DEF Follows, LeftBehind, Configured
<1>4. \A o : Sound(o) /\ VerifiedStays(o)' => Sound(o)'
  BY <1>3 DEF Sound, CopiesFollow, PhaseFits, LocksChosen, LocksHeld, LeftBehind, Configured,
         ExpectsPage, BlueprintLocks
<1>5. TypeOK'
  BY <1>1 DEF Inv, TypeOK, Phase, Idle, Config, Valid, DefaultDeclared, BoardsComplete,
         DirectoriesDisjoint, StorageDisjoint, Ticket
<1>6. IdsIssued' BY DEF Inv, IdsIssued, Configured
<1>7. NewIdsFresh'
  <2>1. \A b \in Editors, w \in Workflows : Creating(b, w)' <=> b # a /\ Creating(b, w)
    BY <1>1, <1>2 DEF Creating
  <2>2. \A c, w : Configured(c, w)' <=> Configured(c, w) BY DEF Configured
  <2> QED BY <1>1, <1>2, <2>1, <2>2 DEF Inv, NewIdsFresh
<1>8. RetiredOlder' BY DEF Inv, RetiredOlder, Older, Configured
<1>9. OperationsSound'
  <2>1. ASSUME NEW b \in Editors, b # a, Busy(b) PROVE Sound(op[b])'
    <3>1. \E o : o = op[b] OBVIOUS
    <3> PICK o : o = op[b] BY <3>1
    <3>2. Sound(o) BY <2>1 DEF Inv, OperationsSound
    <3>3. VerifiedStays(op[b])' BY <2>1
    <3>4. op'[b] = o BY <1>1, <2>1
    <3>5. VerifiedStays(o)' BY <3>3, <3>4
    <3> QED BY <1>4, <3>2, <3>4, <3>5
  <2> QED BY <1>2, <2>1 DEF OperationsSound
<1>10. LocksExclusive' BY <1>1 DEF Inv, LocksExclusive, Idle
<1> QED BY <1>5, <1>6, <1>7, <1>8, <1>9, <1>10 DEF Inv

(* Another operation past its locks holds the lock of each blueprint it named. *)
LEMMA HoldsNamed ==
    ASSUME Inv, NEW b \in Editors, Busy(b), Phase(b) \in Guarded,
           op[b].kind \notin {"settings", "team_save", "team_create", "team_delete"},
           NEW n \in op[b].blueprints
    PROVE  /\ <<op[b].seen.library, n>> \in op[b].heldBlueprints
           /\ \A a \in Editors \ {b} : <<op[b].seen.library, n>> \notin op[a].heldBlueprints
<1>1. Sound(op[b]) BY DEF Inv, OperationsSound
<1>2. n \in BlueprintLocks(op[b]) BY DEF BlueprintLocks
<1>3. op[b].pc \in Reloaded /\ op[b].pc # "blueprints" BY DEF Phase, Guarded, Reloaded
<1>4. <<op[b].seen.library, n>> \in op[b].heldBlueprints
  BY <1>1, <1>2, <1>3 DEF Sound, LocksHeld
<1> QED BY <1>4 DEF Inv, LocksExclusive

(* A source is published under its lock: nobody else has looked at it, and
   every board that uses the blueprint now was checked with the new
   definition. *)
LEMMA PublishStep == ASSUME Inv, NEW a \in Editors, PublishBlueprint(a) PROVE Inv' /\ StaysReadable
<1>1. Busy(a) /\ op[a] \in Operation /\ Phase(a) = "asserted" /\ Release(a)
      /\ config' = config /\ tickets' = tickets
  BY BusyTyped DEF PublishBlueprint, Busy, Phase, Inv
<1> PICK o \in Operation : o = op[a] BY <1>1
<1>2. Sound(o) BY <1>1 DEF Inv, OperationsSound
<1>3. o.kind \in {"save_blueprint", "create_blueprint"}
  BY <1>1, <1>2 DEF Sound, PhaseFits, Phase
<1> PICK k \in Blueprints : k = o.arg.blueprint BY <1>1, <1>3, ArgumentsNamed DEF Inv
<1>4. k \in o.blueprints BY <1>2, <1>3 DEF Sound, PhaseFits
<1>5. o.arg.definition \in Definitions /\ o.seen.library \in Libraries
  BY <1>1, <1>3, ArgumentsNamed DEF Inv, Operation, Config
<1> PICK key \in Libraries \X Blueprints : key = <<o.seen.library, k>> BY <1>5
<1>6. source \in [Libraries \X Blueprints -> Definitions \cup {Missing}] BY DEF Inv, TypeOK
<1>7. \/ source' = source
      \/ /\ source' = [source EXCEPT ![key] = o.arg.definition]
         /\ o.kind = "create_blueprint" => source[key] = Missing
  BY <1>3 DEF PublishBlueprint
<1>8. /\ source' \in [Libraries \X Blueprints -> Definitions \cup {Missing}]
      /\ \A l \in Libraries \X Blueprints : l # key => source'[l] = source[l]
  BY <1>5, <1>6, <1>7
<1>9. key \in o.heldBlueprints BY <1>1, <1>3, <1>4, HoldsNamed DEF Guarded
<1>10. ASSUME NEW b \in Editors \ {a}, Busy(b) PROVE VerifiedStays(op[b])'
  <2>1. op'[b] = op[b] BY <1>1, <1>10 DEF Release, Inv, TypeOK
  <2>2. op[b] \in Operation BY <1>10, BusyTyped DEF Inv
  <2> PICK q \in Operation : q = op[b] BY <2>2
  <2>3. Sound(q) BY <1>10 DEF Inv, OperationsSound
  <2>4. q.pc = "verified" /\ q.kind \in {"save_instance", "create_instance"} => InstanceStays(q)'
    <3>1. SUFFICES ASSUME q.pc = "verified", q.kind \in {"save_instance", "create_instance"}
                   PROVE  InstanceStays(q)'
      OBVIOUS
    <3>2. InstanceStays(q) BY <2>3, <3>1 DEF Sound, VerifiedStays
    <3>3. q.arg.blueprint \in q.blueprints /\ q.arg.blueprint \in Blueprints
      BY <1>10, <2>3, <3>1, ArgumentsNamed DEF Sound, PhaseFits, Inv
    <3> PICK l \in Libraries \X Blueprints : l = <<q.seen.library, q.arg.blueprint>>
      BY <3>3 DEF Operation, Config
    <3>4. l \in q.heldBlueprints BY <1>10, <3>1, <3>3, HoldsNamed DEF Guarded, Phase
    <3>5. l # key BY <1>9, <1>10, <3>4 DEF Inv, LocksExclusive
    <3>6. source'[l] = source[l] BY <1>8, <3>5
    <3> QED BY <1>1, <3>2, <3>6
            DEF InstanceStays, Inspect, Compatible, SelectionChanged, LeftBehind, Configured
  <2>5. BlueprintStays(q) => BlueprintStays(q)'
    BY <1>1 DEF BlueprintStays, BindingsUsing, Configured, Compatible, Namespace, LeftBehind
  <2>6. PublicationStays(q) => PublicationStays(q)'
    BY <1>1 DEF PublicationStays, BindingsUsing, Configured, Compatible, Namespace
  <2>7. VerifiedStays(q)' BY <2>3, <2>4, <2>5, <2>6 DEF Sound, VerifiedStays
  <2> QED BY <2>1, <2>7
<1>11. Inv' BY <1>1, <1>8, <1>10, WriteStep DEF PublishBlueprint, Inv, TypeOK
<1>12. ASSUME NEW w \in Workflows, Breaks(w) PROVE o.dirty
  <2>1. Configured(config, w) /\ Readable(w) /\ ~Readable(w)'
    BY <1>1, <1>12 DEF Breaks, Configured, SelectionChanged
  <2>2. config.boards[w] \in Board /\ config.library \in Libraries
    BY <2>1 DEF Inv, TypeOK, Config, Configured
  <2> PICK l \in Libraries \X Blueprints : l = <<config.library, config.boards[w].blueprint>>
    BY <2>2 DEF Board
  <2>3. source'[l] # source[l]
    BY <1>1, <2>1 DEF Readable, Inspect, Compatible, Namespace
  <2>4. l = key BY <1>8, <2>3
  <2>5. source'[l] = o.arg.definition /\ source[l] # Missing
    BY <1>6, <1>7, <2>1, <2>3, <2>4 DEF Readable, Inspect
  <2>6. o.kind = "save_blueprint" BY <1>3, <1>7, <2>3, <2>4, <2>5
  <2>7. PublicationStays(o) BY <1>1, <1>2, <2>6 DEF Sound, VerifiedStays, Phase
  <2>8. w \in BindingsUsing(config, k) /\ config.library = o.seen.library
    BY <2>1, <2>4 DEF BindingsUsing
  <2>9. ~Compatible(o.arg.definition, tickets[Namespace(config, w)])
    BY <1>1, <1>5, <2>1, <2>5, BoardConstants DEF Readable, Inspect, Compatible, Namespace
  <2> QED BY <2>7, <2>8, <2>9 DEF PublicationStays
<1>13. op[a] # Idle /\ op'[a] = Idle BY <1>1 DEF Idle, Phase, Release, Inv, TypeOK
<1> QED BY <1>11, <1>12, <1>13 DEF StaysReadable

(* A ticket is written while its board is bound as the operation read it and
   under the lock of its blueprint: nobody else has looked at this ticket, and
   the blueprint interprets what is written. *)
LEMMA WriteTicketStep == ASSUME Inv, NEW a \in Editors, WriteTicket(a) PROVE Inv' /\ StaysReadable
<1>1. /\ Busy(a) /\ op[a] \in Operation /\ Phase(a) = "verified" /\ Release(a)
      /\ op[a].kind \in {"ticket_create", "ticket_transition"}
      /\ UNCHANGED <<config, source, retired, issued, begun, edits>>
  BY BusyTyped DEF WriteTicket, Busy, Phase, Inv
<1> PICK o \in Operation : o = op[a] BY <1>1
<1>2. CASE ~ContractCurrent(o)
  <2>1. UNCHANGED tickets BY <1>2 DEF WriteTicket
  <2> QED BY <1>1, <2>1, ReleaseStep, QuietReadable
<1>3. CASE ContractCurrent(o)
  <2>1. Sound(o) BY <1>1 DEF Inv, OperationsSound
  <2> PICK v \in Workflows : v = o.arg.workflow BY <1>1, ArgumentsNamed DEF Inv
  <2>2. /\ Configured(config, v) /\ ContextDigest(config, v) = ContextDigest(o.seen, v)
        /\ Inspect(config.library, config.boards[v].blueprint) = o.read
    BY <1>3 DEF ContractCurrent
  <2>3. config.boards[v] \in Board /\ config.library \in Libraries
    BY <2>2 DEF Inv, TypeOK, Config, Configured
  <2> PICK l \in Libraries \X Blueprints : l = <<config.library, config.boards[v].blueprint>>
    BY <2>3 DEF Board
  <2> PICK ns \in Roots \X Workflows : ns = <<config.boards[v].root, v>> BY <2>3 DEF Board
  <2>4. /\ o.seen.boards[v].blueprint = config.boards[v].blueprint
        /\ o.seen.boards[v].root = config.boards[v].root /\ o.seen.library = config.library
    BY <2>2 DEF ContextDigest
  <2>5. o.read # Missing /\ o.read \in Definitions
    BY <1>1, <2>1 DEF Sound, PhaseFits, Phase, Operation
  <2>6. l \in o.heldBlueprints
    <3>1. o.seen.boards[v].blueprint \in o.blueprints
      BY <1>1, <2>1 DEF Sound, LocksChosen, Phase, Guarded
    <3> QED BY <1>1, <2>4, <3>1, HoldsNamed DEF Guarded
  <2>7. tickets \in [Roots \X Workflows -> Ticket \cup {Missing}] BY DEF Inv, TypeOK
  <2>8. PICK s \in o.read.shapes :
           tickets' = [tickets EXCEPT ![ns] =
               [shape |-> s, revision |-> IF tickets[ns] = Missing THEN 1 ELSE tickets[ns].revision + 1]]
    <3>1. Namespace(o.seen, v) = ns BY <2>4 DEF Namespace
    <3>2. o.read.initial \in o.read.shapes BY <2>5, BoardConstants
    <3> QED BY <1>1, <1>3, <3>1, <3>2 DEF WriteTicket
  <2>9. s \in Shapes BY <2>5, <2>8, BoardConstants
  <2>10. /\ tickets' \in [Roots \X Workflows -> Ticket \cup {Missing}]
         /\ tickets'[ns] = Missing \/ tickets'[ns].shape = s
         /\ \A n \in Roots \X Workflows : n # ns => tickets'[n] = tickets[n]
    <3> DEFINE m == IF tickets[ns] = Missing THEN 1 ELSE tickets[ns].revision + 1
    <3>1. m \in Nat BY <2>7 DEF Ticket
    <3> HIDE DEF m
    <3>2. tickets' = [tickets EXCEPT ![ns] = [shape |-> s, revision |-> m]]
      BY <2>8 DEF m
    <3>3. [shape |-> s, revision |-> m] \in Ticket BY <2>9, <3>1 DEF Ticket
    <3> QED BY <2>7, <3>2, <3>3
  <2>11. ASSUME NEW b \in Editors \ {a}, Busy(b) PROVE VerifiedStays(op[b])'
    <3>1. op'[b] = op[b] BY <1>1 DEF Release, Inv, TypeOK
    <3>2. op[b] \in Operation BY <2>11, BusyTyped DEF Inv
    <3> PICK q \in Operation : q = op[b] BY <3>2
    <3>3. Sound(q) BY <2>11 DEF Inv, OperationsSound
    <3>4. l \notin q.heldBlueprints BY <2>6 DEF Inv, LocksExclusive
    <3>5. \A c : LeftBehind(c, v)' <=> LeftBehind(c, v) BY <1>1 DEF LeftBehind
    <3>6. ASSUME q.pc = "verified", q.kind \in {"save_instance", "create_instance"}
          PROVE  InstanceStays(q)'
      <4>1. InstanceStays(q) BY <3>3, <3>6 DEF Sound, VerifiedStays
      <4> PICK w \in Workflows : w = q.arg.workflow BY <2>11, <3>6, ArgumentsNamed DEF Inv
      <4> PICK r \in Roots : r = q.arg.root BY <2>11, <3>6, ArgumentsNamed DEF Inv
      <4>2. w = v => q.kind = "save_instance" /\ LeftBehind(q.seen, v)
        <5>1. SUFFICES ASSUME w = v PROVE q.kind = "save_instance" /\ LeftBehind(q.seen, v)
          OBVIOUS
        <5>2. q.kind # "create_instance"
          BY <2>2, <2>11, <5>1 DEF Inv, NewIdsFresh, Creating
        <5>3. q.seen = q.page
          BY <3>3, <3>6 DEF Sound, PhaseFits, ExpectsPage, Reloaded, Guarded
        <5>4. Configured(q.seen, v) /\ (q.seen.boards[v].blueprint \in q.blueprints \/ LeftBehind(q.seen, v))
          BY <3>3, <3>6, <5>1, <5>2, <5>3 DEF Sound, LocksChosen
        <5>5. Follows(q.seen) BY <3>3 DEF Sound, CopiesFollow
        <5>6. ASSUME config.boards[v] = q.seen.boards[v], config.library = q.seen.library,
                     q.seen.boards[v].blueprint \in q.blueprints
              PROVE  FALSE
          BY ZenonT(60), <2>11, <3>4, <3>6, <5>6, HoldsNamed DEF Guarded, Phase
        <5> QED BY <3>6, <5>2, <5>4, <5>5, <5>6 DEF Follows
      <4>3. w # v => tickets'[<<r, w>>] = tickets[<<r, w>>] BY <2>10
      <4>4. SelectionChanged(q.seen.boards[w], q.arg.blueprint, r)' <=>
            SelectionChanged(q.seen.boards[w], q.arg.blueprint, r)
        BY DEF SelectionChanged
      <4>5. LeftBehind(q.seen, w)' <=> LeftBehind(q.seen, w) BY <1>1 DEF LeftBehind
      <4> QED BY <1>1, <4>1, <4>2, <4>3, <4>4, <4>5 DEF InstanceStays, Inspect, Compatible
    <3>7. ASSUME NEW c \in Config, Follows(c), q.kind = "save_blueprint", Phase(b) \in Guarded,
                 c.library = q.seen.library,
                 v \in BindingsUsing(c, q.arg.blueprint)
          PROVE  LeftBehind(c, v)
      <4>1. q.arg.blueprint \in q.blueprints BY <3>3, <3>7 DEF Sound, PhaseFits
      <4>2. <<q.seen.library, q.arg.blueprint>> \in q.heldBlueprints
        BY <2>11, <3>7, <4>1, HoldsNamed
      <4>3. Configured(c, v) /\ c.boards[v].blueprint = q.arg.blueprint
        BY <3>7 DEF BindingsUsing
      <4> QED BY <3>4, <3>7, <4>2, <4>3 DEF Follows
    <3>8. ASSUME q.pc = "verified", q.kind = "save_blueprint" PROVE BlueprintStays(q)'
      <4>1. BlueprintStays(q) BY <3>3, <3>8 DEF Sound, VerifiedStays
      <4>2. q.seen \in Config /\ Follows(q.seen) /\ Phase(b) \in Guarded
        BY <3>3, <3>8 DEF Sound, CopiesFollow, Operation, Phase, Guarded
      <4>3. SUFFICES ASSUME NEW w \in Workflows, w \in BindingsUsing(q.seen, q.arg.blueprint)
                     PROVE  \/ Compatible(q.arg.definition, tickets'[Namespace(q.seen, w)])
                            \/ LeftBehind(q.seen, w)
        BY <1>1 DEF BlueprintStays, BindingsUsing, Configured, Namespace, LeftBehind, Compatible
      <4>4. CASE w = v BY <3>7, <3>8, <4>2, <4>3, <4>4
      <4>5. CASE w # v
        <5>1. q.seen.boards[w] \in Board
          BY <4>2, <4>3 DEF BindingsUsing, Configured, Config
        <5>2. tickets'[Namespace(q.seen, w)] = tickets[Namespace(q.seen, w)]
          BY <2>10, <4>5, <5>1 DEF Namespace, Board
        <5> QED BY <4>1, <4>3, <5>2 DEF BlueprintStays
      <4> QED BY <4>4, <4>5
    <3>9. ASSUME q.pc = "asserted", q.kind = "save_blueprint" PROVE PublicationStays(q)'
      <4>1. PublicationStays(q) BY <3>3, <3>9 DEF Sound, VerifiedStays
      <4>2. config \in Config /\ Follows(config) /\ Phase(b) \in Guarded /\ TypeOK
        BY <3>9, FollowsNow DEF Inv, TypeOK, Phase, Guarded
      <4>3. SUFFICES ASSUME NEW w \in Workflows, w \in BindingsUsing(config, q.arg.blueprint),
                            ~q.dirty, config.library = q.seen.library
                     PROVE  Compatible(q.arg.definition, tickets'[Namespace(config, w)])
        BY <1>1 DEF PublicationStays, BindingsUsing, Configured, Namespace, Compatible
      <4>4. w # v BY <2>2, <3>7, <3>9, <4>2, <4>3, NotLeftBehind
      <4>5. config.boards[w] \in Board
        BY <4>2, <4>3 DEF BindingsUsing, Configured, Config
      <4>6. tickets'[Namespace(config, w)] = tickets[Namespace(config, w)]
        BY <2>10, <4>4, <4>5 DEF Namespace, Board
      <4> QED BY <4>1, <4>3, <4>6 DEF PublicationStays
    <3>10. VerifiedStays(q)' BY <3>6, <3>8, <3>9 DEF VerifiedStays
    <3> QED BY <3>1, <3>10
  <2>12. Inv' BY <1>1, <2>10, <2>11, WriteStep DEF Inv, TypeOK
  <2>13. ASSUME NEW w \in Workflows PROVE ~Breaks(w)
    <3>1. SUFFICES ASSUME Configured(config, w), Readable(w) PROVE Readable(w)'
      BY <1>1 DEF Breaks, Configured, SelectionChanged
    <3>2. config.boards[w] \in Board BY <3>1 DEF Inv, TypeOK, Config, Configured
    <3>3. CASE w = v
      <4>1. Namespace(config, v) = ns BY DEF Namespace
      <4> QED BY <1>1, <2>2, <2>5, <2>8, <2>10, <3>3, <4>1, BoardConstants
              DEF Readable, Inspect, Compatible, Namespace
    <3>4. CASE w # v
      <4>1. tickets'[Namespace(config, w)] = tickets[Namespace(config, w)]
        BY <2>10, <3>2, <3>4 DEF Namespace, Board
      <4> QED BY <1>1, <3>1, <4>1 DEF Readable, Inspect, Compatible, Namespace
    <3> QED BY <3>3, <3>4
  <2> QED BY <2>12, <2>13 DEF StaysReadable
<1> QED BY <1>2, <1>3

(* A source edited by hand: the operations that have had their last look are
   marked, and nothing else the invariant speaks of depends on the source. *)
LEMMA ExternalEditStep ==
    ASSUME Inv, NEW l \in Libraries, NEW b \in Blueprints, NEW d \in Definitions \cup {Missing},
           ExternalEdit(l, b, d)
    PROVE  Inv' /\ StaysReadable
<1>1. /\ UNCHANGED <<config, tickets, retired, issued, begun>> /\ op' = Disturbed
      /\ edits' = edits + 1 /\ edits < MaxEdits /\ source' = [source EXCEPT ![<<l, b>>] = d]
  BY DEF ExternalEdit
<1>2. /\ op' \in [Editors -> Operation \cup {Idle}]
      /\ \A e \in Editors : /\ Busy(e) => op'[e] \in Operation /\ Marked(op[e], op'[e])
                            /\ Phase(e) \in {"verified", "asserted"} => op'[e].dirty
                            /\ ~Busy(e) => op'[e] = Idle
  BY <1>1, DisturbedMarks DEF Inv
<1>3. \A e \in Editors : ~Busy(e) => op[e] = Idle
  BY DEF Inv, TypeOK, Busy, Phase, Operation
<1>4. \A e \in Editors : Busy(e)' <=> Busy(e)
  BY <1>2, <1>3 DEF Busy, Phase, Marked, Idle
<1>5. TypeOK'
  <2>1. source' \in [Libraries \X Blueprints -> Definitions \cup {Missing}]
    BY <1>1 DEF Inv, TypeOK
  <2>2. edits' \in 0..MaxEdits BY <1>1, BoardConstants DEF Inv, TypeOK
  <2>3. \A e \in Editors : Busy(e)' => op'[e].arg \in Argument(op'[e].kind)
    BY <1>2, <1>4 DEF Inv, TypeOK, Busy, Marked
  <2> QED BY <1>1, <1>2, <2>1, <2>2, <2>3
          DEF Inv, TypeOK, Busy, Phase, Config, Valid, DefaultDeclared, BoardsComplete,
              DirectoriesDisjoint, StorageDisjoint, Ticket
<1>6. IdsIssued' /\ RetiredOlder'
  BY <1>1 DEF Inv, IdsIssued, RetiredOlder, Older, Configured
<1>7. NewIdsFresh'
  <2>1. \A e \in Editors, w \in Workflows : Creating(e, w)' <=> Creating(e, w)
    BY <1>2, <1>4 DEF Creating, Marked
  <2>2. \A c, w : Configured(c, w)' <=> Configured(c, w) BY DEF Configured
  <2>3. \A e \in Editors : Busy(e) => op'[e].page = op[e].page /\ op'[e].seen = op[e].seen
    BY <1>2 DEF Marked
  <2> QED BY <1>1, <1>4, <2>1, <2>2, <2>3 DEF Inv, NewIdsFresh
<1>8. ASSUME NEW e \in Editors, Busy(e) PROVE Sound(op[e])'
  <2>1. op[e] \in Operation /\ op'[e] \in Operation BY <1>2, <1>8, BusyTyped DEF Inv
  <2> PICK o \in Operation : o = op[e] BY <2>1
  <2> PICK q \in Operation : q = op'[e] BY <2>1
  <2>2. Sound(o) BY <1>8 DEF Inv, OperationsSound
  <2>3. Marked(o, q) /\ (o.pc \in {"verified", "asserted"} => q.dirty)
    BY <1>2, <1>8 DEF Phase
  <2>4. \A c : Follows(c)' <=> Follows(c) BY <1>1 DEF Follows, LeftBehind, Configured
  <2>5. CopiesFollow(q)' BY <2>2, <2>3, <2>4 DEF Sound, CopiesFollow, Marked
  <2>6. PhaseFits(q)' /\ LocksHeld(q)'
    BY <2>2, <2>3 DEF Sound, PhaseFits, LocksHeld, Marked, ExpectsPage, BlueprintLocks
  <2>7. LocksChosen(q)'
    BY <1>1, <2>2, <2>3 DEF Sound, LocksChosen, Marked, LeftBehind, Configured
  <2>8. VerifiedStays(q)'
    <3>1. o.pc = "verified" /\ o.kind \in {"save_instance", "create_instance"} => InstanceStays(q)'
      BY <1>1, <2>2, <2>3
         DEF Sound, VerifiedStays, Marked, InstanceStays, SelectionChanged, Compatible, LeftBehind
    <3>2. BlueprintStays(o) => BlueprintStays(q)'
      BY <1>1, <2>3
         DEF Marked, BlueprintStays, Compatible, LeftBehind, BindingsUsing, Namespace, Configured
    <3>3. o.pc = "asserted" => PublicationStays(q)' BY <2>3 DEF PublicationStays
    <3> QED BY <2>2, <2>3, <3>1, <3>2, <3>3 DEF Sound, VerifiedStays, Marked
  <2> QED BY <2>5, <2>6, <2>7, <2>8 DEF Sound
<1>9. OperationsSound' BY <1>4, <1>8 DEF OperationsSound
<1>10. LocksExclusive'
  <2>1. \A e \in Editors : op'[e].heldBlueprints = op[e].heldBlueprints
    BY <1>2, <1>3 DEF Marked
  <2> QED BY <2>1 DEF Inv, LocksExclusive
<1>11. edits' # edits BY <1>1 DEF Inv, TypeOK
<1> QED BY <1>5, <1>6, <1>7, <1>9, <1>10, <1>11 DEF Inv, StaysReadable

-----------------------------------------------------------------------------
(* The invariant holds. *)

(* What the program finds is a valid configuration, and nobody is at work. *)
LEMMA InvInit == Init => Inv
<1> SUFFICES ASSUME Init PROVE Inv OBVIOUS
<1>1. \A a \in Editors : op[a] = Idle BY DEF Init
<1>2. \A a \in Editors : ~Busy(a) BY <1>1 DEF Busy, Phase, Idle
<1>3. TypeOK
  <2>1. config \in Config /\ Valid(config) BY BoardConstants, InitialConfigsValid DEF Init, Config
  <2>2. source \in [Libraries \X Blueprints -> Definitions \cup {Missing}]
    BY BoardConstants DEF Init
  <2>3. tickets \in [Roots \X Workflows -> Ticket \cup {Missing}]
    BY BoardConstants DEF Init, Ticket
  <2>4. op \in [Editors -> Operation \cup {Idle}] BY DEF Init
  <2>5. retired \subseteq Context /\ issued \subseteq Workflows BY DEF Init
  <2>6. begun \in 0..MaxOps /\ edits \in 0..MaxEdits BY BoardConstants DEF Init
  <2> QED BY <1>2, <2>1, <2>2, <2>3, <2>4, <2>5, <2>6 DEF TypeOK, Busy
<1>4. IdsIssued BY DEF Init, IdsIssued
<1>5. NewIdsFresh BY <1>2 DEF NewIdsFresh, Creating
<1>6. RetiredOlder BY DEF Init, RetiredOlder
<1>7. OperationsSound BY <1>2 DEF OperationsSound
<1>8. LocksExclusive BY <1>1 DEF LocksExclusive, Idle
<1> QED BY <1>3, <1>4, <1>5, <1>6, <1>7, <1>8 DEF Inv

(* Every step keeps the invariant and leaves the boards readable: the steps
   before the write touch neither config.yaml, nor a source, nor a ticket. *)
LEMMA NextStep == ASSUME Inv, Next PROVE Inv' /\ StaysReadable
<1>1. ASSUME NEW a \in Editors, Opens(a) PROVE Inv' /\ StaysReadable
  <2>1. UNCHANGED <<config, source, tickets>>
    BY <1>1 DEF Opens, Open, OpenSaveInstance, OpenCreateInstance, OpenSaveBlueprint,
                OpenCreateBlueprint, OpenSettings, OpenTeamSave, OpenTeamCreate, OpenTeamDelete,
                OpenTicketCreate, OpenTicketTransition, OpenPatch
  <2> QED BY <1>1, <2>1, OpensStep, QuietReadable
<1>2. ASSUME NEW a \in Editors, Guard(a) PROVE Inv' /\ StaysReadable
  <2>1. UNCHANGED <<config, source, tickets>>
    BY <1>2 DEF Guard, Choose, LoadInitial, Reload, EnterBody, AcquireTeamLock,
                AcquireBlueprintLock
  <2>2. Inv'
    BY <1>2, ChooseStep, LoadInitialStep, ReloadStep, EnterBodyStep, TeamLockStep,
       BlueprintLockStep DEF Guard
  <2> QED BY <2>1, <2>2, QuietReadable
<1>3. ASSUME NEW a \in Editors, Body(a) PROVE Inv' /\ StaysReadable
  <2>1. CASE Verify(a)
    BY <2>1, VerifyStep, QuietReadable DEF Verify
  <2>2. CASE AssertConfigUnchanged(a)
    BY <2>2, AssertStep, QuietReadable DEF AssertConfigUnchanged
  <2>3. CASE SaveInstance(a) BY <2>3, SaveInstanceStep
  <2>4. CASE SaveSettings(a) BY <2>4, SaveSettingsStep
  <2>5. CASE SaveTeam(a) BY <2>5, SaveTeamStep
  <2>6. CASE SaveSection(a) BY <2>6, SaveSectionStep
  <2>7. CASE PublishBlueprint(a) BY <2>7, PublishStep
  <2>8. CASE WriteTicket(a) BY <2>8, WriteTicketStep
  <2> QED BY <1>3, <2>1, <2>2, <2>3, <2>4, <2>5, <2>6, <2>7, <2>8 DEF Body
<1>4. ASSUME NEW a \in Editors, Abandon(a) PROVE Inv' /\ StaysReadable
  BY <1>4, ReleaseStep, QuietReadable DEF Abandon
<1> QED BY <1>1, <1>2, <1>3, <1>4, ExternalEditStep DEF Next

(* The invariant of all behaviours. *)
THEOREM InvAlways == Spec => []Inv
<1>1. ASSUME Inv, UNCHANGED vars PROVE Inv'
  <2>1. /\ config' = config /\ source' = source /\ tickets' = tickets /\ op' = op
        /\ retired' = retired /\ issued' = issued /\ begun' = begun /\ edits' = edits
    BY <1>1 DEF vars
  <2>2. TypeOK'
    BY <1>1, <2>1 DEF Inv, TypeOK, Phase, Valid, DefaultDeclared, BoardsComplete,
       DirectoriesDisjoint, StorageDisjoint
  <2>3. IdsIssued' /\ NewIdsFresh'
    BY <1>1, <2>1 DEF Inv, IdsIssued, NewIdsFresh, Creating, Configured, Busy, Phase
  <2>4. RetiredOlder'
    BY <1>1, <2>1 DEF Inv, RetiredOlder, Older, Configured
  <2>5. LocksExclusive'
    BY <1>1, <2>1 DEF Inv, LocksExclusive, Busy, Phase
  <2>6. \A o : Sound(o) => Sound(o)'
    BY <2>1, SoundStays
  <2>7. OperationsSound'
    <3> SUFFICES ASSUME NEW a \in Editors, Busy(a)' PROVE Sound(op[a])'
      BY DEF OperationsSound
    <3>1. PICK o : o = op[a]
      OBVIOUS
    <3>2. Sound(o)
      BY <1>1, <2>1, <3>1 DEF Inv, OperationsSound, Busy, Phase
    <3>3. Sound(o)' /\ op'[a] = o
      BY <2>1, <2>6, <3>1, <3>2
    <3> QED BY <3>3
  <2> QED BY <2>2, <2>3, <2>4, <2>5, <2>7 DEF Inv
<1> QED BY <1>1, InvInit, NextStep, PTL DEF Spec

(* In every behaviour every context digest that a board has left behind stays
   retired, and all that is stored has its type and is valid: the generation of
   the board has grown past it, and no id is issued twice. *)
THEOREM ContextsSoundAlways == Spec => []ContextsSound
<1>1. ASSUME Inv PROVE ContextsSound
  <2>1. ASSUME NEW w \in Workflows, Configured(config, w), ContextDigest(config, w) \in retired
        PROVE  FALSE
    <3>1. Older(ContextDigest(config, w)) BY <1>1, <2>1 DEF Inv, RetiredOlder
    <3>2. config.boards[w].generation < config.boards[w].generation
      BY <2>1, <3>1 DEF Older, ContextDigest
    <3>3. config.boards[w].generation \in Nat
      BY <1>1, <2>1 DEF Inv, TypeOK, Config, Board, Configured
    <3> QED BY <3>2, <3>3
  <2> QED BY <1>1, <2>1 DEF ContextsSound, RetiredContextsStayRetired, Inv
<1> QED BY <1>1, InvAlways, PTL

(* In every behaviour no write of cooperating editors leaves a board with a
   ticket that its blueprint cannot interpret: what a write was checked against
   stays true under the locks it holds. *)
THEOREM BoardsStayReadableAlways == Spec => BoardsStayReadable
<1>1. ASSUME Inv, [Next]_vars
      PROVE  [StaysReadable]_vars
  BY <1>1, NextStep
<1>2. [StaysReadable]_vars <=>
        [\A w \in Workflows :
           Breaks(w) => \/ config'.library # config.library
                        \/ edits' # edits
                        \/ \E a \in Editors : op[a] # Idle /\ op'[a] = Idle /\ op[a].dirty]_vars
  BY DEF StaysReadable
<1> QED BY <1>1, <1>2, InvAlways, PTL DEF Spec, BoardsStayReadable

-----------------------------------------------------------------------------
(* Circular waits. *)

(* A set of numbers that is not empty has a least element. *)
LEMMA Least == ASSUME NEW T \in SUBSET Nat, T # {} PROVE \E x \in T : \A y \in T : x <= y
<1> DEFINE R == OpToRel(<, Nat)
<1>1. IsWellFoundedOn(R, Nat) BY NatLessThanWellFounded
<1>2. \A x, y \in Nat : x < y => <<x, y>> \in R BY DEF OpToRel
<1> HIDE DEF R
<1>3. PICK x \in T : \A y \in T : ~(<<y, x>> \in R) BY <1>1, WFMin
<1>4. ASSUME NEW y \in T PROVE x <= y
  <2>1. ~(y < x) BY <1>2, <1>3
  <2> QED BY <2>1
<1> QED BY <1>4

(* A bounded one has a greatest element too. *)
LEMMA Greatest ==
    ASSUME NEW T \in SUBSET Nat, NEW top \in Nat, \A y \in T : y <= top, T # {}
    PROVE  \E x \in T : \A y \in T : y <= x
<1> DEFINE S == {top - y : y \in T}
<1>1. PICK t \in T : TRUE OBVIOUS
<1>2. S \in SUBSET Nat /\ top - t \in S BY <1>1
<1>3. PICK x \in S : \A y \in S : x <= y BY <1>2, Least
<1>4. PICK z \in T : x = top - z BY <1>3
<1>5. \A y \in T : top - y \in S OBVIOUS
<1> HIDE DEF S
<1> QED BY <1>3, <1>4, <1>5

(* The numbers of the locks that a group waits for in one of the phases. *)
Waited(group, pc) ==
    {n \in Paths \cup Blueprints :
        \E a \in group : Phase(a) = pc /\ NextLock(op[a].needs, n)}

(* Where everybody in the group waits for somebody who waits for a later lock
   in the same phase, nobody waits in this phase. *)
LEMMA NobodyLast ==
    ASSUME NEW group, NEW pc,
           \A n \in Waited(group, pc) : \E m \in Waited(group, pc) : n < m
    PROVE  Waited(group, pc) = {}
<1> PICK T \in SUBSET (Paths \cup Blueprints) : T = Waited(group, pc) BY DEF Waited
<1>1. T \in SUBSET Nat BY BoardConstants DEF NoPath
<1>2. PICK top \in Nat : \A n \in T : n <= top BY BoardConstants DEF NoPath
<1>3. CASE T # {}
  <2>1. PICK x \in T : \A y \in T : y <= x BY <1>1, <1>2, <1>3, Greatest
  <2>2. PICK y \in T : x < y BY <2>1
  <2> QED BY <1>1, <2>1, <2>2
<1> QED BY <1>3

(* Whoever holds a blueprint lock and waits, waits for a later blueprint lock. *)
LEMMA LaterBlueprint ==
    ASSUME Inv, NEW group \in SUBSET Editors, NEW b \in group,
           \E c \in Editors : WaitsFor(b, c), NEW l \in op[b].heldBlueprints
    PROVE  \E m \in Waited(group, "blueprints") : l[2] < m
<1>1. Busy(b) BY DEF WaitsFor, Busy
<1>2. Sound(op[b]) BY <1>1 DEF Inv, OperationsSound
<1>3. op[b].pc \in Reloaded BY <1>2 DEF Sound, LocksHeld
<1>4. PICK m \in op[b].needs : Phase(b) = "blueprints" /\ NextLock(op[b].needs, m)
  BY <1>3 DEF WaitsFor, Phase, Reloaded, Guarded
<1>5. m \in Blueprints /\ l[2] < m BY <1>2, <1>4 DEF Sound, LocksHeld, Phase
<1> QED BY <1>4, <1>5 DEF Waited

(* Whoever waits for a team lock waits for a later one than those it holds. *)
LEMMA LaterPath ==
    ASSUME Inv, NEW group \in SUBSET Editors, NEW b \in group, Phase(b) = "teams",
           \E c \in Editors : WaitsFor(b, c), NEW p \in op[b].held
    PROVE  \E m \in Waited(group, "teams") : p < m
<1>1. Sound(op[b]) BY DEF Inv, OperationsSound, Busy
<1>2. PICK m \in op[b].needs : NextLock(op[b].needs, m) BY DEF WaitsFor
<1>3. m \in Paths /\ p < m BY <1>1, <1>2 DEF Sound, LocksHeld, Phase
<1> QED BY <1>2, <1>3 DEF Waited

(* In every behaviour no group of editors waits in a circle, however many of
   them want whichever team and blueprint locks: the locks are taken in one
   order, the teams' before the blueprints'. *)
THEOREM NoCircularWaitAlways == Spec => []NoCircularWait
<1>1. ASSUME Inv, NEW group \in SUBSET Editors,
             \A a \in group : \E b \in group : WaitsFor(a, b)
      PROVE  group = {}
  <2>1. Waited(group, "blueprints") = {}
    <3>1. ASSUME NEW n \in Waited(group, "blueprints")
          PROVE  \E m \in Waited(group, "blueprints") : n < m
      <4>1. PICK a \in group : Phase(a) = "blueprints" /\ NextLock(op[a].needs, n)
        BY <3>1 DEF Waited
      <4>2. PICK b \in group : WaitsFor(a, b) BY <1>1
      <4>3. PICK k \in op[a].needs : /\ NextLock(op[a].needs, k)
                                     /\ <<op[a].seen.library, k>> \in op[b].heldBlueprints
        BY <4>1, <4>2 DEF WaitsFor
      <4>4. n \in Nat /\ op[a].needs \subseteq Nat /\ n = k
        <5>1. Busy(a) BY <4>1 DEF Busy
        <5>2. op[a].needs \subseteq Nat BY <1>1, <5>1, BusyTyped DEF Inv, Operation
        <5> QED BY <4>1, <4>3, <5>2 DEF NextLock
      <4>5. \E m \in Waited(group, "blueprints") : <<op[a].seen.library, k>>[2] < m
        BY <1>1, <4>3, LaterBlueprint
      <4> QED BY <4>4, <4>5
    <3> QED BY <3>1, NobodyLast
  <2>2. \A a \in group : Phase(a) = "teams"
    <3>1. ASSUME NEW a \in group, Phase(a) # "teams" PROVE FALSE
      <4>1. PICK n \in op[a].needs : Phase(a) = "blueprints" /\ NextLock(op[a].needs, n)
        BY <1>1, <3>1 DEF WaitsFor
      <4>2. n \in Blueprints
        BY <1>1, <4>1 DEF Inv, OperationsSound, Sound, LocksHeld, Busy, Phase
      <4> QED BY <2>1, <4>1, <4>2 DEF Waited
    <3> QED BY <3>1
  <2>3. Waited(group, "teams") = {}
    <3>1. ASSUME NEW n \in Waited(group, "teams")
          PROVE  \E m \in Waited(group, "teams") : n < m
      <4>1. PICK a \in group : Phase(a) = "teams" /\ NextLock(op[a].needs, n)
        BY <3>1 DEF Waited
      <4>2. PICK b \in group : WaitsFor(a, b) BY <1>1
      <4>3. PICK p \in op[a].needs : NextLock(op[a].needs, p) /\ p \in op[b].held
        BY <4>1, <4>2 DEF WaitsFor
      <4>4. n \in Nat /\ op[a].needs \subseteq Nat /\ n = p
        <5>1. Busy(a) BY <4>1 DEF Busy
        <5>2. op[a].needs \subseteq Nat BY <1>1, <5>1, BusyTyped DEF Inv, Operation
        <5> QED BY <4>1, <4>3, <5>2 DEF NextLock
      <4> QED BY <1>1, <2>2, <4>3, <4>4, LaterPath
    <3> QED BY <3>1, NobodyLast
  <2>4. ASSUME NEW a \in group PROVE FALSE
    <3>1. PICK p \in op[a].needs : NextLock(op[a].needs, p) BY <1>1, <2>2 DEF WaitsFor
    <3>2. p \in Paths
      BY <1>1, <2>2, <3>1 DEF Inv, OperationsSound, Sound, LocksHeld, Busy, Phase
    <3> QED BY <2>2, <2>3, <3>1, <3>2 DEF Waited
  <2> QED BY <2>4
<1>2. Inv => NoCircularWait BY <1>1 DEF NoCircularWait
<1> QED BY <1>2, InvAlways, PTL

=============================================================================
