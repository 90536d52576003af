------------------------------- MODULE Agents -------------------------------
(***************************************************************************)
(* Agent instances: their entries in the configuration, their private      *)
(* prompts, their memories and the jobs submitted for them, while several  *)
(* requests change them at the same time (instances.py, prompts/,          *)
(* routines/editor.py, jobs/submission.py and the dashboard's routes).     *)
(*                                                                         *)
(*   config   config.yaml; its revision is a hash of its bytes, so the     *)
(*            configuration itself stands for its revision                 *)
(*   files    the private prompt files; the content stands for the digest  *)
(*   spaces   the prompt directories that exist                            *)
(*   memory   the memories of agents and of channels                       *)
(*   jobs     the active jobs; a running one holds the lock of its memory  *)
(*   op       the request every editor has under way                       *)
(*                                                                         *)
(* Locks are taken in the order teams, prompt namespaces, memories, each   *)
(* class in one canonical order. The lock of config.yaml is taken inside a *)
(* configuration operation and released by it; save_routines is the only   *)
(* operation that waits for another lock while it holds it.                *)
(***************************************************************************)
EXTENDS Integers

CONSTANTS
    Editors,      \* requests, by threads of one or more processes
    Teams,        \* numbered in the canonical lock order
    Names,        \* agent names
    Prompts,      \* private prompt names
    Channels,     \* memory channel keys
    Contents,     \* contents of a prompt file or a memory; Empty is one
    Empty,
    Jobs,         \* job ids
    NoAgent, NoJob,
    RunMemory,    \* the selector of a memory that lives as long as its job
    OwnMemory,    \* the selector of the agent's own memory
    Missing,      \* no file, no memory directory
    InitialStates,  \* what the requests find: records [config, files, memory]
    FreshForms,   \* a request reads the configuration its page was made from
    MaxOps,       \* bound: requests begun
    MaxDeaths     \* bound: requests whose process dies

VARIABLES config, files, spaces, memory, jobs, op, begun, deaths
agentsVars == <<config, files, spaces, memory, jobs, op, begun, deaths>>

Slots == Teams \X Names
(* An agent: its registered prompts, the private prompts its routines name,
   its memory selector, and the sections no other operation depends on. *)
Agent == [prompts : SUBSET Prompts, uses : SUBSET Prompts,
          memory : {RunMemory, OwnMemory} \cup Channels, section : BOOLEAN]
Config == [agents : [Slots -> Agent \cup {NoAgent}], channels : SUBSET Channels]

ASSUME AgentConstants ==
    /\ Teams \subseteq Nat /\ Empty \in Contents /\ Missing \notin Contents
    /\ NoAgent \notin Agent /\ Channels \cap Slots = {} /\ RunMemory \notin Slots \cup Channels
    /\ FreshForms \in BOOLEAN /\ MaxOps \in Nat /\ MaxDeaths \in Nat
    /\ \A s \in InitialStates :
          /\ s.config \in Config
          /\ s.files \in [Slots \X Prompts -> Contents \cup {Missing}]
          /\ s.memory \in [Slots \cup Channels -> Contents \cup {Missing}]

Kinds == {"create_agent", "remove_agent", "move", "create_prompt", "update_prompt",
          "delete_prompt", "routines", "section", "selector", "channel_create",
          "channel_rekey", "channel_delete", "content", "channel_content", "submit"}
RequestSteps == {"idle", "open", "locking", "create", "remove", "purge", "reload",
          "namespaces", "stage", "copy", "commit", "cleanup", "register", "undo",
          "unregister", "unlink", "routines", "replace", "check", "archive",
          "drop", "save", "load", "resolve"}

(* What a request knows. needs: locks of the current class still to be taken;
   then: the step they are taken for. Of the rest, page, entries, revision, seen
   and archive are what it has read; the others are the fields of its form.
   Missing stands for what it does not have. *)
NoRequest ==
    [pc |-> "idle", then |-> "idle", needs |-> {}, held |-> {}, kind |-> "none",
     slot |-> Missing, to |-> Missing, copy |-> FALSE, prompt |-> Missing,
     content |-> Missing, digest |-> Missing, uses |-> {}, memory |-> Missing,
     channel |-> Missing, new |-> Missing, override |-> Missing,
     page |-> Missing, entries |-> [p \in Prompts |-> Missing], revision |-> Missing,
     seen |-> Missing, archive |-> Missing]

-----------------------------------------------------------------------------
(* Locks. *)

TeamLock(t) == <<"team", t>>
SpaceLock(s) == <<"space", s>>
MemoryLock(m) == <<"memory", m>>
ConfigLock == <<"config", 0>>

RunningOn(m) == \E j \in Jobs : jobs[j] # NoJob /\ jobs[j].running /\ jobs[j].memory = m

Free(l) == /\ \A e \in Editors : l \notin op[e].held
           /\ l[1] = "memory" => ~RunningOn(l[2])

(* Team locks go by path, namespaces by digest, memories by hash: for the two
   slots of a move any fixed order will do. *)
Rank(l) == IF l[1] = "team" THEN l[2] ELSE l[2][1]

NextLock(e) == CHOOSE l \in op[e].needs : \A k \in op[e].needs : Rank(l) <= Rank(k)

(* Steps that begin with an operation of ConfigStore while locks are held. *)
ConfigSteps == {"create", "remove", "reload", "commit", "check", "drop", "load"}

(* The lock an editor waits for, if any. *)
WaitsFor(e) ==
    IF op[e].pc = "locking" THEN {NextLock(e)}
    ELSE IF op[e].pc = "routines" THEN {SpaceLock(op[e].slot)}
    ELSE IF op[e].pc \in ConfigSteps THEN {ConfigLock}
    ELSE {}

Acquire(e) ==
    /\ op[e].pc = "locking" /\ Free(NextLock(e))
    /\ LET rest == op[e].needs \ {NextLock(e)} IN
       op' = [op EXCEPT ![e].held = @ \cup {NextLock(e)}, ![e].needs = rest,
                        ![e].pc = IF rest = {} THEN op[e].then ELSE "locking"]
    /\ UNCHANGED <<config, files, spaces, memory, jobs, begun, deaths>>

(* The next class of locks; an empty one is passed over. *)
Locking(r, locks, step) ==
    [r EXCEPT !.pc = IF locks = {} THEN step ELSE "locking", !.needs = locks, !.then = step]

(* An operation of ConfigStore: nobody holds the lock of config.yaml. *)
ConfigReady == Free(ConfigLock)

-----------------------------------------------------------------------------
(* What the configuration and the stores say. *)

Exists(c, s) == c.agents[s] # NoAgent

(* _registered_prompt_entries: every file is read, under its own lock. *)
Registered(c, s) == c.agents[s].prompts
Readable(c, s) == /\ Registered(c, s) # {} => Free(SpaceLock(s))
                  /\ \A p \in Registered(c, s) : files[<<s, p>>] # Missing
Entries(c, s) ==
    [p \in Prompts |-> IF p \in Registered(c, s) THEN files[<<s, p>>] ELSE Missing]
Entered(entries) == {p \in Prompts : entries[p] # Missing}

(* resolve_memory_selector *)
Resolve(s, m) == IF m = OwnMemory THEN s ELSE m
MemoryOf(c, s) == Resolve(s, c.agents[s].memory)

(* _owned_memory_specs: only the agent's own memory moves with it. *)
Owned(c, s) == IF c.agents[s].memory = OwnMemory THEN {s} ELSE {}

(* JobStore.active *)
ActiveFor(s) == {j \in Jobs : jobs[j] # NoJob /\ jobs[j].slot = s}
ActiveOn(m) == {j \in Jobs : jobs[j] # NoJob /\ jobs[j].memory = m}

(* _preview_blocks *)
Blocked(c, s, to) ==
    \/ Exists(c, to)
    \/ ActiveFor(s) \cup ActiveFor(to) # {}
    \/ Owned(c, s) # {} /\ memory[to] # Missing
    \/ to \in spaces

(* _channel_references *)
Referenced(c, ch) == \E s \in Slots : Exists(c, s) /\ c.agents[s].memory = ch

(* _validate_memory_selector: a channel must be declared. *)
Declared(c, m) == m \in {RunMemory, OwnMemory} \cup c.channels

(* parse_config, for the agents of all teams. *)
Valid(c) == \A s \in Slots : Exists(c, s) => Declared(c, c.agents[s].memory)

(* The private prompts that routines name are registered, and what is registered
   has its file. *)
Runnable(c, f) ==
    \A s \in Slots : Exists(c, s) =>
       /\ c.agents[s].uses \subseteq Registered(c, s)
       /\ \A p \in Registered(c, s) : f[<<s, p>>] # Missing

(* AgentInstanceCreate.to_model *)
NewAgent == [prompts |-> {}, uses |-> {}, memory |-> OwnMemory, section |-> FALSE]

-----------------------------------------------------------------------------
(* The forms. A page shows one configuration, and the digest of what it
   edits; its request may arrive much later. *)

Open(e, form) ==
    /\ op[e].pc = "idle" /\ begun < MaxOps /\ ConfigReady
    /\ op' = [op EXCEPT ![e] = [form EXCEPT !.pc = "open", !.page = config]]
    /\ begun' = begun + 1
    /\ UNCHANGED <<config, files, spaces, memory, jobs, deaths>>

OnSlot(kind, s) == [NoRequest EXCEPT !.kind = kind, !.slot = s]
OnChannel(kind, ch) == [NoRequest EXCEPT !.kind = kind, !.channel = ch]

OpenSlot(e, kind) == \E s \in Slots : Open(e, OnSlot(kind, s))

OpenCreateAgent(e) == OpenSlot(e, "create_agent")
OpenRemoveAgent(e) == OpenSlot(e, "remove_agent")
OpenProfile(e) == OpenSlot(e, "section")
OpenRuntime(e) == OpenSlot(e, "section")
OpenPermissions(e) == OpenSlot(e, "section")

(* The memory a run may be asked to use: the agent's selection (Missing), its
   own, the run's, or a channel that is configured (_memory_override). *)
Overrides(c) == {Missing, RunMemory, OwnMemory} \cup c.channels

(* agent_run: the form may override the agent's memory, with Missing it does
   not. *)
OpenSubmit(e) ==
    \E s \in Slots, m \in Overrides(config) :
       Open(e, [OnSlot("submit", s) EXCEPT !.override = m])

OpenMove(e) ==
    \E s \in Slots, t \in Teams, copy \in BOOLEAN :
       /\ t # s[1]
       /\ Open(e, [OnSlot("move", s) EXCEPT !.to = <<t, s[2]>>, !.copy = copy])

OpenCreatePrompt(e) ==
    \E s \in Slots, p \in Prompts, c \in Contents \ {Empty} :
       Open(e, [OnSlot("create_prompt", s) EXCEPT !.prompt = p, !.content = c])

OpenUpdatePrompt(e) ==
    \E s \in Slots, p \in Prompts, c \in Contents \ {Empty} :
       /\ files[<<s, p>>] \notin {Missing, c}
       /\ Open(e, [OnSlot("update_prompt", s) EXCEPT !.prompt = p, !.content = c,
                                                 !.digest = files[<<s, p>>]])

OpenDeletePrompt(e) ==
    \E s \in Slots, p \in Prompts :
       /\ files[<<s, p>>] # Missing
       /\ Open(e, [OnSlot("delete_prompt", s) EXCEPT !.prompt = p,
                                                 !.digest = files[<<s, p>>]])

OpenRoutines(e) ==
    \E s \in Slots, uses \in SUBSET Prompts :
       Open(e, [OnSlot("routines", s) EXCEPT !.uses = uses])

OpenSelector(e) ==
    \E s \in Slots, m \in {OwnMemory} \cup Channels :
       Open(e, [OnSlot("selector", s) EXCEPT !.memory = m])

OpenChannelCreate(e) == \E ch \in Channels : Open(e, OnChannel("channel_create", ch))
OpenChannelRekey(e) ==
    \E ch, new \in Channels :
       ch # new /\ Open(e, [OnChannel("channel_rekey", ch) EXCEPT !.new = new])
OpenChannelDelete(e) == \E ch \in Channels : Open(e, OnChannel("channel_delete", ch))

(* The editor of a memory shows it as empty until it exists. *)
Shown(m) == IF memory[m] = Missing THEN Empty ELSE memory[m]

OpenContent(e) ==
    \E s \in Slots, c \in Contents :
       /\ Exists(config, s) /\ MemoryOf(config, s) # RunMemory
       /\ c # Shown(MemoryOf(config, s))
       /\ Open(e, [OnSlot("content", s) EXCEPT !.content = c,
                                           !.digest = Shown(MemoryOf(config, s))])

OpenChannelContent(e) ==
    \E ch \in config.channels, c \in Contents :
       /\ c # Shown(ch)
       /\ Open(e, [OnChannel("channel_content", ch) EXCEPT !.content = c,
                                                       !.digest = Shown(ch)])

OpenForm(e) ==
    \/ OpenCreateAgent(e) \/ OpenRemoveAgent(e) \/ OpenMove(e)
    \/ OpenCreatePrompt(e) \/ OpenUpdatePrompt(e) \/ OpenDeletePrompt(e)
    \/ OpenRoutines(e) \/ OpenProfile(e) \/ OpenRuntime(e) \/ OpenPermissions(e)
    \/ OpenSelector(e) \/ OpenChannelContent(e)
    \/ OpenChannelCreate(e) \/ OpenChannelRekey(e) \/ OpenChannelDelete(e)
    \/ OpenContent(e) \/ OpenSubmit(e)

-----------------------------------------------------------------------------
(* Steps of a request. *)

At(e, kind, step) == op[e].pc = step /\ op[e].kind = kind
Go(e, r) == op' = [op EXCEPT ![e] = r]
Finish(e) == Go(e, NoRequest)
Step(e, step) == Go(e, [op[e] EXCEPT !.pc = step])

(* The configuration c with another entry for one agent. *)
WithAgent(c, s, agent) == [c EXCEPT !.agents[s] = agent]

(* ConfigStore.patch and ConfigStore.replace: compare, then write. *)
Commit(e, c) == ConfigReady /\ config = op[e].page /\ Valid(c) /\ config' = c

(* The page's form reaches a handler that reads the configuration again and
   compares only the page's revision. *)
Fresh(e) == FreshForms => config = op[e].page

(* create_agent: create_instance under the team's lock. *)
StartCreateAgent(e) ==
    /\ At(e, "create_agent", "open")
    /\ Go(e, Locking(op[e], {TeamLock(op[e].slot[1])}, "create"))
    /\ UNCHANGED <<config, files, spaces, memory, jobs, begun, deaths>>

CreateAgent(e) ==
    /\ At(e, "create_agent", "create") /\ ~Exists(config, op[e].slot)
    /\ Commit(e, WithAgent(config, op[e].slot, NewAgent))
    /\ Finish(e) /\ UNCHANGED <<files, spaces, memory, jobs, begun, deaths>>

(* remove_agent: the entries are read, the agent is removed under the team's
   lock, and its prompt files are deleted afterwards. *)
StartRemove(e) ==
    /\ At(e, "remove_agent", "open") /\ ConfigReady /\ Fresh(e)
    /\ Exists(config, op[e].slot) /\ Readable(config, op[e].slot)
    /\ Go(e, Locking([op[e] EXCEPT !.entries = Entries(config, op[e].slot)],
                     {TeamLock(op[e].slot[1])}, "remove"))
    /\ UNCHANGED <<config, files, spaces, memory, jobs, begun, deaths>>

Remove(e) ==
    /\ At(e, "remove_agent", "remove") /\ Exists(config, op[e].slot)
    /\ Commit(e, WithAgent(config, op[e].slot, NoAgent))
    /\ IF Entered(op[e].entries) = {} THEN Finish(e)
       ELSE Go(e, Locking([op[e] EXCEPT !.held = {}], {SpaceLock(op[e].slot)}, "purge"))
    /\ UNCHANGED <<files, spaces, memory, jobs, begun, deaths>>

(* _delete_namespace_locked: all of the entries as they were read, or none. *)
Matches(s, entries) == \A p \in Entered(entries) : files[<<s, p>>] = entries[p]
Without(s, entries) == [x \in DOMAIN files |->
                           IF x[1] = s /\ x[2] \in Entered(entries) THEN Missing ELSE files[x]]

Purge(e) ==
    /\ At(e, "remove_agent", "purge")
    /\ files' = IF Matches(op[e].slot, op[e].entries)
                THEN Without(op[e].slot, op[e].entries) ELSE files
    /\ Finish(e) /\ UNCHANGED <<config, spaces, memory, jobs, begun, deaths>>

-----------------------------------------------------------------------------
(* move: preview_move, then move_instance. *)

Previewed(e) ==
    /\ config = op[e].page /\ Exists(config, op[e].slot)
    /\ Readable(config, op[e].slot) /\ ~Blocked(config, op[e].slot, op[e].to)

(* agent_move_apply makes the preview again and applies it. *)
StartMove(e) ==
    /\ At(e, "move", "open") /\ ConfigReady /\ Previewed(e)
    /\ Go(e, Locking([op[e] EXCEPT !.entries = Entries(config, op[e].slot),
                                   !.revision = memory[op[e].slot]],
                     {TeamLock(op[e].slot[1]), TeamLock(op[e].to[1])}, "namespaces"))
    /\ UNCHANGED <<config, files, spaces, memory, jobs, begun, deaths>>

NamespaceTransaction(e) ==
    /\ At(e, "move", "namespaces")
    /\ Go(e, Locking(op[e], {SpaceLock(op[e].slot), SpaceLock(op[e].to)}, "reload"))
    /\ UNCHANGED <<config, files, spaces, memory, jobs, begun, deaths>>

\* Mutant: the blocks of the preview are not looked at again under the locks.
MoveAcceptableAsPreviewed(e) ==
    /\ config = op[e].page
    /\ Entries(config, op[e].slot) = op[e].entries

MoveAcceptable(e) ==
    /\ config = op[e].page
    /\ Entries(config, op[e].slot) = op[e].entries
    /\ ~Blocked(config, op[e].slot, op[e].to)

ReloadMove(e) ==
    /\ At(e, "move", "reload") /\ ConfigReady
    /\ IF MoveAcceptable(e)
       THEN Go(e, Locking(op[e], IF Owned(config, op[e].slot) = {} THEN {}
                                 ELSE {MemoryLock(op[e].slot), MemoryLock(op[e].to)}, "stage"))
       ELSE Finish(e)
    /\ UNCHANGED <<config, files, spaces, memory, jobs, begun, deaths>>

StageMemory(e) ==
    /\ At(e, "move", "stage")
    /\ IF Owned(op[e].page, op[e].slot) = {}
       THEN Step(e, "copy") /\ UNCHANGED memory
       ELSE IF memory[op[e].slot] = op[e].revision /\ memory[op[e].to] = Missing
            THEN /\ memory' = [memory EXCEPT ![op[e].to] =
                                  IF op[e].copy /\ op[e].revision # Missing
                                  THEN op[e].revision ELSE Empty]
                 /\ Step(e, "copy")
            ELSE Finish(e) /\ UNCHANGED memory
    /\ UNCHANGED <<config, files, spaces, jobs, begun, deaths>>

CopyPrompts(e) ==
    /\ At(e, "move", "copy")
    /\ files' = [x \in DOMAIN files |->
                    IF x[1] = op[e].to /\ x[2] \in Entered(op[e].entries)
                    THEN op[e].entries[x[2]] ELSE files[x]]
    /\ spaces' = IF Entered(op[e].entries) = {} THEN spaces ELSE spaces \cup {op[e].to}
    /\ Step(e, "commit") /\ UNCHANGED <<config, memory, jobs, begun, deaths>>

MoveAgent(e) ==
    /\ At(e, "move", "commit")
    /\ Commit(e, WithAgent(WithAgent(config, op[e].to, config.agents[op[e].slot]),
                           op[e].slot, NoAgent))
    /\ Step(e, "cleanup") /\ UNCHANGED <<files, spaces, memory, jobs, begun, deaths>>

(* An I/O error while the target is prepared, or a refused patch: memories
   first, then the copied prompts; the directories stay. *)
RollbackMove(e) ==
    /\ \/ At(e, "move", "copy")
       \/ At(e, "move", "commit") /\ ConfigReady
    /\ memory' = IF Owned(op[e].page, op[e].slot) = {} THEN memory
                 ELSE [memory EXCEPT ![op[e].to] = Missing]
    /\ files' = IF op[e].pc = "commit" THEN Without(op[e].to, op[e].entries) ELSE files
    /\ Finish(e) /\ UNCHANGED <<config, spaces, jobs, begun, deaths>>

CleanupMove(e) ==
    /\ At(e, "move", "cleanup")
    /\ files' = Without(op[e].slot, op[e].entries)
    /\ Finish(e) /\ UNCHANGED <<config, spaces, memory, jobs, begun, deaths>>

-----------------------------------------------------------------------------
(* Private prompts: PromptService over PromptStore. *)

CreateFile(e) ==
    /\ At(e, "create_prompt", "open") /\ ConfigReady /\ Exists(config, op[e].slot)
    /\ Free(SpaceLock(op[e].slot)) /\ files[<<op[e].slot, op[e].prompt>>] = Missing
    /\ files' = [files EXCEPT ![<<op[e].slot, op[e].prompt>>] = op[e].content]
    /\ spaces' = spaces \cup {op[e].slot}
    /\ Step(e, "register") /\ UNCHANGED <<config, memory, jobs, begun, deaths>>

Register(e) ==
    /\ At(e, "create_prompt", "register") /\ Exists(config, op[e].slot)
    /\ op[e].prompt \notin Registered(config, op[e].slot)
    /\ Commit(e, WithAgent(config, op[e].slot, [config.agents[op[e].slot] EXCEPT
                                           !.prompts = @ \cup {op[e].prompt}]))
    /\ Finish(e) /\ UNCHANGED <<files, spaces, memory, jobs, begun, deaths>>

(* A conflict or an error: the new file is deleted again. *)
RegisterFails(e) ==
    /\ At(e, "create_prompt", "register") /\ ConfigReady
    /\ Step(e, "undo") /\ UNCHANGED <<config, files, spaces, memory, jobs, begun, deaths>>

(* PromptStore.delete: only what was read. *)
Unlink(s, p, digest) ==
    files' = IF files[<<s, p>>] = digest THEN [files EXCEPT ![<<s, p>>] = Missing] ELSE files

UndoCreate(e) ==
    /\ At(e, "create_prompt", "undo") /\ Free(SpaceLock(op[e].slot))
    /\ Unlink(op[e].slot, op[e].prompt, op[e].content)
    /\ Finish(e) /\ UNCHANGED <<config, spaces, memory, jobs, begun, deaths>>

UpdatePrompt(e) ==
    /\ At(e, "update_prompt", "open") /\ ConfigReady /\ Exists(config, op[e].slot)
    /\ Free(SpaceLock(op[e].slot)) /\ files[<<op[e].slot, op[e].prompt>>] = op[e].digest
    /\ files' = [files EXCEPT ![<<op[e].slot, op[e].prompt>>] = op[e].content]
    /\ Finish(e) /\ UNCHANGED <<config, spaces, memory, jobs, begun, deaths>>

\* Mutant: routines that name the prompt are not looked for.
DeletableUnchecked(e) ==
    /\ Exists(config, op[e].slot) /\ op[e].prompt \in Registered(config, op[e].slot)
    /\ files[<<op[e].slot, op[e].prompt>>] = op[e].digest

Deletable(e) ==
    /\ Exists(config, op[e].slot) /\ op[e].prompt \in Registered(config, op[e].slot)
    /\ op[e].prompt \notin config.agents[op[e].slot].uses
    /\ files[<<op[e].slot, op[e].prompt>>] = op[e].digest

StartDelete(e) ==
    /\ At(e, "delete_prompt", "open") /\ ConfigReady /\ Fresh(e)
    /\ Free(SpaceLock(op[e].slot)) /\ Deletable(e)
    /\ Step(e, "unregister") /\ UNCHANGED <<config, files, spaces, memory, jobs, begun, deaths>>

Unregister(e) ==
    /\ At(e, "delete_prompt", "unregister")
    /\ Exists(config, op[e].slot) /\ op[e].prompt \in Registered(config, op[e].slot)
    /\ Commit(e, WithAgent(config, op[e].slot, [config.agents[op[e].slot] EXCEPT
                                           !.prompts = @ \ {op[e].prompt}]))
    /\ Step(e, "unlink") /\ UNCHANGED <<files, spaces, memory, jobs, begun, deaths>>

UnlinkPrompt(e) ==
    /\ At(e, "delete_prompt", "unlink") /\ Free(SpaceLock(op[e].slot))
    /\ Unlink(op[e].slot, op[e].prompt, op[e].digest)
    /\ Finish(e) /\ UNCHANGED <<config, spaces, memory, jobs, begun, deaths>>

-----------------------------------------------------------------------------
(* Patches of an agent's entry. save_routines reads the prompt files inside
   its patch, so it waits for a namespace lock with config.yaml locked. *)

EnterRoutines(e) ==
    /\ At(e, "routines", "open") /\ ConfigReady
    /\ config = op[e].page /\ Exists(config, op[e].slot)
    /\ Go(e, [op[e] EXCEPT !.pc = "routines", !.held = {ConfigLock}])
    /\ UNCHANGED <<config, files, spaces, memory, jobs, begun, deaths>>

(* load_choices and _validate_prompt_choices *)
RoutinesAcceptable(e) ==
    /\ Readable(config, op[e].slot)
    /\ op[e].uses \subseteq Registered(config, op[e].slot)

SaveRoutines(e) ==
    /\ At(e, "routines", "routines") /\ RoutinesAcceptable(e)
    /\ config' = WithAgent(config, op[e].slot, [config.agents[op[e].slot] EXCEPT !.uses = op[e].uses])
    /\ Finish(e) /\ UNCHANGED <<files, spaces, memory, jobs, begun, deaths>>

(* patch_agent_profile, patch_agent_runtime, save_permissions *)
SaveSection(e) ==
    /\ At(e, "section", "open") /\ Exists(config, op[e].slot)
    /\ Commit(e, WithAgent(config, op[e].slot, [config.agents[op[e].slot] EXCEPT !.section = ~@]))
    /\ Finish(e) /\ UNCHANGED <<files, spaces, memory, jobs, begun, deaths>>

-----------------------------------------------------------------------------
(* Memory selectors and channels: the request edits the configuration it
   loaded and replaces the page's by it. *)

Edited(e) ==
    CASE op[e].kind = "selector" ->
            WithAgent(config, op[e].slot, [config.agents[op[e].slot] EXCEPT !.memory = op[e].memory])
      [] op[e].kind = "channel_create" ->
            [config EXCEPT !.channels = @ \cup {op[e].channel}]
      [] op[e].kind = "channel_rekey" ->
            [config EXCEPT !.channels = (@ \ {op[e].channel}) \cup {op[e].new}]

EditAcceptable(e) ==
    CASE op[e].kind = "selector" -> Exists(config, op[e].slot)
      [] op[e].kind = "channel_create" -> op[e].channel \notin config.channels
      [] op[e].kind = "channel_rekey" -> /\ op[e].channel \in config.channels
                                         /\ op[e].new \notin config.channels
                                         /\ ~Referenced(config, op[e].channel)

EditLoaded(e) ==
    /\ op[e].pc = "open" /\ op[e].kind \in {"selector", "channel_create", "channel_rekey"}
    /\ ConfigReady /\ Fresh(e) /\ EditAcceptable(e) /\ Valid(Edited(e))
    /\ Go(e, [op[e] EXCEPT !.pc = "replace", !.seen = Edited(e)])
    /\ UNCHANGED <<config, files, spaces, memory, jobs, begun, deaths>>

ReplaceConfig(e) ==
    /\ op[e].pc = "replace" /\ Commit(e, op[e].seen)
    /\ Finish(e) /\ UNCHANGED <<files, spaces, memory, jobs, begun, deaths>>

\* Mutant: a channel is deleted without the teams' operation locks.
ChannelLocksNone == {}

(* revision_bound_team_operation(all_teams) *)
ChannelLocks == {TeamLock(t) : t \in Teams}

StartChannelDelete(e) ==
    /\ At(e, "channel_delete", "open") /\ ConfigReady
    /\ Go(e, Locking(op[e], ChannelLocks, "check"))
    /\ UNCHANGED <<config, files, spaces, memory, jobs, begun, deaths>>

CheckChannel(e) ==
    /\ At(e, "channel_delete", "check") /\ ConfigReady /\ config = op[e].page
    /\ op[e].channel \in config.channels /\ ~Referenced(config, op[e].channel)
    /\ ActiveOn(op[e].channel) = {}
    /\ Step(e, "archive") /\ UNCHANGED <<config, files, spaces, memory, jobs, begun, deaths>>

(* try_locked: a busy memory ends the request. *)
ArchiveChannel(e) ==
    /\ At(e, "channel_delete", "archive") /\ Free(MemoryLock(op[e].channel))
    /\ memory' = [memory EXCEPT ![op[e].channel] = Missing]
    /\ Go(e, [op[e] EXCEPT !.pc = "drop", !.held = @ \cup {MemoryLock(op[e].channel)},
                          !.archive = memory[op[e].channel]])
    /\ UNCHANGED <<config, files, spaces, jobs, begun, deaths>>

DropChannel(e) ==
    /\ At(e, "channel_delete", "drop")
    /\ Commit(e, [config EXCEPT !.channels = @ \ {op[e].channel}])
    /\ Finish(e) /\ UNCHANGED <<files, spaces, memory, jobs, begun, deaths>>

(* A conflict: the memory's lock is released before the archive is renamed
   back, the teams' locks are still held. *)
DropRefused(e) ==
    /\ At(e, "channel_delete", "drop") /\ ConfigReady /\ config # op[e].page
    /\ Go(e, [op[e] EXCEPT !.pc = "undo", !.held = @ \ {MemoryLock(op[e].channel)}])
    /\ UNCHANGED <<config, files, spaces, memory, jobs, begun, deaths>>

(* The rename fails when the directory exists again. *)
RestoreArchive(e) ==
    /\ At(e, "channel_delete", "undo")
    /\ memory' = IF memory[op[e].channel] = Missing
                 THEN [memory EXCEPT ![op[e].channel] = op[e].archive] ELSE memory
    /\ Finish(e) /\ UNCHANGED <<config, files, spaces, jobs, begun, deaths>>

-----------------------------------------------------------------------------
(* A memory edited in the dashboard: the selector is resolved in the current
   configuration, then the memory is compared and written without waiting. *)

ResolveContent(e) ==
    /\ At(e, "content", "open") /\ ConfigReady /\ Exists(config, op[e].slot)
    /\ config.agents[op[e].slot].memory = op[e].page.agents[op[e].slot].memory
    /\ Step(e, "save") /\ UNCHANGED <<config, files, spaces, memory, jobs, begun, deaths>>

ResolveChannelContent(e) ==
    /\ At(e, "channel_content", "open") /\ ConfigReady /\ op[e].channel \in config.channels
    /\ Step(e, "save") /\ UNCHANGED <<config, files, spaces, memory, jobs, begun, deaths>>

(* try_update_memory *)
SaveContent(e) ==
    LET m == IF op[e].kind = "content" THEN MemoryOf(op[e].page, op[e].slot) ELSE op[e].channel IN
    /\ op[e].pc = "save" /\ Free(MemoryLock(m))
    /\ memory' = [memory EXCEPT ![m] = IF Shown(m) = op[e].digest THEN op[e].content ELSE Shown(m)]
    /\ Finish(e) /\ UNCHANGED <<config, files, spaces, jobs, begun, deaths>>

-----------------------------------------------------------------------------
(* submit_job_request: load, team lock, reload, resolve, record. A conflict
   is tried again, at most three times; the last one ends the request. *)

(* select_effective_memory *)
Effective(c, e) == IF op[e].override = Missing THEN c.agents[op[e].slot].memory ELSE op[e].override

StartSubmit(e) ==
    /\ At(e, "submit", "open") /\ ConfigReady
    /\ Exists(config, op[e].slot) /\ Declared(config, Effective(config, e))
    /\ Go(e, Locking([op[e] EXCEPT !.seen = config], {TeamLock(op[e].slot[1])}, "load"))
    /\ UNCHANGED <<config, files, spaces, memory, jobs, begun, deaths>>

LoadForJob(e) ==
    /\ At(e, "submit", "load") /\ ConfigReady /\ config = op[e].seen
    /\ Step(e, "resolve") /\ UNCHANGED <<config, files, spaces, memory, jobs, begun, deaths>>

CreateJob(e) ==
    /\ At(e, "submit", "resolve") /\ Readable(op[e].seen, op[e].slot)
    /\ Declared(op[e].seen, Effective(op[e].seen, e))
    /\ \E j \in Jobs :
          /\ jobs[j] = NoJob
          /\ jobs' = [jobs EXCEPT ![j] = [slot |-> op[e].slot, running |-> FALSE,
                                          memory |-> Resolve(op[e].slot, Effective(op[e].seen, e))]]
    /\ Finish(e) /\ UNCHANGED <<config, files, spaces, memory, begun, deaths>>

(* The worker, as far as memories go: it holds the lock while it runs and may
   publish; a run-scoped memory is its own. *)
JobStarts(j) ==
    /\ jobs[j] # NoJob /\ ~jobs[j].running
    /\ jobs[j].memory # RunMemory => Free(MemoryLock(jobs[j].memory))
    /\ jobs' = [jobs EXCEPT ![j].running = TRUE]
    /\ memory' = IF jobs[j].memory = RunMemory THEN memory
                 ELSE [memory EXCEPT ![jobs[j].memory] = Shown(jobs[j].memory)]
    /\ UNCHANGED <<config, files, spaces, op, begun, deaths>>

JobEnds(j) ==
    /\ jobs[j] # NoJob
    /\ \E c \in Contents :
          memory' = IF jobs[j].running /\ jobs[j].memory # RunMemory
                    THEN [memory EXCEPT ![jobs[j].memory] = c] ELSE memory
    /\ jobs' = [jobs EXCEPT ![j] = NoJob]
    /\ UNCHANGED <<config, files, spaces, op, begun, deaths>>

-----------------------------------------------------------------------------
(* A check that fails, a conflict or an error, where nothing is to be undone. *)
Refuse(e) ==
    /\ op[e].pc \in {"open", "create", "remove", "unregister", "routines", "replace",
                     "check", "archive", "save", "load", "resolve"}
    /\ Finish(e) /\ UNCHANGED <<config, files, spaces, memory, jobs, begun, deaths>>

Dies(e) ==
    /\ op[e].pc \notin {"idle", "open"} /\ deaths < MaxDeaths
    /\ Finish(e) /\ deaths' = deaths + 1
    /\ UNCHANGED <<config, files, spaces, memory, jobs, begun>>

ASSUME InitialAgents ==
    \A s \in InitialStates : Valid(s.config) /\ Runnable(s.config, s.files)

AgentsInit ==
    /\ \E s \in InitialStates :
          /\ config = s.config /\ files = s.files /\ memory = s.memory
          /\ spaces = {x \in Slots : \E p \in Prompts : s.files[<<x, p>>] # Missing}
    /\ jobs = [j \in Jobs |-> NoJob]
    /\ op = [e \in Editors |-> NoRequest]
    /\ begun = 0 /\ deaths = 0

Request(e) ==
    \/ OpenForm(e) \/ Acquire(e) \/ Refuse(e) \/ Dies(e)
    \/ StartCreateAgent(e) \/ CreateAgent(e) \/ StartRemove(e) \/ Remove(e) \/ Purge(e)
    \/ StartMove(e) \/ NamespaceTransaction(e) \/ ReloadMove(e) \/ StageMemory(e)
    \/ CopyPrompts(e) \/ MoveAgent(e) \/ RollbackMove(e) \/ CleanupMove(e)
    \/ CreateFile(e) \/ Register(e) \/ RegisterFails(e) \/ UndoCreate(e)
    \/ UpdatePrompt(e) \/ StartDelete(e) \/ Unregister(e) \/ UnlinkPrompt(e)
    \/ EnterRoutines(e) \/ SaveRoutines(e) \/ SaveSection(e)
    \/ EditLoaded(e) \/ ReplaceConfig(e)
    \/ StartChannelDelete(e) \/ CheckChannel(e) \/ ArchiveChannel(e) \/ DropChannel(e)
    \/ DropRefused(e) \/ RestoreArchive(e)
    \/ ResolveContent(e) \/ ResolveChannelContent(e) \/ SaveContent(e)
    \/ StartSubmit(e) \/ LoadForJob(e) \/ CreateJob(e)

AgentsNext == (\E e \in Editors : Request(e)) \/ (\E j \in Jobs : JobStarts(j) \/ JobEnds(j))

AgentsSpec == AgentsInit /\ [][AgentsNext]_agentsVars

-----------------------------------------------------------------------------
Locks == {TeamLock(n) : n \in Teams} \cup {SpaceLock(s) : s \in Slots}
         \cup {MemoryLock(m) : m \in Slots \cup Channels} \cup {ConfigLock}
Selectors == {RunMemory, OwnMemory} \cup Channels
File == Contents \cup {Missing}

Job == [slot : Slots, running : BOOLEAN, memory : Slots \cup Channels \cup {RunMemory}]

RequestType ==
    [pc : RequestSteps, then : RequestSteps, needs : SUBSET Locks, held : SUBSET Locks,
     kind : Kinds \cup {"none"}, slot : Slots \cup {Missing}, to : Slots \cup {Missing},
     copy : BOOLEAN, prompt : Prompts \cup {Missing}, content : File, digest : File,
     uses : SUBSET Prompts, memory : Selectors \cup {Missing},
     channel : Channels \cup {Missing}, new : Channels \cup {Missing},
     override : Selectors \cup {Missing}, page : Config \cup {Missing},
     entries : [Prompts -> File], revision : File, seen : Config \cup {Missing},
     archive : File]

(* Every variable has its type, and every configuration that is stored would
   be accepted by parse_config. *)
AgentsTypeOK ==
    /\ config \in Config /\ Valid(config)
    /\ files \in [Slots \X Prompts -> File] /\ spaces \subseteq Slots
    /\ memory \in [Slots \cup Channels -> File]
    /\ jobs \in [Jobs -> Job \cup {NoJob}] /\ op \in [Editors -> RequestType]
    /\ \A e \in Editors : op[e].pc # "idle" => op[e].kind \in Kinds /\ op[e].page \in Config
    /\ begun \in 0..MaxOps /\ deaths \in 0..MaxDeaths

(* A routine can always be run: the private prompt it names is registered and
   every registered prompt has its file, whatever is created, deleted, moved
   or removed at the same time and wherever a request dies. *)
RoutinesRunnable == Runnable(config, files)

(* When an agent changes its team, its private prompts and the memory it owns
   are at the new team's place, as they are at the old one (or empty, if the
   user asked for that), and no job of the agent is active in either team. *)
MovedWhole ==
    [][\A s, to \in Slots :
          (/\ s[2] = to[2] /\ Exists(config, s) /\ ~Exists(config', s)
           /\ ~Exists(config, to) /\ Exists(config', to))
          => /\ \A p \in Registered(config, s) :
                   files[<<to, p>>] = files[<<s, p>>] /\ files[<<s, p>>] # Missing
             /\ ActiveFor(s) = {} /\ ActiveFor(to) = {}
             /\ Owned(config, s) # {} => memory[to] \in {Empty, memory[s]} \ {Missing}]_agentsVars

(* The memory of a channel is never archived under a job that was submitted
   for it, queued or running. *)
ArchiveSparesJobs ==
    [][\A ch \in Channels : memory[ch] # Missing /\ memory'[ch] = Missing
                            => ActiveOn(ch) = {}]_agentsVars

(* No editors wait for each other in a circle. *)
NoCircularWait ==
    ~ \E e, f \in Editors : /\ e # f
                            /\ \E l \in WaitsFor(e) : l \in op[f].held
                            /\ \E l \in WaitsFor(f) : l \in op[e].held

(* The configuration is valid and can be run in every state. *)
AgentsRunnable == AgentsTypeOK /\ RoutinesRunnable
=============================================================================
