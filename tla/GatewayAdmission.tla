-------------------------- MODULE GatewayAdmission --------------------------
(***************************************************************************)
(* Tenant admission in the gateway: the goroutines that carry a changed    *)
(* configuration file to the handler's map of admitted tenants, and their  *)
(* shutdown (pkg/monitoring-gateway/config_watcher.go and handler.go,      *)
(* cmd/monitoring-gateway/gateway.go), started with a configuration file.  *)
(*                                                                         *)
(*   watcher    ConfigWatcher.Run: rereads the file on events and ticks    *)
(*   forwarder  ConfigFromWatcher: from the watcher's unbuffered channel   *)
(*              to the channel updates, which holds one configuration      *)
(*   applier    the actor of runGateway that calls                         *)
(*              SetAdmissionControlHandler and signals readiness           *)
(*                                                                         *)
(* A configuration is named by its place in the history of the file, so    *)
(* that two with equal contents can be told apart.  Requests only load     *)
(* their tenant's key from the map: a tenant is admitted while it is in    *)
(* keys.                                                                   *)
(***************************************************************************)
EXTENDS Naturals, Sequences

CONSTANTS Tenants,      \* tenant ids
          Bad,          \* contents that fail to load: unreadable, empty, no JSON
          MaxEdits      \* bound: changes of the file

ASSUME MaxEditsAssumption == MaxEdits \in Nat

VARIABLES
    hist,           \* what the file has held; the last is its contents
    loaded,         \* lastLoadedConfigHash, as the index of that content, 0: none
    watcher,        \* "start", "loop", "send" (loaded) or "stopped"
    forwarder,      \* [pc, cfg]: "recv", "send" cfg to updates, or "done"
    updates,        \* the configuration buffered in updates, 0: empty
    applier,        \* [pc, cfg, old]: "idle", "apply" cfg over old, or "done"
    marker,         \* the list stored under "/-/", 0: not stored
    keys,           \* tenants stored in tenantsAdmissionMap
    ready,          \* statusProber.Ready was called
    phase           \* how far run.Group is with interrupting its actors

pipeline == <<loaded, watcher, forwarder, updates>>
admission == <<applier, marker, keys, ready>>
vars == <<hist, pipeline, admission, phase>>

Contents == SUBSET Tenants \cup {Bad}
File == hist[Len(hist)]
\* The list of tenants that an index stands for.
ListOf(i) == IF i = 0 THEN {} ELSE hist[i]

\* run.Group calls the interrupt functions in the order of g.Add: the server's,
\* the forwarder's (cancel of ctx), the applier's (close of cancel).
Phases == {"run", "server", "ctx", "cancel"}
CtxDone == phase \in {"ctx", "cancel"}

Configs == {i \in 1..Len(hist) : hist[i] # Bad}

TypeOK ==
    /\ hist \in Seq(Contents) /\ hist # <<>>
    /\ loaded \in Configs \cup {0}
    /\ watcher \in {"start", "loop", "send", "stopped"}
    /\ watcher = "send" => loaded # 0
    /\ forwarder \in [pc : {"recv", "send", "done"}, cfg : Configs \cup {0}]
    /\ forwarder.pc = "send" => forwarder.cfg # 0
    /\ updates \in Configs \cup {0}
    /\ applier \in [pc : {"idle", "apply", "done"}, cfg : Configs \cup {0},
                    old : Configs \cup {0}]
    /\ applier.pc = "apply" => applier.cfg # 0
    /\ marker \in Configs \cup {0}
    /\ keys \subseteq Tenants
    /\ ready \in BOOLEAN
    /\ phase \in Phases

\* ValidateConfig has loaded the file once before the actors start.
Init ==
    /\ \E c \in SUBSET Tenants : hist = <<c>>
    /\ loaded = 0 /\ watcher = "start"
    /\ forwarder = [pc |-> "recv", cfg |-> 0]
    /\ updates = 0
    /\ applier = [pc |-> "idle", cfg |-> 0, old |-> 0]
    /\ marker = 0 /\ keys = {} /\ ready = FALSE
    /\ phase = "run"

-----------------------------------------------------------------------------
(* The file, and the process being told to stop.                           *)

EditFile(c) ==
    /\ Len(hist) <= MaxEdits
    /\ c # File
    /\ hist' = Append(hist, c)
    /\ UNCHANGED <<pipeline, admission, phase>>

\* A signal, or the server failing: one actor of the group has returned.
Terminate ==
    /\ phase = "run"
    /\ phase' = "server"
    /\ UNCHANGED <<hist, pipeline, admission>>

InterruptForwarder ==
    /\ phase = "server"
    /\ phase' = "ctx"
    /\ UNCHANGED <<hist, pipeline, admission>>

InterruptApplier ==
    /\ phase = "ctx"
    /\ phase' = "cancel"
    /\ UNCHANGED <<hist, pipeline, admission>>

-----------------------------------------------------------------------------
(* ConfigWatcher.Run.                                                      *)

\* Mutant: the error of the load is not looked at.
ChangedUnchecked == loaded # 0 => File # hist[loaded]

\* refresh: a load that fails, or that has the hash of the last one, is left.
Changed == File # Bad /\ (loaded # 0 => File # hist[loaded])

\* Once at the start, then on events of the file and on every tick.
Refresh ==
    /\ watcher \in {"start", "loop"}
    /\ \/ /\ Changed
          /\ loaded' = Len(hist)
          /\ watcher' = "send"
       \/ /\ ~Changed
          /\ watcher' = "loop"
          /\ UNCHANGED loaded
    /\ UNCHANGED <<hist, forwarder, updates, admission, phase>>

\* The send of refresh meets the receive of ConfigFromWatcher.
HandOver ==
    /\ watcher = "send" /\ forwarder.pc = "recv"
    /\ watcher' = "loop"
    /\ forwarder' = [pc |-> "send", cfg |-> loaded]
    /\ UNCHANGED <<hist, loaded, updates, admission, phase>>

\* Mutant: a bare send.
AbandonSendNever ==
    /\ FALSE
    /\ UNCHANGED vars

\* The send of refresh also waits for ctx.
AbandonSend ==
    /\ watcher = "send" /\ CtxDone
    /\ watcher' = "loop"
    /\ UNCHANGED <<hist, loaded, forwarder, updates, admission, phase>>

\* Run returns; its deferred Stop closes the file watcher and the channel.
WatcherStop ==
    /\ watcher = "loop" /\ CtxDone
    /\ watcher' = "stopped"
    /\ UNCHANGED <<hist, loaded, forwarder, updates, admission, phase>>

-----------------------------------------------------------------------------
(* ConfigFromWatcher.                                                      *)

\* Mutant: a select with a default, which drops what finds no room.
ForwardDropping ==
    /\ forwarder.pc = "send"
    /\ updates' = IF updates = 0 THEN forwarder.cfg ELSE updates
    /\ forwarder' = [pc |-> "recv", cfg |-> 0]
    /\ UNCHANGED <<hist, loaded, watcher, admission, phase>>

\* Mutant: room is made by taking back what waits, which is sent again later.
ForwardSwapping ==
    /\ forwarder.pc = "send"
    /\ updates' = forwarder.cfg
    /\ forwarder' = [pc |-> IF updates = 0 THEN "recv" ELSE "send", cfg |-> updates]
    /\ UNCHANGED <<hist, loaded, watcher, admission, phase>>

\* The send to updates waits for room and for nothing else.
Forward ==
    /\ forwarder.pc = "send" /\ updates = 0
    /\ updates' = forwarder.cfg
    /\ forwarder' = [pc |-> "recv", cfg |-> 0]
    /\ UNCHANGED <<hist, loaded, watcher, admission, phase>>

\* ctx is done, or the watcher's channel is closed; updates is closed.
ForwarderStop ==
    /\ forwarder.pc = "recv"
    /\ CtxDone \/ watcher = "stopped"
    /\ forwarder' = [forwarder EXCEPT !.pc = "done"]
    /\ UNCHANGED <<hist, loaded, watcher, updates, admission, phase>>

-----------------------------------------------------------------------------
(* The applier and SetAdmissionControlHandler.                             *)

\* The first list goes under "/-/" before its tenants are stored, a later one
\* after they are.
Receive ==
    /\ applier.pc = "idle" /\ updates # 0
    /\ applier' = [pc |-> "apply", cfg |-> updates, old |-> marker]
    /\ updates' = 0
    /\ marker' = IF marker = 0 THEN updates ELSE marker
    /\ UNCHANGED <<hist, loaded, watcher, forwarder, keys, ready, phase>>

ToAdd == ListOf(applier.cfg) \ ListOf(applier.old)
ToRemove == ListOf(applier.old) \ ListOf(applier.cfg)

AddKey(t) ==
    /\ applier.pc = "apply"
    /\ t \in ToAdd \ keys
    /\ keys' = keys \cup {t}
    /\ UNCHANGED <<hist, pipeline, applier, marker, ready, phase>>

\* Mutant: the whole old list is removed before the new one is added.
RemoveKeyFirst(t) ==
    /\ applier.pc = "apply"
    /\ t \in keys \cap ListOf(applier.old)
    /\ keys' = keys \ {t}
    /\ UNCHANGED <<hist, pipeline, applier, marker, ready, phase>>

\* Additions come first.
RemoveKey(t) ==
    /\ applier.pc = "apply"
    /\ ToAdd \subseteq keys
    /\ t \in ToRemove \cap keys
    /\ keys' = keys \ {t}
    /\ UNCHANGED <<hist, pipeline, applier, marker, ready, phase>>

Applied ==
    /\ applier.pc = "apply"
    /\ ToAdd \subseteq keys /\ ToRemove \cap keys = {}
    /\ marker' = applier.cfg
    /\ ready' = TRUE
    /\ applier' = [pc |-> "idle", cfg |-> 0, old |-> 0]
    /\ UNCHANGED <<hist, pipeline, keys, phase>>

\* cancel is closed, or updates is closed and drained.
ApplierStop ==
    /\ applier.pc = "idle"
    /\ phase = "cancel" \/ (forwarder.pc = "done" /\ updates = 0)
    /\ applier' = [applier EXCEPT !.pc = "done"]
    /\ UNCHANGED <<hist, pipeline, marker, keys, ready, phase>>

-----------------------------------------------------------------------------
(* The specification.                                                      *)

System ==
    \/ Refresh \/ HandOver \/ AbandonSend \/ WatcherStop
    \/ Forward \/ ForwarderStop
    \/ Receive \/ Applied \/ ApplierStop
    \/ \E t \in Tenants : AddKey(t) \/ RemoveKey(t)
    \/ InterruptForwarder \/ InterruptApplier

Next ==
    \/ \E c \in Contents : EditFile(c)
    \/ Terminate
    \/ System

Spec == Init /\ [][Next]_vars

\* Every goroutine runs on, the ticker ticks, and run.Group goes through its
\* interrupts.  Nothing makes the file change or the process stop.
Fairness ==
    /\ WF_vars(Refresh)
    /\ WF_vars(HandOver)
    /\ WF_vars(AbandonSend)
    /\ WF_vars(WatcherStop)
    /\ WF_vars(Forward)
    /\ WF_vars(ForwarderStop)
    /\ WF_vars(Receive \/ Applied \/ (\E t \in Tenants : AddKey(t) \/ RemoveKey(t)))
    /\ WF_vars(ApplierStop)
    /\ WF_vars(InterruptForwarder)
    /\ WF_vars(InterruptApplier)

FairSpec == Spec /\ Fairness

-----------------------------------------------------------------------------
(* Properties.                                                             *)

\* While a configuration replaces another key by key, a tenant of both is
\* admitted at every moment and a tenant of neither never is; between two
\* applications exactly the tenants of the last one are admitted, and none
\* before the first, which is also when the gateway gets ready.
AdmissionSteady ==
    /\ applier.pc = "apply" =>
          /\ ListOf(applier.old) \cap ListOf(applier.cfg) \subseteq keys
          /\ keys \subseteq ListOf(applier.old) \cup ListOf(applier.cfg)
    /\ applier.pc # "apply" => keys = ListOf(marker)
    /\ ready => marker # 0

\* What the admission register of the specification below holds.
InForce == IF applier.pc = "apply" THEN applier.old ELSE marker

Register == INSTANCE AdmissionRegister WITH inForce <- InForce

\* Through two channels, two buffers and a hash that skips reloads, the gateway
\* implements a register that only ever moves on to later valid contents of the
\* file.
ImplementsRegister == Register!Spec

\* A file that has settled on a valid configuration is what the gateway admits,
\* however its changes fell between the stages, unless the process stops.
Follows == <>[](phase = "run" /\ File # Bad => applier.pc = "idle" /\ keys = File)

\* The forwarder has a configuration for a channel that is full and that nobody
\* reads any more.
Stranded == forwarder.pc = "send" /\ updates # 0 /\ applier.pc = "done"

\* Once one actor has returned all the others do, so that run.Group.Run returns;
\* the exception is a forwarder stranded with a second configuration, which its
\* bare send to updates cannot leave.
Terminates ==
    phase # "run" ~> \/ /\ watcher = "stopped"
                        /\ forwarder.pc = "done" /\ applier.pc = "done"
                     \/ Stranded
=============================================================================
