---------------------------- MODULE PluginManager ----------------------------
(***************************************************************************)
(* The plugins the server runs: Start, SignalStop, Stop, SignalStopAll and *)
(* the end of a plugin's task, each a turn of the manager's actor; Stop    *)
(* takes further turns while it waits.                                     *)
(*                                                                         *)
(* External: the plugins.  Run() may return a task that has ended, Stop()  *)
(* may throw (a second one of TickLogger does), a task may end by itself.  *)
(* The actor of Stacks runs one turn at a time, and Async.Sleep resumes on *)
(* it.                                                                     *)
(***************************************************************************)
EXTENDS Naturals, SequencesExt

CONSTANTS
  Plugins,  \* bound: the plugins Start() makes
  Names,    \* their names; two may have the same
  Calls     \* bound: calls of Stop()

VARIABLES
  name,            \* Info.Name of each plugin
  task,            \* its task: "none" before Start(), "running", "ended",
                   \*   "failed" when Run() threw
  ending,          \* plugins whose continuation of HookTaskEnd has not run
  subscribed,      \* plugins whose StatusChanged is subscribed to
  runningPlugins,
  asked, refused,  \* plugins whose Stop() was called, and threw
  calls            \* the calls of Stop(): how far, and the plugin asked

plugins == <<name, task, ending, subscribed>>
stops == <<asked, refused>>
vars == <<plugins, runningPlugins, stops, calls>>

NotCalled == [state |-> "none"]

TypeOK ==
  /\ name \in [Plugins -> Names \cup {"none"}]
  /\ task \in [Plugins -> {"none", "running", "ended", "failed"}]
  /\ ending \subseteq Plugins /\ subscribed \subseteq Plugins
  /\ runningPlugins \in Seq(Plugins)
  /\ asked \subseteq Plugins /\ refused \subseteq asked
  /\ calls \in [Calls -> {NotCalled}
        \cup [state : {"waiting", "returned", "failed"}, plugin : Plugins]]

Init ==
  /\ name = [p \in Plugins |-> "none"]
  /\ task = [p \in Plugins |-> "none"]
  /\ ending = {} /\ subscribed = {}
  /\ runningPlugins = <<>>
  /\ asked = {} /\ refused = {}
  /\ calls = [c \in Calls |-> NotCalled]

------------------------------------------------------------------------------
(* Starting and ending                                                     *)

(* Mutant: the continuation of a task that has ended runs on the spot,     *)
(* before the plugin is added.                                             *)
StartHooksAtOnce(p, n) ==
  /\ task[p] = "none"
  /\ name' = [name EXCEPT ![p] = n]
  /\ runningPlugins' = Append(runningPlugins, p)
  /\ \E t \in {"running", "ended"} :
       /\ task' = [task EXCEPT ![p] = t]
       /\ subscribed' = IF t = "ended" THEN subscribed ELSE subscribed \cup {p}
  /\ UNCHANGED <<ending, stops, calls>>

(* Start().  When the plugin cannot be loaded or Initialize() throws there *)
(* is nothing to tell; when Run() throws its status stays subscribed.      *)
Start(p, n) ==
  /\ task[p] = "none"
  /\ name' = [name EXCEPT ![p] = n]
  /\ subscribed' = subscribed \cup {p}
  /\ \E t \in {"running", "ended", "failed"} :
       /\ task' = [task EXCEPT ![p] = t]
       /\ ending' = IF t = "ended" THEN ending \cup {p} ELSE ending
       /\ runningPlugins' =
            IF t = "failed" THEN runningPlugins ELSE Append(runningPlugins, p)
  /\ UNCHANGED <<stops, calls>>

TaskEnds(p) ==
  /\ task[p] = "running"
  /\ task' = [task EXCEPT ![p] = "ended"]
  /\ ending' = ending \cup {p}
  /\ UNCHANGED <<name, subscribed, runningPlugins, stops, calls>>

(* Mutant: the plugin stays in the list.                                   *)
HandleEndKeeps(p) ==
  /\ p \in ending
  /\ ending' = ending \ {p}
  /\ subscribed' = subscribed \ {p}
  /\ UNCHANGED <<name, task, runningPlugins, stops, calls>>

(* The continuation of HookTaskEnd, on the actor.                          *)
HandleEnd(p) ==
  /\ p \in ending
  /\ ending' = ending \ {p}
  /\ subscribed' = subscribed \ {p}
  /\ runningPlugins' = RemoveFirst(runningPlugins, p)
  /\ UNCHANGED <<name, task, stops, calls>>

------------------------------------------------------------------------------
(* Stopping                                                                *)

(* The plugins of ps are asked to stop; the last of them throws if `throws' *)
(* and is taken off the list.                                              *)
TryStop(ps, throws) ==
  /\ asked' = asked \cup ToSet(ps)
  /\ IF throws
       THEN /\ ps # <<>>
            /\ refused' = refused \cup {Last(ps)}
            /\ runningPlugins' = RemoveFirst(runningPlugins, Last(ps))
       ELSE UNCHANGED <<refused, runningPlugins>>
  /\ UNCHANGED plugins

TryStopPlugin(p) == \E throws \in BOOLEAN : TryStop(<<p>>, throws)

Named(list, n) == {p \in ToSet(list) : name[p] = n}

(* The one Seq.tryFind finds.                                              *)
FirstNamed(n) ==
  runningPlugins[SelectInSeq(runningPlugins, LAMBDA p : name[p] = n)]

(* It fails, changing nothing, when no plugin has the name.                *)
SignalStop(n) ==
  /\ Named(runningPlugins, n) # {}
  /\ TryStopPlugin(FirstNamed(n))
  /\ UNCHANGED calls

(* The enumeration of the list fails once a plugin was removed from it.    *)
SignalStopAll ==
  /\ \/ TryStop(runningPlugins, FALSE)
     \/ \E i \in DOMAIN runningPlugins : TryStop(SubSeq(runningPlugins, 1, i), TRUE)
  /\ UNCHANGED calls

(* Stop() asks the first plugin of the name and waits while the list holds *)
(* any.                                                                    *)
Stop(c, n) ==
  /\ calls[c] = NotCalled
  /\ Named(runningPlugins, n) # {}
  /\ TryStopPlugin(FirstNamed(n))
  /\ calls' = [calls EXCEPT ![c] =
       [state |-> IF Named(runningPlugins', n) = {} THEN "returned" ELSE "waiting",
        plugin |-> FirstNamed(n)]]

Waiting(c) == calls[c].state = "waiting"
Others(c) == Named(runningPlugins, name[calls[c].plugin])

(* After a sleep: the list holds no plugin of the name any more, or the    *)
(* call was cancelled.                                                     *)
Resume(c) ==
  /\ Waiting(c)
  /\ Others(c) = {}
  /\ calls' = [calls EXCEPT ![c].state = "returned"]
  /\ UNCHANGED <<plugins, runningPlugins, stops>>

Cancel(c) ==
  /\ Waiting(c)
  /\ calls' = [calls EXCEPT ![c].state = "failed"]
  /\ UNCHANGED <<plugins, runningPlugins, stops>>

Next ==
  \/ \E p \in Plugins, n \in Names : Start(p, n)
  \/ \E p \in Plugins : TaskEnds(p) \/ HandleEnd(p)
  \/ \E n \in Names : SignalStop(n) \/ \E c \in Calls : Stop(c, n)
  \/ SignalStopAll
  \/ \E c \in Calls : Resume(c) \/ Cancel(c)

(* The actor takes its turns, and a plugin that was asked to stop and did  *)
(* not refuse does so.                                                     *)
Spec ==
  /\ Init /\ [][Next]_vars
  /\ \A p \in Plugins : /\ WF_vars(HandleEnd(p))
                        /\ WF_vars(p \in asked \ refused /\ TaskEnds(p))
  /\ \A c \in Calls : WF_vars(Resume(c))

------------------------------------------------------------------------------
(* Properties                                                              *)

Live == {p \in Plugins : task[p] = "running"} \cup ending

(* The list holds every plugin whose end is still to come, once, but for   *)
(* those whose Stop() threw; its status is subscribed to just as long, the *)
(* refusal notwithstanding, and for ever when Run() threw.                 *)
ListedExactly ==
  /\ IsInjective(runningPlugins)
  /\ ToSet(runningPlugins) = Live \ refused
  /\ subscribed = Live \cup {p \in Plugins : task[p] = "failed"}

(* Stop() comes to an end, unless the list holds another plugin of the     *)
(* name that nobody asks to stop: it asks the first one only.              *)
EventuallyReturns ==
  \A c \in Calls :
    Waiting(c) ~> (~Waiting(c) \/ ~(Others(c) \subseteq asked))

==============================================================================
